--------------------------- MODULE MCVimcTopology ---------------------------
(* Small values for the constants of VimcTopology.  Scalers, of a sink and a *)
(* source pad, and captures, of a sink pad; names "a" and "b", and "blong"   *)
(* of which strscpy keeps "b" when names are cut.                            *)
EXTENDS VimcTopology, TLC

CONSTANTS o1, o2, o3, a, b, blong, scaler, capture, bogus

MCObj == {o1, o2, o3}
MCObj2 == {o1, o2}
MCName == {a, b, blong}
MCName2 == {a, b}
MCWhole == [n \in MCName |-> n]
MCWhole2 == [n \in MCName2 |-> n]
MCCut == [n \in MCName |-> IF n = blong THEN b ELSE n]
MCEntType == {scaler, capture}
MCDriver == {scaler, capture, bogus}
MCVideo == {capture}
MCSrcPads == [t \in MCEntType |-> IF t = scaler THEN {1} ELSE {}]
MCSnkPads == [t \in MCEntType |-> {0}]
Wire(x, p, y, q) == [src |-> x, srcPad |-> p, snk |-> y, snkPad |-> q]
\* Two entities linked both ways round, and a link to a pad that is not there.
MCLink == {Wire(a, 1, b, 0), Wire(b, 1, a, 0), Wire(a, 1, b, 1)}
MCLink2 == {Wire(a, 1, b, 0), Wire(a, 1, b, 1)}
MCFlags == {0, 1}
Symmetry == Permutations(MCObj)
=============================================================================
