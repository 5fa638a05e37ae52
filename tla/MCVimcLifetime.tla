--------------------------- MODULE MCVimcLifetime ---------------------------
(* A sensor with a capture of its own frames and one behind a debayer, which *)
(* share it; and a second sensor with its capture, apart from them.  Lists   *)
(* as the scripts make them (captures created last, so first) and reversed.  *)
EXTENDS VimcLifetime, SequencesExt

CONSTANTS sen, deb, capSen, capDeb, other, capOther

MCEnt == {sen, deb, capSen, capDeb, other, capOther}
MCKind == [e \in MCEnt |-> CASE e \in {sen, other} -> "sen"
                             [] e = deb -> "proc"
                             [] e \in {capSen, capDeb, capOther} -> "cap"]
MCChain == [c \in {capSen, capDeb, capOther} |->
               CASE c = capSen -> <<capSen, sen>>
                 [] c = capDeb -> <<capDeb, deb, sen>>
                 [] c = capOther -> <<capOther, other>>]
MCReach == [c \in {capSen, capDeb, capOther} |->
               IF c = capOther THEN {capOther, other} ELSE {capSen, capDeb, deb, sen}]
Newest == <<capOther, capDeb, capSen, other, deb, sen>>
Oldest == Reverse(Newest)
BothOrders == {Newest, Oldest}
AsScripts == {Newest}
Scarce == {"mem", "pads", "sd", "queue", "node", "frame",
           "kthread", "early_stop"}
=============================================================================
