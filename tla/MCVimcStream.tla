---------------------------- MODULE MCVimcStream ----------------------------
(* Small values for the constants of VimcStream: three buffers, and captures *)
(* fed by a sensor through a scaler and by nothing.                          *)
EXTENDS VimcStream, TLC

CONSTANTS b1, b2, b3, cap, sca, sen

MCBuf == {b1, b2, b3}
MCEnt == {cap, sca, sen}
MCKind == [e \in MCEnt |-> IF e = cap THEN "cap" ELSE IF e = sen THEN "sen" ELSE "proc"]
Scaled == <<cap, sca, sen>>
Unlinked == <<cap>>
Calm == {"pipeline", "s_stream"}
AnyLuck == {"pipeline", "s_stream", "kthread", "early_stop"}
EarlyStop == {"early_stop"}
Nothing == {}
BufSymmetry == Permutations(MCBuf)
=============================================================================
