-------------------------- MODULE MCNotifierSignals --------------------------
(* Instances of NotifierSignals for TLC.                                    *)
EXTENDS NotifierSignals

Does(selects, oneInstruction) == [watches |-> selects, atomic |-> oneInstruction]

(* Loops that select and loops that pause; sigaddset as on x86-64, and torn. *)
Each     == {Does(a, b) : a \in BOOLEAN, b \in BOOLEAN}
Usual    == {Does(TRUE, TRUE)}
Torn     == {Does(TRUE, FALSE)}
Pausing  == {Does(FALSE, TRUE)}
=============================================================================
