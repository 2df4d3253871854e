-------------------------------- MODULE Stream --------------------------------
(***************************************************************************)
(* What an incremental transfer promises the requestor: the pieces of the  *)
(* owner's data, each once and in their order; it is told the end when it  *)
(* has all of them, and otherwise that the transfer has failed.            *)
(***************************************************************************)
EXTENDS Integers, Sequences

CONSTANT Chunks

VARIABLES received, outcome
vars == <<received, outcome>>

Init == received = <<>> /\ outcome = "open"

Receive ==
  /\ outcome = "open" /\ Len(received) < Chunks
  /\ received' = Append(received, Len(received) + 1) /\ UNCHANGED outcome

End  == outcome = "open" /\ Len(received) = Chunks /\ outcome' = "done" /\ UNCHANGED received
Fail == outcome = "open" /\ outcome' = "failed" /\ UNCHANGED received

Next == Receive \/ End \/ Fail

Spec == Init /\ [][Next]_vars
==============================================================================
