---------------------------- MODULE EventDelivery ----------------------------
(***************************************************************************)
(* What notify_post_event promises a client of the XView Notifier: an      *)
(* event is handed to the client's safe function at most once; those that  *)
(* had to wait are handed in the order in which they began to wait; and    *)
(* none goes missing but by a call that takes all the waiting events of    *)
(* the client away.  An event that comes when the client may be called at  *)
(* once does not wait behind the others.                                   *)
(***************************************************************************)
EXTENDS Sequences, Naturals

CONSTANTS Clients, Events

VARIABLES
  taken,    \* the events the notifier has decided upon
  pending,  \* the events each client has waiting
  handed    \* the events handed to each client's safe function

vars == <<taken, pending, handed>>

TypeOK ==
  /\ taken \subseteq Events
  /\ pending \in [Clients -> Seq(Events)] /\ handed \in [Clients -> Seq(Events)]

Init == taken = {} /\ pending = [c \in Clients |-> <<>>] /\ handed = pending

(* The event waits.                                                        *)
Wait(c, e) ==
  /\ e \notin taken /\ taken' = taken \cup {e}
  /\ pending' = [pending EXCEPT ![c] = Append(@, e)]
  /\ UNCHANGED handed

(* The client is called at once.                                           *)
HandNow(c, e) ==
  /\ e \notin taken /\ taken' = taken \cup {e}
  /\ handed' = [handed EXCEPT ![c] = Append(@, e)]
  /\ UNCHANGED pending

(* The event went to a function for immediate events.                      *)
Divert(e) ==
  /\ e \notin taken /\ taken' = taken \cup {e}
  /\ UNCHANGED <<pending, handed>>

HandNext(c) ==
  /\ pending[c] # <<>>
  /\ pending' = [pending EXCEPT ![c] = Tail(@)]
  /\ handed' = [handed EXCEPT ![c] = Append(@, Head(pending[c]))]
  /\ UNCHANGED taken

(* The client is removed, its pending notifications are flushed, or it no  *)
(* longer has a safe function.                                             *)
Forget(c) ==
  /\ pending' = [pending EXCEPT ![c] = <<>>]
  /\ UNCHANGED <<taken, handed>>

Next ==
  \/ \E c \in Clients, e \in Events : Wait(c, e) \/ HandNow(c, e)
  \/ \E e \in Events : Divert(e)
  \/ \E c \in Clients : HandNext(c) \/ Forget(c)

Spec == Init /\ [][Next]_vars

==============================================================================
