----------------------------- MODULE IncrTransfer -----------------------------
(***************************************************************************)
(* The transfer of a selection in increments (libxview/selection): the     *)
(* owner (sel_own.c: DoConversion, xv_sel_handle_incr, SendIncr) and the   *)
(* requestor (sel_req.c: XvGetRequestedValue, ProcessIncr), two programs   *)
(* that use this library, talk through one property of the requestor's     *)
(* window: the owner writes a piece when the one before has been deleted,  *)
(* the requestor reads and deletes what has been written.  Each waits for  *)
(* PropertyNotify events (xv_sel_block_for_event, check_incr_prop), with a *)
(* timeout.  A piece of length zero ends the transfer.                     *)
(***************************************************************************)
EXTENDS Integers, Sequences, SequencesExt

CONSTANTS
  Chunks,      \* the number of pieces of the data
  MayTruncate  \* the owner's convert_proc may fail in the middle

ASSUME TransferAssumption == Chunks \in Nat \ {0} /\ MayTruncate \in BOOLEAN

VARIABLES
  patient,    \* both programs live and no timeout expires
  stop,       \* whether the user presses Stop
  blocking,   \* the request was a blocking one
  later,      \* the server's clock has left the time of the request
  value,      \* the property
  ownerInput, reqInput,  \* the events of the two programs
  notified,   \* the SelectionNotify has been sent
  masked,     \* the requestor's window has PropertyChangeMask
  owner,      \* where the owner is, the next piece, endTransfer
  requestor,  \* where the requestor is
  said,       \* what the reply_proc was first called with
  pieces      \* the pieces it was called with

vars == <<patient, stop, blocking, later, value, ownerInput, reqInput, notified, masked,
          owner, requestor, said, pieces>>

None    == [type |-> "none", n |-> 0]
Incr    == [type |-> "INCR", n |-> 0]
Data(n) == [type |-> "data", n |-> n]
Values  == {None, Incr} \cup {Data(n) : n \in 0..Chunks}
Nothing == [type |-> "nothing", n |-> 0]
Event   == [is : {"new", "delete", "cancel"}, later : BOOLEAN]
Over    == {"done", "failed", "gone"}

TypeOK ==
  /\ {patient, blocking, later, notified, masked} \subseteq BOOLEAN
  /\ stop \in {"never", "may", "did"} /\ value \in Values
  /\ said \in Values \cup {Nothing} /\ pieces \in Seq(1..Chunks)
  /\ ownerInput \in Seq(Event) /\ reqInput \in Seq(Event)
  /\ owner \in [at : {"asked", "wait"} \cup Over, next : 1..(Chunks + 1), last : BOOLEAN]
  /\ requestor \in {"asked", "first", "start", "wait"} \cup Over

Init ==
  /\ patient \in BOOLEAN /\ blocking \in BOOLEAN /\ later \in BOOLEAN /\ masked \in BOOLEAN
  /\ stop \in {"never", "may"}
  /\ value = None /\ ownerInput = <<>> /\ reqInput = <<>> /\ notified = FALSE
  /\ owner = [at |-> "asked", next |-> 1, last |-> FALSE]
  /\ requestor = "asked" /\ said = Nothing /\ pieces = <<>>

-----------------------------------------------------------------------------
(* The server: a change of the property is an event for those who asked    *)
(* for them, after what they have not read.                                *)
Change(v, kinds, forOwner, forRequestor) ==
  LET evs == [i \in DOMAIN kinds |-> [is |-> kinds[i], later |-> later]] IN
  /\ value' = v /\ ownerInput' = forOwner \o evs
  /\ reqInput' = IF masked THEN forRequestor \o evs ELSE forRequestor

(* XGetWindowProperty with delete.                                         *)
Take(forRequestor) ==
  IF value = None THEN reqInput' = forRequestor /\ UNCHANGED <<value, ownerInput>>
  ELSE Change(None, <<"delete">>, ownerInput, forRequestor)

Tick == ~later /\ later' = TRUE
        /\ UNCHANGED <<patient, stop, blocking, value, ownerInput, reqInput, notified, masked,
                       owner, requestor, said, pieces>>

-----------------------------------------------------------------------------
(* The owner.                                                              *)

(* DoConversion, SendIncrMessage: the property of type INCR is written and *)
(* the SelectionNotify sent.                                               *)
Converts ==
  /\ owner.at = "asked" /\ owner' = [owner EXCEPT !.at = "wait"]
  /\ Change(Incr, <<"new">>, ownerInput, reqInput) /\ notified' = TRUE
  /\ UNCHANGED <<patient, stop, blocking, later, masked, requestor, said, pieces>>

(* Mutant: the end comes a piece too early.                                *)
Advance_Early ==
  owner' = IF owner.last THEN [owner EXCEPT !.at = "done"]
           ELSE [owner EXCEPT !.next = @ + 1, !.last = (owner.next + 1 >= Chunks)]

(* Mutant: the end comes a piece too late.                                 *)
Advance_Late ==
  owner' = IF owner.last THEN [owner EXCEPT !.at = "done"]
           ELSE [owner EXCEPT !.next = @ + 1, !.last = (owner.next > Chunks)]

(* SendIncr, and the end of xv_sel_handle_incr; a convert_proc that fails  *)
(* ends the data.                                                          *)
Advance ==
  IF owner.last THEN owner' = [owner EXCEPT !.at = "done"]
  ELSE \E last \in {owner.next = Chunks} \cup {b \in {TRUE} : MayTruncate} :
         owner' = [owner EXCEPT !.next = @ + 1, !.last = last]

Piece == IF owner.last THEN Data(0) ELSE Data(owner.next)

(* Mutant: a new value is taken for the deletion of the old one.           *)
Deleted_Any(ev) == ev.later

(* check_incr_prop for the owner (PropertyDelete); it drops other events.  *)
Deleted(ev) == ev.is = "delete" /\ ev.later

(* xv_sel_handle_incr.                                                     *)
OwnerEvent ==
  /\ owner.at = "wait" /\ ownerInput # <<>>
  /\ LET ev == Head(ownerInput) IN
     IF ev.is = "cancel"
     THEN /\ owner' = [owner EXCEPT !.at = "failed"] /\ ownerInput' = Tail(ownerInput)
          /\ UNCHANGED <<value, reqInput>>
     ELSE IF Deleted(ev)
     THEN Advance /\ Change(Piece, <<"new">>, Tail(ownerInput), reqInput)
     ELSE ownerInput' = Tail(ownerInput) /\ UNCHANGED <<value, reqInput, owner>>
  /\ UNCHANGED <<patient, stop, blocking, later, notified, masked, requestor, said, pieces>>

(* The user presses Stop over the owner: both are told by a property named *)
(* INCR, and the key press is taken for the event that was waited for.     *)
OwnerStop ==
  /\ stop = "may" /\ stop' = "did" /\ owner.at = "wait"
  /\ Advance /\ Change(Piece, <<"cancel", "new">>, ownerInput, reqInput)
  /\ UNCHANGED <<patient, blocking, later, notified, masked, requestor, said, pieces>>

OwnerGone(at) ==
  /\ ~patient /\ owner.at \notin Over /\ owner' = [owner EXCEPT !.at = at]
  /\ UNCHANGED <<patient, stop, blocking, later, value, ownerInput, reqInput, notified, masked,
                 requestor, said, pieces>>

OwnerTimeout == owner.at = "wait" /\ ownerInput = <<>> /\ OwnerGone("failed")

-----------------------------------------------------------------------------
(* The requestor.                                                          *)

Says(v) ==
  /\ said' = IF said = Nothing THEN v ELSE said
  /\ pieces' = IF v.type = "data" /\ v.n > 0 THEN Append(pieces, v.n) ELSE pieces
Silent == UNCHANGED <<said, pieces>>

(* The SelectionNotify: XvGetRequestedValue reads and deletes the property; *)
(* the events before it have been handled, unless the request is blocking. *)
Notified ==
  /\ requestor = "asked" /\ notified
  /\ Take(IF blocking THEN reqInput ELSE <<>>)
  /\ IF value = Incr THEN requestor' = "first" /\ Silent
     ELSE requestor' = "done" /\ Says(value)
  /\ UNCHANGED <<patient, stop, blocking, later, notified, masked, owner>>

(* ProcessIncr: PropertyChangeMask is added ...                            *)
AddMask ==
  /\ requestor = "first" /\ requestor' = "start" /\ masked' = TRUE
  /\ UNCHANGED <<patient, stop, blocking, later, value, ownerInput, reqInput, notified, owner,
                 said, pieces>>

(* ... and the property read and deleted, to start the transfer.           *)
Start ==
  /\ requestor = "start" /\ requestor' = "wait"
  /\ Take(reqInput) /\ Says(value)
  /\ UNCHANGED <<patient, stop, blocking, later, notified, masked, owner>>

(* A piece of length zero; an event without a property is passed over.     *)
Ends(v) == v = Data(0)

(* check_incr_prop for the requestor (PropertyNewValue), ProcessIncr.      *)
RequestorEvent ==
  /\ requestor = "wait" /\ reqInput # <<>>
  /\ LET ev == Head(reqInput) IN
     IF ev.is = "cancel"
     THEN /\ requestor' = "failed" /\ reqInput' = Tail(reqInput)
          /\ UNCHANGED <<value, ownerInput>> /\ Silent
     ELSE IF ev.is = "new" /\ ev.later
     THEN /\ Take(Tail(reqInput))
          /\ IF value = None THEN Silent ELSE Says(value)
          /\ requestor' = IF Ends(value) THEN "done" ELSE "wait"
     ELSE reqInput' = Tail(reqInput) /\ UNCHANGED <<value, ownerInput, requestor>> /\ Silent
  /\ UNCHANGED <<patient, stop, blocking, later, notified, masked, owner>>

(* Stop over the requestor: what the key press is taken for has no value.  *)
RequestorStop ==
  /\ stop = "may" /\ stop' = "did" /\ requestor = "wait"
  /\ Change(value, <<"cancel">>, ownerInput, reqInput)
  /\ UNCHANGED <<patient, blocking, later, notified, masked, owner, requestor, said, pieces>>

RequestorGone(at) ==
  /\ ~patient /\ requestor \notin Over /\ requestor' = at
  /\ UNCHANGED <<patient, stop, blocking, later, value, ownerInput, reqInput, notified, masked,
                 owner, said, pieces>>

(* Mutant: the wait for the answer has no timeout.                         *)
RequestorTimeout_Incr == requestor = "wait" /\ reqInput = <<>> /\ RequestorGone("failed")

RequestorTimeout ==
  /\ \/ requestor = "asked" /\ ~notified
     \/ requestor = "wait" /\ reqInput = <<>>
  /\ RequestorGone("failed")

-----------------------------------------------------------------------------
Going == \/ Converts \/ OwnerEvent \/ OwnerTimeout
         \/ Notified \/ AddMask \/ Start \/ RequestorEvent \/ RequestorTimeout \/ Tick

Next == Going \/ OwnerStop \/ RequestorStop \/ OwnerGone("gone") \/ RequestorGone("gone")

Spec == Init /\ [][Next]_vars

(* The programs run, and in the end their timeouts expire.                 *)
FairSpec == Spec /\ WF_vars(Going)

-----------------------------------------------------------------------------
(* Properties.                                                             *)

(* The pieces arrive each once and in their order, and the end is told     *)
(* when all have arrived: the protocol implements a stream.                *)
Outcome == CASE requestor = "done"              -> "done"
             [] requestor \in {"failed", "gone"} -> "failed"
             [] OTHER                            -> "open"

(* A transfer that the user may stop promises nothing here.                *)
Implements == INSTANCE Stream WITH
                received <- IF stop = "never" THEN pieces ELSE <<>>,
                outcome  <- IF stop = "never" THEN Outcome ELSE "open"

IsStream == Implements!Spec

(* Neither waits for an event that the other has already caused, or never  *)
(* will: if both live, no timeout expires and the events are later than the *)
(* request, the transfer is completed.                                     *)
Completes ==
  patient /\ later /\ stop = "never" /\ owner.at = "asked"
    ~> requestor = "done" /\ owner.at = "done"

(* If one of them dies or gives up, the other does not wait for ever.      *)
NobodyHangs == ~patient ~> requestor \in Over /\ owner.at \in Over

(* The inductive invariant.  One token goes to and fro: a value that the   *)
(* requestor has yet to take, or the news that it has.                     *)
NextOrLast == owner.next = Chunks + 1 => owner.last

NotStarted ==
  /\ owner.at \in {"asked", "gone"} /\ owner.next = 1 /\ owner.last = FALSE
  /\ requestor \in {"asked", "failed", "gone"} /\ ownerInput = <<>> /\ value = None

OneToken ==
  /\ \A i, j \in DOMAIN ownerInput :
       ownerInput[i].is = "delete" /\ ownerInput[j].is = "delete" => i = j
  /\ \A i \in DOMAIN ownerInput : ownerInput[i].is = "delete" => value = None

InOrder ==
  /\ \A i \in DOMAIN pieces : pieces[i] = i
  /\ owner.last => owner.next = Chunks + 1
  /\ IF value.n > 0 THEN value.n = Len(pieces) + 1 /\ owner.next = value.n + 1
                    ELSE owner.next = Len(pieces) + 1
  /\ value = Data(0) => Len(pieces) = Chunks
  /\ requestor = "done" => Len(pieces) = Chunks
  /\ requestor = "asked" /\ notified => value = Incr

IInv ==
  /\ TypeOK /\ NextOrLast
  /\ notified => owner.at # "asked"
  /\ stop = "never" => /\ ~notified => NotStarted /\ pieces = <<>>
                       /\ OneToken
                       /\ ~MayTruncate => InOrder

(* "We should start the transfer process by deleting the (type==INCR)      *)
(* property and by calling the requestor reply_proc with type set to INCR" *)
(* (sel_req.c:855).                                                        *)
SaysIncr == stop = "never" /\ said # Nothing => said = Incr
==============================================================================
