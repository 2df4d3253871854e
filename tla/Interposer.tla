------------------------------ MODULE Interposer ------------------------------
(***************************************************************************)
(* Interposition in the XView Notifier (libxview/notify, nint_*.c).  Every *)
(* condition of a client holds a list of functions: the one the client     *)
(* set, and in front of it the ones interposed since.  A notification      *)
(* calls the first of them, which may call the next with notify_next_*.    *)
(*                                                                         *)
(* The detector's list may change at any time, also by the functions being *)
(* called.  So the dispatcher queues copies of the condition, and a callout*)
(* works from a copy of its own on the interposition stack, whose top must *)
(* at all times be the condition the running function was called for.      *)
(***************************************************************************)
EXTENDS Integers, Sequences

CONSTANTS
  Conds,        \* the conditions: a client and a type
  Funcs,        \* functions of clients and interposers
  Null, Junk,   \* NOTIFY_FUNC_NULL; what a node holds when it is allocated
  FuncsMax,     \* NTFY_FUNCS_MAX: the function pointers that fit into a node
  Disciplined,  \* a function calls the next one at most once, the last one never
  MaxOps,       \* bound: changes to the lists
  MaxQueue,     \* bound: copies queued for one condition
  MaxDepth      \* bound: functions called from one another

ASSUME FuncsAssumption ==
  /\ FuncsMax \in Nat /\ FuncsMax >= 2
  /\ Null \notin Funcs /\ Junk \notin Funcs /\ Null # Junk
  /\ Disciplined \in BOOLEAN

ASSUME BoundsAssumption == MaxOps \in Nat /\ MaxQueue \in Nat /\ MaxDepth \in Nat

VARIABLES
  detector,  \* the detector's callout of each condition; count 0: no condition
  queue,     \* the copies ndis_enqueue has made
  stack,     \* nint_stack
  calls,     \* the functions on the processor's stack, the running one last
  errno,     \* notify_errno, or that the program has aborted
  ops

vars == <<detector, queue, stack, calls, errno, ops>>

Slot    == 1..FuncsMax
Callout == [count : 0..FuncsMax, slots : [Slot -> Funcs \cup {Null, Junk}]]
Frame   == [cond : Conds, callout : Callout, next : 1..FuncsMax]

(* level is the frame an activation was called for, pos its place in it.    *)
Activation == [level : Nat, pos : Slot, fn : Funcs \cup {Junk}, passed : BOOLEAN]

TypeOK ==
  /\ detector \in [Conds -> Callout]
  /\ queue \in [Conds -> Seq(Callout)]
  /\ stack \in Seq(Frame) /\ calls \in Seq(Activation)
  /\ errno \in {"ok", "no_condition", "func_limit", "inval", "aborted"}
  /\ ops \in 0..MaxOps

Unset == [count |-> 0, slots |-> [i \in Slot |-> Junk]]

Init ==
  /\ detector = [c \in Conds |-> Unset] /\ queue = [c \in Conds |-> <<>>]
  /\ stack = <<>> /\ calls = <<>> /\ errno = "ok" /\ ops = 0

Alive     == errno # "aborted"
IsSet(c)  == detector[c].count > 0
Change    == Alive /\ ops < MaxOps /\ ops' = ops + 1
Fail(e)   == errno' = e /\ UNCHANGED <<detector, queue, stack, calls>>
UnsetError(c) == Change /\ ~IsSet(c) /\ Fail("no_condition")

-----------------------------------------------------------------------------
(* The detector's lists.                                                   *)

(* nint_set_func: the client's own function is the last of the list.        *)
SetFunc(c, f) ==
  /\ Change
  /\ LET k == IF IsSet(c) THEN detector[c].count ELSE 1
     IN  detector' = [detector EXCEPT ![c] = [count |-> k, slots |-> [@.slots EXCEPT ![k] = f]]]
  /\ UNCHANGED <<queue, stack, calls, errno>>

(* The same with a null function: what is queued is flushed, the condition  *)
(* removed, the interposition stack left alone.                             *)
UnsetFunc(c) ==
  /\ Change
  /\ detector' = [detector EXCEPT ![c] = Unset]
  /\ queue' = [queue EXCEPT ![c] = <<>>]
  /\ UNCHANGED <<stack, calls, errno>>

InFront(d, f) ==
  [count |-> d.count + 1,
   slots |-> [i \in Slot |-> IF i = 1 THEN f
                             ELSE IF i <= d.count + 1 THEN d.slots[i - 1] ELSE d.slots[i]]]

(* nint_interpose_func, once the condition is found.  The test for the same *)
(* function twice reads the list, which a single function does not have: it *)
(* then compares f with the machine code of that function, never equal.     *)
InterposeFunc(c, f) ==
  /\ Change /\ IsSet(c)
  /\ LET d == detector[c]
     IN  \/ d.count > 1 /\ d.slots[1] = f /\ Fail("aborted")
         \/ /\ ~(d.count > 1 /\ d.slots[1] = f) /\ d.count = FuncsMax
            /\ Fail("func_limit")
         \/ /\ ~(d.count > 1 /\ d.slots[1] = f) /\ d.count < FuncsMax
            /\ detector' = [detector EXCEPT ![c] = InFront(d, f)]
            /\ UNCHANGED <<queue, stack, calls, errno>>

(* The pointers after the i-th are moved up by one, past the end of a full  *)
(* node, the last is nulled; a single function gives up the node.           *)
Without(d, i) ==
  LET moved(j) == IF j < FuncsMax THEN d.slots[j + 1] ELSE Junk
      slots == [j \in Slot |-> IF j = d.count THEN Null
                               ELSE IF i <= j /\ j < d.count THEN moved(j) ELSE d.slots[j]]
  IN  IF d.count = 2
      THEN [count |-> 1, slots |-> [j \in Slot |-> IF j = 1 THEN slots[1] ELSE Junk]]
      ELSE [count |-> d.count - 1, slots |-> slots]

Listed(d, f) == {i \in Slot : i <= d.count /\ d.slots[i] = f}

(* nint_remove_func, once the condition is found: the first of the functions*)
(* that matches goes, and nothing happens if there is none.                 *)
RemoveFunc(c, f) ==
  /\ Change /\ IsSet(c)
  /\ LET d == detector[c]
     IN  IF d.count = 1 THEN Fail("func_limit")
         ELSE /\ \/ Listed(d, f) = {} /\ UNCHANGED detector
                 \/ \E i \in Listed(d, f) :
                      /\ \A j \in Listed(d, f) : i <= j
                      /\ detector' = [detector EXCEPT ![c] = Without(d, i)]
              /\ UNCHANGED <<queue, stack, calls, errno>>

-----------------------------------------------------------------------------
(* Callouts.                                                               *)

Running == calls[Len(calls)]
Top     == stack[Len(stack)]

Called(level, pos, fn) == [level |-> level, pos |-> pos, fn |-> fn, passed |-> FALSE]

(* Mutant: the index of the next function starts with the one called first. *)
Push_FromFirst(c, d) ==
  /\ Alive /\ Len(calls) < MaxDepth
  /\ stack' = Append(stack, [cond |-> c, callout |-> d, next |-> 0])
  /\ calls' = Append(calls, Called(Len(stack) + 1, 1, d.slots[1]))

(* nint_push_callout, and the call of the function it returns.              *)
Push(c, d) ==
  /\ Alive /\ Len(calls) < MaxDepth
  /\ stack' = Append(stack, [cond |-> c, callout |-> d, next |-> 1])
  /\ calls' = Append(calls, Called(Len(stack) + 1, 1, d.slots[1]))

(* A notification the detector calls at once: an immediate event, a safe    *)
(* one that it is safe to send, a destroy, an asynchronous signal.          *)
Immediate(c) ==
  /\ IsSet(c) /\ Push(c, detector[c])
  /\ UNCHANGED <<detector, queue, errno, ops>>

(* ndis_enqueue copies the condition with its functions.                    *)
Enqueue(c) ==
  /\ Alive /\ IsSet(c) /\ Len(queue[c]) < MaxQueue
  /\ queue' = [queue EXCEPT ![c] = Append(@, detector[c])]
  /\ UNCHANGED <<detector, stack, calls, errno, ops>>

(* ndis_send_func pushes the queued copy it finds (the newest or the oldest,*)
(* as its hint has it) and removes it from the queue.                       *)
Dispatch(c) ==
  \E i \in DOMAIN queue[c] :
    /\ Push(c, queue[c][i])
    /\ queue' = [queue EXCEPT ![c] = SubSeq(@, 1, i - 1) \o SubSeq(@, i + 1, Len(@))]
    /\ UNCHANGED <<detector, errno, ops>>

(* nint_next_callout refuses a condition that is not the top one, and an    *)
(* index beyond the end.  The index counts from 0, the count from 1.        *)
NextAllowed(c) ==
  /\ stack # <<>>
  /\ Top.callout.count # 1 /\ Top.next <= Top.callout.count
  /\ Top.next + 1 <= FuncsMax /\ Top.cond = c

NextFails(c) ==
  /\ Alive /\ ~NextAllowed(c) /\ errno # "inval" /\ Fail("inval")
  /\ UNCHANGED ops

MayCallNext == Disciplined => ~Running.passed /\ Running.pos < Top.callout.count

(* Mutant: the next function is looked up in the detector's list.          *)
NextFunc_FromDetector(c) ==
  /\ Alive /\ calls # <<>> /\ NextAllowed(c)
  /\ MayCallNext /\ Len(calls) < MaxDepth
  /\ LET f == detector[c].slots[Top.next + 1]
         p == [calls EXCEPT ![Len(calls)].passed = TRUE]
     IN  f \in Funcs /\ calls' = Append(p, Called(Len(stack), Top.next + 1, f))
  /\ stack' = [stack EXCEPT ![Len(stack)].next = @ + 1]
  /\ UNCHANGED <<detector, queue, errno, ops>>

(* notify_next_*: the running function has the next one called.  A null one *)
(* is reported to the caller (NOTIFY_UNEXPECTED) and not called; what a node*)
(* holds when it is allocated may be null as well.                          *)
NextFunc(c) ==
  /\ Alive /\ calls # <<>> /\ NextAllowed(c)
  /\ MayCallNext /\ Len(calls) < MaxDepth
  /\ LET f == Top.callout.slots[Top.next + 1]
         p == [calls EXCEPT ![Len(calls)].passed = TRUE]
     IN  \/ f \in {Null, Junk} /\ calls' = p
         \/ f # Null /\ calls' = Append(p, Called(Len(stack), Top.next + 1, f))
  /\ stack' = [stack EXCEPT ![Len(stack)].next = @ + 1]
  /\ UNCHANGED <<detector, queue, errno, ops>>

Drop(s) == SubSeq(s, 1, Len(s) - 1)

(* The running function returns; after the first of a list the condition is *)
(* popped from the stack (nint_pop_callout).                                *)
Return ==
  /\ Alive /\ calls # <<>>
  /\ calls' = Drop(calls)
  /\ stack' = IF Running.pos = 1 THEN Drop(stack) ELSE stack
  /\ UNCHANGED <<detector, queue, errno, ops>>

Next ==
  \/ Return
  \/ \E c \in Conds :
       \/ UnsetError(c) \/ UnsetFunc(c)
       \/ Immediate(c) \/ Enqueue(c) \/ Dispatch(c)
       \/ NextFails(c) \/ NextFunc(c)
       \/ \E f \in Funcs : SetFunc(c, f) \/ InterposeFunc(c, f) \/ RemoveFunc(c, f)

Spec == Init /\ [][Next]_vars

-----------------------------------------------------------------------------
(* Properties.                                                             *)

Dense(d) == \A i \in Slot : i <= d.count => d.slots[i] \in Funcs

(* Whatever was interposed, removed and copied when, a list has no holes and*)
(* no uninitialised pointers in its first count places.                     *)
ListDense ==
  /\ \A c \in Conds : /\ Dense(detector[c])
                      /\ \A i \in DOMAIN queue[c] : Dense(queue[c][i])
  /\ \A k \in DOMAIN stack : Dense(stack[k].callout)

(* The stack of conditions and the processor's stack fit: every condition on*)
(* the stack has its callout outstanding, in order, and the top one is that *)
(* of the running function.  Without this a notify_next_* call would be     *)
(* refused, or would run down another condition's list.                     *)
StackMatches ==
  /\ calls = <<>> => stack = <<>>
  /\ calls # <<>> => Running.level = Len(stack)
  /\ \A i \in DOMAIN calls :
       LET below == IF i = 1 THEN 0 ELSE calls[i - 1].level
       IN  calls[i].level = IF calls[i].pos = 1 THEN below + 1 ELSE below

(* A notification runs down the list as it was when it was copied: each     *)
(* function called is the one after its caller's, none is called twice, none*)
(* beyond the end, whatever became of the detector's list in between.       *)
CalloutsFollowSnapshot ==
  /\ \A i \in DOMAIN calls :
       LET a == calls[i]
           d == stack[a.level].callout
       IN  a.pos <= d.count /\ a.fn = d.slots[a.pos] /\ a.fn \in Funcs
  /\ \A i \in DOMAIN calls :
       i > 1 /\ calls[i].pos > 1 => calls[i].pos = calls[i - 1].pos + 1

(* nint.h: "The next function for that condition is called": never a pointer*)
(* the list does not hold.                                                  *)
NextIsListed ==
  \A i \in DOMAIN calls : calls[i].pos <= stack[calls[i].level].callout.count

(* nint_inter.c aborts on "same condition, same function": the first two of *)
(* a list differ.                                                           *)
TopNeverRepeats ==
  \A c \in Conds : detector[c].count > 1 => detector[c].slots[1] # detector[c].slots[2]

(* nint.h: "The truth of the function list is kept by the detector": a      *)
(* notification begins with a function the detector lists.                  *)
TruthIsTheDetectors ==
  [][\A c \in Conds :
       Len(stack') > Len(stack) /\ stack'[Len(stack')].cond = c
         => Listed(detector[c], stack'[Len(stack')].callout.slots[1]) # {}]_vars

-----------------------------------------------------------------------------
(* The inductive invariant of InterposerProofs: besides the above, the index*)
(* of a frame stands at its innermost function as long as that has not      *)
(* passed the notification on.                                              *)

IndexFollows ==
  \A i \in DOMAIN calls : ~calls[i].passed => stack[calls[i].level].next = calls[i].pos

CallersPassed ==
  \A i \in DOMAIN calls : i > 1 /\ calls[i].pos > 1 => calls[i - 1].passed

LevelsExist == \A i \in DOMAIN calls : calls[i].level \in DOMAIN stack
LevelsRise  == \A i, j \in DOMAIN calls : i <= j => calls[i].level <= calls[j].level
FramesSet   == /\ \A k \in DOMAIN stack : stack[k].callout.count > 0
               /\ \A c \in Conds : \A i \in DOMAIN queue[c] : queue[c][i].count > 0

(* Whatever the functions do ... and if they are disciplined.               *)
WInv == TypeOK /\ ListDense /\ FramesSet /\ LevelsExist /\ LevelsRise /\ StackMatches
IInv == WInv /\ CalloutsFollowSnapshot /\ CallersPassed /\ IndexFollows
=============================================================================
