-------------------------- MODULE SelectionOwnership --------------------------
(***************************************************************************)
(* Who owns a selection (libxview/selection, sel_own.c and sel_util.c).    *)
(* A process has SELECTION_OWNER objects; each belongs to a window.  The X *)
(* server knows one owning window per selection and the time it was        *)
(* acquired, and tells the process that loses it by a SelectionClear which *)
(* arrives later.  A process finds the object that an event is for in a    *)
(* context (selCtx), of which it has one per selection.                    *)
(*                                                                         *)
(* One selection; selections do not share any of this state.               *)
(***************************************************************************)
EXTENDS Integers, Sequences, SequencesExt

CONSTANTS
  Processes,
  Owners, NoOwner,  \* SELECTION_OWNER objects
  ProcessOf,        \* [Owners -> Processes]; each has a window of its own
  DistinctTimes,    \* no two acquisitions within one tick of the server's clock
  MaxTime,          \* bound: the server's clock
  MaxOps,           \* bound: calls and requests
  MaxEvents         \* bound: events on their way to a process

ASSUME OwnersAssumption ==
  /\ NoOwner \notin Owners /\ ProcessOf \in [Owners -> Processes]
  /\ DistinctTimes \in BOOLEAN /\ {MaxTime, MaxOps, MaxEvents} \subseteq Nat /\ MaxTime > 0

VARIABLES
  server,      \* the server: the owner (its window) and the last-change time
  now,         \* the server's clock
  used,        \* the times of acquisitions
  inbox,       \* per process the events that have been sent to it
  seen,        \* server_get_timestamp: the time of the last event a process got
  pc,          \* where a process is when it waits for the server
  own, time,   \* Sel_owner_info: own, time
  busy,        \* the objects with SEL_BUSY set in their status
  losing,      \* ... with SEL_LOSE set
  rank,        \* the objects whose field "selection" is set
  alive,       \* the objects that have not been destroyed
  context,     \* selCtx: the object a process finds under the selection
  client,      \* the process's list of RegisterSelClient
  requesting,  \* the processes with a request of their own under way
  ops

objects == <<own, time, busy, losing, rank, alive>>
vars == <<server, now, used, inbox, seen, pc, objects, context, client, requesting, ops>>

Times   == 0..MaxTime
Idle    == [at |-> "idle", o |-> NoOwner]
Event   == [type : {"clear", "request"}, window : Owners, time : Times]
Waiting == {"check", "retry", "recheck", "incr"}

TypeOK ==
  /\ server \in [owner : Owners \cup {NoOwner}, time : Times]
  /\ now \in Times /\ used \subseteq Times
  /\ inbox \in [Processes -> Seq(Event)] /\ seen \in [Processes -> Times]
  /\ pc \in [Processes -> {Idle} \cup [at : Waiting, o : Owners]]
  /\ own \in [Owners -> BOOLEAN] /\ time \in [Owners -> Times]
  /\ busy \subseteq Owners /\ losing \subseteq Owners
  /\ rank \subseteq Owners /\ alive \subseteq Owners
  /\ context \in [Processes -> Owners \cup {NoOwner}]
  /\ client \in [Processes -> Owners \cup {NoOwner}]
  /\ requesting \subseteq Processes /\ ops \in 0..MaxOps

Init ==
  /\ server = [owner |-> NoOwner, time |-> 0] /\ now = 1 /\ used = {}
  /\ inbox = [p \in Processes |-> <<>>] /\ seen = [p \in Processes |-> 0]
  /\ pc = [p \in Processes |-> Idle]
  /\ own = [o \in Owners |-> FALSE] /\ time = [o \in Owners |-> 0]
  /\ busy = {} /\ losing = {} /\ rank = {} /\ alive = Owners
  /\ context = [p \in Processes |-> NoOwner] /\ client = [p \in Processes |-> NoOwner]
  /\ requesting = {} /\ ops = 0

-----------------------------------------------------------------------------
(* The X server.                                                           *)

(* SetSelectionOwner with a time before the last change has no effect.     *)
SetOwner(srv, o, t) == IF t < srv.time THEN srv ELSE [owner |-> o, time |-> t]

(* The previous owner is told, unless the new one is of the same process.  *)
Told(boxes, srv, o, t) ==
  IF t < srv.time \/ srv.owner = NoOwner
     \/ (o # NoOwner /\ ProcessOf[o] = ProcessOf[srv.owner])
  THEN boxes
  ELSE [boxes EXCEPT ![ProcessOf[srv.owner]] =
          Append(@, [type |-> "clear", window |-> srv.owner, time |-> t])]

Calls(p) == /\ pc[p] = Idle /\ ops < MaxOps /\ ops' = ops + 1
            /\ \A q \in Processes : Len(inbox[q]) < MaxEvents

-----------------------------------------------------------------------------
(* SelLoseOwnership of an object that is not busy: the server is told,     *)
(* with the time of the acquisition (but not after a SelectionClear).      *)
Lose(o, boxes) ==
  /\ server' = SetOwner(server, NoOwner, time[o])
  /\ inbox'  = Told(boxes, server, NoOwner, time[o])
  /\ own' = [own EXCEPT ![o] = FALSE] /\ time' = [time EXCEPT ![o] = 0]

(* "don't lose the ownership until we are done"                            *)
LoseOrMark(o) ==
  IF o \in busy
  THEN losing' = losing \cup {o} /\ UNCHANGED <<server, inbox, own, time>>
  ELSE Lose(o, inbox) /\ UNCHANGED losing

(* xv_set(o, SEL_OWN, FALSE), also by a done_proc, when the object is busy. *)
Disown(o) ==
  LET p == ProcessOf[o] IN
  /\ o \in alive /\ own[o] /\ ops < MaxOps /\ ops' = ops + 1
  /\ \/ pc[p] = Idle /\ Len(inbox[p]) < MaxEvents
     \/ pc[p] = [at |-> "incr", o |-> o]
  /\ LoseOrMark(o)
  /\ UNCHANGED <<now, used, seen, pc, busy, rank, alive, context, client, requesting>>

(* The time of an acquisition: SEL_TIME, or that of the last event if that *)
(* is later or SEL_TIME is not set.  (Events that mean nothing here come   *)
(* into it only by their time.)                                            *)
MayAcquire(p, t) ==
  /\ t \in Times \ {0} /\ seen[p] <= t /\ t <= now
  /\ DistinctTimes => t \notin used

(* sel_set_ownership: the object is put into the context, the server told, *)
(* and asked whether it agrees.                                            *)
Acquire(o, t) ==
  LET p == ProcessOf[o] IN
  /\ o \in alive /\ ~own[o] /\ Calls(p) /\ MayAcquire(p, t)
  /\ context' = [context EXCEPT ![p] = o] /\ rank' = rank \cup {o}
  /\ busy' = busy \ {o} /\ losing' = losing \ {o}
  /\ time' = [time EXCEPT ![o] = t] /\ used' = used \cup {t}
  /\ server' = SetOwner(server, o, t) /\ inbox' = Told(inbox, server, o, t)
  /\ pc' = [pc EXCEPT ![p] = [at |-> "check", o |-> o]]
  /\ seen' = [seen EXCEPT ![p] = t]
  /\ UNCHANGED <<now, own, alive, client, requesting>>

(* Mutant: the loser gives up what the new one acquired.                   *)
Register_Late(p, o) ==
  LET other == client[p] IN
  IF other \in Owners \ {o} /\ own[other]
  THEN /\ server' = SetOwner(server, NoOwner, time[o])
       /\ inbox' = Told(inbox, server, NoOwner, time[o])
       /\ own' = [own EXCEPT ![o] = TRUE, ![other] = FALSE]
       /\ time' = [time EXCEPT ![other] = 0] /\ UNCHANGED losing
  ELSE UNCHANGED <<server, inbox, time, losing>> /\ own' = [own EXCEPT ![o] = TRUE]

(* RegisterSelClient: another object of the process that owned it loses it, *)
(* as the server tells processes and not windows; a busy one is marked.    *)
Register(p, o) ==
  LET other == client[p] IN
  IF other \in Owners \ {o} /\ own[other] /\ other \notin busy
  THEN /\ server' = SetOwner(server, NoOwner, time[other])
       /\ inbox' = Told(inbox, server, NoOwner, time[other])
       /\ own' = [own EXCEPT ![o] = TRUE, ![other] = FALSE]
       /\ time' = [time EXCEPT ![other] = 0] /\ UNCHANGED losing
  ELSE /\ own' = [own EXCEPT ![o] = TRUE]
       /\ losing' = losing \cup {x \in busy \ {o} : x = other /\ own[x]}
       /\ UNCHANGED <<server, inbox, time>>

(* XGetSelectionOwner names the object's window.                           *)
Confirmed(o) ==
  LET p == ProcessOf[o] IN
  /\ pc[p].o = o /\ pc[p].at \in {"check", "recheck"} /\ server.owner = o
  /\ Register(p, o)
  /\ client' = [client EXCEPT ![p] = o] /\ pc' = [pc EXCEPT ![p] = Idle]
  /\ UNCHANGED <<now, used, seen, busy, rank, alive, context, requesting, ops>>

(* It names another one: "this can only mean owner->time too old".         *)
TooOld(o) ==
  LET p == ProcessOf[o] IN
  /\ pc[p] = [at |-> "check", o |-> o] /\ server.owner # o
  /\ DistinctTimes => now \notin used
  /\ time' = [time EXCEPT ![o] = now] /\ used' = used \cup {now}
  /\ seen' = [seen EXCEPT ![p] = now]
  /\ pc' = [pc EXCEPT ![p] = [at |-> "retry", o |-> o]]
  /\ UNCHANGED <<server, now, inbox, own, busy, losing, rank, alive, context, client, requesting, ops>>

TryAgain(o) ==
  LET p == ProcessOf[o] IN
  /\ pc[p] = [at |-> "retry", o |-> o]
  /\ server' = SetOwner(server, o, time[o]) /\ inbox' = Told(inbox, server, o, time[o])
  /\ pc' = [pc EXCEPT ![p] = [at |-> "recheck", o |-> o]]
  /\ UNCHANGED <<now, used, seen, objects, context, client, requesting, ops>>

(* "Selection ownership failed".                                           *)
Failed(o) ==
  LET p == ProcessOf[o] IN
  /\ pc[p] = [at |-> "recheck", o |-> o] /\ server.owner # o
  /\ context' = [context EXCEPT ![p] = NoOwner]
  /\ pc' = [pc EXCEPT ![p] = Idle]
  /\ UNCHANGED <<server, now, used, inbox, seen, objects, client, requesting, ops>>

(* sel_owner_destroy; the mark of a busy object dies with it.              *)
Destroy(o) ==
  LET p == ProcessOf[o] IN
  /\ o \in alive /\ Calls(p)
  /\ IF own[o] THEN LoseOrMark(o) ELSE UNCHANGED <<server, inbox, own, time, losing>>
  /\ context' = IF o \in rank THEN [context EXCEPT ![p] = NoOwner] ELSE context
  /\ client' = IF client[p] = o THEN [client EXCEPT ![p] = NoOwner] ELSE client
  /\ alive' = alive \ {o}
  /\ UNCHANGED <<now, used, seen, pc, busy, rank, requesting>>

-----------------------------------------------------------------------------
(* Events.                                                                 *)

(* Somebody asks the owner for the selection, as of time t; 0: CurrentTime. *)
Ask(t) ==
  /\ server.owner # NoOwner /\ t <= now /\ ops < MaxOps /\ ops' = ops + 1
  /\ Len(inbox[ProcessOf[server.owner]]) < MaxEvents
  /\ inbox' = [inbox EXCEPT ![ProcessOf[server.owner]] =
                 Append(@, [type |-> "request", window |-> server.owner, time |-> t])]
  /\ UNCHANGED <<server, now, used, seen, pc, objects, context, client, requesting>>

Refused(p, ev) ==
  LET o == context[p] IN
  IF o # ev.window THEN TRUE ELSE time[o] >= ev.time /\ ev.time # 0

Popped(p) == [inbox EXCEPT ![p] = Tail(@)]

(* do_refuse.  Its SelClean does what was put off, but leaves an object    *)
(* busy that has no Requestor.                                             *)
Refuse(p) ==
  LET o == context[p] IN
  IF o \in losing
  THEN /\ Lose(o, Popped(p)) /\ busy' = busy \ {o} /\ losing' = losing \ {o}
       /\ UNCHANGED pc
  ELSE inbox' = Popped(p) /\ UNCHANGED <<server, own, time, busy, losing, pc>>

(* The status is set anew.  The answer is given in one piece, and SelClean *)
(* called; or to an obsolete client (property None), and it is not called; *)
(* or in increments.                                                       *)
Serve(p) ==
  LET o == context[p] IN
  /\ inbox' = Popped(p) /\ losing' = losing \ {o}
  /\ \/ busy' = busy \ {o} /\ UNCHANGED pc
     \/ busy' = busy \cup {o} /\ UNCHANGED pc
     \/ busy' = busy \cup {o} /\ pc' = [pc EXCEPT ![p] = [at |-> "incr", o |-> o]]
  /\ UNCHANGED <<server, own, time>>

(* xv_sel_handle_selection_request; MULTIPLE is refused to an obsolete     *)
(* client whatever the time.                                               *)
HandleRequest(p) ==
  /\ pc[p] = Idle /\ inbox[p] # <<>> /\ Head(inbox[p]).type = "request"
  /\ seen' = [seen EXCEPT ![p] = now]
  /\ Refuse(p) \/ (~Refused(p, Head(inbox[p])) /\ Serve(p))
  /\ UNCHANGED <<now, used, rank, alive, context, client, requesting, ops>>

(* Mutant: the time of the SelectionClear is not compared.                 *)
Clears_Stale(o, ev) == o = ev.window /\ own[o]

(* "make sure that the selection was owned before the clear event"         *)
Clears(o, ev) == o = ev.window /\ own[o] /\ time[o] <= ev.time

(* xv_sel_handle_selection_clear; a busy object is only marked.  In an     *)
(* incremental transfer requests are left in the queue.                    *)
HandleClear(p) ==
  \E i \in DOMAIN inbox[p] :
    LET ev == inbox[p][i]
        o  == context[p]
    IN /\ ev.type = "clear" /\ pc[p].at \in {"idle", "incr"}
       /\ \A j \in 1..(i - 1) : pc[p].at = "incr" /\ inbox[p][j].type = "request"
       /\ inbox' = [inbox EXCEPT ![p] = RemoveAt(@, i)]
       /\ IF o # NoOwner /\ Clears(o, ev)
          THEN IF o \in busy
               THEN losing' = losing \cup {o} /\ UNCHANGED <<own, time>>
               ELSE /\ own' = [own EXCEPT ![o] = FALSE] /\ time' = [time EXCEPT ![o] = 0]
                    /\ UNCHANGED losing
          ELSE UNCHANGED <<own, time, losing>>
       /\ UNCHANGED <<server, now, used, seen, pc, busy, rank, alive, context, client, requesting, ops>>

(* Mutant: SEL_LOSE is forgotten.                                          *)
Served_Forgets(o) ==
  /\ pc[ProcessOf[o]] = [at |-> "incr", o |-> o] /\ pc' = [pc EXCEPT ![ProcessOf[o]] = Idle]
  /\ busy' = busy \ {o} /\ losing' = losing \ {o}
  /\ UNCHANGED <<server, now, used, inbox, seen, own, time, rank, alive, context, client, requesting,
                 ops>>

(* The transfer is over: SelClean.                                         *)
Served(o) ==
  /\ pc[ProcessOf[o]] = [at |-> "incr", o |-> o] /\ pc' = [pc EXCEPT ![ProcessOf[o]] = Idle]
  /\ busy' = busy \ {o} /\ losing' = losing \ {o}
  /\ IF o \in losing THEN Lose(o, inbox) ELSE UNCHANGED <<server, inbox, own, time>>
  /\ UNCHANGED <<now, used, seen, rank, alive, context, client, requesting, ops>>

(* sel_post_req by a process that does not own the selection itself, ...   *)
PostRequest(p) ==
  /\ Calls(p) /\ p \notin requesting
  /\ \A o \in Owners : context[p] = o => ~own[o]
  /\ requesting' = requesting \cup {p}
  /\ UNCHANGED <<server, now, used, inbox, seen, pc, objects, context, client>>

(* ... and its end, which deletes what the context holds.                  *)
EndRequest(p) ==
  /\ pc[p] = Idle /\ p \in requesting
  /\ requesting' = requesting \ {p}
  /\ context' = [context EXCEPT ![p] = NoOwner]
  /\ UNCHANGED <<server, now, used, inbox, seen, pc, objects, client, ops>>

Tick ==
  /\ now < MaxTime /\ now' = now + 1
  /\ UNCHANGED <<server, used, inbox, seen, pc, objects, context, client, requesting, ops>>

-----------------------------------------------------------------------------
Handling(p) == HandleRequest(p) \/ HandleClear(p)
Going(o)    == Confirmed(o) \/ TooOld(o) \/ TryAgain(o) \/ Failed(o) \/ Served(o)

Next ==
  \/ \E o \in Owners : \/ Disown(o) \/ Destroy(o) \/ Going(o)
                       \/ \E t \in Times : Acquire(o, t)
  \/ \E t \in Times : Ask(t)
  \/ \E p \in Processes : Handling(p) \/ PostRequest(p) \/ EndRequest(p)
  \/ Tick

Spec == Init /\ [][Next]_vars

(* Processes read their events, and the server answers.                    *)
FairSpec ==
  /\ Spec /\ WF_vars(Tick)
  /\ \A p \in Processes : WF_vars(Handling(p))
  /\ \A o \in Owners : WF_vars(Going(o))

-----------------------------------------------------------------------------
(* Properties.                                                             *)

(* Busy, but it serves no request: what an obsolete client leaves behind.  *)
Stuck(o) == o \in busy /\ pc[ProcessOf[o]] # [at |-> "incr", o |-> o]

(* The news that o has lost the selection is on its way.                   *)
WillLearn(o) ==
  \/ o \in losing
  \/ \E i \in DOMAIN inbox[ProcessOf[o]] :
       LET ev == inbox[ProcessOf[o]][i] IN ev.type = "clear" /\ ev.window = o /\ time[o] <= ev.time

(* An object that believes it owns the selection, and that its process     *)
(* finds, owns it or will be told so (SelectionClear against SEL_OWN,      *)
(* SEL_LOSE, the time of acquisition and the other objects of the process). *)
(* The process finds no other one instead: events of one object are not    *)
(* given to another.  All that of objects that no obsolete client has left *)
(* busy (for those see OneOwnsIt).                                         *)
BelievesRightly ==
  \A o \in Owners : own[o] /\ ~Stuck(o) =>
    /\ context[ProcessOf[o]] = o => server.owner = o \/ WillLearn(o)
    /\ pc[ProcessOf[o]].at \in {"idle", "incr"} => context[ProcessOf[o]] \in {o, NoOwner}

(* All variables keep their types, and the owner that the server names     *)
(* believes it, or is about to, unless it was destroyed when it was busy.  *)
OwnerKnows ==
  /\ TypeOK
  /\ server.owner # NoOwner =>
       \/ own[server.owner] /\ (server.owner \in alive \/ Stuck(server.owner))
       \/ pc[ProcessOf[server.owner]].o = server.owner

(* "If there is another client in this process that is the selection       *)
(* owner; make it lose the ownership" (sel_own.c:118): two objects of a    *)
(* process never own the selection.  One that an obsolete client has left  *)
(* busy is only marked, for ever.                                          *)
OneOwnsIt ==
  \A o1, o2 \in alive : own[o1] /\ own[o2] /\ ProcessOf[o1] = ProcessOf[o2] => o1 = o2

(* "every SELECTION_OWNER stores itself ... to identify itself in case of  *)
(* SelectionRequest or SelectionClear events" (sel_util.c:56).             *)
FindsItself == \A o \in Owners : own[o] => context[ProcessOf[o]] = o

(* "Compare the timestamp with the period we owned the selection, if the   *)
(* time is outside, refuse the SelectionRequest" (sel_own.c:975).          *)
AnswersOnlyAsOwner ==
  [][\A p \in Processes :
       HandleRequest(p) /\ ~Refused(p, Head(inbox[p])) => own[context[p]]]_vars

(* Nobody whom his process finds, and whom no obsolete client has left     *)
(* busy, goes on believing for ever that he owns what the server says      *)
(* another one owns.                                                       *)
LearnsOfLoss ==
  \A o \in Owners : own[o] /\ server.owner # o
                      ~> ~own[o] \/ server.owner = o \/ context[ProcessOf[o]] # o \/ Stuck(o)

(* "If there is another client in this process that is the selection owner; *)
(* make it lose the ownership" (sel_own.c:119): and not the new one.       *)
NewOneKeepsIt ==
  [][\A o \in Owners : pc[ProcessOf[o]].at # "idle" /\ ~own[o] /\ own'[o] => server'.owner = o]_vars
=============================================================================
