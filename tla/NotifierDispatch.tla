--------------------------- MODULE NotifierDispatch ---------------------------
(***************************************************************************)
(* The dispatcher of the XView Notifier (libxview/notify, ndis_*.c) with   *)
(* the part of the detector that hands it events and destroy requests:     *)
(* notify_post_event, notify_post_destroy, notify_remove,                  *)
(* notify_flush_pending, notify_set_*_func, notify_veto_destroy.           *)
(*                                                                         *)
(* The dispatcher keeps a list of conditions per client.  It works through *)
(* the clients from a global table and through a client's events from      *)
(* global arrays, and the functions it calls call back into it.  So a      *)
(* table, an array or a flag that one activation filled may be changed by  *)
(* another before the first one reads it again.  The processor's stack is  *)
(* explicit: one record for each activation that can be interrupted so.    *)
(***************************************************************************)
EXTENDS Integers, Sequences, FiniteSets, SequencesExt

CONSTANTS
  Clients, NoClient,  \* NoClient: NOTIFY_CLIENT_NULL
  CodeOf,             \* the code of the n-th event posted
  Copied,             \* the events that are posted with a copy function
  Programs            \* the application programs, with a bound on what each does

Detected == {"itimer", "wait3", "signal", "exception", "output", "input"}
Destroy  == {"check", "cleanup", "death", "save"}
Finals   == {"cleanup", "death", "save"}
OneShot  == {"itimer", "wait3"}
Kinds    == Detected \cup Destroy \cup {"event"}
Funcs    == Detected \cup {"safe", "immediate", "destroy"}
Ids      == DOMAIN CodeOf
Codes    == {CodeOf[id] : id \in Ids}
AllCalls == {"early", "flush", "remove", "set", "unset", "veto", "destroy_now", "destroy_later",
             "ignore", "start", "once", "stop", "async"}

(* A program: the functions its clients have set at first, what they may    *)
(* call besides notify_post_event and with which destroy statuses; the     *)
(* bounds on those calls, on what the detector finds and on activations.   *)
Program == [funcs : [Clients -> SUBSET Funcs], calls : SUBSET AllCalls,
            statuses : SUBSET Destroy, maxCalls : Nat, maxDetects : Nat, maxDepth : Nat]

ASSUME ConstantsAssumption ==
  /\ NoClient \notin Clients /\ IsFiniteSet(Clients)
  /\ CodeOf \in Seq(Codes) /\ Copied \subseteq Ids
  /\ Programs \subseteq Program

VARIABLES
  program,     \* the program that runs
  funcs,       \* the detector: the functions each client has set
  processing,  \* the clients with NCLT_EVENT_PROCESSING set
  vetoed,      \* NDET_VETOED
  loop,        \* "out" of notify_start, "in" it, or in it and "stopping"
  order,       \* ndis_clients: the clients with conditions, oldest first
  queue,       \* their conditions
  latest,      \* condition_latest: the place of the hint in the queue, 0: none
  eventQueued, \* NDIS_EVENT_QUEUED
  sched,       \* ndis_sched_nclients
  events,      \* ndis_events, ndis_args, ndis_event_count
  stack,       \* the activations
  handed,      \* the events each client's safe function was called with
  posts, calls, detects

detVars  == <<funcs, processing, vetoed>>
listVars == <<order, queue, latest>>
budgets  == <<posts, calls, detects>>
vars == <<program, detVars, loop, listVars, eventQueued, sched, events, stack, handed, budgets>>

Calls      == program.calls
MaxCalls   == program.maxCalls
MaxDetects == program.maxDetects
MaxDepth   == program.maxDepth

Condition == [kind : Kinds, code : Codes \cup {0}, id : Ids \cup {0}]

(* ndis_dispatch with its scheduler, notify_client with its prioritizer, a *)
(* client's function, a copy function called by notify_post_event.         *)
Frame ==
  [f : {"sched"}, i : Nat \ {0}, n : Nat]
    \cup [f : {"client"}, c : Clients, i : Nat \ {0}, bits : SUBSET Kinds]
    \cup [f : {"call"}, c : Clients, kind : Kinds, id : Ids \cup {0},
          how : {"queued", "safe", "immediate", "hinted"}, veto : BOOLEAN]
    \cup [f : {"copy"}, c : Clients, id : Ids, code : Codes]

Slots == 1..Cardinality(Clients)

TypeOK ==
  /\ program \in Programs
  /\ funcs \in [Clients -> SUBSET Funcs]
  /\ processing \subseteq Clients /\ vetoed \in BOOLEAN
  /\ loop \in {"out", "in", "stopping"}
  /\ order \in Seq(Clients) /\ queue \in [Clients -> Seq(Condition)]
  /\ latest \in [Clients -> Nat] /\ eventQueued \in BOOLEAN
  /\ sched \in [Slots -> Clients \cup {NoClient}]
  /\ events \in Seq(Condition) /\ stack \in Seq(Frame)
  /\ handed \in [Clients -> Seq(Ids)]
  /\ posts \in 0..Len(CodeOf) /\ calls \in 0..MaxCalls /\ detects \in 0..MaxDetects

Init ==
  /\ program \in Programs
  /\ funcs = program.funcs /\ processing = {} /\ vetoed = FALSE /\ loop = "out"
  /\ order = <<>> /\ queue = [c \in Clients |-> <<>>] /\ latest = [c \in Clients |-> 0]
  /\ eventQueued = FALSE /\ sched = [i \in Slots |-> NoClient]
  /\ events = <<>> /\ stack = <<>> /\ handed = [c \in Clients |-> <<>>]
  /\ posts = 0 /\ calls = 0 /\ detects = 0

-----------------------------------------------------------------------------
(* The stack.                                                              *)

Top   == Last(stack)
Below == Front(stack)
At(f) == stack # <<>> /\ Top.f = f

SetTop(st, frame) == [st EXCEPT ![Len(st)] = frame]

(* A function is called for a kind of notification, by the dispatcher or by *)
(* the poster; veto remembers that it has called notify_veto_destroy.       *)
Activated(c, kind, id, how) ==
  [f |-> "call", c |-> c, kind |-> kind, id |-> id, how |-> how, veto |-> FALSE]

(* The main program, before notify_start, or a function being called.      *)
MayCall == (stack = <<>> /\ loop = "out" /\ "early" \in Calls) \/ At("call")
MayCallOnce(name) == MayCall /\ name \in Calls /\ calls < MaxCalls /\ calls' = calls + 1

-----------------------------------------------------------------------------
(* The dispatcher's lists.                                                 *)

(* Mutant: a condition is put in front of the others.                      *)
Enqueue_AtFront(c, condition) ==
  /\ order' = IF c \in Range(order) THEN order ELSE Append(order, c)
  /\ queue' = [queue EXCEPT ![c] = <<condition>> \o @]
  /\ latest' = [latest EXCEPT ![c] = Len(queue[c]) + 1]
  /\ eventQueued' = TRUE

(* Mutant: NDIS_EVENT_QUEUED is not set, nor the client listed again.      *)
Enqueue_NotListed(c, condition) ==
  /\ order' = IF queue[c] # <<>> \/ eventQueued THEN order ELSE Append(order, c)
  /\ queue' = [queue EXCEPT ![c] = Append(@, condition)]
  /\ latest' = [latest EXCEPT ![c] = Len(queue[c]) + 1]
  /\ eventQueued' = TRUE

(* ndis_enqueue.                                                           *)
Enqueue(c, condition) ==
  /\ order' = IF c \in Range(order) THEN order ELSE Append(order, c)
  /\ queue' = [queue EXCEPT ![c] = Append(@, condition)]
  /\ latest' = [latest EXCEPT ![c] = Len(queue[c]) + 1]
  /\ eventQueued' = TRUE

(* The conditions of some kinds, in their order: SelectSeq, in a form that   *)
(* can be reasoned about.                                                  *)
OfKinds(conditions, kinds) ==
  LET upTo[n \in 0..Len(conditions)] ==
        IF n = 0 THEN <<>>
        ELSE IF conditions[n].kind \in kinds THEN Append(upTo[n - 1], conditions[n])
        ELSE upTo[n - 1]
  IN upTo[Len(conditions)]

(* ntfy_find_condition, by type and for events by code: the hint if it     *)
(* fits, or the first that does.                                           *)
Fits(condition, kind, code) ==
  IF kind \in Destroy THEN condition.kind \in Destroy
                      ELSE condition.kind = kind /\ condition.code = code

Matching(c, kind, code) == {p \in DOMAIN queue[c] : Fits(queue[c][p], kind, code)}

Find(c, matching) ==
  IF latest[c] \in matching THEN latest[c]
  ELSE CHOOSE p \in matching : \A q \in matching : p <= q

Unlisted(c) ==
  IF c \in Range(order) THEN RemoveAt(order, CHOOSE i \in DOMAIN order : order[i] = c) ELSE order

(* Mutant: the newest condition is removed, not the one that was found.     *)
Unset_Newest(c, p) ==
  /\ queue' = [queue EXCEPT ![c] = Front(@)]
  /\ latest' = [latest EXCEPT ![c] = 0]
  /\ order' = IF Len(queue[c]) = 1 THEN Unlisted(c) ELSE order

(* ntfy_unset_condition for the dispatcher: the hint is dropped whichever   *)
(* condition goes, the client with its last condition.                     *)
Unset(c, p) ==
  /\ queue' = [queue EXCEPT ![c] = RemoveAt(@, p)]
  /\ latest' = [latest EXCEPT ![c] = 0]
  /\ order' = IF Len(queue[c]) = 1 THEN Unlisted(c) ELSE order

(* ndis_flush_condition takes all conditions of a type away, but            *)
(* ndis_flush_wait3 the first only.                                        *)
Left(c, kinds) ==
  LET flushed == {p \in DOMAIN queue[c] : queue[c][p].kind \in kinds} IN
  IF kinds = {"wait3"} /\ flushed # {} THEN RemoveAt(queue[c], CHOOSE p \in flushed :
                                                         \A q \in flushed : p <= q)
  ELSE OfKinds(queue[c], Kinds \ kinds)

FlushKinds(c, kinds) ==
  LET left == Left(c, kinds) IN
  /\ queue' = [queue EXCEPT ![c] = left]
  /\ latest' = [latest EXCEPT ![c] = IF left = queue[c] THEN @ ELSE 0]
  /\ order' = IF left = <<>> THEN Unlisted(c) ELSE order

(* notify_flush_pending.                                                   *)
Flush(c) ==
  /\ queue' = [queue EXCEPT ![c] = <<>>]
  /\ latest' = [latest EXCEPT ![c] = 0]
  /\ order' = Unlisted(c)
  /\ sched' = IF c \in Range(order)
              THEN [i \in Slots |-> IF sched[i] = c THEN NoClient ELSE sched[i]]
              ELSE sched

-----------------------------------------------------------------------------
(* Posting.                                                                *)

(* Mutant: the clients are counted before the new one is on the list.       *)
StartDispatch_Short(st) ==
  /\ sched' = [i \in Slots |-> IF i <= Len(order') THEN order'[i] ELSE sched[i]]
  /\ stack' = Append(st, [f |-> "sched", i |-> 1, n |-> Len(order)])

(* ndis_dispatch: the clients on the list are written over the front of the *)
(* table, whoever still reads it.                                          *)
StartDispatch(st) ==
  /\ sched' = [i \in Slots |-> IF i <= Len(order') THEN order'[i] ELSE sched[i]]
  /\ stack' = Append(st, [f |-> "sched", i |-> 1, n |-> Len(order')])

(* Enqueued, and dispatched at once unless notify_start is running.         *)
Queue(c, condition, st) ==
  /\ Enqueue(c, condition)
  /\ IF loop = "out" THEN StartDispatch(st) ELSE stack' = st /\ UNCHANGED sched

(* Mutant: the client is not protected from recursive safe events.         *)
CallNow_Unprotected(c, id, how, st) ==
  /\ processing' = processing
  /\ stack' = Append(st, Activated(c, "event", id, how))
  /\ handed' = IF how = "safe" THEN [handed EXCEPT ![c] = Append(@, id)] ELSE handed

(* ndet_p_event calls a function now: an immediate one, or a safe one while *)
(* it is safe.                                                             *)
CallNow(c, id, how, st) ==
  /\ processing' = processing \cup {c}
  /\ stack' = Append(st, Activated(c, "event", id, how))
  /\ handed' = IF how = "safe" THEN [handed EXCEPT ![c] = Append(@, id)] ELSE handed

(* The type of function that gets the event: the one the hint names, or the *)
(* other when there is none.                                               *)
Target(c, hint) == IF hint \in funcs[c] THEN hint
                   ELSE CHOOSE type \in {"safe", "immediate"} : type # hint

(* notify_post_event_and_arg, up to the first call out of it.              *)
Post(c, hint) ==
  LET id == posts + 1
      type == Target(c, hint)
      busy == c \in processing
  IN
  /\ MayCall /\ posts < Len(CodeOf) /\ Len(stack) < MaxDepth
  /\ hint \in {"safe", "immediate"} /\ type \in funcs[c]
  /\ posts' = id
  /\ \/ /\ type = "immediate"
        /\ CallNow(c, id, IF hint = type THEN "hinted" ELSE type, stack)
        /\ UNCHANGED <<listVars, eventQueued, sched>>
     \/ /\ type = "safe" /\ ~busy
        /\ CallNow(c, id, "safe", stack)
        /\ UNCHANGED <<listVars, eventQueued, sched>>
     \/ /\ type = "safe" /\ busy /\ id \notin Copied
        /\ Queue(c, [kind |-> "event", code |-> CodeOf[id], id |-> id], stack)
        /\ UNCHANGED <<processing, handed>>
     \/ /\ type = "safe" /\ busy /\ id \in Copied
        /\ stack' = Append(stack, [f |-> "copy", c |-> c, id |-> id, code |-> CodeOf[id]])
        /\ UNCHANGED <<processing, handed, listVars, eventQueued, sched>>
  /\ UNCHANGED <<program, funcs, vetoed, loop, events, calls, detects>>

(* The copy function is done.  It ran outside the critical section, while   *)
(* the code was in the detector's condition.                               *)
EndCopy ==
  /\ At("copy")
  /\ Queue(Top.c, [kind |-> "event", code |-> Top.code, id |-> Top.id], Below)
  /\ UNCHANGED <<program, detVars, loop, events, handed, budgets>>

(* A function called for an asynchronous signal posts a safe event: never   *)
(* now, always by way of the detector's condition.                         *)
PostAsync(c) ==
  LET id == posts + 1 IN
  /\ "async" \in Calls /\ loop # "out" /\ posts < Len(CodeOf) /\ "safe" \in funcs[c]
  /\ posts' = id
  /\ Enqueue(c, [kind |-> "event", code |-> CodeOf[id], id |-> id])
  /\ stack' = IF At("copy") /\ Top.c = c
              THEN SetTop(stack, [Top EXCEPT !.code = CodeOf[id]]) ELSE stack
  /\ UNCHANGED <<program, detVars, loop, sched, events, handed, calls, detects>>

(* notify_post_destroy with NOTIFY_IMMEDIATE: ndet_immediate_destroy.       *)
DestroyNow(c, status) ==
  /\ MayCallOnce("destroy_now") /\ Len(stack) < MaxDepth
  /\ "destroy" \in funcs[c]
  /\ vetoed' = FALSE
  /\ stack' = Append(stack, Activated(c, status, 0, "immediate"))
  /\ UNCHANGED <<program, funcs, processing, loop, listVars, eventQueued, sched, events, handed,
                 posts, detects>>

(* notify_post_destroy with NOTIFY_SAFE.                                   *)
DestroyLater(c, status) ==
  /\ MayCallOnce("destroy_later") /\ Len(stack) < MaxDepth
  /\ "destroy" \in funcs[c]
  /\ Queue(c, [kind |-> status, code |-> 0, id |-> 0], stack)
  /\ UNCHANGED <<program, detVars, loop, events, handed, posts, detects>>

-----------------------------------------------------------------------------
(* The other calls of clients.                                             *)

(* notify_veto_destroy: the client it is called for is not looked at.       *)
Veto ==
  /\ MayCall /\ "veto" \in Calls /\ stack # <<>> /\ Top.kind \in Destroy
  /\ vetoed' = TRUE
  /\ stack' = SetTop(stack, [Top EXCEPT !.veto = TRUE])
  /\ UNCHANGED <<program, funcs, processing, loop, listVars, eventQueued, sched, events, handed,
                 budgets>>

FlushPending(c) ==
  /\ MayCallOnce("flush") /\ Flush(c)
  /\ UNCHANGED <<program, detVars, loop, eventQueued, events, stack, handed, posts, detects>>

(* Mutant: what is pending for the client stays with the dispatcher.       *)
RemoveClient_Pending(c) ==
  /\ UNCHANGED <<listVars, sched>>
  /\ funcs' = [funcs EXCEPT ![c] = {}] /\ processing' = processing \ {c}

(* notify_remove.                                                          *)
RemoveClient(c) ==
  /\ Flush(c)
  /\ funcs' = [funcs EXCEPT ![c] = {}] /\ processing' = processing \ {c}

NotifyRemove(c) ==
  /\ MayCallOnce("remove") /\ RemoveClient(c)
  /\ UNCHANGED <<program, vetoed, loop, eventQueued, events, stack, handed, posts, detects>>

(* notify_set_*_func with a function: a client the detector does not have   *)
(* begins with no flag set.                                                *)
SetFunc(c, type) ==
  /\ MayCallOnce("set") /\ type \notin funcs[c]
  /\ funcs' = [funcs EXCEPT ![c] = @ \cup {type}]
  /\ UNCHANGED <<program, processing, vetoed, loop, listVars, eventQueued, sched, events, stack,
                 handed, posts, detects>>

KindsOf(type) ==
  CASE type = "safe" -> {"event"} [] type = "immediate" -> {}
    [] type = "destroy" -> Destroy [] OTHER -> {type}

(* A condition of the detector is unset, with the client if it was its last.*)
Unsettle(c, type) ==
  /\ funcs' = [funcs EXCEPT ![c] = @ \ {type}]
  /\ processing' = IF funcs[c] = {type} THEN processing \ {c} ELSE processing

(* notify_set_*_func with NOTIFY_FUNC_NULL.                                *)
UnsetFunc(c, type) ==
  /\ MayCallOnce("unset") /\ type \in funcs[c]
  /\ FlushKinds(c, KindsOf(type)) /\ Unsettle(c, type)
  /\ UNCHANGED <<program, vetoed, loop, eventQueued, sched, events, stack, handed, posts, detects>>

(* notify_stop.                                                            *)
Stop ==
  /\ MayCallOnce("stop") /\ loop = "in"
  /\ loop' = "stopping"
  /\ UNCHANGED <<program, detVars, listVars, eventQueued, sched, events, stack, handed, posts, detects>>

-----------------------------------------------------------------------------
(* Dispatching.                                                            *)

Rank == <<"itimer", "wait3", "signal", "exception", "event", "output", "input",
          "check", "cleanup", "death", "save">>

(* What the default prioritizer turns to next.                             *)
First(bits) == LET at == {i \in DOMAIN Rank : Rank[i] \in bits} IN
               Rank[CHOOSE i \in at : \A j \in at : i <= j]

EventsTurn == At("client") /\ Top.bits # {} /\ First(Top.bits) = "event"

(* notify_client up to the prioritizer: the events go into the global       *)
(* arrays, the other conditions into bits of this activation.              *)
Visit(c, st) ==
  /\ eventQueued' = FALSE
  /\ events' = OfKinds(queue[c], {"event"})
  /\ stack' = Append(st, [f |-> "client", c |-> c, i |-> 1,
                          bits |-> {"event"} \cup {queue[c][p].kind : p \in DOMAIN queue[c]}])

(* The place in the table is done with.                                    *)
Advance(st) ==
  LET top == Last(st) IN
  /\ sched' = [sched EXCEPT ![top.i] = NoClient]
  /\ stack' = SetTop(st, [top EXCEPT !.i = @ + 1])

(* The default scheduler turns to the next client of the table, unless it   *)
(* was nulled or has nothing pending.                                      *)
ScheduleNext ==
  /\ At("sched") /\ Top.i <= Top.n
  /\ IF sched[Top.i] \in Range(order)
     THEN Visit(sched[Top.i], stack) /\ UNCHANGED sched
     ELSE Advance(stack) /\ UNCHANGED <<eventQueued, events>>
  /\ UNCHANGED <<program, detVars, loop, listVars, handed, budgets>>

(* The prioritizer has returned: notify_client starts again if a condition  *)
(* was queued in the meantime, for whichever client.                       *)
LeaveClient ==
  /\ At("client") /\ Top.bits = {}
  /\ IF eventQueued /\ Top.c \in Range(order)
     THEN Visit(Top.c, Below) /\ UNCHANGED sched
     ELSE Advance(Below) /\ UNCHANGED <<eventQueued, events>>
  /\ UNCHANGED <<program, detVars, loop, listVars, handed, budgets>>

(* The table is done; a notify_start that was to stop returns.              *)
LeaveDispatch ==
  /\ At("sched") /\ Top.i > Top.n
  /\ stack' = Below
  /\ loop' = IF Below = <<>> /\ loop = "stopping" THEN "out" ELSE loop
  /\ UNCHANGED <<program, detVars, listVars, eventQueued, sched, events, handed, budgets>>

(* Mutant: what the arrays hold is sent though the condition has gone.      *)
NotifyEvent_Unchecked ==
  /\ EventsTurn /\ Top.i <= Len(events)
  /\ LET c == Top.c
         event == events[Top.i]
         matching == Matching(c, "event", event.code)
         next == SetTop(stack, [Top EXCEPT !.i = @ + 1])
     IN /\ IF matching = {} THEN UNCHANGED listVars ELSE Unset(c, Find(c, matching))
        /\ processing' = IF funcs[c] = {} THEN processing ELSE processing \cup {c}
        /\ stack' = Append(next, Activated(c, "event", event.id, "queued"))
        /\ handed' = [handed EXCEPT ![c] = Append(@, event.id)]
  /\ UNCHANGED <<program, funcs, vetoed, loop, eventQueued, sched, events, budgets>>

(* The prioritizer calls notify_event for the next place of the arrays: the *)
(* function gets the code and argument of the arrays, and some condition    *)
(* with that code is removed, if there is one.                             *)
NotifyEvent ==
  /\ EventsTurn /\ Top.i <= Len(events)
  /\ LET c == Top.c
         event == events[Top.i]
         matching == Matching(c, "event", event.code)
         next == SetTop(stack, [Top EXCEPT !.i = @ + 1])
     IN IF matching = {}
        THEN stack' = next /\ UNCHANGED <<listVars, processing, handed>>
        ELSE /\ Unset(c, Find(c, matching))
             /\ processing' = IF funcs[c] = {} THEN processing ELSE processing \cup {c}
             /\ stack' = Append(next, Activated(c, "event", event.id, "queued"))
             /\ handed' = [handed EXCEPT ![c] = Append(@, event.id)]
  /\ UNCHANGED <<program, funcs, vetoed, loop, eventQueued, sched, events, budgets>>

EventsDone ==
  /\ EventsTurn /\ Top.i > Len(events)
  /\ events' = <<>>
  /\ stack' = SetTop(stack, [Top EXCEPT !.bits = @ \ {"event"}])
  /\ UNCHANGED <<program, detVars, loop, listVars, eventQueued, sched, handed, budgets>>

(* What is left to do after a kind.  notify_wait3 goes on while there is a  *)
(* condition to be found; only one of the last three is sent.              *)
Without(bits, kind) ==
  IF kind = "wait3" THEN bits
  ELSE IF kind \in Finals THEN bits \ Finals ELSE bits \ {kind}

(* The prioritizer calls notify_input, notify_itimer, notify_destroy, ...:  *)
(* nothing happens if the condition has gone since the bits were set.       *)
NotifyOther ==
  /\ At("client") /\ Top.bits # {} /\ First(Top.bits) # "event"
  /\ LET c == Top.c
         kind == First(Top.bits)
         matching == Matching(c, kind, 0)
     IN IF matching = {}
        THEN /\ stack' = SetTop(stack, [Top EXCEPT !.bits = Without(@, kind) \ {kind}])
             /\ UNCHANGED <<listVars, vetoed>>
        ELSE /\ Unset(c, Find(c, matching))
             /\ vetoed' = (vetoed /\ kind \notin Destroy)
             /\ stack' = Append(SetTop(stack, [Top EXCEPT !.bits = Without(@, kind)]),
                                Activated(c, kind, 0, "queued"))
  /\ UNCHANGED <<program, funcs, processing, loop, eventQueued, sched, events, handed, budgets>>

-----------------------------------------------------------------------------
(* A function returns.                                                     *)

ReturnEvent ==
  /\ At("call") /\ Top.kind = "event"
  /\ processing' = processing \ {Top.c}
  /\ stack' = Below
  /\ UNCHANGED <<program, funcs, vetoed, loop, listVars, eventQueued, sched, events, handed, budgets>>

(* An immediate function returns NOTIFY_IGNORED: the safe one is tried, and *)
(* as the flag has just been cleared it is called now.                     *)
Ignore ==
  /\ "ignore" \in Calls /\ At("call") /\ Top.how = "hinted" /\ "safe" \in funcs[Top.c]
  /\ CallNow(Top.c, Top.id, "safe", Below)
  /\ UNCHANGED <<program, funcs, vetoed, loop, listVars, eventQueued, sched, events, budgets>>

ReturnDetected ==
  /\ At("call") /\ Top.kind \in Detected
  /\ stack' = Below
  /\ UNCHANGED <<program, detVars, loop, listVars, eventQueued, sched, events, handed, budgets>>

(* A client was asked; if it vetoed and its destruction is pending as well, *)
(* the prioritizer flushes all that is pending for it.                     *)
ReturnChecked ==
  /\ At("call") /\ Top.kind \in {"check", "save"}
  /\ LET client == Last(Below) IN
     IF /\ Top.how = "queued" /\ Top.kind = "check" /\ vetoed
        /\ client.bits \cap {"cleanup", "death"} # {}
     THEN /\ Flush(Top.c)
          /\ stack' = SetTop(Below, [client EXCEPT !.bits = @ \ {"cleanup", "death"}])
     ELSE stack' = Below /\ UNCHANGED <<listVars, sched>>
  /\ UNCHANGED <<program, detVars, loop, eventQueued, events, handed, budgets>>

(* A client was told to go: it is removed if it has not done so itself.     *)
ReturnDestroyed ==
  /\ At("call") /\ Top.kind \in {"cleanup", "death"}
  /\ stack' = Below
  /\ IF funcs[Top.c] # {} THEN RemoveClient(Top.c)
     ELSE UNCHANGED <<funcs, processing, listVars, sched>>
  /\ UNCHANGED <<program, vetoed, loop, eventQueued, events, handed, budgets>>

-----------------------------------------------------------------------------
(* notify_start, notify_dispatch.                                          *)

(* notify_start; or notify_dispatch, which stops after one turn.            *)
Start(name, first) ==
  /\ stack = <<>> /\ loop = "out"
  /\ name \in Calls /\ calls < MaxCalls /\ calls' = calls + 1
  /\ loop' = first
  /\ UNCHANGED <<program, detVars, listVars, eventQueued, sched, events, stack, handed, posts, detects>>

(* A timer without interval has expired, or a child has exited: the function*)
(* is unset, with what is pending for it, before the last notification is   *)
(* enqueued.                                                               *)
Expire(c, kind) ==
  LET left == Left(c, {kind}) IN
  /\ order' = IF left = <<>> THEN Append(Unlisted(c), c) ELSE order
  /\ queue' = [queue EXCEPT ![c] = Append(left, [kind |-> kind, code |-> 0, id |-> 0])]
  /\ latest' = [latest EXCEPT ![c] = Len(left) + 1]
  /\ eventQueued' = TRUE
  /\ Unsettle(c, kind)

(* The detector has found something and enqueues it: a descriptor or signal *)
(* once in a turn of the loop, a timer at its top and on SIGALRM as well, a *)
(* child any number of times.                                              *)
Detect(c, kind) ==
  /\ stack = <<>> /\ loop # "out" /\ detects < MaxDetects
  /\ kind \in funcs[c] \cap Detected
  /\ kind \notin OneShot => Matching(c, kind, 0) = {}
  /\ detects' = detects + 1
  /\ \/ /\ Enqueue(c, [kind |-> kind, code |-> 0, id |-> 0])
        /\ UNCHANGED <<funcs, processing>>
     \/ kind \in OneShot /\ Expire(c, kind)
  /\ UNCHANGED <<program, vetoed, loop, sched, events, stack, handed, posts, calls>>

(* The turn of the loop ends in ndis_dispatch.                             *)
Dispatch ==
  /\ stack = <<>> /\ loop # "out"
  /\ order # <<>> \/ loop = "stopping"
  /\ UNCHANGED order /\ StartDispatch(stack)
  /\ UNCHANGED <<program, detVars, loop, queue, latest, eventQueued, events, handed, budgets>>

Notifier == ScheduleNext \/ LeaveClient \/ LeaveDispatch \/ NotifyEvent \/ EventsDone
            \/ NotifyOther \/ EndCopy \/ Dispatch

Returns == ReturnEvent \/ ReturnDetected \/ ReturnChecked \/ ReturnDestroyed

Clientele ==
  \/ \E c \in Clients : \/ \E hint \in {"safe", "immediate"} : Post(c, hint)
                        \/ PostAsync(c)
                        \/ \E status \in program.statuses : DestroyNow(c, status) \/ DestroyLater(c, status)
                        \/ FlushPending(c) \/ NotifyRemove(c)
                        \/ \E type \in Funcs : SetFunc(c, type) \/ UnsetFunc(c, type)
                        \/ \E kind \in Detected : Detect(c, kind)
  \/ Veto \/ Stop \/ Ignore \/ Start("start", "in") \/ Start("once", "stopping")

Next == Notifier \/ Returns \/ Clientele

Spec == Init /\ [][Next]_vars

(* The program runs: functions return, and the notifier goes on.            *)
FairSpec == Spec /\ WF_vars(Notifier) /\ WF_vars(Returns)

-----------------------------------------------------------------------------
(* All variables keep their types, the dispatcher lists exactly the clients *)
(* that have conditions pending, each once, and a hint (condition_latest)   *)
(* points at the newest condition of its client, never at one that has been *)
(* freed.                                                                  *)
ListsAgree ==
  /\ TypeOK
  /\ Range(order) = {c \in Clients : queue[c] # <<>>}
  /\ \A i, j \in DOMAIN order : order[i] = order[j] => i = j
  /\ \A c \in Clients : latest[c] \in {0, Len(queue[c])}

(* What is pending can be delivered: for every pending notification but     *)
(* those that occur once, the client still has a function set, although     *)
(* clients and functions are removed while they, or others, are called      *)
(* (ndis_flush_condition, notify_flush_pending).                           *)
StillWanted ==
  \A c \in Clients : \A p \in DOMAIN queue[c] :
     queue[c][p].kind \in OneShot \/ \E type \in funcs[c] : queue[c][p].kind \in KindsOf(type)

(* Both: what is pending is listed, and can be delivered.                   *)
PendingSound == ListsAgree /\ StillWanted

(* In a program that does not enter notify_start whatever is posted is      *)
(* dispatched before control is back in its main function, however deep the *)
(* functions post and dispatch in one another and write over the table, the *)
(* arrays and the flag.                                                    *)
NothingStranded ==
  {"start", "once"} \cap Calls = {} /\ stack = <<>> => order = <<>>

(* A client is never called for a safe event while it is being called for   *)
(* one (NCLT_EVENT_PROCESSING).                                            *)
SafeCalls(c) == {i \in DOMAIN stack : /\ stack[i].f = "call" /\ stack[i].c = c
                                      /\ stack[i].kind = "event"
                                      /\ stack[i].how \in {"queued", "safe"}}
NoRecursiveSafe == \A c \in Clients : Cardinality(SafeCalls(c)) <= 1

(* No event is handed to a client a second time.                           *)
HandedOnce == \A c \in Clients : \A i, j \in DOMAIN handed[c] :
                 handed[c][i] = handed[c][j] => i = j

(* A pending event has the code it was posted with.                        *)
EventIntact == \A c \in Clients : \A p \in DOMAIN queue[c] :
                  queue[c][p].kind = "event" => queue[c][p].code = CodeOf[queue[c][p].id]

(* A queued event that is handed to a client was still pending: what was    *)
(* flushed, or belonged to a removed client, is not referred to again.      *)
HandsPending ==
  [][At("client") /\ Len(stack') > Len(stack) /\ Last(stack').kind = "event"
       => \E p \in DOMAIN queue[Top.c] : queue[Top.c][p].id = Last(stack').id]_vars

(* A client that calls notify_veto_destroy when it is asked is not destroyed*)
(* by the same visit of the dispatcher.                                    *)
VetoReturns == /\ At("call") /\ Top.kind = "check" /\ Top.how = "queued" /\ Top.veto
               /\ Len(stack') < Len(stack)
VetoHonoured ==
  [][VetoReturns => Last(stack').bits \cap {"cleanup", "death"} = {}]_vars

(* Every event that waits is taken from the queue in the end, unless the    *)
(* program leaves notify_start: by WF(Notifier) and WF(Returns).            *)
Waits(id) == \E c \in Clients : \E p \in DOMAIN queue[c] : queue[c][p].id = id
NoneWaitsForEver == \A id \in Ids : Waits(id) ~> (~Waits(id) \/ loop = "out")

(* The events as a client sees them.  An event that is being copied, or that*)
(* an immediate function may yet ignore, is not decided upon.              *)
Undecided == {stack[i].id : i \in {j \in DOMAIN stack :
                stack[j].f = "copy" \/ (stack[j].f = "call" /\ stack[j].how = "hinted")}}

EventsOf(c) == OfKinds(queue[c], {"event"})

Promise == INSTANCE EventDelivery WITH
  Events  <- Ids,
  taken   <- (1..posts) \ Undecided,
  pending <- [c \in Clients |-> [i \in DOMAIN EventsOf(c) |-> EventsOf(c)[i].id]]

Delivers == Promise!Spec

==============================================================================
