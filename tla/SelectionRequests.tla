-------------------------- MODULE SelectionRequests --------------------------
(***************************************************************************)
(* Requests for a selection (libxview/selection, sel_req.c, sel_util.c).   *)
(* A process posts requests (sel_post_req: a reply_proc is called when the *)
(* answer has come, a timer ends the request if none comes) or makes       *)
(* blocking ones (xv_get SEL_DATA).  The owner, another program, leaves its *)
(* answer in a property of the requestor's window which the request names, *)
(* and sends a SelectionNotify.  The properties come from a pool; pending  *)
(* requests stand in a table, where an answer looks for its request by the *)
(* target.  A request for several targets (MULTIPLE) names a property with *)
(* a list of pairs of a target and a property.                             *)
(*                                                                         *)
(* One selection and one window; no INCR (IncrTransfer), no answers within *)
(* the process.                                                            *)
(***************************************************************************)
EXTENDS Integers, Sequences, FiniteSets, SequencesExt

CONSTANTS
  Targets, Multiple,  \* Multiple: the target MULTIPLE
  Alone,              \* the targets that are also requested on their own
  ListOf,             \* the targets of a MULTIPLE request, in their order
  OwnTimes,           \* no two requests have the same time
  PostInside,         \* a reply_proc may post requests
  MaxRequests         \* bound: requests

ASSUME RequestsAssumption ==
  /\ Multiple \notin Targets /\ Alone \subseteq Targets /\ ListOf \in Seq(Targets)
  /\ {OwnTimes, PostInside} \subseteq BOOLEAN /\ MaxRequests \in Nat

VARIABLES
  request,  \* Sel_reply_info of every request so far
  table,    \* Sel_req_list: [done, r], r an index of request
  timer,    \* the requests for which a timer is set
  taken,    \* Sel_prop_list: the properties that are not avail
  value,    \* the properties of the window
  calls,    \* the SelectionRequests that the owner has not handled
  events,   \* the SelectionNotifys that the process has not handled
  inside,   \* XvGetRequestedValue, ProcessMultiple: where the process is
  waiting   \* the blocking request that waits for its answer, or 0

requestVars == <<request, table, timer, taken, value, calls, events, inside, waiting>>

Properties == 1..(MaxRequests * (1 + Len(ListOf)))
Ids        == 1..MaxRequests
Pair       == [target : Targets, property : Properties \cup {0}]
None       == 0
Nothing    == [is |-> "nothing"]
Data(t)    == [is |-> "data", target |-> t]
List(l)    == [is |-> "pairs", pairs |-> l]
Outside    == [r |-> 0, at |-> "out", pairs |-> <<>>, got |-> Nothing]

RequestsTypeOK ==
  /\ request \in Seq([blocking : BOOLEAN, target : Targets \cup {Multiple},
                      property : Properties, pairs : Seq(Pair), time : Nat])
  /\ Len(request) <= MaxRequests
  /\ table \in Seq([done : BOOLEAN, r : Ids]) /\ timer \subseteq Ids
  /\ taken \subseteq Properties
  /\ DOMAIN value = Properties
  /\ inside.at \in {"out", "read", "called"} /\ inside.r \in Ids \cup {0}
  /\ inside.pairs \in Seq(Pair)
  /\ waiting \in Ids \cup {0}

RequestsInit ==
  /\ request = <<>> /\ table = <<>> /\ timer = {} /\ taken = {}
  /\ value = [p \in Properties |-> Nothing]
  /\ calls = <<>> /\ events = <<>> /\ inside = Outside /\ waiting = 0

-----------------------------------------------------------------------------
(* The pool and the table.                                                 *)

(* xv_sel_get_property: the first that is avail; the list grows as needed. *)
Available ==
  LET free == Properties \ taken IN
  [k \in 1..(1 + Len(ListOf)) |->
     CHOOSE p \in free : Cardinality({q \in free : q < p}) = k - 1]

PropertiesOf(r) == {request[r].property} \cup {pr.property : pr \in ToSet(request[r].pairs)}

Pending == {table[i].r : i \in {j \in DOMAIN table : ~table[j].done}}

First(P(_)) == SelectInSeq(table, LAMBDA s : ~s.done /\ P(s.r))

(* xv_sel_set_reply, xv_sel_add_new_req: the first slot that is done, or a *)
(* new one.                                                                *)
Entered(r) ==
  LET i == SelectInSeq(table, LAMBDA s : s.done)
      s == [done |-> FALSE, r |-> r]
  IN IF i = 0 THEN Append(table, s) ELSE [table EXCEPT ![i] = s]

(* SelMatchReqTbl, SelFindReply: a request's slot is found by what it is.  *)
SlotOf(r) == First(LAMBDA o : /\ request[o].target = request[r].target
                              /\ request[o].property = request[r].property
                              /\ request[o].time = request[r].time)

(* xv_sel_get_reply, SelMatchReply: the first request for this target.     *)
Asking(t) == LET i == First(LAMBDA o : request[o].target = t)
             IN IF i = 0 THEN 0 ELSE table[i].r

(* Mutant: the slot is given up without its timer.                         *)
End_Timed(r, given) ==
  LET i == SlotOf(r) IN
  IF i # 0
  THEN /\ table' = [table EXCEPT ![i].done = TRUE] /\ UNCHANGED timer
       /\ taken' = (taken \ given) \ PropertiesOf(r)
  ELSE /\ UNCHANGED <<table, timer>>
       /\ taken' = (taken \ given) \ {pr.property : pr \in ToSet(request[r].pairs)}

(* xv_sel_end_request, after the properties "given" have become avail: a   *)
(* blocking request has no slot, and only its pairs are given back.        *)
End(r, given) ==
  LET i == SlotOf(r) IN
  IF i # 0
  THEN /\ table' = [table EXCEPT ![i].done = TRUE]
       /\ timer' = timer \ {r}
       /\ taken' = (taken \ given) \ PropertiesOf(r)
  ELSE /\ UNCHANGED <<table, timer>>
       /\ taken' = (taken \ given) \ {pr.property : pr \in ToSet(request[r].pairs)}

-----------------------------------------------------------------------------
(* The requestor.                                                          *)

Free == waiting = 0 /\ (inside.at = "out" \/ (PostInside /\ inside.at = "called"))

LastTime == IF request = <<>> THEN 1 ELSE Last(request).time

(* sel_post_req, or xv_get(SEL_DATA): NewReplyInfo, SetupMultipleRequest,  *)
(* XConvertSelection.                                                      *)
Request(blocking, t, time) ==
  LET r == Len(request) + 1
      n == IF t = Multiple THEN Len(ListOf) ELSE 0
      p == Available[1]
      pairs == [i \in 1..n |-> [target |-> ListOf[i], property |-> Available[i + 1]]]
  IN /\ Free /\ r <= MaxRequests /\ (blocking => inside.at = "out")
     /\ OwnTimes => time > LastTime
     /\ request' = Append(request, [blocking |-> blocking, target |-> t, property |-> p,
                                    pairs |-> pairs, time |-> time])
     /\ taken' = taken \cup ToSet(SubSeq(Available, 1, n + 1))
     /\ value' = IF n = 0 THEN value ELSE [value EXCEPT ![p] = List(pairs)]
     /\ calls' = Append(calls, [target |-> t, property |-> p, time |-> time])
     /\ IF blocking
        THEN waiting' = r /\ UNCHANGED <<table, timer>>
        ELSE table' = Entered(r) /\ timer' = timer \cup {r} /\ UNCHANGED waiting
     /\ UNCHANGED <<events, inside>>

(* Mutant: the property named by the answer is given back: "None" is all.  *)
GiveUp_All(r) == End(r, Properties)

(* What GetSelection gives back when it fails without an answer or with a  *)
(* bad one: the property, and in xv_sel_end_request the pairs.             *)
GiveUp(r) == End(r, {request[r].property})

(* Mutant: the time of an answer is not compared.                          *)
Fits_Any(r, ev) == TRUE

(* CheckSelectionNotify.                                                   *)
Fits(r, ev) == ev.time = request[r].time

(* The answer is good: it is read from the property that it names, or the  *)
(* list of the pairs from that of the request (the first of the targets    *)
(* that were not converted are told as errors on the way).                 *)
Begin(r, ev) ==
  /\ inside' = [r |-> r, at |-> "read", got |-> Nothing,
                pairs |-> IF request[r].target = Multiple
                          THEN LET v == value[request[r].property]
                               IN IF v.is = "pairs" THEN v.pairs ELSE <<>>
                          ELSE <<[target |-> ev.target, property |-> ev.property]>>]
  /\ value' = IF request[r].target = Multiple
              THEN [value EXCEPT ![request[r].property] = Nothing] ELSE value
  /\ UNCHANGED <<table, timer, taken>>

(* xv_sel_handle_selection_notify.  An answer with another time, and the   *)
(* refusal of a MULTIPLE request, are told as errors and end nothing.      *)
Notified ==
  /\ waiting = 0 /\ inside.at = "out" /\ events # <<>>
  /\ events' = Tail(events)
  /\ LET ev == Head(events)
         r  == Asking(ev.target)
     IN IF r # 0 /\ Fits(r, ev) /\ ev.property # None
        THEN Begin(r, ev)
        ELSE /\ IF r # 0 /\ Fits(r, ev) /\ request[r].target # Multiple
                THEN End(r, {}) ELSE UNCHANGED <<table, timer, taken>>
             /\ UNCHANGED <<value, inside>>
  /\ UNCHANGED <<request, calls, waiting>>

(* xv_sel_block_for_event: of what has come, the first answer for the      *)
(* target is taken (xv_sel_check_selnotify), the others are left.          *)
Answered ==
  LET i == SelectInSeq(events, LAMBDA ev : ev.target = request[waiting].target) IN
  /\ waiting # 0 /\ i # 0
  /\ events' = RemoveAt(events, i) /\ waiting' = 0
  /\ IF Fits(waiting, events[i]) /\ events[i].property # None
     THEN inside.at = "out" /\ Begin(waiting, events[i])
     ELSE GiveUp(waiting) /\ UNCHANGED <<value, inside>>
  /\ UNCHANGED <<request, calls>>

(* xv_sel_block_for_event sees nothing for as long as SEL_TIMEOUT_VALUE.   *)
BlockingTimeout ==
  /\ waiting # 0 /\ ~\E ev \in ToSet(events) : ev.target = request[waiting].target
  /\ waiting' = 0 /\ GiveUp(waiting)
  /\ UNCHANGED <<request, value, calls, events, inside>>

(* XvGetRequestedValue: the value is read and deleted; if there is none, a *)
(* request for one target is left as it is.                                *)
Read ==
  /\ waiting = 0 /\ inside.at = "read" /\ inside.pairs # <<>>
  /\ LET p == Head(inside.pairs).property
         v == IF p = None THEN Nothing ELSE value[p]
     IN /\ inside' = IF v # Nothing
                     THEN [inside EXCEPT !.at = "called", !.got = v]
                     ELSE IF request[inside.r].target = Multiple
                     THEN [inside EXCEPT !.pairs = Tail(@)]
                     ELSE Outside
        /\ value' = IF v = Nothing THEN value ELSE [value EXCEPT ![p] = Nothing]
  /\ UNCHANGED <<request, table, timer, taken, calls, events, waiting>>

(* The reply_proc has returned: the property becomes avail ...             *)
Returned ==
  /\ waiting = 0 /\ inside.at = "called"
  /\ inside' = [inside EXCEPT !.at = "read", !.pairs = Tail(@), !.got = Nothing]
  /\ taken' = taken \ {Head(inside.pairs).property}
  /\ UNCHANGED <<request, table, timer, value, calls, events, waiting>>

(* ... and after the last target the request is ended.                     *)
Ended ==
  /\ waiting = 0 /\ inside.at = "read" /\ inside.pairs = <<>>
  /\ inside' = Outside /\ End(inside.r, {})
  /\ UNCHANGED <<request, value, calls, events, waiting>>

(* Mutant: the timer is reset and the request left in the table.           *)
Timeout_Only(r) ==
  /\ waiting = 0 /\ inside.at = "out" /\ r \in timer /\ timer' = timer \ {r}
  /\ UNCHANGED <<request, table, taken, value, calls, events, inside, waiting>>

(* xv_sel_handle_sel_timeout.                                              *)
Timeout(r) ==
  /\ waiting = 0 /\ inside.at = "out" /\ r \in timer
  /\ IF SlotOf(r) # 0 THEN End(r, {})
     ELSE timer' = timer \ {r} /\ UNCHANGED <<table, taken>>
  /\ UNCHANGED <<request, value, calls, events, inside, waiting>>

-----------------------------------------------------------------------------
(* The owner, another program.  It handles the requests in their order, as *)
(* late as it likes.                                                       *)
Answer ==
  /\ calls # <<>> /\ calls' = Tail(calls)
  /\ LET c == Head(calls)
         reply(p) == events' = Append(events, [target |-> c.target, property |-> p,
                                               time |-> c.time])
     IN \/ reply(None) /\ UNCHANGED value
        \/ /\ c.target # Multiple
           /\ value' = [value EXCEPT ![c.property] = Data(c.target)]
           /\ reply(c.property)
        \/ /\ c.target = Multiple /\ value[c.property].is = "pairs"
           /\ LET l == value[c.property].pairs IN
              \E done \in SUBSET DOMAIN l :
                value' = [p \in Properties |->
                            IF \E i \in done : l[i].property = p
                            THEN Data(l[CHOOSE i \in done : l[i].property = p].target)
                            ELSE IF p = c.property
                            THEN List([i \in DOMAIN l |-> IF i \in done THEN l[i]
                                                          ELSE [l[i] EXCEPT !.property = None]])
                            ELSE value[p]]
           /\ reply(c.property)
  /\ UNCHANGED <<request, table, timer, taken, inside, waiting>>

Requesting ==
  \E b \in BOOLEAN, t \in Alone \cup {Multiple}, more \in {0, 1} : Request(b, t, LastTime + more)

Running == Notified \/ Answered \/ BlockingTimeout \/ Read \/ Returned \/ Ended

RequestsNext == Requesting \/ Running \/ Answer \/ \E r \in Ids : Timeout(r)

RequestsSpec == RequestsInit /\ [][RequestsNext]_requestVars

(* The program runs and its timers expire; the owner need not answer.      *)
FairRequests == RequestsSpec /\ WF_requestVars(Running) /\ \A r \in Ids : SF_requestVars(Timeout(r))

-----------------------------------------------------------------------------
(* Properties.                                                             *)

(* What is under way: posted and not ended, or blocking.                   *)
Open == Pending \cup ({waiting, inside.r} \ {0})

(* The properties that a request still needs.                              *)
Needs(r) ==
  IF r = inside.r THEN {request[r].property} \cup {pr.property : pr \in ToSet(inside.pairs)}
  ELSE PropertiesOf(r)

(* "NOTE: the avail field should be reset to TRUE after a complete         *)
(* transaction" (sel_util.c:233): no two requests wait for an answer in    *)
(* the same property.                                                      *)
PropertiesApart ==
  \A r, s \in Open : r # s => (Needs(r) \cap Needs(s)) \ {None} = {}

(* A reply_proc gets, for a target, what the owner wrote for that target:  *)
(* not a list of pairs and not the answer to another request, also when    *)
(* answers come after the timeout and properties are used again.           *)
HandedItsTarget ==
  inside.at = "called" => inside.got = Data(Head(inside.pairs).target)

(* All variables keep their types, and a request has its timer exactly as  *)
(* long as it is pending, so that the timeout finds no Sel_reply_info that *)
(* has been freed.                                                         *)
TimedWhilePending == RequestsTypeOK /\ timer = Pending

(* Every request that is posted ends, whatever the owner does.             *)
EndsSometime == \A r \in Ids : r \in Pending ~> r \notin Pending
==============================================================================
