---------------------------- MODULE NotifierTimers ----------------------------
(***************************************************************************)
(* Interval timers of the XView Notifier (libxview/notify, ndetitimer.c,   *)
(* ndetsitimr.c, ndet_value.c, and the part of ndet_loop.c that works on   *)
(* them).  Every client may have one timer in real time and one in the     *)
(* process's user time; they share the two timers the kernel gives the     *)
(* process.  A timer whose value is the smallest there is, one             *)
(* microsecond, polls: it is served on every turn of the loop and keeps    *)
(* select() from blocking.                                                 *)
(*                                                                         *)
(* The clocks go on between any two steps.  That SIGALRM and SIGVTALRM get *)
(* from the catcher to the loop is the subject of NotifierSignals; here    *)
(* they are the set of those that have arrived.                            *)
(***************************************************************************)
EXTENDS Integers, FiniteSets

CONSTANTS
  Clients,
  Million,     \* microseconds in a second
  Requests,    \* what clients ask for: a value, and an interval or Zero
  EndOfTime,   \* NDET_END_OF_TIME
  Asked,       \* the timers notify_itimer_value is called for
  MaxTime,     \* bound: both clocks, in microseconds
  MaxCalls     \* bound: calls of clients

Whiches == {"real", "virtual"}
Timers  == Clients \X Whiches

TV == [sec : Nat, usec : 0..Million - 1]
Tv(sec, usec) == [sec |-> sec, usec |-> usec]
Zero == Tv(0, 0)
Poll == Tv(0, 1)          \* NOTIFY_POLLING_ITIMER.it_value

ASSUME TimerAssumption ==
  /\ Million \in Nat /\ Million > 1 /\ EndOfTime \in TV
  /\ Requests \subseteq [value : TV \ {Zero}, interval : TV]
  /\ Asked \subseteq Whiches /\ MaxTime \in Nat /\ MaxCalls \in Nat

VARIABLES
  timer,    \* the NTFY_ITIMER of each condition, or none
  first,    \* which of a client's two timers comes first in its conditions
  change,   \* NDET_REAL_CHANGE, NDET_VIRTUAL_CHANGE
  poll,     \* NDET_REAL_POLL, NDET_VIRTUAL_POLL
  auto,     \* SIGALRM and SIGVTALRM in ndet_sigs_auto, by their timers
  pc,       \* where the program is
  which, then, current, \* the update under way: of which timers, what follows, current_tv
  service,  \* enum_send.sigs
  queued,   \* the timers whose notifications the dispatcher holds
  clock,    \* the time of day, and the user time
  process,  \* the process's interval timers
  signals,  \* the signals that have arrived: ndet_sigs_received
  due,      \* for the properties: the time each timer is to expire
  calls

flags == <<change, poll, auto>>
update == <<which, then, current>>
kernel == <<clock, process, signals>>
vars == <<timer, first, flags, pc, update, service, queued, kernel, due, calls>>

None == [value |-> Zero, interval |-> Zero, set |-> Zero, on |-> FALSE]
Itimer == [value : TV, interval : TV, set : TV, on : BOOLEAN]

TypeOK ==
  /\ timer \in [Timers -> Itimer] /\ first \in [Clients -> Whiches]
  /\ change \subseteq Whiches /\ poll \subseteq Whiches /\ auto \subseteq Whiches
  /\ pc \in {"out", "real", "virtual", "update", "select", "gather", "dispatch"}
  /\ which \in Whiches /\ then \in {"virtual", "select", "gather"} /\ current \in TV
  /\ service \subseteq Whiches /\ queued \subseteq Timers
  /\ clock \in [Whiches -> TV] /\ process \in [Whiches -> TV] /\ signals \subseteq Whiches
  /\ due \in [Timers -> TV] /\ calls \in Nat

Init ==
  /\ timer = [t \in Timers |-> None] /\ first = [c \in Clients |-> "real"]
  /\ change = {} /\ poll = {} /\ auto = {}
  /\ pc = "out" /\ which = "real" /\ then = "select" /\ current = Zero
  /\ service = {} /\ queued = {}
  /\ clock = [w \in Whiches |-> Zero] /\ process = clock /\ signals = {}
  /\ due = [t \in Timers |-> Zero] /\ calls = 0

-----------------------------------------------------------------------------
(* Arithmetic of struct timeval.                                           *)

Micro(a) == a.sec * Million + a.usec

(* Mutant: a difference of a microsecond is returned as it is.             *)
Subt_KeepsPoll(a, b) ==
  LET borrow == a.usec < b.usec /\ a.sec > 0
      sec    == IF borrow THEN a.sec - 1 ELSE a.sec
      usec   == IF borrow THEN a.usec + Million ELSE a.usec
      left   == IF usec > b.usec THEN usec - b.usec ELSE 0
  IN IF sec > b.sec THEN Tv(sec - b.sec, left)
     ELSE IF sec = b.sec THEN Tv(0, left) ELSE Zero

(* Mutant: no second is borrowed, the microseconds stop at zero.            *)
Subt_NoBorrow(a, b) ==
  LET left == IF a.usec > b.usec THEN a.usec - b.usec ELSE 0
      dif  == IF a.sec > b.sec THEN Tv(a.sec - b.sec, left)
              ELSE IF a.sec = b.sec THEN Tv(0, left) ELSE Zero
  IN IF dif = Poll THEN Zero ELSE dif

(* ndet_tv_subt: a - b, nothing if that is negative or one microsecond,     *)
(* which would poll.                                                       *)
Subt(a, b) ==
  LET borrow == a.usec < b.usec /\ a.sec > 0
      sec    == IF borrow THEN a.sec - 1 ELSE a.sec
      usec   == IF borrow THEN a.usec + Million ELSE a.usec
      left   == IF usec > b.usec THEN usec - b.usec ELSE 0
      dif    == IF sec > b.sec THEN Tv(sec - b.sec, left)
                ELSE IF sec = b.sec THEN Tv(0, left) ELSE Zero
  IN IF dif = Poll THEN Zero ELSE dif

(* What ndet_tv_min, taken from one timer to the next, may come to: it takes*)
(* the later of two that are a microsecond apart.                          *)
Minima(S) ==
  {m \in S : \A x \in S : Micro(m) <= Micro(x) + Cardinality(S) - 1}

Plus(a, b) == IF a.usec + b.usec < Million THEN Tv(a.sec + b.sec, a.usec + b.usec)
              ELSE Tv(a.sec + b.sec + 1, a.usec + b.usec - Million)
Minus1(a)  == IF a.usec > 0 THEN Tv(a.sec, a.usec - 1)
              ELSE IF a.sec > 0 THEN Tv(a.sec - 1, Million - 1) ELSE Zero

-----------------------------------------------------------------------------
(* The kernel.                                                             *)

(* A microsecond passes; the program spends it computing unless it waits in *)
(* select().  At the bound the time of day stands still, as if set back.    *)
Tick(user) ==
  LET running == IF user THEN Whiches ELSE {"real"}
      counting == {w \in running : process[w] # Zero}
  IN
  /\ user => pc # "select" /\ Micro(clock["virtual"]) < MaxTime
  /\ clock' = [w \in Whiches |-> IF w \in running /\ Micro(clock[w]) < MaxTime
                                 THEN Plus(clock[w], Poll) ELSE clock[w]]
  /\ process' = [w \in Whiches |-> IF w \in running THEN Minus1(process[w]) ELSE process[w]]
  /\ signals' = signals \cup {w \in counting : process[w] = Poll}
  /\ UNCHANGED <<timer, first, flags, pc, update, service, queued, due, calls>>

(* gettimeofday; getitimer(ITIMER_VIRTUAL).                                *)
Now(w) == IF w = "real" THEN clock[w] ELSE process[w]

-----------------------------------------------------------------------------
(* Calls of clients, before notify_start or from functions being called.   *)

MayCall == pc \in {"out", "dispatch"} /\ calls < MaxCalls /\ calls' = calls + 1
callFrame == <<poll, auto, pc, update, service, kernel>>

Other(w) == CHOOSE x \in Whiches : x # w

(* notify_set_itimer_func.  A notification of the previous timer that the   *)
(* dispatcher holds stays there.                                           *)
SetTimer(c, w, request) ==
  /\ MayCall
  /\ timer' = [timer EXCEPT ![<<c, w>>] = [value |-> request.value, interval |-> request.interval,
                                       set |-> Now(w), on |-> TRUE]]
  /\ first' = IF timer[<<c, w>>].on THEN first
              ELSE [first EXCEPT ![c] = IF timer[<<c, Other(w)>>].on THEN Other(w) ELSE w]
  /\ change' = change \cup {w}
  /\ due' = [due EXCEPT ![<<c, w>>] = Plus(clock[w], request.value)]
  /\ UNCHANGED <<queued, callFrame>>

(* With no function or no value: the timer goes, with what is pending.      *)
UnsetTimer(c, w) ==
  /\ MayCall
  /\ timer' = [timer EXCEPT ![<<c, w>>] = None]
  /\ queued' = queued \ {<<c, w>>}
  /\ change' = change \cup {w}
  /\ due' = [due EXCEPT ![<<c, w>>] = Zero]
  /\ UNCHANGED <<first, callFrame>>

(* What is left of a timer: ndet_real_min, ndet_virtual_min.  In real time  *)
(* the clock has gone on from set, in user time the process's timer has run *)
(* down from it.                                                           *)
LeftOf(t, now) ==
  LET x == timer[t] IN
  Subt(x.value, IF t[2] = "real" THEN Subt(now, x.set) ELSE Subt(x.set, now))

(* notify_itimer_value: in user time it brings the timer up to date, also   *)
(* one that polls.                                                         *)
AskValue(c, w) ==
  /\ MayCall /\ w \in Asked /\ timer[<<c, w>>].on
  /\ timer' = IF w = "real" THEN timer
              ELSE [timer EXCEPT ![<<c, w>>].value = LeftOf(<<c, w>>, Now(w)), ![<<c, w>>].set = Now(w)]
  /\ UNCHANGED <<first, change, queued, due, callFrame>>

-----------------------------------------------------------------------------
(* The loop of notify_start.                                               *)

Start ==
  /\ pc = "out" /\ pc' = "real"
  /\ UNCHANGED <<timer, first, flags, update, service, queued, kernel, due, calls>>

(* ndet_update_real_itimer and ndet_update_virtual_itimer begin by taking   *)
(* the time.                                                               *)
Probe(w, next) ==
  /\ change' = change \ {w} /\ poll' = poll \ {w}
  /\ pc' = "update" /\ which' = w /\ then' = next /\ current' = Now(w)

Top ==
  /\ pc \in Whiches
  /\ LET next == IF pc = "real" THEN "virtual" ELSE "select" IN
     IF pc \in change THEN Probe(pc, next)
     ELSE pc' = next /\ UNCHANGED <<change, poll, update>>
  /\ UNCHANGED <<timer, first, auto, service, queued, kernel, due, calls>>

On(w)      == {t \in Timers : t[2] = w /\ timer[t].on}
Polling(t) == timer[t].on /\ timer[t].value = Poll
OneShot(t) == timer[t].interval = Zero

(* ndet_itimer_expired: the interval is the new value, or the timer goes.   *)
Reload(t, set) ==
  IF OneShot(t) THEN None
  ELSE [timer[t] EXCEPT !.value = timer[t].interval, !.set = set]

(* A time beyond the end of time is taken for "no one reset min_tv".        *)
Armed(min) == IF min = EndOfTime \/ Subt(min, EndOfTime) # Zero THEN Zero ELSE min

(* ndet_update_itimer with ndet_itimer_change for each timer: those that    *)
(* have expired are enqueued and wound up or removed, the process's timer   *)
(* is set to the least that is left of the others.                         *)
Update ==
  LET mine     == On(which)
      counting == {t \in mine : ~Polling(t)}
      expired  == {t \in counting : LeftOf(t, current) = Zero}
      gone     == {t \in expired : OneShot(t)}
      lefts    == {IF t \in expired THEN timer[t].interval ELSE LeftOf(t, current) :
                     t \in counting \ gone}
      base     == IF which = "real" THEN current ELSE clock[which]
  IN
  /\ pc = "update" /\ pc' = then
  /\ which' = "real" /\ then' = "select" /\ current' = Zero
  /\ \E min \in IF lefts = {} THEN {Zero} ELSE {Armed(m) : m \in Minima(lefts)} :
       /\ process' = [process EXCEPT ![which] = min]
       /\ timer' = [t \in Timers |->
            IF t \notin mine THEN timer[t]
            ELSE IF t \in expired THEN Reload(t, IF which = "real" THEN current ELSE min)
            ELSE IF which = "real" THEN timer[t]
            ELSE [timer[t] EXCEPT !.set = min,
                    !.value = IF t \in counting THEN LeftOf(t, current) ELSE @]]
  /\ auto' = IF counting # gone THEN auto \cup {which} ELSE auto \ {which}
  /\ poll' = IF counting # mine THEN poll \cup {which} ELSE poll
  /\ change' = IF gone # {} THEN change \cup {which} ELSE change
  /\ queued' = queued \cup expired
  /\ due' = [t \in Timers |-> IF t \in gone THEN Zero
                              ELSE IF t \in expired THEN Plus(base, timer[t].interval) ELSE due[t]]
  /\ UNCHANGED <<first, service, clock, signals, calls>>

(* Mutant: the received signals are emptied before they are taken over.     *)
Select_Drops ==
  /\ pc = "select" /\ pc' = "gather"
  /\ service' = {} /\ signals' = {}
  /\ UNCHANGED <<timer, first, flags, update, queued, clock, process, due, calls>>

(* select() returns at once if a timer polls or the dispatcher holds a      *)
(* notification, else when a signal has come or a descriptor is ready.      *)
Select ==
  /\ pc = "select" /\ pc' = "gather"
  /\ service' = signals /\ signals' = {}
  /\ UNCHANGED <<timer, first, flags, update, queued, clock, process, due, calls>>

(* ndet_auto_sig_send: the signal is not the notifier's any more if the last*)
(* timer of its kind has gone.                                             *)
Serve(w) ==
  /\ pc = "gather" /\ w \in service /\ service' = service \ {w}
  /\ IF w \in auto THEN Probe(w, "gather") ELSE UNCHANGED <<change, poll, pc, update>>
  /\ UNCHANGED <<timer, first, auto, queued, kernel, due, calls>>

(* Of a client's two timers only the first that polls is served.            *)
PolledNow ==
  {t \in Timers : /\ poll # {} /\ Polling(t)
                  /\ t[2] = first[t[1]] \/ ~Polling(<<t[1], Other(t[2])>>)}

(* ndet_poll_send.                                                         *)
PollSend ==
  /\ pc = "gather" /\ service = {} /\ pc' = "dispatch"
  /\ timer' = [t \in Timers |-> IF t \notin PolledNow THEN timer[t]
                                ELSE Reload(t, IF timer[t].interval = Poll THEN timer[t].set
                                               ELSE Now(t[2]))]
  /\ change' = change \cup {t[2] : t \in {x \in PolledNow : OneShot(x)}}
  /\ queued' = queued \cup PolledNow
  /\ due' = [t \in Timers |-> IF t \notin PolledNow THEN due[t]
                              ELSE IF OneShot(t) THEN Zero
                              ELSE Plus(clock[t[2]], timer[t].interval)]
  /\ UNCHANGED <<first, poll, auto, update, service, kernel, calls>>

(* ndis_dispatch.                                                          *)
HandOut(t) ==
  /\ pc = "dispatch" /\ t \in queued /\ queued' = queued \ {t}
  /\ UNCHANGED <<timer, first, flags, pc, update, service, kernel, due, calls>>

EndDispatch ==
  /\ pc = "dispatch" /\ queued = {} /\ pc' = "real"
  /\ UNCHANGED <<timer, first, flags, update, service, queued, kernel, due, calls>>

(* notify_stop was called: notify_start returns after the turn.             *)
Stop ==
  /\ MayCall /\ pc = "dispatch" /\ queued = {} /\ pc' = "out"
  /\ UNCHANGED <<timer, first, flags, update, service, queued, kernel, due>>

Loop == \/ Top \/ Update \/ Select \/ PollSend \/ EndDispatch
        \/ \E w \in Whiches : Serve(w)
        \/ \E t \in Timers : HandOut(t)

Next ==
  \/ \E user \in BOOLEAN : Tick(user)
  \/ Start \/ Stop \/ Loop
  \/ \E c \in Clients, w \in Whiches : \/ \E request \in Requests : SetTimer(c, w, request)
                                       \/ UnsetTimer(c, w) \/ AskValue(c, w)

Spec == Init /\ [][Next]_vars

(* Time goes on and the program runs; select() returns when it must.        *)
MustReturn == poll # {} \/ queued # {} \/ signals # {}
FairSpec == Spec /\ WF_vars(Tick(FALSE)) /\ WF_vars(Loop /\ (pc = "select" => MustReturn))

-----------------------------------------------------------------------------
(* The notifier generates no polling timer (ndet_tv_subt): only a timer     *)
(* that was to poll, or is wound up to, has the polling value.              *)
PollsIfAsked ==
  \A t \in Timers : Polling(t) =>
    \E request \in Requests : /\ request.interval = timer[t].interval
                              /\ Poll \in {request.value, request.interval}

(* A timer is never left behind: as long as it is set the process's timer   *)
(* runs for it with its signal caught, or the signal has come, or the loop  *)
(* will compute the timers anew; for one that polls, or the loop polls.     *)
Recomputes(w) == w \in change \/ (pc = "update" /\ which = w)
Rings(w)      == w \in auto /\ (process[w] # Zero \/ w \in signals \cup service)
Watched ==
  \A t \in Timers : timer[t].on =>
    \/ Recomputes(t[2])
    \/ Polling(t) /\ t[2] \in poll
    \/ Rings(t[2])

(* No function is called for a timer more than a microsecond before its     *)
(* time, counted from when it was set or last expired, however often the    *)
(* process's timers were reset for others in between.                       *)
Early(t)  == Micro(clock[t[2]]) + 1 < Micro(due[t])
NotEarly ==
  [][\A t \in queued' \ queued : Polling(t) \/ ~Early(t)]_vars

(* A timer in real time that is due has its function called, unless the     *)
(* client unsets or sets it anew: WF(Loop) and WF(Tick).                   *)
Overdue(t) == timer[t].on /\ pc # "out" /\ (Polling(t) \/ Micro(clock[t[2]]) >= Micro(due[t]))
TimerFires ==
  \A c \in Clients : LET t == <<c, "real">> IN Overdue(t) ~> t \in queued \/ ~Overdue(t)

-----------------------------------------------------------------------------
(* The inductive invariant the proofs of NotifierTimersProofs rest on.      *)

(* Every timer goes back to a request, and polls only because of it.        *)
Requested ==
  \A t \in Timers : timer[t].on =>
    \E request \in Requests : /\ request.interval = timer[t].interval
                              /\ timer[t].value = Poll => Poll \in {request.value, request.interval}

Before(a, b) == a.sec < b.sec \/ (a.sec = b.sec /\ a.usec < b.usec)

(* What clients must keep to for Watched to hold.                           *)
Orderly ==
  /\ "virtual" \notin Asked /\ Zero # EndOfTime
  /\ \A request \in Requests :
       /\ request.value = Poll => request.interval \in {Poll, Zero}
       /\ Before(request.value, EndOfTime) /\ Before(request.interval, EndOfTime)

InTime == \A t \in Timers : timer[t].on => Before(timer[t].value, EndOfTime)

(* The signals taken over are served before the loop goes on.               *)
Taken == service # {} => pc = "gather" \/ (pc = "update" /\ then = "gather")

IInv == TypeOK /\ Requested /\ InTime /\ Taken /\ Watched
=============================================================================
