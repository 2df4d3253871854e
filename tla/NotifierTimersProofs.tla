------------------------- MODULE NotifierTimersProofs -------------------------
(***************************************************************************)
(* Proofs about NotifierTimers, for any clients, requests and times.       *)
(***************************************************************************)
EXTENDS NotifierTimers, TLAPS

USE TimerAssumption

-----------------------------------------------------------------------------
(* Arithmetic of times.                                                    *)

LEMMA Constants == Zero \in TV /\ Poll \in TV /\ EndOfTime \in TV /\ Zero # Poll
  BY DEF Zero, Poll, Tv, TV

LEMMA PlusType ==
  ASSUME NEW a \in TV, NEW b \in TV
  PROVE  Plus(a, b) \in TV
  BY DEF Plus, Tv, TV

(* A timer that runs down is at nothing only from the last microsecond.     *)
LEMMA Minus1Type ==
  ASSUME NEW a \in TV
  PROVE  Minus1(a) \in TV /\ (Minus1(a) = Zero => a \in {Zero, Poll})
  BY DEF Minus1, Zero, Poll, Tv, TV

(* ndet_tv_subt returns the difference of two times, except that it returns *)
(* nothing for what would be negative and for the one microsecond that      *)
(* would make a polling timer.                                             *)
THEOREM SubtIsDifference ==
  ASSUME NEW a \in TV, NEW b \in TV
  PROVE  /\ Subt(a, b) \in TV
         /\ Subt(a, b) # Poll
         /\ Before(b, a) /\ Plus(b, Poll) # a => Plus(b, Subt(a, b)) = a
         /\ ~Before(b, a) \/ Plus(b, Poll) = a => Subt(a, b) = Zero
<1> USE DEF TV, Tv, Poll, Zero
<1>1. Subt(a, b) \in TV
  BY DEF Subt
<1>2. Subt(a, b) # Poll
  BY DEF Subt
<1>3. ASSUME Before(b, a), Plus(b, Poll) # a PROVE Plus(b, Subt(a, b)) = a
  <2>1. /\ a = Tv(a.sec, a.usec) /\ b = Tv(b.sec, b.usec)
        /\ a.sec \in Nat /\ b.sec \in Nat /\ a.usec \in 0..Million - 1 /\ b.usec \in 0..Million - 1
    OBVIOUS
  <2>2. CASE a.usec < b.usec
    <3>1. a.sec > b.sec /\ a.usec + Million > b.usec
      BY <1>3, <2>1, <2>2 DEF Before
    <3>2. Tv(a.sec - 1 - b.sec, a.usec + Million - b.usec) # Poll
      <4>1. SUFFICES ASSUME a.sec - 1 - b.sec = 0, a.usec + Million - b.usec = 1
                     PROVE  Plus(b, Poll) = a
        BY <1>3
      <4>2. a.sec = b.sec + 1 /\ a.usec = 0 /\ b.usec = Million - 1
        BY <2>1, <4>1
      <4> QED  BY <2>1, <4>2 DEF Plus
    <3>3. Subt(a, b) = Tv(a.sec - 1 - b.sec, a.usec + Million - b.usec)
      <4>1. CASE a.sec - 1 > b.sec
        BY <2>1, <2>2, <3>1, <3>2, <4>1 DEF Subt
      <4>2. CASE a.sec - 1 = b.sec
        BY <2>1, <2>2, <3>1, <3>2, <4>2 DEF Subt
      <4> QED  BY <2>1, <3>1, <4>1, <4>2
    <3> QED  BY <2>1, <2>2, <3>1, <3>3 DEF Plus
  <2>3. CASE a.usec >= b.usec
    <3>1. a.sec >= b.sec
      BY <1>3, <2>1, <2>3 DEF Before
    <3>2. Tv(a.sec - b.sec, a.usec - b.usec) # Poll
      BY <1>3, <2>1, <2>3, <3>1 DEF Plus
    <3>3. Subt(a, b) = Tv(a.sec - b.sec, a.usec - b.usec)
      BY <2>1, <2>3, <3>1, <3>2 DEF Subt
    <3> QED  BY <2>1, <2>3, <3>1, <3>3 DEF Plus
  <2> QED  BY <2>1, <2>2, <2>3
<1>4. ~Before(b, a) \/ Plus(b, Poll) = a => Subt(a, b) = Zero
  BY DEF Subt, Plus, Before
<1> QED  BY <1>1, <1>2, <1>3, <1>4

(* A difference is before whatever the minuend is before.                   *)
LEMMA SubtBefore ==
  ASSUME NEW a \in TV, NEW b \in TV, NEW e \in TV, Before(a, e)
  PROVE  Before(Subt(a, b), e)
  BY DEF Subt, Before, TV, Tv, Poll, Zero

LEMMA ArmedInTime ==
  ASSUME NEW a \in TV, Before(a, EndOfTime)
  PROVE  Armed(a) = a
<1>1. a # EndOfTime /\ ~Before(EndOfTime, a)
  BY DEF Before, TV
<1> QED  BY <1>1, SubtIsDifference DEF Armed

LEMMA ArmedType ==
  ASSUME NEW a \in TV
  PROVE  Armed(a) \in TV
  BY Constants DEF Armed

-----------------------------------------------------------------------------
(* Times as numbers of microseconds.                                       *)

LEMMA MicroNumber ==
  ASSUME NEW a \in TV
  PROVE  /\ Micro(a) \in Nat
         /\ Micro(a) = 0 <=> a = Zero
         /\ Micro(a) = 1 <=> a = Poll
<1>1. a = Tv(a.sec, a.usec) /\ a.sec \in Nat /\ a.usec \in 0..Million - 1
  BY DEF TV, Tv
<1>2. PICK s \in Nat, u \in 0..Million - 1 : s = a.sec /\ u = a.usec
  BY <1>1
<1>3. s * Million \in Nat /\ (s = 0 => s * Million = 0) /\ (s > 0 => s * Million >= Million)
  OBVIOUS
<1>4. PICK p \in Nat : p = s * Million /\ (s = 0 => p = 0) /\ (s > 0 => p >= Million)
  BY <1>3
<1>5. Micro(a) = p + u
  BY <1>2, <1>4 DEF Micro
<1>6. (a = Zero <=> s = 0 /\ u = 0) /\ (a = Poll <=> s = 0 /\ u = 1)
  BY <1>1, <1>2 DEF Zero, Poll, Tv
<1>7. (p + u = 0 <=> s = 0 /\ u = 0) /\ (p + u = 1 <=> s = 0 /\ u = 1)
  <2>1. CASE s = 0  BY <1>4, <2>1
  <2>2. CASE s > 0  BY <1>4, <2>2
  <2> QED  BY <2>1, <2>2
<1> QED  BY <1>2, <1>4, <1>5, <1>6, <1>7

LEMMA MicroPlus ==
  ASSUME NEW a \in TV, NEW b \in TV
  PROVE  Micro(Plus(a, b)) = Micro(a) + Micro(b)
<1>1. a.sec \in Nat /\ b.sec \in Nat /\ a.usec \in Nat /\ b.usec \in Nat
  BY DEF TV
<1>2. /\ (a.sec + b.sec) * Million = a.sec * Million + b.sec * Million
      /\ (a.sec + b.sec + 1) * Million = a.sec * Million + b.sec * Million + Million
  BY <1>1
<1>3. a.sec * Million \in Nat /\ b.sec * Million \in Nat
  BY <1>1
<1>4. \A sec, usec : Micro(Tv(sec, usec)) = sec * Million + usec
  BY DEF Micro, Tv
<1> QED  BY <1>1, <1>2, <1>3, <1>4 DEF Plus, Micro

LEMMA MicroBefore ==
  ASSUME NEW a \in TV, NEW b \in TV
  PROVE  Before(a, b) <=> Micro(a) < Micro(b)
<1>1. /\ a.sec \in Nat /\ b.sec \in Nat
      /\ a.usec \in 0..Million - 1 /\ b.usec \in 0..Million - 1
  BY DEF TV
<1>2. ASSUME NEW s \in Nat, NEW r \in Nat, s < r  PROVE  s * Million + Million <= r * Million
  <2>1. PICK k \in Nat : r = s + 1 + k
    <3>1. r - s - 1 \in Nat /\ r = s + 1 + (r - s - 1)  BY <1>2
    <3> QED  BY <3>1
  <2>2. r * Million = s * Million + Million + k * Million /\ k * Million \in Nat /\ s * Million \in Nat
    BY <2>1
  <2> QED  BY <2>2
<1>3. \A s \in Nat : s * Million \in Nat
  OBVIOUS
<1>4. PICK s \in Nat, r \in Nat : s = a.sec /\ r = b.sec
  BY <1>1
<1>5. PICK p \in Nat, o \in Nat : p = s * Million /\ o = r * Million
  BY <1>3
<1>6. /\ s < r => p + Million <= o
      /\ r < s => o + Million <= p
      /\ s = r => p = o
  BY <1>2, <1>5
<1>7. Micro(a) = p + a.usec /\ Micro(b) = o + b.usec
  BY <1>4, <1>5 DEF Micro
<1>8. CASE s < r
  BY <1>1, <1>4, <1>6, <1>7, <1>8 DEF Before
<1>9. CASE s = r
  BY <1>1, <1>4, <1>6, <1>7, <1>9 DEF Before
<1>10. CASE r < s
  BY <1>1, <1>4, <1>6, <1>7, <1>10 DEF Before
<1> QED  BY <1>8, <1>9, <1>10

LEMMA MicroMinus1 ==
  ASSUME NEW a \in TV
  PROVE  Micro(Minus1(a)) = IF a = Zero THEN 0 ELSE Micro(a) - 1
<1>1. a.sec \in Nat /\ a.usec \in 0..Million - 1 /\ a = Tv(a.sec, a.usec)
  BY DEF TV, Tv
<1>2. \A sec, usec : Micro(Tv(sec, usec)) = sec * Million + usec
  BY DEF Micro, Tv
<1>3. CASE a.usec > 0
  <2>1. Minus1(a) = Tv(a.sec, a.usec - 1) /\ a # Zero
    BY <1>3 DEF Minus1, Zero, Tv
  <2>2. a.sec * Million \in Nat
    BY <1>1
  <2> QED  BY <1>1, <1>2, <2>1, <2>2
<1>4. CASE a.usec = 0 /\ a.sec > 0
  <2>1. Minus1(a) = Tv(a.sec - 1, Million - 1) /\ a # Zero
    BY <1>4 DEF Minus1, Zero, Tv
  <2>2. a.sec * Million = (a.sec - 1) * Million + Million /\ (a.sec - 1) * Million \in Nat
    BY <1>1, <1>4
  <2> QED  BY <1>1, <1>2, <1>4, <2>1, <2>2
<1>5. CASE a.usec = 0 /\ a.sec = 0
  <2>1. a = Zero /\ Minus1(a) = Zero
    BY <1>1, <1>5 DEF Minus1, Zero, Tv
  <2> QED  BY <2>1, MicroNumber, Constants
<1> QED  BY <1>1, <1>3, <1>4, <1>5

(* ndet_tv_subt leaves out a difference of one microsecond.                 *)
LEMMA MicroSubt ==
  ASSUME NEW a \in TV, NEW b \in TV
  PROVE  Micro(Subt(a, b)) = IF Micro(a) > Micro(b) + 1 THEN Micro(a) - Micro(b) ELSE 0
<1>1. Micro(a) \in Nat /\ Micro(b) \in Nat /\ Micro(Poll) = 1 /\ Micro(Zero) = 0
  BY MicroNumber, Constants
<1>2. Subt(a, b) \in TV
  BY SubtIsDifference
<1>3. CASE Before(b, a) /\ Plus(b, Poll) # a
  <2>1. Subt(a, b) # Poll /\ Plus(b, Subt(a, b)) = a
    BY <1>3, SubtIsDifference
  <2>2. Micro(b) + Micro(Subt(a, b)) = Micro(a)
    BY <1>2, <2>1, MicroPlus
  <2>3. Micro(b) < Micro(a)
    BY <1>3, MicroBefore
  <2>4. Micro(Subt(a, b)) \in Nat /\ Micro(Subt(a, b)) # 1
    BY <1>2, <2>1, MicroNumber
  <2> QED  BY <1>1, <2>2, <2>3, <2>4
<1>4. CASE ~Before(b, a)
  <2>1. Micro(a) <= Micro(b)
    BY <1>1, <1>4, MicroBefore
  <2>2. Subt(a, b) = Zero
    BY <1>4, SubtIsDifference
  <2> QED  BY <1>1, <2>1, <2>2
<1>5. CASE Plus(b, Poll) = a
  <2>1. Micro(a) = Micro(b) + 1
    BY <1>1, <1>5, MicroPlus, Constants
  <2>2. Subt(a, b) = Zero
    BY <1>5, SubtIsDifference
  <2> QED  BY <1>1, <2>1, <2>2
<1> QED  BY <1>3, <1>4, <1>5

-----------------------------------------------------------------------------
(* Types.                                                                  *)

LEMMA NoneType == None \in Itimer /\ ~None.on
  BY Constants DEF None, Itimer

LEMMA NowType ==
  ASSUME TypeOK, NEW w \in Whiches
  PROVE  Now(w) \in TV
  BY DEF TypeOK, Now

LEMMA LeftOfType ==
  ASSUME TypeOK, NEW t \in Timers, NEW now \in TV
  PROVE  LeftOf(t, now) \in TV /\ LeftOf(t, now) # Poll
<1>1. timer[t].value \in TV /\ timer[t].set \in TV
  BY DEF TypeOK, Itimer
<1>2. Subt(now, timer[t].set) \in TV /\ Subt(timer[t].set, now) \in TV
  BY <1>1, SubtIsDifference
<1> QED  BY <1>1, <1>2, SubtIsDifference DEF LeftOf

LEMMA LeftOfBefore ==
  ASSUME TypeOK, NEW t \in Timers, NEW now \in TV, NEW e \in TV, Before(timer[t].value, e)
  PROVE  Before(LeftOf(t, now), e)
<1>1. timer[t].value \in TV /\ timer[t].set \in TV
  BY DEF TypeOK, Itimer
<1>2. Subt(now, timer[t].set) \in TV /\ Subt(timer[t].set, now) \in TV
  BY <1>1, SubtIsDifference
<1> QED  BY <1>1, <1>2, SubtBefore DEF LeftOf

LEMMA ReloadType ==
  ASSUME TypeOK, NEW t \in Timers, NEW set \in TV
  PROVE  /\ Reload(t, set) \in Itimer
         /\ OneShot(t) => ~Reload(t, set).on
         /\ ~OneShot(t) => /\ Reload(t, set).on = timer[t].on
                           /\ Reload(t, set).interval = timer[t].interval
                           /\ Reload(t, set).value = timer[t].interval
<1>1. timer[t] \in Itimer
  BY DEF TypeOK
<1> QED  BY <1>1, NoneType DEF Reload, Itimer

LEMMA TimerParts ==
  ASSUME NEW t \in Timers
  PROVE  t[1] \in Clients /\ t[2] \in Whiches /\ t = <<t[1], t[2]>>
  BY DEF Timers

LEMMA InitType == Init => TypeOK
  BY NoneType, Constants DEF Init, TypeOK, Whiches

LEMMA TickType ==
  ASSUME TypeOK, NEW user \in BOOLEAN, Tick(user)
  PROVE  TypeOK'
<1>1. ASSUME NEW w \in Whiches PROVE clock'[w] \in TV /\ process'[w] \in TV
  <2>1. clock[w] \in TV /\ process[w] \in TV
    BY DEF TypeOK
  <2>2. Plus(clock[w], Poll) \in TV /\ Minus1(process[w]) \in TV
    BY <2>1, PlusType, Minus1Type, Constants
  <2> QED  BY <2>1, <2>2 DEF Tick
<1>2. clock' \in [Whiches -> TV] /\ process' \in [Whiches -> TV]
  BY <1>1 DEF Tick
<1>3. signals' \subseteq Whiches
  BY DEF Tick, TypeOK, Whiches
<1> QED  BY <1>2, <1>3 DEF Tick, TypeOK, flags, update

LEMMA ProbeType ==
  ASSUME TypeOK, NEW w \in Whiches, NEW next \in {"virtual", "select", "gather"}, Probe(w, next)
  PROVE  /\ change' \subseteq Whiches /\ poll' \subseteq Whiches /\ pc' = "update"
         /\ which' \in Whiches /\ then' \in {"virtual", "select", "gather"} /\ current' \in TV
  BY NowType DEF Probe, TypeOK

LEMMA SetTimerType ==
  ASSUME TypeOK, NEW c \in Clients, NEW w \in Whiches, NEW request \in Requests,
         SetTimer(c, w, request)
  PROVE  TypeOK'
<1> DEFINE x == [value |-> request.value, interval |-> request.interval, set |-> Now(w), on |-> TRUE]
<1>1. request.value \in TV /\ request.interval \in TV
  OBVIOUS
<1>2. x \in Itimer /\ <<c, w>> \in Timers
  BY <1>1, NowType DEF Itimer, Timers
<1> HIDE DEF x
<1>3. timer' = [timer EXCEPT ![<<c, w>>] = x]
  BY DEF SetTimer, x
<1>4. timer' \in [Timers -> Itimer]
  BY <1>2, <1>3 DEF TypeOK
<1>5. first' \in [Clients -> Whiches]
  BY DEF SetTimer, TypeOK, Other, Whiches
<1>6. due' \in [Timers -> TV]
  <2>1. Plus(clock[w], request.value) \in TV
    BY <1>1, PlusType DEF TypeOK
  <2> QED  BY <1>2, <2>1 DEF SetTimer, TypeOK
<1>7. change' \subseteq Whiches /\ calls' \in Nat
  BY DEF SetTimer, MayCall, TypeOK
<1> QED  BY <1>4, <1>5, <1>6, <1>7 DEF SetTimer, TypeOK, callFrame, update, kernel

LEMMA UnsetTimerType ==
  ASSUME TypeOK, NEW c \in Clients, NEW w \in Whiches, UnsetTimer(c, w)
  PROVE  TypeOK'
<1>1. timer' \in [Timers -> Itimer] /\ due' \in [Timers -> TV]
  BY NoneType, Constants DEF UnsetTimer, TypeOK, Timers
<1>2. change' \subseteq Whiches /\ calls' \in Nat /\ queued' \subseteq Timers
  BY DEF UnsetTimer, MayCall, TypeOK
<1> QED  BY <1>1, <1>2 DEF UnsetTimer, TypeOK, callFrame, update, kernel

LEMMA AskValueType ==
  ASSUME TypeOK, NEW c \in Clients, NEW w \in Whiches, AskValue(c, w)
  PROVE  TypeOK'
<1> DEFINE left == LeftOf(<<c, w>>, Now(w))
           now == Now(w)
<1>1. <<c, w>> \in Timers /\ left \in TV /\ now \in TV
  BY NowType, LeftOfType DEF Timers
<1>2. w # "real" => timer' = [timer EXCEPT ![<<c, w>>].value = left, ![<<c, w>>].set = now]
  BY DEF AskValue
<1>3. w = "real" => timer' = timer
  BY DEF AskValue
<1> HIDE DEF left, now
<1>4. timer' \in [Timers -> Itimer]
  <2> DEFINE x == [[timer[<<c, w>>] EXCEPT !.value = left] EXCEPT !.set = now]
  <2>1. timer \in [Timers -> Itimer] /\ timer[<<c, w>>] \in Itimer
    BY <1>1 DEF TypeOK
  <2>2. x \in Itimer
    BY <1>1, <2>1 DEF Itimer
  <2>3. w # "real" => timer' = [timer EXCEPT ![<<c, w>>] = x]
    BY <1>1, <1>2, <2>1
  <2> HIDE DEF x
  <2> QED  BY <1>1, <1>3, <2>1, <2>2, <2>3
<1>5. calls' \in Nat
  BY DEF AskValue, MayCall, TypeOK
<1> QED  BY <1>4, <1>5 DEF AskValue, TypeOK, callFrame, update, kernel

LEMMA TopType ==
  ASSUME TypeOK, Top
  PROVE  TypeOK'
<1> DEFINE next == IF pc = "real" THEN "virtual" ELSE "select"
<1>1. CASE pc \in change
  <2>1. Probe(pc, next) /\ pc \in Whiches
    BY <1>1 DEF Top
  <2>2. /\ change' \subseteq Whiches /\ poll' \subseteq Whiches /\ pc' = "update"
        /\ which' \in Whiches /\ then' \in {"virtual", "select", "gather"} /\ current' \in TV
    BY <2>1, ProbeType
  <2> QED  BY <2>2 DEF Top, TypeOK, kernel
<1>2. CASE pc \notin change
  BY <1>2 DEF Top, TypeOK, kernel, update
<1> QED  BY <1>1, <1>2

LEMMA ServeType ==
  ASSUME TypeOK, NEW w \in Whiches, Serve(w)
  PROVE  TypeOK'
<1>1. CASE w \in auto
  <2>1. Probe(w, "gather")
    BY <1>1 DEF Serve
  <2>2. /\ change' \subseteq Whiches /\ poll' \subseteq Whiches /\ pc' = "update"
        /\ which' \in Whiches /\ then' \in {"virtual", "select", "gather"} /\ current' \in TV
    BY <2>1, ProbeType
  <2> QED  BY <2>2 DEF Serve, TypeOK, kernel
<1>2. CASE w \notin auto
  BY <1>2 DEF Serve, TypeOK, kernel, update
<1> QED  BY <1>1, <1>2

LEMMA UpdateType ==
  ASSUME TypeOK, Update
  PROVE  TypeOK'
<1> DEFINE mine     == On(which)
           counting == {t \in mine : ~Polling(t)}
           expired  == {t \in counting : LeftOf(t, current) = Zero}
           gone     == {t \in expired : OneShot(t)}
           left(t)  == IF t \in expired THEN timer[t].interval ELSE LeftOf(t, current)
           lefts    == {left(t) : t \in counting \ gone}
           base     == IF which = "real" THEN current ELSE clock[which]
           new(t, min) ==
             IF t \notin mine THEN timer[t]
             ELSE IF t \in expired THEN Reload(t, IF which = "real" THEN current ELSE min)
             ELSE IF which = "real" THEN timer[t]
             ELSE [timer[t] EXCEPT !.set = min,
                     !.value = IF t \in counting THEN LeftOf(t, current) ELSE @]
<1>1. which \in Whiches /\ current \in TV /\ base \in TV
  BY DEF TypeOK
<1>2. mine \subseteq Timers /\ counting \subseteq Timers /\ expired \subseteq Timers
  BY DEF On
<1>3. ASSUME NEW t \in Timers PROVE left(t) \in TV /\ timer[t] \in Itimer /\ timer[t].interval \in TV
  BY LeftOfType, <1>1 DEF TypeOK, Itimer
<1>4. lefts \subseteq TV
  BY <1>2, <1>3
<1>5. PICK min \in IF lefts = {} THEN {Zero} ELSE {Armed(m) : m \in Minima(lefts)} :
        /\ process' = [process EXCEPT ![which] = min]
        /\ timer' = [t \in Timers |-> new(t, min)]
  BY DEF Update
<1>6. min \in TV
  BY <1>4, <1>5, ArmedType, Constants DEF Minima
<1>7. ASSUME NEW t \in Timers PROVE new(t, min) \in Itimer
  <2>1. LeftOf(t, current) \in TV
    BY <1>1, LeftOfType
  <2>2. CASE t \in expired
    BY <1>1, <1>3, <1>6, <2>2, ReloadType
  <2>3. CASE t \notin expired
    BY <1>3, <1>6, <2>1, <2>3 DEF Itimer
  <2> QED  BY <2>2, <2>3
<1>8. timer' \in [Timers -> Itimer] /\ process' \in [Whiches -> TV]
  BY <1>5, <1>6, <1>7 DEF TypeOK
<1>9. due' \in [Timers -> TV]
  <2>1. ASSUME NEW t \in Timers
        PROVE  Plus(base, timer[t].interval) \in TV /\ due[t] \in TV
    BY <1>1, <1>3, PlusType DEF TypeOK
  <2> HIDE DEF mine, counting, expired, gone, base
  <2>2. due' = [t \in Timers |-> IF t \in gone THEN Zero
                                ELSE IF t \in expired THEN Plus(base, timer[t].interval) ELSE due[t]]
    BY DEF Update, mine, counting, expired, gone, base
  <2> QED  BY <2>1, <2>2, Constants
<1>10. /\ change' \subseteq Whiches /\ poll' \subseteq Whiches /\ auto' \subseteq Whiches
       /\ queued' \subseteq Timers
  BY <1>1, <1>2 DEF Update, TypeOK
<1>11. pc' = then /\ which' = "real" /\ then' = "select" /\ current' = Zero
       /\ UNCHANGED <<first, service, clock, signals, calls>>
  BY DEF Update
<1> QED  BY <1>8, <1>9, <1>10, <1>11, Constants DEF TypeOK, Whiches

LEMMA PollSendType ==
  ASSUME TypeOK, PollSend
  PROVE  TypeOK'
<1> DEFINE set(t) == IF timer[t].interval = Poll THEN timer[t].set ELSE Now(t[2])
<1>1. ASSUME NEW t \in Timers
      PROVE  /\ timer[t] \in Itimer /\ Reload(t, set(t)) \in Itimer /\ due[t] \in TV
             /\ Plus(clock[t[2]], timer[t].interval) \in TV
  <2>1. timer[t] \in Itimer /\ t[2] \in Whiches /\ clock[t[2]] \in TV /\ due[t] \in TV
    BY TimerParts DEF TypeOK
  <2>2. set(t) \in TV /\ timer[t].interval \in TV
    BY <2>1, NowType DEF Itimer
  <2> QED  BY <2>1, <2>2, ReloadType, PlusType
<1>2. timer' \in [Timers -> Itimer]
  BY <1>1 DEF PollSend
<1>3. due' \in [Timers -> TV]
  BY <1>1, Constants DEF PollSend
<1>4. change' \subseteq Whiches /\ queued' \subseteq Timers
  BY TimerParts DEF PollSend, PolledNow, TypeOK
<1> QED  BY <1>2, <1>3, <1>4 DEF PollSend, TypeOK, update, kernel

LEMMA TypeStep ==
  ASSUME TypeOK, [Next]_vars
  PROVE  TypeOK'
<1>1. CASE UNCHANGED vars
  BY <1>1 DEF vars, flags, update, kernel, TypeOK
<1>2. CASE Start
  BY <1>2 DEF Start, flags, update, kernel, TypeOK, Whiches
<1>3. CASE Stop
  BY <1>3 DEF Stop, MayCall, flags, update, kernel, TypeOK
<1>4. CASE Select
  BY <1>4 DEF Select, flags, update, TypeOK
<1>5. CASE EndDispatch
  BY <1>5 DEF EndDispatch, flags, update, kernel, TypeOK
<1>6. ASSUME NEW t \in Timers, HandOut(t) PROVE TypeOK'
  BY <1>6 DEF HandOut, flags, update, kernel, TypeOK
<1> QED
  BY <1>1, <1>2, <1>3, <1>4, <1>5, <1>6, TickType, SetTimerType, UnsetTimerType, AskValueType,
     TopType, ServeType, UpdateType, PollSendType DEF Next, Loop

(* Every time the notifier keeps is a proper one: seconds that are not      *)
(* negative, microseconds that are less than a second.                     *)
THEOREM TypeCorrect == Spec => []TypeOK
  BY InitType, TypeStep, PTL DEF Spec

-----------------------------------------------------------------------------
(* What a step may make of a timer: leave it, remove it, put a request in   *)
(* its place, count it down, or wind it up.                                *)

Same(t)    == /\ timer'[t].value = timer[t].value
              /\ timer'[t].interval = timer[t].interval /\ timer'[t].on = timer[t].on
Removed(t) == ~timer'[t].on
Asks(t)    == \E request \in Requests : /\ timer'[t].value = request.value
                                       /\ timer'[t].interval = request.interval
Counted(t) == /\ \E now \in TV : timer'[t].value = LeftOf(t, now)
              /\ timer'[t].interval = timer[t].interval /\ timer[t].on
WoundUp(t) == /\ timer'[t].value = timer[t].interval
              /\ timer'[t].interval = timer[t].interval /\ timer[t].on

Moved(t) == Same(t) \/ Removed(t) \/ Asks(t) \/ Counted(t) \/ WoundUp(t)

LEMMA SetTimerMoves ==
  ASSUME TypeOK, NEW c \in Clients, NEW w \in Whiches, NEW request \in Requests,
         SetTimer(c, w, request), NEW t \in Timers
  PROVE  /\ t # <<c, w>> => Same(t)
         /\ t = <<c, w>> => Asks(t)
  BY DEF SetTimer, TypeOK, Same, Asks

LEMMA UnsetTimerMoves ==
  ASSUME TypeOK, NEW c \in Clients, NEW w \in Whiches, UnsetTimer(c, w), NEW t \in Timers
  PROVE  /\ t # <<c, w>> => Same(t)
         /\ t = <<c, w>> => Removed(t)
  BY NoneType DEF UnsetTimer, TypeOK, Same, Removed

LEMMA AskValueMoves ==
  ASSUME TypeOK, NEW c \in Clients, NEW w \in Whiches, AskValue(c, w), NEW t \in Timers
  PROVE  Same(t) \/ (w # "real" /\ Counted(t))
<1>1. CASE w = "real" \/ t # <<c, w>>
  BY <1>1 DEF AskValue, TypeOK, Same
<1>2. CASE w # "real" /\ t = <<c, w>>
  <2> DEFINE left == LeftOf(t, Now(w))
             now == Now(w)
  <2>1. timer' = [timer EXCEPT ![t].value = left, ![t].set = now] /\ timer[t].on /\ now \in TV
    BY <1>2, NowType DEF AskValue
  <2>2. timer \in [Timers -> Itimer]
    BY DEF TypeOK
  <2> HIDE DEF left
  <2>3. timer'[t].value = left /\ timer'[t].interval = timer[t].interval
    BY <2>1, <2>2 DEF Itimer
  <2> QED  BY <1>2, <2>1, <2>3 DEF Counted, left
<1> QED  BY <1>1, <1>2

LEMMA UpdateMoves ==
  ASSUME TypeOK, Update, NEW t \in Timers
  PROVE  LET expired == ~Polling(t) /\ LeftOf(t, current) = Zero IN
         /\ t \notin On(which) => Same(t)
         /\ t \in On(which) /\ expired /\ OneShot(t) => Removed(t)
         /\ t \in On(which) /\ expired /\ ~OneShot(t) => WoundUp(t)
         /\ t \in On(which) /\ ~expired => Same(t) \/ (~Polling(t) /\ Counted(t))
<1> DEFINE expired == ~Polling(t) /\ LeftOf(t, current) = Zero
<1>1. PICK min \in TV :
        timer'[t] = IF t \notin On(which) THEN timer[t]
             ELSE IF expired THEN Reload(t, IF which = "real" THEN current ELSE min)
             ELSE IF which = "real" THEN timer[t]
             ELSE [timer[t] EXCEPT !.set = min,
                     !.value = IF ~Polling(t) THEN LeftOf(t, current) ELSE @]
  <2>1. TypeOK'
    BY UpdateType
  <2>2. which \in Whiches /\ process'[which] \in TV
    BY <2>1 DEF TypeOK
  <2>3. PICK min :
          /\ process' = [process EXCEPT ![which] = min]
          /\ timer' = [x \in Timers |->
               IF x \notin On(which) THEN timer[x]
               ELSE IF x \in {y \in {z \in On(which) : ~Polling(z)} : LeftOf(y, current) = Zero}
                    THEN Reload(x, IF which = "real" THEN current ELSE min)
               ELSE IF which = "real" THEN timer[x]
               ELSE [timer[x] EXCEPT !.set = min,
                       !.value = IF x \in {z \in On(which) : ~Polling(z)}
                                 THEN LeftOf(x, current) ELSE @]]
    BY DEF Update
  <2>4. min \in TV
    BY <2>2, <2>3 DEF TypeOK
  <2>5. t \in On(which) => (t \in {z \in On(which) : ~Polling(z)} <=> ~Polling(t))
    OBVIOUS
  <2>6. t \in On(which) =>
        (t \in {y \in {z \in On(which) : ~Polling(z)} : LeftOf(y, current) = Zero} <=> expired)
    OBVIOUS
  <2> QED  BY <2>3, <2>4, <2>5, <2>6
<1>2. timer[t] \in Itimer /\ current \in TV /\ (t \in On(which) => timer[t].on)
  BY DEF TypeOK, On
<1>3. CASE t \notin On(which)
  BY <1>1, <1>3 DEF Same
<1>4. CASE t \in On(which) /\ expired
  BY <1>1, <1>2, <1>4, ReloadType DEF Removed, WoundUp
<1>5. CASE t \in On(which) /\ ~expired
  <2>1. CASE which = "real" \/ Polling(t)
    BY <1>1, <1>2, <1>5, <2>1 DEF Itimer, Same
  <2>2. CASE which # "real" /\ ~Polling(t)
    <3>1. timer'[t].value = LeftOf(t, current) /\ timer'[t].interval = timer[t].interval
      BY <1>1, <1>2, <1>5, <2>2 DEF Itimer
    <3> QED  BY <1>2, <1>5, <2>2, <3>1 DEF Counted
  <2> QED  BY <2>1, <2>2
<1> QED  BY <1>3, <1>4, <1>5

LEMMA PollSendMoves ==
  ASSUME TypeOK, PollSend, NEW t \in Timers
  PROVE  /\ t \notin PolledNow => Same(t)
         /\ t \in PolledNow /\ OneShot(t) => Removed(t)
         /\ t \in PolledNow /\ ~OneShot(t) => WoundUp(t)
<1> DEFINE set == IF timer[t].interval = Poll THEN timer[t].set ELSE Now(t[2])
<1>1. timer'[t] = IF t \notin PolledNow THEN timer[t] ELSE Reload(t, set)
  BY DEF PollSend
<1>2. timer[t] \in Itimer /\ t[2] \in Whiches
  BY TimerParts DEF TypeOK
<1>3. set \in TV
  BY <1>2, NowType DEF Itimer
<1>4. t \in PolledNow => timer[t].on
  BY DEF PolledNow, Polling
<1> QED  BY <1>1, <1>3, <1>4, ReloadType DEF Same, Removed, WoundUp

LEMMA StepMoves ==
  ASSUME TypeOK, [Next]_vars, NEW t \in Timers
  PROVE  Moved(t)
<1> USE DEF Moved
<1>1. CASE UNCHANGED timer
  BY <1>1 DEF Same
<1>2. ASSUME NEW user \in BOOLEAN, Tick(user) PROVE Moved(t)
  BY <1>1, <1>2 DEF Tick
<1>3. CASE UNCHANGED vars \/ Start \/ Stop \/ Top \/ Select \/ EndDispatch
  BY <1>1, <1>3 DEF vars, Start, Stop, Top, Select, EndDispatch
<1>4. ASSUME NEW w \in Whiches, Serve(w) PROVE Moved(t)
  BY <1>1, <1>4 DEF Serve
<1>5. ASSUME NEW x \in Timers, HandOut(x) PROVE Moved(t)
  BY <1>1, <1>5 DEF HandOut
<1>6. CASE Update
  BY <1>6, UpdateMoves
<1>7. CASE PollSend
  BY <1>7, PollSendMoves
<1> QED
  BY <1>2, <1>3, <1>4, <1>5, <1>6, <1>7, SetTimerMoves, UnsetTimerMoves, AskValueMoves
     DEF Next, Loop

-----------------------------------------------------------------------------
(* No timer polls that was not asked to.                                   *)

LEMMA RequestedStep ==
  ASSUME TypeOK, Requested, [Next]_vars
  PROVE  Requested'
<1> SUFFICES ASSUME NEW t \in Timers, timer'[t].on
             PROVE  \E request \in Requests :
                      /\ request.interval = timer'[t].interval
                      /\ timer'[t].value = Poll => Poll \in {request.value, request.interval}
  BY DEF Requested
<1>1. Moved(t)
  BY StepMoves
<1>2. timer[t].on => \E request \in Requests :
        /\ request.interval = timer[t].interval
        /\ timer[t].value = Poll => Poll \in {request.value, request.interval}
  BY DEF Requested
<1>3. CASE Same(t)
  BY <1>2, <1>3 DEF Same
<1>4. CASE Asks(t)
  BY <1>4 DEF Asks
<1>5. CASE Counted(t)
  <2>1. timer'[t].value # Poll
    BY <1>5, LeftOfType DEF Counted
  <2> QED  BY <1>2, <1>5, <2>1 DEF Counted
<1>6. CASE WoundUp(t)
  BY <1>2, <1>6 DEF WoundUp
<1> QED  BY <1>1, <1>3, <1>4, <1>5, <1>6 DEF Moved, Removed

LEMMA InitRequested == Init => Requested
  BY DEF Init, Requested, None

(* The notifier makes no timer poll: not by the rounding of ndet_tv_subt,   *)
(* not by winding one up with another interval than was asked for.         *)
THEOREM NoPollingMade == Spec => []PollsIfAsked
<1>1. Init => TypeOK /\ Requested
  BY InitType, InitRequested
<1>2. TypeOK /\ Requested /\ [Next]_vars => (TypeOK /\ Requested)'
  BY TypeStep, RequestedStep
<1>3. Requested => PollsIfAsked
  BY DEF Requested, PollsIfAsked, Polling
<1> QED  BY <1>1, <1>2, <1>3, PTL DEF Spec

-----------------------------------------------------------------------------
(* No timer is left behind, if clients keep to Orderly.                     *)

LEMMA InTimeStep ==
  ASSUME Orderly, TypeOK, Requested, InTime, [Next]_vars
  PROVE  InTime'
<1> SUFFICES ASSUME NEW t \in Timers, timer'[t].on
             PROVE  Before(timer'[t].value, EndOfTime)
  BY DEF InTime
<1>1. Moved(t)
  BY StepMoves
<1>2. timer[t].on => Before(timer[t].value, EndOfTime) /\ Before(timer[t].interval, EndOfTime)
  BY DEF InTime, Requested, Orderly
<1>3. CASE Asks(t)
  BY <1>3 DEF Asks, Orderly
<1>4. CASE Counted(t)
  BY <1>2, <1>4, LeftOfBefore, Constants DEF Counted
<1> QED  BY <1>1, <1>2, <1>3, <1>4 DEF Moved, Same, Removed, WoundUp

(* A timer that polls goes on polling, or goes.                            *)
LEMMA PollingStays ==
  ASSUME Orderly, Requested, NEW t \in Timers, Polling(t), ~OneShot(t)
  PROVE  timer[t].interval = Poll
  BY DEF Orderly, Requested, Polling, OneShot

Covered(t) == Recomputes(t[2]) \/ (Polling(t) /\ t[2] \in poll) \/ Rings(t[2])

(* After an update the timers of its kind are covered by what it armed.     *)
LEMMA UpdateCovers ==
  ASSUME Orderly, TypeOK, Requested, InTime, Update,
         NEW t \in Timers, t[2] = which, timer'[t].on
  PROVE  Covered(t)'
<1> DEFINE mine     == On(which)
           counting == {x \in mine : ~Polling(x)}
           expired  == {x \in counting : LeftOf(x, current) = Zero}
           gone     == {x \in expired : OneShot(x)}
           left(x)  == IF x \in expired THEN timer[x].interval ELSE LeftOf(x, current)
           lefts    == {left(x) : x \in counting \ gone}
<1>1. which \in Whiches /\ current \in TV
  BY DEF TypeOK
<1>2. t \in mine /\ t \notin gone
  <2>1. t \in mine
    <3>1. t \notin On(which) => Same(t)
      BY UpdateMoves
    <3> QED  BY <3>1 DEF Same, On
  <2>2. t \in gone => Removed(t)
    BY UpdateMoves
  <2> QED  BY <2>1, <2>2 DEF Removed
<1>3. CASE Polling(t)
  <2>1. Same(t)
    BY <1>2, <1>3, UpdateMoves
  <2>2. Polling(t)'
    BY <1>3, <2>1 DEF Same, Polling
  <2>3. counting # mine
    BY <1>2, <1>3
  <2>4. which \in poll'
    BY <2>3 DEF Update
  <2> QED  BY <2>2, <2>4 DEF Covered
<1>4. CASE ~Polling(t)
  <2>1. t \in counting \ gone /\ lefts # {}
    BY <1>2, <1>4
  <2>2. which \in auto'
    BY <2>1 DEF Update
  <2>3. PICK min \in {Armed(m) : m \in Minima(lefts)} : process' = [process EXCEPT ![which] = min]
    BY <2>1 DEF Update
  <2>4. PICK m \in lefts : min = Armed(m)
    BY <2>3 DEF Minima
  <2>5. PICK x \in counting \ gone : m = left(x)
    BY <2>4
  <2>6. x \in Timers /\ timer[x].on /\ timer[x] \in Itimer
    BY <2>5 DEF On, TypeOK
  <2>7. m \in TV /\ m # Zero /\ Before(m, EndOfTime)
    <3>1. CASE x \in expired
      <4>1. m = timer[x].interval /\ ~OneShot(x)
        BY <2>5, <3>1
      <4> QED  BY <2>6, <4>1 DEF OneShot, Itimer, Requested, Orderly
    <3>2. CASE x \notin expired
      <4>1. m = LeftOf(x, current) /\ m # Zero
        BY <2>5, <3>2
      <4> QED  BY <1>1, <2>6, <4>1, LeftOfType, LeftOfBefore, Constants DEF InTime
    <3> QED  BY <3>1, <3>2
  <2>8. process'[which] = m
    BY <1>1, <2>3, <2>4, <2>7, ArmedInTime DEF TypeOK
  <2> HIDE DEF mine, counting, expired, gone, lefts
  <2> QED  BY <2>2, <2>7, <2>8 DEF Covered, Rings
<1> QED  BY <1>3, <1>4

LEMMA TakenStep ==
  ASSUME Taken, [Next]_vars
  PROVE  Taken'
<1> USE DEF Taken
<1>1. CASE UNCHANGED vars
  BY <1>1 DEF vars, update
<1>2. ASSUME NEW user \in BOOLEAN, Tick(user) PROVE Taken'
  BY <1>2 DEF Tick, update
<1>3. CASE Start \/ Stop \/ EndDispatch \/ Select \/ PollSend
  BY <1>3 DEF Start, Stop, EndDispatch, Select, PollSend
<1>4. ASSUME NEW c \in Clients, NEW w \in Whiches, NEW request \in Requests,
             SetTimer(c, w, request)
      PROVE  Taken'
  BY <1>4 DEF SetTimer, callFrame, update
<1>5. ASSUME NEW c \in Clients, NEW w \in Whiches, UnsetTimer(c, w) \/ AskValue(c, w)
      PROVE  Taken'
  BY <1>5 DEF UnsetTimer, AskValue, callFrame, update
<1>6. CASE Top
  BY <1>6 DEF Top, Whiches
<1>7. CASE Update
  BY <1>7 DEF Update
<1>8. ASSUME NEW w \in Whiches, Serve(w) PROVE Taken'
  BY <1>8 DEF Serve, Probe, update
<1>9. ASSUME NEW t \in Timers, HandOut(t) PROVE Taken'
  BY <1>9 DEF HandOut, update
<1> QED
  BY <1>1, <1>2, <1>3, <1>4, <1>5, <1>6, <1>7, <1>8, <1>9 DEF Next, Loop

LEMMA WatchedStep ==
  ASSUME Orderly, TypeOK, Requested, InTime, Taken, Watched, [Next]_vars
  PROVE  Watched'
<1> SUFFICES ASSUME NEW t \in Timers, timer'[t].on PROVE Covered(t)'
  BY DEF Watched, Covered
<1> USE DEF Covered, Recomputes, Rings
<1>0. /\ t[1] \in Clients /\ t[2] \in Whiches /\ t = <<t[1], t[2]>>
      /\ timer[t].on => Covered(t)
  BY TimerParts DEF Watched
<1>1. CASE UNCHANGED vars
  BY <1>0, <1>1 DEF vars, flags, update, kernel, Polling
<1>2. ASSUME NEW user \in BOOLEAN, Tick(user) PROVE Covered(t)'
  <2>1. process[t[2]] # Zero => process'[t[2]] # Zero \/ t[2] \in signals'
    <3>1. process[t[2]] \in TV
      BY <1>0 DEF TypeOK
    <3> QED  BY <1>0, <1>2, <3>1, Minus1Type DEF Tick, Whiches
  <2>2. signals \subseteq signals'
    BY <1>2 DEF Tick
  <2> QED  BY <1>0, <1>2, <2>1, <2>2 DEF Tick, flags, update, Polling
<1>3. CASE Start \/ Stop \/ EndDispatch
  BY <1>0, <1>3 DEF Start, Stop, EndDispatch, MayCall, flags, update, kernel, Polling
<1>4. ASSUME NEW c \in Clients, NEW w \in Whiches, NEW request \in Requests,
             SetTimer(c, w, request)
      PROVE  Covered(t)'
  <2>1. t[2] # w => Same(t)
    BY <1>0, <1>4, SetTimerMoves
  <2> QED  BY <1>0, <1>4, <2>1 DEF SetTimer, MayCall, callFrame, update, kernel, Same, Polling
<1>5. ASSUME NEW c \in Clients, NEW w \in Whiches, UnsetTimer(c, w) PROVE Covered(t)'
  <2>1. t[2] # w => Same(t)
    BY <1>0, <1>5, UnsetTimerMoves
  <2> QED  BY <1>0, <1>5, <2>1 DEF UnsetTimer, MayCall, callFrame, update, kernel, Same, Polling
<1>6. ASSUME NEW c \in Clients, NEW w \in Whiches, AskValue(c, w) PROVE Covered(t)'
  <2>1. w = "real"
    BY <1>6 DEF AskValue, Orderly, Whiches
  <2>2. Same(t)
    BY <1>6, <2>1, AskValueMoves
  <2> QED  BY <1>0, <1>6, <2>2 DEF AskValue, MayCall, callFrame, update, kernel, Same, Polling
<1>7. CASE Top
  BY <1>0, <1>7 DEF Top, Probe, update, kernel, Polling, Whiches
<1>8. CASE Update
  <2>1. CASE t[2] = which
    BY <1>8, <2>1, UpdateCovers
  <2>2. CASE t[2] # which
    <3>1. Same(t)
      BY <1>8, <2>2, UpdateMoves DEF On
    <3>2. /\ t[2] \in change => t[2] \in change'
          /\ t[2] \in poll => t[2] \in poll'
          /\ t[2] \in auto => t[2] \in auto'
      BY <1>8, <2>2 DEF Update
    <3>3. process'[t[2]] = process[t[2]]
      BY <1>0, <1>8, <2>2 DEF Update, TypeOK
    <3>4. signals' = signals /\ service' = service
      BY <1>8 DEF Update
    <3> QED  BY <1>0, <2>2, <3>1, <3>2, <3>3, <3>4 DEF Same, Polling
  <2> QED  BY <2>1, <2>2
<1>9. CASE Select
  BY <1>0, <1>9 DEF Select, Taken, flags, update, Polling
<1>10. ASSUME NEW w \in Whiches, Serve(w) PROVE Covered(t)'
  <2>1. UNCHANGED <<timer, auto, process, signals>> /\ service' = service \ {w}
    BY <1>10 DEF Serve, kernel
  <2>2. CASE w \in auto
    <3>1. Probe(w, "gather") /\ pc # "update"
      BY <1>10, <2>2 DEF Serve
    <3> QED  BY <1>0, <2>1, <3>1 DEF Probe, Polling
  <2>3. CASE w \notin auto
    <3>1. UNCHANGED <<change, poll, pc, update>>
      BY <1>10, <2>3 DEF Serve
    <3>2. UNCHANGED which
      BY <3>1 DEF update
    <3> QED  BY <1>0, <2>1, <2>3, <3>1, <3>2 DEF Polling
  <2> QED  BY <2>2, <2>3
<1>11. CASE PollSend
  <2>1. CASE t \notin PolledNow
    <3>1. Same(t)
      BY <1>11, <2>1, PollSendMoves
    <3> QED  BY <1>0, <1>11, <3>1 DEF PollSend, update, kernel, Same, Polling
  <2>2. CASE t \in PolledNow
    <3>1. ~OneShot(t) /\ WoundUp(t)
      BY <1>11, <2>2, PollSendMoves DEF Removed
    <3>2. Polling(t)
      BY <2>2 DEF PolledNow
    <3>3. Polling(t)'
      BY <3>1, <3>2, PollingStays DEF WoundUp, Polling
    <3> QED  BY <1>0, <1>11, <3>1, <3>3 DEF PollSend, update, kernel, WoundUp
  <2> QED  BY <2>1, <2>2
<1>12. ASSUME NEW x \in Timers, HandOut(x) PROVE Covered(t)'
  BY <1>0, <1>12 DEF HandOut, flags, update, kernel, Polling
<1> QED
  BY <1>1, <1>2, <1>3, <1>4, <1>5, <1>6, <1>7, <1>8, <1>9, <1>10, <1>11, <1>12
     DEF Next, Loop

LEMMA InitIInv == Init => IInv
<1>1. Init => InTime /\ Taken /\ Watched
  BY DEF Init, InTime, Taken, Watched, None
<1> QED  BY <1>1, InitType, InitRequested DEF IInv

(* The inductive invariant holds of every run of clients that keep to        *)
(* Orderly: ndet_update_real_itimer and ndet_update_virtual_itimer may come  *)
(* at any moment, and time goes on while they work.                         *)
THEOREM Invariance ==
  ASSUME Orderly
  PROVE  Spec => []IInv
<1>1. IInv /\ [Next]_vars => IInv'
  BY TypeStep, RequestedStep, InTimeStep, TakenStep, WatchedStep DEF IInv
<1> QED  BY <1>1, InitIInv, PTL DEF Spec

(* As long as a timer is set something will bring the loop to it: the       *)
(* process's timer, a signal that has come, a flag.                        *)
THEOREM AlwaysWatched ==
  ASSUME Orderly
  PROVE  Spec => []Watched
<1>1. IInv => Watched
  BY DEF IInv
<1> QED  BY <1>1, Invariance, PTL

-----------------------------------------------------------------------------
(* No timer is early.                                                      *)

(* What the process's timer is compared with: what an update under way has  *)
(* read, or what it is.                                                    *)
Running == IF pc = "update" /\ which = "virtual" THEN current ELSE process["virtual"]

(* A timer x of kind w is due no later than what is left of it by the       *)
(* clock, or by what the process's timer has run down from set; and no more *)
(* than a microsecond from now if it has nothing left, or polls.            *)
Punctual(x, w, d, now, run) ==
  /\ x.value \in {Zero, Poll} => Micro(d) <= Micro(now) + 1
  /\ x.value \notin {Zero, Poll} /\ w = "real" => Micro(d) <= Micro(x.set) + Micro(x.value)
  /\ x.value \notin {Zero, Poll} /\ w = "virtual" =>
       /\ Micro(run) <= Micro(x.set)
       /\ Micro(d) + Micro(x.set) <= Micro(now) + Micro(x.value) + Micro(run)

OnTime(t) == Punctual(timer[t], t[2], due[t], clock[t[2]], Running)
Timely ==
  /\ pc = "update" /\ which = "real" => Micro(current) <= Micro(clock["real"])
  /\ \A t \in Timers : timer[t].on => OnTime(t)

LEMMA RunningType == TypeOK => Running \in TV
  BY DEF TypeOK, Running, Whiches

(* Time goes on, in user time no faster than the process's timer runs down. *)
LEMMA PunctualLater ==
  ASSUME NEW x \in Itimer, NEW w, NEW d \in TV, NEW now \in TV, NEW run \in TV,
         Punctual(x, w, d, now, run), NEW later \in TV, NEW left \in TV,
         Micro(now) <= Micro(later),
         w = "virtual" => /\ Micro(left) <= Micro(run)
                          /\ Micro(now) + Micro(run) <= Micro(later) + Micro(left)
  PROVE  Punctual(x, w, d, later, left)
<1>1. x.value \in TV /\ x.set \in TV
  BY DEF Itimer
<1>2. /\ Micro(x.value) \in Nat /\ Micro(x.set) \in Nat /\ Micro(d) \in Nat /\ Micro(now) \in Nat
      /\ Micro(run) \in Nat /\ Micro(later) \in Nat /\ Micro(left) \in Nat
  BY <1>1, MicroNumber
<1> QED  BY <1>2 DEF Punctual

(* A timer that is set or wound up.                                        *)
LEMMA PunctualNew ==
  ASSUME NEW x \in Itimer, x.value # Zero, NEW w, NEW base \in TV, NEW now \in TV, NEW run \in TV,
         Micro(base) <= Micro(now),
         x.value # Poll /\ w = "real" => x.set = base,
         x.value # Poll /\ w = "virtual" => x.set = run /\ base = now
  PROVE  Punctual(x, w, Plus(base, x.value), now, run)
<1>1. x.value \in TV /\ x.set \in TV
  BY DEF Itimer
<1>2. /\ Micro(x.value) \in Nat /\ Micro(x.set) \in Nat /\ Micro(base) \in Nat /\ Micro(now) \in Nat
      /\ Micro(run) \in Nat /\ Micro(Poll) = 1
  BY <1>1, MicroNumber, Constants
<1>3. Micro(Plus(base, x.value)) = Micro(base) + Micro(x.value)
  BY <1>1, MicroPlus
<1> QED  BY <1>2, <1>3 DEF Punctual

(* A timer of which ndet_tv_subt finds nothing left is due, or will be in a *)
(* microsecond; two differences are taken, and each may leave out one, but  *)
(* the inner one only to the end that more is left.                        *)
LEMMA PunctualExpired ==
  ASSUME NEW x \in Itimer, NEW w \in Whiches, NEW d \in TV, NEW now \in TV, NEW run \in TV,
         Punctual(x, w, d, now, run), NEW at \in TV,
         w = "real" => Micro(at) <= Micro(now), w = "virtual" => at = run,
         Subt(x.value, IF w = "real" THEN Subt(at, x.set) ELSE Subt(x.set, at)) = Zero
  PROVE  Micro(d) <= Micro(now) + 1
<1>1. x.value \in TV /\ x.set \in TV
  BY DEF Itimer
<1>2. /\ Micro(x.value) \in Nat /\ Micro(x.set) \in Nat /\ Micro(d) \in Nat /\ Micro(now) \in Nat
      /\ Micro(run) \in Nat /\ Micro(at) \in Nat /\ Micro(Zero) = 0
  BY <1>1, MicroNumber, Constants
<1>3. Subt(at, x.set) \in TV /\ Subt(x.set, at) \in TV
  BY <1>1, SubtIsDifference
<1>4. Micro(Subt(at, x.set)) = IF Micro(at) > Micro(x.set) + 1 THEN Micro(at) - Micro(x.set) ELSE 0
  BY <1>1, MicroSubt
<1>5. Micro(Subt(x.set, at)) = IF Micro(x.set) > Micro(at) + 1 THEN Micro(x.set) - Micro(at) ELSE 0
  BY <1>1, MicroSubt
<1>6. CASE x.value \in {Zero, Poll}
  BY <1>6 DEF Punctual
<1>7. CASE x.value \notin {Zero, Poll}
  <2>1. Micro(x.value) >= 2
    BY <1>1, <1>2, <1>7, MicroNumber
  <2>2. CASE w = "real"
    <3>1. Micro(x.value) <= Micro(Subt(at, x.set)) + 1
      <4>1. Subt(x.value, Subt(at, x.set)) = Zero
        BY <2>2
      <4>2. Micro(Subt(at, x.set)) \in Nat
        BY <1>3, MicroNumber
      <4> QED  BY <1>1, <1>2, <1>3, <4>1, <4>2, MicroSubt
    <3>2. Micro(d) <= Micro(x.set) + Micro(x.value)
      BY <1>7, <2>2 DEF Punctual
    <3> QED  BY <1>2, <1>4, <2>1, <2>2, <3>1, <3>2
  <2>3. CASE w = "virtual"
    <3>1. Micro(x.value) <= Micro(Subt(x.set, at)) + 1
      <4>1. Subt(x.value, Subt(x.set, at)) = Zero
        BY <2>3
      <4>2. Micro(Subt(x.set, at)) \in Nat
        BY <1>3, MicroNumber
      <4> QED  BY <1>1, <1>2, <1>3, <4>1, <4>2, MicroSubt
    <3>2. Micro(d) + Micro(x.set) <= Micro(now) + Micro(x.value) + Micro(at)
      BY <1>7, <2>3 DEF Punctual
    <3> QED  BY <1>2, <1>5, <2>1, <2>3, <3>1, <3>2
  <2> QED  BY <2>2, <2>3 DEF Whiches
<1> QED  BY <1>6, <1>7

(* A timer in user time that is counted down, to be compared with s.       *)
LEMMA PunctualCounted ==
  ASSUME NEW x \in Itimer, NEW d \in TV, NEW now \in TV, NEW run \in TV,
         Punctual(x, "virtual", d, now, run), NEW s \in TV,
         NEW y \in Itimer, y.value = Subt(x.value, Subt(x.set, run)), y.set = s
  PROVE  Punctual(y, "virtual", d, now, s)
<1>1. x.value \in TV /\ x.set \in TV /\ Subt(x.set, run) \in TV
  BY SubtIsDifference DEF Itimer
<1>2. y.value \in TV /\ y.value # Poll
  BY <1>1, SubtIsDifference
<1>3. CASE y.value = Zero
  <2>1. Micro(d) <= Micro(now) + 1
    BY <1>3, PunctualExpired DEF Whiches
  <2> QED  BY <1>3, <2>1 DEF Punctual
<1>4. CASE y.value # Zero
  <2>1. /\ Micro(x.value) \in Nat /\ Micro(x.set) \in Nat /\ Micro(d) \in Nat /\ Micro(now) \in Nat
        /\ Micro(run) \in Nat /\ Micro(s) \in Nat /\ Micro(y.value) \in Nat /\ Micro(y.value) # 0
        /\ Micro(Subt(x.set, run)) \in Nat
    BY <1>1, <1>2, <1>4, MicroNumber
  <2>2. Micro(Subt(x.set, run)) = IF Micro(x.set) > Micro(run) + 1 THEN Micro(x.set) - Micro(run) ELSE 0
    BY <1>1, MicroSubt
  <2>3. /\ Micro(x.value) > Micro(Subt(x.set, run)) + 1
        /\ Micro(y.value) = Micro(x.value) - Micro(Subt(x.set, run))
    <3>1. Micro(y.value) = IF Micro(x.value) > Micro(Subt(x.set, run)) + 1
                           THEN Micro(x.value) - Micro(Subt(x.set, run)) ELSE 0
      BY <1>1, MicroSubt
    <3> QED  BY <2>1, <3>1
  <2>4. x.value \notin {Zero, Poll}
    <3>1. Micro(x.value) >= 2
      BY <2>1, <2>3
    <3> QED  BY <1>1, <3>1, MicroNumber
  <2>5. /\ Micro(run) <= Micro(x.set)
        /\ Micro(d) + Micro(x.set) <= Micro(now) + Micro(x.value) + Micro(run)
    BY <2>4 DEF Punctual
  <2>6. Micro(d) <= Micro(now) + Micro(y.value)
    BY <2>1, <2>2, <2>3, <2>5
  <2> QED  BY <1>2, <1>4, <2>1, <2>6 DEF Punctual
<1> QED  BY <1>3, <1>4

LEMMA TickOnTime ==
  ASSUME TypeOK, NEW user \in BOOLEAN, Tick(user), NEW t \in Timers, timer[t].on, OnTime(t)
  PROVE  OnTime(t)'
<1>1. TypeOK'
  BY TickType
<1>2. /\ timer' = timer /\ due' = due /\ pc' = pc /\ which' = which /\ current' = current
  BY DEF Tick, update
<1>3. t[2] \in Whiches /\ timer[t] \in Itimer /\ due[t] \in TV
  BY TimerParts DEF TypeOK
<1>4. Running \in TV /\ Running' \in TV
  BY <1>1, RunningType, <1>2 DEF TypeOK, Running, Whiches
<1>5. clock[t[2]] \in TV /\ clock'[t[2]] \in TV
  BY <1>1, <1>3 DEF TypeOK
<1>6. /\ Micro(clock[t[2]]) \in Nat
      /\ clock'[t[2]] = clock[t[2]] \/ Micro(clock'[t[2]]) = Micro(clock[t[2]]) + 1
      /\ t[2] = "virtual" /\ user => Micro(clock'[t[2]]) = Micro(clock[t[2]]) + 1
  <2>1. Micro(Plus(clock[t[2]], Poll)) = Micro(clock[t[2]]) + 1
    BY <1>5, MicroPlus, MicroNumber, Constants
  <2>2. clock'[t[2]] = clock[t[2]] \/ clock'[t[2]] = Plus(clock[t[2]], Poll)
    BY <1>3 DEF Tick
  <2>3. t[2] = "virtual" /\ user => clock'[t[2]] = Plus(clock[t[2]], Poll)
    BY <1>3 DEF Tick
  <2> QED  BY <1>5, <2>1, <2>2, <2>3, MicroNumber
<1>7. Running' = Running \/ (user /\ Running' = Minus1(Running))
  BY <1>2 DEF Running, Tick, Whiches
<1>8. t[2] = "virtual" =>
        /\ Micro(Running') <= Micro(Running)
        /\ Micro(clock[t[2]]) + Micro(Running) <= Micro(clock'[t[2]]) + Micro(Running')
  <2>1. Micro(Running) \in Nat
    BY <1>4, MicroNumber
  <2>2. Micro(Minus1(Running)) = IF Running = Zero THEN 0 ELSE Micro(Running) - 1
    BY <1>4, MicroMinus1
  <2> QED  BY <1>4, <1>6, <1>7, <2>1, <2>2, MicroNumber
<1>9. Micro(clock[t[2]]) <= Micro(clock'[t[2]])
  BY <1>6
<1>10. Punctual(timer[t], t[2], due[t], clock'[t[2]], Running')
  BY <1>3, <1>4, <1>5, <1>8, <1>9, PunctualLater DEF OnTime
<1> QED  BY <1>2, <1>10 DEF OnTime

LEMMA SetTimerOnTime ==
  ASSUME TypeOK, NEW c \in Clients, NEW w \in Whiches, NEW request \in Requests,
         SetTimer(c, w, request), NEW t \in Timers, timer[t].on => OnTime(t), timer'[t].on
  PROVE  OnTime(t)'
<1>1. clock' = clock /\ process' = process /\ pc' = pc /\ pc # "update" /\ Running' = Running
  BY DEF SetTimer, MayCall, callFrame, kernel, update, Running
<1>2. CASE t # <<c, w>>
  <2>1. timer'[t] = timer[t] /\ due'[t] = due[t]
    BY <1>2 DEF SetTimer, TypeOK
  <2> QED  BY <1>1, <2>1 DEF OnTime
<1>3. CASE t = <<c, w>>
  <2>1. /\ timer'[t] = [value |-> request.value, interval |-> request.interval,
                        set |-> Now(w), on |-> TRUE]
        /\ due'[t] = Plus(clock[w], request.value)
    BY <1>3 DEF SetTimer, TypeOK
  <2>2. /\ timer'[t].value = request.value /\ timer'[t].set = Now(w)
        /\ request.value \in TV /\ request.value # Zero /\ t[2] = w
    BY <1>3, <2>1
  <2>3. timer'[t] \in Itimer
    BY SetTimerType DEF TypeOK
  <2>4. clock[w] \in TV /\ Running \in TV /\ Micro(clock[w]) <= Micro(clock[w])
    <3>1. clock[w] \in TV  BY DEF TypeOK
    <3>2. Micro(clock[w]) \in Nat  BY <3>1, MicroNumber
    <3> QED  BY <3>1, <3>2, RunningType
  <2>5. /\ w = "real" => timer'[t].set = clock[w]
        /\ w = "virtual" => timer'[t].set = Running
    BY <1>1, <2>2 DEF Now, Running
  <2>6. Punctual(timer'[t], w, Plus(clock[w], timer'[t].value), clock[w], Running)
    BY <2>2, <2>3, <2>4, <2>5, PunctualNew
  <2> QED  BY <1>1, <2>1, <2>2, <2>6 DEF OnTime
<1> QED  BY <1>2, <1>3

LEMMA AskValueOnTime ==
  ASSUME TypeOK, NEW c \in Clients, NEW w \in Whiches, AskValue(c, w), NEW t \in Timers,
         timer[t].on, OnTime(t)
  PROVE  OnTime(t)'
<1>1. /\ clock' = clock /\ process' = process /\ pc' = pc /\ pc # "update" /\ Running' = Running
      /\ due' = due
  BY DEF AskValue, MayCall, callFrame, kernel, update, Running
<1>2. CASE w = "real" \/ t # <<c, w>>
  <2>1. timer'[t] = timer[t]
    BY <1>2 DEF AskValue, TypeOK
  <2> QED  BY <1>1, <2>1 DEF OnTime
<1>3. CASE w = "virtual" /\ t = <<c, w>>
  <2> DEFINE left == LeftOf(t, Now(w))
             now == Now(w)
  <2>1. /\ now = Running /\ now \in TV /\ t[2] = "virtual"
        /\ left = Subt(timer[t].value, Subt(timer[t].set, Running))
    BY <1>1, <1>3, NowType DEF Now, Running, LeftOf
  <2>2. timer' = [timer EXCEPT ![t].value = left, ![t].set = now]
    BY <1>3 DEF AskValue
  <2>3. timer \in [Timers -> Itimer] /\ timer[t] \in Itimer /\ due[t] \in TV /\ clock["virtual"] \in TV
    BY DEF TypeOK, Whiches
  <2>4. timer'[t] \in Itimer
    BY AskValueType DEF TypeOK
  <2> HIDE DEF left, now
  <2>5. timer'[t].value = left /\ timer'[t].set = now
    BY <2>2, <2>3 DEF Itimer
  <2>6. Punctual(timer[t], "virtual", due[t], clock["virtual"], Running)
    BY <2>1 DEF OnTime
  <2>7. Punctual(timer'[t], "virtual", due[t], clock["virtual"], now)
    BY <2>1, <2>3, <2>4, <2>5, <2>6, PunctualCounted
  <2> QED  BY <1>1, <2>1, <2>7 DEF OnTime
<1> QED  BY <1>2, <1>3 DEF Whiches

(* What an update makes of a timer of its kind.                            *)
LEMMA UpdateSets ==
  ASSUME TypeOK, Update, NEW t \in Timers
  PROVE  LET expired == ~Polling(t) /\ LeftOf(t, current) = Zero
             base    == IF which = "real" THEN current ELSE clock[which]
         IN /\ t \notin On(which) => timer'[t] = timer[t] /\ due'[t] = due[t]
            /\ t \in On(which) /\ expired /\ ~OneShot(t) =>
                 /\ timer'[t] = Reload(t, IF which = "real" THEN current ELSE process'[which])
                 /\ due'[t] = Plus(base, timer[t].interval)
            /\ t \in On(which) /\ ~expired =>
                 /\ due'[t] = due[t]
                 /\ which = "real" => timer'[t] = timer[t]
                 /\ which = "virtual" =>
                      timer'[t] = [timer[t] EXCEPT !.set = process'[which],
                                     !.value = IF ~Polling(t) THEN LeftOf(t, current) ELSE @]
            /\ t \in queued' \ queued => t \in On(which) /\ expired
<1> DEFINE mine     == On(which)
           counting == {x \in mine : ~Polling(x)}
           expired  == {x \in counting : LeftOf(x, current) = Zero}
           gone     == {x \in expired : OneShot(x)}
           base     == IF which = "real" THEN current ELSE clock[which]
<1>1. PICK min :
        /\ process' = [process EXCEPT ![which] = min]
        /\ timer' = [x \in Timers |->
             IF x \notin mine THEN timer[x]
             ELSE IF x \in expired THEN Reload(x, IF which = "real" THEN current ELSE min)
             ELSE IF which = "real" THEN timer[x]
             ELSE [timer[x] EXCEPT !.set = min,
                     !.value = IF x \in counting THEN LeftOf(x, current) ELSE @]]
  BY DEF Update
<1>2. process'[which] = min
  BY <1>1 DEF TypeOK
<1>3. /\ t \in counting <=> t \in mine /\ ~Polling(t)
      /\ t \in expired <=> t \in mine /\ ~Polling(t) /\ LeftOf(t, current) = Zero
      /\ t \in gone <=> t \in expired /\ OneShot(t)
  OBVIOUS
<1>4. /\ due' = [x \in Timers |-> IF x \in gone THEN Zero
                                  ELSE IF x \in expired THEN Plus(base, timer[x].interval) ELSE due[x]]
      /\ queued' = queued \cup expired
  BY DEF Update
<1> HIDE DEF mine, counting, expired, gone, base
<1>5. timer'[t] = IF t \notin mine THEN timer[t]
                  ELSE IF t \in expired THEN Reload(t, IF which = "real" THEN current ELSE min)
                  ELSE IF which = "real" THEN timer[t]
                  ELSE [timer[t] EXCEPT !.set = min,
                          !.value = IF t \in counting THEN LeftOf(t, current) ELSE @]
  BY <1>1
<1>6. due'[t] = IF t \in gone THEN Zero
                ELSE IF t \in expired THEN Plus(base, timer[t].interval) ELSE due[t]
  BY <1>4
<1>7. t \in queued' \ queued => t \in expired
  BY <1>4
<1>8. t \notin mine => timer'[t] = timer[t] /\ due'[t] = due[t]
  BY <1>3, <1>5, <1>6
<1>9. t \in mine /\ t \in expired /\ ~OneShot(t) =>
        /\ timer'[t] = Reload(t, IF which = "real" THEN current ELSE process'[which])
        /\ due'[t] = Plus(base, timer[t].interval)
  BY <1>2, <1>3, <1>5, <1>6
<1>10. t \in mine /\ t \notin expired => due'[t] = due[t] /\ (which = "real" => timer'[t] = timer[t])
  BY <1>3, <1>5, <1>6
<1>11. t \in mine /\ t \notin expired /\ which = "virtual" =>
         timer'[t] = [timer[t] EXCEPT !.set = process'[which],
                        !.value = IF ~Polling(t) THEN LeftOf(t, current) ELSE @]
  BY <1>2, <1>3, <1>5
<1> QED  BY <1>3, <1>7, <1>8, <1>9, <1>10, <1>11 DEF mine, base

(* The timers that an update finds expired are due.                        *)
LEMMA ExpiredDue ==
  ASSUME TypeOK, Timely, pc = "update", NEW t \in Timers, t \in On(which), LeftOf(t, current) = Zero
  PROVE  Micro(due[t]) <= Micro(clock[which]) + 1
<1>1. t[2] = which /\ timer[t].on /\ which \in Whiches /\ OnTime(t)
  BY DEF On, Timely, TypeOK
<1>2. timer[t] \in Itimer /\ due[t] \in TV /\ clock[which] \in TV /\ current \in TV /\ Running \in TV
  BY <1>1, RunningType DEF TypeOK
<1>3. Subt(timer[t].value, IF which = "real" THEN Subt(current, timer[t].set)
                           ELSE Subt(timer[t].set, current)) = Zero
  BY <1>1 DEF LeftOf
<1>4. /\ which = "real" => Micro(current) <= Micro(clock[which])
      /\ which = "virtual" => current = Running
  BY DEF Timely, Running
<1>5. Punctual(timer[t], which, due[t], clock[which], Running)
  BY <1>1 DEF OnTime
<1> QED  BY <1>1, <1>2, <1>3, <1>4, <1>5, PunctualExpired

LEMMA UpdateOnTime ==
  ASSUME TypeOK, Timely, Update, NEW t \in Timers, timer'[t].on
  PROVE  OnTime(t)'
<1>1. /\ pc = "update" /\ clock' = clock /\ pc' # "update"
      /\ which \in Whiches /\ current \in TV /\ t[2] \in Whiches
  BY TimerParts DEF Update, TypeOK
<1>2. /\ Running' = process'["virtual"] /\ Running' \in TV /\ TypeOK'
      /\ which = "real" => Running' = Running
  <2>1. TypeOK'
    BY UpdateType
  <2>2. Running' = process'["virtual"] /\ Running' \in TV
    BY <1>1, <2>1 DEF Running, TypeOK, Whiches
  <2>3. which = "real" => process'["virtual"] = process["virtual"]
    BY DEF Update, TypeOK, Whiches
  <2> QED  BY <2>1, <2>2, <2>3 DEF Running
<1>3. /\ timer[t] \in Itimer /\ due[t] \in TV /\ timer'[t] \in Itimer /\ timer[t].interval \in TV
      /\ clock[t[2]] \in TV /\ Running \in TV
  BY <1>1, <1>2, RunningType DEF TypeOK, Itimer
<1>4. Micro(clock[t[2]]) \in Nat /\ Micro(due[t]) \in Nat
  BY <1>3, MicroNumber
<1>5. timer[t].on
  <2>1. t \notin On(which) => Same(t)
    BY UpdateMoves
  <2> QED  BY <2>1 DEF Same, On
<1>6. Punctual(timer[t], t[2], due[t], clock[t[2]], Running)
  BY <1>5 DEF Timely, OnTime
<1>7. t \in On(which) <=> t[2] = which
  BY <1>5 DEF On
<1>8. CASE t \notin On(which)
  <2>1. timer'[t] = timer[t] /\ due'[t] = due[t]
    BY <1>8, UpdateSets
  <2>2. t[2] = "virtual" => Running' = Running
    BY <1>1, <1>2, <1>7, <1>8 DEF Whiches
  <2>3. Punctual(timer[t], t[2], due[t], clock[t[2]], Running')
    BY <1>6, <2>2 DEF Punctual
  <2> QED  BY <1>1, <2>1, <2>3 DEF OnTime
<1>9. CASE t \in On(which) /\ ~Polling(t) /\ LeftOf(t, current) = Zero
  <2>1. ~OneShot(t)
    <3>1. OneShot(t) => Removed(t)
      BY <1>9, UpdateMoves
    <3> QED  BY <3>1 DEF Removed
  <2> DEFINE set  == IF which = "real" THEN current ELSE process'[which]
             base == IF which = "real" THEN current ELSE clock[which]
  <2>2. timer'[t] = Reload(t, set) /\ due'[t] = Plus(base, timer[t].interval)
    BY <1>9, <2>1, UpdateSets
  <2>3. timer'[t].value = timer[t].interval /\ timer'[t].set = set /\ timer[t].interval # Zero
    BY <1>3, <2>1, <2>2 DEF Reload, OneShot, Itimer
  <2>4. base \in TV /\ Micro(base) <= Micro(clock[which])
    <3>1. which = "real" => Micro(current) <= Micro(clock[which])
      BY <1>1 DEF Timely
    <3> QED  BY <1>1, <1>3, <1>4, <1>7, <1>9, <3>1
  <2>5. /\ which = "real" => timer'[t].set = base
        /\ which = "virtual" => timer'[t].set = Running' /\ base = clock[which]
    BY <1>2, <2>3
  <2> HIDE DEF set, base
  <2>6. Punctual(timer'[t], which, Plus(base, timer'[t].value), clock[which], Running')
    BY <1>2, <1>3, <1>7, <1>9, <2>3, <2>4, <2>5, PunctualNew
  <2> QED  BY <1>1, <1>7, <1>9, <2>2, <2>3, <2>6 DEF OnTime
<1>10. CASE t \in On(which) /\ ~(~Polling(t) /\ LeftOf(t, current) = Zero)
  <2>1. due'[t] = due[t]
    BY <1>10, UpdateSets
  <2>2. CASE which = "real"
    <3>1. timer'[t] = timer[t]
      BY <1>10, <2>2, UpdateSets
    <3> QED  BY <1>1, <1>2, <1>6, <2>1, <2>2, <3>1 DEF OnTime
  <2>3. CASE which = "virtual" /\ Polling(t)
    <3>1. timer'[t] = [timer[t] EXCEPT !.set = process'[which], !.value = timer[t].value]
      BY <1>10, <2>3, UpdateSets
    <3>2. timer[t].value = Poll /\ timer'[t].value = Poll
      BY <1>3, <2>3, <3>1 DEF Polling, Itimer
    <3>3. Micro(due[t]) <= Micro(clock[t[2]]) + 1
      BY <1>6, <3>2 DEF Punctual
    <3> QED  BY <1>1, <2>1, <3>2, <3>3 DEF OnTime, Punctual
  <2>4. CASE which = "virtual" /\ ~Polling(t)
    <3> DEFINE left == LeftOf(t, current)
    <3>1. timer'[t] = [timer[t] EXCEPT !.set = process'[which], !.value = left]
      BY <1>10, <2>4, UpdateSets
    <3>2. timer'[t].value = left /\ timer'[t].set = Running'
      BY <1>2, <1>3, <2>4, <3>1 DEF Itimer
    <3>3. left = Subt(timer[t].value, Subt(timer[t].set, Running)) /\ t[2] = "virtual"
      BY <1>1, <1>7, <1>10, <2>4 DEF LeftOf, Running
    <3> HIDE DEF left
    <3>4. Punctual(timer'[t], "virtual", due[t], clock[t[2]], Running')
      BY <1>2, <1>3, <1>6, <3>2, <3>3, PunctualCounted
    <3> QED  BY <1>1, <2>1, <3>3, <3>4 DEF OnTime
  <2> QED  BY <1>1, <2>2, <2>3, <2>4 DEF Whiches
<1> QED  BY <1>8, <1>9, <1>10

LEMMA PollSendOnTime ==
  ASSUME TypeOK, PollSend, NEW t \in Timers, timer[t].on => OnTime(t), timer'[t].on
  PROVE  OnTime(t)'
<1>1. /\ clock' = clock /\ process' = process /\ pc = "gather" /\ pc' = "dispatch" /\ Running' = Running
      /\ Running = process["virtual"]
  BY DEF PollSend, kernel, Running
<1>2. CASE t \notin PolledNow
  <2>1. timer'[t] = timer[t] /\ due'[t] = due[t]
    BY <1>2 DEF PollSend
  <2> QED  BY <1>1, <2>1 DEF OnTime
<1>3. CASE t \in PolledNow
  <2> DEFINE set == IF timer[t].interval = Poll THEN timer[t].set ELSE Now(t[2])
  <2>1. ~OneShot(t)
    BY <1>3, PollSendMoves DEF Removed
  <2>2. timer'[t] = Reload(t, set) /\ due'[t] = Plus(clock[t[2]], timer[t].interval)
    BY <1>3, <2>1 DEF PollSend
  <2>3. /\ timer[t] \in Itimer /\ timer'[t] \in Itimer /\ timer[t].interval \in TV /\ t[2] \in Whiches
        /\ clock[t[2]] \in TV /\ Running \in TV
    BY PollSendType, TimerParts, RunningType DEF TypeOK, Itimer
  <2>4. timer'[t].value = timer[t].interval /\ timer'[t].set = set /\ timer[t].interval # Zero
    BY <2>1, <2>2, <2>3 DEF Reload, OneShot, Itimer
  <2>5. /\ timer'[t].value # Poll /\ t[2] = "real" => timer'[t].set = clock[t[2]]
        /\ timer'[t].value # Poll /\ t[2] = "virtual" => timer'[t].set = Running
    BY <1>1, <2>4 DEF Now
  <2>6. Micro(clock[t[2]]) <= Micro(clock[t[2]])
    BY <2>3, MicroNumber
  <2> HIDE DEF set
  <2>7. Punctual(timer'[t], t[2], Plus(clock[t[2]], timer'[t].value), clock[t[2]], Running)
    BY <2>3, <2>4, <2>5, <2>6, PunctualNew
  <2> QED  BY <1>1, <2>2, <2>4, <2>7 DEF OnTime
<1> QED  BY <1>2, <1>3

LEMMA TimelyStep ==
  ASSUME TypeOK, Timely, [Next]_vars
  PROVE  Timely'
<1>1. CASE \/ UNCHANGED vars \/ Start \/ Stop \/ Top \/ Select \/ EndDispatch
           \/ (\E w \in Whiches : Serve(w)) \/ \E t \in Timers : HandOut(t)
  <2>1. UNCHANGED <<timer, due, clock>>
    BY <1>1 DEF vars, kernel, Start, Stop, Top, Select, EndDispatch, Serve, HandOut
  <2> DEFINE Keeps == /\ Running' = Running
                      /\ pc' = "update" /\ which' = "real" => Micro(current') <= Micro(clock["real"])
  <2>2. Keeps
    <3>1. CASE UNCHANGED <<pc, which, current, process>>
      BY <3>1 DEF Timely, Running
    <3>2. CASE pc # "update" /\ pc' # "update" /\ process' = process
      BY <3>2 DEF Running
    <3>3. ASSUME NEW w \in Whiches, NEW next, Probe(w, next), pc # "update", process' = process
          PROVE  Keeps
      <4>1. clock["real"] \in TV
        BY DEF TypeOK, Whiches
      <4>2. Micro(clock["real"]) \in Nat
        BY <4>1, MicroNumber
      <4> QED  BY <3>3, <4>2 DEF Probe, Now, Running, Whiches
    <3>4. CASE UNCHANGED vars
      BY <3>1, <3>4 DEF vars, update, kernel
    <3>5. CASE Start \/ Stop \/ Select \/ EndDispatch
      BY <3>2, <3>5 DEF Start, Stop, Select, EndDispatch, kernel, MayCall
    <3>6. CASE Top
      BY <3>2, <3>3, <3>6 DEF Top, kernel, Whiches
    <3>7. ASSUME NEW w \in Whiches, Serve(w)  PROVE  Keeps
      BY <3>2, <3>3, <3>7 DEF Serve, kernel
    <3>8. ASSUME NEW t \in Timers, HandOut(t)  PROVE  Keeps
      BY <3>1, <3>8 DEF HandOut, update, kernel
    <3> QED  BY <1>1, <3>4, <3>5, <3>6, <3>7, <3>8
  <2> QED  BY <2>1, <2>2 DEF Timely, OnTime
<1>2. ASSUME NEW user \in BOOLEAN, Tick(user)  PROVE  Timely'
  <2>1. \A t \in Timers : timer'[t].on => OnTime(t)'
    BY <1>2, TickOnTime DEF Timely, Tick
  <2>2. pc' = "update" /\ which' = "real" => Micro(current') <= Micro(clock'["real"])
    <3>1. clock["real"] \in TV /\ current \in TV
      BY DEF TypeOK, Whiches
    <3>2. Micro(clock["real"]) \in Nat /\ Micro(current) \in Nat
          /\ Micro(Plus(clock["real"], Poll)) = Micro(clock["real"]) + 1
      BY <3>1, MicroNumber, MicroPlus, Constants
    <3>3. clock'["real"] = clock["real"] \/ clock'["real"] = Plus(clock["real"], Poll)
      BY <1>2 DEF Tick, Whiches
    <3>4. pc' = pc /\ which' = which /\ current' = current
      BY <1>2 DEF Tick, update
    <3> QED  BY <3>2, <3>3, <3>4 DEF Timely
  <2> QED  BY <2>1, <2>2 DEF Timely
<1>3. ASSUME NEW c \in Clients, NEW w \in Whiches,
             UnsetTimer(c, w) \/ AskValue(c, w) \/ \E request \in Requests : SetTimer(c, w, request)
      PROVE  Timely'
  <2>1. pc' # "update"
    BY <1>3 DEF UnsetTimer, AskValue, SetTimer, MayCall, callFrame
  <2>2. ASSUME NEW t \in Timers, timer'[t].on, UnsetTimer(c, w)  PROVE  OnTime(t)'
    <3>1. t # <<c, w>>
      BY <2>2, UnsetTimerMoves DEF Removed
    <3>2. timer'[t] = timer[t] /\ due'[t] = due[t] /\ clock' = clock /\ Running' = Running
      BY <2>2, <3>1 DEF UnsetTimer, TypeOK, MayCall, callFrame, kernel, update, Running
    <3> QED  BY <2>2, <3>2 DEF Timely, OnTime
  <2>3. ASSUME NEW t \in Timers, timer'[t].on, AskValue(c, w)  PROVE  OnTime(t)'
    <3>1. timer[t].on
      BY <2>3, AskValueMoves DEF Same, Counted
    <3> QED  BY <2>3, <3>1, AskValueOnTime DEF Timely
  <2>4. ASSUME NEW t \in Timers, timer'[t].on, NEW request \in Requests, SetTimer(c, w, request)
        PROVE  OnTime(t)'
    BY <2>4, SetTimerOnTime DEF Timely
  <2> QED  BY <1>3, <2>1, <2>2, <2>3, <2>4 DEF Timely
<1>4. CASE Update
  <2>1. pc' # "update"
    BY <1>4 DEF Update, TypeOK
  <2> QED  BY <1>4, <2>1, UpdateOnTime DEF Timely
<1>5. CASE PollSend
  <2>1. pc' # "update"
    BY <1>5 DEF PollSend
  <2> QED  BY <1>5, <2>1, PollSendOnTime DEF Timely
<1> QED  BY <1>1, <1>2, <1>3, <1>4, <1>5 DEF Next, Loop

(* Whatever clients ask for, set anew or remove, and however long the       *)
(* program is kept from its timers: no function is called for one more than *)
(* a microsecond before its time.                                          *)
THEOREM NeverEarly == Spec => NotEarly
<1>1. Init => TypeOK /\ Timely
  BY InitType DEF Init, Timely, None
<1>2. TypeOK /\ Timely /\ [Next]_vars => (TypeOK /\ Timely)'
  BY TypeStep, TimelyStep
<1>3. TypeOK /\ Timely /\ [Next]_vars => [\A t \in queued' \ queued : Polling(t) \/ ~Early(t)]_vars
  <2> SUFFICES ASSUME TypeOK, Timely, Next, NEW t \in queued' \ queued
               PROVE  Polling(t) \/ ~Early(t)
    OBVIOUS
  <2>1. CASE Update
    <3>1. t \in Timers
      BY <2>1, UpdateType DEF TypeOK
    <3>2. t \in On(which) /\ ~Polling(t) /\ LeftOf(t, current) = Zero
      BY <2>1, <3>1, UpdateSets
    <3>3. Micro(due[t]) <= Micro(clock[which]) + 1 /\ t[2] = which
      BY <2>1, <3>1, <3>2, ExpiredDue DEF Update, On
    <3>4. clock[which] \in TV /\ due[t] \in TV
      BY <3>1 DEF TypeOK
    <3>5. Micro(clock[which]) \in Nat /\ Micro(due[t]) \in Nat
      BY <3>4, MicroNumber
    <3> QED  BY <3>3, <3>5 DEF Early
  <2>2. CASE PollSend
    BY <2>2 DEF PollSend, PolledNow
  <2>3. CASE ~Update /\ ~PollSend
    <3>1. queued' \subseteq queued
      BY <2>3 DEF Next, Loop, Tick, Start, Stop, Top, Select, Serve, HandOut, EndDispatch,
                  SetTimer, UnsetTimer, AskValue
    <3> QED  BY <3>1
  <2> QED  BY <2>1, <2>2, <2>3
<1> QED  BY <1>1, <1>2, <1>3, PTL DEF Spec, NotEarly

=============================================================================
