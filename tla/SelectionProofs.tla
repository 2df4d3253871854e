---------------------------- MODULE SelectionProofs ----------------------------
(* Proofs about the selection service, for any values of the constants.    *)
(*                                                                         *)
(* SelectionOwnership: who believes he owns the selection owns it or will  *)
(* be told, unless an obsolete client has left him busy; and, if no two    *)
(* acquisitions have the same time, the owner that the server names knows  *)
(* it, and is not undone by one it takes the selection from.               *)
(*                                                                         *)
(* SelectionRequests: if no two requests have the same time, a request has *)
(* its timer as long as it is pending; if, besides, no reply_proc posts a  *)
(* request, no two requests under way share a property, and each           *)
(* reply_proc gets what the owner wrote for its target.                    *)
EXTENDS SelectionOwnership, SelectionRequests, SequenceTheorems,
        WellFoundedInduction, FiniteSetTheorems, TLAPS

Clear(o, t) == [type |-> "clear", window |-> o, time |-> t]

(* The events that have been sent to a process.                            *)
News(p) == ToSet(inbox[p])

(* Each request for the window of o in a queue is followed by the news     *)
(* that o has lost what it acquired at time t.                             *)
Followed(q, o, t) ==
  \A i \in DOMAIN q : q[i].type = "request" /\ q[i].window = o =>
    \E j \in DOMAIN q : i < j /\ q[j].type = "clear" /\ q[j].window = o /\ t <= q[j].time

-----------------------------------------------------------------------------
(* The inductive invariant without an assumption on times.                 *)

Inquiring == {"check", "retry", "recheck"}

(* An object that is being given the selection, or serves a request, is    *)
(* the one found; in the first case it does not own it yet.                *)
AskingIsFound ==
  \A p \in Processes :
    /\ pc[p] # Idle => ProcessOf[pc[p].o] = p /\ context[p] = pc[p].o
    /\ pc[p].at \in Inquiring => ~own[pc[p].o]

MarkedIsBusy == losing \subseteq busy

(* Of the objects of a process the last one registered owns, and those     *)
(* that were busy when they should have lost the selection.                *)
Registered ==
  \A o \in Owners : own[o] => \/ client[ProcessOf[o]] = o
                              \/ o \in busy /\ context[ProcessOf[o]] # o

OfTheProcess ==
  \A p \in Processes :
    /\ context[p] # NoOwner => ProcessOf[context[p]] = p /\ context[p] \in rank \cap alive
    /\ client[p] # NoOwner => ProcessOf[client[p]] = p

(* What is destroyed gives the selection up, unless it is busy.            *)
DiesBusy == \A o \in Owners : own[o] => o \in alive \cup busy

NotAhead == \A o \in Owners : server.owner = o => time[o] <= server.time

(* A request that is answered makes the object forget its mark; it comes   *)
(* before the news of the loss.                                            *)
InTurn(o) == \/ pc[ProcessOf[o]] = [at |-> "incr", o |-> o] /\ o \in losing
             \/ Followed(inbox[ProcessOf[o]], o, time[o])
OwnsOrHears(o) == server.owner = o \/ (WillLearn(o) /\ InTurn(o))

(* The two parts of BelievesRightly.                                       *)
OwnsOrLearns == \A o \in Owners : own[o] /\ context[ProcessOf[o]] = o => OwnsOrHears(o)
FindsNoOther ==
  \A o \in Owners : own[o] /\ ~Stuck(o) /\ pc[ProcessOf[o]].at \in {"idle", "incr"}
                      => context[ProcessOf[o]] \in {o, NoOwner}

WInv == /\ TypeOK /\ AskingIsFound /\ MarkedIsBusy /\ Registered /\ OfTheProcess /\ DiesBusy
        /\ NotAhead /\ OwnsOrLearns /\ FindsNoOther

(* What is added if no two acquisitions have the same time.                *)

TimesUsed ==
  /\ now > 0 /\ server.time \in used \cup {0}
  /\ \A o \in Owners : time[o] \in used \cup {0}
  /\ \A o1, o2 \in Owners : o1 # o2 /\ time[o1] = time[o2] => time[o1] = 0

OwnTimesPast == \A o \in Owners : own[o] => 0 < time[o] /\ time[o] <= server.time

NewsPast == \A p \in Processes : \A ev \in News(p) : ev.type = "clear" => ev.time <= server.time

(* The server's owner knows, and no event on its way says otherwise.       *)
OwnerIsCurrent ==
  \A o \in Owners : server.owner = o =>
    /\ 0 < time[o] /\ time[o] = server.time
    /\ own[o] \/ (pc[ProcessOf[o]].o = o /\ pc[ProcessOf[o]].at \in Inquiring)
    /\ \A ev \in News(ProcessOf[o]) : ev.type = "clear" /\ ev.window = o => ev.time < server.time

(* Marked objects still own the selection.                                 *)
LosingOwns == \A o \in losing : own[o]

RetriesAnew ==
  \A p \in Processes : pc[p].at = "retry" => 0 < time[pc[p].o] /\ time[pc[p].o] # server.time

SInv == WInv /\ LosingOwns /\ TimesUsed /\ OwnTimesPast /\ NewsPast /\ OwnerIsCurrent /\ RetriesAnew

-----------------------------------------------------------------------------
(* Lemmas: queues of events, and what the server does.                     *)

(* An event is added at the end of a queue.                                *)
LEMMA AppendNews ==
  ASSUME NEW q \in Seq(Event), NEW e \in Event
  PROVE  Append(q, e) \in Seq(Event) /\ ToSet(Append(q, e)) = ToSet(q) \cup {e}
<1>1. /\ Append(q, e) \in Seq(Event) /\ Len(Append(q, e)) = Len(q) + 1 /\ Len(q) \in Nat
      /\ \A i \in 1..Len(q) : Append(q, e)[i] = q[i]
      /\ Append(q, e)[Len(q) + 1] = e
  BY AppendProperties, LenProperties
<1>2. DOMAIN q = 1..Len(q) /\ DOMAIN Append(q, e) = 1..(Len(q) + 1)
  BY <1>1, LenProperties
<1>3. \A x : x \in ToSet(Append(q, e)) <=> \E i \in 1..(Len(q) + 1) : x = Append(q, e)[i]
  BY <1>2 DEF ToSet
<1>4. \A x : x \in ToSet(q) <=> \E i \in 1..Len(q) : x = q[i]
  BY <1>2 DEF ToSet
<1>5. \A i \in 1..(Len(q) + 1) : i \in 1..Len(q) \/ i = Len(q) + 1
  BY <1>1
<1>6. \A i \in 1..Len(q) : i \in 1..(Len(q) + 1)
  BY <1>1
<1>7. Len(q) + 1 \in 1..(Len(q) + 1)
  BY <1>1
<1>8. \A x : x \in ToSet(Append(q, e)) <=> x \in ToSet(q) \/ x = e
  BY <1>1, <1>3, <1>4, <1>5, <1>6, <1>7
<1>9. QED
  BY <1>1, <1>8

(* r is q without its event number i.                                      *)
Without(q, i, r) ==
  /\ Len(r) = Len(q) - 1
  /\ \A j \in 1..(Len(q) - 1) : r[j] = IF j < i THEN q[j] ELSE q[j + 1]

(* An event is taken out of a queue, wherever it is.                       *)
LEMMA RemoveNews ==
  ASSUME NEW q \in Seq(Event), NEW i \in DOMAIN q
  PROVE  /\ q[i] \in Event /\ RemoveAt(q, i) \in Seq(Event)
         /\ ToSet(q) = ToSet(RemoveAt(q, i)) \cup {q[i]}
         /\ Without(q, i, RemoveAt(q, i))
<1> DEFINE a == SubSeq(q, 1, i - 1)
           b == SubSeq(q, i + 1, Len(q))
           r == RemoveAt(q, i)
<1>1. Len(q) \in Nat /\ DOMAIN q = 1..Len(q) /\ i \in 1..Len(q) /\ q[i] \in Event
  BY LenProperties, ElementOfSeq
<1>2. /\ a \in Seq(Event) /\ Len(a) = i - 1
      /\ \A j \in 1..(i - 1) : a[j] = q[j]
  BY <1>1, SubSeqProperties
<1>3. /\ b \in Seq(Event) /\ Len(b) = Len(q) - i
      /\ \A j \in 1..(Len(q) - i) : b[j] = q[i + j]
  <2>1. CASE i + 1 <= Len(q)
    BY <1>1, <2>1, SubSeqProperties
  <2>2. CASE ~(i + 1 <= Len(q))
    BY <1>1, <2>2, SubSeqProperties
  <2>3. QED
    BY <2>1, <2>2
<1>4. r = a \o b
  BY DEF RemoveAt
<1> HIDE DEF a, b, r
<1>5. /\ r \in Seq(Event) /\ Len(r) = Len(q) - 1
      /\ \A j \in 1..Len(r) : r[j] = IF j <= i - 1 THEN a[j] ELSE b[j - (i - 1)]
  <2>1. Len(a) + Len(b) = Len(q) - 1
    BY <1>1, <1>2, <1>3
  <2>2. /\ a \o b \in Seq(Event) /\ Len(a \o b) = Len(a) + Len(b)
        /\ \A j \in 1..(Len(a) + Len(b)) : (a \o b)[j] = IF j <= Len(a) THEN a[j] ELSE b[j - Len(a)]
    BY <1>2, <1>3, ConcatProperties
  <2>3. QED
    BY <2>1, <2>2, <1>2, <1>4
<1>6. DOMAIN r = 1..(Len(q) - 1)
  BY <1>5, LenProperties
<1>7. \A j \in 1..(Len(q) - 1) : r[j] = IF j < i THEN q[j] ELSE q[j + 1]
  <2> SUFFICES ASSUME NEW j \in 1..(Len(q) - 1) PROVE r[j] = IF j < i THEN q[j] ELSE q[j + 1]
    OBVIOUS
  <2>1. CASE j < i
    <3>1. j \in 1..(i - 1) /\ j <= i - 1 /\ j \in 1..Len(r)
      BY <2>1, <1>1, <1>5
    <3>2. QED
      BY <3>1, <2>1, <1>2, <1>5
  <2>2. CASE ~(j < i)
    <3>1. /\ j - (i - 1) \in 1..(Len(q) - i) /\ ~(j <= i - 1) /\ j \in 1..Len(r)
          /\ i + (j - (i - 1)) = j + 1
      BY <2>2, <1>1, <1>5
    <3>2. QED
      BY <3>1, <2>2, <1>3, <1>5
  <2>3. QED
    BY <2>1, <2>2
<1>8. \A x : x \in ToSet(r) => x \in ToSet(q)
  <2>1. \A j \in 1..(Len(q) - 1) : j \in 1..Len(q) /\ j + 1 \in 1..Len(q)
    BY <1>1
  <2>2. QED
    BY <2>1, <1>1, <1>6, <1>7 DEF ToSet
<1>9. \A j \in 1..Len(q) : j = i \/ \E k \in 1..(Len(q) - 1) : q[j] = r[k]
  <2> SUFFICES ASSUME NEW j \in 1..Len(q), j # i PROVE \E k \in 1..(Len(q) - 1) : q[j] = r[k]
    OBVIOUS
  <2>1. CASE j < i
    <3>1. j \in 1..(Len(q) - 1)
      BY <2>1, <1>1
    <3>2. QED
      BY <3>1, <2>1, <1>7
  <2>2. CASE j > i
    <3>1. j - 1 \in 1..(Len(q) - 1) /\ ~(j - 1 < i) /\ (j - 1) + 1 = j
      BY <2>2, <1>1
    <3>2. QED
      BY <3>1, <1>7
  <2>3. QED
    BY <2>1, <2>2, <1>1
<1>10. \A x : x \in ToSet(q) => x \in ToSet(r) \/ x = q[i]
  BY <1>1, <1>6, <1>9 DEF ToSet
<1>11. q[i] \in ToSet(q)
  BY DEF ToSet
<1>12. QED
  BY <1>1, <1>5, <1>7, <1>8, <1>10, <1>11 DEF r, Without

(* The first event is taken.                                               *)
LEMMA TailNews ==
  ASSUME NEW q \in Seq(Event), q # <<>>
  PROVE  /\ Head(q) \in Event /\ Tail(q) \in Seq(Event)
         /\ ToSet(Tail(q)) \subseteq ToSet(q)
         /\ \A ev \in ToSet(q) : ev \in ToSet(Tail(q)) \/ ev = Head(q)
         /\ 1 \in DOMAIN q /\ Head(q) = q[1] /\ Without(q, 1, Tail(q))
<1>1. /\ Tail(q) \in Seq(Event) /\ Head(q) = q[1] /\ Len(q) \in Nat \ {0} /\ Len(Tail(q)) = Len(q) - 1
      /\ \A i \in 1..Len(Tail(q)) : Tail(q)[i] = q[i + 1]
  BY HeadTailProperties, EmptySeq, LenProperties
<1>2. DOMAIN q = 1..Len(q) /\ DOMAIN Tail(q) = 1..(Len(q) - 1) /\ q[1] \in Event
  BY <1>1, LenProperties, ElementOfSeq
<1>3. \A i \in 1..(Len(q) - 1) : Tail(q)[i] = q[i + 1] /\ i + 1 \in 1..Len(q)
  BY <1>1
<1>4. \A i \in 1..Len(q) : i = 1 \/ (i - 1 \in 1..(Len(q) - 1) /\ (i - 1) + 1 = i)
  BY <1>1
<1>5. ToSet(Tail(q)) \subseteq ToSet(q)
  BY <1>2, <1>3 DEF ToSet
<1>6. \A i \in 1..Len(q) : q[i] = q[1] \/ \E k \in 1..(Len(q) - 1) : q[i] = Tail(q)[k]
  BY <1>3, <1>4
<1>7. \A ev \in ToSet(q) : ev \in ToSet(Tail(q)) \/ ev = Head(q)
  <2> SUFFICES ASSUME NEW i \in 1..Len(q)
               PROVE q[i] = q[1] \/ \E k \in DOMAIN Tail(q) : q[i] = Tail(q)[k]
    BY <1>1, <1>2 DEF ToSet
  <2>1. QED
    BY <1>2, <1>6
<1>8. Without(q, 1, Tail(q))
  <2>1. \A j \in 1..(Len(q) - 1) : ~(j < 1) /\ j \in 1..Len(Tail(q))
    BY <1>1
  <2>2. QED
    BY <1>1, <2>1 DEF Without
<1>9. 1 \in DOMAIN q
  BY <1>1, <1>2
<1>10. QED
  BY <1>1, <1>2, <1>5, <1>7, <1>8, <1>9

(* News, and requests to others, leave the order as it is.                 *)
LEMMA AppendFollowed ==
  ASSUME NEW q \in Seq(Event), NEW e \in Event, NEW o, NEW t,
         e.type = "clear" \/ e.window # o, Followed(q, o, t)
  PROVE  Followed(Append(q, e), o, t)
<1>1. /\ Append(q, e) \in Seq(Event) /\ Len(Append(q, e)) = Len(q) + 1 /\ Len(q) \in Nat
      /\ \A i \in 1..Len(q) : Append(q, e)[i] = q[i]
      /\ Append(q, e)[Len(q) + 1] = e
  BY AppendProperties, LenProperties
<1>2. DOMAIN q = 1..Len(q) /\ DOMAIN Append(q, e) = 1..(Len(q) + 1)
  BY <1>1, LenProperties
<1> SUFFICES ASSUME NEW i \in 1..(Len(q) + 1),
                    Append(q, e)[i].type = "request", Append(q, e)[i].window = o
             PROVE  \E j \in 1..(Len(q) + 1) :
                      /\ i < j /\ Append(q, e)[j].type = "clear"
                      /\ Append(q, e)[j].window = o /\ t <= Append(q, e)[j].time
  BY <1>2 DEF Followed
<1>3. i \in 1..Len(q)
  <2>1. i # Len(q) + 1
    BY <1>1
  <2>2. QED
    BY <1>1, <2>1
<1>4. PICK j \in 1..Len(q) : i < j /\ q[j].type = "clear" /\ q[j].window = o /\ t <= q[j].time
  BY <1>1, <1>2, <1>3 DEF Followed
<1>5. j \in 1..(Len(q) + 1)
  BY <1>1
<1>6. QED
  BY <1>1, <1>4, <1>5

(* The news comes last.                                                    *)
LEMMA ClearFollows ==
  ASSUME NEW q \in Seq(Event), NEW o \in Owners, NEW s \in Times, NEW t, t <= s
  PROVE  Followed(Append(q, Clear(o, s)), o, t)
<1> DEFINE e == Clear(o, s)
<1>0. e \in Event /\ e.type = "clear" /\ e.window = o /\ e.time = s
  BY DEF Clear, Event
<1> HIDE DEF e
<1>1. /\ Len(Append(q, e)) = Len(q) + 1 /\ Len(q) \in Nat
      /\ \A i \in 1..Len(q) : Append(q, e)[i] = q[i]
      /\ Append(q, e)[Len(q) + 1] = e /\ Append(q, e) \in Seq(Event)
  BY <1>0, AppendProperties, LenProperties
<1>2. DOMAIN Append(q, e) = 1..(Len(q) + 1)
  BY <1>1, LenProperties
<1> SUFFICES ASSUME NEW i \in 1..(Len(q) + 1),
                    Append(q, e)[i].type = "request"
             PROVE  i < Len(q) + 1
  <2>1. Len(q) + 1 \in 1..(Len(q) + 1)
    BY <1>1
  <2>2. QED
    BY <1>0, <1>1, <1>2, <2>1 DEF Followed, e
<1>3. i # Len(q) + 1
  BY <1>0, <1>1
<1>4. QED
  BY <1>1, <1>3

(* The order is kept when an event is taken out, but the news from behind  *)
(* a request.                                                              *)
LEMMA RemoveFollowed ==
  ASSUME NEW q \in Seq(Event), NEW i \in DOMAIN q, NEW r \in Seq(Event), Without(q, i, r),
         NEW o, NEW t, Followed(q, o, t),
         i = 1 \/ ~(q[i].type = "clear" /\ q[i].window = o /\ t <= q[i].time)
  PROVE  Followed(r, o, t)
<1>1. /\ Len(q) \in Nat /\ DOMAIN q = 1..Len(q) /\ DOMAIN r = 1..(Len(q) - 1) /\ i \in 1..Len(q)
      /\ \A j \in 1..(Len(q) - 1) : r[j] = IF j < i THEN q[j] ELSE q[j + 1]
  BY LenProperties DEF Without
<1> SUFFICES ASSUME NEW k \in 1..(Len(q) - 1), r[k].type = "request", r[k].window = o
             PROVE  \E j \in 1..(Len(q) - 1) :
                      k < j /\ r[j].type = "clear" /\ r[j].window = o /\ t <= r[j].time
  BY <1>1 DEF Followed
<1> DEFINE m == IF k < i THEN k ELSE k + 1
<1>2. m \in 1..Len(q) /\ r[k] = q[m]
  BY <1>1
<1>3. PICK j \in 1..Len(q) : m < j /\ q[j].type = "clear" /\ q[j].window = o /\ t <= q[j].time
  BY <1>1, <1>2 DEF Followed
<1>4. j # i
  <2>1. CASE i = 1
    BY <1>1, <1>2, <1>3, <2>1
  <2>2. CASE ~(q[i].type = "clear" /\ q[i].window = o /\ t <= q[i].time)
    BY <1>3, <2>2
  <2>3. QED
    BY <2>1, <2>2
<1>5. CASE j < i
  <2>1. j \in 1..(Len(q) - 1) /\ k < j
    BY <1>1, <1>3, <1>5
  <2>2. r[j] = q[j]
    BY <1>1, <1>5, <2>1
  <2>3. QED
    BY <1>3, <2>1, <2>2
<1>6. CASE i < j
  <2>1. j - 1 \in 1..(Len(q) - 1) /\ k < j - 1 /\ ~(j - 1 < i) /\ (j - 1) + 1 = j
    BY <1>1, <1>3, <1>6
  <2>2. r[j - 1] = q[j]
    BY <1>1, <2>1
  <2>3. QED
    BY <1>3, <2>1, <2>2
<1>7. QED
  BY <1>1, <1>4, <1>5, <1>6

(* Queues from which the first event was taken, a request, or none.        *)
Less(boxes) ==
  /\ boxes \in [Processes -> Seq(Event)]
  /\ \A p \in Processes :
       \/ boxes[p] = inbox[p]
       \/ inbox[p] # <<>> /\ Head(inbox[p]).type = "request" /\ boxes[p] = Tail(inbox[p])

LEMMA LessNews ==
  ASSUME TypeOK, NEW boxes, Less(boxes), NEW p \in Processes
  PROVE  /\ boxes[p] \in Seq(Event) /\ ToSet(boxes[p]) \subseteq News(p)
         /\ \A ev \in News(p) : ev.type = "clear" => ev \in ToSet(boxes[p])
         /\ \A o, t : Followed(inbox[p], o, t) => Followed(boxes[p], o, t)
<1>1. inbox[p] \in Seq(Event) /\ News(p) = ToSet(inbox[p]) /\ boxes[p] \in Seq(Event)
  BY DEF TypeOK, News, Less
<1>2. CASE boxes[p] = inbox[p]
  BY <1>1, <1>2
<1>3. CASE inbox[p] # <<>> /\ Head(inbox[p]).type = "request" /\ boxes[p] = Tail(inbox[p])
  <2>1. /\ ToSet(Tail(inbox[p])) \subseteq ToSet(inbox[p])
        /\ \A ev \in ToSet(inbox[p]) : ev \in ToSet(Tail(inbox[p])) \/ ev = Head(inbox[p])
        /\ 1 \in DOMAIN inbox[p] /\ Without(inbox[p], 1, Tail(inbox[p]))
    BY <1>1, <1>3, TailNews
  <2>2. ASSUME NEW o, NEW t, Followed(inbox[p], o, t) PROVE Followed(boxes[p], o, t)
    BY <1>1, <1>3, <2>1, <2>2, RemoveFollowed
  <2>3. QED
    BY <1>1, <1>3, <2>1, <2>2
<1>4. QED
  BY <1>2, <1>3 DEF Less

LEMMA LessNothing == ASSUME TypeOK PROVE Less(inbox)
BY DEF TypeOK, Less

(* What the server sends when somebody sets the owner.                     *)
LEMMA ToldNews ==
  ASSUME OwnersAssumption,
         NEW boxes \in [Processes -> Seq(Event)],
         NEW srv \in [owner : Owners \cup {NoOwner}, time : Times],
         NEW o \in Owners \cup {NoOwner}, NEW t \in Times
  PROVE  /\ Told(boxes, srv, o, t) \in [Processes -> Seq(Event)]
         /\ \A p \in Processes :
              /\ ToSet(boxes[p]) \subseteq ToSet(Told(boxes, srv, o, t)[p])
              /\ \A ev \in ToSet(Told(boxes, srv, o, t)[p]) :
                   \/ ev \in ToSet(boxes[p])
                   \/ /\ srv.owner # NoOwner /\ p = ProcessOf[srv.owner]
                      /\ ev = Clear(srv.owner, t) /\ srv.time <= t
         /\ srv.time <= t /\ srv.owner # NoOwner
              /\ (o = NoOwner \/ ProcessOf[o] # ProcessOf[srv.owner])
              => Clear(srv.owner, t) \in ToSet(Told(boxes, srv, o, t)[ProcessOf[srv.owner]])
<1> DEFINE T == Told(boxes, srv, o, t)
           q == ProcessOf[srv.owner]
<1>0. srv.time \in Nat /\ t \in Nat
  BY DEF Times, OwnersAssumption
<1>1. CASE t < srv.time \/ srv.owner = NoOwner \/ (o # NoOwner /\ ProcessOf[o] = ProcessOf[srv.owner])
  <2>1. T = boxes
    BY <1>1 DEF Told
  <2> HIDE DEF T
  <2>2. /\ T \in [Processes -> Seq(Event)]
        /\ \A p \in Processes : ToSet(boxes[p]) = ToSet(T[p]) /\ T[p] = boxes[p]
    BY <2>1
  <2>3. ~(srv.time <= t /\ srv.owner # NoOwner /\ (o = NoOwner \/ ProcessOf[o] # ProcessOf[srv.owner]))
    BY <1>1, <1>0
  <2>4. QED
    BY <2>2, <2>3 DEF T
<1>2. CASE ~(t < srv.time \/ srv.owner = NoOwner \/ (o # NoOwner /\ ProcessOf[o] = ProcessOf[srv.owner]))
  <2>1. T = [boxes EXCEPT ![q] = Append(@, Clear(srv.owner, t))]
    BY <1>2 DEF Told, Clear
  <2>2. q \in Processes /\ Clear(srv.owner, t) \in Event /\ boxes[q] \in Seq(Event)
    BY <1>2 DEF OwnersAssumption, Event, Clear
  <2>3. /\ Append(boxes[q], Clear(srv.owner, t)) \in Seq(Event)
        /\ ToSet(Append(boxes[q], Clear(srv.owner, t))) = ToSet(boxes[q]) \cup {Clear(srv.owner, t)}
    BY <2>2, AppendNews
  <2>4. /\ T[q] = Append(boxes[q], Clear(srv.owner, t))
        /\ \A p \in Processes : p # q => T[p] = boxes[p]
        /\ T \in [Processes -> Seq(Event)]
    BY <2>1, <2>2, <2>3
  <2> HIDE DEF T, q
  <2>5. ASSUME NEW p \in Processes
        PROVE  /\ ToSet(boxes[p]) \subseteq ToSet(T[p])
               /\ \A ev \in ToSet(T[p]) : ev \in ToSet(boxes[p]) \/ (p = q /\ ev = Clear(srv.owner, t))
    BY <2>3, <2>4
  <2>6. Clear(srv.owner, t) \in ToSet(T[q])
    BY <2>3, <2>4
  <2>7. srv.owner # NoOwner /\ srv.time <= t
    BY <1>2, <1>0
  <2>8. QED
    BY <2>4, <2>5, <2>6, <2>7 DEF T, q
<1>3. QED
  BY <1>1, <1>2

(* What SetSelectionOwner makes of the server.                             *)
LEMMA ServerTypes ==
  ASSUME OwnersAssumption,
         NEW srv \in [owner : Owners \cup {NoOwner}, time : Times],
         NEW o \in Owners \cup {NoOwner}, NEW t \in Times
  PROVE  /\ SetOwner(srv, o, t) \in [owner : Owners \cup {NoOwner}, time : Times]
         /\ srv.time <= t => SetOwner(srv, o, t) = [owner |-> o, time |-> t]
         /\ t < srv.time => SetOwner(srv, o, t) = srv
         /\ srv.time <= SetOwner(srv, o, t).time
<1>1. srv.time \in Nat /\ t \in Nat
  BY DEF Times, OwnersAssumption
<1>2. QED
  BY <1>1 DEF SetOwner

(* All that a request to set the owner does.                               *)
LEMMA Setting ==
  ASSUME OwnersAssumption, TypeOK, NEW boxes, Less(boxes),
         NEW o \in Owners \cup {NoOwner}, NEW t \in Times,
         server' = SetOwner(server, o, t), inbox' = Told(boxes, server, o, t)
  PROVE  /\ server' \in [owner : Owners \cup {NoOwner}, time : Times]
         /\ inbox' \in [Processes -> Seq(Event)]
         /\ server.time <= server'.time
         /\ \/ server.time <= t /\ server' = [owner |-> o, time |-> t]
            \/ t < server.time /\ server' = server
         /\ \A p \in Processes :
              /\ \A ev \in News(p) : ev.type = "clear" => ev \in News(p)'
              /\ \A ev \in News(p)' :
                   \/ ev \in News(p)
                   \/ /\ server.owner # NoOwner /\ p = ProcessOf[server.owner]
                      /\ ev = Clear(server.owner, t) /\ server.time <= t
         /\ \A p \in Processes :
              server.time <= t /\ server.owner # NoOwner /\ p = ProcessOf[server.owner]
                /\ (o = NoOwner \/ ProcessOf[o] # p)
              => /\ Clear(server.owner, t) \in News(p)'
                 /\ inbox'[p] = Append(boxes[p], Clear(server.owner, t))
         /\ \A p \in Processes :
              \/ inbox'[p] = boxes[p]
              \/ /\ server.owner # NoOwner /\ p = ProcessOf[server.owner]
                 /\ inbox'[p] = Append(boxes[p], Clear(server.owner, t))
<1>1. server \in [owner : Owners \cup {NoOwner}, time : Times] /\ boxes \in [Processes -> Seq(Event)]
  BY DEF TypeOK, Less
<1>2. server.time \in Nat /\ t \in Nat
  BY <1>1 DEF Times, OwnersAssumption
<1>3. /\ server' \in [owner : Owners \cup {NoOwner}, time : Times]
      /\ server.time <= server'.time
      /\ \/ server.time <= t /\ server' = [owner |-> o, time |-> t]
         \/ t < server.time /\ server' = server
  <2>1. /\ SetOwner(server, o, t) \in [owner : Owners \cup {NoOwner}, time : Times]
        /\ server.time <= t => SetOwner(server, o, t) = [owner |-> o, time |-> t]
        /\ t < server.time => SetOwner(server, o, t) = server
        /\ server.time <= SetOwner(server, o, t).time
    BY <1>1, ServerTypes
  <2>2. server.time <= t \/ t < server.time
    BY <1>2
  <2>3. QED
    BY <2>1, <2>2
<1>4. \A p \in Processes : News(p)' = ToSet(inbox'[p])
  BY DEF News, ToSet
<1>5. /\ inbox' \in [Processes -> Seq(Event)]
      /\ \A p \in Processes :
           /\ ToSet(boxes[p]) \subseteq ToSet(inbox'[p])
           /\ \A ev \in ToSet(inbox'[p]) :
                \/ ev \in ToSet(boxes[p])
                \/ /\ server.owner # NoOwner /\ p = ProcessOf[server.owner]
                   /\ ev = Clear(server.owner, t) /\ server.time <= t
      /\ server.time <= t /\ server.owner # NoOwner
           /\ (o = NoOwner \/ ProcessOf[o] # ProcessOf[server.owner])
           => Clear(server.owner, t) \in ToSet(inbox'[ProcessOf[server.owner]])
      /\ \A p \in Processes :
           /\ \/ inbox'[p] = boxes[p]
              \/ /\ server.owner # NoOwner /\ p = ProcessOf[server.owner]
                 /\ inbox'[p] = Append(boxes[p], Clear(server.owner, t))
           /\ server.time <= t /\ server.owner # NoOwner /\ p = ProcessOf[server.owner]
                /\ (o = NoOwner \/ ProcessOf[o] # p)
                => inbox'[p] = Append(boxes[p], Clear(server.owner, t))
  <2>1. inbox' \in [Processes -> Seq(Event)]
    BY <1>1, ToldNews
  <2>2. \A p \in Processes :
          /\ ToSet(boxes[p]) \subseteq ToSet(inbox'[p])
          /\ \A ev \in ToSet(inbox'[p]) :
               \/ ev \in ToSet(boxes[p])
               \/ /\ server.owner # NoOwner /\ p = ProcessOf[server.owner]
                  /\ ev = Clear(server.owner, t) /\ server.time <= t
    BY <1>1, ToldNews
  <2>3. server.time <= t /\ server.owner # NoOwner
          /\ (o = NoOwner \/ ProcessOf[o] # ProcessOf[server.owner])
          => Clear(server.owner, t) \in ToSet(inbox'[ProcessOf[server.owner]])
    BY <1>1, ToldNews
  <2>4. ASSUME NEW p \in Processes
        PROVE  /\ \/ inbox'[p] = boxes[p]
                  \/ /\ server.owner # NoOwner /\ p = ProcessOf[server.owner]
                     /\ inbox'[p] = Append(boxes[p], Clear(server.owner, t))
               /\ server.time <= t /\ server.owner # NoOwner /\ p = ProcessOf[server.owner]
                    /\ (o = NoOwner \/ ProcessOf[o] # p)
                    => inbox'[p] = Append(boxes[p], Clear(server.owner, t))
    BY <1>1, <1>2 DEF Told, Clear
  <2>5. QED
    BY <2>1, <2>2, <2>3, <2>4
<1>6. server.owner # NoOwner => ProcessOf[server.owner] \in Processes
  BY <1>1 DEF OwnersAssumption
<1>7. \A p \in Processes : /\ ToSet(boxes[p]) \subseteq News(p)
                           /\ \A ev \in News(p) : ev.type = "clear" => ev \in ToSet(boxes[p])
  BY LessNews
<1>8. QED
  BY <1>3, <1>4, <1>5, <1>6, <1>7

(* An object that loses the selection to one that its process does not     *)
(* know of is told.                                                        *)
LEMMA StillTold ==
  ASSUME OwnersAssumption, TypeOK, NotAhead, NEW boxes, Less(boxes),
         NEW o \in Owners \cup {NoOwner}, NEW t \in Times,
         server' = SetOwner(server, o, t), inbox' = Told(boxes, server, o, t),
         NEW x \in Owners, OwnsOrHears(x),
         time'[x] = time[x], x \in losing => x \in losing',
         pc[ProcessOf[x]] = [at |-> "incr", o |-> x] /\ x \in losing
           => pc'[ProcessOf[x]] = [at |-> "incr", o |-> x],
         o = x \/ o = NoOwner \/ ProcessOf[o] # ProcessOf[x]
  PROVE  OwnsOrHears(x)'
<1> DEFINE p == ProcessOf[x]
<1>1. /\ \/ server.time <= t /\ server' = [owner |-> o, time |-> t]
         \/ t < server.time /\ server' = server
      /\ \A ev \in News(p) : ev.type = "clear" => ev \in News(p)'
      /\ server.time <= t /\ server.owner = x /\ o # x
           => Clear(x, t) \in News(p)' /\ inbox'[p] = Append(boxes[p], Clear(x, t))
      /\ inbox'[p] = boxes[p] \/ (/\ server.owner # NoOwner /\ p = ProcessOf[server.owner]
                                  /\ inbox'[p] = Append(boxes[p], Clear(server.owner, t)))
  <2>1. /\ \/ server.time <= t /\ server' = [owner |-> o, time |-> t]
           \/ t < server.time /\ server' = server
        /\ \A q \in Processes : \A ev \in News(q) : ev.type = "clear" => ev \in News(q)'
        /\ \A q \in Processes :
             server.time <= t /\ server.owner # NoOwner /\ q = ProcessOf[server.owner]
               /\ (o = NoOwner \/ ProcessOf[o] # q)
             => Clear(server.owner, t) \in News(q)' /\ inbox'[q] = Append(boxes[q], Clear(server.owner, t))
        /\ \A q \in Processes :
              \/ inbox'[q] = boxes[q]
              \/ /\ server.owner # NoOwner /\ q = ProcessOf[server.owner]
                 /\ inbox'[q] = Append(boxes[q], Clear(server.owner, t))
    BY Setting
  <2>2. ProcessOf[x] \in Processes /\ x # NoOwner
    BY DEF OwnersAssumption
  <2>3. QED
    BY <2>1, <2>2
<1>2. /\ time[x] \in Nat /\ server.time \in Nat /\ t \in Nat
      /\ server.owner = x => time[x] <= server.time
      /\ server.owner \in Owners \cup {NoOwner} /\ p \in Processes
  BY DEF TypeOK, Times, OwnersAssumption, NotAhead
<1>3. WillLearn(x) => x \in losing \/ \E ev \in News(p) :
                        ev.type = "clear" /\ ev.window = x /\ time[x] <= ev.time
  BY DEF WillLearn, News, ToSet
<1>4. (\E ev \in News(p)' : ev.type = "clear" /\ ev.window = x /\ time[x] <= ev.time)
        => WillLearn(x)'
  BY DEF WillLearn, News, ToSet
<1>5. /\ boxes[p] \in Seq(Event)
      /\ Followed(inbox[p], x, time[x]) => Followed(boxes[p], x, time[x])
  BY <1>2, LessNews
<1>6. server.owner # NoOwner => Clear(server.owner, t) \in Event
  BY <1>2 DEF Clear, Event
<1>7. CASE server.owner = x
  <2>1. CASE o = x \/ t < server.time
    BY <1>1, <1>7, <2>1, <1>2 DEF OwnsOrHears
  <2>2. CASE o # x /\ server.time <= t
    <3>1. WillLearn(x)'
      BY <1>1, <1>2, <1>4, <1>7, <2>2 DEF Clear
    <3>2. time[x] <= t
      BY <1>1, <1>2, <1>7, <2>2
    <3>3. Followed(inbox'[p], x, time[x])
      BY <1>1, <1>5, <1>7, <2>2, <3>2, ClearFollows
    <3>4. QED
      BY <3>1, <3>3 DEF OwnsOrHears, InTurn
  <2>3. QED
    BY <2>1, <2>2, <1>2
<1>8. CASE server.owner # x
  <2>1. WillLearn(x) /\ InTurn(x)
    BY <1>8 DEF OwnsOrHears
  <2>2. WillLearn(x)'
    <3>1. CASE x \in losing
      BY <3>1 DEF WillLearn
    <3>2. CASE \E ev \in News(p) : ev.type = "clear" /\ ev.window = x /\ time[x] <= ev.time
      BY <3>2, <1>1, <1>4
    <3>3. QED
      BY <1>3, <2>1, <3>1, <3>2
  <2>3. Followed(inbox[p], x, time[x]) => Followed(inbox'[p], x, time[x])
    <3>1. CASE inbox'[p] = boxes[p]
      BY <1>5, <3>1
    <3>2. CASE server.owner # NoOwner /\ inbox'[p] = Append(boxes[p], Clear(server.owner, t))
      <4>1. Clear(server.owner, t) \in Event /\ Clear(server.owner, t).type = "clear"
        BY <1>6, <3>2 DEF Clear
      <4>2. QED
        BY <1>5, <3>2, <4>1, AppendFollowed
    <3>3. QED
      BY <1>1, <3>1, <3>2
  <2>4. InTurn(x)'
    BY <2>1, <2>3 DEF InTurn
  <2>5. QED
    BY <2>2, <2>4 DEF OwnsOrHears
<1>9. QED
  BY <1>7, <1>8

-----------------------------------------------------------------------------
(* Types.                                                                  *)
(* An object that is not busy loses the selection.                         *)
LEMMA Lost ==
  ASSUME OwnersAssumption, TypeOK, NEW boxes, Less(boxes), NEW o \in Owners, Lose(o, boxes)
  PROVE  /\ time[o] \in Times
         /\ server' = SetOwner(server, NoOwner, time[o])
         /\ inbox' = Told(boxes, server, NoOwner, time[o])
         /\ server' \in [owner : Owners \cup {NoOwner}, time : Times]
         /\ inbox' \in [Processes -> Seq(Event)]
         /\ own' = [own EXCEPT ![o] = FALSE] /\ time' = [time EXCEPT ![o] = 0]
         /\ own' \in [Owners -> BOOLEAN] /\ time' \in [Owners -> Times]
         /\ ~own'[o] /\ time'[o] = 0
         /\ \A x \in Owners : own'[x] => own[x] /\ x # o
         /\ \A x \in Owners : x # o => own'[x] = own[x] /\ time'[x] = time[x]
<1>1. /\ server' = SetOwner(server, NoOwner, time[o])
      /\ inbox' = Told(boxes, server, NoOwner, time[o])
      /\ own' = [own EXCEPT ![o] = FALSE] /\ time' = [time EXCEPT ![o] = 0]
      /\ time[o] \in Times /\ 0 \in Times
  BY DEF Lose, TypeOK, Times, OwnersAssumption
<1>2. /\ server' \in [owner : Owners \cup {NoOwner}, time : Times]
      /\ inbox' \in [Processes -> Seq(Event)]
  BY <1>1, Setting
<1>3. QED
  BY <1>1, <1>2 DEF TypeOK

(* What is left of the queues when a request is taken.                     *)
LEMMA PoppedLess ==
  ASSUME TypeOK, NEW p \in Processes, inbox[p] # <<>>, Head(inbox[p]).type = "request"
  PROVE  Less(Popped(p)) /\ Head(inbox[p]).window \in Owners
<1>1. Tail(inbox[p]) \in Seq(Event) /\ Head(inbox[p]) \in Event
  BY TailNews DEF TypeOK
<1>2. /\ Popped(p) \in [Processes -> Seq(Event)] /\ Popped(p)[p] = Tail(inbox[p])
      /\ \A q \in Processes : q # p => Popped(p)[q] = inbox[q]
  BY <1>1 DEF Popped, TypeOK
<1>3. QED
  BY <1>1, <1>2 DEF Less, Event

(* Every step keeps the types.                                             *)
LEMMA TypeStep == ASSUME OwnersAssumption, TypeOK, [Next]_vars PROVE TypeOK'
<1> USE DEF objects
<1>0. Idle \in [at : {"idle"}, o : {NoOwner}] /\ 0 \in Times /\ Times \subseteq Nat
  BY DEF Idle, Times, OwnersAssumption
<1>l. Less(inbox)
  BY LessNothing
<1>1. ASSUME NEW o \in Owners, Disown(o) PROVE TypeOK'
  <2>1. CASE o \notin busy
    <3>1. Lose(o, inbox) /\ UNCHANGED losing
      BY <1>1, <2>1 DEF Disown, LoseOrMark
    <3>2. /\ server' \in [owner : Owners \cup {NoOwner}, time : Times]
          /\ inbox' \in [Processes -> Seq(Event)]
          /\ own' \in [Owners -> BOOLEAN] /\ time' \in [Owners -> Times]
      BY <1>l, <3>1, Lost
    <3>3. QED
      BY <1>1, <3>1, <3>2 DEF Disown, TypeOK, OwnersAssumption
  <2>2. CASE o \in busy
    BY <1>1, <2>2 DEF Disown, LoseOrMark, TypeOK, OwnersAssumption
  <2>3. QED
    BY <2>1, <2>2
<1>2. ASSUME NEW o \in Owners, NEW t \in Times, Acquire(o, t) PROVE TypeOK'
  <2>1. server' = SetOwner(server, o, t) /\ inbox' = Told(inbox, server, o, t)
    BY <1>2 DEF Acquire
  <2>2. server' \in [owner : Owners \cup {NoOwner}, time : Times] /\ inbox' \in [Processes -> Seq(Event)]
    BY <2>1, <1>l, Setting
  <2> DEFINE p == ProcessOf[o]
  <2>3. p \in Processes /\ [at |-> "check", o |-> o] \in [at : Waiting, o : Owners]
    BY DEF OwnersAssumption, Waiting
  <2>4. /\ pc' = [pc EXCEPT ![p] = [at |-> "check", o |-> o]] /\ context' = [context EXCEPT ![p] = o]
        /\ seen' = [seen EXCEPT ![p] = t] /\ time' = [time EXCEPT ![o] = t]
        /\ used' = used \cup {t} /\ busy' = busy \ {o} /\ losing' = losing \ {o} /\ rank' = rank \cup {o}
        /\ ops \in 0..MaxOps /\ ops < MaxOps /\ ops' = ops + 1
        /\ UNCHANGED <<now, own, alive, client, requesting>>
    BY <1>2 DEF Acquire, Calls, TypeOK
  <2> HIDE DEF p
  <2>5. ops' \in 0..MaxOps
    BY <2>4 DEF OwnersAssumption
  <2>6. QED
    BY <2>2, <2>3, <2>4, <2>5 DEF TypeOK
<1>3. ASSUME NEW o \in Owners, Confirmed(o) PROVE TypeOK'
  <2> DEFINE p == ProcessOf[o]
             other == client[p]
  <2>0. /\ p \in Processes /\ client' = [client EXCEPT ![p] = o] /\ pc' = [pc EXCEPT ![p] = Idle]
        /\ Register(p, o)
    BY <1>3 DEF Confirmed, OwnersAssumption
  <2>1. CASE other \in Owners \ {o} /\ own[other] /\ other \notin busy
    <3>1. /\ server' = SetOwner(server, NoOwner, time[other])
          /\ inbox' = Told(inbox, server, NoOwner, time[other]) /\ UNCHANGED losing
          /\ own' = [own EXCEPT ![o] = TRUE, ![other] = FALSE] /\ time' = [time EXCEPT ![other] = 0]
      BY <2>0, <2>1 DEF Register
    <3>2. time[other] \in Times
      BY <2>1 DEF TypeOK, OwnersAssumption
    <3>3. server' \in [owner : Owners \cup {NoOwner}, time : Times] /\ inbox' \in [Processes -> Seq(Event)]
      BY <1>l, <3>1, <3>2, Setting
    <3>4. own' \in [Owners -> BOOLEAN] /\ time' \in [Owners -> Times]
      BY <3>1, <1>0 DEF TypeOK
    <3>5. QED
      BY <1>3, <2>0, <3>1, <3>3, <3>4 DEF Confirmed, TypeOK
  <2>2. CASE ~(other \in Owners \ {o} /\ own[other] /\ other \notin busy)
    <3>1. /\ UNCHANGED <<server, inbox, time>> /\ own' = [own EXCEPT ![o] = TRUE]
          /\ losing' = losing \cup {x \in busy \ {o} : x = other /\ own[x]}
      BY <2>0, <2>2 DEF Register
    <3>2. losing' \subseteq Owners
      BY <3>1 DEF TypeOK
    <3>3. QED
      BY <1>3, <2>0, <3>1, <3>2 DEF Confirmed, TypeOK, OwnersAssumption
  <2>3. QED
    BY <2>1, <2>2
<1>4. ASSUME NEW o \in Owners, TooOld(o) PROVE TypeOK'
  BY <1>4 DEF TooOld, TypeOK, OwnersAssumption, Waiting
<1>5. ASSUME NEW o \in Owners, TryAgain(o) PROVE TypeOK'
  <2>1. /\ time[o] \in Times
        /\ server' = SetOwner(server, o, time[o]) /\ inbox' = Told(inbox, server, o, time[o])
    BY <1>5 DEF TryAgain, TypeOK
  <2>2. server' \in [owner : Owners \cup {NoOwner}, time : Times] /\ inbox' \in [Processes -> Seq(Event)]
    BY <2>1, <1>l, Setting
  <2>3. QED
    BY <1>5, <2>2 DEF TryAgain, TypeOK, OwnersAssumption, Waiting
<1>6. ASSUME NEW o \in Owners, Failed(o) PROVE TypeOK'
  BY <1>6 DEF Failed, TypeOK, OwnersAssumption
<1>7. ASSUME NEW o \in Owners, Destroy(o) PROVE TypeOK'
  <2>0. /\ context' \in [Processes -> Owners \cup {NoOwner}]
        /\ client' \in [Processes -> Owners \cup {NoOwner}]
        /\ alive' \subseteq Owners /\ ops' \in 0..MaxOps
        /\ UNCHANGED <<now, used, seen, pc, busy, rank, requesting>>
    BY <1>7 DEF Destroy, Calls, TypeOK, OwnersAssumption
  <2>1. CASE own[o] /\ o \notin busy
    <3>1. Lose(o, inbox) /\ UNCHANGED losing
      BY <1>7, <2>1 DEF Destroy, LoseOrMark
    <3>2. /\ server' \in [owner : Owners \cup {NoOwner}, time : Times]
          /\ inbox' \in [Processes -> Seq(Event)]
          /\ own' \in [Owners -> BOOLEAN] /\ time' \in [Owners -> Times]
      BY <1>l, <3>1, Lost
    <3>3. QED
      BY <2>0, <3>1, <3>2 DEF TypeOK
  <2>2. CASE ~(own[o] /\ o \notin busy)
    <3>1. losing' \in {losing, losing \cup {o}} /\ UNCHANGED <<server, inbox, own, time>>
      BY <1>7, <2>2 DEF Destroy, LoseOrMark
    <3>2. losing' \subseteq Owners
      BY <3>1 DEF TypeOK
    <3>3. QED
      BY <2>0, <3>1, <3>2 DEF TypeOK
  <2>3. QED
    BY <2>1, <2>2
<1>8. ASSUME NEW t \in Times, Ask(t) PROVE TypeOK'
  <2> DEFINE q == ProcessOf[server.owner]
             e == [type |-> "request", window |-> server.owner, time |-> t]
  <2>1. q \in Processes /\ e \in Event /\ inbox[q] \in Seq(Event)
    BY <1>8 DEF Ask, TypeOK, OwnersAssumption, Event
  <2>2. Append(inbox[q], e) \in Seq(Event)
    BY <2>1, AppendNews
  <2>3. inbox' = [inbox EXCEPT ![q] = Append(@, e)]
    BY <1>8 DEF Ask
  <2> HIDE DEF q, e
  <2>4. inbox' \in [Processes -> Seq(Event)]
    BY <2>1, <2>2, <2>3 DEF TypeOK
  <2>5. QED
    BY <1>8, <2>4 DEF Ask, TypeOK, OwnersAssumption
<1>9. ASSUME NEW p \in Processes, HandleRequest(p) PROVE TypeOK'
  <2>1. /\ Less(Popped(p)) /\ Popped(p) \in [Processes -> Seq(Event)]
        /\ Head(inbox[p]).window \in Owners
    BY <1>9, PoppedLess DEF HandleRequest, Less
  <2>2. /\ UNCHANGED <<now, used, rank, alive, context, client, requesting, ops>>
        /\ seen' \in [Processes -> Times]
    BY <1>9 DEF HandleRequest, TypeOK
  <2>3. CASE Refuse(p) /\ context[p] \in losing
    <3>1. PICK o \in Owners : o = context[p]
      BY <2>3 DEF TypeOK
    <3>2. Lose(o, Popped(p)) /\ busy' = busy \ {o} /\ losing' = losing \ {o} /\ UNCHANGED pc
      BY <2>3, <3>1 DEF Refuse
    <3>3. /\ server' \in [owner : Owners \cup {NoOwner}, time : Times]
          /\ inbox' \in [Processes -> Seq(Event)]
          /\ own' \in [Owners -> BOOLEAN] /\ time' \in [Owners -> Times]
      BY <2>1, <3>2, Lost
    <3>4. QED
      BY <2>2, <3>2, <3>3 DEF TypeOK
  <2>4. CASE Refuse(p) /\ context[p] \notin losing
    <3>1. inbox' = Popped(p) /\ UNCHANGED <<server, own, time, busy, losing, pc>>
      BY <2>4 DEF Refuse
    <3>2. QED
      BY <2>1, <2>2, <3>1 DEF TypeOK
  <2>5. CASE ~Refused(p, Head(inbox[p])) /\ Serve(p)
    <3>1. PICK o \in Owners : o = context[p]
      BY <2>1, <2>5 DEF Refused
    <3>2. /\ inbox' = Popped(p) /\ losing' = losing \ {o} /\ busy' \in {busy \ {o}, busy \cup {o}}
          /\ pc' \in {pc, [pc EXCEPT ![p] = [at |-> "incr", o |-> o]]}
          /\ UNCHANGED <<server, own, time>>
      BY <2>5, <3>1 DEF Serve
    <3>3. pc' \in [Processes -> {Idle} \cup [at : Waiting, o : Owners]]
      <4>1. [at |-> "incr", o |-> o] \in [at : Waiting, o : Owners]
        BY DEF Waiting
      <4>2. QED
        BY <3>2, <4>1 DEF TypeOK
    <3>4. losing' \subseteq Owners /\ busy' \subseteq Owners
      BY <3>2 DEF TypeOK
    <3>5. QED
      BY <2>1, <2>2, <3>2, <3>3, <3>4 DEF TypeOK
  <2>6. QED
    BY <1>9, <2>3, <2>4, <2>5 DEF HandleRequest
<1>10. ASSUME NEW p \in Processes, HandleClear(p) PROVE TypeOK'
  <2>1. PICK i \in DOMAIN inbox[p] :
          /\ inbox' = [inbox EXCEPT ![p] = RemoveAt(@, i)]
          /\ IF context[p] # NoOwner /\ Clears(context[p], inbox[p][i])
             THEN IF context[p] \in busy
                  THEN losing' = losing \cup {context[p]} /\ UNCHANGED <<own, time>>
                  ELSE /\ own' = [own EXCEPT ![context[p]] = FALSE] /\ time' = [time EXCEPT ![context[p]] = 0]
                       /\ UNCHANGED losing
             ELSE UNCHANGED <<own, time, losing>>
          /\ UNCHANGED <<server, now, used, seen, pc, busy, rank, alive, context, client, requesting, ops>>
    BY <1>10 DEF HandleClear
  <2>2. RemoveAt(inbox[p], i) \in Seq(Event)
    BY RemoveNews DEF TypeOK
  <2>3. inbox' \in [Processes -> Seq(Event)]
    BY <2>1, <2>2 DEF TypeOK
  <2>4. /\ own' \in [Owners -> BOOLEAN] /\ time' \in [Owners -> Times] /\ losing' \subseteq Owners
    <3>1. CASE context[p] # NoOwner /\ Clears(context[p], inbox[p][i])
      <4>1. PICK c \in Owners : c = context[p]
        BY <3>1 DEF TypeOK
      <4>2. \/ losing' = losing \cup {c} /\ UNCHANGED <<own, time>>
            \/ /\ own' = [own EXCEPT ![c] = FALSE] /\ time' = [time EXCEPT ![c] = 0]
               /\ UNCHANGED losing
        BY <2>1, <3>1, <4>1
      <4>3. own \in [Owners -> BOOLEAN] /\ time \in [Owners -> Times] /\ losing \subseteq Owners
        BY DEF TypeOK
      <4>4. CASE losing' = losing \cup {c} /\ UNCHANGED <<own, time>>
        BY <4>3, <4>4
      <4>5. CASE /\ own' = [own EXCEPT ![c] = FALSE] /\ time' = [time EXCEPT ![c] = 0]
                 /\ UNCHANGED losing
        BY <4>3, <4>5, <1>0
      <4>6. QED
        BY <4>2, <4>4, <4>5
    <3>2. CASE ~(context[p] # NoOwner /\ Clears(context[p], inbox[p][i]))
      BY <2>1, <3>2 DEF TypeOK
    <3>3. QED
      BY <3>1, <3>2
  <2>5. QED
    BY <2>1, <2>3, <2>4 DEF TypeOK
<1>11. ASSUME NEW o \in Owners, Served(o) PROVE TypeOK'
  <2>1. CASE o \in losing
    <3>1. Lose(o, inbox) /\ busy' = busy \ {o} /\ losing' = losing \ {o}
      BY <1>11, <2>1 DEF Served
    <3>2. /\ server' \in [owner : Owners \cup {NoOwner}, time : Times]
          /\ inbox' \in [Processes -> Seq(Event)]
          /\ own' \in [Owners -> BOOLEAN] /\ time' \in [Owners -> Times]
      BY <1>l, <3>1, Lost
    <3>3. QED
      BY <1>11, <3>1, <3>2 DEF Served, TypeOK, OwnersAssumption
  <2>2. CASE o \notin losing
    BY <1>11, <2>2 DEF Served, TypeOK, OwnersAssumption
  <2>3. QED
    BY <2>1, <2>2
<1>12. ASSUME NEW p \in Processes, PostRequest(p) PROVE TypeOK'
  BY <1>12 DEF PostRequest, Calls, TypeOK, OwnersAssumption
<1>13. ASSUME NEW p \in Processes, EndRequest(p) PROVE TypeOK'
  BY <1>13 DEF EndRequest, TypeOK, OwnersAssumption
<1>14. CASE Tick
  BY <1>14 DEF Tick, TypeOK, OwnersAssumption, Times
<1>15. CASE UNCHANGED vars
  BY <1>15 DEF vars, TypeOK
<1>16. QED
  BY <1>1, <1>2, <1>3, <1>4, <1>5, <1>6, <1>7, <1>8, <1>9, <1>10, <1>11, <1>12, <1>13, <1>14, <1>15
     DEF Next, Going, Handling

-----------------------------------------------------------------------------
(* Who believes he owns the selection owns it or will be told.             *)

(* The news for x is not lost, and stays behind the requests.              *)
LEMMA Stays ==
  ASSUME NEW x \in Owners, OwnsOrHears(x),
         server' = server, time'[x] = time[x], x \in losing => x \in losing',
         pc[ProcessOf[x]] = [at |-> "incr", o |-> x] /\ x \in losing
           => pc'[ProcessOf[x]] = [at |-> "incr", o |-> x],
         \/ inbox'[ProcessOf[x]] = inbox[ProcessOf[x]]
         \/ /\ \A ev \in ToSet(inbox[ProcessOf[x]]) :
                 ev.type = "clear" /\ ev.window = x /\ time[x] <= ev.time
                   => ev \in ToSet(inbox'[ProcessOf[x]])
            /\ Followed(inbox[ProcessOf[x]], x, time[x])
                 => Followed(inbox'[ProcessOf[x]], x, time[x])
  PROVE  OwnsOrHears(x)'
<1>1. WillLearn(x) => x \in losing \/ \E ev \in ToSet(inbox[ProcessOf[x]]) :
                        ev.type = "clear" /\ ev.window = x /\ time[x] <= ev.time
  BY DEF WillLearn, ToSet
<1>2. (\E ev \in ToSet(inbox'[ProcessOf[x]]) : ev.type = "clear" /\ ev.window = x /\ time[x] <= ev.time)
        => WillLearn(x)'
  BY DEF WillLearn, ToSet
<1>3. x \in losing' => WillLearn(x)'
  BY DEF WillLearn
<1>4. WillLearn(x) => WillLearn(x)'
  BY <1>1, <1>2, <1>3
<1>5. Followed(inbox[ProcessOf[x]], x, time[x])
        => Followed(inbox'[ProcessOf[x]], x, time[x])
  OBVIOUS
<1>6. InTurn(x) => InTurn(x)'
  BY <1>5 DEF InTurn
<1>7. QED
  BY <1>4, <1>6 DEF OwnsOrHears

(* An object gives the selection up, or is made to.                        *)
LEMMA Losing ==
  ASSUME OwnersAssumption, WInv, NEW boxes, Less(boxes), NEW o \in Owners,
         server' = SetOwner(server, NoOwner, time[o]), inbox' = Told(boxes, server, NoOwner, time[o]),
         own' \in [Owners -> BOOLEAN], time' = [time EXCEPT ![o] = 0], ~own'[o],
         \A x \in Owners : own'[x] => own[x] \/ x = server.owner,
         \A x \in Owners : x # o /\ x \in losing => x \in losing',
         \A x \in Owners : x # o /\ pc[ProcessOf[x]] = [at |-> "incr", o |-> x]
                             => pc'[ProcessOf[x]] = [at |-> "incr", o |-> x],
         \A q \in Processes : context'[q] \in {context[q], NoOwner}
  PROVE  NotAhead' /\ OwnsOrLearns'
<1>1. /\ TypeOK /\ NotAhead /\ OwnsOrLearns /\ time[o] \in Times
      /\ \A x \in Owners : ProcessOf[x] \in Processes /\ x # NoOwner /\ time[x] \in Nat
      /\ server.time \in Nat /\ 0 \in Nat
  BY DEF WInv, TypeOK, OwnersAssumption, Times
<1>2. /\ server.time <= server'.time /\ server'.time \in Nat
      /\ server'.owner # NoOwner => server' = server
  <2>1. /\ server' \in [owner : Owners \cup {NoOwner}, time : Times]
        /\ server.time <= server'.time
        /\ \/ server.time <= time[o] /\ server' = [owner |-> NoOwner, time |-> time[o]]
           \/ time[o] < server.time /\ server' = server
    BY <1>1, Setting
  <2>2. QED
    BY <2>1 DEF Times, OwnersAssumption
<1>3. \A x \in Owners : x # o => time'[x] = time[x]
  BY DEF WInv, TypeOK
<1>4. time'[o] = 0
  BY DEF WInv, TypeOK
<1>5. NotAhead'
  BY <1>1, <1>2, <1>3, <1>4 DEF NotAhead
<1>6. OwnsOrLearns'
  <2> SUFFICES ASSUME NEW x \in Owners, own'[x], context'[ProcessOf[x]] = x
               PROVE  OwnsOrHears(x)'
    BY DEF OwnsOrLearns
  <2>1. x # o /\ context[ProcessOf[x]] = x /\ time'[x] = time[x]
    BY <1>1, <1>3
  <2>2. OwnsOrHears(x)
    BY <2>1, <1>1 DEF OwnsOrLearns, OwnsOrHears
  <2>3. /\ x \in losing => x \in losing'
        /\ pc[ProcessOf[x]] = [at |-> "incr", o |-> x] => pc'[ProcessOf[x]] = [at |-> "incr", o |-> x]
    BY <2>1
  <2>4. QED
    BY <1>1, <2>1, <2>2, <2>3, StillTold
<1>7. QED
  BY <1>5, <1>6

(* A step that leaves the server, its messages and what is believed.       *)
LEMMA StaysAll ==
  ASSUME OwnersAssumption, WInv, UNCHANGED <<server, inbox, time>>, losing \subseteq losing',
         \A x \in Owners : own'[x] /\ context'[ProcessOf[x]] = x
            => \/ server.owner = x
               \/ /\ own[x] /\ context[ProcessOf[x]] = x
                  /\ pc[ProcessOf[x]] = [at |-> "incr", o |-> x]
                       => pc'[ProcessOf[x]] = [at |-> "incr", o |-> x]
  PROVE  NotAhead' /\ OwnsOrLearns'
<1>1. OwnsOrLearns /\ NotAhead
  BY DEF WInv
<1>2. ASSUME NEW x \in Owners, own'[x], context'[ProcessOf[x]] = x
      PROVE  OwnsOrHears(x)'
  <2>1. CASE server.owner = x
    BY <2>1 DEF OwnsOrHears
  <2>2. CASE server.owner # x
    <3>1. own[x] /\ context[ProcessOf[x]] = x
      BY <1>2, <2>2
    <3>2. pc[ProcessOf[x]] = [at |-> "incr", o |-> x] => pc'[ProcessOf[x]] = [at |-> "incr", o |-> x]
      BY <1>2, <2>2
    <3>3. OwnsOrHears(x)
      BY <1>1, <3>1 DEF OwnsOrLearns
    <3>4. QED
      BY <3>2, <3>3, Stays
  <2>3. QED
    BY <2>1, <2>2
<1>3. OwnsOrLearns'
  BY <1>2 DEF OwnsOrLearns
<1>4. NotAhead'
  BY <1>1 DEF NotAhead
<1>5. QED
  BY <1>3, <1>4

(* Every step keeps the invariant that needs nothing of the times.         *)
LEMMA WStep == ASSUME OwnersAssumption, WInv, [Next]_vars PROVE WInv'
<1> USE DEF objects
<1>0. /\ TypeOK /\ AskingIsFound /\ MarkedIsBusy /\ Registered /\ OfTheProcess /\ DiesBusy
      /\ NotAhead /\ OwnsOrLearns /\ FindsNoOther
      /\ \A o \in Owners : ProcessOf[o] \in Processes /\ o # NoOwner /\ time[o] \in Nat
      /\ server.time \in Nat /\ Idle = [at |-> "idle", o |-> NoOwner]
      /\ losing \subseteq Owners /\ busy \subseteq Owners
      /\ WInv /\ Less(inbox)
  <2>1. TypeOK
    BY DEF WInv
  <2>2. Less(inbox)
    BY <2>1, LessNothing
  <2>3. /\ \A o \in Owners : ProcessOf[o] \in Processes /\ o # NoOwner /\ time[o] \in Nat
        /\ server.time \in Nat /\ losing \subseteq Owners /\ busy \subseteq Owners
    BY <2>1 DEF TypeOK, OwnersAssumption, Times
  <2>4. QED
    BY <2>1, <2>2, <2>3 DEF WInv, Idle
<1>t. TypeOK'
  BY <1>0, TypeStep
<1>i. \A q \in Processes : \A x \in Owners : pc[q] = [at |-> "incr", o |-> x] => context[q] = x
  BY <1>0 DEF AskingIsFound
<1>1. ASSUME NEW o \in Owners, Disown(o) PROVE WInv'
  <2>1. /\ UNCHANGED <<pc, context, client, busy, alive, rank>> /\ own[o]
        /\ pc[ProcessOf[o]] = Idle \/ pc[ProcessOf[o]] = [at |-> "incr", o |-> o]
    BY <1>1 DEF Disown
  <2>2. /\ \A x \in Owners : own'[x] => own[x]
        /\ losing' \subseteq busy /\ NotAhead' /\ OwnsOrLearns'
    <3>1. CASE o \notin busy
      <4>1. Lose(o, inbox) /\ UNCHANGED losing
        BY <1>1, <3>1 DEF Disown, LoseOrMark
      <4>2. /\ server' = SetOwner(server, NoOwner, time[o]) /\ inbox' = Told(inbox, server, NoOwner, time[o])
            /\ own' \in [Owners -> BOOLEAN] /\ time' = [time EXCEPT ![o] = 0] /\ ~own'[o]
            /\ \A x \in Owners : own'[x] => own[x]
        BY <1>0, <4>1, Lost
      <4>3. NotAhead' /\ OwnsOrLearns'
        BY <1>0, <2>1, <4>1, <4>2, Losing
      <4>4. QED
        BY <1>0, <4>1, <4>2, <4>3 DEF MarkedIsBusy
    <3>2. CASE o \in busy
      <4>1. losing' = losing \cup {o} /\ UNCHANGED <<server, inbox, own, time>>
        BY <1>1, <3>2 DEF Disown, LoseOrMark
      <4>2. NotAhead' /\ OwnsOrLearns'
        BY <1>0, <2>1, <4>1, StaysAll
      <4>3. QED
        BY <1>0, <3>2, <4>1, <4>2 DEF MarkedIsBusy
    <3>3. QED
      BY <3>1, <3>2
  <2>10. AskingIsFound'
    BY <1>0, <2>1, <2>2 DEF AskingIsFound, TypeOK, Inquiring, Waiting
  <2>11. MarkedIsBusy' /\ Registered' /\ OfTheProcess' /\ DiesBusy'
    BY <1>0, <2>1, <2>2 DEF MarkedIsBusy, Registered, OfTheProcess, DiesBusy
  <2>12. FindsNoOther'
    BY <1>0, <2>1, <2>2 DEF FindsNoOther, Stuck
  <2>13. QED
    BY <1>t, <2>2, <2>10, <2>11, <2>12 DEF WInv
<1>2. ASSUME NEW o \in Owners, NEW t \in Times, Acquire(o, t) PROVE WInv'
  <2> DEFINE p == ProcessOf[o]
  <2>1. /\ p \in Processes /\ ~own[o] /\ pc[p] = Idle /\ pc' = [pc EXCEPT ![p] = [at |-> "check", o |-> o]]
        /\ context' = [context EXCEPT ![p] = o] /\ time' = [time EXCEPT ![o] = t]
        /\ busy' = busy \ {o} /\ losing' = losing \ {o} /\ UNCHANGED <<own, client, alive>>
        /\ o \in alive /\ rank' = rank \cup {o}
        /\ server' = SetOwner(server, o, t) /\ inbox' = Told(inbox, server, o, t)
    BY <1>0, <1>2 DEF Acquire, Calls
  <2>2. /\ \A q \in Processes : q # p => pc'[q] = pc[q] /\ context'[q] = context[q]
        /\ pc'[p] = [at |-> "check", o |-> o] /\ context'[p] = o
        /\ \A x \in Owners : x # o => time'[x] = time[x]
        /\ time'[o] = t /\ t \in Nat
    BY <1>0, <2>1 DEF TypeOK, Times, OwnersAssumption
  <2>3. \/ server.time <= t /\ server' = [owner |-> o, time |-> t]
        \/ t < server.time /\ server' = server
    BY <1>0, <2>1, Setting
  <2> HIDE DEF p
  <2>10. AskingIsFound'
    BY <1>0, <2>1, <2>2 DEF AskingIsFound, p
  <2>11. MarkedIsBusy' /\ DiesBusy'
    BY <1>0, <2>1 DEF MarkedIsBusy, DiesBusy
  <2>12. Registered'
    BY <1>0, <2>1, <2>2 DEF Registered
  <2>13. OfTheProcess'
    BY <1>0, <2>1, <2>2 DEF OfTheProcess, p
  <2>14. NotAhead'
    BY <1>0, <2>1, <2>2, <2>3 DEF NotAhead
  <2>15. OwnsOrLearns'
    <3> SUFFICES ASSUME NEW x \in Owners, own'[x], context'[ProcessOf[x]] = x
                 PROVE  OwnsOrHears(x)'
      BY DEF OwnsOrLearns
    <3>1. x # o /\ ProcessOf[x] # p /\ context[ProcessOf[x]] = x
      BY <1>0, <2>1, <2>2
    <3>2. OwnsOrHears(x)
      BY <1>0, <2>1, <3>1 DEF OwnsOrLearns
    <3>3. /\ time'[x] = time[x] /\ (x \in losing => x \in losing') /\ pc'[ProcessOf[x]] = pc[ProcessOf[x]]
          /\ ProcessOf[o] # ProcessOf[x]
      BY <1>0, <2>1, <2>2, <3>1 DEF p
    <3>4. QED
      BY <1>0, <2>1, <3>2, <3>3, StillTold
  <2>16. FindsNoOther'
    <3> SUFFICES ASSUME NEW x \in Owners, own'[x], ~Stuck(x)', pc'[ProcessOf[x]].at \in {"idle", "incr"}
                 PROVE  context'[ProcessOf[x]] \in {x, NoOwner}
      BY DEF FindsNoOther
    <3>1. ProcessOf[x] # p /\ x # o
      BY <1>0, <2>1, <2>2
    <3>2. ~Stuck(x) /\ pc[ProcessOf[x]].at \in {"idle", "incr"} /\ own[x]
      BY <1>0, <2>1, <2>2, <3>1 DEF Stuck
    <3>3. QED
      BY <1>0, <2>2, <3>1, <3>2 DEF FindsNoOther
  <2>17. QED
    BY <1>t, <2>10, <2>11, <2>12, <2>13, <2>14, <2>15, <2>16 DEF WInv
<1>3. ASSUME NEW o \in Owners, Confirmed(o) PROVE WInv'
  <2> DEFINE p == ProcessOf[o]
             other == client[p]
  <2>1. /\ p \in Processes /\ pc[p].o = o /\ pc[p].at \in {"check", "recheck"} /\ server.owner = o
        /\ Register(p, o) /\ client' = [client EXCEPT ![p] = o] /\ pc' = [pc EXCEPT ![p] = Idle]
        /\ UNCHANGED <<busy, alive, rank, context>>
    BY <1>0, <1>3 DEF Confirmed
  <2>2. /\ pc'[p] = Idle /\ client'[p] = o /\ context[p] = o
        /\ \A q \in Processes : q # p => pc'[q] = pc[q] /\ client'[q] = client[q]
        /\ o \in alive
    BY <1>0, <2>1 DEF TypeOK, AskingIsFound, Inquiring, OfTheProcess
  <2>p. \A x \in Owners : pc[ProcessOf[x]] = [at |-> "incr", o |-> x]
                            => pc'[ProcessOf[x]] = [at |-> "incr", o |-> x]
    <3> SUFFICES ASSUME NEW x \in Owners, pc[ProcessOf[x]] = [at |-> "incr", o |-> x]
                 PROVE  ProcessOf[x] # p
      BY <1>0, <2>2
    <3>1. pc[ProcessOf[x]].at = "incr"
      OBVIOUS
    <3>2. QED
      BY <2>1, <3>1
  <2>3. ASSUME other \in Owners \ {o} /\ own[other] /\ other \notin busy
        PROVE  /\ NotAhead' /\ OwnsOrLearns' /\ ~own'[other] /\ losing' \subseteq busy
               /\ \A x \in Owners : own'[x] => own[x] \/ x = o
    <3>1. PICK y \in Owners : y = other
      BY <2>3
    <3>2. /\ server' = SetOwner(server, NoOwner, time[y]) /\ inbox' = Told(inbox, server, NoOwner, time[y])
          /\ own' = [own EXCEPT ![o] = TRUE, ![y] = FALSE] /\ time' = [time EXCEPT ![y] = 0]
          /\ UNCHANGED losing
      BY <2>1, <2>3, <3>1 DEF Register
    <3>3. own' \in [Owners -> BOOLEAN] /\ ~own'[y] /\ \A x \in Owners : own'[x] => own[x] \/ x = o
      BY <3>2, <1>0 DEF TypeOK
    <3>4. NotAhead' /\ OwnsOrLearns'
      BY <1>0, <2>1, <2>p, <3>2, <3>3, Losing
    <3>5. QED
      BY <1>0, <3>1, <3>2, <3>3, <3>4 DEF MarkedIsBusy
  <2>4. ASSUME ~(other \in Owners \ {o} /\ own[other] /\ other \notin busy)
        PROVE  /\ NotAhead' /\ OwnsOrLearns' /\ losing' \subseteq busy
               /\ \A x \in Owners : own'[x] => own[x] \/ x = o
    <3>1. /\ UNCHANGED <<server, inbox, time>> /\ own' = [own EXCEPT ![o] = TRUE]
          /\ losing' = losing \cup {x \in busy \ {o} : x = other /\ own[x]}
      BY <2>1, <2>4 DEF Register
    <3>2. \A x \in Owners : own'[x] => own[x] \/ x = o
      BY <3>1, <1>0 DEF TypeOK
    <3>3. NotAhead' /\ OwnsOrLearns'
      BY <1>0, <2>1, <2>p, <3>1, <3>2, StaysAll
    <3>4. QED
      BY <1>0, <3>1, <3>2, <3>3 DEF MarkedIsBusy
  <2>5. (\A x \in Owners : own'[x] => own[x] \/ x = o) /\ MarkedIsBusy'
    BY <2>1, <2>3, <2>4 DEF MarkedIsBusy
  <2>6. Registered'
    <3> SUFFICES ASSUME NEW x \in Owners, own'[x]
                 PROVE  client'[ProcessOf[x]] = x \/ (x \in busy /\ context[ProcessOf[x]] # x)
      BY <2>1 DEF Registered
    <3>1. CASE x = o
      BY <2>2, <3>1
    <3>2. CASE x # o /\ ProcessOf[x] = p
      <4>1. own[x] /\ context[ProcessOf[x]] # x
        BY <2>2, <2>5, <3>2
      <4>2. CASE x \in busy
        BY <4>1, <4>2
      <4>3. CASE x \notin busy
        <5>1. other = x
          BY <1>0, <3>2, <4>1, <4>3 DEF Registered
        <5>2. QED
          BY <2>3, <3>2, <4>1, <4>3, <5>1
      <4>4. QED
        BY <4>2, <4>3
    <3>3. CASE x # o /\ ProcessOf[x] # p
      BY <1>0, <2>2, <2>5, <3>3 DEF Registered
    <3>4. QED
      BY <3>1, <3>2, <3>3
  <2> HIDE DEF p, other
  <2>7. AskingIsFound'
    <3>1. \A q \in Processes : pc[q].at \in Inquiring => pc[q].o \in Owners
      BY <1>0 DEF TypeOK, Inquiring
    <3>2. \A q \in Processes : q # p /\ pc[q].at \in Inquiring => ~own'[pc[q].o] /\ context'[q] = pc[q].o
      BY <1>0, <2>1, <2>5, <3>1 DEF AskingIsFound, Inquiring, p
    <3>3. QED
      BY <1>0, <2>1, <2>2, <3>2 DEF AskingIsFound, Inquiring
  <2>8. DiesBusy'
    BY <1>0, <2>1, <2>2, <2>5 DEF DiesBusy
  <2>9. OfTheProcess'
    BY <1>0, <2>1, <2>2 DEF OfTheProcess, p
  <2>10. FindsNoOther'
    <3> SUFFICES ASSUME NEW x \in Owners, own'[x], ~Stuck(x)', pc'[ProcessOf[x]].at \in {"idle", "incr"}
                 PROVE  context'[ProcessOf[x]] \in {x, NoOwner}
      BY DEF FindsNoOther
    <3>1. CASE ProcessOf[x] = p
      <4>1. x \notin busy
        <5>1. pc'[ProcessOf[x]] # [at |-> "incr", o |-> x]
          BY <1>0, <2>2, <3>1
        <5>2. QED
          BY <2>1, <5>1 DEF Stuck
      <4>2. QED
        BY <1>0, <2>1, <2>2, <2>6, <3>1, <4>1 DEF Registered
    <3>2. CASE ProcessOf[x] # p
      <4>1. x # o /\ own[x] /\ pc'[ProcessOf[x]] = pc[ProcessOf[x]]
        BY <1>0, <2>2, <2>5, <3>2 DEF p
      <4>2. ~Stuck(x)
        BY <2>1, <4>1 DEF Stuck
      <4>3. QED
        BY <1>0, <2>1, <4>1, <4>2 DEF FindsNoOther
    <3>3. QED
      BY <3>1, <3>2
  <2>11. NotAhead' /\ OwnsOrLearns'
    BY <2>3, <2>4
  <2>12. QED
    BY <1>t, <2>5, <2>6, <2>7, <2>8, <2>9, <2>10, <2>11 DEF WInv
<1>4. ASSUME NEW o \in Owners, TooOld(o) PROVE WInv'
  <2> DEFINE p == ProcessOf[o]
  <2>1. /\ p \in Processes /\ pc[p] = [at |-> "check", o |-> o] /\ server.owner # o
        /\ pc' = [pc EXCEPT ![p] = [at |-> "retry", o |-> o]] /\ time' = [time EXCEPT ![o] = now]
        /\ UNCHANGED <<server, inbox, own, busy, losing, rank, alive, context, client>>
    BY <1>0, <1>4 DEF TooOld
  <2>2. /\ pc'[p] = [at |-> "retry", o |-> o] /\ ~own[o] /\ context[p] = o
        /\ \A q \in Processes : q # p => pc'[q] = pc[q]
        /\ \A x \in Owners : x # o => time'[x] = time[x]
    BY <1>0, <2>1 DEF TypeOK, AskingIsFound, Inquiring
  <2> HIDE DEF p
  <2>10. AskingIsFound'
    BY <1>0, <2>1, <2>2 DEF AskingIsFound, Inquiring, p
  <2>12. MarkedIsBusy' /\ Registered' /\ OfTheProcess' /\ DiesBusy'
    BY <1>0, <2>1 DEF MarkedIsBusy, Registered, OfTheProcess, DiesBusy
  <2>13. NotAhead'
    BY <1>0, <2>1, <2>2 DEF NotAhead
  <2>14. OwnsOrLearns'
    <3> SUFFICES ASSUME NEW x \in Owners, own'[x], context'[ProcessOf[x]] = x
                 PROVE  OwnsOrHears(x)'
      BY DEF OwnsOrLearns
    <3>1. x # o /\ ProcessOf[x] # p /\ context[ProcessOf[x]] = x /\ own[x]
      BY <2>1, <2>2
    <3>2. OwnsOrHears(x)
      BY <1>0, <3>1 DEF OwnsOrLearns
    <3>3. time'[x] = time[x] /\ pc'[ProcessOf[x]] = pc[ProcessOf[x]]
      BY <1>0, <2>2, <3>1
    <3>4. QED
      BY <2>1, <3>2, <3>3, Stays
  <2>15. FindsNoOther'
    BY <1>0, <2>1, <2>2 DEF FindsNoOther, Stuck
  <2>16. QED
    BY <1>t, <2>10, <2>12, <2>13, <2>14, <2>15 DEF WInv
<1>5. ASSUME NEW o \in Owners, TryAgain(o) PROVE WInv'
  <2> DEFINE p == ProcessOf[o]
  <2>1. /\ p \in Processes /\ pc[p] = [at |-> "retry", o |-> o] /\ time[o] \in Times
        /\ pc' = [pc EXCEPT ![p] = [at |-> "recheck", o |-> o]]
        /\ server' = SetOwner(server, o, time[o]) /\ inbox' = Told(inbox, server, o, time[o])
        /\ UNCHANGED <<own, time, busy, losing, rank, alive, context, client>>
    BY <1>0, <1>5 DEF TryAgain, TypeOK
  <2>2. /\ pc'[p] = [at |-> "recheck", o |-> o] /\ ~own[o] /\ context[p] = o
        /\ \A q \in Processes : q # p => pc'[q] = pc[q]
    BY <1>0, <2>1 DEF TypeOK, AskingIsFound, Inquiring
  <2>3. \/ server.time <= time[o] /\ server' = [owner |-> o, time |-> time[o]]
        \/ time[o] < server.time /\ server' = server
    BY <1>0, <2>1, Setting
  <2> HIDE DEF p
  <2>10. AskingIsFound'
    BY <1>0, <2>1, <2>2 DEF AskingIsFound, Inquiring, p
  <2>12. MarkedIsBusy' /\ Registered' /\ OfTheProcess' /\ DiesBusy'
    BY <1>0, <2>1 DEF MarkedIsBusy, Registered, OfTheProcess, DiesBusy
  <2>13. NotAhead'
    BY <1>0, <2>1, <2>3 DEF NotAhead
  <2>14. OwnsOrLearns'
    <3> SUFFICES ASSUME NEW x \in Owners, own'[x], context'[ProcessOf[x]] = x
                 PROVE  OwnsOrHears(x)'
      BY DEF OwnsOrLearns
    <3>1. x # o /\ ProcessOf[x] # p /\ context[ProcessOf[x]] = x
      BY <1>0, <2>1, <2>2
    <3>2. OwnsOrHears(x)
      BY <1>0, <2>1, <3>1 DEF OwnsOrLearns
    <3>3. pc'[ProcessOf[x]] = pc[ProcessOf[x]] /\ ProcessOf[o] # ProcessOf[x]
      BY <1>0, <2>2, <3>1 DEF p
    <3>4. QED
      BY <1>0, <2>1, <3>2, <3>3, StillTold
  <2>15. FindsNoOther'
    BY <1>0, <2>1, <2>2 DEF FindsNoOther, Stuck
  <2>16. QED
    BY <1>t, <2>10, <2>12, <2>13, <2>14, <2>15 DEF WInv
<1>6. ASSUME NEW o \in Owners, Failed(o) PROVE WInv'
  <2> DEFINE p == ProcessOf[o]
  <2>1. /\ p \in Processes /\ pc[p] = [at |-> "recheck", o |-> o]
        /\ pc' = [pc EXCEPT ![p] = Idle] /\ context' = [context EXCEPT ![p] = NoOwner]
        /\ UNCHANGED <<server, inbox, own, time, busy, losing, rank, alive, client>>
    BY <1>0, <1>6 DEF Failed
  <2>2. /\ pc'[p] = Idle /\ context'[p] = NoOwner
        /\ \A q \in Processes : q # p => pc'[q] = pc[q] /\ context'[q] = context[q]
    BY <1>0, <2>1 DEF TypeOK
  <2> HIDE DEF p
  <2>10. AskingIsFound'
    BY <1>0, <2>1, <2>2 DEF AskingIsFound, Inquiring
  <2>11. MarkedIsBusy' /\ DiesBusy'
    BY <1>0, <2>1 DEF MarkedIsBusy, DiesBusy
  <2>12. Registered' /\ OfTheProcess'
    BY <1>0, <2>1, <2>2 DEF Registered, OfTheProcess
  <2>14. NotAhead' /\ OwnsOrLearns'
    <3>1. \A x \in Owners : context'[ProcessOf[x]] = x => context[ProcessOf[x]] = x /\ pc'[ProcessOf[x]] = pc[ProcessOf[x]]
      BY <1>0, <2>2
    <3>2. QED
      BY <1>0, <2>1, <3>1, StaysAll
  <2>15. FindsNoOther'
    BY <1>0, <2>1, <2>2 DEF FindsNoOther, Stuck
  <2>16. QED
    BY <1>t, <2>10, <2>11, <2>12, <2>14, <2>15 DEF WInv
<1>7. ASSUME NEW o \in Owners, Destroy(o) PROVE WInv'
  <2> DEFINE p == ProcessOf[o]
  <2>1. /\ p \in Processes /\ pc[p] = Idle
        /\ context' = IF o \in rank THEN [context EXCEPT ![p] = NoOwner] ELSE context
        /\ client' = IF client[p] = o THEN [client EXCEPT ![p] = NoOwner] ELSE client
        /\ alive' = alive \ {o} /\ UNCHANGED <<busy, rank, pc>>
    BY <1>0, <1>7 DEF Destroy, Calls
  <2>2. /\ \A q \in Processes : context'[q] = context[q] \/ (q = p /\ context'[q] = NoOwner)
        /\ \A q \in Processes : client'[q] = client[q] \/ (q = p /\ client[p] = o /\ client'[q] = NoOwner)
        /\ context'[p] # o
    <3>1. context[p] = o => o \in rank
      BY <1>0, <2>1 DEF OfTheProcess
    <3>2. QED
      BY <1>0, <2>1, <3>1 DEF TypeOK
  <2>3. /\ NotAhead' /\ OwnsOrLearns' /\ losing' \subseteq busy
        /\ \A x \in Owners : own'[x] => own[x] /\ (x = o => o \in busy)
    <3>1. CASE own[o] /\ o \notin busy
      <4>1. Lose(o, inbox) /\ UNCHANGED losing
        BY <1>7, <3>1 DEF Destroy, LoseOrMark
      <4>2. /\ server' = SetOwner(server, NoOwner, time[o]) /\ inbox' = Told(inbox, server, NoOwner, time[o])
            /\ own' \in [Owners -> BOOLEAN] /\ time' = [time EXCEPT ![o] = 0] /\ ~own'[o]
            /\ \A x \in Owners : own'[x] => own[x] /\ x # o
        BY <1>0, <4>1, Lost
      <4>3. NotAhead' /\ OwnsOrLearns'
        BY <1>0, <2>1, <2>2, <4>1, <4>2, Losing
      <4>4. QED
        BY <1>0, <4>1, <4>2, <4>3 DEF MarkedIsBusy
    <3>2. CASE ~(own[o] /\ o \notin busy)
      <4>1. /\ UNCHANGED <<server, inbox, own, time>>
            /\ losing' = losing \/ (o \in busy /\ losing' = losing \cup {o})
        BY <1>7, <3>2 DEF Destroy, LoseOrMark
      <4>2. \A x \in Owners : context'[ProcessOf[x]] = x => context[ProcessOf[x]] = x
        BY <1>0, <2>2
      <4>3. NotAhead' /\ OwnsOrLearns'
        BY <1>0, <2>1, <4>1, <4>2, StaysAll
      <4>4. QED
        BY <1>0, <3>2, <4>1, <4>3 DEF MarkedIsBusy
    <3>3. QED
      BY <3>1, <3>2
  <2> HIDE DEF p
  <2>10. AskingIsFound'
    <3>1. \A q \in Processes : pc[q].at \in Inquiring => q # p
      BY <1>0, <2>1 DEF Inquiring
    <3>2. \A q \in Processes : pc[q] # Idle => q # p
      BY <2>1
    <3>3. QED
      BY <1>0, <2>1, <2>2, <2>3, <3>1, <3>2 DEF AskingIsFound, TypeOK, Inquiring, Waiting
  <2>11. MarkedIsBusy' /\ DiesBusy'
    BY <1>0, <2>1, <2>3 DEF MarkedIsBusy, DiesBusy
  <2>12. Registered'
    <3> SUFFICES ASSUME NEW x \in Owners, own'[x]
                 PROVE  client'[ProcessOf[x]] = x \/ (x \in busy /\ context'[ProcessOf[x]] # x)
      BY <2>1 DEF Registered
    <3>1. CASE x = o
      BY <2>2, <2>3, <3>1 DEF p
    <3>2. CASE x # o
      BY <1>0, <2>2, <2>3, <3>2 DEF Registered
    <3>3. QED
      BY <3>1, <3>2
  <2>13. OfTheProcess'
    <3>1. \A q \in Processes : context'[q] # NoOwner => context'[q] = context[q] /\ context[q] # o
      BY <1>0, <2>2 DEF OfTheProcess, p
    <3>2. QED
      BY <1>0, <2>1, <2>2, <3>1 DEF OfTheProcess
  <2>15. FindsNoOther'
    BY <1>0, <2>1, <2>2, <2>3 DEF FindsNoOther, Stuck
  <2>16. QED
    BY <1>t, <2>3, <2>10, <2>11, <2>12, <2>13, <2>15 DEF WInv
<1>8. ASSUME NEW t \in Times, Ask(t) PROVE WInv'
  <2>1. /\ UNCHANGED <<server, own, time, busy, losing, rank, alive, pc, context, client>>
        /\ server.owner \in Owners
    BY <1>0, <1>8 DEF Ask, TypeOK
  <2> DEFINE q == ProcessOf[server.owner]
             e == [type |-> "request", window |-> server.owner, time |-> t]
  <2>2. /\ q \in Processes /\ e \in Event /\ inbox[q] \in Seq(Event)
        /\ inbox' = [inbox EXCEPT ![q] = Append(@, e)] /\ e.window = server.owner
    BY <1>0, <1>8, <2>1 DEF Ask, TypeOK, OwnersAssumption, Event
  <2>3. ToSet(Append(inbox[q], e)) = ToSet(inbox[q]) \cup {e}
    BY <2>2, AppendNews
  <2> HIDE DEF q, e
  <2>4. \A r \in Processes : inbox'[r] = IF r = q THEN Append(inbox[q], e) ELSE inbox[r]
    BY <1>0, <2>2 DEF TypeOK
  <2>10. AskingIsFound' /\ MarkedIsBusy' /\ Registered' /\ OfTheProcess' /\ DiesBusy' /\ NotAhead'
    BY <1>0, <2>1 DEF AskingIsFound, MarkedIsBusy, Registered, OfTheProcess, DiesBusy, NotAhead
  <2>14. OwnsOrLearns'
    <3> SUFFICES ASSUME NEW x \in Owners, own'[x], context'[ProcessOf[x]] = x
                 PROVE  OwnsOrHears(x)'
      BY DEF OwnsOrLearns
    <3>1. OwnsOrHears(x)
      BY <1>0, <2>1 DEF OwnsOrLearns
    <3>2. CASE server.owner = x
      BY <2>1, <3>2 DEF OwnsOrHears
    <3>3. CASE server.owner # x
      <4>1. Followed(inbox[q], x, time[x]) => Followed(Append(inbox[q], e), x, time[x])
        BY <2>2, <3>3, AppendFollowed
      <4>2. \/ inbox'[ProcessOf[x]] = inbox[ProcessOf[x]]
            \/ /\ \A ev \in ToSet(inbox[ProcessOf[x]]) : ev \in ToSet(inbox'[ProcessOf[x]])
               /\ Followed(inbox[ProcessOf[x]], x, time[x])
                    => Followed(inbox'[ProcessOf[x]], x, time[x])
        BY <1>0, <2>3, <2>4, <4>1
      <4>3. QED
        BY <2>1, <3>1, <4>2, Stays
    <3>4. QED
      BY <3>2, <3>3
  <2>15. FindsNoOther'
    BY <1>0, <2>1 DEF FindsNoOther, Stuck
  <2>16. QED
    BY <1>t, <2>10, <2>14, <2>15 DEF WInv
<1>9. ASSUME NEW p \in Processes, HandleRequest(p) PROVE WInv'
  <2>1. /\ pc[p] = Idle /\ inbox[p] # <<>> /\ Head(inbox[p]).type = "request"
        /\ UNCHANGED <<rank, alive, context, client>>
        /\ Refuse(p) \/ (~Refused(p, Head(inbox[p])) /\ Serve(p))
    BY <1>9 DEF HandleRequest
  <2>2. Less(Popped(p)) /\ Head(inbox[p]).window \in Owners
    BY <1>0, <2>1, PoppedLess
  <2>q. /\ inbox[p] \in Seq(Event) /\ Popped(p)[p] = Tail(inbox[p])
        /\ \A q \in Processes : q # p => Popped(p)[q] = inbox[q]
    BY <1>0 DEF TypeOK, Popped
  <2>r. /\ \A ev \in ToSet(inbox[p]) : ev.type = "clear" => ev \in ToSet(Tail(inbox[p]))
        /\ \A x, t : Followed(inbox[p], x, t) => Followed(Tail(inbox[p]), x, t)
        /\ 1 \in DOMAIN inbox[p] /\ inbox[p][1] = Head(inbox[p])
    <3>1. /\ \A ev \in ToSet(inbox[p]) : ev \in ToSet(Tail(inbox[p])) \/ ev = Head(inbox[p])
          /\ 1 \in DOMAIN inbox[p] /\ inbox[p][1] = Head(inbox[p]) /\ Without(inbox[p], 1, Tail(inbox[p]))
          /\ Tail(inbox[p]) \in Seq(Event)
      BY <2>1, <2>q, TailNews
    <3>2. ASSUME NEW x, NEW t, Followed(inbox[p], x, t) PROVE Followed(Tail(inbox[p]), x, t)
      BY <2>q, <3>1, <3>2, RemoveFollowed
    <3>3. QED
      BY <2>1, <3>1, <3>2
  <2>3. CASE Refuse(p) /\ context[p] \in losing
    <3>1. PICK o \in Owners : o = context[p]
      BY <1>0, <2>3
    <3>2. Lose(o, Popped(p)) /\ busy' = busy \ {o} /\ losing' = losing \ {o} /\ UNCHANGED pc
      BY <2>3, <3>1 DEF Refuse
    <3>3. /\ server' = SetOwner(server, NoOwner, time[o]) /\ inbox' = Told(Popped(p), server, NoOwner, time[o])
          /\ own' \in [Owners -> BOOLEAN] /\ time' = [time EXCEPT ![o] = 0] /\ ~own'[o]
          /\ \A x \in Owners : own'[x] => own[x] /\ x # o
      BY <1>0, <2>2, <3>2, Lost
    <3>4. NotAhead' /\ OwnsOrLearns'
      BY <1>0, <2>1, <2>2, <3>2, <3>3, Losing
    <3>10. AskingIsFound'
      BY <1>0, <2>1, <3>2, <3>3 DEF AskingIsFound, TypeOK, Inquiring, Waiting
    <3>11. MarkedIsBusy' /\ Registered' /\ OfTheProcess' /\ DiesBusy'
      BY <1>0, <2>1, <3>2, <3>3 DEF MarkedIsBusy, Registered, OfTheProcess, DiesBusy
    <3>12. FindsNoOther'
      BY <1>0, <2>1, <3>2, <3>3 DEF FindsNoOther, Stuck
    <3>13. QED
      BY <1>t, <3>4, <3>10, <3>11, <3>12 DEF WInv
  <2>4. CASE Refuse(p) /\ context[p] \notin losing
    <3>1. inbox' = Popped(p) /\ UNCHANGED <<server, own, time, busy, losing, pc>>
      BY <2>4 DEF Refuse
    <3>2. OwnsOrLearns'
      <4> SUFFICES ASSUME NEW x \in Owners, own'[x], context'[ProcessOf[x]] = x
                   PROVE  OwnsOrHears(x)'
        BY DEF OwnsOrLearns
      <4>1. OwnsOrHears(x)
        BY <1>0, <2>1, <3>1 DEF OwnsOrLearns
      <4>2. \/ inbox'[ProcessOf[x]] = inbox[ProcessOf[x]]
            \/ /\ \A ev \in ToSet(inbox[ProcessOf[x]]) : ev.type = "clear" => ev \in ToSet(inbox'[ProcessOf[x]])
               /\ Followed(inbox[ProcessOf[x]], x, time[x]) => Followed(inbox'[ProcessOf[x]], x, time[x])
        BY <1>0, <2>q, <2>r, <3>1
      <4>3. QED
        BY <3>1, <4>1, <4>2, Stays
    <3>10. /\ AskingIsFound' /\ MarkedIsBusy' /\ Registered' /\ OfTheProcess' /\ DiesBusy'
           /\ NotAhead'
      BY <1>0, <2>1, <3>1 DEF AskingIsFound, MarkedIsBusy, Registered, OfTheProcess, DiesBusy, NotAhead
    <3>11. FindsNoOther'
      BY <1>0, <2>1, <3>1 DEF FindsNoOther, Stuck
    <3>12. QED
      BY <1>t, <3>2, <3>10, <3>11 DEF WInv
  <2>5. CASE ~Refused(p, Head(inbox[p])) /\ Serve(p)
    <3>1. PICK o \in Owners : o = context[p] /\ o = Head(inbox[p]).window
      BY <2>2, <2>5 DEF Refused
    <3>2. /\ inbox' = Popped(p) /\ losing' = losing \ {o}
          /\ \/ busy' = busy \ {o} /\ UNCHANGED pc
             \/ busy' = busy \cup {o} /\ UNCHANGED pc
             \/ busy' = busy \cup {o} /\ pc' = [pc EXCEPT ![p] = [at |-> "incr", o |-> o]]
          /\ UNCHANGED <<server, own, time>>
      BY <2>5, <3>1 DEF Serve
    <3>3. /\ \A q \in Processes : q # p => pc'[q] = pc[q]
          /\ pc'[p] = Idle \/ pc'[p] = [at |-> "incr", o |-> o]
          /\ ProcessOf[o] = p /\ o \in alive
          /\ \A x \in Owners : x # o => (x \in busy' <=> x \in busy)
      BY <1>0, <2>1, <3>1, <3>2 DEF TypeOK, OfTheProcess
    <3>4. OwnsOrLearns'
      <4> SUFFICES ASSUME NEW x \in Owners, own'[x], context'[ProcessOf[x]] = x
                   PROVE  OwnsOrHears(x)'
        BY DEF OwnsOrLearns
      <4>1. OwnsOrHears(x)
        BY <1>0, <2>1, <3>2 DEF OwnsOrLearns
      <4>2. CASE x # o
        <5>1. ProcessOf[x] # p
          BY <2>1, <3>1, <4>2
        <5>2. /\ inbox'[ProcessOf[x]] = inbox[ProcessOf[x]] /\ pc'[ProcessOf[x]] = pc[ProcessOf[x]]
              /\ x \in losing => x \in losing'
          BY <1>0, <2>q, <3>2, <3>3, <4>2, <5>1
        <5>3. QED
          BY <3>2, <4>1, <5>2, Stays
      <4>3. CASE x = o /\ server.owner = o
        BY <3>2, <4>3 DEF OwnsOrHears
      <4>4. CASE x = o /\ server.owner # o
        <5>1. Followed(inbox[p], o, time[o])
          BY <1>0, <2>1, <3>3, <4>1, <4>4 DEF OwnsOrHears, InTurn
        <5>2. PICK j \in DOMAIN inbox[p] : inbox[p][j].type = "clear" /\ inbox[p][j].window = o
                                            /\ time[o] <= inbox[p][j].time
          BY <2>1, <2>r, <3>1, <5>1 DEF Followed
        <5>3. inbox[p][j] \in ToSet(inbox[p])
          BY DEF ToSet
        <5>4. inbox[p][j] \in ToSet(inbox'[p]) /\ Followed(inbox'[p], o, time[o])
          BY <2>q, <2>r, <3>2, <5>1, <5>2, <5>3
        <5>5. WillLearn(o)'
          BY <3>2, <3>3, <5>2, <5>4 DEF WillLearn, ToSet
        <5>6. QED
          BY <3>2, <3>3, <4>4, <5>4, <5>5 DEF OwnsOrHears, InTurn
      <4>5. QED
        BY <4>2, <4>3, <4>4
    <3>9. OfTheProcess' /\ NotAhead'
      BY <1>0, <2>1, <3>2 DEF OfTheProcess, NotAhead
    <3>10. AskingIsFound'
      <4> SUFFICES ASSUME NEW q \in Processes
                   PROVE  /\ pc'[q] # Idle => ProcessOf[pc'[q].o] = q /\ context[q] = pc'[q].o
                          /\ pc'[q].at \in Inquiring => ~own[pc'[q].o]
        BY <2>1, <3>2 DEF AskingIsFound, Inquiring
      <4>1. CASE q # p
        BY <1>0, <3>3, <4>1 DEF AskingIsFound
      <4>2. CASE q = p /\ pc'[q] = Idle
        BY <1>0, <4>2 DEF Inquiring
      <4>3. CASE q = p /\ pc'[q] = [at |-> "incr", o |-> o]
        <5>1. pc'[q].o = o /\ pc'[q].at = "incr"
          BY <4>3
        <5>2. QED
          BY <3>1, <3>3, <4>3, <5>1 DEF Inquiring
      <4>4. QED
        BY <3>3, <4>1, <4>2, <4>3
    <3>11. MarkedIsBusy' /\ DiesBusy' /\ Registered'
      BY <1>0, <2>1, <3>1, <3>2, <3>3 DEF MarkedIsBusy, DiesBusy, Registered
    <3>12. FindsNoOther'
      <4> SUFFICES ASSUME NEW x \in Owners, x # o, own'[x], ~Stuck(x)',
                          pc'[ProcessOf[x]].at \in {"idle", "incr"}
                   PROVE  context'[ProcessOf[x]] \in {x, NoOwner}
        BY <2>1, <3>1, <3>3 DEF FindsNoOther
      <4>1. CASE ProcessOf[x] = p
        <5>1. pc'[p] # [at |-> "incr", o |-> x]
          BY <1>0, <3>3
        <5>2. ~Stuck(x)
          BY <3>3, <4>1, <5>1 DEF Stuck
        <5>3. QED
          BY <1>0, <2>1, <3>2, <4>1, <5>2 DEF FindsNoOther
      <4>2. CASE ProcessOf[x] # p
        <5>1. ~Stuck(x) /\ pc'[ProcessOf[x]] = pc[ProcessOf[x]]
          BY <1>0, <3>3, <4>2 DEF Stuck
        <5>2. QED
          BY <1>0, <2>1, <3>2, <5>1 DEF FindsNoOther
      <4>3. QED
        BY <4>1, <4>2
    <3>13. QED
      BY <1>t, <3>4, <3>9, <3>10, <3>11, <3>12 DEF WInv
  <2>6. QED
    BY <2>1, <2>3, <2>4, <2>5
<1>10. ASSUME NEW p \in Processes, HandleClear(p) PROVE WInv'
  <2>1. PICK i \in DOMAIN inbox[p] :
          /\ pc[p].at \in {"idle", "incr"}
          /\ \A j \in 1..(i - 1) : pc[p].at = "incr"
          /\ inbox' = [inbox EXCEPT ![p] = RemoveAt(@, i)]
          /\ IF context[p] # NoOwner /\ Clears(context[p], inbox[p][i])
             THEN IF context[p] \in busy
                  THEN losing' = losing \cup {context[p]} /\ UNCHANGED <<own, time>>
                  ELSE /\ own' = [own EXCEPT ![context[p]] = FALSE] /\ time' = [time EXCEPT ![context[p]] = 0]
                       /\ UNCHANGED losing
             ELSE UNCHANGED <<own, time, losing>>
          /\ UNCHANGED <<server, now, used, seen, pc, busy, rank, alive, context, client, requesting, ops>>
    BY <1>10 DEF HandleClear
  <2> DEFINE ev == inbox[p][i]
             o == context[p]
             r == RemoveAt(inbox[p], i)
  <2>2. /\ ToSet(inbox[p]) = ToSet(r) \cup {ev} /\ ev \in Event
        /\ r \in Seq(Event) /\ Without(inbox[p], i, r) /\ inbox[p] \in Seq(Event)
        /\ \A q \in Processes : inbox'[q] = IF q = p THEN r ELSE inbox[q]
    BY <1>0, <2>1, RemoveNews DEF TypeOK
  <2>3. \A j \in 1..(i - 1) : pc[p].at = "incr"
    BY <2>1
  <2>5. /\ \A x \in Owners : own'[x] => own[x] /\ time'[x] = time[x]
        /\ \A x \in Owners : time'[x] = time[x] \/ time'[x] = 0
        /\ losing \subseteq losing' /\ losing' \subseteq busy
        /\ o # NoOwner /\ Clears(o, ev) => o \in losing' \/ ~own'[o]
    <3>1. CASE o # NoOwner /\ Clears(o, ev) /\ o \in busy
      BY <1>0, <2>1, <3>1 DEF MarkedIsBusy
    <3>2. CASE o # NoOwner /\ Clears(o, ev) /\ o \notin busy
      <4>1. PICK y \in Owners : y = o
        BY <1>0, <3>2 DEF TypeOK
      <4>2. own' = [own EXCEPT ![y] = FALSE] /\ time' = [time EXCEPT ![y] = 0] /\ losing' = losing
        BY <2>1, <3>2, <4>1
      <4>3. QED
        BY <1>0, <4>1, <4>2 DEF TypeOK, MarkedIsBusy
    <3>3. CASE ~(o # NoOwner /\ Clears(o, ev))
      BY <1>0, <2>1, <3>3 DEF MarkedIsBusy
    <3>4. QED
      BY <3>1, <3>2, <3>3
  <2>6. /\ UNCHANGED <<server, pc, busy, rank, alive, context, client>>
        /\ pc[p].at \in {"idle", "incr"}
    BY <2>1
  <2>7. pc[p].at = "idle" => i = 1
    <3>1. i \in 1..Len(inbox[p]) /\ Len(inbox[p]) \in Nat
      BY <2>2, LenProperties
    <3>2. i # 1 => 1 \in 1..(i - 1)
      BY <3>1
    <3>3. QED
      BY <2>3, <3>2
  <2> HIDE DEF ev, o, r
  <2>10. AskingIsFound'
    BY <1>0, <2>5, <2>6 DEF AskingIsFound, TypeOK, Inquiring, Waiting
  <2>11. MarkedIsBusy' /\ Registered' /\ OfTheProcess' /\ DiesBusy'
    BY <1>0, <2>5, <2>6 DEF MarkedIsBusy, Registered, OfTheProcess, DiesBusy
  <2>13. NotAhead'
    BY <1>0, <2>5, <2>6 DEF NotAhead
  <2>14. OwnsOrLearns'
    <3> SUFFICES ASSUME NEW x \in Owners, own'[x], context'[ProcessOf[x]] = x
                 PROVE  OwnsOrHears(x)'
      BY DEF OwnsOrLearns
    <3>1. own[x] /\ context[ProcessOf[x]] = x /\ time'[x] = time[x]
      BY <2>5, <2>6
    <3>2. OwnsOrHears(x)
      BY <1>0, <3>1 DEF OwnsOrLearns
    <3>3. CASE server.owner = x
      BY <2>6, <3>3 DEF OwnsOrHears
    <3>4. CASE ProcessOf[x] # p
      <4>1. inbox'[ProcessOf[x]] = inbox[ProcessOf[x]]
        BY <1>0, <2>2, <3>4
      <4>2. QED
        BY <2>5, <2>6, <3>1, <3>2, <4>1, Stays
    <3>5. CASE ProcessOf[x] = p /\ ~(ev.type = "clear" /\ ev.window = x /\ time[x] <= ev.time)
      <4>1. Followed(inbox[p], x, time[x]) => Followed(r, x, time[x])
        BY <2>2, <3>5, RemoveFollowed DEF ev
      <4>2. /\ \A e \in ToSet(inbox[ProcessOf[x]]) :
                 e.type = "clear" /\ e.window = x /\ time[x] <= e.time => e \in ToSet(inbox'[ProcessOf[x]])
            /\ Followed(inbox[ProcessOf[x]], x, time[x]) => Followed(inbox'[ProcessOf[x]], x, time[x])
        BY <2>2, <3>5, <4>1
      <4>3. QED
        BY <2>5, <2>6, <3>1, <3>2, <4>2, Stays
    <3>6. CASE /\ ProcessOf[x] = p /\ server.owner # x
               /\ ev.type = "clear" /\ ev.window = x /\ time[x] <= ev.time
      <4>1. x = o /\ o # NoOwner /\ Clears(o, ev)
        BY <1>0, <3>1, <3>6 DEF Clears, o
      <4>2. x \in losing'
        BY <2>5, <4>1
      <4>3. WillLearn(x)'
        BY <4>2 DEF WillLearn
      <4>4. InTurn(x)'
        <5>1. CASE pc[p] = [at |-> "incr", o |-> x]
          BY <2>6, <3>6, <4>2, <5>1 DEF InTurn
        <5>2. CASE pc[p] # [at |-> "incr", o |-> x]
          <6>1. pc[p].at = "idle"
            <7>1. pc[p] = Idle \/ pc[p] = [at |-> pc[p].at, o |-> pc[p].o]
              BY <1>0 DEF TypeOK
            <7>2. pc[p].at = "incr" => pc[p].o = x
              BY <1>0, <3>1, <3>6 DEF AskingIsFound
            <7>3. QED
              BY <1>0, <2>6, <5>2, <7>1, <7>2
          <6>2. Followed(inbox[p], x, time[x])
            BY <3>2, <3>6, <5>2 DEF OwnsOrHears, InTurn
          <6>3. Followed(r, x, time[x])
            BY <2>2, <2>7, <6>1, <6>2, RemoveFollowed
          <6>4. QED
            BY <2>2, <3>1, <3>6, <6>3 DEF InTurn
        <5>3. QED
          BY <5>1, <5>2
      <4>5. QED
        BY <4>3, <4>4 DEF OwnsOrHears
    <3>7. QED
      BY <3>3, <3>4, <3>5, <3>6
  <2>15. FindsNoOther'
    BY <1>0, <2>5, <2>6 DEF FindsNoOther, Stuck
  <2>16. QED
    BY <1>t, <2>10, <2>11, <2>13, <2>14, <2>15 DEF WInv
<1>11. ASSUME NEW o \in Owners, Served(o) PROVE WInv'
  <2> DEFINE p == ProcessOf[o]
  <2>1. /\ p \in Processes /\ pc[p] = [at |-> "incr", o |-> o] /\ pc' = [pc EXCEPT ![p] = Idle]
        /\ busy' = busy \ {o} /\ losing' = losing \ {o} /\ UNCHANGED <<rank, alive, context, client>>
    BY <1>0, <1>11 DEF Served
  <2>2. /\ pc'[p] = Idle /\ \A q \in Processes : q # p => pc'[q] = pc[q]
        /\ context[p] = o /\ o \in alive
        /\ \A x \in Owners : x # o => (pc[ProcessOf[x]] = [at |-> "incr", o |-> x]
                                         => ProcessOf[x] # p)
    BY <1>0, <2>1 DEF TypeOK, AskingIsFound, OfTheProcess
  <2>3. NotAhead' /\ OwnsOrLearns' /\ \A x \in Owners : own'[x] => own[x]
    <3>0. \A x \in Owners : x # o /\ pc[ProcessOf[x]] = [at |-> "incr", o |-> x]
                              => pc'[ProcessOf[x]] = [at |-> "incr", o |-> x]
      BY <1>0, <2>2
    <3>1. CASE o \in losing
      <4>1. Lose(o, inbox)
        BY <1>11, <3>1 DEF Served
      <4>2. /\ server' = SetOwner(server, NoOwner, time[o]) /\ inbox' = Told(inbox, server, NoOwner, time[o])
            /\ own' \in [Owners -> BOOLEAN] /\ time' = [time EXCEPT ![o] = 0] /\ ~own'[o]
            /\ \A x \in Owners : own'[x] => own[x]
        BY <1>0, <4>1, Lost
      <4>3. NotAhead' /\ OwnsOrLearns'
        BY <1>0, <2>1, <3>0, <4>2, Losing
      <4>4. QED
        BY <4>2, <4>3
    <3>2. CASE o \notin losing
      <4>1. UNCHANGED <<server, inbox, own, time, losing>>
        BY <1>11, <2>1, <3>2 DEF Served
      <4>2. NotAhead'
        BY <1>0, <4>1 DEF NotAhead
      <4>3. OwnsOrLearns'
        <5> SUFFICES ASSUME NEW x \in Owners, own'[x], context'[ProcessOf[x]] = x
                     PROVE  OwnsOrHears(x)'
          BY DEF OwnsOrLearns
        <5>1. OwnsOrHears(x)
          BY <1>0, <2>1, <4>1 DEF OwnsOrLearns
        <5>2. x \in losing => x # o
          BY <3>2
        <5>3. QED
          BY <3>0, <4>1, <5>1, <5>2, Stays
      <4>4. QED
        BY <4>1, <4>2, <4>3
    <3>3. QED
      BY <3>1, <3>2
  <2> HIDE DEF p
  <2>10. AskingIsFound'
    BY <1>0, <2>1, <2>2, <2>3 DEF AskingIsFound, TypeOK, Inquiring, Waiting
  <2>11. MarkedIsBusy' /\ DiesBusy'
    BY <1>0, <2>1, <2>2, <2>3 DEF MarkedIsBusy, DiesBusy
  <2>12. Registered'
    BY <1>0, <2>1, <2>2, <2>3 DEF Registered, p
  <2>13. OfTheProcess'
    BY <1>0, <2>1 DEF OfTheProcess
  <2>14. FindsNoOther'
    <3> SUFFICES ASSUME NEW x \in Owners, own'[x], ~Stuck(x)', pc'[ProcessOf[x]].at \in {"idle", "incr"}
                 PROVE  context'[ProcessOf[x]] \in {x, NoOwner}
      BY DEF FindsNoOther
    <3>1. CASE x = o
      BY <2>1, <2>2, <3>1 DEF p
    <3>2. CASE x # o /\ ProcessOf[x] = p
      <4>1. x \notin busy
        <5>1. pc'[p] # [at |-> "incr", o |-> x]
          BY <1>0, <2>2
        <5>2. QED
          BY <2>1, <3>2, <5>1 DEF Stuck
      <4>2. QED
        BY <1>0, <2>1, <2>3, <3>2, <4>1 DEF FindsNoOther, Stuck
    <3>3. CASE ProcessOf[x] # p
      <4>1. x # o /\ pc'[ProcessOf[x]] = pc[ProcessOf[x]]
        BY <1>0, <2>2, <3>3 DEF p
      <4>2. ~Stuck(x)
        BY <2>1, <4>1 DEF Stuck
      <4>3. QED
        BY <1>0, <2>1, <2>3, <4>1, <4>2 DEF FindsNoOther
    <3>4. QED
      BY <3>1, <3>2, <3>3
  <2>15. QED
    BY <1>t, <2>3, <2>10, <2>11, <2>12, <2>13, <2>14 DEF WInv
<1>13. ASSUME NEW p \in Processes, EndRequest(p) PROVE WInv'
  <2>1. /\ pc[p] = Idle /\ context' = [context EXCEPT ![p] = NoOwner]
        /\ UNCHANGED <<server, inbox, own, time, busy, losing, rank, alive, pc, client>>
    BY <1>13 DEF EndRequest
  <2>2. context'[p] = NoOwner /\ \A q \in Processes : q # p => context'[q] = context[q]
    BY <1>0, <2>1 DEF TypeOK
  <2>10. AskingIsFound'
    BY <1>0, <2>1, <2>2 DEF AskingIsFound, Inquiring
  <2>11. MarkedIsBusy' /\ DiesBusy'
    BY <1>0, <2>1 DEF MarkedIsBusy, DiesBusy
  <2>12. Registered' /\ OfTheProcess'
    BY <1>0, <2>1, <2>2 DEF Registered, OfTheProcess
  <2>14. NotAhead' /\ OwnsOrLearns'
    <3>1. \A x \in Owners : context'[ProcessOf[x]] = x => context[ProcessOf[x]] = x
      BY <1>0, <2>2
    <3>2. QED
      BY <1>0, <2>1, <3>1, StaysAll
  <2>15. FindsNoOther'
    BY <1>0, <2>1, <2>2 DEF FindsNoOther, Stuck
  <2>16. QED
    BY <1>t, <2>10, <2>11, <2>12, <2>14, <2>15 DEF WInv
<1>14. ASSUME (\E p \in Processes : PostRequest(p)) \/ Tick \/ UNCHANGED vars PROVE WInv'
  <2>1. UNCHANGED <<server, inbox, own, time, busy, losing, rank, alive, pc, client, context>>
    BY <1>14 DEF PostRequest, Tick, vars
  <2>10. AskingIsFound' /\ MarkedIsBusy' /\ Registered' /\ OfTheProcess' /\ DiesBusy'
    BY <1>0, <2>1 DEF AskingIsFound, MarkedIsBusy, Registered, OfTheProcess, DiesBusy
  <2>11. NotAhead' /\ OwnsOrLearns'
    BY <1>0, <2>1, StaysAll
  <2>12. FindsNoOther'
    BY <1>0, <2>1 DEF FindsNoOther, Stuck
  <2>13. QED
    BY <1>t, <2>10, <2>11, <2>12 DEF WInv
<1>15. QED
  BY <1>1, <1>2, <1>3, <1>4, <1>5, <1>6, <1>7, <1>8, <1>9, <1>10, <1>11, <1>13, <1>14
     DEF Next, Going, Handling

-----------------------------------------------------------------------------
(* No two acquisitions have the same time.                                 *)

(* What the types say, for the proofs that follow.                         *)
LEMMA Facts ==
  ASSUME OwnersAssumption, TypeOK
  PROVE  /\ \A o \in Owners : ProcessOf[o] \in Processes /\ o # NoOwner /\ time[o] \in Nat
         /\ server.time \in Nat /\ now \in Nat
         /\ server.owner \in Owners \cup {NoOwner}
         /\ \A p \in Processes : pc[p].at \in Inquiring => pc[p].o \in Owners
         /\ \A p \in Processes : \A ev \in News(p) : ev \in Event /\ ev.time \in Nat
<1>1. /\ \A o \in Owners : ProcessOf[o] \in Processes /\ o # NoOwner /\ time[o] \in Nat
      /\ server.time \in Nat /\ now \in Nat
      /\ server.owner \in Owners \cup {NoOwner}
  BY DEF TypeOK, OwnersAssumption, Times
<1>2. \A p \in Processes : pc[p].at \in Inquiring => pc[p].o \in Owners
  BY DEF TypeOK, Inquiring, Idle
<1>3. ASSUME NEW p \in Processes, NEW ev \in News(p) PROVE ev \in Event /\ ev.time \in Nat
  <2>1. inbox[p] \in Seq(Event)
    BY DEF TypeOK
  <2>2. PICK i \in DOMAIN inbox[p] : ev = inbox[p][i]
    BY <1>3 DEF News, ToSet
  <2>3. inbox[p][i] \in Event
    BY <2>1, <2>2, ElementOfSeq, LenProperties
  <2>4. QED
    BY <2>2, <2>3 DEF Event, Times, OwnersAssumption
<1>4. QED
  BY <1>1, <1>2, <1>3

(* A step that acquires nothing.                                           *)
LEMMA Keeping ==
  ASSUME OwnersAssumption, SInv, used' = used, now' \in Nat, now <= now',
         server'.time = server.time, server'.owner \in {server.owner, NoOwner},
         \A x \in Owners : time'[x] \in {time[x], 0} /\ (time'[x] = time[x] \/ own[x]),
         \A x \in Owners : own'[x] => (own[x] \/ x = server.owner) /\ time'[x] = time[x],
         \A x \in Owners : server'.owner = x =>
            /\ time'[x] = time[x]
            /\ own'[x] \/ (pc'[ProcessOf[x]].o = x /\ pc'[ProcessOf[x]].at \in Inquiring),
         \A p \in Processes : pc'[p].at = "retry" => pc'[p] = pc[p],
         \A p \in Processes : \A ev \in News(p)' :
            ev.type = "clear" => ev \in News(p) \/ (ev.time <= server.time /\ server'.owner = NoOwner)
  PROVE  TimesUsed' /\ OwnTimesPast' /\ NewsPast' /\ OwnerIsCurrent' /\ RetriesAnew'
<1>1. /\ TypeOK /\ AskingIsFound /\ TimesUsed /\ OwnTimesPast /\ NewsPast /\ OwnerIsCurrent /\ RetriesAnew
      /\ \A o \in Owners : ProcessOf[o] \in Processes /\ o # NoOwner /\ time[o] \in Nat
      /\ server.time \in Nat /\ now \in Nat
      /\ \A p \in Processes : pc[p].at \in Inquiring => pc[p].o \in Owners
  BY Facts DEF SInv, WInv
<1>2. TimesUsed'
  BY <1>1 DEF TimesUsed
<1>3. OwnTimesPast'
  BY <1>1 DEF OwnTimesPast, OwnerIsCurrent
<1>4. NewsPast'
  BY <1>1 DEF NewsPast
<1>5. OwnerIsCurrent'
  <2> SUFFICES ASSUME NEW x \in Owners, server'.owner = x
               PROVE  /\ 0 < time'[x] /\ time'[x] = server'.time
                      /\ own'[x] \/ (pc'[ProcessOf[x]].o = x /\ pc'[ProcessOf[x]].at \in Inquiring)
                      /\ \A ev \in News(ProcessOf[x])' :
                           ev.type = "clear" /\ ev.window = x => ev.time < server'.time
    BY DEF OwnerIsCurrent
  <2>1. server.owner = x /\ server'.owner # NoOwner
    BY <1>1
  <2>2. 0 < time'[x] /\ time'[x] = server'.time
    BY <1>1, <2>1 DEF OwnerIsCurrent
  <2>3. ASSUME NEW ev \in News(ProcessOf[x])', ev.type = "clear", ev.window = x
        PROVE  ev.time < server'.time
    <3>1. ev \in News(ProcessOf[x])
      BY <1>1, <2>1, <2>3
    <3>2. QED
      BY <1>1, <2>1, <2>3, <3>1 DEF OwnerIsCurrent
  <2>4. QED
    BY <2>1, <2>2, <2>3
<1>6. RetriesAnew'
  <2> SUFFICES ASSUME NEW p \in Processes, pc'[p].at = "retry"
               PROVE  0 < time'[pc'[p].o] /\ time'[pc'[p].o] # server'.time
    BY DEF RetriesAnew
  <2>1. pc'[p] = pc[p] /\ pc[p].at = "retry" /\ pc[p].at \in Inquiring
    BY DEF Inquiring
  <2>2. PICK y \in Owners : y = pc[p].o
    BY <1>1, <2>1
  <2>3. ~own[y] /\ 0 < time[y] /\ time[y] # server.time
    BY <1>1, <2>1, <2>2 DEF AskingIsFound, RetriesAnew
  <2>4. QED
    BY <2>1, <2>2, <2>3
<1>7. QED
  BY <1>2, <1>3, <1>4, <1>5, <1>6

(* An object that owns the selection gives it up.                          *)
LEMMA GivingUp ==
  ASSUME OwnersAssumption, SInv, NEW boxes, Less(boxes), NEW o \in Owners, own[o],
         UNCHANGED <<used, now>>,
         server' = SetOwner(server, NoOwner, time[o]), inbox' = Told(boxes, server, NoOwner, time[o]),
         time' = [time EXCEPT ![o] = 0], ~own'[o],
         \A x \in Owners : own'[x] => own[x] \/ x = server.owner,
         \A x \in Owners : server.owner = x /\ x # o =>
            own'[x] \/ (pc'[ProcessOf[x]].o = x /\ pc'[ProcessOf[x]].at \in Inquiring),
         \A p \in Processes : pc'[p].at = "retry" => pc'[p] = pc[p]
  PROVE  /\ TimesUsed' /\ OwnTimesPast' /\ NewsPast' /\ OwnerIsCurrent' /\ RetriesAnew'
         /\ server.owner # NoOwner /\ server.owner # o => server' = server
<1>1. /\ TypeOK /\ TimesUsed /\ OwnTimesPast /\ NewsPast /\ OwnerIsCurrent
      /\ \A x \in Owners : ProcessOf[x] \in Processes /\ x # NoOwner /\ time[x] \in Nat
      /\ server.time \in Nat /\ now \in Nat /\ server.owner \in Owners \cup {NoOwner}
      /\ time[o] \in Times
  BY Facts DEF SInv, WInv, TypeOK
<1>2. 0 < time[o] /\ time[o] <= server.time
  BY <1>1 DEF OwnTimesPast
<1>3. /\ \/ server.time <= time[o] /\ server' = [owner |-> NoOwner, time |-> time[o]]
         \/ time[o] < server.time /\ server' = server
      /\ \A p \in Processes : \A ev \in News(p)' :
           \/ ev \in News(p)
           \/ ev = Clear(server.owner, time[o]) /\ server.time <= time[o]
  BY <1>1, Setting
<1>4. server'.time = server.time /\ server'.owner \in {server.owner, NoOwner}
  BY <1>1, <1>2, <1>3
<1>5. ASSUME NEW x \in Owners, server'.owner = x PROVE x # o /\ server.owner = x
  <2>1. server.owner = x /\ time[o] < server.time
    BY <1>1, <1>3, <1>5
  <2>2. QED
    BY <1>1, <2>1 DEF OwnerIsCurrent
<1>6. \A x \in Owners : time'[x] = IF x = o THEN 0 ELSE time[x]
  BY <1>1 DEF TypeOK
<1>7. \A p \in Processes : \A ev \in News(p)' :
        ev \in News(p) \/ (ev.time <= server.time /\ server'.owner = NoOwner)
  BY <1>1, <1>2, <1>3 DEF Clear
<1>8. TimesUsed' /\ OwnTimesPast' /\ NewsPast' /\ OwnerIsCurrent' /\ RetriesAnew'
  <2>1. \A x \in Owners : time'[x] \in {time[x], 0} /\ (time'[x] = time[x] \/ own[x])
    BY <1>6
  <2>2. \A x \in Owners : own'[x] => (own[x] \/ x = server.owner) /\ time'[x] = time[x]
    BY <1>6
  <2>3. \A x \in Owners : server'.owner = x =>
          /\ time'[x] = time[x]
          /\ own'[x] \/ (pc'[ProcessOf[x]].o = x /\ pc'[ProcessOf[x]].at \in Inquiring)
    BY <1>5, <1>6
  <2>4. now' \in Nat /\ now <= now' /\ used' = used
    BY <1>1
  <2>5. QED
    BY <1>4, <1>7, <2>1, <2>2, <2>3, <2>4, Keeping
<1>9. ASSUME server.owner # NoOwner, server.owner # o PROVE server' = server
  <2>1. PICK x \in Owners : server.owner = x
    BY <1>1, <1>9
  <2>2. time[x] = server.time /\ 0 < time[x]
    BY <1>1, <2>1 DEF OwnerIsCurrent
  <2>3. time[o] # time[x]
    BY <1>1, <1>2, <1>9, <2>1 DEF TimesUsed
  <2>4. QED
    BY <1>1, <1>2, <1>3, <2>2, <2>3
<1>10. QED
  BY <1>8, <1>9

(* ... by SelLoseOwnership.                                                *)
LEMMA LosesOwn ==
  ASSUME OwnersAssumption, SInv, NEW boxes, Less(boxes), NEW o \in Owners, own[o],
         Lose(o, boxes), UNCHANGED <<used, now>>,
         \A q \in Processes : pc[q].at \in Inquiring => pc'[q] = pc[q],
         \A q \in Processes : pc'[q].at = "retry" => pc'[q] = pc[q]
  PROVE  TimesUsed' /\ OwnTimesPast' /\ NewsPast' /\ OwnerIsCurrent' /\ RetriesAnew'
<1>1. TypeOK /\ OwnerIsCurrent /\ \A x \in Owners : ProcessOf[x] \in Processes
  BY Facts DEF SInv, WInv
<1>2. /\ server' = SetOwner(server, NoOwner, time[o]) /\ inbox' = Told(boxes, server, NoOwner, time[o])
      /\ time' = [time EXCEPT ![o] = 0] /\ ~own'[o]
      /\ \A x \in Owners : own'[x] => own[x]
      /\ \A x \in Owners : x # o => own'[x] = own[x]
  BY <1>1, Lost
<1>3. \A x \in Owners : server.owner = x /\ x # o =>
        own'[x] \/ (pc'[ProcessOf[x]].o = x /\ pc'[ProcessOf[x]].at \in Inquiring)
  BY <1>1, <1>2 DEF OwnerIsCurrent
<1>4. QED
  BY <1>2, <1>3, GivingUp

(* An object asks the server for the selection, with a time of its own.    *)
LEMMA Asks ==
  ASSUME OwnersAssumption, SInv, NEW o \in Owners, NEW t \in Times, 0 < t, t # server.time,
         server.owner # o, ~own[o], UNCHANGED <<own, now>>,
         server' = SetOwner(server, o, t), inbox' = Told(inbox, server, o, t),
         t \in used', used \subseteq used', time'[o] = t,
         \A x \in Owners : x # o => time'[x] = time[x] /\ time[x] # t,
         pc'[ProcessOf[o]].o = o, pc'[ProcessOf[o]].at \in Inquiring \ {"retry"},
         pc[ProcessOf[o]].o \in {o, NoOwner},
         \A q \in Processes : q # ProcessOf[o] => pc'[q] = pc[q]
  PROVE  TimesUsed' /\ OwnTimesPast' /\ NewsPast' /\ OwnerIsCurrent' /\ RetriesAnew'
<1> DEFINE p == ProcessOf[o]
<1>l. Less(inbox)
  BY LessNothing DEF SInv, WInv
<1>1. /\ TypeOK /\ AskingIsFound /\ TimesUsed /\ OwnTimesPast /\ NewsPast /\ OwnerIsCurrent /\ RetriesAnew
      /\ \A x \in Owners : ProcessOf[x] \in Processes /\ x # NoOwner /\ time[x] \in Nat
      /\ server.time \in Nat /\ now \in Nat /\ server.owner \in Owners \cup {NoOwner} /\ t \in Nat
      /\ \A q \in Processes : pc[q].at \in Inquiring => pc[q].o \in Owners
      /\ \A q \in Processes : \A ev \in News(q) : ev.time \in Nat
  BY Facts DEF SInv, WInv, Times, OwnersAssumption
<1>2. /\ \/ server.time < t /\ server' = [owner |-> o, time |-> t]
         \/ t < server.time /\ server' = server
      /\ \A q \in Processes : \A ev \in News(q)' :
           \/ ev \in News(q)
           \/ ev = Clear(server.owner, t) /\ server.time <= t
  BY <1>1, <1>l, Setting
<1>3. TimesUsed'
  BY <1>1, <1>2 DEF TimesUsed
<1>4. OwnTimesPast'
  BY <1>1, <1>2 DEF OwnTimesPast
<1>5. NewsPast'
  <2> SUFFICES ASSUME NEW q \in Processes, NEW ev \in News(q)', ev.type = "clear"
               PROVE  ev.time <= server'.time
    BY DEF NewsPast
  <2>1. CASE ev \in News(q)
    <3>1. ev.time <= server.time /\ ev.time \in Nat
      BY <1>1, <2>1 DEF NewsPast
    <3>2. QED
      BY <1>1, <1>2, <3>1
  <2>2. CASE ev = Clear(server.owner, t) /\ server.time <= t
    BY <1>1, <1>2, <2>2 DEF Clear
  <2>3. QED
    BY <1>2, <2>1, <2>2
<1>6. OwnerIsCurrent'
  <2> SUFFICES ASSUME NEW x \in Owners, server'.owner = x
               PROVE  /\ 0 < time'[x] /\ time'[x] = server'.time
                      /\ own'[x] \/ (pc'[ProcessOf[x]].o = x /\ pc'[ProcessOf[x]].at \in Inquiring)
                      /\ \A ev \in News(ProcessOf[x])' :
                           ev.type = "clear" /\ ev.window = x => ev.time < server'.time
    BY DEF OwnerIsCurrent
  <2>1. CASE server.time < t /\ server' = [owner |-> o, time |-> t]
    <3>1. x = o /\ server'.time = t
      BY <2>1
    <3>2. ASSUME NEW ev \in News(ProcessOf[x])', ev.type = "clear", ev.window = x
          PROVE  ev.time < server'.time
      <4>1. ev \in News(ProcessOf[x])
        BY <1>1, <1>2, <3>1, <3>2 DEF Clear
      <4>2. ev.time <= server.time /\ ev.time \in Nat
        BY <1>1, <3>2, <4>1 DEF NewsPast
      <4>3. QED
        BY <1>1, <2>1, <3>1, <4>2
    <3>3. QED
      BY <3>1, <3>2
  <2>2. CASE t < server.time /\ server' = server
    <3>1. x # o /\ server.owner = x /\ time'[x] = time[x] /\ server'.time = server.time
      BY <2>2
    <3>2. own[x] \/ (pc'[ProcessOf[x]].o = x /\ pc'[ProcessOf[x]].at \in Inquiring)
      BY <1>1, <3>1 DEF OwnerIsCurrent
    <3>3. ASSUME NEW ev \in News(ProcessOf[x])', ev.type = "clear", ev.window = x
          PROVE  ev.time < server'.time
      <4>1. ev \in News(ProcessOf[x])
        BY <1>1, <1>2, <2>2
      <4>2. QED
        BY <1>1, <3>1, <3>3, <4>1 DEF OwnerIsCurrent
    <3>4. QED
      BY <1>1, <3>1, <3>2, <3>3 DEF OwnerIsCurrent
  <2>3. QED
    BY <1>2, <2>1, <2>2
<1>7. RetriesAnew'
  <2> SUFFICES ASSUME NEW q \in Processes, pc'[q].at = "retry"
               PROVE  0 < time'[pc'[q].o] /\ time'[pc'[q].o] # server'.time
    BY DEF RetriesAnew
  <2>1. q # p /\ pc'[q] = pc[q] /\ pc[q].at = "retry" /\ pc[q].at \in Inquiring
    BY <1>1 DEF Inquiring
  <2>2. PICK y \in Owners : y = pc[q].o
    BY <1>1, <2>1
  <2>3. y # o /\ 0 < time[y] /\ time[y] # server.time
    BY <1>1, <2>1, <2>2 DEF AskingIsFound, RetriesAnew, Idle, Inquiring
  <2>4. QED
    BY <1>2, <2>1, <2>2, <2>3
<1>8. QED
  BY <1>3, <1>4, <1>5, <1>6, <1>7

(* A step that leaves the acquisitions alone.                              *)
LEMMA Aside ==
  ASSUME OwnersAssumption, SInv, UNCHANGED <<server, used, own, time>>, now' \in Nat, now <= now',
         \A p \in Processes : pc[p].at \in Inquiring => pc'[p] = pc[p] \/ server.owner # pc[p].o,
         \A p \in Processes : pc'[p].at = "retry" => pc'[p] = pc[p],
         \A p \in Processes : \A ev \in News(p)' : ev.type = "clear" => ev \in News(p)
  PROVE  TimesUsed' /\ OwnTimesPast' /\ NewsPast' /\ OwnerIsCurrent' /\ RetriesAnew'
<1>1. TypeOK /\ OwnerIsCurrent /\ \A x \in Owners : ProcessOf[x] \in Processes
  BY Facts DEF SInv, WInv
<1>2. \A x \in Owners : server'.owner = x =>
         own'[x] \/ (pc'[ProcessOf[x]].o = x /\ pc'[ProcessOf[x]].at \in Inquiring)
  BY <1>1 DEF OwnerIsCurrent
<1>3. server'.time = server.time /\ server'.owner \in {server.owner, NoOwner} /\ used' = used
  OBVIOUS
<1>4. /\ \A x \in Owners : time'[x] \in {time[x], 0} /\ (time'[x] = time[x] \/ own[x])
      /\ \A x \in Owners : own'[x] => (own[x] \/ x = server.owner) /\ time'[x] = time[x]
  OBVIOUS
<1>5. \A x \in Owners : server'.owner = x =>
         /\ time'[x] = time[x]
         /\ own'[x] \/ (pc'[ProcessOf[x]].o = x /\ pc'[ProcessOf[x]].at \in Inquiring)
  BY <1>2
<1>6. \A p \in Processes : \A ev \in News(p)' :
        ev.type = "clear" => ev \in News(p) \/ (ev.time <= server.time /\ server'.owner = NoOwner)
  OBVIOUS
<1>7. QED
  BY <1>3, <1>4, <1>5, <1>6, Keeping

(* A marked object is not made to lose the selection otherwise.            *)
LEMMA OwnsStep ==
  ASSUME OwnersAssumption, SInv, [Next]_vars
  PROVE  LosingOwns'
<1> USE DEF objects
<1>0. /\ TypeOK /\ MarkedIsBusy /\ LosingOwns /\ Less(inbox) /\ losing \subseteq Owners
      /\ \A x \in Owners : ProcessOf[x] \in Processes /\ x # NoOwner
  BY Facts, LessNothing DEF SInv, WInv, TypeOK
<1>1. ASSUME NEW o \in Owners, NEW boxes, Less(boxes), Lose(o, boxes), losing' \subseteq losing \ {o}
      PROVE  LosingOwns'
  BY <1>0, <1>1, Lost DEF LosingOwns
<1>2. ASSUME UNCHANGED own, losing' \subseteq losing PROVE LosingOwns'
  BY <1>0, <1>2 DEF LosingOwns
<1>3. ASSUME NEW o \in Owners, own[o], LoseOrMark(o) PROVE LosingOwns'
  <2>1. CASE o \in busy
    BY <1>0, <1>3, <2>1 DEF LoseOrMark, LosingOwns
  <2>2. CASE o \notin busy
    <3>1. Lose(o, inbox) /\ losing' \subseteq losing \ {o}
      BY <1>0, <1>3, <2>2 DEF LoseOrMark, MarkedIsBusy
    <3>2. QED
      BY <1>0, <1>1, <3>1
  <2>3. QED
    BY <2>1, <2>2
<1>4. ASSUME NEW o \in Owners, Confirmed(o) PROVE LosingOwns'
  <2> DEFINE p == ProcessOf[o]
             other == client[p]
  <2>1. Register(p, o)
    BY <1>4 DEF Confirmed
  <2>2. CASE other \in Owners \ {o} /\ own[other] /\ other \notin busy
    <3>1. PICK y \in Owners : y = other /\ y \notin losing
      BY <1>0, <2>2 DEF MarkedIsBusy
    <3>2. own' = [own EXCEPT ![o] = TRUE, ![y] = FALSE] /\ losing' = losing
      BY <2>1, <2>2, <3>1 DEF Register
    <3>3. QED
      BY <1>0, <3>1, <3>2 DEF LosingOwns, TypeOK
  <2>3. CASE ~(other \in Owners \ {o} /\ own[other] /\ other \notin busy)
    <3>1. /\ own' = [own EXCEPT ![o] = TRUE]
          /\ losing' = losing \cup {x \in busy \ {o} : x = other /\ own[x]}
      BY <2>1, <2>3 DEF Register
    <3>2. busy \subseteq Owners
      BY <1>0 DEF TypeOK
    <3>3. QED
      BY <1>0, <3>1, <3>2 DEF LosingOwns, TypeOK
  <2>4. QED
    BY <2>2, <2>3
<1>5. ASSUME NEW o \in Owners, Disown(o) \/ Destroy(o) PROVE LosingOwns'
  <2>1. CASE own[o]
    BY <1>3, <1>5, <2>1 DEF Disown, Destroy
  <2>2. CASE ~own[o]
    BY <1>2, <1>5, <2>2 DEF Disown, Destroy
  <2>3. QED
    BY <2>1, <2>2
<1>6. ASSUME NEW p \in Processes, HandleClear(p) PROVE LosingOwns'
  <2>1. PICK i \in DOMAIN inbox[p] :
          IF context[p] # NoOwner /\ Clears(context[p], inbox[p][i])
          THEN IF context[p] \in busy
               THEN losing' = losing \cup {context[p]} /\ UNCHANGED own
               ELSE own' = [own EXCEPT ![context[p]] = FALSE] /\ UNCHANGED losing
          ELSE UNCHANGED <<own, losing>>
    BY <1>6 DEF HandleClear
  <2>2. CASE UNCHANGED <<own, losing>>
    BY <1>2, <2>2
  <2>3. CASE own[context[p]] /\ losing' = losing \cup {context[p]} /\ UNCHANGED own
    BY <1>0, <2>3 DEF LosingOwns
  <2>4. CASE /\ context[p] # NoOwner /\ context[p] \notin busy
             /\ own' = [own EXCEPT ![context[p]] = FALSE] /\ UNCHANGED losing
    <3>1. PICK y \in Owners : y = context[p] /\ y \notin losing
      BY <1>0, <2>4 DEF TypeOK, MarkedIsBusy
    <3>2. \A x \in Owners : x # y => own'[x] = own[x]
      BY <1>0, <2>4, <3>1 DEF TypeOK
    <3>3. QED
      BY <1>0, <2>4, <3>1, <3>2 DEF LosingOwns
  <2>5. QED
    BY <2>1, <2>2, <2>3, <2>4 DEF Clears
<1>7. ASSUME NEW o \in Owners, Served(o) PROVE LosingOwns'
  <2>1. losing' \subseteq losing \ {o} /\ (UNCHANGED own \/ Lose(o, inbox))
    BY <1>7 DEF Served
  <2>2. QED
    BY <1>0, <1>1, <1>2, <2>1
<1>8. ASSUME NEW o \in Owners, TooOld(o) \/ TryAgain(o) \/ Failed(o) \/ \E t \in Times : Acquire(o, t)
      PROVE  LosingOwns'
  <2>1. UNCHANGED own /\ losing' \subseteq losing
    BY <1>8 DEF TooOld, TryAgain, Failed, Acquire
  <2>2. QED
    BY <1>2, <2>1
<1>9. ASSUME NEW p \in Processes, HandleRequest(p) PROVE LosingOwns'
  <2>1. CASE Refuse(p) /\ context[p] \in losing
    <3>1. PICK o \in Owners : o = context[p]
      BY <1>0, <2>1
    <3>2. Lose(o, Popped(p)) /\ losing' \subseteq losing \ {o}
      BY <2>1, <3>1 DEF Refuse
    <3>3. Less(Popped(p))
      BY <1>0, <1>9, PoppedLess DEF HandleRequest
    <3>4. QED
      BY <1>1, <3>2, <3>3
  <2>2. CASE UNCHANGED own /\ losing' \subseteq losing
    BY <1>2, <2>2
  <2>3. QED
    BY <1>9, <2>1, <2>2 DEF HandleRequest, Refuse, Serve
<1>10. ASSUME \/ \E p \in Processes : PostRequest(p) \/ EndRequest(p)
              \/ (\E t \in Times : Ask(t)) \/ Tick \/ UNCHANGED vars
       PROVE LosingOwns'
  <2>1. UNCHANGED own /\ losing' \subseteq losing
    BY <1>10 DEF PostRequest, EndRequest, Ask, Tick, vars
  <2>2. QED
    BY <1>2, <2>1
<1>11. QED
  BY <1>4, <1>5, <1>6, <1>7, <1>8, <1>9, <1>10 DEF Next, Going, Handling

(* Every step keeps the invariant if no two acquisitions have one time.    *)
LEMMA SStep ==
  ASSUME OwnersAssumption, DistinctTimes, SInv, [Next]_vars
  PROVE  SInv'
<1> USE DEF objects
<1>0. /\ TypeOK /\ AskingIsFound /\ LosingOwns /\ OfTheProcess
      /\ TimesUsed /\ OwnTimesPast /\ NewsPast /\ OwnerIsCurrent /\ RetriesAnew
      /\ \A x \in Owners : ProcessOf[x] \in Processes /\ x # NoOwner /\ time[x] \in Nat
      /\ server.time \in Nat /\ now \in Nat /\ server.owner \in Owners \cup {NoOwner}
      /\ \A q \in Processes : pc[q].at \in Inquiring => pc[q].o \in Owners
      /\ Idle = [at |-> "idle", o |-> NoOwner] /\ NoOwner \notin Owners /\ Less(inbox)
  BY Facts, LessNothing DEF SInv, WInv, Idle, OwnersAssumption
<1>w. WInv'
  BY WStep DEF SInv
<1> DEFINE Rest == TimesUsed' /\ OwnTimesPast' /\ NewsPast' /\ OwnerIsCurrent' /\ RetriesAnew'
<1>1. ASSUME NEW o \in Owners, Disown(o) PROVE Rest
  <2>0. own[o] /\ UNCHANGED <<pc, used, now>> /\ LoseOrMark(o)
    BY <1>1 DEF Disown
  <2>1. CASE o \notin busy
    <3>1. Lose(o, inbox)
      BY <2>0, <2>1 DEF LoseOrMark
    <3>2. QED
      BY <1>0, <2>0, <3>1, LosesOwn
  <2>2. CASE o \in busy
    <3>1. UNCHANGED <<server, used, now, own, time, pc, inbox>>
      BY <2>0, <2>2 DEF LoseOrMark
    <3>2. \A q \in Processes : News(q)' = News(q)
      BY <3>1 DEF News, ToSet
    <3>3. now' \in Nat /\ now <= now'
      BY <1>0, <3>1
    <3>4. QED
      BY <3>1, <3>2, <3>3, Aside
  <2>3. QED
    BY <2>1, <2>2
<1>2. ASSUME NEW o \in Owners, NEW t \in Times, Acquire(o, t) PROVE Rest
  <2> DEFINE p == ProcessOf[o]
  <2>1. /\ ~own[o] /\ pc[p] = Idle /\ t # 0 /\ t \notin used
        /\ pc' = [pc EXCEPT ![p] = [at |-> "check", o |-> o]]
        /\ time' = [time EXCEPT ![o] = t] /\ used' = used \cup {t} /\ UNCHANGED <<own, now>>
        /\ server' = SetOwner(server, o, t) /\ inbox' = Told(inbox, server, o, t)
    BY <1>2 DEF Acquire, Calls, MayAcquire
  <2>2. /\ pc'[p] = [at |-> "check", o |-> o]
        /\ \A q \in Processes : q # p => pc'[q] = pc[q]
        /\ time'[o] = t /\ \A x \in Owners : x # o => time'[x] = time[x]
    BY <1>0, <2>1 DEF TypeOK
  <2>3. 0 < t /\ t # server.time /\ \A x \in Owners : time[x] # t
    BY <1>0, <2>1 DEF TimesUsed, Times
  <2>4. server.owner # o
    BY <1>0, <2>1 DEF OwnerIsCurrent
  <2>5. /\ pc'[p].o = o /\ pc'[p].at \in Inquiring \ {"retry"} /\ pc[p].o \in {o, NoOwner}
        /\ t \in used' /\ used \subseteq used'
    BY <1>0, <2>1, <2>2 DEF Inquiring
  <2>6. QED
    BY <2>1, <2>2, <2>3, <2>4, <2>5, Asks
<1>3. ASSUME NEW o \in Owners, Confirmed(o) PROVE Rest
  <2> DEFINE p == ProcessOf[o]
             other == client[p]
  <2>1. /\ pc[p].o = o /\ pc[p].at \in Inquiring /\ server.owner = o /\ Register(p, o)
        /\ pc' = [pc EXCEPT ![p] = Idle] /\ UNCHANGED <<used, now>>
    BY <1>3 DEF Confirmed, Inquiring
  <2>2. /\ pc'[p] = Idle /\ \A q \in Processes : q # p => pc'[q] = pc[q]
        /\ \A q \in Processes : pc'[q].at = "retry" => pc'[q] = pc[q]
    BY <1>0, <2>1 DEF TypeOK
  <2>3. CASE other \in Owners \ {o} /\ own[other] /\ other \notin busy
    <3>1. PICK y \in Owners : y = other
      BY <2>3
    <3>2. /\ own[y] /\ y # o
          /\ server' = SetOwner(server, NoOwner, time[y]) /\ inbox' = Told(inbox, server, NoOwner, time[y])
          /\ own' = [own EXCEPT ![o] = TRUE, ![y] = FALSE] /\ time' = [time EXCEPT ![y] = 0]
      BY <2>1, <2>3, <3>1 DEF Register
    <3>3. ~own'[y] /\ own'[o] /\ \A x \in Owners : own'[x] => own[x] \/ x = o
      BY <1>0, <3>2 DEF TypeOK
    <3>4. \A x \in Owners : server.owner = x => own'[x]
      BY <2>1, <3>3
    <3>5. \A x \in Owners : own'[x] => own[x] \/ x = server.owner
      BY <2>1, <3>3
    <3>6. QED
      BY <1>0, <2>1, <2>2, <3>2, <3>3, <3>4, <3>5, GivingUp
  <2>4. CASE ~(other \in Owners \ {o} /\ own[other] /\ other \notin busy)
    <3>1. UNCHANGED <<server, inbox, time>> /\ own' = [own EXCEPT ![o] = TRUE]
      BY <2>1, <2>4 DEF Register
    <3>2. own'[o] /\ \A x \in Owners : own'[x] => own[x] \/ x = server.owner
      BY <1>0, <2>1, <3>1 DEF TypeOK
    <3>3. /\ \A x \in Owners : time'[x] \in {time[x], 0} /\ (time'[x] = time[x] \/ own[x])
          /\ \A x \in Owners : own'[x] => (own[x] \/ x = server.owner) /\ time'[x] = time[x]
          /\ \A x \in Owners : server'.owner = x =>
               /\ time'[x] = time[x]
               /\ own'[x] \/ (pc'[ProcessOf[x]].o = x /\ pc'[ProcessOf[x]].at \in Inquiring)
          /\ used' = used /\ now' \in Nat /\ now <= now'
          /\ server'.time = server.time /\ server'.owner \in {server.owner, NoOwner}
      BY <1>0, <2>1, <3>1, <3>2
    <3>4. \A q \in Processes : \A ev \in News(q)' : ev \in News(q)
      BY <3>1 DEF News, ToSet
    <3>5. QED
      BY <2>2, <3>3, <3>4, Keeping
  <2>5. QED
    BY <2>3, <2>4
<1>4. ASSUME NEW o \in Owners, TooOld(o) PROVE Rest
  <2> DEFINE p == ProcessOf[o]
  <2>1. /\ pc[p] = [at |-> "check", o |-> o] /\ server.owner # o /\ now \notin used
        /\ pc' = [pc EXCEPT ![p] = [at |-> "retry", o |-> o]] /\ time' = [time EXCEPT ![o] = now]
        /\ used' = used \cup {now} /\ UNCHANGED <<server, inbox, own, now>>
    BY <1>4 DEF TooOld
  <2>2. /\ pc'[p] = [at |-> "retry", o |-> o] /\ \A q \in Processes : q # p => pc'[q] = pc[q]
        /\ time'[o] = now /\ \A x \in Owners : x # o => time'[x] = time[x]
        /\ ~own[o] /\ 0 < now /\ now # server.time /\ \A x \in Owners : time[x] # now
    BY <1>0, <2>1 DEF TypeOK, AskingIsFound, Inquiring, TimesUsed
  <2>3. TimesUsed'
    BY <1>0, <2>1, <2>2 DEF TimesUsed
  <2>4. OwnTimesPast'
    BY <1>0, <2>1, <2>2 DEF OwnTimesPast
  <2>5. \A q \in Processes : News(q)' = News(q)
    BY <2>1 DEF News, ToSet
  <2>6. NewsPast'
    BY <1>0, <2>1, <2>5 DEF NewsPast
  <2>7. OwnerIsCurrent'
    <3> SUFFICES ASSUME NEW x \in Owners, server'.owner = x
                 PROVE  /\ 0 < time'[x] /\ time'[x] = server'.time
                        /\ own'[x] \/ (pc'[ProcessOf[x]].o = x /\ pc'[ProcessOf[x]].at \in Inquiring)
                        /\ \A ev \in News(ProcessOf[x])' :
                             ev.type = "clear" /\ ev.window = x => ev.time < server'.time
      BY DEF OwnerIsCurrent
    <3>1. x # o /\ server.owner = x /\ time'[x] = time[x]
      BY <2>1, <2>2
    <3>2. /\ 0 < time[x] /\ time[x] = server.time
          /\ own[x] \/ (pc[ProcessOf[x]].o = x /\ pc[ProcessOf[x]].at \in Inquiring)
          /\ \A ev \in News(ProcessOf[x]) : ev.type = "clear" /\ ev.window = x => ev.time < server.time
      BY <1>0, <3>1 DEF OwnerIsCurrent
    <3>3. own[x] \/ ProcessOf[x] # p
      BY <2>1, <3>1, <3>2
    <3>4. QED
      BY <1>0, <2>1, <2>2, <2>5, <3>1, <3>2, <3>3
  <2>8. RetriesAnew'
    <3> SUFFICES ASSUME NEW q \in Processes, pc'[q].at = "retry"
                 PROVE  0 < time'[pc'[q].o] /\ time'[pc'[q].o] # server'.time
      BY DEF RetriesAnew
    <3>1. CASE q = p
      BY <2>1, <2>2, <3>1
    <3>2. CASE q # p
      <4>1. pc'[q] = pc[q] /\ pc[q].at \in Inquiring
        BY <2>2, <3>2 DEF Inquiring
      <4>2. PICK y \in Owners : y = pc[q].o
        BY <1>0, <4>1
      <4>3. y # o /\ 0 < time[y] /\ time[y] # server.time
        BY <1>0, <3>2, <4>1, <4>2 DEF AskingIsFound, RetriesAnew, Inquiring
      <4>4. QED
        BY <2>1, <2>2, <4>1, <4>2, <4>3
    <3>3. QED
      BY <3>1, <3>2
  <2>9. QED
    BY <2>3, <2>4, <2>6, <2>7, <2>8
<1>5. ASSUME NEW o \in Owners, TryAgain(o) PROVE Rest
  <2> DEFINE p == ProcessOf[o]
  <2>1. /\ pc[p] = [at |-> "retry", o |-> o]
        /\ pc' = [pc EXCEPT ![p] = [at |-> "recheck", o |-> o]]
        /\ server' = SetOwner(server, o, time[o]) /\ inbox' = Told(inbox, server, o, time[o])
        /\ UNCHANGED <<own, time, used, now>> /\ time[o] \in Times
    BY <1>0, <1>5 DEF TryAgain, TypeOK
  <2>2. /\ pc'[p] = [at |-> "recheck", o |-> o] /\ \A q \in Processes : q # p => pc'[q] = pc[q]
        /\ ~own[o] /\ 0 < time[o] /\ time[o] # server.time
    BY <1>0, <2>1 DEF TypeOK, AskingIsFound, RetriesAnew, Inquiring
  <2>3. server.owner # o
    BY <1>0, <2>2 DEF OwnerIsCurrent
  <2>4. \A x \in Owners : x # o => time'[x] = time[x] /\ time[x] # time[o]
    BY <1>0, <2>1, <2>2 DEF TimesUsed
  <2>5. time[o] \in used' /\ used \subseteq used' /\ time'[o] = time[o]
    BY <1>0, <2>1, <2>2 DEF TimesUsed
  <2>6. pc'[p].o = o /\ pc'[p].at \in Inquiring \ {"retry"} /\ pc[p].o \in {o, NoOwner}
    BY <2>1, <2>2 DEF Inquiring
  <2>7. QED
    BY <2>1, <2>2, <2>3, <2>4, <2>5, <2>6, Asks
<1>6. ASSUME NEW o \in Owners, Failed(o) PROVE Rest
  <2>1. /\ pc[ProcessOf[o]] = [at |-> "recheck", o |-> o] /\ server.owner # o
        /\ pc' = [pc EXCEPT ![ProcessOf[o]] = Idle]
        /\ UNCHANGED <<server, inbox, own, time, used, now>>
    BY <1>6 DEF Failed
  <2>2. /\ \A q \in Processes : pc'[q] = IF q = ProcessOf[o] THEN Idle ELSE pc[q]
        /\ \A q \in Processes : News(q)' = News(q)
        /\ now' \in Nat /\ now <= now'
    BY <1>0, <2>1 DEF TypeOK, News, ToSet
  <2>3. /\ \A q \in Processes : pc[q].at \in Inquiring => pc'[q] = pc[q] \/ server.owner # pc[q].o
        /\ \A q \in Processes : pc'[q].at = "retry" => pc'[q] = pc[q]
    BY <1>0, <2>1, <2>2
  <2>4. QED
    BY <2>1, <2>2, <2>3, Aside
<1>7. ASSUME NEW o \in Owners, Destroy(o) PROVE Rest
  <2>0. /\ UNCHANGED <<pc, used, now>>
        /\ IF own[o] THEN LoseOrMark(o) ELSE UNCHANGED <<server, inbox, own, time, losing>>
    BY <1>7 DEF Destroy
  <2>1. CASE own[o] /\ o \notin busy
    <3>1. Lose(o, inbox)
      BY <2>0, <2>1 DEF LoseOrMark
    <3>2. QED
      BY <1>0, <2>0, <2>1, <3>1, LosesOwn
  <2>2. CASE ~(own[o] /\ o \notin busy)
    <3>1. UNCHANGED <<server, inbox, own, time>>
      BY <2>0, <2>2 DEF LoseOrMark
    <3>2. (\A q \in Processes : News(q)' = News(q)) /\ now' \in Nat /\ now <= now'
      BY <1>0, <2>0, <3>1 DEF News, ToSet
    <3>3. QED
      BY <2>0, <3>1, <3>2, Aside
  <2>3. QED
    BY <2>1, <2>2
<1>8. ASSUME NEW t \in Times, Ask(t) PROVE Rest
  <2> DEFINE q == ProcessOf[server.owner]
             e == [type |-> "request", window |-> server.owner, time |-> t]
  <2>1. /\ q \in Processes /\ e \in Event /\ inbox[q] \in Seq(Event)
        /\ inbox' = [inbox EXCEPT ![q] = Append(@, e)] /\ UNCHANGED <<server, now, used, pc, own, time>>
    BY <1>0, <1>8 DEF Ask, TypeOK, OwnersAssumption, Event
  <2>2. ToSet(Append(inbox[q], e)) = ToSet(inbox[q]) \cup {e} /\ e.type = "request"
    BY <2>1, AppendNews
  <2> HIDE DEF q, e
  <2>3. \A r \in Processes : \A ev \in ToSet(inbox'[r]) : ev.type = "clear" => ev \in ToSet(inbox[r])
    BY <1>0, <2>1, <2>2 DEF TypeOK
  <2>4. (\A r \in Processes : \A ev \in News(r)' : ev.type = "clear" => ev \in News(r))
          /\ now' \in Nat /\ now <= now'
    BY <1>0, <2>1, <2>3 DEF News, ToSet
  <2>5. QED
    BY <2>1, <2>4, Aside
<1>9. ASSUME NEW p \in Processes, HandleRequest(p) PROVE Rest
  <2>1. /\ pc[p] = Idle /\ inbox[p] # <<>> /\ Head(inbox[p]).type = "request"
        /\ UNCHANGED <<now, used>>
        /\ Refuse(p) \/ Serve(p)
    BY <1>9 DEF HandleRequest
  <2>2. CASE Refuse(p) /\ context[p] \in losing
    <3>1. PICK o \in Owners : o = context[p] /\ own[o]
      BY <1>0, <2>2 DEF LosingOwns, TypeOK
    <3>2. Lose(o, Popped(p)) /\ UNCHANGED pc
      BY <2>2, <3>1 DEF Refuse
    <3>3. Less(Popped(p))
      BY <1>0, <2>1, PoppedLess
    <3>4. QED
      BY <2>1, <3>1, <3>2, <3>3, LosesOwn
  <2>3. CASE ~(Refuse(p) /\ context[p] \in losing)
    <3>1. /\ inbox' = Popped(p) /\ UNCHANGED <<server, own, time>>
          /\ pc' \in {pc, [pc EXCEPT ![p] = [at |-> "incr", o |-> context[p]]]}
      BY <2>1, <2>3 DEF Refuse, Serve
    <3>2. \A q \in Processes : ToSet(inbox'[q]) \subseteq News(q)
      BY <1>0, <2>1, <3>1, PoppedLess, LessNews
    <3>3. \A q \in Processes : \A ev \in News(q)' : ev \in News(q)
      BY <3>2 DEF News, ToSet
    <3>4. now' \in Nat /\ now <= now'
      BY <1>0, <2>1
    <3>5. /\ \A q \in Processes : pc[q].at \in Inquiring => pc'[q] = pc[q]
          /\ \A q \in Processes : pc'[q].at = "retry" => pc'[q] = pc[q]
      BY <1>0, <2>1, <3>1 DEF TypeOK, Inquiring
    <3>6. QED
      BY <2>1, <3>1, <3>3, <3>4, <3>5, Aside
  <2>4. QED
    BY <2>2, <2>3
<1>10. ASSUME NEW p \in Processes, HandleClear(p) PROVE Rest
  <2>1. PICK i \in DOMAIN inbox[p] :
          /\ inbox[p][i].type = "clear"
          /\ inbox' = [inbox EXCEPT ![p] = RemoveAt(@, i)]
          /\ IF context[p] # NoOwner /\ Clears(context[p], inbox[p][i])
             THEN IF context[p] \in busy
                  THEN UNCHANGED <<own, time>>
                  ELSE own' = [own EXCEPT ![context[p]] = FALSE] /\ time' = [time EXCEPT ![context[p]] = 0]
             ELSE UNCHANGED <<own, time>>
          /\ UNCHANGED <<server, now, used, pc>>
    BY <1>10 DEF HandleClear
  <2> DEFINE ev == inbox[p][i]
  <2>2. /\ ToSet(inbox[p]) = ToSet(RemoveAt(inbox[p], i)) \cup {ev} /\ ev \in Event
        /\ \A q \in Processes : inbox'[q] = IF q = p THEN RemoveAt(inbox[p], i) ELSE inbox[q]
    BY <1>0, <2>1, RemoveNews DEF TypeOK
  <2>3. ev \in News(p) /\ ev.type = "clear" /\ ev.time \in Nat
    BY <2>1, <2>2 DEF News, Event, Times, OwnersAssumption
  <2>4. \A q \in Processes : \A e \in ToSet(inbox'[q]) : e \in ToSet(inbox[q])
    BY <2>2
  <2>5. \A q \in Processes : \A e \in News(q)' : e \in News(q)
    BY <2>4 DEF News, ToSet
  <2> HIDE DEF ev
  <2>6. CASE UNCHANGED <<own, time>>
    <3>1. now' \in Nat /\ now <= now'
      BY <1>0, <2>1
    <3>2. QED
      BY <2>1, <2>5, <2>6, <3>1, Aside
  <2>7. CASE ~UNCHANGED <<own, time>>
    <3>1. PICK y \in Owners : y = context[p] /\ y = ev.window /\ own[y] /\ time[y] <= ev.time
      BY <1>0, <2>1, <2>7 DEF Clears, TypeOK, ev
    <3>2. own' = [own EXCEPT ![y] = FALSE] /\ time' = [time EXCEPT ![y] = 0]
      BY <2>1, <2>7, <3>1
    <3>3. server.owner # y
      <4>1. SUFFICES ASSUME server.owner = y PROVE FALSE
        OBVIOUS
      <4>2. ProcessOf[y] = p
        BY <1>0, <3>1 DEF OfTheProcess
      <4>3. time[y] = server.time /\ ev.time < server.time
        BY <1>0, <2>3, <3>1, <4>1, <4>2 DEF OwnerIsCurrent
      <4>4. QED
        BY <1>0, <2>3, <3>1, <4>3
    <3>4. \A x \in Owners : /\ time'[x] = IF x = y THEN 0 ELSE time[x]
                            /\ own'[x] = IF x = y THEN FALSE ELSE own[x]
      BY <1>0, <3>2 DEF TypeOK
    <3>5. /\ \A x \in Owners : time'[x] \in {time[x], 0} /\ (time'[x] = time[x] \/ own[x])
          /\ \A x \in Owners : own'[x] => (own[x] \/ x = server.owner) /\ time'[x] = time[x]
      BY <3>1, <3>4
    <3>8. /\ now' \in Nat /\ now <= now' /\ used' = used
          /\ server'.time = server.time /\ server'.owner \in {server.owner, NoOwner}
      BY <1>0, <2>1
    <3>6. \A x \in Owners : server'.owner = x =>
            /\ time'[x] = time[x]
            /\ own'[x] \/ (pc'[ProcessOf[x]].o = x /\ pc'[ProcessOf[x]].at \in Inquiring)
      BY <1>0, <2>1, <3>3, <3>4 DEF OwnerIsCurrent
    <3>7. \A q \in Processes : pc'[q].at = "retry" => pc'[q] = pc[q]
      BY <2>1
    <3>9. QED
      BY <2>5, <3>5, <3>6, <3>7, <3>8, Keeping
  <2>8. QED
    BY <2>6, <2>7
<1>11. ASSUME NEW o \in Owners, Served(o) PROVE Rest
  <2> DEFINE p == ProcessOf[o]
  <2>1. /\ pc[p] = [at |-> "incr", o |-> o] /\ pc' = [pc EXCEPT ![p] = Idle] /\ UNCHANGED <<used, now>>
    BY <1>11 DEF Served
  <2>2. /\ pc'[p] = Idle /\ \A q \in Processes : q # p => pc'[q] = pc[q]
        /\ \A q \in Processes : pc'[q].at = "retry" => pc'[q] = pc[q]
        /\ \A q \in Processes : pc[q].at \in Inquiring => pc'[q] = pc[q]
        /\ now' \in Nat /\ now <= now'
    BY <1>0, <2>1 DEF TypeOK, Inquiring
  <2>3. CASE UNCHANGED <<server, inbox, own, time>>
    <3>1. \A q \in Processes : News(q)' = News(q)
      BY <2>3 DEF News, ToSet
    <3>2. QED
      BY <2>1, <2>2, <2>3, <3>1, Aside
  <2>4. CASE Lose(o, inbox) /\ own[o]
    BY <1>0, <2>1, <2>2, <2>4, LosesOwn
  <2>5. o \in losing => own[o]
    BY <1>0 DEF LosingOwns
  <2>6. QED
    BY <1>11, <2>3, <2>4, <2>5 DEF Served
<1>12. ASSUME NEW p \in Processes, PostRequest(p) \/ EndRequest(p) PROVE Rest
  <2>1. UNCHANGED <<server, used, now, own, time, pc, inbox>>
    BY <1>12 DEF PostRequest, EndRequest
  <2>2. (\A q \in Processes : News(q)' = News(q)) /\ now' \in Nat /\ now <= now'
    BY <1>0, <2>1 DEF News, ToSet
  <2>3. QED
    BY <2>1, <2>2, Aside
<1>13. ASSUME Tick \/ UNCHANGED vars PROVE Rest
  <2>1. UNCHANGED <<server, used, own, time, pc, inbox>> /\ now' \in {now, now + 1}
    BY <1>13 DEF Tick, vars
  <2>2. \A q \in Processes : News(q)' = News(q)
    BY <2>1 DEF News, ToSet
  <2>3. now' \in Nat /\ now <= now'
    BY <1>0, <2>1
  <2>4. QED
    BY <2>1, <2>2, <2>3, Aside
<1>14. Rest
  BY <1>1, <1>2, <1>3, <1>4, <1>5, <1>6, <1>7, <1>8, <1>9, <1>10, <1>11, <1>12, <1>13
     DEF Next, Going, Handling
<1>15. QED
  BY <1>w, <1>14, OwnsStep DEF SInv

-----------------------------------------------------------------------------
(* The theorems.                                                           *)

(* The initial states.                                                     *)
LEMMA Start == ASSUME OwnersAssumption, Init PROVE SInv
<1>1. 0 \in Times /\ 1 \in Times /\ 1 > 0
  BY DEF Times, OwnersAssumption
<1>2. TypeOK
  BY <1>1 DEF Init, TypeOK, OwnersAssumption
<1>3. \A p \in Processes : pc[p] = Idle /\ pc[p].at = "idle" /\ inbox[p] = <<>>
  BY DEF Init, Idle
<1>4. \A p \in Processes : News(p) = {}
  <2>1. \A p \in Processes : inbox[p] = <<>>
    BY DEF Init
  <2>2. ToSet(<<>>) = {}
    BY DEF ToSet
  <2>3. QED
    BY <2>1, <2>2 DEF News
<1>5. AskingIsFound /\ MarkedIsBusy /\ Registered /\ OfTheProcess /\ DiesBusy /\ NotAhead
  BY <1>3 DEF Init, AskingIsFound, MarkedIsBusy, Registered, OfTheProcess, DiesBusy, NotAhead,
              Inquiring, OwnersAssumption
<1>6. OwnsOrLearns /\ FindsNoOther
  BY DEF Init, OwnsOrLearns, FindsNoOther
<1>7. LosingOwns /\ TimesUsed /\ OwnTimesPast /\ OwnerIsCurrent
  BY <1>1 DEF Init, LosingOwns, TimesUsed, OwnTimesPast, OwnerIsCurrent, OwnersAssumption
<1>8. NewsPast /\ RetriesAnew
  BY <1>3, <1>4 DEF NewsPast, RetriesAnew
<1>9. QED
  BY <1>2, <1>5, <1>6, <1>7, <1>8 DEF SInv, WInv

(* Whatever the processes do and whatever the times are, the variables     *)
(* keep their types (TypeOK).                                              *)
THEOREM TypeCorrect == Spec => []TypeOK
<1>1. Init => TypeOK
  BY OwnersAssumption, Start DEF SInv, WInv
<1>2. TypeOK /\ [Next]_vars => TypeOK'
  BY OwnersAssumption, TypeStep
<1>3. QED
  BY <1>1, <1>2, PTL DEF Spec

(* An object that believes it owns the selection, and that its process     *)
(* finds, owns it or will be told otherwise; its process finds no other    *)
(* one (SEL_OWN, SEL_LOSE, SelectionClear, RegisterSelClient); unless an   *)
(* obsolete client has left the object busy.                               *)
THEOREM BelievesRightlyAlways == Spec => []BelievesRightly
<1>1. Init => WInv
  BY OwnersAssumption, Start DEF SInv
<1>2. WInv /\ [Next]_vars => WInv'
  BY OwnersAssumption, WStep
<1>3. WInv => BelievesRightly
  BY DEF WInv, OwnsOrLearns, OwnsOrHears, FindsNoOther, BelievesRightly
<1>4. QED
  BY <1>1, <1>2, <1>3, PTL DEF Spec

(* The strengthened invariant always holds.                                *)
LEMMA Invariance == ASSUME DistinctTimes PROVE Spec => []SInv
<1>1. Init => SInv
  BY OwnersAssumption, Start
<1>2. SInv /\ [Next]_vars => SInv'
  BY OwnersAssumption, DistinctTimes, SStep
<1>3. QED
  BY <1>1, <1>2, PTL DEF Spec

(* If no two acquisitions have the same time, the owner that the server    *)
(* names believes it, or is about to (sel_set_ownership, the handler of    *)
(* SelectionClear, SelLoseOwnership); it has not been destroyed, unless    *)
(* that was done when it was busy.                                         *)
THEOREM OwnerKnowsAlways == ASSUME DistinctTimes PROVE Spec => []OwnerKnows
<1>1. Spec => []SInv
  BY Invariance
<1>2. SInv => OwnerKnows
  <2> SUFFICES ASSUME SInv, server.owner # NoOwner
               PROVE  \/ own[server.owner] /\ (server.owner \in alive \/ Stuck(server.owner))
                      \/ pc[ProcessOf[server.owner]].o = server.owner
    BY DEF OwnerKnows, SInv, WInv
  <2> DEFINE o == server.owner
  <2>1. OwnerIsCurrent /\ DiesBusy /\ o \in Owners
    BY OwnersAssumption, Facts DEF SInv, WInv
  <2>2. CASE pc[ProcessOf[o]].o = o
    BY <2>2
  <2>3. CASE pc[ProcessOf[o]].o # o
    <3>1. own[o] /\ o \in alive \cup busy
      BY <2>1, <2>3 DEF OwnerIsCurrent, DiesBusy
    <3>2. pc[ProcessOf[o]] # [at |-> "incr", o |-> o]
      BY <2>3
    <3>3. QED
      BY <3>1, <3>2 DEF Stuck
  <2>4. QED
    BY <2>2, <2>3
<1>3. QED
  BY <1>1, <1>2, PTL

(* Only what the server confirms makes an object believe that it owns.     *)
LEMMA OnlyConfirmed ==
  ASSUME OwnersAssumption, TypeOK, [Next]_vars, NEW o \in Owners, ~own[o], own'[o]
  PROVE  Confirmed(o)
<1> USE DEF objects
<1>1. ASSUME own' = own \/ \E x : own' = [own EXCEPT ![x] = FALSE] PROVE FALSE
  BY <1>1 DEF TypeOK
<1>2. ASSUME NEW c \in Owners, Confirmed(c) PROVE c = o
  <2>1. \/ own' = [own EXCEPT ![c] = TRUE]
        \/ own' = [own EXCEPT ![c] = TRUE, ![client[ProcessOf[c]]] = FALSE]
    BY <1>2 DEF Confirmed, Register
  <2>2. QED
    BY <2>1 DEF TypeOK
<1>3. ASSUME NEW c \in Owners, Disown(c) \/ Destroy(c) \/ Served(c) PROVE FALSE
  BY <1>1, <1>3 DEF Disown, Destroy, Served, LoseOrMark, Lose
<1>4. ASSUME NEW c \in Owners, TooOld(c) \/ TryAgain(c) \/ Failed(c) \/ \E t \in Times : Acquire(c, t)
      PROVE  FALSE
  BY <1>1, <1>4 DEF TooOld, TryAgain, Failed, Acquire
<1>5. ASSUME NEW p \in Processes, HandleClear(p) PROVE FALSE
  <2>1. own' = own \/ own' = [own EXCEPT ![context[p]] = FALSE]
    BY <1>5 DEF HandleClear
  <2>2. QED
    BY <1>1, <2>1
<1>6. ASSUME NEW p \in Processes, HandleRequest(p) \/ PostRequest(p) \/ EndRequest(p) PROVE FALSE
  BY <1>1, <1>6 DEF HandleRequest, Refuse, Serve, Lose, PostRequest, EndRequest
<1>7. ASSUME (\E t \in Times : Ask(t)) \/ Tick \/ UNCHANGED vars PROVE FALSE
  BY <1>1, <1>7 DEF Ask, Tick, vars
<1>8. \E c \in Owners : Confirmed(c)
  BY <1>3, <1>4, <1>5, <1>6, <1>7 DEF Next, Going, Handling
<1>9. QED
  BY <1>2, <1>8

(* Another object of the process that had it is told to lose what is over. *)
LEMMA ConfirmedStays ==
  ASSUME OwnersAssumption, SInv, NEW o \in Owners, Confirmed(o)
  PROVE  server'.owner = o
<1> DEFINE p == ProcessOf[o]
           other == client[p]
<1>1. /\ TypeOK /\ o # NoOwner /\ p \in Processes
      /\ server.owner = o /\ Register(p, o) /\ pc' = [pc EXCEPT ![p] = Idle] /\ UNCHANGED <<used, now>>
  BY Facts DEF Confirmed, SInv, WInv
<1>l. Less(inbox)
  BY <1>1, LessNothing
<1>2. CASE other \in Owners \ {o} /\ own[other] /\ other \notin busy
  <2>1. PICK y \in Owners : y = other
    BY <1>2
  <2>2. /\ own[y] /\ y # o
        /\ server' = SetOwner(server, NoOwner, time[y]) /\ inbox' = Told(inbox, server, NoOwner, time[y])
        /\ own' = [own EXCEPT ![o] = TRUE, ![y] = FALSE] /\ time' = [time EXCEPT ![y] = 0]
    BY <1>1, <1>2, <2>1 DEF Register
  <2>3. ~own'[y] /\ own'[o] /\ \A x \in Owners : own'[x] => own[x] \/ x = server.owner
    BY <1>1, <2>2 DEF TypeOK
  <2>4. \A x \in Owners : server.owner = x /\ x # y =>
          own'[x] \/ (pc'[ProcessOf[x]].o = x /\ pc'[ProcessOf[x]].at \in Inquiring)
    BY <1>1, <2>3
  <2>5. \A q \in Processes : pc'[q].at = "retry" => pc'[q] = pc[q]
    BY <1>1 DEF TypeOK, Idle
  <2>6. server.owner # NoOwner /\ server.owner # y => server' = server
    BY <1>1, <1>l, <2>2, <2>3, <2>4, <2>5, GivingUp
  <2>7. QED
    BY <1>1, <2>2, <2>6
<1>3. CASE ~(other \in Owners \ {o} /\ own[other] /\ other \notin busy)
  BY <1>1, <1>3 DEF Register
<1>4. QED
  BY <1>2, <1>3

(* If no two acquisitions have the same time, what an object of a process  *)
(* has just acquired is not given up by the other object of the process    *)
(* that loses it (RegisterSelClient).                                      *)
THEOREM NewOneKeepsItAlways == ASSUME DistinctTimes PROVE Spec => NewOneKeepsIt
<1>1. Spec => []SInv
  BY Invariance
<1>2. SInv /\ [Next]_vars
        => [\A o \in Owners : pc[ProcessOf[o]].at # "idle" /\ ~own[o] /\ own'[o] => server'.owner = o]_vars
  <2> SUFFICES ASSUME SInv, [Next]_vars, NEW o \in Owners, ~own[o], own'[o]
               PROVE  server'.owner = o
    OBVIOUS
  <2>1. Confirmed(o)
    BY OwnersAssumption, OnlyConfirmed DEF SInv, WInv
  <2>2. QED
    BY OwnersAssumption, <2>1, ConfirmedStays
<1>3. QED
  BY <1>1, <1>2, PTL DEF Spec, NewOneKeepsIt

-----------------------------------------------------------------------------
(* The requests.                                                           *)

(* The sets of slots, requests, values of a property, and messages.        *)
Slot   == [done : BOOLEAN, r : Ids]
Made   == [blocking : BOOLEAN, target : Targets \cup {Multiple}, property : Properties,
           pairs : Seq(Pair), time : Nat]
Values == {Nothing} \cup {Data(t) : t \in Targets} \cup {List(l) : l \in Seq(Pair)}
Whole  == Targets \cup {Multiple}
Message == [target : Whole, property : Properties \cup {0}, time : Nat]

(* The places in a reading.                                                *)
Reading == [r : Ids \cup {0}, at : {"out", "read", "called"}, pairs : Seq(Pair), got : Values]

(* The types, those included that RequestsTypeOK leaves open.                      *)
Typed ==
  /\ request \in Seq(Made) /\ Len(request) <= MaxRequests
  /\ timer \subseteq Ids /\ taken \subseteq Properties
  /\ value \in [Properties -> Values] /\ inside \in Reading /\ waiting \in Ids \cup {0}
  /\ calls \in Seq(Message) /\ events \in Seq(Message)

(* Which requests exist, and that a reply_proc is called for some target.  *)
Exist ==
  /\ waiting \in DOMAIN request \cup {0} /\ inside.r \in DOMAIN request \cup {0}
  /\ IF inside.r = 0 THEN inside = Outside ELSE inside.at # "out"
  /\ inside.at = "called" => inside.pairs # <<>>
  /\ waiting # 0 => inside = Outside

(* Later requests have later times.                                        *)
Later == \A r, s \in DOMAIN request : r < s => request[r].time < request[s].time

(* The requests that are pending in a table, each in one slot.             *)
PendingIn(slots) == {slots[i].r : i \in {j \in DOMAIN slots : ~slots[j].done}}
Tabled(slots) ==
  /\ slots \in Seq(Slot)
  /\ \A i \in DOMAIN slots : slots[i].r \in DOMAIN request
  /\ \A i, j \in DOMAIN slots : ~slots[i].done /\ ~slots[j].done /\ slots[i].r = slots[j].r => i = j

(* The pool is large enough for the requests that are still to come.       *)
Enough == IsFiniteSet(taken) /\ Cardinality(taken) <= Len(request) * (1 + Len(ListOf))

(* A request has pairs only if it is for several targets; its properties   *)
(* differ from each other.                                                 *)
WellMade(q) ==
  /\ q.target # Multiple => q.pairs = <<>>
  /\ \A i \in DOMAIN q.pairs : q.pairs[i].property \in Properties \ {q.property}
  /\ \A i, j \in DOMAIN q.pairs : q.pairs[i].property = q.pairs[j].property => i = j

(* What the owner reads and writes refers to requests that were made.      *)
Of(m, q) == m.time = q.time /\ m.target = q.target /\ m.property \in {None, q.property}
Referring ==
  /\ \A k \in DOMAIN events : \E s \in DOMAIN request : Of(events[k], request[s])
  /\ \A k \in DOMAIN calls : \E s \in DOMAIN request : Of(calls[k], request[s]) /\ calls[k].property = request[s].property

Base == /\ Typed /\ Exist /\ Later /\ Tabled(table) /\ timer = Pending /\ Enough /\ Referring
        /\ \A r \in DOMAIN request : WellMade(request[r])

-----------------------------------------------------------------------------
(* A property that a request under way may use is in no later request.     *)
LaterApart == \A r \in Open, s \in DOMAIN request : r < s => PropertiesOf(r) \cap PropertiesOf(s) = {}

(* The properties of a request are not avail until it has been read.       *)
Untouched(r) == inside.r # r \/ (request[r].target # Multiple /\ inside.pairs # <<>>)
Reserved == \A r \in Open : Untouched(r) => PropertiesOf(r) \subseteq taken

(* A list that a request has left is its own, or of a later one, with some *)
(* pairs refused.                                                          *)
FromPairs(l, pairs) ==
  /\ Len(l) = Len(pairs)
  /\ \A i \in DOMAIN l : l[i].target = pairs[i].target /\ l[i].property \in {None, pairs[i].property}
ListsFrom ==
  /\ ListOf = <<>> => \A p \in Properties : value[p].is # "pairs"
  /\ \A r \in DOMAIN request : request[r].target = Multiple /\ value[request[r].property].is = "pairs" =>
       \E s \in DOMAIN request : /\ r <= s /\ request[s].property = request[r].property
                                 /\ FromPairs(value[request[r].property].pairs, request[s].pairs)

(* What is read is of the request's own properties.                        *)
ReadsOwn ==
  inside.r # 0 =>
    /\ \A i \in DOMAIN inside.pairs : inside.pairs[i].property \in {None} \cup PropertiesOf(inside.r)
    /\ request[inside.r].target # Multiple => Len(inside.pairs) <= 1

Apart == LaterApart /\ Reserved /\ ListsFrom /\ ReadsOwn

-----------------------------------------------------------------------------
(* The owner answers in order.                                             *)
InOrder ==
  /\ \A i, j \in DOMAIN calls : i < j => calls[i].time < calls[j].time
  /\ \A k \in DOMAIN events, j \in DOMAIN calls : events[k].time < calls[j].time
  /\ inside.r # 0 => \A j \in DOMAIN calls : request[inside.r].time < calls[j].time

(* A pair has been converted, or refused, or read already.                 *)
Good(v, pr) == pr.property # None => v[pr.property] \in {Nothing, Data(pr.target)}

(* What a request asked for has been left in its properties.               *)
Fine(v, q) ==
  IF q.target # Multiple THEN Good(v, [target |-> q.target, property |-> q.property])
  ELSE v[q.property].is = "pairs" => \A i \in DOMAIN v[q.property].pairs : Good(v, v[q.property].pairs[i])

(* An answer on its way to its request finds what it says.                 *)
Arrives ==
  \A r \in Open, k \in DOMAIN events :
    events[k].time = request[r].time /\ events[k].property # None => Fine(value, request[r])

(* So does the reading, and the reply_proc.                                *)
ReadsGood ==
  /\ \A i \in DOMAIN inside.pairs : Good(value, inside.pairs[i])
  /\ inside.at = "called" => inside.got = Data(Head(inside.pairs).target)

Delivered == InOrder /\ Arrives /\ ReadsGood

-----------------------------------------------------------------------------
(* The pool of properties.                                                 *)

(* A set of numbers that is not empty has a least element.                 *)
LEMMA Least ==
  ASSUME NEW T, T \subseteq Nat, T # {}
  PROVE  \E x \in T : \A y \in T : x <= y
<1>1. IsWellFoundedOn(OpToRel(<, Nat), Nat)
  BY NatLessThanWellFounded
<1>2. PICK x \in T : \A y \in T : ~ (<<y, x>> \in OpToRel(<, Nat))
  BY <1>1, WFMin
<1>3. \A m, n \in Nat : m < n => <<m, n>> \in OpToRel(<, Nat)
  BY DEF OpToRel
<1>4. \A y \in T : ~ (y < x)
  BY <1>2, <1>3
<1> QED BY <1>4

(* How many members of a set are below m.                                  *)
Under(S, m) == Cardinality({q \in S : q < m})

(* A set of n numbers has a k-th smallest for each k up to n: one less     *)
(* than the least number that has k of them below it.                      *)
LEMMA KthSmallest ==
  ASSUME NEW M \in Nat, NEW S \in SUBSET (1..M), NEW k \in Nat, k >= 1, k <= Cardinality(S)
  PROVE  \E p \in S : Under(S, p) = k - 1
<1>0. \A q \in S : q \in Nat /\ 1 <= q /\ q <= M
  OBVIOUS
<1>1. IsFiniteSet(1..M)
  BY FS_Interval
<1>2. \A m \in Nat : IsFiniteSet({q \in S : q < m}) /\ Under(S, m) \in Nat
  <2>1. \A m \in Nat : {q \in S : q < m} \in SUBSET (1..M)
    OBVIOUS
  <2>2. \A m \in Nat : IsFiniteSet({q \in S : q < m})
    BY <2>1, <1>1, FS_Subset
  <2> QED BY <2>2, FS_CardinalityType DEF Under
<1> DEFINE T == {m \in Nat : k <= Under(S, m)}
<1>3. M + 1 \in T
  <2>0. \A q \in S : q < M + 1
    BY <1>0
  <2>1. {q \in S : q < M + 1} = S
    BY <2>0
  <2> QED BY <2>1 DEF Under
<1>4. PICK m \in T : \A n \in T : m <= n
  <2>1. T \subseteq Nat /\ T # {}
    BY <1>3
  <2> QED BY <2>1, Least
<1>5. m \in Nat /\ k <= Under(S, m)
  BY <1>4
<1>6. m # 0
  <2>0. \A q \in S : ~ (q < 0)
    BY <1>0
  <2>1. {q \in S : q < 0} = {}
    BY <2>0
  <2>2. Under(S, 0) = 0
    BY <2>1, FS_EmptySet DEF Under
  <2> QED BY <2>2, <1>5
<1>7. m - 1 \in Nat /\ ~ (k <= Under(S, m - 1))
  <2>1. m - 1 \in Nat /\ ~ (m <= m - 1)
    BY <1>5, <1>6
  <2> QED BY <2>1, <1>4
<1>8. {q \in S : q < m} = IF m - 1 \in S THEN {q \in S : q < m - 1} \cup {m - 1} ELSE {q \in S : q < m - 1}
  <2>1. \A q \in S : q < m <=> (q = m - 1 \/ q < m - 1)
    BY <1>0, <1>5
  <2>2. CASE m - 1 \in S
    BY <2>1, <2>2
  <2>3. CASE m - 1 \notin S
    BY <2>1, <2>3
  <2> QED BY <2>2, <2>3
<1>9. m - 1 \in S
  <2> SUFFICES ASSUME m - 1 \notin S PROVE FALSE
    OBVIOUS
  <2>1. Under(S, m) = Under(S, m - 1)
    BY <1>8 DEF Under
  <2> QED BY <2>1, <1>5, <1>7
<1>10. Under(S, m) = Under(S, m - 1) + 1
  <2>1. m - 1 \notin {q \in S : q < m - 1} /\ IsFiniteSet({q \in S : q < m - 1})
    BY <1>2, <1>7
  <2>2. Cardinality({q \in S : q < m - 1} \cup {m - 1}) = Cardinality({q \in S : q < m - 1}) + 1
    BY <2>1, FS_AddElement
  <2> QED BY <2>2, <1>8, <1>9 DEF Under
<1>11. Under(S, m - 1) = k - 1
  <2>1. PICK u \in Nat : u = Under(S, m - 1)
    BY <1>2, <1>7
  <2>2. k <= u + 1 /\ ~ (k <= u)
    BY <2>1, <1>5, <1>7, <1>10
  <2> QED BY <2>1, <2>2
<1> QED BY <1>9, <1>11

(* How many properties a request may need, and how many there are.         *)
Some == 1 + Len(ListOf)

(* These are numbers.                                                      *)
LEMMA ListIs == Len(ListOf) \in Nat /\ Some \in Nat /\ Some >= 1 /\ MaxRequests * Some \in Nat /\ MaxRequests \in Nat
                /\ Properties = 1..(MaxRequests * Some) /\ IsFiniteSet(Properties)
                /\ Cardinality(Properties) = MaxRequests * Some
<1>1. Len(ListOf) \in Nat /\ Some \in Nat /\ Some >= 1 /\ MaxRequests \in Nat
  BY RequestsAssumption DEF Some
<1>2. MaxRequests * Some \in Nat
  <2>1. \A a, b \in Nat : a * b \in Nat
    OBVIOUS
  <2> QED BY <2>1, <1>1
<1>3. Properties = 1..(MaxRequests * Some)
  BY DEF Properties, Some
<1>4. IsFiniteSet(1..(MaxRequests * Some)) /\ Cardinality(1..(MaxRequests * Some)) = MaxRequests * Some
  <2>1. PICK n \in Nat : n = MaxRequests * Some
    BY <1>2
  <2>2. IsFiniteSet(1..n) /\ Cardinality(1..n) = n
    BY FS_Interval
  <2> QED BY <2>1, <2>2
<1> QED BY <1>1, <1>2, <1>3, <1>4

(* While requests may still be made enough properties are avail, and they  *)
(* are taken from the pool one after the other.                            *)
LEMMA AvailableIs ==
  ASSUME Enough, taken \subseteq Properties, Len(request) \in Nat, Len(request) + 1 <= MaxRequests
  PROVE  /\ \A k \in 1..Some : Available[k] \in Properties \ taken
         /\ \A j, k \in 1..Some : Available[j] = Available[k] => j = k
         /\ Available \in Seq(Properties) /\ Len(Available) = Some
<1> DEFINE free == Properties \ taken
<1>1. Some <= Cardinality(free)
  <2>1. Cardinality(free) = MaxRequests * Some - Cardinality(taken) /\ Cardinality(taken) \in Nat
    <3>1. Properties \cap taken = taken
      OBVIOUS
    <3>2. Cardinality(free) = Cardinality(Properties) - Cardinality(Properties \cap taken)
      BY ListIs, FS_Difference
    <3>3. Cardinality(taken) \in Nat
      BY FS_CardinalityType DEF Enough
    <3> QED BY <3>1, <3>2, <3>3, ListIs
  <2>2. Cardinality(taken) <= Len(request) * Some
    BY DEF Enough, Some
  <2>3. \A a, b, c \in Nat : a + 1 <= b => a * c + c <= b * c
    OBVIOUS
  <2>4. Len(request) * Some + Some <= MaxRequests * Some
    BY <2>3, ListIs
  <2>5. Len(request) * Some \in Nat
    <3>1. \A a, b \in Nat : a * b \in Nat
      OBVIOUS
    <3> QED BY <3>1, ListIs
  <2>6. PICK x \in Nat, y \in Nat, z \in Nat : x = MaxRequests * Some /\ y = Len(request) * Some /\ z = Cardinality(taken)
    BY <2>1, <2>5, ListIs
  <2>7. Cardinality(free) = x - z /\ z <= y /\ y + Some <= x /\ Some \in Nat
    BY <2>1, <2>2, <2>4, <2>6, ListIs
  <2> QED BY <2>6, <2>7
<1>2. \A k \in 1..Some : \E p \in free : Under(free, p) = k - 1
  <2>1. PICK M \in Nat : Properties = 1..M
    BY ListIs
  <2>2. free \in SUBSET (1..M)
    BY <2>1
  <2>3. Cardinality(free) \in Nat
    <3>1. IsFiniteSet(free)
      BY ListIs, FS_Subset
    <3> HIDE DEF free
    <3> QED BY <3>1, FS_CardinalityType
  <2> HIDE DEF free
  <2> TAKE k \in 1..Some
  <2>4. k \in Nat /\ k >= 1 /\ k <= Cardinality(free)
    BY <1>1, <2>3, ListIs
  <2> QED BY <2>2, <2>4, KthSmallest
<1>3. Available = [k \in 1..Some |-> CHOOSE p \in free : Under(free, p) = k - 1]
  BY DEF Available, Some, Under
<1>4. ASSUME NEW k \in 1..Some PROVE Available[k] \in free /\ Under(free, Available[k]) = k - 1
  BY <1>2, <1>3
<1>5. \A j, k \in 1..Some : Available[j] = Available[k] => j = k
  BY <1>4, ListIs
<1>6. Available \in [1..Some -> Properties]
  BY <1>3, <1>4
<1>7. Available \in Seq(Properties) /\ Len(Available) = Some
  <2>1. PICK n \in Nat : n = Some
    BY ListIs
  <2>2. Available \in [1..n -> Properties]
    BY <1>6, <2>1
  <2>3. Available \in Seq(Properties) /\ Len(Available) = n
    BY <2>2
  <2> QED BY <2>1, <2>3
<1> QED BY <1>4, <1>5, <1>7

-----------------------------------------------------------------------------
(* The table.                                                              *)

(* The first place that fits is one that fits.                             *)
LEMMA LeastIs ==
  ASSUME NEW n \in Nat, NEW I \in SUBSET (1..n), I # {}
  PROVE  Min(I) \in I
<1>1. I \subseteq Nat
  OBVIOUS
<1>2. \E x \in I : \A y \in I : x <= y
  BY <1>1, Least
<1> QED BY <1>2 DEF Min

(* The slot of a request is found by its time, if it is pending.           *)
LEMMA SlotIs ==
  ASSUME Tabled(table), Later, request \in Seq(Made), NEW r \in DOMAIN request
  PROVE  \/ SlotOf(r) = 0 /\ r \notin Pending
         \/ /\ SlotOf(r) \in DOMAIN table /\ ~table[SlotOf(r)].done /\ table[SlotOf(r)].r = r
            /\ SlotOf(r) # 0
<1> DEFINE I == {i \in 1..Len(table) : /\ ~table[i].done
                                       /\ request[table[i].r].target = request[r].target
                                       /\ request[table[i].r].property = request[r].property
                                       /\ request[table[i].r].time = request[r].time}
<1>1. SlotOf(r) = IF I # {} THEN Min(I) ELSE 0
  BY DEF SlotOf, First, SelectInSeq
<1>2. Len(table) \in Nat /\ DOMAIN table = 1..Len(table)
  BY DEF Tabled
<1>3. \A s \in DOMAIN request : request[s].time = request[r].time => s = r
  <2>1. \A s \in DOMAIN request : s \in Nat /\ request[s].time \in Nat
    <3>1. \A s \in DOMAIN request : s \in Nat /\ request[s] \in Made
      OBVIOUS
    <3> QED BY <3>1 DEF Made
  <2> QED BY <2>1 DEF Later
<1>4. \A i \in I : i \in DOMAIN table /\ ~table[i].done /\ table[i].r = r
  BY <1>2, <1>3 DEF Tabled
<1>5. r \in Pending => I # {}
  BY <1>2 DEF Pending
<1>6. I # {} => Min(I) \in I /\ Min(I) # 0
  <2>1. I \in SUBSET (1..Len(table))
    OBVIOUS
  <2>2. \A i \in I : i # 0
    BY <1>2
  <2> HIDE DEF I
  <2> QED BY <2>1, <2>2, <1>2, LeastIs
<1> HIDE DEF I
<1> QED BY <1>1, <1>4, <1>5, <1>6

(* The request that a target finds is pending, and for that target.        *)
LEMMA AskingIs ==
  ASSUME Tabled(table), NEW t
  PROVE  Asking(t) = 0 \/ (Asking(t) \in Pending /\ Asking(t) \in DOMAIN request /\ request[Asking(t)].target = t)
<1> DEFINE I == {i \in 1..Len(table) : ~table[i].done /\ request[table[i].r].target = t}
           i0 == IF I # {} THEN Min(I) ELSE 0
<1>1. Asking(t) = IF i0 = 0 THEN 0 ELSE table[i0].r
  BY DEF Asking, First, SelectInSeq
<1>2. Len(table) \in Nat /\ DOMAIN table = 1..Len(table)
  BY DEF Tabled
<1>3. I # {} => Min(I) \in I
  <2>1. I \in SUBSET (1..Len(table))
    OBVIOUS
  <2> HIDE DEF I
  <2> QED BY <2>1, <1>2, LeastIs
<1>4. \A i \in I : table[i].r \in Pending /\ table[i].r \in DOMAIN request /\ request[table[i].r].target = t
  BY <1>2 DEF Pending, Tabled
<1> HIDE DEF I
<1> QED BY <1>1, <1>3, <1>4

(* A new request is pending after it has been entered.                     *)
LEMMA EnteredIs ==
  ASSUME Tabled(table), NEW r \in Ids, r \notin DOMAIN request, r \in DOMAIN request',
         \A s \in DOMAIN request : s \in DOMAIN request'
  PROVE  /\ Entered(r) \in Seq(Slot) /\ PendingIn(Entered(r)) = Pending \cup {r}
         /\ \A i \in DOMAIN Entered(r) : Entered(r)[i].r \in DOMAIN request'
         /\ \A i, j \in DOMAIN Entered(r) :
              ~Entered(r)[i].done /\ ~Entered(r)[j].done /\ Entered(r)[i].r = Entered(r)[j].r => i = j
<1> DEFINE I == {i \in 1..Len(table) : table[i].done}
           s == [done |-> FALSE, r |-> r]
           t == Entered(r)
<1>1. t = IF I = {} \/ Min(I) = 0 THEN Append(table, s) ELSE [table EXCEPT ![Min(I)] = s]
  BY DEF Entered, SelectInSeq
<1>2. Len(table) \in Nat /\ DOMAIN table = 1..Len(table) /\ table \in Seq(Slot) /\ s \in Slot
  BY DEF Tabled, Slot
<1>3. I # {} => Min(I) \in I
  <2>1. I \in SUBSET (1..Len(table))
    OBVIOUS
  <2> HIDE DEF I
  <2> QED BY <2>1, <1>2, LeastIs
<1>4. \A i \in DOMAIN table : table[i].r \in DOMAIN request /\ table[i].r # r
  BY DEF Tabled
<1>5. ~s.done /\ s.r = r
  OBVIOUS
<1>6. \E k \in DOMAIN t : /\ t[k] = s /\ t \in Seq(Slot) /\ DOMAIN table \subseteq DOMAIN t
                          /\ k \in DOMAIN table => table[k].done
                          /\ \A i \in DOMAIN t : i # k => i \in DOMAIN table /\ t[i] = table[i]
  <2> HIDE DEF s
  <2>1. CASE I = {} \/ Min(I) = 0
    <3>1. t = Append(table, s)
      BY <1>1, <2>1
    <3> HIDE DEF t
    <3>2. /\ Len(table) + 1 \in DOMAIN t /\ t[Len(table) + 1] = s /\ t \in Seq(Slot) /\ DOMAIN table \subseteq DOMAIN t
          /\ Len(table) + 1 \notin DOMAIN table
          /\ \A i \in DOMAIN t : i # Len(table) + 1 => i \in DOMAIN table /\ t[i] = table[i]
      BY <3>1, <1>2
    <3> QED BY <3>2
  <2>2. CASE ~ (I = {} \/ Min(I) = 0)
    <3>1. PICK k \in I : t = [table EXCEPT ![k] = s]
      BY <1>1, <1>3, <2>2
    <3>2. k \in DOMAIN table /\ table[k].done
      BY <1>2
    <3> HIDE DEF t
    <3> QED BY <3>1, <3>2, <1>2
  <2> QED BY <2>1, <2>2
<1>7. PICK k \in DOMAIN t : /\ t[k] = s /\ t \in Seq(Slot) /\ DOMAIN table \subseteq DOMAIN t
                            /\ k \in DOMAIN table => table[k].done
                            /\ \A i \in DOMAIN t : i # k => i \in DOMAIN table /\ t[i] = table[i]
  BY <1>6
<1> HIDE DEF t, s
<1>8. PendingIn(t) = Pending \cup {r}
  <2>1. ASSUME NEW x \in PendingIn(t) PROVE x \in Pending \cup {r}
    BY <1>5, <1>7 DEF PendingIn, Pending
  <2>2. ASSUME NEW x \in Pending PROVE x \in PendingIn(t)
    BY <1>7 DEF PendingIn, Pending
  <2>3. r \in PendingIn(t)
    BY <1>5, <1>7 DEF PendingIn
  <2> QED BY <2>1, <2>2, <2>3
<1>9. \A i \in DOMAIN t : t[i].r \in DOMAIN request'
  BY <1>4, <1>5, <1>7
<1>10. \A i, j \in DOMAIN t : ~t[i].done /\ ~t[j].done /\ t[i].r = t[j].r => i = j
  BY <1>4, <1>5, <1>7 DEF Tabled
<1> QED BY <1>7, <1>8, <1>9, <1>10 DEF t

(* The request is no longer pending and its timer is not set; properties   *)
(* that are not its own stay as they are.                                  *)
Cleared(r) ==
  /\ Tabled(table)' /\ PendingIn(table') = Pending \ {r} /\ timer' = timer \ {r}
  /\ taken' \subseteq taken /\ taken \ PropertiesOf(r) \subseteq taken'

(* That is what xv_sel_end_request does.                                   *)
LEMMA EndIs ==
  ASSUME Tabled(table), timer = Pending, Later, request \in Seq(Made), NEW r \in DOMAIN request,
         NEW given, given \subseteq {request[r].property}, End(r, given), request' = request
  PROVE  Cleared(r)
<1>1. given \subseteq PropertiesOf(r) /\ {pr.property : pr \in ToSet(request[r].pairs)} \subseteq PropertiesOf(r)
  BY DEF PropertiesOf
<1>2. CASE SlotOf(r) = 0
  <2>1. r \notin Pending
    BY <1>2, SlotIs
  <2>2. table' = table /\ timer' = timer /\ taken' = (taken \ given) \ {pr.property : pr \in ToSet(request[r].pairs)}
    BY <1>2 DEF End
  <2>3. taken' \subseteq taken /\ taken \ PropertiesOf(r) \subseteq taken'
    BY <2>2, <1>1
  <2>4. PendingIn(table') = Pending
    BY <2>2 DEF PendingIn, Pending
  <2>5. Tabled(table)'
    BY <2>2 DEF Tabled
  <2> QED BY <2>1, <2>2, <2>3, <2>4, <2>5 DEF Cleared
<1>3. CASE SlotOf(r) # 0
  <2>1. PICK i \in DOMAIN table : i = SlotOf(r) /\ ~table[i].done /\ table[i].r = r
    BY <1>3, SlotIs
  <2>2. /\ table' = [table EXCEPT ![i].done = TRUE] /\ timer' = timer \ {r}
        /\ taken' = (taken \ given) \ PropertiesOf(r)
    BY <1>3, <2>1 DEF End
  <2>3. taken' \subseteq taken /\ taken \ PropertiesOf(r) \subseteq taken'
    BY <2>2, <1>1
  <2>4. table \in Seq(Slot) /\ \A j \in DOMAIN table : table[j] \in Slot
    BY DEF Tabled
  <2>5. /\ table' \in Seq(Slot) /\ DOMAIN table' = DOMAIN table
        /\ \A j \in DOMAIN table : table'[j].r = table[j].r /\ (table'[j].done <=> j = i \/ table[j].done)
    <3>1. PICK x : x = [table[i] EXCEPT !.done = TRUE]
      OBVIOUS
    <3>2. table' = [table EXCEPT ![i] = x]
      BY <2>2, <3>1
    <3>3. x \in Slot /\ x.done /\ x.r = table[i].r
      BY <3>1, <2>4 DEF Slot
    <3> QED BY <2>4, <3>2, <3>3
  <2>6. Tabled(table)'
    BY <2>5 DEF Tabled
  <2>7. PendingIn(table') = Pending \ {r}
    <3>1. \A j \in DOMAIN table : ~table[j].done /\ table[j].r = r => j = i
      BY <2>1 DEF Tabled
    <3>2. ASSUME NEW x \in PendingIn(table') PROVE x \in Pending \ {r}
      BY <2>5, <3>1, <3>2 DEF PendingIn, Pending
    <3>3. ASSUME NEW x \in Pending \ {r} PROVE x \in PendingIn(table')
      BY <2>1, <2>5, <3>3 DEF PendingIn, Pending
    <3> QED BY <3>2, <3>3
  <2> QED BY <2>2, <2>3, <2>6, <2>7 DEF Cleared
<1> QED BY <1>2, <1>3

-----------------------------------------------------------------------------
(* The steps, by what they do to a request.                                *)

(* The properties of a request that is being made.                         *)
PropertiesIn(q) == {q.property} \cup {pr.property : pr \in ToSet(q.pairs)}

(* Some events have been handled.                                          *)
Fewer == events' \in Seq(Message) /\ \A k \in DOMAIN events' : \E j \in DOMAIN events : events'[k] = events[j]

(* A request is made.                                                      *)
Makes(q) ==
  /\ Len(request) + 1 <= MaxRequests /\ q \in Made /\ request' = Append(request, q)
  /\ WellMade(q) /\ (q.target = Multiple /\ q.pairs = <<>> => ListOf = <<>>)
  /\ \A s \in DOMAIN request : request[s].time < q.time
  /\ PropertiesIn(q) \cap taken = {} /\ taken' = taken \cup PropertiesIn(q) /\ Enough'
  /\ value' = IF q.pairs = <<>> THEN value ELSE [value EXCEPT ![q.property] = List(q.pairs)]
  /\ (ListOf = <<>> => q.pairs = <<>>)
  /\ calls' = Append(calls, [target |-> q.target, property |-> q.property, time |-> q.time])
  /\ IF q.blocking THEN waiting' = Len(request) + 1 /\ inside = Outside /\ UNCHANGED <<table, timer>>
     ELSE /\ Tabled(table)' /\ PendingIn(table') = Pending \cup {Len(request) + 1}
          /\ timer' = timer \cup {Len(request) + 1} /\ waiting' = 0
  /\ waiting = 0 /\ (inside = Outside \/ PostInside) /\ UNCHANGED <<events, inside>>

(* The answer to a request is found good.                                  *)
Begun(r, ev) ==
  /\ r \in Open /\ r \in DOMAIN request /\ inside = Outside /\ waiting \in {0, r} /\ waiting' = 0
  /\ \E k \in DOMAIN events : ev = events[k]
  /\ ev.time = request[r].time /\ ev.target = request[r].target /\ ev.property # None
  /\ Begin(r, ev) /\ Fewer /\ UNCHANGED <<request, calls>>

(* A request ends.                                                         *)
Ending(r) ==
  /\ r \in Open /\ r \in DOMAIN request /\ Cleared(r)
  /\ inside.r \in {0, r} /\ inside' = Outside /\ waiting \in {0, r} /\ waiting' = 0
  /\ Fewer /\ UNCHANGED <<request, value, calls>>

(* An answer is ignored.                                                   *)
Skips == Fewer /\ UNCHANGED <<request, table, timer, taken, value, calls, inside, waiting>>

(* The requests are numbered from 1.                                       *)
LEMMA RequestsAre ==
  ASSUME Typed
  PROVE  /\ request \in Seq(Made) /\ Len(request) \in Nat /\ DOMAIN request = 1..Len(request)
         /\ Len(request) <= MaxRequests
         /\ \A r \in DOMAIN request : /\ request[r] \in Made /\ r \in Ids /\ r \in Nat /\ r # 0 /\ r <= Len(request)
                                      /\ request[r].time \in Nat /\ request[r].property \in Properties
                                      /\ request[r].target \in Whole /\ request[r].pairs \in Seq(Pair)
<1>1. request \in Seq(Made)
  BY DEF Typed
<1>2. Len(request) \in Nat /\ DOMAIN request = 1..Len(request) /\ Len(request) <= MaxRequests /\ MaxRequests \in Nat
  BY <1>1, ListIs DEF Typed
<1>3. \A r \in DOMAIN request : request[r] \in Made
  BY <1>1
<1>4. \A r \in DOMAIN request : r \in Ids /\ r \in Nat /\ r # 0 /\ r <= Len(request)
  BY <1>2 DEF Ids
<1>5. \A q \in Made : q.time \in Nat /\ q.property \in Properties /\ q.target \in Whole /\ q.pairs \in Seq(Pair)
  BY DEF Made, Whole
<1> QED BY <1>1, <1>2, <1>3, <1>4, <1>5

(* The elements of a concatenation.                                        *)
Joined(S, q, r) ==
  /\ q \o r \in Seq(S) /\ Len(q \o r) = Len(q) + Len(r)
  /\ \A i \in 1..Len(q) : (q \o r)[i] = q[i]
  /\ \A i \in 1..Len(r) : (q \o r)[Len(q) + i] = r[i]

(* They are those of the one, then those of the other.                     *)
LEMMA Concatenated ==
  ASSUME NEW S, NEW q \in Seq(S), NEW r \in Seq(S)
  PROVE  Joined(S, q, r)
<1>1. q \o r \in Seq(S) /\ Len(q \o r) = Len(q) + Len(r)
  OBVIOUS
<1>2. Len(q) \in Nat /\ Len(r) \in Nat
  OBVIOUS
<1>3. ASSUME NEW i \in 1..Len(q) PROVE (q \o r)[i] = q[i]
  BY <1>2
<1>4. ASSUME NEW i \in 1..Len(r) PROVE (q \o r)[Len(q) + i] = r[i]
  <2>1. Len(q) + i \in 1..(Len(q) + Len(r)) /\ ~ (Len(q) + i <= Len(q)) /\ (Len(q) + i) - Len(q) = i
    BY <1>2
  <2> QED BY <2>1, <1>2
<1> QED BY <1>1, <1>3, <1>4 DEF Joined

(* What is left after an event was taken out.                              *)
LEMMA TakenOut ==
  ASSUME events \in Seq(Message)
  PROVE  /\ events # <<>> /\ events' = Tail(events) => Fewer
         /\ \A i \in DOMAIN events : events' = RemoveAt(events, i) => Fewer
         /\ events' = events => Fewer
<1>1. ASSUME events # <<>>, events' = Tail(events) PROVE Fewer
  <2>1. events' \in Seq(Message)
    BY <1>1
  <2>2. \A k \in DOMAIN events' : k + 1 \in DOMAIN events /\ events'[k] = events[k + 1]
    BY <1>1
  <2> QED BY <2>1, <2>2 DEF Fewer
<1>2. ASSUME NEW i \in DOMAIN events, events' = RemoveAt(events, i) PROVE Fewer
  <2> DEFINE u == SubSeq(events, 1, i - 1)
             v == SubSeq(events, i + 1, Len(events))
  <2>1. i \in Nat /\ i >= 1 /\ i <= Len(events) /\ Len(events) \in Nat /\ i - 1 \in Nat
    OBVIOUS
  <2>2. \A k \in DOMAIN events : events[k] \in Message
    OBVIOUS
  <2>3. u \in Seq(Message) /\ Len(u) = i - 1 /\ \A k \in 1..(i - 1) : u[k] = events[k] /\ k \in DOMAIN events
    BY <2>1
  <2>4. v \in Seq(Message) /\ Len(v) = Len(events) - i
        /\ \A k \in 1..(Len(events) - i) : v[k] = events[k + i] /\ k + i \in DOMAIN events
    BY <2>1
  <2>5. events' = u \o v
    BY <1>2 DEF RemoveAt
  <2> HIDE DEF u, v
  <2>6. events' \in Seq(Message) /\ Len(events') = Len(u) + Len(v)
        /\ (\A k \in 1..Len(u) : events'[k] = u[k])
        /\ (\A k \in 1..Len(v) : events'[Len(u) + k] = v[k])
    <3>1. u \in Seq(Message) /\ v \in Seq(Message)
      BY <2>3, <2>4
    <3>2. Joined(Message, u, v)
      BY <3>1, Concatenated
    <3> QED BY <3>2, <2>5 DEF Joined
  <2>7. ASSUME NEW k \in DOMAIN events' PROVE \E j \in DOMAIN events : events'[k] = events[j]
    <3>1. k \in Nat /\ k >= 1 /\ k <= Len(u) + Len(v)
      BY <2>6, <2>3, <2>4
    <3>2. CASE k <= Len(u)
      <4>1. k \in 1..Len(u) /\ k \in 1..(i - 1)
        BY <3>1, <3>2, <2>3, <2>1
      <4> QED BY <4>1, <2>3, <2>6
    <3>3. CASE ~ (k <= Len(u))
      <4>0. Len(u) \in Nat /\ Len(v) \in Nat /\ Len(v) = Len(events) - i
        BY <2>3, <2>4
      <4>9. k - Len(u) \in 1..Len(v) /\ Len(u) + (k - Len(u)) = k
        BY <3>1, <3>3, <4>0
      <4>1. PICK l \in 1..(Len(events) - i) : Len(u) + l = k /\ l \in 1..Len(v)
        BY <4>0, <4>9
      <4>2. events'[Len(u) + l] = v[l]
        BY <4>1, <2>6
      <4> QED BY <4>1, <4>2, <2>4
    <3> QED BY <3>2, <3>3
  <2> QED BY <2>6, <2>7 DEF Fewer
<1>3. ASSUME events' = events PROVE Fewer
  BY <1>3 DEF Fewer
<1> QED BY <1>1, <1>2, <1>3

(* A new request has properties that were avail, and a time of its own.    *)
LEMMA Requests ==
  ASSUME Base, OwnTimes, NEW b \in BOOLEAN, NEW t \in Alone \cup {Multiple}, NEW at, Request(b, t, at),
         at \in Nat
  PROVE  \E q \in Made : Makes(q)
<1> DEFINE r == Len(request) + 1
           n == IF t = Multiple THEN Len(ListOf) ELSE 0
           p == Available[1]
           pairs == [i \in 1..n |-> [target |-> ListOf[i], property |-> Available[i + 1]]]
           q == [blocking |-> b, target |-> t, property |-> p, pairs |-> pairs, time |-> at]
           news == ToSet(SubSeq(Available, 1, n + 1))
<1>1. /\ Typed /\ Exist /\ Later /\ Tabled(table) /\ timer = Pending /\ Enough
      /\ request \in Seq(Made) /\ Len(request) \in Nat /\ DOMAIN request = 1..Len(request)
  BY RequestsAre DEF Base, Typed
<1>2. /\ Free /\ r <= MaxRequests /\ (b => inside.at = "out") /\ at > LastTime
      /\ request' = Append(request, q) /\ taken' = taken \cup news
      /\ value' = IF n = 0 THEN value ELSE [value EXCEPT ![p] = List(pairs)]
      /\ calls' = Append(calls, [target |-> t, property |-> p, time |-> at])
      /\ IF b THEN waiting' = r /\ UNCHANGED <<table, timer>>
         ELSE table' = Entered(r) /\ timer' = timer \cup {r} /\ UNCHANGED waiting
      /\ UNCHANGED <<events, inside>>
  BY DEF Request
<1>3. n \in Nat /\ n + 1 \in 1..Some /\ Len(ListOf) \in Nat /\ 1 \in 1..Some /\ Some = Len(ListOf) + 1
      /\ \A i \in 1..n : i + 1 \in 1..Some /\ i \in 1..Len(ListOf)
  BY ListIs DEF Some
<1>4. /\ \A k \in 1..Some : Available[k] \in Properties \ taken
      /\ \A j, k \in 1..Some : Available[j] = Available[k] => j = k
      /\ Available \in Seq(Properties) /\ Len(Available) = Some
  <2>1. taken \subseteq Properties
    BY <1>1 DEF Typed
  <2> QED BY <1>1, <1>2, <2>1, AvailableIs
<1>5. pairs \in Seq(Pair) /\ Len(pairs) = n /\ DOMAIN pairs = 1..n
      /\ \A i \in 1..n : pairs[i].property = Available[i + 1] /\ pairs[i] \in Pair
  <2>1. \A i \in 1..n : ListOf[i] \in Targets /\ Available[i + 1] \in Properties
    BY <1>3, <1>4, RequestsAssumption
  <2>2. \A i \in 1..n : [target |-> ListOf[i], property |-> Available[i + 1]] \in Pair
    BY <2>1 DEF Pair
  <2> QED BY <2>2, <1>3
<1>6. q \in Made
  <2>1. t \in Targets \cup {Multiple} /\ p \in Properties
    BY <1>3, <1>4, RequestsAssumption
  <2> QED BY <2>1, <1>5 DEF Made
<1>7. q.target = t /\ q.property = p /\ q.pairs = pairs /\ q.time = at /\ q.blocking = b
  OBVIOUS
<1>8. news = {Available[k] : k \in 1..(n + 1)} /\ PropertiesIn(q) = news
  <2>1. SubSeq(Available, 1, n + 1) = [k \in 1..(n + 1) |-> Available[k]]
    BY <1>3, <1>4
  <2>2. news = {Available[k] : k \in 1..(n + 1)}
    <3>1. DOMAIN SubSeq(Available, 1, n + 1) = 1..(n + 1) /\ \A k \in 1..(n + 1) : SubSeq(Available, 1, n + 1)[k] = Available[k]
      BY <2>1, <1>3
    <3> QED BY <3>1 DEF ToSet
  <2>3. PropertiesIn(q) = {p} \cup {pairs[i].property : i \in 1..n}
    <3> HIDE DEF q, pairs, n, p
    <3> QED BY <1>5, <1>7 DEF PropertiesIn, ToSet
  <2>4. {pairs[i].property : i \in 1..n} = {Available[i + 1] : i \in 1..n}
    BY <1>5
  <2>5. {p} \cup {Available[i + 1] : i \in 1..n} = {Available[k] : k \in 1..(n + 1)}
    <3>1. ASSUME NEW x \in {p} \cup {Available[i + 1] : i \in 1..n} PROVE x \in {Available[k] : k \in 1..(n + 1)}
      <4>1. 1 \in 1..(n + 1) /\ \A i \in 1..n : i + 1 \in 1..(n + 1)
        BY <1>3
      <4> QED BY <4>1, <3>1
    <3>2. ASSUME NEW k \in 1..(n + 1) PROVE Available[k] \in {p} \cup {Available[i + 1] : i \in 1..n}
      <4>1. k = 1 \/ (k - 1 \in 1..n /\ k = (k - 1) + 1)
        BY <1>3
      <4> QED BY <4>1
    <3> QED BY <3>1, <3>2
  <2> QED BY <2>2, <2>3, <2>4, <2>5
<1>9. news \cap taken = {} /\ \A x \in news : x \in Properties
  <2>1. \A k \in 1..(n + 1) : k \in 1..Some
    BY <1>3
  <2> QED BY <2>1, <1>4, <1>8
<1>10. WellMade(q)
  <2>1. t # Multiple => pairs = <<>>
    BY <1>5
  <2>2. \A i \in 1..n : Available[i + 1] \in Properties /\ Available[i + 1] # Available[1]
    BY <1>3, <1>4
  <2>3. \A i, j \in 1..n : Available[i + 1] = Available[j + 1] => i = j
    <3>1. \A i, j \in 1..n : i + 1 = j + 1 => i = j
      OBVIOUS
    <3> QED BY <3>1, <1>3, <1>4
  <2> HIDE DEF pairs, n
  <2> QED BY <2>1, <2>2, <2>3, <1>5, <1>7 DEF WellMade
<1>11. Enough'
  <2> DEFINE D == 1..(n + 1)
             f == [k \in D |-> Available[k]]
  <2>1. IsFiniteSet(D) /\ Cardinality(D) = n + 1
    <3>1. n + 1 \in Nat /\ n + 1 >= 1
      BY <1>3
    <3> HIDE DEF n
    <3> QED BY <3>1, FS_Interval
  <2>2. f \in Surjection(D, news)
    <3>1. f \in [D -> news]
      BY <1>8
    <3>2. \A x \in news : \E k \in D : f[k] = x
      BY <1>8
    <3> HIDE DEF f, D, news
    <3> QED BY <3>1, <3>2 DEF Surjection
  <2> HIDE DEF f, D, news
  <2>3. IsFiniteSet(news) /\ Cardinality(news) <= n + 1
    BY <2>1, <2>2, FS_Surjection
  <2>4. IsFiniteSet(taken) /\ Cardinality(taken) \in Nat /\ Cardinality(taken) <= Len(request) * Some
    BY <1>1, FS_CardinalityType DEF Enough, Some
  <2>5. /\ IsFiniteSet(taken \cup news)
        /\ Cardinality(taken \cup news) = Cardinality(taken) + Cardinality(news) - Cardinality(taken \cap news)
    BY <2>3, <2>4, FS_Union
  <2>6. Cardinality(taken \cap news) = 0 /\ Cardinality(news) \in Nat
    <3>1. taken \cap news = {}
      BY <1>9
    <3> QED BY <3>1, <2>3, FS_EmptySet, FS_CardinalityType
  <2>7. n + 1 <= Some
    BY <1>3
  <2>8. (Len(request) + 1) * Some = Len(request) * Some + Some
    <3>1. \A a, c \in Nat : (a + 1) * c = a * c + c
      OBVIOUS
    <3> QED BY <3>1, <1>1, ListIs
  <2>9. Len(request) * Some \in Nat
    <3>1. \A a, c \in Nat : a * c \in Nat
      OBVIOUS
    <3> QED BY <3>1, <1>1, ListIs
  <2>10. Len(request') = Len(request) + 1
    BY <1>1, <1>2, <1>6
  <2>11. Cardinality(taken \cup news) <= Len(request) * Some + Some
    <3>1. PICK x \in Nat, y \in Nat, z \in Nat, s \in Nat :
            x = Cardinality(taken) /\ y = Len(request) * Some /\ z = Cardinality(news) /\ s = Some
      BY <2>4, <2>6, <2>9, ListIs
    <3>2. x <= y /\ z <= s
      BY <3>1, <2>3, <2>4, <2>7, <1>3
    <3>3. Cardinality(taken \cup news) = x + z
      BY <3>1, <2>5, <2>6
    <3> QED BY <3>1, <3>2, <3>3
  <2> HIDE DEF n, q
  <2>12. IsFiniteSet(taken')
    BY <2>5, <1>2
  <2>13. Cardinality(taken') <= Len(request') * Some
    BY <2>8, <2>10, <2>11, <1>2
  <2> QED BY <2>12, <2>13 DEF Enough, Some
<1>12. \A s \in DOMAIN request : request[s].time < q.time
  <2>1. ASSUME NEW s \in DOMAIN request PROVE request[s].time <= LastTime
    <3>1. request # <<>> /\ Len(request) \in DOMAIN request /\ Last(request) = request[Len(request)]
      BY <1>1 DEF Last
    <3>2. s = Len(request) \/ s < Len(request)
      BY <1>1
    <3>3. request[s].time \in Nat /\ request[Len(request)].time \in Nat
      BY <1>1, <3>1, RequestsAre
    <3> QED BY <3>1, <3>2, <3>3, <1>1 DEF Later, LastTime
  <2>2. LastTime \in Nat
    <3>1. request # <<>> => Len(request) \in DOMAIN request /\ Last(request) = request[Len(request)]
      BY <1>1 DEF Last
    <3> QED BY <3>1, <1>1, RequestsAre DEF LastTime
  <2>3. \A s \in DOMAIN request : request[s].time \in Nat
    BY <1>1, RequestsAre
  <2> QED BY <2>1, <2>2, <2>3, <1>2, <1>7
<1>13. waiting = 0 /\ (inside = Outside \/ PostInside) /\ (b => inside = Outside)
  <2>1. inside.at = "out" => inside = Outside
    BY <1>1 DEF Exist, Outside
  <2> QED BY <1>2, <2>1 DEF Free
<1>14. ~b => /\ Tabled(table)' /\ PendingIn(table') = Pending \cup {r}
             /\ timer' = timer \cup {r} /\ waiting' = 0
  <2> SUFFICES ASSUME ~b PROVE /\ Tabled(table)' /\ PendingIn(table') = Pending \cup {r}
                               /\ timer' = timer \cup {r} /\ waiting' = 0
    OBVIOUS
  <2>1. r \in Ids /\ r \notin DOMAIN request /\ r \in DOMAIN request' /\ \A s \in DOMAIN request : s \in DOMAIN request'
    <3>1. r \in Ids /\ r \notin DOMAIN request
      BY <1>1, <1>2, ListIs DEF Ids
    <3>2. DOMAIN request' = 1..(Len(request) + 1)
      BY <1>1, <1>2, <1>6
    <3> QED BY <3>1, <3>2, <1>1
  <2>2. table' = Entered(r)
    BY <1>2
  <2> HIDE DEF r, q
  <2>3. Tabled(table)' /\ PendingIn(table') = Pending \cup {r}
    BY <2>1, <2>2, <1>1, EnteredIs DEF Tabled
  <2> QED BY <2>3, <1>2, <1>13
<1>15. (n = 0 <=> q.pairs = <<>>) /\ (ListOf = <<>> => q.pairs = <<>>) /\ (t = Multiple /\ q.pairs = <<>> => ListOf = <<>>)
  <2>1. pairs = <<>> <=> n = 0
    BY <1>5, <1>3
  <2>2. Len(ListOf) = 0 <=> ListOf = <<>>
    BY RequestsAssumption
  <2> QED BY <2>1, <2>2, <1>7
<1> HIDE DEF q, n, p, pairs, news
<1>16. PropertiesIn(q) \cap taken = {} /\ taken' = taken \cup PropertiesIn(q)
  BY <1>2, <1>8, <1>9
<1>17. value' = IF q.pairs = <<>> THEN value ELSE [value EXCEPT ![q.property] = List(q.pairs)]
  BY <1>2, <1>7, <1>15
<1>18. calls' = Append(calls, [target |-> q.target, property |-> q.property, time |-> q.time])
  BY <1>2, <1>7
<1>19. IF q.blocking THEN waiting' = Len(request) + 1 /\ inside = Outside /\ UNCHANGED <<table, timer>>
       ELSE /\ Tabled(table)' /\ PendingIn(table') = Pending \cup {Len(request) + 1}
            /\ timer' = timer \cup {Len(request) + 1} /\ waiting' = 0
  BY <1>2, <1>7, <1>13, <1>14
<1>20. Makes(q)
  BY <1>2, <1>6, <1>7, <1>10, <1>11, <1>12, <1>13, <1>15, <1>16, <1>17, <1>18, <1>19 DEF Makes
<1> QED BY <1>6, <1>20

(* Every step but the owner's and those within a reading makes a request,  *)
(* begins to read one, ends one or ignores an answer.                      *)
LEMMA StepIs ==
  ASSUME Base, RequestsNext, OwnTimes
  PROVE  \/ \E q \in Made : Makes(q)
         \/ \E r \in DOMAIN request, ev \in Message : Begun(r, ev)
         \/ \E r \in DOMAIN request : Ending(r)
         \/ Skips \/ Read \/ Returned \/ Answer
<1>1. /\ Typed /\ Exist /\ Later /\ Tabled(table) /\ timer = Pending /\ events \in Seq(Message)
      /\ request \in Seq(Made) /\ Len(request) \in Nat /\ DOMAIN request = 1..Len(request)
      /\ \A r \in DOMAIN request : r # 0 /\ r \in Nat
  BY RequestsAre DEF Base, Typed
<1>2. \A k \in DOMAIN events : events[k] \in Message
  BY <1>1
<1>3. inside.at = "out" => inside = Outside /\ inside.r = 0
  BY <1>1 DEF Exist, Outside
<1>4. CASE Requesting
  <2>1. PICK b \in BOOLEAN, t \in Alone \cup {Multiple}, more \in {0, 1} : Request(b, t, LastTime + more)
    BY <1>4 DEF Requesting
  <2>2. LastTime + more \in Nat
    <3>1. request # <<>> => Len(request) \in DOMAIN request /\ Last(request) = request[Len(request)]
      BY <1>1 DEF Last
    <3>2. LastTime \in Nat
      BY <3>1, <1>1, RequestsAre DEF LastTime
    <3> QED BY <3>2
  <2>3. PICK at : at = LastTime + more
    OBVIOUS
  <2> QED BY <2>1, <2>2, <2>3, Requests
<1>5. CASE Notified
  <2>1. /\ waiting = 0 /\ inside.at = "out" /\ events # <<>> /\ events' = Tail(events)
        /\ UNCHANGED <<request, calls, waiting>>
    BY <1>5 DEF Notified
  <2>2. Fewer
    BY <2>1, <1>1, TakenOut
  <2>3. PICK ev \in Message : ev = Head(events) /\ ev = events[1] /\ 1 \in DOMAIN events
    BY <2>1, <1>1, <1>2
  <2>4. PICK r : r = Asking(ev.target)
    OBVIOUS
  <2>5. IF r # 0 /\ Fits(r, ev) /\ ev.property # None
        THEN Begin(r, ev)
        ELSE /\ IF r # 0 /\ Fits(r, ev) /\ request[r].target # Multiple
                THEN End(r, {}) ELSE UNCHANGED <<table, timer, taken>>
             /\ UNCHANGED <<value, inside>>
    BY <1>5, <2>3, <2>4 DEF Notified
  <2>6. r = 0 \/ (r \in Pending /\ r \in DOMAIN request /\ request[r].target = ev.target)
    BY <1>1, <2>4, AskingIs
  <2>7. inside = Outside
    BY <2>1, <1>3
  <2>8. CASE r # 0 /\ Fits(r, ev) /\ ev.property # None
    <3>1. Begun(r, ev)
      BY <2>1, <2>2, <2>3, <2>5, <2>6, <2>7, <2>8 DEF Begun, Open, Fits
    <3> QED BY <3>1, <2>6, <2>8
  <2>9. CASE ~ (r # 0 /\ Fits(r, ev) /\ ev.property # None) /\ r # 0 /\ Fits(r, ev) /\ request[r].target # Multiple
    <3>1. Cleared(r)
      BY <1>1, <2>1, <2>5, <2>6, <2>9, EndIs
    <3>2. Ending(r)
      BY <2>1, <2>2, <2>5, <2>6, <2>7, <2>9, <3>1, <1>3 DEF Ending, Open
    <3> QED BY <3>2, <2>6, <2>9
  <2>10. CASE ~ (r # 0 /\ Fits(r, ev) /\ ev.property # None) /\ ~ (r # 0 /\ Fits(r, ev) /\ request[r].target # Multiple)
    BY <2>1, <2>2, <2>5, <2>10 DEF Skips
  <2> QED BY <2>8, <2>9, <2>10
<1>6. ASSUME waiting # 0, waiting' = 0, End(waiting, {request[waiting].property}), Fewer,
             UNCHANGED <<request, value, calls, inside>>
      PROVE  \E r \in DOMAIN request : Ending(r)
  <2>1. waiting \in DOMAIN request /\ inside = Outside
    BY <1>1, <1>6 DEF Exist
  <2>2. Cleared(waiting)
    BY <1>1, <1>6, <2>1, EndIs
  <2>3. inside.r = 0
    BY <2>1 DEF Outside
  <2>4. Ending(waiting)
    BY <1>6, <2>1, <2>2, <2>3 DEF Ending, Open
  <2> QED BY <2>1, <2>4
<1>7. CASE Answered
  <2> DEFINE i0 == SelectInSeq(events, LAMBDA ev : ev.target = request[waiting].target)
  <2>1. /\ waiting # 0 /\ i0 # 0 /\ events' = RemoveAt(events, i0) /\ waiting' = 0
        /\ IF Fits(waiting, events[i0]) /\ events[i0].property # None
           THEN inside.at = "out" /\ Begin(waiting, events[i0])
           ELSE GiveUp(waiting) /\ UNCHANGED <<value, inside>>
        /\ UNCHANGED <<request, calls>>
    BY <1>7 DEF Answered
  <2>2. i0 \in DOMAIN events /\ events[i0].target = request[waiting].target
    <3> DEFINE I == {i \in 1..Len(events) : events[i].target = request[waiting].target}
    <3>1. i0 = IF I # {} THEN Min(I) ELSE 0
      BY DEF SelectInSeq
    <3>2. I \in SUBSET (1..Len(events)) /\ Len(events) \in Nat
      BY <1>1
    <3>3. I # {} => Min(I) \in I
      <4> HIDE DEF I
      <4> QED BY <3>2, LeastIs
    <3>4. i0 \in I
      <4> HIDE DEF I, i0
      <4> QED BY <3>1, <3>3, <2>1
    <3> QED BY <3>4, <1>1
  <2>3. PICK i \in DOMAIN events : i = i0
    BY <2>2
  <2> HIDE DEF i0
  <2>4. Fewer
    BY <1>1, <2>1, <2>3, TakenOut
  <2>5. waiting \in DOMAIN request /\ inside = Outside
    BY <1>1, <2>1 DEF Exist
  <2>6. CASE Fits(waiting, events[i]) /\ events[i].property # None
    <3>1. Begun(waiting, events[i])
      BY <2>1, <2>2, <2>3, <2>4, <2>5, <2>6 DEF Begun, Open, Fits
    <3> QED BY <3>1, <2>5, <1>2
  <2>7. CASE ~ (Fits(waiting, events[i]) /\ events[i].property # None)
    BY <2>1, <2>3, <2>4, <2>7, <1>6 DEF GiveUp
  <2> QED BY <2>6, <2>7
<1>8. CASE BlockingTimeout
  <2>1. Fewer
    BY <1>8, <1>1, TakenOut DEF BlockingTimeout
  <2> QED BY <1>8, <2>1, <1>6 DEF BlockingTimeout, GiveUp
<1>9. CASE Ended
  <2>1. /\ waiting = 0 /\ inside.at = "read" /\ inside' = Outside /\ End(inside.r, {})
        /\ UNCHANGED <<request, value, calls, events, waiting>>
    BY <1>9 DEF Ended
  <2>2. inside.r \in DOMAIN request /\ inside.r # 0
    BY <1>1, <2>1 DEF Exist, Outside
  <2>3. Cleared(inside.r)
    BY <1>1, <2>1, <2>2, EndIs
  <2>4. Fewer
    BY <1>1, <2>1, TakenOut
  <2>5. Ending(inside.r)
    BY <2>1, <2>2, <2>3, <2>4 DEF Ending, Open
  <2> QED BY <2>2, <2>5
<1>10. ASSUME NEW r \in Ids, Timeout(r) PROVE \E s \in DOMAIN request : Ending(s)
  <2>1. waiting = 0 /\ inside = Outside /\ inside.r = 0 /\ r \in Pending
    BY <1>1, <1>3, <1>10 DEF Timeout
  <2>2. r \in DOMAIN request
    BY <2>1, <1>1 DEF Tabled, Pending
  <2>3. End(r, {}) /\ UNCHANGED <<request, value, calls, events, inside, waiting>>
    BY <1>1, <1>10, <2>1, <2>2, SlotIs DEF Timeout
  <2>4. Cleared(r)
    BY <1>1, <2>2, <2>3, EndIs
  <2>5. Fewer
    BY <1>1, <2>3, TakenOut
  <2>6. Ending(r)
    BY <2>1, <2>2, <2>3, <2>4, <2>5 DEF Ending, Open
  <2> QED BY <2>2, <2>6
<1> QED BY <1>4, <1>5, <1>7, <1>8, <1>9, <1>10 DEF RequestsNext, Running

-----------------------------------------------------------------------------
(* Every step keeps the types and the table.                               *)

(* The set of values, and what is not in it.                               *)
LEMMA ValuesAre ==
  /\ Nothing \in Values /\ \A t \in Targets : Data(t) \in Values
  /\ \A l \in Seq(Pair) : List(l) \in Values /\ List(l).is = "pairs" /\ List(l).pairs = l
  /\ \A v \in Values : v.is = "pairs" => v.pairs \in Seq(Pair)
  /\ Nothing.is # "pairs" /\ \A t : Data(t).is # "pairs" /\ Data(t) # Nothing
<1>1. Nothing \in Values /\ (\A t \in Targets : Data(t) \in Values) /\ (\A l \in Seq(Pair) : List(l) \in Values)
  BY DEF Values
<1>2. \A l : List(l).is = "pairs" /\ List(l).pairs = l
  BY DEF List
<1>3. Nothing.is # "pairs" /\ Nothing.is # "data" /\ \A t : Data(t).is # "pairs" /\ Data(t).is = "data"
  BY DEF Nothing, Data
<1>4. \A v \in Values : v.is = "pairs" => v.pairs \in Seq(Pair)
  BY <1>2, <1>3 DEF Values
<1> QED BY <1>1, <1>2, <1>3, <1>4

(* What the owner writes for some of the pairs of a list, and the list he  *)
(* leaves.                                                                 *)
Converted(l, done, p, x) ==
  IF \E i \in done : l[i].property = x
  THEN Data(l[CHOOSE i \in done : l[i].property = x].target)
  ELSE IF x = p
  THEN List([i \in DOMAIN l |-> IF i \in done THEN l[i] ELSE [l[i] EXCEPT !.property = None]])
  ELSE value[x]

(* The owner's answer: he refuses, or leaves the data, or converts some of *)
(* the targets of a list.                                                  *)
Replies(c, p) == events' = Append(events, [target |-> c.target, property |-> p, time |-> c.time])
Refuses(c)    == Replies(c, None) /\ value' = value
Writes(c)     == /\ Replies(c, c.property) /\ c.target # Multiple
                 /\ value' = [value EXCEPT ![c.property] = Data(c.target)]
Converts(c, l, done) ==
  /\ Replies(c, c.property) /\ c.target = Multiple
  /\ value[c.property].is = "pairs" /\ l = value[c.property].pairs /\ done \subseteq DOMAIN l
  /\ value' = [x \in Properties |-> Converted(l, done, c.property, x)]

(* The owner takes the first request and answers it in one of these ways.   *)
LEMMA AnswerIs ==
  ASSUME Typed, Referring, Answer
  PROVE  /\ calls # <<>> /\ calls' = Tail(calls)
         /\ UNCHANGED <<request, table, timer, taken, inside, waiting>>
         /\ \E c \in Message, s \in DOMAIN request :
              /\ c = calls[1] /\ Of(c, request[s]) /\ c.property = request[s].property /\ c.property \in Properties
              /\ Refuses(c) \/ Writes(c) \/ \E l \in Seq(Pair) : \E done : Converts(c, l, done)
<1>1. calls # <<>> /\ calls' = Tail(calls) /\ UNCHANGED <<request, table, timer, taken, inside, waiting>>
  BY DEF Answer
<1>2. PICK c \in Message : c = calls[1] /\ c = Head(calls) /\ 1 \in DOMAIN calls
  BY <1>1 DEF Typed
<1>3. PICK s \in DOMAIN request : Of(c, request[s]) /\ c.property = request[s].property
  BY <1>2 DEF Referring
<1>4. c.property \in Properties
  BY <1>3, RequestsAre DEF Typed
<1>5. Refuses(c) \/ Writes(c) \/ \E l \in Seq(Pair) : \E done : Converts(c, l, done)
  <2>1. \/ Replies(c, None) /\ UNCHANGED value
        \/ Writes(c)
        \/ /\ c.target = Multiple /\ value[c.property].is = "pairs" /\ Replies(c, c.property)
           /\ \E done \in SUBSET DOMAIN value[c.property].pairs :
                value' = [x \in Properties |-> Converted(value[c.property].pairs, done, c.property, x)]
    <3>0. \/ Replies(Head(calls), None) /\ UNCHANGED value
          \/ /\ Head(calls).target # Multiple
             /\ value' = [value EXCEPT ![Head(calls).property] = Data(Head(calls).target)]
             /\ Replies(Head(calls), Head(calls).property)
          \/ /\ Head(calls).target = Multiple /\ value[Head(calls).property].is = "pairs"
             /\ \E done \in SUBSET DOMAIN value[Head(calls).property].pairs :
                  value' = [x \in Properties |->
                              Converted(value[Head(calls).property].pairs, done, Head(calls).property, x)]
             /\ Replies(Head(calls), Head(calls).property)
      BY DEF Answer, Replies, Converted
    <3>1. \/ Replies(c, None) /\ UNCHANGED value
          \/ /\ c.target # Multiple
             /\ value' = [value EXCEPT ![c.property] = Data(c.target)]
             /\ Replies(c, c.property)
          \/ /\ c.target = Multiple /\ value[c.property].is = "pairs"
             /\ \E done \in SUBSET DOMAIN value[c.property].pairs :
                  value' = [x \in Properties |-> Converted(value[c.property].pairs, done, c.property, x)]
             /\ Replies(c, c.property)
      BY <1>2, <3>0
    <3> QED BY <3>1 DEF Writes
  <2>2. value[c.property] \in Values
    BY <1>4 DEF Typed
  <2>3. value[c.property].is = "pairs" => value[c.property].pairs \in Seq(Pair)
    BY <2>2, ValuesAre
  <2> QED BY <2>1, <2>3 DEF Refuses, Converts
<1> QED BY <1>1, <1>2, <1>3, <1>4, <1>5

(* The list that the owner leaves: the pairs that he refuses name None.    *)
Remaining(l, done) == [i \in DOMAIN l |-> IF i \in done THEN l[i] ELSE [l[i] EXCEPT !.property = None]]

(* The list has the same targets, and None where a pair is refused.        *)
LEMMA RemainingIs ==
  ASSUME NEW l \in Seq(Pair), NEW done, done \subseteq DOMAIN l
  PROVE  /\ Remaining(l, done) \in Seq(Pair) /\ DOMAIN Remaining(l, done) = DOMAIN l
         /\ Len(Remaining(l, done)) = Len(l)
         /\ \A i \in DOMAIN l : /\ Remaining(l, done)[i].target = l[i].target
                                /\ Remaining(l, done)[i].property = IF i \in done THEN l[i].property ELSE None
<1>1. \A i \in DOMAIN l : l[i] \in Pair
  OBVIOUS
<1>2. \A i \in DOMAIN l : /\ Remaining(l, done)[i] \in Pair /\ Remaining(l, done)[i].target = l[i].target
                          /\ Remaining(l, done)[i].property = IF i \in done THEN l[i].property ELSE None
  BY <1>1 DEF Remaining, Pair, None
<1>3. PICK f : f = Remaining(l, done)
  OBVIOUS
<1>4. DOMAIN f = DOMAIN l /\ f = [i \in DOMAIN l |-> f[i]] /\ \A i \in DOMAIN l : f[i] \in Pair
  BY <1>2, <1>3 DEF Remaining
<1>5. f \in [1..Len(l) -> Pair] /\ Len(l) \in Nat
  BY <1>4
<1>6. f \in Seq(Pair) /\ Len(f) = Len(l)
  BY <1>5
<1> QED BY <1>2, <1>3, <1>4, <1>6

(* A property holds the data of the pair that names it, the list, or what  *)
(* it held before.                                                         *)
LEMMA ConvertedIs ==
  ASSUME NEW l \in Seq(Pair), NEW done, done \subseteq DOMAIN l, NEW p, NEW x
  PROVE  \/ \E i \in done : l[i].property = x /\ l[i].target \in Targets /\ Converted(l, done, p, x) = Data(l[i].target)
         \/ /\ \A i \in done : l[i].property # x
            /\ Converted(l, done, p, x) = IF x = p THEN List(Remaining(l, done)) ELSE value[x]
<1>1. CASE \E i \in done : l[i].property = x
  <2>1. PICK i \in done : l[i].property = x /\ Converted(l, done, p, x) = Data(l[i].target)
    BY <1>1 DEF Converted
  <2>2. l[i] \in Pair
    OBVIOUS
  <2> QED BY <2>1, <2>2 DEF Pair
<1>2. CASE ~ \E i \in done : l[i].property = x
  <2>1. Converted(l, done, p, x) = IF x = p THEN List(Remaining(l, done)) ELSE value[x]
    BY <1>2 DEF Converted, Remaining
  <2> QED BY <1>2, <2>1
<1> QED BY <1>1, <1>2

(* The types that the specification states follow.                         *)
LEMMA TypesFollow == Typed /\ Tabled(table) => RequestsTypeOK
<1>1. \A x \in Reading : x.at \in {"out", "read", "called"} /\ x.r \in Ids \cup {0} /\ x.pairs \in Seq(Pair)
  BY DEF Reading
<1> QED BY <1>1 DEF Typed, Tabled, RequestsTypeOK, Made, Slot

(* A new request keeps the base.                                           *)
LEMMA BaseMakes ==
  ASSUME Base, NEW q \in Made, Makes(q)
  PROVE  Base'
<1> DEFINE n == Len(request) + 1
<1>1. /\ Typed /\ Exist /\ Later /\ Tabled(table) /\ timer = Pending /\ Enough /\ Referring
      /\ \A r \in DOMAIN request : WellMade(request[r])
  BY DEF Base
<1>2. /\ request \in Seq(Made) /\ Len(request) \in Nat /\ DOMAIN request = 1..Len(request)
      /\ \A r \in DOMAIN request : /\ r \in Nat /\ r <= Len(request) /\ request[r].time \in Nat
  BY <1>1, RequestsAre
<1>3. request' \in Seq(Made) /\ Len(request') = n /\ DOMAIN request' = 1..n /\ n \in Nat /\ n \in DOMAIN request'
      /\ request'[n] = q /\ \A r \in DOMAIN request : r \in DOMAIN request' /\ request'[r] = request[r]
  BY <1>2 DEF Makes
<1>4. \A r \in DOMAIN request' : r = n \/ r \in DOMAIN request
  BY <1>2, <1>3
<1>5. n \in Ids /\ n <= MaxRequests
  BY <1>2, ListIs DEF Ids, Makes
<1>6. /\ q.property \in Properties /\ q.pairs \in Seq(Pair) /\ q.time \in Nat /\ q.target \in Whole
      /\ PropertiesIn(q) \cap taken = {} /\ taken' = taken \cup PropertiesIn(q)
      /\ WellMade(q) /\ \A r \in DOMAIN request : request[r].time < q.time
  BY DEF Makes, Made, Whole
<1>7. PropertiesIn(q) \subseteq Properties
  <2>1. \A i \in DOMAIN q.pairs : q.pairs[i].property \in Properties
    BY <1>6 DEF WellMade
  <2> QED BY <2>1, <1>6 DEF PropertiesIn, ToSet
<1> HIDE DEF n
<1>8. timer' \subseteq Ids /\ waiting' \in Ids \cup {0} /\ waiting' \in DOMAIN request' \cup {0}
  BY <1>1, <1>3, <1>5 DEF Makes, Typed, n
<1>9. value' \in [Properties -> Values]
  <2>1. List(q.pairs) \in Values
    BY <1>6, ValuesAre
  <2> QED BY <2>1, <1>1 DEF Makes, Typed
<1>10. events' = events /\ inside' = inside /\ calls' = Append(calls, [target |-> q.target, property |-> q.property, time |-> q.time])
  BY DEF Makes
<1>11. [target |-> q.target, property |-> q.property, time |-> q.time] \in Message
  BY <1>6 DEF Message
<1>12. PICK m \in Message : m = [target |-> q.target, property |-> q.property, time |-> q.time]
  BY <1>11
<1>13. /\ calls' \in Seq(Message) /\ calls \in Seq(Message) /\ Len(calls) \in Nat
       /\ \A k \in DOMAIN calls' : calls'[k] = m \/ (k \in DOMAIN calls /\ calls'[k] = calls[k])
  <2>1. calls \in Seq(Message) /\ calls' = Append(calls, m)
    BY <1>1, <1>10, <1>12 DEF Typed
  <2> QED BY <2>1
<1>14. Typed'
  BY <1>1, <1>3, <1>5, <1>6, <1>7, <1>8, <1>9, <1>10, <1>13 DEF Typed
<1>15. Exist'
  <2>1. waiting' # 0 => inside = Outside
    BY <1>1 DEF Makes, Exist
  <2>2. inside.r \in DOMAIN request' \cup {0}
    BY <1>1, <1>3 DEF Exist
  <2> QED BY <1>1, <1>8, <1>10, <2>1, <2>2 DEF Exist
<1>16. Later'
  <2> SUFFICES ASSUME NEW r \in DOMAIN request', NEW s \in DOMAIN request', r < s
               PROVE  request'[r].time < request'[s].time
    BY DEF Later
  <2>1. CASE s = n
    <3>1. r \in DOMAIN request
      BY <1>2, <1>4, <2>1
    <3> QED BY <3>1, <1>3, <1>6, <2>1
  <2>2. CASE s # n
    <3>1. r \in DOMAIN request /\ s \in DOMAIN request
      BY <1>2, <1>3, <1>4, <2>2 DEF n
    <3> QED BY <3>1, <1>1, <1>3 DEF Later
  <2> QED BY <2>1, <2>2
<1>17. Tabled(table)' /\ timer' = PendingIn(table')
  <2>1. CASE q.blocking
    <3>1. table' = table /\ timer' = timer
      BY <2>1 DEF Makes
    <3> QED BY <3>1, <1>1, <1>3 DEF Tabled, Pending, PendingIn
  <2>2. CASE ~q.blocking
    BY <1>1, <2>2 DEF Makes
  <2> QED BY <2>1, <2>2
<1>18. timer' = Pending'
  BY <1>17 DEF PendingIn, Pending
<1>19. Referring'
  <2>1. \A k \in DOMAIN events' : \E s \in DOMAIN request' : Of(events'[k], request'[s])
    BY <1>1, <1>3, <1>10 DEF Referring, Of
  <2>2. ASSUME NEW k \in DOMAIN calls'
        PROVE  \E s \in DOMAIN request' : Of(calls'[k], request'[s]) /\ calls'[k].property = request'[s].property
    <3>1. CASE calls'[k] = m
      <4>1. Of(m, q) /\ m.property = q.property
        BY <1>12 DEF Of
      <4> QED BY <3>1, <4>1, <1>3
    <3>2. CASE k \in DOMAIN calls /\ calls'[k] = calls[k]
      BY <3>2, <1>1, <1>3 DEF Referring, Of
    <3> QED BY <3>1, <3>2, <1>13
  <2> QED BY <2>1, <2>2 DEF Referring
<1>20. (\A r \in DOMAIN request : WellMade(request[r]))'
  BY <1>1, <1>3, <1>4, <1>6 DEF WellMade
<1>21. Enough'
  BY DEF Makes
<1> QED BY <1>14, <1>15, <1>16, <1>17, <1>18, <1>19, <1>20, <1>21 DEF Base

(* So does a step that makes none, if it keeps the types and the table.    *)
LEMMA BaseKept ==
  ASSUME Base, request' = request, taken' \subseteq taken, Tabled(table)', timer' = PendingIn(table'),
         value' \in [Properties -> Values], inside' \in Reading, waiting' \in {0, waiting},
         calls' \in Seq(Message), events' \in Seq(Message), Exist',
         \A k \in DOMAIN events' : \/ \E j \in DOMAIN events : events'[k] = events[j]
                                   \/ \E s \in DOMAIN request : Of(events'[k], request[s]),
         \A k \in DOMAIN calls' : \E j \in DOMAIN calls : calls'[k] = calls[j]
  PROVE  Base'
<1>1. /\ Typed /\ Exist /\ Later /\ Tabled(table) /\ timer = Pending /\ Enough /\ Referring
      /\ \A r \in DOMAIN request : WellMade(request[r])
  BY DEF Base
<1>2. PendingIn(table') \subseteq Ids
  <2>1. \A i \in DOMAIN table' : table'[i].r \in DOMAIN request
    BY DEF Tabled
  <2>2. \A r \in DOMAIN request : r \in Ids
    BY <1>1, RequestsAre
  <2> QED BY <2>1, <2>2 DEF PendingIn
<1>3. Typed'
  BY <1>1, <1>2 DEF Typed
<1>4. Later' /\ (\A r \in DOMAIN request : WellMade(request[r]))'
  BY <1>1 DEF Later, WellMade
<1>5. timer' = Pending'
  BY DEF PendingIn, Pending
<1>6. Enough'
  <2>1. IsFiniteSet(taken) /\ Cardinality(taken) \in Nat /\ Cardinality(taken) <= Len(request) * (1 + Len(ListOf))
    BY <1>1, FS_CardinalityType DEF Enough
  <2>2. IsFiniteSet(taken') /\ Cardinality(taken') <= Cardinality(taken) /\ Cardinality(taken') \in Nat
    BY <2>1, FS_Subset, FS_CardinalityType
  <2>3. PICK x \in Nat : x = Len(request) * (1 + Len(ListOf))
    <3>1. Len(request) \in Nat /\ 1 + Len(ListOf) \in Nat /\ \A a, b \in Nat : a * b \in Nat
      BY <1>1, RequestsAre, ListIs
    <3> QED BY <3>1
  <2>4. Cardinality(taken') <= x
    BY <2>1, <2>2, <2>3
  <2> QED BY <2>2, <2>3, <2>4 DEF Enough
<1>7. Referring'
  <2>1. \A k \in DOMAIN events' : \E s \in DOMAIN request : Of(events'[k], request[s])
    BY <1>1 DEF Referring
  <2>2. \A k \in DOMAIN calls' : \E s \in DOMAIN request : Of(calls'[k], request[s]) /\ calls'[k].property = request[s].property
    BY <1>1 DEF Referring
  <2> QED BY <2>1, <2>2 DEF Referring, Of
<1> QED BY <1>3, <1>4, <1>5, <1>6, <1>7 DEF Base

(* The fields of a reading.                                                *)
LEMMA ReadingIs ==
  /\ Outside \in Reading /\ Outside.r = 0 /\ Outside.pairs = <<>> /\ Outside.at = "out"
  /\ \A x \in Reading : x.r \in Ids \cup {0} /\ x.at \in {"out", "read", "called"} /\ x.pairs \in Seq(Pair) /\ x.got \in Values
<1>1. Nothing \in Values /\ <<>> \in Seq(Pair)
  BY ValuesAre
<1> QED BY <1>1 DEF Outside, Reading

(* An answer that is found good names the property of its request.         *)
LEMMA BegunIs ==
  ASSUME Base, NEW r \in DOMAIN request, NEW ev \in Message, Begun(r, ev)
  PROVE  /\ ev.property = request[r].property /\ ev.target = request[r].target
         /\ inside' \in Reading /\ inside'.r = r /\ inside'.at = "read"
         /\ request[r].target # Multiple =>
              /\ value' = value /\ inside'.pairs = <<[target |-> request[r].target, property |-> request[r].property]>>
         /\ request[r].target = Multiple =>
              /\ value' = [value EXCEPT ![request[r].property] = Nothing]
              /\ inside'.pairs = IF value[request[r].property].is = "pairs" THEN value[request[r].property].pairs ELSE <<>>
<1>1. Typed /\ Later /\ Referring
  BY DEF Base
<1>2. ev.property = request[r].property /\ ev.target = request[r].target
  <2>1. PICK k \in DOMAIN events : ev = events[k]
    BY DEF Begun
  <2>2. PICK s \in DOMAIN request : Of(ev, request[s])
    BY <1>1, <2>1 DEF Referring
  <2>3. request[s].time = request[r].time
    BY <2>2 DEF Begun, Of
  <2>4. r = s
    BY <1>1, <2>3, RequestsAre DEF Later
  <2> QED BY <2>2, <2>4 DEF Begun, Of
<1>3. PICK l : l = IF request[r].target = Multiple
                   THEN IF value[request[r].property].is = "pairs" THEN value[request[r].property].pairs ELSE <<>>
                   ELSE <<[target |-> ev.target, property |-> ev.property]>>
  OBVIOUS
<1>4. inside' = [r |-> r, at |-> "read", got |-> Nothing, pairs |-> l]
  BY <1>3 DEF Begun, Begin
<1>5. l \in Seq(Pair)
  <2>1. request[r].property \in Properties /\ request[r].target \in Whole
    BY <1>1, RequestsAre
  <2>2. CASE request[r].target = Multiple
    <3>1. value[request[r].property] \in Values
      BY <1>1, <2>1 DEF Typed
    <3> QED BY <3>1, <1>3, <2>2, ValuesAre
  <2>3. CASE request[r].target # Multiple
    <3>1. [target |-> ev.target, property |-> ev.property] \in Pair
      BY <1>2, <2>1, <2>3 DEF Pair, Whole
    <3> QED BY <3>1, <1>3, <2>3
  <2> QED BY <2>2, <2>3
<1>6. inside' \in Reading
  <2>1. r \in Ids /\ Nothing \in Values
    BY <1>1, RequestsAre, ValuesAre
  <2> QED BY <2>1, <1>4, <1>5 DEF Reading
<1>7. value' = IF request[r].target = Multiple THEN [value EXCEPT ![request[r].property] = Nothing] ELSE value
  BY DEF Begun, Begin
<1> QED BY <1>2, <1>3, <1>4, <1>6, <1>7

(* The value of the next pair is found and handed to the reply_proc.       *)
Gets(p) ==
  /\ inside.pairs # <<>> /\ p = Head(inside.pairs).property /\ p # None /\ value[p] # Nothing
  /\ inside' \in Reading /\ inside'.r = inside.r /\ inside'.at = "called"
  /\ inside'.pairs = inside.pairs /\ inside'.got = value[p]
  /\ value' = [value EXCEPT ![p] = Nothing]

(* There is none: the pair is skipped, or the reading is over.             *)
Misses ==
  /\ inside.pairs # <<>> /\ value' = value /\ inside' \in Reading
  /\ IF request[inside.r].target = Multiple
     THEN inside'.r = inside.r /\ inside'.at = "read" /\ inside'.pairs = Tail(inside.pairs)
     ELSE inside' = Outside

(* Reading a value does the one or the other.                              *)
LEMMA ReadIs ==
  ASSUME Base, Read
  PROVE  /\ waiting = 0 /\ inside.at = "read" /\ inside.r # 0 /\ inside.r \in DOMAIN request
         /\ UNCHANGED <<request, table, timer, taken, calls, events, waiting>>
         /\ Misses \/ \E p \in Properties : Gets(p)
<1>1. Typed /\ Exist
  BY DEF Base
<1>2. waiting = 0 /\ inside.at = "read" /\ UNCHANGED <<request, table, timer, taken, calls, events, waiting>>
  BY DEF Read
<1>3. inside.r # 0 /\ inside.r \in DOMAIN request
  BY <1>1, <1>2, ReadingIs DEF Exist
<1>4. inside \in Reading /\ inside.pairs \in Seq(Pair) /\ inside.pairs # <<>>
  BY <1>1, ReadingIs DEF Typed, Read
<1>5. Head(inside.pairs) \in Pair /\ Tail(inside.pairs) \in Seq(Pair)
  BY <1>4
<1>6. PICK p \in Properties \cup {0} : p = Head(inside.pairs).property
  BY <1>5 DEF Pair
<1>7. PICK v : v = IF p = None THEN Nothing ELSE value[p]
  OBVIOUS
<1>8. /\ inside' = IF v # Nothing
                   THEN [inside EXCEPT !.at = "called", !.got = v]
                   ELSE IF request[inside.r].target = Multiple
                   THEN [inside EXCEPT !.pairs = Tail(@)]
                   ELSE Outside
      /\ value' = IF v = Nothing THEN value ELSE [value EXCEPT ![p] = Nothing]
  BY <1>6, <1>7 DEF Read
<1>9. CASE v # Nothing
  <2>1. p # None /\ v = value[p] /\ p \in Properties
    BY <1>6, <1>7, <1>9 DEF None
  <2>2. v \in Values
    BY <1>1, <2>1 DEF Typed
  <2>3. inside' = [inside EXCEPT !.at = "called", !.got = v]
    BY <1>8, <1>9
  <2>4. inside' \in Reading /\ inside'.r = inside.r /\ inside'.at = "called" /\ inside'.pairs = inside.pairs /\ inside'.got = v
    BY <1>4, <2>2, <2>3 DEF Reading
  <2>5. Gets(p)
    BY <1>4, <1>6, <1>8, <1>9, <2>1, <2>4 DEF Gets
  <2> QED BY <1>2, <1>3, <2>1, <2>5
<1>10. CASE v = Nothing
  <2>1. CASE request[inside.r].target = Multiple
    <3>1. inside' = [inside EXCEPT !.pairs = Tail(inside.pairs)]
      BY <1>8, <1>10, <2>1
    <3>2. inside' \in Reading /\ inside'.r = inside.r /\ inside'.at = "read" /\ inside'.pairs = Tail(inside.pairs)
      BY <1>2, <1>4, <1>5, <3>1 DEF Reading
    <3>3. Misses
      BY <1>4, <1>8, <1>10, <2>1, <3>2 DEF Misses
    <3> QED BY <1>2, <1>3, <3>3
  <2>2. CASE request[inside.r].target # Multiple
    BY <1>2, <1>3, <1>4, <1>8, <1>10, <2>2, ReadingIs DEF Misses
  <2> QED BY <2>1, <2>2
<1> QED BY <1>9, <1>10

(* The reply_proc returns: the next pair is read.                          *)
LEMMA ReturnedIs ==
  ASSUME Base, Returned
  PROVE  /\ waiting = 0 /\ inside.at = "called" /\ inside.r # 0 /\ inside.r \in DOMAIN request
         /\ inside' \in Reading /\ inside'.r = inside.r /\ inside'.at = "read"
         /\ inside.pairs # <<>> /\ inside'.pairs = Tail(inside.pairs)
         /\ taken' = taken \ {Head(inside.pairs).property}
         /\ UNCHANGED <<request, table, timer, value, calls, events, waiting>>
<1>1. Typed /\ Exist
  BY DEF Base
<1>2. /\ waiting = 0 /\ inside.at = "called" /\ taken' = taken \ {Head(inside.pairs).property}
      /\ UNCHANGED <<request, table, timer, value, calls, events, waiting>>
      /\ inside' = [inside EXCEPT !.at = "read", !.pairs = Tail(inside.pairs), !.got = Nothing]
  BY DEF Returned
<1>3. inside.r # 0 /\ inside.r \in DOMAIN request /\ inside.pairs # <<>>
  BY <1>1, <1>2, ReadingIs DEF Exist
<1>4. inside \in Reading /\ inside.pairs \in Seq(Pair) /\ Nothing \in Values
  BY <1>1, ReadingIs, ValuesAre DEF Typed
<1>5. Tail(inside.pairs) \in Seq(Pair)
  BY <1>3, <1>4
<1>6. inside' \in Reading /\ inside'.r = inside.r /\ inside'.at = "read" /\ inside'.pairs = Tail(inside.pairs)
  BY <1>2, <1>4, <1>5 DEF Reading
<1> QED BY <1>2, <1>3, <1>6

(* Every step keeps the base.                                              *)
LEMMA BaseStep ==
  ASSUME Base, RequestsNext, OwnTimes
  PROVE  Base'
<1>1. /\ Typed /\ Exist /\ Later /\ Tabled(table) /\ timer = Pending /\ Referring
      /\ value \in [Properties -> Values] /\ inside \in Reading /\ calls \in Seq(Message) /\ events \in Seq(Message)
  BY DEF Base, Typed
<1>2. PendingIn(table) = Pending
  BY DEF PendingIn, Pending
<1>3. request' = request /\ table' = table /\ timer' = timer => Tabled(table)' /\ timer' = PendingIn(table')
  BY <1>1, <1>2 DEF Tabled, PendingIn
<1>4. CASE \E q \in Made : Makes(q)
  BY <1>4, BaseMakes
<1>5. ASSUME NEW r \in DOMAIN request, NEW ev \in Message, Begun(r, ev) PROVE Base'
  <2>1. request' = request /\ calls' = calls /\ UNCHANGED <<table, timer, taken>> /\ Fewer /\ waiting' = 0
    BY <1>5 DEF Begun, Begin
  <2>2. inside' \in Reading /\ inside'.r = r /\ inside'.at = "read"
    BY <1>5, BegunIs
  <2>3. value' \in [Properties -> Values]
    <3>1. Nothing \in Values
      BY ValuesAre
    <3> QED BY <3>1, <1>1, <1>5, BegunIs
  <2>4. Exist'
    <3>1. r # 0
      BY <1>1, RequestsAre
    <3> QED BY <2>1, <2>2, <3>1 DEF Exist
  <2> QED BY <1>1, <1>3, <2>1, <2>2, <2>3, <2>4, BaseKept DEF Fewer
<1>6. ASSUME NEW r \in DOMAIN request, Ending(r) PROVE Base'
  <2>1. request' = request /\ value' = value /\ calls' = calls /\ Fewer /\ waiting' = 0 /\ inside' = Outside
        /\ Tabled(table)' /\ PendingIn(table') = Pending \ {r} /\ timer' = timer \ {r} /\ taken' \subseteq taken
    BY <1>6 DEF Ending, Cleared
  <2>2. Exist' /\ inside' \in Reading
    BY <2>1, ReadingIs DEF Exist
  <2> QED BY <1>1, <2>1, <2>2, BaseKept DEF Fewer
<1>7. CASE Skips
  <2>1. Exist'
    BY <1>1, <1>7 DEF Skips, Exist
  <2> QED BY <1>1, <1>3, <1>7, <2>1, BaseKept DEF Skips, Fewer
<1>8. CASE Read
  <2>1. /\ waiting = 0 /\ inside.r # 0 /\ inside.r \in DOMAIN request
        /\ UNCHANGED <<request, table, timer, taken, calls, events, waiting>>
        /\ Misses \/ \E p \in Properties : Gets(p)
    BY <1>8, ReadIs
  <2>2. inside' \in Reading /\ value' \in [Properties -> Values] /\ Exist'
    <3>1. CASE Misses
      <4>1. value' = value /\ inside' \in Reading /\ (inside' = Outside \/ (inside'.r = inside.r /\ inside'.at = "read"))
        BY <3>1 DEF Misses
      <4>2. Exist'
        BY <2>1, <4>1, ReadingIs DEF Exist
      <4> QED BY <1>1, <4>1, <4>2
    <3>2. ASSUME NEW p \in Properties, Gets(p) PROVE inside' \in Reading /\ value' \in [Properties -> Values] /\ Exist'
      <4>1. Nothing \in Values
        BY ValuesAre
      <4> QED BY <1>1, <2>1, <3>2, <4>1 DEF Gets, Exist
    <3> QED BY <2>1, <3>1, <3>2
  <2> QED BY <1>1, <1>3, <2>1, <2>2, BaseKept
<1>9. CASE Returned
  <2>1. /\ waiting = 0 /\ inside.r # 0 /\ inside.r \in DOMAIN request
        /\ inside' \in Reading /\ inside'.r = inside.r /\ inside'.at = "read"
        /\ taken' \subseteq taken
        /\ UNCHANGED <<request, table, timer, value, calls, events, waiting>>
    BY <1>9, ReturnedIs
  <2>2. Exist'
    BY <2>1 DEF Exist
  <2> QED BY <1>1, <1>3, <2>1, <2>2, BaseKept
<1>10. CASE Answer
  <2>1. calls # <<>> /\ calls' = Tail(calls) /\ UNCHANGED <<request, table, timer, taken, inside, waiting>>
    BY <1>1, <1>10, AnswerIs
  <2>2. PICK c \in Message, s \in DOMAIN request :
          /\ c = calls[1] /\ Of(c, request[s]) /\ c.property = request[s].property /\ c.property \in Properties
          /\ Refuses(c) \/ Writes(c) \/ \E l \in Seq(Pair) : \E done : Converts(c, l, done)
    BY <1>1, <1>10, AnswerIs
  <2>3. PICK p \in {None, c.property} : Replies(c, p)
    BY <2>2 DEF Refuses, Writes, Converts
  <2>4. PICK m : m = [target |-> c.target, property |-> p, time |-> c.time]
    OBVIOUS
  <2>5. m \in Message /\ Of(m, request[s])
    BY <2>2, <2>3, <2>4 DEF Message, Of, None
  <2>6. events' \in Seq(Message) /\ \A k \in DOMAIN events' : events'[k] = m \/ \E j \in DOMAIN events : events'[k] = events[j]
    BY <1>1, <2>3, <2>4, <2>5 DEF Replies
  <2>7. calls' \in Seq(Message) /\ \A k \in DOMAIN calls' : \E j \in DOMAIN calls : calls'[k] = calls[j]
    <3>1. \A k \in DOMAIN calls' : k + 1 \in DOMAIN calls /\ calls'[k] = calls[k + 1]
      BY <1>1, <2>1
    <3> QED BY <1>1, <2>1, <3>1
  <2>8. value' \in [Properties -> Values]
    <3>1. CASE Refuses(c)
      BY <3>1, <1>1 DEF Refuses
    <3>2. CASE Writes(c)
      <4>1. c.target \in Targets
        BY <3>2 DEF Writes, Message, Whole
      <4>2. Data(c.target) \in Values
        BY <4>1, ValuesAre
      <4> QED BY <3>2, <4>2, <1>1 DEF Writes
    <3>3. ASSUME NEW l \in Seq(Pair), NEW done, Converts(c, l, done) PROVE value' \in [Properties -> Values]
      <4>1. done \subseteq DOMAIN l /\ value' = [x \in Properties |-> Converted(l, done, c.property, x)]
        BY <3>3 DEF Converts
      <4>2. ASSUME NEW x \in Properties PROVE Converted(l, done, c.property, x) \in Values
        <5>1. Remaining(l, done) \in Seq(Pair)
          BY <4>1, RemainingIs
        <5>2. List(Remaining(l, done)) \in Values /\ value[x] \in Values
          BY <5>1, <1>1, ValuesAre
        <5>3. \/ \E t \in Targets : Converted(l, done, c.property, x) = Data(t)
              \/ Converted(l, done, c.property, x) \in {List(Remaining(l, done)), value[x]}
          BY <4>1, ConvertedIs
        <5> QED BY <5>2, <5>3, ValuesAre
      <4> QED BY <4>1, <4>2
    <3> QED BY <2>2, <3>1, <3>2, <3>3
  <2>9. Exist'
    BY <1>1, <2>1 DEF Exist
  <2> QED BY <1>1, <1>3, <2>1, <2>5, <2>6, <2>7, <2>8, <2>9, BaseKept
<1> QED BY <1>4, <1>5, <1>6, <1>7, <1>8, <1>9, <1>10, StepIs

(* A step in which nothing happens keeps it too.                           *)
LEMMA BaseStutter ==
  ASSUME Base, UNCHANGED requestVars
  PROVE  Base'
<1> USE DEF requestVars
<1>1. Typed' /\ Exist' /\ Later' /\ Referring' /\ Enough'
  BY DEF Base, Typed, Exist, Later, Referring, Enough
<1>2. Tabled(table)' /\ timer' = Pending' /\ (\A r \in DOMAIN request : WellMade(request[r]))'
  BY DEF Base, Tabled, Pending, WellMade
<1> QED BY <1>1, <1>2 DEF Base

(* At first there are no requests.                                         *)
LEMMA BaseFirst == RequestsInit => Base
<1> SUFFICES ASSUME RequestsInit PROVE Base
  OBVIOUS
<1>1. request = <<>> /\ table = <<>> /\ timer = {} /\ taken = {} /\ waiting = 0 /\ calls = <<>> /\ events = <<>>
      /\ inside = Outside /\ value = [p \in Properties |-> Nothing] /\ Len(request) = 0 /\ DOMAIN request = {}
  BY DEF RequestsInit
<1>2. Typed
  <2>1. value \in [Properties -> Values]
    BY <1>1, ValuesAre
  <2> QED BY <1>1, <2>1, ReadingIs, ListIs DEF Typed
<1>3. Exist
  BY <1>1, ReadingIs DEF Exist
<1>4. Tabled(table) /\ timer = Pending
  BY <1>1 DEF Tabled, Pending
<1>5. Enough
  <2>1. 0 * (1 + Len(ListOf)) = 0
    BY ListIs
  <2>2. IsFiniteSet({}) /\ Cardinality({}) = 0
    BY FS_EmptySet
  <2> QED BY <1>1, <2>1, <2>2 DEF Enough
<1>6. Later /\ Referring /\ \A r \in DOMAIN request : WellMade(request[r])
  BY <1>1 DEF Later, Referring
<1> QED BY <1>2, <1>3, <1>4, <1>5, <1>6 DEF Base

(* The base holds at all times, if no two requests have the same time.     *)
LEMMA BaseAlways == ASSUME OwnTimes PROVE RequestsSpec => []Base
<1>1. Base /\ [RequestsNext]_requestVars => Base'
  BY BaseStep, BaseStutter
<1> QED BY <1>1, BaseFirst, PTL DEF RequestsSpec

(* TimedWhilePending: all variables keep their types and a request has its *)
(* timer exactly as long as it is pending, if no two requests have the     *)
(* same time.                                                              *)
THEOREM TimedAlways == ASSUME OwnTimes PROVE RequestsSpec => []TimedWhilePending
<1>1. Base => TimedWhilePending
  BY TypesFollow DEF Base, TimedWhilePending
<1> QED BY <1>1, BaseAlways, PTL

-----------------------------------------------------------------------------
(* No two requests under way share a property.                             *)

(* What is under way has been made, and its properties are in the pool.    *)
LEMMA OpenAre ==
  ASSUME Base, NEW r \in Open
  PROVE  r \in DOMAIN request /\ r \in Nat /\ r # 0 /\ PropertiesOf(r) \subseteq Properties
<1>1. Typed /\ Exist /\ Tabled(table) /\ \A s \in DOMAIN request : WellMade(request[s])
  BY DEF Base
<1>2. r \in DOMAIN request
  <2>1. \A s \in Pending : s \in DOMAIN request
    BY <1>1 DEF Tabled, Pending
  <2> QED BY <1>1, <2>1 DEF Open, Exist
<1>3. r \in Nat /\ r # 0 /\ request[r].property \in Properties
  BY <1>1, <1>2, RequestsAre
<1>4. \A i \in DOMAIN request[r].pairs : request[r].pairs[i].property \in Properties
  BY <1>1, <1>2 DEF WellMade
<1> QED BY <1>2, <1>3, <1>4 DEF PropertiesOf, ToSet

(* Two of them are apart, whichever is the later.                          *)
LEMMA TwoApart ==
  ASSUME Base, LaterApart, NEW r \in Open, NEW s \in Open, r # s
  PROVE  PropertiesOf(r) \cap PropertiesOf(s) = {}
<1>1. r \in DOMAIN request /\ s \in DOMAIN request /\ r \in Nat /\ s \in Nat
  BY OpenAre
<1>2. r < s \/ s < r
  BY <1>1
<1> QED BY <1>1, <1>2 DEF LaterApart

(* A list that a request under way has left is its own.                    *)
LEMMA ListIsOwn ==
  ASSUME Base, LaterApart, ListsFrom, NEW r \in Open, request[r].target = Multiple,
         value[request[r].property].is = "pairs"
  PROVE  FromPairs(value[request[r].property].pairs, request[r].pairs)
<1>1. r \in DOMAIN request /\ r \in Nat
  BY OpenAre
<1>2. PICK s \in DOMAIN request : r <= s /\ request[s].property = request[r].property
                                  /\ FromPairs(value[request[r].property].pairs, request[s].pairs)
  BY <1>1 DEF ListsFrom
<1>3. request[r].property \in PropertiesOf(r) /\ request[s].property \in PropertiesOf(s)
  BY DEF PropertiesOf
<1>4. ~ (r < s)
  BY <1>1, <1>2, <1>3 DEF LaterApart
<1>5. s \in Nat
  BY RequestsAre DEF Base
<1>6. r = s
  BY <1>1, <1>2, <1>4, <1>5
<1> QED BY <1>2, <1>6

(* Lists that disappear leave the others as they are.                      *)
LEMMA ListsKept ==
  ASSUME Base, ListsFrom, request' = request,
         \A p \in Properties : value'[p].is = "pairs" => value'[p] = value[p]
  PROVE  ListsFrom'
<1>1. \A r \in DOMAIN request : request[r].property \in Properties
  BY RequestsAre DEF Base
<1>2. ListOf = <<>> => \A p \in Properties : value'[p].is # "pairs"
  BY DEF ListsFrom
<1>3. ASSUME NEW r \in DOMAIN request, request[r].target = Multiple, value'[request[r].property].is = "pairs"
      PROVE  \E s \in DOMAIN request : r <= s /\ request[s].property = request[r].property
                                       /\ FromPairs(value'[request[r].property].pairs, request[s].pairs)
  BY <1>1, <1>3 DEF ListsFrom
<1> QED BY <1>2, <1>3 DEF ListsFrom, FromPairs

(* Of the requests that were made the later ones remain apart.             *)
LEMMA LaterKept ==
  ASSUME LaterApart, request' = request, Open' \subseteq Open
  PROVE  LaterApart'
<1>1. \A r \in DOMAIN request : PropertiesOf(r)' = PropertiesOf(r)
  BY DEF PropertiesOf
<1> QED BY <1>1 DEF LaterApart, PropertiesOf

(* The properties of the requests that are reserved remain so.             *)
LEMMA ReservedKept ==
  ASSUME Reserved, request' = request, Open' \subseteq Open,
         \A r \in Open : r \in Open' /\ Untouched(r)' =>
           Untouched(r) /\ (PropertiesOf(r) \subseteq taken => PropertiesOf(r) \subseteq taken')
  PROVE  Reserved'
<1>1. ASSUME NEW r \in Open', Untouched(r)' PROVE PropertiesOf(r)' \subseteq taken'
  <2>1. r \in Open /\ Untouched(r) /\ (PropertiesOf(r) \subseteq taken => PropertiesOf(r) \subseteq taken')
    BY <1>1
  <2>2. PropertiesOf(r) \subseteq taken
    BY <2>1 DEF Reserved
  <2>3. PropertiesOf(r)' = PropertiesOf(r)
    BY DEF PropertiesOf
  <2> QED BY <2>1, <2>2, <2>3
<1> QED BY <1>1 DEF Reserved

(* A new request has properties that no request under way has.             *)
LEMMA ApartMakes ==
  ASSUME Base, Apart, ~PostInside, NEW q \in Made, Makes(q)
  PROVE  Apart'
<1>0. PICK n : n = Len(request) + 1
  OBVIOUS
<1>1. Typed /\ LaterApart /\ Reserved /\ ListsFrom
  BY DEF Base, Apart
<1>2. /\ request \in Seq(Made) /\ Len(request) \in Nat /\ DOMAIN request = 1..Len(request)
      /\ \A r \in DOMAIN request : r \in Nat /\ r # 0 /\ r < n /\ request[r].property \in Properties
  BY <1>0, <1>1, RequestsAre
<1>3. DOMAIN request' = 1..n /\ n \in Nat /\ n \in DOMAIN request' /\ n # 0
      /\ request'[n] = q /\ \A r \in DOMAIN request : r \in DOMAIN request' /\ request'[r] = request[r]
  BY <1>0, <1>2 DEF Makes
<1>4. \A r \in DOMAIN request' : r = n \/ (r \in DOMAIN request /\ r < n)
  BY <1>0, <1>2, <1>3
<1>5. inside = Outside /\ inside' = inside /\ waiting = 0 /\ inside.r = 0
  BY ReadingIs DEF Makes
<1>6. PropertiesIn(q) \cap taken = {} /\ taken' = taken \cup PropertiesIn(q) /\ q.property \in Properties
  BY DEF Makes, Made
<1>7. /\ value' = IF q.pairs = <<>> THEN value ELSE [value EXCEPT ![q.property] = List(q.pairs)]
      /\ (ListOf = <<>> => q.pairs = <<>>) /\ (q.target = Multiple /\ q.pairs = <<>> => ListOf = <<>>)
      /\ value \in [Properties -> Values] /\ q.pairs \in Seq(Pair)
  BY <1>1 DEF Makes, Typed, Made
<1>8. Open' \subseteq Open \cup {n}
  <2>1. Pending' \subseteq Pending \cup {n}
    BY <1>0 DEF Makes, PendingIn, Pending
  <2>2. waiting' \in {0, n}
    BY <1>0 DEF Makes
  <2> QED BY <1>5, <2>1, <2>2 DEF Open
<1>9. /\ PropertiesOf(n)' = PropertiesIn(q)
      /\ \A r \in DOMAIN request : PropertiesOf(r)' = PropertiesOf(r)
  BY <1>3 DEF PropertiesOf, PropertiesIn
<1>10. \A r \in Open : r \in DOMAIN request /\ PropertiesOf(r) \subseteq taken
  <2>1. \A r \in Open : r # 0 /\ r \in DOMAIN request
    BY OpenAre
  <2> QED BY <1>1, <1>5, <2>1 DEF Reserved, Untouched
<1>11. LaterApart'
  <2>1. ASSUME NEW r \in Open', NEW s \in DOMAIN request', r < s PROVE PropertiesOf(r)' \cap PropertiesOf(s)' = {}
    <3>1. r # n
      BY <1>2, <1>3, <1>4, <2>1
    <3>2. r \in Open /\ r \in DOMAIN request /\ PropertiesOf(r) \subseteq taken
      BY <1>8, <1>10, <3>1
    <3>3. CASE s = n
      BY <1>6, <1>9, <3>2, <3>3
    <3>4. CASE s \in DOMAIN request
      <4>1. PropertiesOf(r) \cap PropertiesOf(s) = {}
        BY <1>1, <2>1, <3>2, <3>4 DEF LaterApart
      <4> QED BY <1>9, <3>2, <3>4, <4>1
    <3> QED BY <1>4, <3>3, <3>4
  <2> QED BY <2>1 DEF LaterApart
<1>12. Reserved'
  <2>1. ASSUME NEW r \in Open' PROVE PropertiesOf(r)' \subseteq taken'
    BY <1>6, <1>8, <1>9, <1>10
  <2> QED BY <2>1 DEF Reserved
<1>13. ListsFrom'
  <2>1. ListOf = <<>> => \A p \in Properties : value'[p].is # "pairs"
    BY <1>1, <1>7 DEF ListsFrom
  <2>2. ASSUME NEW r \in DOMAIN request', request'[r].target = Multiple, value'[request'[r].property].is = "pairs"
        PROVE  \E s \in DOMAIN request' : r <= s /\ request'[s].property = request'[r].property
                                          /\ FromPairs(value'[request'[r].property].pairs, request'[s].pairs)
    <3>1. CASE q.pairs # <<>> /\ request'[r].property = q.property
      <4>1. value'[q.property] = List(q.pairs)
        BY <1>6, <1>7, <3>1
      <4>2. value'[request'[r].property].pairs = q.pairs
        BY <3>1, <4>1 DEF List
      <4>3. \A i \in DOMAIN q.pairs : q.pairs[i].property \in {None, q.pairs[i].property}
        OBVIOUS
      <4>4. FromPairs(value'[request'[r].property].pairs, request'[n].pairs)
        BY <1>3, <4>2, <4>3 DEF FromPairs
      <4>5. r <= n
        BY <1>2, <1>3, <1>4
      <4> QED BY <1>3, <3>1, <4>4, <4>5
    <3>2. CASE ~ (q.pairs # <<>> /\ request'[r].property = q.property)
      <4>1. request'[r].property \in Properties
        BY <1>2, <1>3, <1>4, <1>6
      <4>2. value'[request'[r].property] = value[request'[r].property]
        BY <1>7, <3>2, <4>1
      <4>3. r # n
        <5> SUFFICES ASSUME r = n PROVE FALSE
          OBVIOUS
        <5>1. q.target = Multiple /\ q.pairs = <<>>
          BY <1>3, <2>2, <3>2
        <5> QED BY <5>1, <1>7, <2>1, <2>2, <4>1
      <4>4. r \in DOMAIN request /\ request'[r] = request[r]
        BY <1>3, <1>4, <4>3
      <4>5. PICK s \in DOMAIN request : r <= s /\ request[s].property = request[r].property
                                        /\ FromPairs(value[request[r].property].pairs, request[s].pairs)
        BY <1>1, <2>2, <4>2, <4>4 DEF ListsFrom
      <4>6. request'[s] = request[s] /\ s \in DOMAIN request'
        BY <1>3
      <4>7. FromPairs(value'[request'[r].property].pairs, request'[s].pairs)
        BY <4>2, <4>4, <4>5, <4>6 DEF FromPairs
      <4> QED BY <4>4, <4>5, <4>6, <4>7
    <3> QED BY <3>1, <3>2
  <2> QED BY <2>1, <2>2 DEF ListsFrom
<1>14. ReadsOwn'
  BY <1>5 DEF ReadsOwn
<1> QED BY <1>11, <1>12, <1>13, <1>14 DEF Apart

(* What begins to be read is of the request's own properties.              *)
LEMMA ApartBegun ==
  ASSUME Base, Apart, NEW r \in DOMAIN request, NEW ev \in Message, Begun(r, ev)
  PROVE  Apart'
<1>1. Typed /\ LaterApart /\ Reserved /\ ListsFrom
  BY DEF Base, Apart
<1>2. /\ request' = request /\ table' = table /\ taken' = taken /\ inside = Outside /\ inside.r = 0
      /\ waiting \in {0, r} /\ waiting' = 0 /\ r \in Open /\ r # 0
  BY ReadingIs, OpenAre DEF Begun, Begin
<1>3. /\ inside'.r = r /\ inside' \in Reading
      /\ request[r].target # Multiple =>
           value' = value /\ inside'.pairs = <<[target |-> request[r].target, property |-> request[r].property]>>
      /\ request[r].target = Multiple =>
           /\ value' = [value EXCEPT ![request[r].property] = Nothing]
           /\ inside'.pairs = IF value[request[r].property].is = "pairs" THEN value[request[r].property].pairs ELSE <<>>
  BY BegunIs
<1>4. Open' \subseteq Open
  BY <1>2, <1>3 DEF Open, Pending
<1>5. LaterApart'
  BY <1>1, <1>2, <1>4, LaterKept
<1>6. Reserved'
  <2>1. \A s \in Open : s # inside.r
    BY <1>2, OpenAre
  <2> QED BY <1>1, <1>2, <1>4, <2>1, ReservedKept DEF Untouched
<1>7. ListsFrom'
  <2>1. Nothing.is # "pairs" /\ value \in [Properties -> Values] /\ request[r].property \in Properties
    BY <1>1, ValuesAre, RequestsAre DEF Typed
  <2>2. \A p \in Properties : value'[p].is = "pairs" => value'[p] = value[p]
    BY <1>3, <2>1
  <2> QED BY <1>1, <1>2, <2>2, ListsKept
<1>8. ReadsOwn'
  <2>1. ASSUME NEW i \in DOMAIN inside'.pairs PROVE inside'.pairs[i].property \in {None} \cup PropertiesOf(r)
    <3>1. CASE request[r].target # Multiple
      <4>1. inside'.pairs[i].property = request[r].property
        BY <1>3, <3>1
      <4> QED BY <4>1 DEF PropertiesOf
    <3>2. CASE request[r].target = Multiple /\ value[request[r].property].is = "pairs"
      <4>1. FromPairs(inside'.pairs, request[r].pairs)
        BY <1>1, <1>2, <1>3, <3>2, ListIsOwn
      <4>2. inside'.pairs \in Seq(Pair) /\ request[r].pairs \in Seq(Pair)
        BY <1>1, <1>3, ReadingIs, RequestsAre
      <4>3. i \in DOMAIN request[r].pairs
        BY <4>1, <4>2 DEF FromPairs
      <4> QED BY <4>1, <4>3 DEF FromPairs, PropertiesOf, ToSet
    <3>3. CASE request[r].target = Multiple /\ value[request[r].property].is # "pairs"
      BY <1>3, <3>3
    <3> QED BY <3>1, <3>2, <3>3
  <2>2. request[r].target # Multiple => Len(inside'.pairs) <= 1
    <3>1. PICK x : x = [target |-> request[r].target, property |-> request[r].property]
      OBVIOUS
    <3>2. Len(<<x>>) <= 1
      OBVIOUS
    <3> QED BY <3>1, <3>2, <1>3
  <2>3. PropertiesOf(r)' = PropertiesOf(r)
    BY <1>2 DEF PropertiesOf
  <2> QED BY <1>2, <1>3, <2>1, <2>2, <2>3 DEF ReadsOwn, PropertiesOf
<1> QED BY <1>5, <1>6, <1>7, <1>8 DEF Apart

(* A request that ends gives only its own properties back.                 *)
LEMMA ApartEnding ==
  ASSUME Base, Apart, NEW r \in DOMAIN request, Ending(r)
  PROVE  Apart'
<1>1. LaterApart /\ Reserved /\ ListsFrom
  BY DEF Apart
<1>2. /\ request' = request /\ value' = value /\ inside' = Outside /\ waiting' = 0
      /\ inside.r \in {0, r} /\ waiting \in {0, r} /\ r \in Open
      /\ taken \ PropertiesOf(r) \subseteq taken' /\ PendingIn(table') = Pending \ {r}
      /\ inside'.r = 0
  BY ReadingIs DEF Ending, Cleared
<1>3. Open' \subseteq Open \ {r}
  BY <1>2 DEF Open, Pending, PendingIn
<1>4. LaterApart'
  BY <1>1, <1>2, <1>3, LaterKept
<1>5. Reserved'
  <2>1. ASSUME NEW s \in Open, s # r
        PROVE  Untouched(s) /\ (PropertiesOf(s) \subseteq taken => PropertiesOf(s) \subseteq taken')
    <3>1. PropertiesOf(s) \cap PropertiesOf(r) = {}
      BY <1>1, <1>2, <2>1, TwoApart
    <3>2. s # inside.r
      BY <1>2, <2>1, OpenAre
    <3> QED BY <1>2, <3>1, <3>2 DEF Untouched
  <2> QED BY <1>1, <1>2, <1>3, <2>1, ReservedKept
<1>6. ListsFrom' /\ ReadsOwn'
  BY <1>1, <1>2, ListsKept DEF ReadsOwn
<1> QED BY <1>4, <1>5, <1>6 DEF Apart

(* An answer that is ignored changes nothing of it.                        *)
LEMMA ApartSkips ==
  ASSUME Base, Apart, UNCHANGED <<request, table, taken, value, inside, waiting>>
  PROVE  Apart'
<1>1. LaterApart /\ Reserved /\ ListsFrom /\ ReadsOwn
  BY DEF Apart
<1>2. Open' = Open
  BY DEF Open, Pending
<1>3. LaterApart'
  BY <1>1, <1>2, LaterKept
<1>4. Reserved'
  BY <1>1, <1>2, ReservedKept DEF Untouched
<1>5. ListsFrom' /\ ReadsOwn'
  BY <1>1, ListsKept DEF ReadsOwn, PropertiesOf
<1> QED BY <1>3, <1>4, <1>5 DEF Apart

(* Reading gives nothing back; a request for one target that finds nothing *)
(* is left as it was.                                                      *)
LEMMA ApartRead ==
  ASSUME Base, Apart, Read
  PROVE  Apart'
<1>1. Typed /\ LaterApart /\ Reserved /\ ListsFrom /\ ReadsOwn
  BY DEF Base, Apart
<1>2. /\ waiting = 0 /\ inside.r # 0 /\ inside.r \in DOMAIN request
      /\ UNCHANGED <<request, table, taken, waiting>>
      /\ Misses \/ \E p \in Properties : Gets(p)
  BY ReadIs
<1>3. PICK r \in DOMAIN request : r = inside.r
  BY <1>2
<1>4. inside'.r \in {0, r} /\ inside.pairs # <<>> /\ inside.pairs \in Seq(Pair) /\ inside'.pairs \in Seq(Pair)
  BY <1>1, <1>2, <1>3, ReadingIs DEF Gets, Misses, Typed
<1>5. Open' \subseteq Open
  BY <1>2, <1>3, <1>4 DEF Open, Pending
<1>6. LaterApart'
  BY <1>1, <1>2, <1>5, LaterKept
<1>7. Reserved'
  <2>1. ASSUME NEW s \in Open, Untouched(s)' PROVE Untouched(s)
    <3>1. CASE s # r
      BY <1>3, <3>1 DEF Untouched
    <3>2. CASE s = r
      <4>1. s # 0
        BY OpenAre
      <4>2. request[s].target # Multiple
        BY <1>2, <1>3, <2>1, <3>2 DEF Misses, Gets, Untouched
      <4> QED BY <1>4, <4>2 DEF Untouched
    <3> QED BY <3>1, <3>2
  <2> QED BY <1>1, <1>2, <1>5, <2>1, ReservedKept
<1>8. ListsFrom'
  <2>1. Nothing.is # "pairs" /\ value \in [Properties -> Values]
    BY <1>1, ValuesAre DEF Typed
  <2>2. \A p \in Properties : value'[p].is = "pairs" => value'[p] = value[p]
    BY <1>2, <2>1 DEF Misses, Gets
  <2> QED BY <1>1, <1>2, <2>2, ListsKept
<1>9. ReadsOwn'
  <2> SUFFICES ASSUME inside'.r # 0 PROVE ReadsOwn'
    BY DEF ReadsOwn
  <2>1. inside'.r = r
    BY <1>4
  <2>2. inside'.pairs = inside.pairs \/ (inside'.pairs = Tail(inside.pairs) /\ request[r].target = Multiple)
    BY <1>2, <1>3, ReadingIs DEF Misses, Gets
  <2>3. \A i \in DOMAIN inside'.pairs : \E j \in DOMAIN inside.pairs : inside'.pairs[i] = inside.pairs[j]
    <3>1. \A i \in DOMAIN Tail(inside.pairs) : i + 1 \in DOMAIN inside.pairs /\ Tail(inside.pairs)[i] = inside.pairs[i + 1]
      BY <1>4
    <3> QED BY <2>2, <3>1
  <2>4. \A i \in DOMAIN inside'.pairs : inside'.pairs[i].property \in {None} \cup PropertiesOf(r)
    BY <1>1, <1>2, <1>3, <2>3 DEF ReadsOwn
  <2>5. request[r].target # Multiple => Len(inside'.pairs) <= 1
    BY <1>1, <1>2, <1>3, <2>2 DEF ReadsOwn
  <2> QED BY <1>2, <2>1, <2>4, <2>5 DEF ReadsOwn, PropertiesOf
<1> QED BY <1>6, <1>7, <1>8, <1>9 DEF Apart

(* A reply_proc that returns gives a property of its request back.         *)
LEMMA ApartReturned ==
  ASSUME Base, Apart, Returned
  PROVE  Apart'
<1>1. Typed /\ LaterApart /\ Reserved /\ ListsFrom /\ ReadsOwn
  BY DEF Base, Apart
<1>2. /\ waiting = 0 /\ inside.r # 0 /\ inside.r \in DOMAIN request /\ inside'.r = inside.r
      /\ inside.pairs # <<>> /\ inside'.pairs = Tail(inside.pairs)
      /\ taken' = taken \ {Head(inside.pairs).property}
      /\ UNCHANGED <<request, table, value, waiting>>
  BY ReturnedIs
<1>3. PICK r \in DOMAIN request : r = inside.r
  BY <1>2
<1>4. inside.pairs \in Seq(Pair) /\ 1 \in DOMAIN inside.pairs /\ Head(inside.pairs) = inside.pairs[1]
  <2>1. inside.pairs \in Seq(Pair)
    BY <1>1, ReadingIs DEF Typed
  <2> QED BY <1>2, <2>1
<1>5. Head(inside.pairs).property \in {None} \cup PropertiesOf(r)
  BY <1>1, <1>2, <1>3, <1>4 DEF ReadsOwn
<1>6. Open' = Open /\ r \in Open
  BY <1>2, <1>3 DEF Open, Pending
<1>7. LaterApart'
  BY <1>1, <1>2, <1>6, LaterKept
<1>8. Reserved'
  <2>1. ASSUME NEW s \in Open, Untouched(s)'
        PROVE  Untouched(s) /\ (PropertiesOf(s) \subseteq taken => PropertiesOf(s) \subseteq taken')
    <3>1. s # r
      <4> SUFFICES ASSUME s = r PROVE FALSE
        OBVIOUS
      <4>1. request[r].target # Multiple /\ Tail(inside.pairs) # <<>>
        BY <1>2, <1>3, <2>1 DEF Untouched
      <4>2. Len(inside.pairs) <= 1
        BY <1>1, <1>2, <1>3, <4>1 DEF ReadsOwn
      <4> QED BY <1>2, <1>4, <4>1, <4>2
    <3>2. PropertiesOf(s) \cap PropertiesOf(r) = {} /\ PropertiesOf(s) \subseteq Properties
      BY <1>1, <1>6, <3>1, TwoApart, OpenAre
    <3>3. None \notin Properties
      BY ListIs DEF None
    <3>4. Head(inside.pairs).property \notin PropertiesOf(s)
      BY <1>5, <3>2, <3>3
    <3> QED BY <1>2, <1>3, <3>1, <3>4 DEF Untouched
  <2> QED BY <1>1, <1>2, <1>6, <2>1, ReservedKept
<1>9. ListsFrom'
  BY <1>1, <1>2, ListsKept
<1>10. ReadsOwn'
  <2>1. \A i \in DOMAIN Tail(inside.pairs) : i + 1 \in DOMAIN inside.pairs /\ Tail(inside.pairs)[i] = inside.pairs[i + 1]
    BY <1>2, <1>4
  <2>2. Len(Tail(inside.pairs)) = Len(inside.pairs) - 1 /\ Len(inside.pairs) \in Nat
    BY <1>2, <1>4
  <2>3. \A i \in DOMAIN inside'.pairs : inside'.pairs[i].property \in {None} \cup PropertiesOf(r)
    BY <1>1, <1>2, <1>3, <2>1 DEF ReadsOwn
  <2>4. request[r].target # Multiple => Len(inside'.pairs) <= 1
    BY <1>1, <1>2, <1>3, <2>2 DEF ReadsOwn
  <2> QED BY <1>2, <1>3, <2>3, <2>4 DEF ReadsOwn, PropertiesOf
<1> QED BY <1>7, <1>8, <1>9, <1>10 DEF Apart

(* The owner leaves a list of the pairs that were requested.               *)
LEMMA ApartAnswer ==
  ASSUME Base, Apart, Answer
  PROVE  Apart'
<1>1. Typed /\ Referring /\ LaterApart /\ Reserved /\ ListsFrom /\ ReadsOwn /\ value \in [Properties -> Values]
  BY DEF Base, Apart, Typed
<1>2. UNCHANGED <<request, table, timer, taken, inside, waiting>>
  BY <1>1, AnswerIs
<1>3. PICK c \in Message :
        /\ c.property \in Properties
        /\ Refuses(c) \/ Writes(c) \/ \E l \in Seq(Pair) : \E done : Converts(c, l, done)
  BY <1>1, AnswerIs
<1>4. Open' = Open
  BY <1>2 DEF Open, Pending
<1>5. LaterApart'
  BY <1>1, <1>2, <1>4, LaterKept
<1>6. Reserved'
  BY <1>1, <1>2, <1>4, ReservedKept DEF Untouched
<1>7. ReadsOwn'
  BY <1>1, <1>2 DEF ReadsOwn, PropertiesOf
<1>8. ListsFrom'
  <2>1. CASE Refuses(c)
    BY <1>1, <1>2, <2>1, ListsKept DEF Refuses
  <2>2. CASE Writes(c)
    <3>1. Data(c.target).is # "pairs"
      BY ValuesAre
    <3>2. \A p \in Properties : value'[p].is = "pairs" => value'[p] = value[p]
      BY <1>1, <2>2, <3>1 DEF Writes
    <3> QED BY <1>1, <1>2, <3>2, ListsKept
  <2>3. ASSUME NEW l \in Seq(Pair), NEW done, Converts(c, l, done) PROVE ListsFrom'
    <3>1. done \subseteq DOMAIN l /\ value[c.property].is = "pairs" /\ l = value[c.property].pairs
          /\ \A x \in Properties : value'[x] = Converted(l, done, c.property, x)
      BY <2>3 DEF Converts
    <3>2. ListOf # <<>>
      BY <1>1, <1>3, <3>1 DEF ListsFrom
    <3>3. ASSUME NEW r \in DOMAIN request, request[r].target = Multiple, value'[request[r].property].is = "pairs"
          PROVE  \E s \in DOMAIN request : r <= s /\ request[s].property = request[r].property
                                           /\ FromPairs(value'[request[r].property].pairs, request[s].pairs)
      <4>1. PICK p \in Properties : p = request[r].property
        BY <1>1, RequestsAre
      <4>2. \A t : Data(t).is # "pairs"
        BY ValuesAre
      <4>3. value'[p] = IF p = c.property THEN List(Remaining(l, done)) ELSE value[p]
        <5>1. value'[p] = Converted(l, done, c.property, p)
          BY <3>1, <4>1
        <5>2. ~ \E i \in done : value'[p] = Data(l[i].target)
          BY <3>3, <4>1, <4>2
        <5> QED BY <5>1, <5>2 DEF Converted, Remaining
      <4>4. value[p].is = "pairs"
        BY <3>1, <3>3, <4>1, <4>3
      <4>5. PICK s \in DOMAIN request : r <= s /\ request[s].property = p /\ FromPairs(value[p].pairs, request[s].pairs)
        BY <1>1, <3>3, <4>1, <4>4 DEF ListsFrom
      <4>6. CASE p = c.property
        <5>1. List(Remaining(l, done)).pairs = Remaining(l, done)
          BY DEF List
        <5>2. value'[p].pairs = Remaining(l, done) /\ FromPairs(l, request[s].pairs)
          BY <3>1, <4>3, <4>5, <4>6, <5>1
        <5>3. FromPairs(Remaining(l, done), request[s].pairs)
          <6>1. PICK u : u = Remaining(l, done)
            OBVIOUS
          <6>2. /\ DOMAIN u = DOMAIN l /\ Len(u) = Len(l)
                /\ \A i \in DOMAIN l : u[i].target = l[i].target /\ u[i].property \in {None, l[i].property}
            BY <3>1, <6>1, RemainingIs
          <6>3. FromPairs(u, request[s].pairs)
            BY <5>2, <6>2 DEF FromPairs
          <6> QED BY <6>1, <6>3
        <5> QED BY <4>1, <4>5, <5>2, <5>3
      <4>7. CASE p # c.property
        BY <4>1, <4>3, <4>5, <4>7
      <4> QED BY <4>6, <4>7
    <3> QED BY <1>2, <3>2, <3>3 DEF ListsFrom
  <2> QED BY <1>3, <2>1, <2>2, <2>3
<1> QED BY <1>5, <1>6, <1>7, <1>8 DEF Apart

(* The properties remain apart, if no reply_proc posts a request.          *)
LEMMA ApartAlways == ASSUME OwnTimes, ~PostInside PROVE RequestsSpec => []Apart
<1>1. RequestsInit => Apart
  <2> SUFFICES ASSUME RequestsInit PROVE Apart
    OBVIOUS
  <2>1. Base
    BY BaseFirst
  <2>2. Open = {} /\ inside.r = 0 /\ DOMAIN request = {}
    BY ReadingIs DEF RequestsInit, Open, Pending
  <2>3. \A p \in Properties : value[p].is # "pairs"
    BY ValuesAre DEF RequestsInit
  <2> QED BY <2>2, <2>3 DEF Apart, LaterApart, Reserved, ListsFrom, ReadsOwn
<1>2. Base /\ Apart /\ [RequestsNext]_requestVars => Apart'
  <2> SUFFICES ASSUME Base, Apart, [RequestsNext]_requestVars PROVE Apart'
    OBVIOUS
  <2>1. CASE UNCHANGED requestVars
    BY <2>1, ApartSkips DEF requestVars
  <2>2. CASE RequestsNext
    <3>1. CASE Skips
      BY <3>1, ApartSkips DEF Skips
    <3> QED BY <2>2, <3>1, StepIs, ApartMakes, ApartBegun, ApartEnding, ApartRead, ApartReturned, ApartAnswer
  <2> QED BY <2>1, <2>2
<1> QED BY <1>1, <1>2, BaseAlways, PTL DEF RequestsSpec

(* PropertiesApart: no two requests wait for an answer in the same         *)
(* property, if no two requests have the same time and no reply_proc posts *)
(* a request.                                                              *)
THEOREM ApartFromEachOther == ASSUME OwnTimes, ~PostInside PROVE RequestsSpec => []PropertiesApart
<1>1. Base /\ Apart => PropertiesApart
  <2> SUFFICES ASSUME Base, Apart, NEW r \in Open, NEW s \in Open, r # s
               PROVE  (Needs(r) \cap Needs(s)) \ {None} = {}
    BY DEF PropertiesApart
  <2>1. ASSUME NEW u \in Open PROVE Needs(u) \subseteq {None} \cup PropertiesOf(u)
    <3>1. request[u].property \in PropertiesOf(u)
      BY DEF PropertiesOf
    <3>2. CASE u = inside.r
      <4>1. u # 0
        BY OpenAre
      <4>2. \A i \in DOMAIN inside.pairs : inside.pairs[i].property \in {None} \cup PropertiesOf(u)
        BY <3>2, <4>1 DEF Apart, ReadsOwn
      <4> QED BY <3>1, <3>2, <4>2 DEF Needs, ToSet
    <3>3. CASE u # inside.r
      BY <3>3 DEF Needs
    <3> QED BY <3>2, <3>3
  <2>2. PropertiesOf(r) \cap PropertiesOf(s) = {}
    BY TwoApart DEF Apart
  <2> QED BY <2>1, <2>2
<1> QED BY <1>1, BaseAlways, ApartAlways, PTL

-----------------------------------------------------------------------------
(* Each reply_proc gets what was written for its target.                   *)

(* What disappears was good, and a new value of another request's property *)
(* does not matter.                                                        *)
LEMMA FineKept ==
  ASSUME Base, LaterApart, ListsFrom, NEW r \in Open, Fine(value, request[r]),
         \A p \in PropertiesOf(r) : value'[p] \in {value[p], Nothing}
  PROVE  Fine(value', request[r])
<1>1. request[r].property \in PropertiesOf(r)
  BY DEF PropertiesOf
<1>2. CASE request[r].target # Multiple
  BY <1>1, <1>2 DEF Fine, Good
<1>3. CASE request[r].target = Multiple
  <2> SUFFICES ASSUME value'[request[r].property].is = "pairs", NEW i \in DOMAIN value'[request[r].property].pairs
               PROVE  Good(value', value'[request[r].property].pairs[i])
    BY <1>3 DEF Fine
  <2>1. value'[request[r].property] = value[request[r].property]
    BY <1>1, ValuesAre
  <2>2. PICK l : l = value[request[r].property].pairs
    OBVIOUS
  <2>3. FromPairs(l, request[r].pairs)
    BY <1>3, <2>1, <2>2, ListIsOwn
  <2>4. l \in Seq(Pair) /\ request[r].pairs \in Seq(Pair)
    <3>1. Typed /\ r \in DOMAIN request
      BY OpenAre DEF Base
    <3>2. value[request[r].property] \in Values
      BY <3>1, RequestsAre DEF Typed
    <3> QED BY <3>1, <3>2, <2>1, <2>2, ValuesAre, RequestsAre
  <2>5. i \in DOMAIN l /\ i \in DOMAIN request[r].pairs
    <3>1. DOMAIN l = 1..Len(l) /\ DOMAIN request[r].pairs = 1..Len(request[r].pairs)
      BY <2>4
    <3>2. Len(l) = Len(request[r].pairs)
      BY <2>3 DEF FromPairs
    <3>3. i \in DOMAIN l
      BY <2>1, <2>2
    <3> QED BY <3>1, <3>2, <3>3
  <2>6. l[i].property \in {None} \cup PropertiesOf(r)
    BY <2>3, <2>5 DEF FromPairs, PropertiesOf, ToSet
  <2>7. Good(value, l[i])
    BY <1>3, <2>1, <2>2, <2>5 DEF Fine
  <2>8. Good(value', l[i])
    BY <2>6, <2>7 DEF Good
  <2> QED BY <2>1, <2>2, <2>8
<1> QED BY <1>2, <1>3

(* The answers on their way stay good.                                     *)
LEMMA ArrivesKept ==
  ASSUME Base, Apart, Arrives, request' = request, Fewer, Open' \subseteq Open,
         \A r \in Open : \A p \in PropertiesOf(r) : value'[p] \in {value[p], Nothing}
  PROVE  Arrives'
<1>1. ASSUME NEW r \in Open', NEW k \in DOMAIN events', events'[k].time = request[r].time, events'[k].property # None
      PROVE  Fine(value', request[r])
  <2>1. r \in Open
    BY <1>1
  <2>2. Fine(value, request[r])
    BY <1>1, <2>1 DEF Fewer, Arrives
  <2> QED BY <2>1, <2>2, FineKept DEF Apart
<1> QED BY <1>1 DEF Arrives

(* So does the order, while the owner does nothing.                        *)
LEMMA OrderKept ==
  ASSUME InOrder, Fewer, UNCHANGED <<request, calls>>,
         inside'.r # 0 => \A j \in DOMAIN calls : request[inside'.r].time < calls[j].time
  PROVE  InOrder'
BY DEF InOrder, Fewer

(* What the times say about the requests.                                  *)
LEMMA TimesAre ==
  ASSUME Base
  PROVE  /\ \A r, s \in DOMAIN request : r \in Nat /\ s \in Nat /\ (request[r].time < request[s].time => r < s)
                                         /\ (request[r].time = request[s].time => r = s)
         /\ \A k \in DOMAIN events : events[k].time \in Nat /\ \E s \in DOMAIN request : events[k].time = request[s].time
         /\ \A k \in DOMAIN calls : calls[k].time \in Nat /\ \E s \in DOMAIN request : calls[k].time = request[s].time
<1>1. Typed /\ Later /\ Referring
  BY DEF Base
<1>2. \A r \in DOMAIN request : r \in Nat /\ request[r].time \in Nat
  BY <1>1, RequestsAre
<1>3. \A r, s \in DOMAIN request : r < s \/ s < r \/ r = s
  BY <1>2
<1> QED BY <1>1, <1>2, <1>3 DEF Later, Referring, Of

(* A new request writes into properties of its own.                        *)
LEMMA DeliveredMakes ==
  ASSUME Base, Apart, Delivered, ~PostInside, NEW q \in Made, Makes(q)
  PROVE  Delivered'
<1>1. Typed /\ LaterApart /\ Reserved /\ ListsFrom /\ InOrder /\ Arrives /\ ReadsGood
  BY DEF Base, Apart, Delivered
<1>2. PICK n : n = Len(request) + 1
  OBVIOUS
<1>3. /\ request \in Seq(Made) /\ Len(request) \in Nat /\ DOMAIN request = 1..Len(request)
      /\ request' = Append(request, q) /\ q.time \in Nat /\ \A s \in DOMAIN request : request[s].time < q.time
  BY <1>1, RequestsAre DEF Makes, Made
<1>4. request'[n] = q /\ \A r \in DOMAIN request : request'[r] = request[r]
  BY <1>2, <1>3
<1>5. inside = Outside /\ inside' = inside /\ waiting = 0 /\ inside.r = 0 /\ events' = events
      /\ inside.pairs = <<>> /\ inside.at = "out"
  BY ReadingIs DEF Makes
<1>6. Open' \subseteq Open \cup {n}
  <2>1. Pending' \subseteq Pending \cup {n}
    BY <1>2 DEF Makes, PendingIn, Pending
  <2>2. waiting' \in {0, n}
    BY <1>2 DEF Makes
  <2> QED BY <1>5, <2>1, <2>2 DEF Open
<1>7. /\ \A k \in DOMAIN calls : calls[k].time < q.time /\ calls[k].time \in Nat
      /\ \A k \in DOMAIN events : events[k].time < q.time /\ events[k].time \in Nat
  BY <1>3, TimesAre
<1>8. InOrder'
  <2>1. PICK m \in Message : m = [target |-> q.target, property |-> q.property, time |-> q.time]
    <3>1. [target |-> q.target, property |-> q.property, time |-> q.time] \in Message
      BY DEF Message, Made, Whole
    <3> QED BY <3>1
  <2>2. calls \in Seq(Message) /\ calls' = Append(calls, m) /\ m.time = q.time
    BY <1>1, <2>1 DEF Typed, Makes
  <2>3. /\ \A k \in DOMAIN calls' : k \in Nat /\ ((k \in DOMAIN calls /\ calls'[k] = calls[k]) \/ (calls'[k] = m /\ k = Len(calls) + 1))
        /\ \A k \in DOMAIN calls : k <= Len(calls) /\ Len(calls) \in Nat
    BY <2>2
  <2>4. ASSUME NEW i \in DOMAIN calls', NEW j \in DOMAIN calls', i < j PROVE calls'[i].time < calls'[j].time
    <3>1. i \in DOMAIN calls /\ calls'[i] = calls[i]
      BY <2>3, <2>4
    <3> QED BY <3>1, <1>1, <1>7, <2>2, <2>3, <2>4 DEF InOrder
  <2>5. ASSUME NEW k \in DOMAIN events, NEW j \in DOMAIN calls' PROVE events[k].time < calls'[j].time
    BY <1>1, <1>7, <2>2, <2>3 DEF InOrder
  <2> QED BY <1>5, <2>4, <2>5 DEF InOrder
<1>9. Arrives'
  <2>1. ASSUME NEW r \in Open', NEW k \in DOMAIN events, events[k].time = request'[r].time, events[k].property # None
        PROVE  Fine(value', request'[r])
    <3>1. r # n
      BY <1>4, <1>7, <2>1
    <3>2. r \in Open /\ r \in DOMAIN request /\ r # inside.r /\ request'[r] = request[r]
      BY <1>4, <1>5, <1>6, <3>1, OpenAre
    <3>3. Fine(value, request[r])
      BY <1>1, <2>1, <3>2 DEF Arrives
    <3>4. q.property \notin PropertiesOf(r)
      BY <1>1, <3>2 DEF Reserved, Untouched, Makes, PropertiesIn
    <3>5. \A p \in PropertiesOf(r) : value'[p] \in {value[p], Nothing}
      BY <1>1, <3>4 DEF Makes, Typed
    <3> QED BY <1>1, <3>2, <3>3, <3>5, FineKept
  <2> QED BY <1>5, <2>1 DEF Arrives
<1>10. ReadsGood'
  BY <1>5 DEF ReadsGood
<1> QED BY <1>8, <1>9, <1>10 DEF Delivered

(* What begins to be read has been written, for this request.              *)
LEMMA DeliveredBegun ==
  ASSUME Base, Apart, Delivered, NEW r \in DOMAIN request, NEW ev \in Message, Begun(r, ev)
  PROVE  Delivered'
<1>1. Typed /\ InOrder /\ Arrives /\ ReadsGood /\ value \in [Properties -> Values]
  BY DEF Base, Delivered, Typed
<1>2. /\ request' = request /\ table' = table /\ calls' = calls /\ waiting \in {0, r} /\ waiting' = 0 /\ r \in Open
      /\ Fewer
  BY DEF Begun, Begin
<1>3. PICK k \in DOMAIN events : ev = events[k] /\ ev.time = request[r].time /\ ev.property # None
  BY DEF Begun
<1>4. /\ inside'.r = r /\ inside'.at = "read"
      /\ request[r].target # Multiple =>
           value' = value /\ inside'.pairs = <<[target |-> request[r].target, property |-> request[r].property]>>
      /\ request[r].target = Multiple =>
           /\ value' = [value EXCEPT ![request[r].property] = Nothing]
           /\ inside'.pairs = IF value[request[r].property].is = "pairs" THEN value[request[r].property].pairs ELSE <<>>
  BY BegunIs
<1>5. Fine(value, request[r])
  BY <1>1, <1>2, <1>3 DEF Arrives
<1>6. \A p \in Properties : value'[p] \in {value[p], Nothing}
  BY <1>1, <1>4
<1>7. InOrder'
  BY <1>1, <1>2, <1>3, <1>4, OrderKept DEF InOrder
<1>8. Arrives'
  <2>1. Open' \subseteq Open
    BY <1>2, <1>4, ReadingIs DEF Open, Pending, Begun
  <2>2. \A s \in Open : \A p \in PropertiesOf(s) : value'[p] \in {value[p], Nothing}
    BY <1>6, OpenAre
  <2> QED BY <1>1, <1>2, <2>1, <2>2, ArrivesKept
<1>9. ASSUME NEW i \in DOMAIN inside'.pairs PROVE Good(value', inside'.pairs[i])
  <2>1. CASE request[r].target # Multiple
    <3>1. inside'.pairs[i] = [target |-> request[r].target, property |-> request[r].property] /\ value' = value
      BY <1>4, <2>1
    <3> QED BY <1>5, <2>1, <3>1 DEF Fine
  <2>2. CASE request[r].target = Multiple
    <3>1. value[request[r].property].is = "pairs" /\ inside'.pairs = value[request[r].property].pairs
      BY <1>4, <2>2
    <3>2. Good(value, inside'.pairs[i])
      BY <1>5, <2>2, <3>1 DEF Fine
    <3>3. inside'.pairs[i].property \in Properties \cup {0}
      <4>1. inside'.pairs \in Seq(Pair)
        BY BegunIs, ReadingIs
      <4>2. inside'.pairs[i] \in Pair
        BY <4>1
      <4> QED BY <4>2 DEF Pair
    <3> QED BY <1>6, <3>2, <3>3 DEF Good, None
  <2> QED BY <2>1, <2>2
<1> QED BY <1>4, <1>7, <1>8, <1>9 DEF Delivered, ReadsGood

(* A request that ends, or an answer that is ignored, takes nothing away.  *)
LEMMA DeliveredEnding ==
  ASSUME Base, Apart, Delivered, Fewer, Open' \subseteq Open, UNCHANGED <<request, value, calls>>,
         inside' \in {inside, Outside}
  PROVE  Delivered'
<1>1. InOrder /\ Arrives /\ ReadsGood
  BY DEF Delivered
<1>2. InOrder'
  BY <1>1, ReadingIs, OrderKept DEF InOrder
<1>3. Arrives'
  BY <1>1, ArrivesKept
<1>4. ReadsGood'
  BY <1>1, ReadingIs DEF ReadsGood
<1> QED BY <1>2, <1>3, <1>4 DEF Delivered

(* The elements of what is left of a sequence.                             *)
LEMMA TailIs ==
  ASSUME NEW S, NEW q \in Seq(S), q # <<>>
  PROVE  /\ 1 \in DOMAIN q /\ Head(q) = q[1] /\ Tail(q) \in Seq(S)
         /\ \A i \in DOMAIN Tail(q) : i \in Nat /\ i >= 1 /\ i + 1 \in DOMAIN q /\ Tail(q)[i] = q[i + 1]
OBVIOUS

(* What is read is handed on, and deleted.                                 *)
LEMMA DeliveredRead ==
  ASSUME Base, Apart, Delivered, Read
  PROVE  Delivered'
<1>1. Typed /\ InOrder /\ Arrives /\ ReadsGood /\ value \in [Properties -> Values] /\ inside.pairs \in Seq(Pair)
  BY ReadingIs DEF Base, Delivered, Typed
<1>2. /\ waiting = 0 /\ inside.at = "read" /\ inside.r # 0
      /\ UNCHANGED <<request, table, timer, taken, calls, events, waiting>>
      /\ Misses \/ \E p \in Properties : Gets(p)
  BY ReadIs
<1>3. inside'.r \in {0, inside.r}
  BY <1>2, ReadingIs DEF Misses, Gets
<1>4. \A p \in Properties : value'[p] \in {value[p], Nothing}
  BY <1>1, <1>2 DEF Misses, Gets
<1>5. Fewer
  BY <1>1, <1>2, TakenOut DEF Typed
<1>6. InOrder'
  BY <1>1, <1>2, <1>3, <1>5, OrderKept DEF InOrder
<1>7. Arrives'
  <2>1. Open' \subseteq Open
    BY <1>2, <1>3 DEF Open, Pending
  <2>2. \A s \in Open : \A p \in PropertiesOf(s) : value'[p] \in {value[p], Nothing}
    BY <1>4, OpenAre
  <2> QED BY <1>1, <1>2, <1>5, <2>1, <2>2, ArrivesKept
<1>8. \A i \in DOMAIN inside.pairs : Good(value', inside.pairs[i])
  <2>1. ASSUME NEW i \in DOMAIN inside.pairs PROVE Good(value', inside.pairs[i])
    <3>1. inside.pairs[i] \in Pair /\ Good(value, inside.pairs[i])
      BY <1>1 DEF ReadsGood
    <3>2. inside.pairs[i].property \in Properties \cup {0}
      BY <3>1 DEF Pair
    <3> QED BY <1>4, <3>1, <3>2 DEF Good, None
  <2> QED BY <2>1
<1>9. ReadsGood'
  <2>1. CASE Misses
    <3>1. inside.pairs # <<>> /\ inside'.at # "called" /\ (inside'.pairs = Tail(inside.pairs) \/ inside'.pairs = <<>>)
      BY <2>1, ReadingIs DEF Misses
    <3>2. ASSUME NEW i \in DOMAIN inside'.pairs PROVE Good(value', inside'.pairs[i])
      <4>1. inside'.pairs = Tail(inside.pairs)
        BY <3>1
      <4>2. i + 1 \in DOMAIN inside.pairs /\ inside'.pairs[i] = inside.pairs[i + 1]
        BY <1>1, <3>1, <4>1, TailIs
      <4> QED BY <1>8, <4>2
    <3> QED BY <3>1, <3>2 DEF ReadsGood
  <2>2. ASSUME NEW p \in Properties, Gets(p) PROVE ReadsGood'
    <3>1. /\ inside.pairs # <<>> /\ p = Head(inside.pairs).property /\ p # None /\ value[p] # Nothing
          /\ inside'.at = "called" /\ inside'.pairs = inside.pairs /\ inside'.got = value[p]
      BY <2>2 DEF Gets
    <3>2. 1 \in DOMAIN inside.pairs /\ Head(inside.pairs) = inside.pairs[1]
      BY <1>1, <3>1, TailIs
    <3>3. Good(value, Head(inside.pairs))
      BY <1>1, <3>2 DEF ReadsGood
    <3>4. value[p] = Data(Head(inside.pairs).target)
      BY <3>1, <3>3 DEF Good
    <3> QED BY <1>8, <3>1, <3>4 DEF ReadsGood
  <2> QED BY <1>2, <2>1, <2>2
<1> QED BY <1>6, <1>7, <1>9 DEF Delivered

(* The next pair is as good.                                               *)
LEMMA DeliveredReturned ==
  ASSUME Base, Apart, Delivered, Returned
  PROVE  Delivered'
<1>1. Typed /\ InOrder /\ Arrives /\ ReadsGood /\ inside.pairs \in Seq(Pair)
  BY ReadingIs DEF Base, Delivered, Typed
<1>2. /\ inside'.r = inside.r /\ inside'.at = "read" /\ inside.pairs # <<>> /\ inside'.pairs = Tail(inside.pairs)
      /\ UNCHANGED <<request, table, timer, value, calls, events, waiting>>
  BY ReturnedIs
<1>3. Fewer
  BY <1>1, <1>2, TakenOut DEF Typed
<1>4. InOrder'
  BY <1>1, <1>2, <1>3, OrderKept DEF InOrder
<1>5. Arrives'
  <2>1. Open' \subseteq Open
    BY <1>2 DEF Open, Pending
  <2> QED BY <1>1, <1>2, <1>3, <2>1, ArrivesKept
<1>6. ReadsGood'
  BY <1>1, <1>2, TailIs DEF ReadsGood
<1> QED BY <1>4, <1>5, <1>6 DEF Delivered

(* The owner's answer to a later request leaves what an earlier one reads. *)
LEMMA AnswerSpares ==
  ASSUME Base, Apart, NEW s \in DOMAIN request, NEW c \in Message, Of(c, request[s]),
         c.property = request[s].property, NEW r \in Open, request[r].time < c.time,
         Refuses(c) \/ Writes(c) \/ \E l \in Seq(Pair) : \E done : Converts(c, l, done)
  PROVE  \A p \in PropertiesOf(r) : value'[p] = value[p]
<1>1. Typed /\ LaterApart /\ ListsFrom /\ value \in [Properties -> Values]
  BY DEF Base, Apart, Typed
<1>2. r \in DOMAIN request /\ PropertiesOf(r) \subseteq Properties /\ r < s /\ r \in Nat
  BY OpenAre, TimesAre DEF Of
<1>3. \A u \in DOMAIN request : u \in Nat /\ (s <= u => r < u)
  BY <1>1, <1>2, RequestsAre
<1>4. \A u \in DOMAIN request : s <= u => PropertiesOf(r) \cap PropertiesOf(u) = {} /\ request[u].property \in PropertiesOf(u)
  BY <1>1, <1>3 DEF LaterApart, PropertiesOf
<1>5. c.property \notin PropertiesOf(r)
  <2>1. s <= s
    BY <1>3
  <2> QED BY <1>4, <2>1
<1>6. CASE Refuses(c)
  BY <1>6 DEF Refuses
<1>7. CASE Writes(c)
  BY <1>1, <1>2, <1>5, <1>7 DEF Writes
<1>8. ASSUME NEW l \in Seq(Pair), NEW done, Converts(c, l, done), NEW p \in PropertiesOf(r) PROVE value'[p] = value[p]
  <2>1. /\ c.target = Multiple /\ done \subseteq DOMAIN l /\ value[c.property].is = "pairs" /\ l = value[c.property].pairs
        /\ value'[p] = Converted(l, done, c.property, p)
    BY <1>2, <1>8 DEF Converts
  <2>2. PICK u \in DOMAIN request : s <= u /\ FromPairs(l, request[u].pairs)
    BY <1>1, <2>1 DEF ListsFrom, Of
  <2>3. request[u].pairs \in Seq(Pair)
    BY <1>1, RequestsAre
  <2>4. ASSUME NEW i \in done PROVE l[i].property # p
    <3>1. i \in DOMAIN l /\ i \in DOMAIN request[u].pairs
      BY <2>1, <2>2, <2>3 DEF FromPairs
    <3>2. l[i].property \in {None} \cup PropertiesOf(u)
      BY <2>2, <3>1 DEF FromPairs, PropertiesOf, ToSet
    <3>3. p # None
      BY <1>2, ListIs DEF None
    <3> QED BY <1>4, <2>2, <3>2, <3>3
  <2>5. p # c.property
    BY <1>5
  <2> QED BY <2>1, <2>4, <2>5 DEF Converted
<1> QED BY <1>6, <1>7, <1>8

(* What the owner writes is what was asked for.                            *)
LEMMA AnswerFits ==
  ASSUME Base, Apart, NEW r \in Open, NEW c \in Message, Of(c, request[r]), c.property = request[r].property,
         Writes(c) \/ \E l \in Seq(Pair) : \E done : Converts(c, l, done)
  PROVE  Fine(value', request[r])
<1>1. Typed /\ LaterApart /\ ListsFrom /\ value \in [Properties -> Values] /\ WellMade(request[r])
      /\ r \in DOMAIN request /\ c.target = request[r].target /\ c.property \in Properties
  <2>1. r \in DOMAIN request /\ Typed
    BY OpenAre DEF Base
  <2> QED BY <2>1, RequestsAre DEF Base, Apart, Typed, Of
<1>2. CASE Writes(c)
  BY <1>1, <1>2 DEF Writes, Fine, Good
<1>3. ASSUME NEW l \in Seq(Pair), NEW done, Converts(c, l, done) PROVE Fine(value', request[r])
  <2>1. /\ c.target = Multiple /\ done \subseteq DOMAIN l /\ value[c.property].is = "pairs" /\ l = value[c.property].pairs
        /\ \A x \in Properties : value'[x] = Converted(l, done, c.property, x)
    BY <1>3 DEF Converts
  <2>2. FromPairs(l, request[r].pairs)
    BY <1>1, <2>1, ListIsOwn
  <2>3. request[r].pairs \in Seq(Pair) /\ None \notin Properties
    BY <1>1, RequestsAre, ListIs DEF None
  <2>4. \A i \in DOMAIN l : /\ i \in DOMAIN request[r].pairs
                            /\ l[i].property \in {None, request[r].pairs[i].property}
    BY <2>2, <2>3 DEF FromPairs
  <2>5. value'[c.property] = List(Remaining(l, done))
    <3>1. \A i \in done : l[i].property # c.property
      BY <1>1, <2>1, <2>3, <2>4 DEF WellMade
    <3> QED BY <1>1, <2>1, <3>1 DEF Converted, Remaining
  <2>6. /\ DOMAIN Remaining(l, done) = DOMAIN l
        /\ \A i \in DOMAIN l : /\ Remaining(l, done)[i].target = l[i].target
                               /\ Remaining(l, done)[i].property = IF i \in done THEN l[i].property ELSE None
    BY <2>1, RemainingIs
  <2>7. List(Remaining(l, done)).pairs = Remaining(l, done)
    BY DEF List
  <2>8. ASSUME NEW i \in DOMAIN l, Remaining(l, done)[i].property # None
        PROVE  value'[Remaining(l, done)[i].property] = Data(Remaining(l, done)[i].target)
    <3>1. i \in done /\ l[i].property # None /\ Remaining(l, done)[i].property = l[i].property
      BY <2>6, <2>8
    <3>2. l[i].property = request[r].pairs[i].property /\ l[i].property \in Properties
      BY <1>1, <2>4, <3>1 DEF WellMade
    <3>3. PICK j \in done : l[j].property = l[i].property
                            /\ Converted(l, done, c.property, l[i].property) = Data(l[j].target)
      BY <3>1 DEF Converted
    <3>4. j \in DOMAIN l /\ l[j].property = request[r].pairs[j].property
      BY <2>1, <2>4, <3>1, <3>3
    <3>5. j = i
      BY <1>1, <2>4, <3>2, <3>3, <3>4 DEF WellMade
    <3> QED BY <2>1, <2>6, <3>1, <3>2, <3>3, <3>5
  <2>9. \A i \in DOMAIN l : Good(value', Remaining(l, done)[i])
    BY <2>8 DEF Good
  <2> QED BY <1>1, <2>1, <2>5, <2>6, <2>7, <2>9 DEF Fine
<1> QED BY <1>2, <1>3

(* The owner's answer is good for the request that it is for.              *)
LEMMA DeliveredAnswer ==
  ASSUME Base, Apart, Delivered, Answer
  PROVE  Delivered'
<1>1. Typed /\ Exist /\ Referring /\ InOrder /\ Arrives /\ ReadsGood /\ LaterApart /\ ListsFrom /\ ReadsOwn
      /\ calls \in Seq(Message) /\ events \in Seq(Message)
  BY DEF Base, Apart, Delivered, Typed
<1>2. calls # <<>> /\ calls' = Tail(calls) /\ UNCHANGED <<request, table, timer, taken, inside, waiting>>
  BY <1>1, AnswerIs
<1>3. PICK c \in Message, s \in DOMAIN request :
        /\ c = calls[1] /\ Of(c, request[s]) /\ c.property = request[s].property /\ c.property \in Properties
        /\ Refuses(c) \/ Writes(c) \/ \E l \in Seq(Pair) : \E done : Converts(c, l, done)
  BY <1>1, AnswerIs
<1>4. PICK p \in {None, c.property} : Replies(c, p) /\ (Refuses(c) => p = None)
  BY <1>3 DEF Refuses, Writes, Converts
<1>5. PICK m \in Message : m = [target |-> c.target, property |-> p, time |-> c.time]
  BY <1>3 DEF Message, None
<1>6. /\ events' \in Seq(Message)
      /\ \A k \in DOMAIN events' : (k \in DOMAIN events /\ events'[k] = events[k]) \/ events'[k] = m
  BY <1>1, <1>4, <1>5 DEF Replies
<1>7. Open' = Open
  BY <1>2 DEF Open, Pending
<1>8. 1 \in DOMAIN calls /\ \A i \in DOMAIN calls' : i \in Nat /\ i >= 1 /\ i + 1 \in DOMAIN calls /\ calls'[i] = calls[i + 1]
  BY <1>1, <1>2, TailIs
<1>9. InOrder'
  <2>1. ASSUME NEW i \in DOMAIN calls', NEW j \in DOMAIN calls', i < j PROVE calls'[i].time < calls'[j].time
    <3>1. i + 1 \in DOMAIN calls /\ j + 1 \in DOMAIN calls /\ i + 1 < j + 1
      BY <1>8, <2>1
    <3> QED BY <1>1, <1>8, <3>1 DEF InOrder
  <2>2. ASSUME NEW k \in DOMAIN events', NEW j \in DOMAIN calls' PROVE events'[k].time < calls'[j].time
    <3>1. CASE k \in DOMAIN events /\ events'[k] = events[k]
      BY <1>1, <1>8, <3>1 DEF InOrder
    <3>2. CASE events'[k] = m
      <4>1. 1 < j + 1 /\ m.time = calls[1].time
        BY <1>3, <1>5, <1>8
      <4> QED BY <1>1, <1>8, <3>2, <4>1 DEF InOrder
    <3> QED BY <1>6, <3>1, <3>2
  <2> QED BY <1>1, <1>2, <1>8, <2>1, <2>2 DEF InOrder
<1>10. Arrives'
  <2>1. ASSUME NEW r \in Open, NEW k \in DOMAIN events', events'[k].time = request[r].time, events'[k].property # None
        PROVE  Fine(value', request[r])
    <3>1. CASE k \in DOMAIN events /\ events'[k] = events[k]
      <4>1. Fine(value, request[r]) /\ request[r].time < c.time
        BY <1>1, <1>3, <1>8, <2>1, <3>1 DEF Arrives, InOrder
      <4>2. \A x \in PropertiesOf(r) : value'[x] \in {value[x], Nothing}
        BY <1>3, <4>1, AnswerSpares
      <4> QED BY <1>1, <4>1, <4>2, FineKept
    <3>2. CASE events'[k] = m
      <4>1. request[s].time = request[r].time /\ p # None
        BY <1>3, <1>5, <2>1, <3>2 DEF Of
      <4>2. r = s
        BY <4>1, OpenAre, TimesAre
      <4>3. Writes(c) \/ \E l \in Seq(Pair) : \E done : Converts(c, l, done)
        BY <1>3, <1>4, <4>1
      <4> QED BY <1>3, <4>2, <4>3, AnswerFits
    <3> QED BY <1>6, <3>1, <3>2
  <2> QED BY <1>2, <1>7, <2>1 DEF Arrives
<1>11. ReadsGood'
  <2>1. CASE inside.r = 0
    <3>1. inside = Outside
      BY <1>1, <2>1 DEF Exist
    <3> QED BY <1>2, <3>1, ReadingIs DEF ReadsGood
  <2>2. CASE inside.r # 0
    <3>1. inside.r \in Open /\ request[inside.r].time < c.time
      BY <1>1, <1>3, <1>8, <2>2 DEF Open, InOrder
    <3>2. \A x \in PropertiesOf(inside.r) : value'[x] = value[x]
      BY <1>3, <3>1, AnswerSpares
    <3>3. \A i \in DOMAIN inside.pairs : Good(value', inside.pairs[i])
      BY <1>1, <2>2, <3>2 DEF ReadsOwn, ReadsGood, Good
    <3> QED BY <1>1, <1>2, <3>3 DEF ReadsGood
  <2> QED BY <2>1, <2>2
<1> QED BY <1>9, <1>10, <1>11 DEF Delivered

(* HandedItsTarget: a reply_proc gets for a target what the owner wrote    *)
(* for it, also when answers come after the timeout and properties are     *)
(* used again, if no two requests have the same time and no reply_proc     *)
(* posts a request.                                                        *)
THEOREM HandedAlways == ASSUME OwnTimes, ~PostInside PROVE RequestsSpec => []HandedItsTarget
<1>1. RequestsInit => Delivered
  BY ReadingIs DEF RequestsInit, Delivered, InOrder, Arrives, ReadsGood
<1>2. Base /\ Apart /\ Delivered /\ [RequestsNext]_requestVars => Delivered'
  <2> SUFFICES ASSUME Base, Apart, Delivered, [RequestsNext]_requestVars PROVE Delivered'
    OBVIOUS
  <2>0. events \in Seq(Message)
    BY DEF Base, Typed
  <2>1. CASE UNCHANGED requestVars
    <3>1. Fewer
      BY <2>0, <2>1, TakenOut DEF requestVars
    <3>2. Open' \subseteq Open
      BY <2>1 DEF requestVars, Open, Pending
    <3> QED BY <2>1, <3>1, <3>2, DeliveredEnding DEF requestVars
  <2>2. CASE Skips
    <3>1. Open' \subseteq Open
      BY <2>2 DEF Skips, Open, Pending
    <3> QED BY <2>2, <3>1, DeliveredEnding DEF Skips
  <2>3. ASSUME NEW r \in DOMAIN request, Ending(r) PROVE Delivered'
    <3>1. Open' \subseteq Open
      BY <2>3, ReadingIs DEF Ending, Cleared, Open, Pending, PendingIn
    <3> QED BY <2>3, <3>1, DeliveredEnding DEF Ending
  <2>4. CASE RequestsNext
    BY <2>2, <2>3, <2>4, StepIs, DeliveredMakes, DeliveredBegun, DeliveredRead, DeliveredReturned, DeliveredAnswer
  <2> QED BY <2>1, <2>4
<1>3. Delivered => HandedItsTarget
  BY DEF Delivered, ReadsGood, HandedItsTarget
<1> QED BY <1>1, <1>2, <1>3, BaseAlways, ApartAlways, PTL DEF RequestsSpec
================================================================================
