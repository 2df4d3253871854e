-------------------------- MODULE ClientStatesProofs --------------------------
(* Proofs about ClientStates, for any windows, hints and numbers of        *)
(* requests. If clients wait until a withdrawal is complete, olwm lets no  *)
(* window go for an unmapping of its own, and when all is handled the      *)
(* screen is what it believes.                                             *)
EXTENDS ClientStates, FiniteSetTheorems, TLAPS

-----------------------------------------------------------------------------
(* The events: only an UnmapNotify is of a request of olwm's, only a       *)
(* MapRequest comes in on a frame, and two types are of no window.         *)
Types == {"MapRequest", "UnmapNotify", "Synthetic", "DestroyNotify", "ChangeState",
          "Toggle", "Open", "Hide", "ShowAll", "Orphan"}
Events == {e \in [type : Types, win : Windows \cup {None}, own : BOOLEAN, on : {"root", "frame"}] :
             /\ e.own = TRUE => e.type = "UnmapNotify"
             /\ e.on = "frame" => e.type = "MapRequest"
             /\ e.win = None <=> e.type \in {"ShowAll", "Orphan"}}

Typed ==
  /\ hints \in Hints
  /\ asked \in [Windows -> {"withdrawn", "shown", "destroyed"}]
  /\ telling \in [Windows -> BOOLEAN] /\ mapped \in [Windows -> BOOLEAN]
  /\ wmState \in [Windows -> {"none", "Normal", "Iconic"}]
  /\ client \in [Windows -> Client \cup {Gone}]
  /\ queue \in Seq(Events) /\ existing \in Seq(Windows) /\ IsInjective(existing)

-----------------------------------------------------------------------------
(* What the events in a queue q are about.                                 *)
Asks(e, w)  == e.win = w /\ e.type = "MapRequest"
Tells(e, w) == e.win = w /\ e.type = "Synthetic"
Ends(e, w)  == e.win = w /\ e.type = "DestroyNotify"
Lets(e, w)  == Tells(e, w) \/ Ends(e, w) \/ (e.win = w /\ e.type = "UnmapNotify" /\ e.own = FALSE)

Places(q, e) == {i \in DOMAIN q : q[i] = e}
Count(q, e)  == Cardinality(Places(q, e))
Calm(q, w)   == \A i \in DOMAIN q : ~Lets(q[i], w)
Stirs(e, w)  == Lets(e, w) \/ e = OwnUnmap(w)

(* A window that is shown: c is its Client, m whether it is mapped, l      *)
(* whether olwm has yet to look at it. If it is managed, nothing that lets *)
(* it go is to come and its unmappings are expected; if not, it is         *)
(* requested or found, and what is left of its past comes before that.     *)
Shows(w, q, c, m, l) ==
  IF c # Gone
  THEN /\ Calm(q, w) /\ Count(q, OwnUnmap(w)) <= c.pending
       /\ m <=> c.state = "Normal"
  ELSE /\ \A i, j \in DOMAIN q : i < j /\ Asks(q[i], w) => ~Stirs(q[j], w)
       /\ (l /\ m) \/ \E i \in DOMAIN q : Asks(q[i], w)

(* A window that is withdrawn: the synthetic event is to come, after the   *)
(* requests.                                                               *)
Withdraws(w, q, c, t) ==
  /\ c # Gone => t \/ \E i \in DOMAIN q : Tells(q[i], w)
  /\ \A i \in DOMAIN q : Asks(q[i], w) => t \/ \E j \in DOMAIN q : i < j /\ Tells(q[j], w)

(* A window that is mapped and has no Client has been there from the start.*)
Found(w, q, a, l) == l /\ a = "shown" /\ \A i \in DOMAIN q : ~Stirs(q[i], w)

Good(w, q, c, m, s, a, t, l) ==
  /\ c # Gone => ~l /\ (m => c.state = "Normal") /\ (s = "Normal" <=> c.state = "Normal")
  /\ c = Gone /\ m => Found(w, q, a, l)
  /\ \A i \in DOMAIN q : Asks(q[i], w) /\ q[i].on = "frame" => c # Gone
  /\ a = "shown" => ~t /\ Shows(w, q, c, m, l)
  /\ a = "withdrawn" => Withdraws(w, q, c, t)
  /\ a = "destroyed" /\ c # Gone => \E i \in DOMAIN q : Ends(q[i], w)

(* The inductive invariant.                                                *)
ToLook(w)   == w \in ToSet(existing)
GoodNow(w)  == Good(w, queue, client[w], mapped[w], wmState[w], asked[w], telling[w], ToLook(w))
IInv == Typed /\ \A w \in Windows : GoodNow(w)

-----------------------------------------------------------------------------
(* Sequences and how often an event is in one.                             *)

(* SetToSeq has each element of a finite set in one place.                 *)
LEMMA SetToSeqOnce ==
  ASSUME NEW S, IsFiniteSet(S)
  PROVE  SetToSeq(S) \in Seq(S) /\ IsInjective(SetToSeq(S))
<1>1. ExistsBijection(1..Cardinality(S), S) /\ Cardinality(S) \in Nat  BY FS_CardinalityType
<1>2. \E f \in [1..Cardinality(S) -> S] : IsInjective(f)
  BY <1>1, Zenon DEF ExistsBijection, Bijection, Injection
<1>3. SetToSeq(S) \in [1..Cardinality(S) -> S] /\ IsInjective(SetToSeq(S))
  BY <1>2, Zenon DEF SetToSeq
<1>. QED  BY <1>1, <1>3

(* Moving a set of places does not change their number.                    *)
LEMMA Moved ==
  ASSUME NEW S, NEW k \in Int, IsFiniteSet(S), S \subseteq Int
  PROVE  IsFiniteSet({i + k : i \in S}) /\ Cardinality({i + k : i \in S}) = Cardinality(S)
<1>. DEFINE T == {i + k : i \in S}
            f == [i \in S |-> i + k]
<1>1. f \in [S -> T] /\ \A i, j \in S : f[i] = f[j] => i = j  OBVIOUS
<1>2. \A t \in T : \E i \in S : f[i] = t  OBVIOUS
<1>3. f \in Bijection(S, T)  BY <1>1, <1>2 DEF Bijection, Injection, Surjection, IsInjective
<1>4. ExistsBijection(S, T)  BY <1>3, Zenon DEF ExistsBijection
<1>. HIDE DEF T
<1>5. IsFiniteSet(T) /\ Cardinality(T) = Cardinality(S)  BY <1>4, FS_Bijection, Zenon
<1>. QED  BY <1>5, Zenon DEF T

LEMMA CountNat ==
  ASSUME NEW S, NEW q \in Seq(S), NEW e
  PROVE  /\ IsFiniteSet(Places(q, e)) /\ Count(q, e) \in Nat
         /\ (\A i \in DOMAIN q : q[i] # e) => Count(q, e) = 0
         /\ \A i \in DOMAIN q : q[i] = e => Count(q, e) > 0
<1>1. IsFiniteSet(1..Len(q)) /\ Places(q, e) \in SUBSET (1..Len(q))
  BY FS_Interval DEF Places
<1>2. IsFiniteSet(Places(q, e))  BY <1>1, FS_Subset
<1>3. Count(q, e) \in Nat /\ (Count(q, e) = 0 <=> Places(q, e) = {})
  BY <1>2, FS_CardinalityType, FS_EmptySet DEF Count
<1>4. (\A i \in DOMAIN q : q[i] # e) => Places(q, e) = {}  BY DEF Places
<1>5. \A i \in DOMAIN q : q[i] = e => Places(q, e) # {}  BY DEF Places
<1>. QED  BY <1>2, <1>3, <1>4, <1>5

LEMMA CountTail ==
  ASSUME NEW S, NEW q \in Seq(S), q # <<>>, NEW e
  PROVE  Count(q, e) = Count(Tail(q), e) + (IF Head(q) = e THEN 1 ELSE 0)
<1>. DEFINE P == Places(q, e)
<1>1. IsFiniteSet(P)  BY CountNat, Zenon
<1>2. P \subseteq Int  BY DEF Places
<1>3. Tail(q) \in Seq(S) /\ Len(Tail(q)) = Len(q) - 1 /\ \A i \in 1..Len(q) - 1 : Tail(q)[i] = q[i + 1]
  OBVIOUS
<1>4. Places(Tail(q), e) = {i + (-1) : i \in Places(q, e) \ {1}}
  <2>1. ASSUME NEW j \in Places(Tail(q), e)  PROVE  j + 1 \in Places(q, e) \ {1} /\ j = (j + 1) + (-1)
    BY <1>3, <2>1 DEF Places
  <2>2. ASSUME NEW i \in Places(q, e) \ {1}  PROVE  i + (-1) \in Places(Tail(q), e)
    BY <1>3, <2>2 DEF Places
  <2>. QED  BY <2>1, <2>2
<1>5. IsFiniteSet(P \ {1}) /\ Cardinality(P \ {1}) = IF 1 \in P THEN Cardinality(P) - 1 ELSE Cardinality(P)
  BY <1>1, FS_RemoveElement, Zenon
<1>6. P \ {1} \subseteq Int /\ -1 \in Int  BY <1>2
<1>7. Cardinality(Places(Tail(q), e)) = Cardinality(P \ {1})
  BY <1>4, <1>5, <1>6, Moved, Zenon
<1>8. 1 \in P <=> Head(q) = e  BY DEF Places
<1>9. Cardinality(P) \in Nat  BY <1>1, FS_CardinalityType, Zenon
<1>. HIDE DEF P
<1>10. Cardinality(P) = Cardinality(P \ {1}) + (IF Head(q) = e THEN 1 ELSE 0)  BY <1>5, <1>8, <1>9
<1>. QED  BY <1>7, <1>10, Zenon DEF Count, P

LEMMA CountConcat ==
  ASSUME NEW S, NEW q \in Seq(S), NEW u \in Seq(S), NEW e
  PROVE  Count(q \o u, e) = Count(q, e) + Count(u, e)
<1>. DEFINE T == {i + Len(q) : i \in Places(u, e)}
<1>1. IsFiniteSet(Places(q, e)) /\ IsFiniteSet(Places(u, e))  BY CountNat, Zenon
<1>2. Places(u, e) \subseteq Int /\ Len(q) \in Int  BY DEF Places
<1>3. Count(q, e) \in Nat /\ Count(u, e) \in Nat  BY CountNat, Zenon
<1>4. IsFiniteSet(T) /\ Cardinality(T) = Count(u, e)  BY <1>1, <1>2, Moved, Zenon DEF Count
<1>5. /\ Len(q \o u) = Len(q) + Len(u) /\ q \o u \in Seq(S)
      /\ \A i \in 1..Len(q) + Len(u) : (q \o u)[i] = IF i <= Len(q) THEN q[i] ELSE u[i - Len(q)]
  OBVIOUS
<1>6. Places(q \o u, e) = Places(q, e) \cup T
  <2>1. ASSUME NEW j \in Places(q \o u, e)  PROVE  j \in Places(q, e) \cup T
    <3>1. CASE j <= Len(q)  BY <1>5, <3>1 DEF Places
    <3>2. CASE j > Len(q)
      <4>1. j - Len(q) \in Places(u, e) /\ j = (j - Len(q)) + Len(q)  BY <1>5, <3>2 DEF Places
      <4>. QED  BY <4>1
    <3>. QED  BY <1>5, <3>1, <3>2 DEF Places
  <2>2. ASSUME NEW j \in Places(q, e)  PROVE  j \in Places(q \o u, e)  BY <1>5 DEF Places
  <2>3. ASSUME NEW j \in Places(u, e)  PROVE  j + Len(q) \in Places(q \o u, e)  BY <1>5 DEF Places
  <2>. QED  BY <2>1, <2>2, <2>3
<1>7. Places(q, e) \cap T = {}  BY DEF Places
<1>8. Cardinality(Places(q, e) \cap T) = 0  BY <1>7, FS_EmptySet
<1>. HIDE DEF T
<1>9. Cardinality(Places(q, e) \cup T) = Cardinality(Places(q, e)) + Cardinality(T) - Cardinality(Places(q, e) \cap T)
  BY <1>1, <1>4, FS_Union, Zenon
<1>10. Count(q \o u, e) = Count(q, e) + Count(u, e) - 0  BY <1>4, <1>6, <1>8, <1>9, Zenon DEF Count
<1>. QED  BY <1>3, <1>10

LEMMA CountOnce ==
  ASSUME NEW S, NEW q \in Seq(S), IsInjective(q), NEW e
  PROVE  Count(q, e) <= 1
<1>1. IsFiniteSet(Places(q, e)) /\ (Places(q, e) = {} => Count(q, e) = 0)  BY CountNat DEF Places
<1>2. ASSUME NEW i \in Places(q, e)  PROVE  Places(q, e) = {i}
  BY <1>2 DEF Places, IsInjective
<1>3. ASSUME NEW i \in Places(q, e)  PROVE  Count(q, e) = 1
  BY <1>2, <1>3, FS_Singleton, Zenon DEF Count
<1>. QED  BY <1>1, <1>3

-----------------------------------------------------------------------------
(* Events.                                                                 *)

LEMMA Owning ==
  ASSUME NEW w, NEW f, NEW o
  PROVE  [[type |-> "UnmapNotify", win |-> w, own |-> f, on |-> "root"] EXCEPT !.own = o]
           = [type |-> "UnmapNotify", win |-> w, own |-> o, on |-> "root"]
OBVIOUS

LEMMA EventFacts ==
  /\ \A e \in Events, w \in Windows : Stirs(e, w) <=> e.win = w /\ e.type \in {"UnmapNotify", "Synthetic", "DestroyNotify"}
  /\ \A e \in Events, w \in Windows : Asks(e, w) => ~Stirs(e, w)
  /\ \A w, x \in Windows : OwnUnmap(w) = OwnUnmap(x) => w = x
  /\ \A w \in Windows : OwnUnmap(w) \in Events /\ OwnUnmap(w).win = w /\ ~Lets(OwnUnmap(w), w)
  /\ \A w \in Windows, type \in Types \ {"ShowAll", "Orphan"} : Event(type, w) \in Events
  /\ Event("Orphan", None) \in Events /\ Event("ShowAll", None) \in Events
<1>1. \A w \in Windows : OwnUnmap(w) = [type |-> "UnmapNotify", win |-> w, own |-> TRUE, on |-> "root"]
  BY Owning, Zenon DEF OwnUnmap, Event
<1>2. ASSUME NEW e \in Events, NEW w \in Windows
      PROVE  e = OwnUnmap(w) <=> e.win = w /\ e.own = TRUE
  <2>1. PICK x : x = [type |-> "UnmapNotify", win |-> w, own |-> TRUE, on |-> "root"]  OBVIOUS
  <2>2. e = x <=> e.win = w /\ e.own = TRUE  BY <2>1 DEF Events
  <2>. QED  BY <1>1, <2>1, <2>2, Zenon
<1>3. ASSUME NEW e \in Events, NEW w \in Windows
      PROVE  Stirs(e, w) <=> e.win = w /\ e.type \in {"UnmapNotify", "Synthetic", "DestroyNotify"}
  BY <1>2 DEF Stirs, Lets, Tells, Ends, Events
<1>4. ASSUME NEW w \in Windows  PROVE  OwnUnmap(w) \in Events
  <2>1. PICK x : x = [type |-> "UnmapNotify", win |-> w, own |-> TRUE, on |-> "root"]  OBVIOUS
  <2>2. x \in Events  BY <2>1, StatesAssumption DEF Events, Types
  <2>. QED  BY <1>1, <2>1, <2>2, Zenon
<1>5. \A w \in Windows : OwnUnmap(w).win = w /\ ~Lets(OwnUnmap(w), w)
  BY <1>1 DEF Lets, Tells, Ends
<1>6. \A w \in Windows, type \in Types \ {"ShowAll", "Orphan"} : Event(type, w) \in Events
  BY StatesAssumption DEF Event, Events, Types
<1>7. Event("Orphan", None) \in Events /\ Event("ShowAll", None) \in Events
  BY DEF Event, Events, Types
<1>8. \A w, x \in Windows : OwnUnmap(w) = OwnUnmap(x) => w = x  BY <1>5
<1>9. \A e \in Events, w \in Windows : Asks(e, w) => ~Stirs(e, w)  BY <1>3 DEF Asks
<1>. QED  BY <1>3, <1>4, <1>5, <1>6, <1>7, <1>8, <1>9

(* olwm unmaps each window that is mapped, once.                           *)
LEMMA UnmapsOnce ==
  ASSUME Typed, NEW ws, ws \subseteq Windows
  PROVE  /\ Unmaps(ws) \in Seq(Events) /\ IsInjective(Unmaps(ws))
         /\ \A i \in DOMAIN Unmaps(ws) : \E x \in ws : mapped[x] /\ Unmaps(ws)[i] = OwnUnmap(x)
<1>. DEFINE xs == {x \in ws : mapped[x]}
            es == {OwnUnmap(w) : w \in xs}
            f  == [x \in xs |-> OwnUnmap(x)]
<1>1. IsFiniteSet(xs)  BY StatesAssumption, FS_Subset
<1>2. f \in [xs -> es] /\ (\A x, y \in xs : f[x] = f[y] => x = y) /\ \A e \in es : \E x \in xs : f[x] = e
  BY EventFacts
<1>3. f \in Bijection(xs, es)  BY <1>2 DEF Bijection, Injection, Surjection, IsInjective
<1>4. ExistsBijection(xs, es)  BY <1>3, Zenon DEF ExistsBijection
<1>5. es \subseteq Events  BY EventFacts
<1>6. \A e \in es : \E x \in ws : mapped[x] /\ e = OwnUnmap(x)  OBVIOUS
<1>. HIDE DEF xs, es, f
<1>7. IsFiniteSet(es)  BY <1>1, <1>4, FS_Bijection, Zenon
<1>8. Unmaps(ws) = SetToSeq(es)  BY Zenon DEF Unmaps, es, xs
<1>9. SetToSeq(es) \in Seq(es) /\ IsInjective(SetToSeq(es))  BY <1>7, SetToSeqOnce, Zenon
<1>. QED  BY <1>5, <1>6, <1>8, <1>9

(* So a window has at most one of these events, and none if it is not      *)
(* mapped or not among them.                                               *)
LEMMA UnmapsOf ==
  ASSUME Typed, NEW ws, ws \subseteq Windows, NEW w \in Windows
  PROVE  /\ \A i \in DOMAIN Unmaps(ws) : ~Asks(Unmaps(ws)[i], w) /\ ~Lets(Unmaps(ws)[i], w)
         /\ Count(Unmaps(ws), OwnUnmap(w)) <= 1
         /\ w \notin ws \/ ~mapped[w] => \A i \in DOMAIN Unmaps(ws) : ~Stirs(Unmaps(ws)[i], w)
<1>1. /\ Unmaps(ws) \in Seq(Events) /\ IsInjective(Unmaps(ws))
      /\ \A i \in DOMAIN Unmaps(ws) : \E x \in ws : mapped[x] /\ Unmaps(ws)[i] = OwnUnmap(x)
  BY UnmapsOnce, Zenon
<1>2. Count(Unmaps(ws), OwnUnmap(w)) <= 1  BY <1>1, CountOnce, Zenon
<1>3. ASSUME NEW i \in DOMAIN Unmaps(ws)
      PROVE  /\ ~Asks(Unmaps(ws)[i], w) /\ ~Lets(Unmaps(ws)[i], w)
             /\ w \notin ws \/ ~mapped[w] => ~Stirs(Unmaps(ws)[i], w)
  <2>1. PICK x \in ws : mapped[x] /\ Unmaps(ws)[i] = OwnUnmap(x)  BY <1>1
  <2>2. OwnUnmap(x).win = x /\ OwnUnmap(x).type = "UnmapNotify" /\ OwnUnmap(x).own
    BY DEF OwnUnmap, Event
  <2>3. OwnUnmap(x) \in Events  BY EventFacts
  <2>. QED  BY <2>1, <2>2, <2>3, EventFacts DEF Asks, Lets, Tells, Ends
<1>. QED  BY <1>2, <1>3

-----------------------------------------------------------------------------
(* What a window needs is preserved, one lemma for each thing that happens *)
(* to the queue, the Client or the window.                                 *)

(* Only events that are about the window matter.                           *)
LEMMA GoodAlike ==
  ASSUME NEW w \in Windows, NEW q \in Seq(Events), NEW r \in Seq(Events),
         NEW c, NEW m, NEW s, NEW a, NEW t, NEW l, Good(w, q, c, m, s, a, t, l),
         \A i \in DOMAIN r : Asks(r[i], w) \/ Stirs(r[i], w) => i \in DOMAIN q /\ r[i] = q[i],
         \A i \in DOMAIN q : Asks(q[i], w) \/ Stirs(q[i], w) => i \in DOMAIN r /\ r[i] = q[i]
  PROVE  Good(w, r, c, m, s, a, t, l)
<1>1. Places(r, OwnUnmap(w)) = Places(q, OwnUnmap(w))  BY DEF Places, Stirs
<1>2. Count(r, OwnUnmap(w)) = Count(q, OwnUnmap(w))  BY <1>1 DEF Count
<1>3. Calm(q, w) => Calm(r, w)  BY DEF Calm, Stirs
<1>4. Shows(w, q, c, m, l) => Shows(w, r, c, m, l)
  <2>1. CASE c # Gone  BY <1>2, <1>3, <2>1 DEF Shows
  <2>2. CASE c = Gone
    <3>1. \A i, j \in DOMAIN r : i < j /\ Asks(r[i], w) /\ Stirs(r[j], w) =>
            i \in DOMAIN q /\ j \in DOMAIN q /\ Asks(q[i], w) /\ Stirs(q[j], w)
      OBVIOUS
    <3>2. (\E i \in DOMAIN q : Asks(q[i], w)) => \E i \in DOMAIN r : Asks(r[i], w)  OBVIOUS
    <3>. QED  BY <2>2, <3>1, <3>2 DEF Shows
  <2>. QED  BY <2>1, <2>2
<1>5. Withdraws(w, q, c, t) => Withdraws(w, r, c, t)
  <2>1. (\E i \in DOMAIN q : Tells(q[i], w)) => \E i \in DOMAIN r : Tells(r[i], w)  BY DEF Stirs, Lets
  <2>2. ASSUME Withdraws(w, q, c, t), NEW i \in DOMAIN r, Asks(r[i], w), ~t
        PROVE  \E j \in DOMAIN r : i < j /\ Tells(r[j], w)
    <3>1. PICK j \in DOMAIN q : i < j /\ Tells(q[j], w)  BY <2>2 DEF Withdraws
    <3>. QED  BY <3>1 DEF Stirs, Lets
  <2>. QED  BY <2>1, <2>2 DEF Withdraws
<1>6. (\E i \in DOMAIN q : Ends(q[i], w)) => \E i \in DOMAIN r : Ends(r[i], w)  BY DEF Stirs, Lets
<1>7. Found(w, q, a, l) => Found(w, r, a, l)  BY DEF Found
<1>8. (\A i \in DOMAIN q : Asks(q[i], w) /\ q[i].on = "frame" => c # Gone) =>
        \A i \in DOMAIN r : Asks(r[i], w) /\ r[i].on = "frame" => c # Gone
  OBVIOUS
<1>. QED  BY <1>4, <1>5, <1>6, <1>7, <1>8, Zenon DEF Good

LEMMA GoodAppended ==
  ASSUME NEW w \in Windows, NEW q \in Seq(Events), NEW u \in Seq(Events),
         NEW c, NEW m, NEW s, NEW a, NEW t, NEW l, Good(w, q, c, m, s, a, t, l),
         \A i \in DOMAIN u : ~Asks(u[i], w) /\ ~Stirs(u[i], w)
  PROVE  Good(w, q \o u, c, m, s, a, t, l)
<1>1. q \o u \in Seq(Events)  OBVIOUS
<1>2. \A i \in DOMAIN (q \o u) : Asks((q \o u)[i], w) \/ Stirs((q \o u)[i], w) =>
        i \in DOMAIN q /\ (q \o u)[i] = q[i]
  OBVIOUS
<1>3. \A i \in DOMAIN q : i \in DOMAIN (q \o u) /\ (q \o u)[i] = q[i]  OBVIOUS
<1>. QED  BY <1>1, <1>2, <1>3, GoodAlike, Zenon

(* An event is handled that the window does not need.                      *)
LEMMA GoodDequeued ==
  ASSUME NEW w \in Windows, NEW q \in Seq(Events), q # <<>>,
         NEW c \in Client \cup {Gone}, NEW m, NEW s, NEW a, NEW t, NEW l, Good(w, q, c, m, s, a, t, l),
         Asks(Head(q), w) => c # Gone \/ a # "shown",
         Tells(Head(q), w) \/ Ends(Head(q), w) => c = Gone
  PROVE  Good(w, Tail(q), c, m, s, a, t, l)
<1>1. /\ Tail(q) \in Seq(Events) /\ DOMAIN Tail(q) = 1..Len(q) - 1 /\ DOMAIN q = 1..Len(q) /\ Len(q) \in Nat
      /\ \A i \in 1..Len(q) - 1 : Tail(q)[i] = q[i + 1]
      /\ Head(q) = q[1]
  OBVIOUS
<1>2. /\ \A i \in DOMAIN Tail(q) : i + 1 \in DOMAIN q /\ Tail(q)[i] = q[i + 1]
      /\ \A i \in DOMAIN q : i # 1 => i - 1 \in DOMAIN Tail(q) /\ Tail(q)[i - 1] = q[i]
  BY <1>1
<1>3. Count(Tail(q), OwnUnmap(w)) <= Count(q, OwnUnmap(w)) /\ Count(q, OwnUnmap(w)) \in Nat
  <2>1. Count(q, OwnUnmap(w)) \in Nat /\ Count(Tail(q), OwnUnmap(w)) \in Nat  BY <1>1, CountNat, Zenon
  <2>2. Count(q, OwnUnmap(w)) = Count(Tail(q), OwnUnmap(w)) + (IF Head(q) = OwnUnmap(w) THEN 1 ELSE 0)
    BY CountTail, Zenon
  <2>. QED  BY <2>1, <2>2
<1>4. Calm(q, w) => Calm(Tail(q), w)  BY <1>2 DEF Calm
<1>5. a = "shown" /\ Shows(w, q, c, m, l) => Shows(w, Tail(q), c, m, l)
  <2>1. CASE c # Gone
    <3>1. c.pending \in Nat  BY <2>1 DEF Client
    <3>2. Count(Tail(q), OwnUnmap(w)) \in Nat  BY <1>1, CountNat, Zenon
    <3>. QED  BY <1>3, <1>4, <2>1, <3>1, <3>2 DEF Shows
  <2>2. ASSUME c = Gone, a = "shown", Shows(w, q, c, m, l)  PROVE  Shows(w, Tail(q), c, m, l)
    <3>1. \A i, j \in DOMAIN q : i < j /\ Asks(q[i], w) => ~Stirs(q[j], w)  BY <2>2 DEF Shows
    <3>2. \A i, j \in DOMAIN Tail(q) : i < j /\ Asks(Tail(q)[i], w) => ~Stirs(Tail(q)[j], w)
      <4>1. ASSUME NEW i \in DOMAIN Tail(q), NEW j \in DOMAIN Tail(q), i < j, Asks(Tail(q)[i], w)
            PROVE  ~Stirs(Tail(q)[j], w)
        <5>1. i + 1 \in DOMAIN q /\ j + 1 \in DOMAIN q /\ i + 1 < j + 1  BY <1>1, <4>1
        <5>. QED  BY <1>2, <3>1, <4>1, <5>1
      <4>. QED  BY <4>1
    <3>3. (\E i \in DOMAIN q : Asks(q[i], w)) => \E i \in DOMAIN Tail(q) : Asks(Tail(q)[i], w)
      BY <1>1, <1>2, <2>2
    <3>. QED  BY <2>2, <3>2, <3>3 DEF Shows
  <2>. QED  BY <2>1, <2>2
<1>6. Withdraws(w, q, c, t) => Withdraws(w, Tail(q), c, t)
  <2>1. c # Gone /\ (\E i \in DOMAIN q : Tells(q[i], w)) => \E i \in DOMAIN Tail(q) : Tells(Tail(q)[i], w)
    BY <1>1, <1>2
  <2>2. ASSUME Withdraws(w, q, c, t), NEW i \in DOMAIN Tail(q), Asks(Tail(q)[i], w), ~t
        PROVE  \E j \in DOMAIN Tail(q) : i < j /\ Tells(Tail(q)[j], w)
    <3>1. PICK j \in DOMAIN q : i + 1 < j /\ Tells(q[j], w)  BY <1>2, <2>2 DEF Withdraws
    <3>2. j - 1 \in DOMAIN Tail(q) /\ Tail(q)[j - 1] = q[j] /\ i < j - 1  BY <1>1, <3>1
    <3>. QED  BY <3>1, <3>2
  <2>. QED  BY <2>1, <2>2 DEF Withdraws
<1>7. c # Gone /\ (\E i \in DOMAIN q : Ends(q[i], w)) => \E i \in DOMAIN Tail(q) : Ends(Tail(q)[i], w)
  BY <1>1, <1>2
<1>8. Found(w, q, a, l) => Found(w, Tail(q), a, l)  BY <1>2 DEF Found
<1>9. (\A i \in DOMAIN q : Asks(q[i], w) /\ q[i].on = "frame" => c # Gone) =>
        \A i \in DOMAIN Tail(q) : Asks(Tail(q)[i], w) /\ Tail(q)[i].on = "frame" => c # Gone
  BY <1>2
<1>. QED  BY <1>5, <1>6, <1>7, <1>8, <1>9, Zenon DEF Good

(* An UnmapNotify that a managed window expects.                           *)
LEMMA GoodExpected ==
  ASSUME NEW w \in Windows, NEW q \in Seq(Events), q # <<>>, NEW c \in Client, c.pending > 0,
         NEW d \in Client, d.state = c.state, d.pending = c.pending - 1,
         NEW m, NEW s, NEW a, NEW t, NEW l, Good(w, q, c, m, s, a, t, l),
         Head(q).win = w, Head(q).type = "UnmapNotify"
  PROVE  Good(w, Tail(q), d, m, s, a, t, l)
<1>1. c # Gone /\ d # Gone /\ c.pending \in Nat  BY DEF Client, State, Gone
<1>2. Good(w, Tail(q), c, m, s, a, t, l)
  BY <1>1, GoodDequeued DEF Tells, Ends
<1>3. a = "shown" => Count(Tail(q), OwnUnmap(w)) <= d.pending
  <2>1. SUFFICES ASSUME a = "shown"  PROVE  Count(Tail(q), OwnUnmap(w)) <= d.pending  OBVIOUS
  <2>2. Calm(q, w) /\ Count(q, OwnUnmap(w)) <= c.pending  BY <1>1, <2>1 DEF Good, Shows
  <2>3. 1 \in DOMAIN q /\ Head(q) = q[1] /\ Head(q) \in Events  OBVIOUS
  <2>4. Stirs(Head(q), w) /\ ~Lets(Head(q), w)  BY <2>2, <2>3, EventFacts DEF Calm
  <2>5. Head(q) = OwnUnmap(w)  BY <2>4 DEF Stirs
  <2>6. Count(q, OwnUnmap(w)) = Count(Tail(q), OwnUnmap(w)) + 1  BY <2>5, CountTail
  <2>7. Tail(q) \in Seq(Events)  OBVIOUS
  <2>8. Count(Tail(q), OwnUnmap(w)) \in Nat  BY <2>7, CountNat, Zenon
  <2>. QED  BY <1>1, <2>2, <2>6, <2>8
<1>4. a = "shown" => Shows(w, Tail(q), d, m, l)  BY <1>1, <1>2, <1>3 DEF Good, Shows
<1>5. Withdraws(w, Tail(q), c, t) => Withdraws(w, Tail(q), d, t)  BY <1>1 DEF Withdraws
<1>. QED  BY <1>1, <1>2, <1>4, <1>5 DEF Good

(* olwm hides a window and expects the UnmapNotify.                        *)
LEMMA GoodHidden ==
  ASSUME NEW w \in Windows, NEW q \in Seq(Events), NEW u \in Seq(Events), NEW c \in Client,
         NEW m, NEW s, NEW a, NEW t, NEW l, Good(w, q, c, m, s, a, t, l),
         \A i \in DOMAIN u : ~Asks(u[i], w) /\ ~Lets(u[i], w), Count(u, OwnUnmap(w)) <= 1,
         NEW d \in Client, d.state # "Normal", d.pending = c.pending + 1
  PROVE  Good(w, q \o u, d, FALSE, "Iconic", a, t, l)
<1>. DEFINE r == q \o u
<1>1. c # Gone /\ d # Gone /\ c.pending \in Nat  BY DEF Client, State, Gone
<1>2. r \in Seq(Events) /\ \A i \in DOMAIN r : ~(i \in DOMAIN q /\ r[i] = q[i]) =>
                             ~Asks(r[i], w) /\ ~Lets(r[i], w)
  OBVIOUS
<1>3. \A i \in DOMAIN q : i \in DOMAIN r /\ r[i] = q[i]  OBVIOUS
<1>4. Count(q, OwnUnmap(w)) \in Nat /\ Count(u, OwnUnmap(w)) \in Nat  BY CountNat, Zenon
<1>5. Count(r, OwnUnmap(w)) = Count(q, OwnUnmap(w)) + Count(u, OwnUnmap(w))  BY CountConcat, Zenon
<1>. HIDE DEF r
<1>6. a = "shown" => Shows(w, r, d, FALSE, l)
  <2>1. SUFFICES ASSUME a = "shown"  PROVE  Shows(w, r, d, FALSE, l)  OBVIOUS
  <2>2. Calm(q, w) /\ Count(q, OwnUnmap(w)) <= c.pending  BY <1>1, <2>1 DEF Good, Shows
  <2>3. Calm(r, w)  BY <1>2, <2>2 DEF Calm
  <2>. QED  BY <1>1, <1>4, <1>5, <2>2, <2>3 DEF Shows
<1>7. Withdraws(w, q, c, t) => Withdraws(w, r, d, t)
  <2>1. ASSUME Withdraws(w, q, c, t), NEW i \in DOMAIN r, Asks(r[i], w), ~t
        PROVE  \E j \in DOMAIN r : i < j /\ Tells(r[j], w)
    <3>1. i \in DOMAIN q /\ Asks(q[i], w)  BY <1>2, <2>1
    <3>2. PICK j \in DOMAIN q : i < j /\ Tells(q[j], w)  BY <2>1, <3>1 DEF Withdraws
    <3>. QED  BY <1>3, <3>2
  <2>2. (\E i \in DOMAIN q : Tells(q[i], w)) => \E i \in DOMAIN r : Tells(r[i], w)  BY <1>3
  <2>. QED  BY <1>1, <2>1, <2>2 DEF Withdraws
<1>8. (\E i \in DOMAIN q : Ends(q[i], w)) => \E i \in DOMAIN r : Ends(r[i], w)  BY <1>3
<1>9. Good(w, r, d, FALSE, "Iconic", a, t, l)  BY <1>1, <1>6, <1>7, <1>8 DEF Good
<1>. QED  BY <1>9 DEF r

(* olwm shows a window, or changes its state without unmapping it.         *)
LEMMA GoodShown ==
  ASSUME NEW w \in Windows, NEW q, NEW c \in Client, NEW d \in Client,
         d.state = "Normal", d.pending = c.pending,
         NEW m, NEW s, NEW a, NEW t, NEW l, Good(w, q, c, m, s, a, t, l)
  PROVE  Good(w, q, d, TRUE, "Normal", a, t, l)
<1>1. c # Gone /\ d # Gone  BY DEF Client, State, Gone
<1>2. a = "shown" => Shows(w, q, d, TRUE, l)  BY <1>1 DEF Good, Shows
<1>3. Withdraws(w, q, c, t) => Withdraws(w, q, d, t)  BY <1>1 DEF Withdraws
<1>. QED  BY <1>1, <1>2, <1>3 DEF Good

LEMMA GoodRelabelled ==
  ASSUME NEW w \in Windows, NEW q, NEW c \in Client, c.state # "Normal",
         NEW d \in Client, d.state # "Normal", d.pending = c.pending,
         NEW m, NEW s, NEW a, NEW t, NEW l, Good(w, q, c, m, s, a, t, l)
  PROVE  Good(w, q, d, m, "Iconic", a, t, l)
<1>1. c # Gone /\ d # Gone  BY DEF Client, State, Gone
<1>2. a = "shown" => Shows(w, q, d, m, l)  BY <1>1 DEF Good, Shows
<1>3. Withdraws(w, q, c, t) => Withdraws(w, q, d, t)  BY <1>1 DEF Withdraws
<1>. QED  BY <1>1, <1>2, <1>3 DEF Good

(* The group of a Client does not matter.                                  *)
LEMMA GoodPromoted ==
  ASSUME NEW w \in Windows, NEW q, NEW c \in Client, NEW d \in Client,
         d.state = c.state, d.pending = c.pending,
         NEW m, NEW s, NEW a, NEW t, NEW l, Good(w, q, c, m, s, a, t, l)
  PROVE  Good(w, q, d, m, s, a, t, l)
<1>1. c # Gone /\ d # Gone  BY DEF Client, State, Gone
<1>2. Shows(w, q, c, m, l) => Shows(w, q, d, m, l)  BY <1>1 DEF Shows
<1>3. Withdraws(w, q, c, t) => Withdraws(w, q, d, t)  BY <1>1 DEF Withdraws
<1>. QED  BY <1>1, <1>2, <1>3 DEF Good

(* olwm lets go a window that is not shown.                                *)
LEMMA OrphanFacts ==
  ASSUME NEW q \in Seq(Events), NEW w \in Windows
  PROVE  /\ Orphaned(w, q) \in Seq(Events) /\ DOMAIN Orphaned(w, q) = DOMAIN q
         /\ \A i \in DOMAIN q : q[i].win # w => Orphaned(w, q)[i] = q[i]
         /\ \A i \in DOMAIN q : q[i].win = w =>
              /\ Orphaned(w, q)[i].win \in {w, None} /\ Orphaned(w, q)[i].on = "root"
              /\ \/ Orphaned(w, q)[i].win = w /\ Orphaned(w, q)[i].type = q[i].type
                 \/ Orphaned(w, q)[i].win = None /\ q[i].type \in {"Toggle", "Open", "Hide"}
<1>1. ASSUME NEW e \in Events, e.win = w
      PROVE  /\ Orphan(e) \in Events /\ Orphan(e).win \in {w, None} /\ Orphan(e).on = "root"
             /\ \/ Orphan(e).win = w /\ Orphan(e).type = e.type
                \/ Orphan(e).win = None /\ e.type \in {"Toggle", "Open", "Hide"}
  <2>1. CASE e.type \in {"Toggle", "Open", "Hide"}
    <3>1. Orphan(e) = Event("Orphan", None)  BY <2>1 DEF Orphan
    <3>2. Event("Orphan", None).win = None /\ Event("Orphan", None).on = "root"  BY DEF Event
    <3>. QED  BY <2>1, <3>1, <3>2, EventFacts
  <2>2. CASE e.type \notin {"Toggle", "Open", "Hide"}
    <3>1. Orphan(e) = [e EXCEPT !.on = "root"]  BY <2>2 DEF Orphan
    <3>. QED  BY <1>1, <3>1 DEF Events
  <2>. QED  BY <2>1, <2>2
<1>2. DOMAIN q = 1..Len(q) /\ Len(q) \in Nat /\ \A i \in DOMAIN q : q[i] \in Events  OBVIOUS
<1>3. Orphaned(w, q) \in Seq(Events) /\ DOMAIN Orphaned(w, q) = DOMAIN q
  <2>1. Orphaned(w, q) \in [1..Len(q) -> Events]  BY <1>1, <1>2 DEF Orphaned
  <2>. QED  BY <1>2, <2>1
<1>4. \A i \in DOMAIN q : Orphaned(w, q)[i] = IF q[i].win = w THEN Orphan(q[i]) ELSE q[i]
  BY DEF Orphaned
<1>. QED  BY <1>1, <1>2, <1>3, <1>4

LEMMA GoodGone ==
  ASSUME NEW w \in Windows, NEW q \in Seq(Events), q # <<>>, NEW c \in Client,
         NEW m, NEW s, NEW a, NEW t, NEW l, NEW n, Good(w, q, c, m, s, a, t, l), a # "shown",
         n => m /\ c.state # "Normal"
  PROVE  Good(w, Orphaned(w, Tail(q)), Gone, n, s, a, t, l)
<1>. DEFINE r == Orphaned(w, Tail(q))
<1>1. c # Gone  BY DEF Client, State, Gone
<1>2. ~n  BY <1>1 DEF Good
<1>3. /\ Tail(q) \in Seq(Events) /\ DOMAIN Tail(q) = 1..Len(q) - 1 /\ DOMAIN q = 1..Len(q) /\ Len(q) \in Nat
      /\ \A i \in DOMAIN Tail(q) : i + 1 \in DOMAIN q /\ Tail(q)[i] = q[i + 1]
      /\ \A i \in DOMAIN q : i # 1 => i - 1 \in DOMAIN Tail(q) /\ Tail(q)[i - 1] = q[i]
  OBVIOUS
<1>4. DOMAIN r = DOMAIN Tail(q) /\ \A i \in DOMAIN r :
         /\ Asks(r[i], w) => Asks(q[i + 1], w) /\ r[i].on = "root"
         /\ Tells(q[i + 1], w) => Tells(r[i], w)
  <2>1. None # w  BY StatesAssumption
  <2>2. /\ DOMAIN Orphaned(w, Tail(q)) = DOMAIN Tail(q)
        /\ \A i \in DOMAIN Tail(q) : Tail(q)[i].win # w => Orphaned(w, Tail(q))[i] = Tail(q)[i]
        /\ \A i \in DOMAIN Tail(q) : Tail(q)[i].win = w =>
              /\ Orphaned(w, Tail(q))[i].win \in {w, None} /\ Orphaned(w, Tail(q))[i].on = "root"
              /\ \/ Orphaned(w, Tail(q))[i].win = w /\ Orphaned(w, Tail(q))[i].type = Tail(q)[i].type
                 \/ Orphaned(w, Tail(q))[i].win = None /\ Tail(q)[i].type \in {"Toggle", "Open", "Hide"}
    BY <1>3, OrphanFacts, Zenon
  <2>3. ASSUME NEW i \in DOMAIN Tail(q)
        PROVE  /\ Asks(r[i], w) => Asks(Tail(q)[i], w) /\ r[i].on = "root"
               /\ Tells(Tail(q)[i], w) => Tells(r[i], w)
    <3>1. PICK x, y : x = Tail(q)[i] /\ y = r[i]  OBVIOUS
    <3>2. /\ x.win # w => y = x
          /\ x.win = w => /\ y.win \in {w, None} /\ y.on = "root"
                          /\ (y.win = w /\ y.type = x.type) \/ (y.win = None /\ x.type \in {"Toggle", "Open", "Hide"})
      BY <2>2, <3>1, Zenon
    <3>3. (Asks(y, w) => Asks(x, w) /\ y.on = "root") /\ (Tells(x, w) => Tells(y, w))
      BY <2>1, <3>2 DEF Asks, Tells
    <3>. QED  BY <3>1, <3>3, Zenon
  <2>. QED  BY <1>3, <2>2, <2>3
<1>. HIDE DEF r
<1>5. Withdraws(w, q, c, t) => Withdraws(w, r, Gone, t)
  <2>1. ASSUME Withdraws(w, q, c, t), NEW i \in DOMAIN r, Asks(r[i], w), ~t
        PROVE  \E j \in DOMAIN r : i < j /\ Tells(r[j], w)
    <3>1. i + 1 \in DOMAIN q /\ Asks(q[i + 1], w)  BY <1>3, <1>4, <2>1
    <3>2. PICK j \in DOMAIN q : i + 1 < j /\ Tells(q[j], w)  BY <2>1, <3>1 DEF Withdraws
    <3>3. i \in Int /\ j \in Int /\ j # 1 /\ j - 1 \in DOMAIN r /\ i < j - 1 /\ (j - 1) + 1 = j
      BY <1>3, <1>4, <3>2
    <3>4. Tells(r[j - 1], w)  BY <1>4, <3>2, <3>3
    <3>. QED  BY <3>3, <3>4
  <2>. QED  BY <2>1 DEF Withdraws
<1>6. Good(w, r, Gone, n, s, a, t, l)  BY <1>2, <1>4, <1>5 DEF Good
<1>. QED  BY <1>6 DEF r

(* Another one is let go.                                                  *)
LEMMA GoodLeft ==
  ASSUME NEW w \in Windows, NEW x \in Windows, x # w, NEW q \in Seq(Events),
         NEW c, NEW m, NEW s, NEW a, NEW t, NEW l, Good(x, q, c, m, s, a, t, l)
  PROVE  Good(x, Orphaned(w, q), c, m, s, a, t, l)
<1>. DEFINE r == Orphaned(w, q)
<1>1. r \in Seq(Events) /\ DOMAIN r = DOMAIN q /\ \A i \in DOMAIN q :
         /\ q[i].win # w => r[i] = q[i]
         /\ q[i].win = w => r[i].win # x
  BY OrphanFacts, StatesAssumption
<1>2. \A i \in DOMAIN q : q[i] \in Events /\ r[i] \in Events  BY <1>1
<1>3. \A e \in Events : Asks(e, x) \/ Stirs(e, x) => e.win = x  BY EventFacts DEF Asks
<1>. HIDE DEF r
<1>4. \A i \in DOMAIN q : Asks(q[i], x) \/ Stirs(q[i], x) \/ Asks(r[i], x) \/ Stirs(r[i], x) => r[i] = q[i]
  BY <1>1, <1>2, <1>3
<1>5. \A i \in DOMAIN r : Asks(r[i], x) \/ Stirs(r[i], x) => i \in DOMAIN q /\ r[i] = q[i]  BY <1>1, <1>4
<1>6. \A i \in DOMAIN q : Asks(q[i], x) \/ Stirs(q[i], x) => i \in DOMAIN r /\ r[i] = q[i]  BY <1>1, <1>4
<1>7. Good(x, r, c, m, s, a, t, l)  BY <1>1, <1>5, <1>6, GoodAlike, Zenon
<1>. QED  BY <1>7, Zenon DEF r

(* A window gets a Client because its client has asked for it ...          *)
LEMMA GoodNew ==
  ASSUME NEW w \in Windows, NEW q \in Seq(Events), q # <<>>, Asks(Head(q), w),
         NEW s, NEW a, NEW t, Good(w, q, Gone, FALSE, s, a, t, FALSE), a # "destroyed",
         NEW d \in Client, d.state \in {"Normal", "Iconic"}
  PROVE  Good(w, Tail(q), d, d.state = "Normal", d.state, a, t, FALSE)
<1>1. d # Gone /\ d.pending \in Nat  BY DEF Client, State, Gone
<1>2. /\ Tail(q) \in Seq(Events) /\ DOMAIN Tail(q) = 1..Len(q) - 1 /\ DOMAIN q = 1..Len(q) /\ Len(q) \in Nat
      /\ \A i \in DOMAIN Tail(q) : i + 1 \in DOMAIN q /\ 1 < i + 1 /\ Tail(q)[i] = q[i + 1]
      /\ \A i \in DOMAIN q : i # 1 => i - 1 \in DOMAIN Tail(q) /\ Tail(q)[i - 1] = q[i]
      /\ 1 \in DOMAIN q /\ q[1] = Head(q)
  OBVIOUS
<1>3. a = "shown" => ~t /\ Shows(w, Tail(q), d, d.state = "Normal", FALSE)
  <2>1. SUFFICES ASSUME a = "shown"  PROVE  ~t /\ Shows(w, Tail(q), d, d.state = "Normal", FALSE)  OBVIOUS
  <2>2. ~t /\ \A i, j \in DOMAIN q : i < j /\ Asks(q[i], w) => ~Stirs(q[j], w)  BY <2>1 DEF Good, Shows
  <2>3. \A i \in DOMAIN Tail(q) : ~Stirs(Tail(q)[i], w)  BY <1>2, <2>2
  <2>4. Calm(Tail(q), w) /\ \A i \in DOMAIN Tail(q) : Tail(q)[i] # OwnUnmap(w)  BY <2>3 DEF Calm, Stirs
  <2>5. Count(Tail(q), OwnUnmap(w)) = 0  BY <1>2, <2>4, CountNat, Zenon
  <2>. QED  BY <1>1, <2>2, <2>4, <2>5 DEF Shows
<1>4. a = "withdrawn" => Withdraws(w, Tail(q), d, t)
  <2>1. SUFFICES ASSUME a = "withdrawn"  PROVE  Withdraws(w, Tail(q), d, t)  OBVIOUS
  <2>2. \A i \in DOMAIN q : Asks(q[i], w) => t \/ \E j \in DOMAIN q : i < j /\ Tells(q[j], w)
    BY <2>1 DEF Good, Withdraws
  <2>3. ASSUME ~t, NEW i \in DOMAIN q, Asks(q[i], w)
        PROVE  \E j \in DOMAIN Tail(q) : i - 1 < j /\ Tells(Tail(q)[j], w)
    <3>1. PICK j \in DOMAIN q : i < j /\ Tells(q[j], w)  BY <2>2, <2>3
    <3>2. i \in Int /\ j \in Int /\ j # 1 /\ i - 1 < j - 1  BY <1>2, <3>1
    <3>. QED  BY <1>2, <3>1, <3>2
  <2>4. ~t => \E j \in DOMAIN Tail(q) : Tells(Tail(q)[j], w)  BY <1>2, <2>3
  <2>5. ASSUME ~t, NEW i \in DOMAIN Tail(q), Asks(Tail(q)[i], w)
        PROVE  \E j \in DOMAIN Tail(q) : i < j /\ Tells(Tail(q)[j], w)
    <3>1. i + 1 \in DOMAIN q /\ Asks(q[i + 1], w) /\ (i + 1) - 1 = i  BY <1>2, <2>5
    <3>. QED  BY <2>3, <2>5, <3>1
  <2>. QED  BY <2>4, <2>5 DEF Withdraws
<1>. QED  BY <1>1, <1>3, <1>4 DEF Good

(* ... or because olwm has found it.                                       *)
LEMMA GoodFound ==
  ASSUME NEW w \in Windows, NEW q \in Seq(Events), NEW u \in Seq(Events),
         NEW s, NEW a, NEW t, NEW l, Good(w, q, Gone, TRUE, s, a, t, l),
         \A i \in DOMAIN u : ~Asks(u[i], w) /\ ~Lets(u[i], w),
         NEW d \in Client, Count(u, OwnUnmap(w)) <= d.pending
  PROVE  Good(w, q \o u, d, d.state = "Normal", d.state, a, t, FALSE)
<1>. DEFINE r == q \o u
<1>1. d # Gone /\ d.pending \in Nat  BY DEF Client, State, Gone
<1>2. a = "shown" /\ ~t /\ \A i \in DOMAIN q : ~Lets(q[i], w) /\ q[i] # OwnUnmap(w)
  BY DEF Good, Found, Stirs
<1>3. Count(q, OwnUnmap(w)) = 0 /\ Count(u, OwnUnmap(w)) \in Nat  BY <1>2, CountNat, Zenon
<1>4. Count(r, OwnUnmap(w)) = Count(q, OwnUnmap(w)) + Count(u, OwnUnmap(w))  BY CountConcat, Zenon
<1>5. Calm(r, w)  BY <1>2 DEF Calm
<1>. HIDE DEF r
<1>6. Shows(w, r, d, d.state = "Normal", FALSE)  BY <1>1, <1>3, <1>4, <1>5 DEF Shows
<1>7. Good(w, r, d, d.state = "Normal", d.state, a, t, FALSE)  BY <1>1, <1>2, <1>6 DEF Good
<1>. QED  BY <1>7 DEF r

(* One event more: where it is, and where the others are.                  *)
LEMMA OneMore ==
  ASSUME NEW q \in Seq(Events), NEW e \in Events
  PROVE  /\ q \o <<e>> \in Seq(Events) /\ DOMAIN q = 1..Len(q) /\ Len(q) \in Nat
         /\ DOMAIN (q \o <<e>>) = 1..Len(q) + 1 /\ (q \o <<e>>)[Len(q) + 1] = e
         /\ \A i \in DOMAIN q : i \in DOMAIN (q \o <<e>>) /\ i < Len(q) + 1 /\ (q \o <<e>>)[i] = q[i]
         /\ \A i \in DOMAIN (q \o <<e>>) : i \in DOMAIN q \/ i = Len(q) + 1
<1>1. PICK u : u = <<e>>  OBVIOUS
<1>2. u \in Seq(Events) /\ Len(u) = 1 /\ u[1] = e  BY <1>1
<1>. QED  BY <1>1, <1>2

(* Its client asks for a window, ...                                       *)
LEMMA GoodAsked ==
  ASSUME NEW w \in Windows, NEW q \in Seq(Events), NEW e \in Events, Asks(e, w),
         NEW c \in Client \cup {Gone}, NEW s, NEW a, NEW t, NEW l, Good(w, q, c, FALSE, s, a, t, l), ~t,
         e.on = "frame" => c # Gone,
         a # "shown" => c = Gone /\ \A i \in DOMAIN q : ~Asks(q[i], w)
  PROVE  Good(w, q \o <<e>>, c, FALSE, s, "shown", t, l)
<1>. DEFINE r == q \o <<e>>
            n == Len(q) + 1
<1>1. /\ r \in Seq(Events) /\ n \in DOMAIN r /\ r[n] = e /\ n \in Nat /\ DOMAIN q \subseteq Nat
      /\ \A i \in DOMAIN q : i \in DOMAIN r /\ i < n /\ r[i] = q[i]
      /\ \A i \in DOMAIN r : i \in DOMAIN q \/ i = n
  BY OneMore
<1>2. ~Stirs(e, w) /\ e # OwnUnmap(w)  BY EventFacts DEF Stirs
<1>. HIDE DEF r, n
<1>3. \A i \in DOMAIN r : Asks(r[i], w) /\ r[i].on = "frame" => c # Gone  BY <1>1 DEF Good
<1>4. CASE c # Gone
  <2>1. a = "shown"  BY <1>4
  <2>2. Calm(q, w) /\ Count(q, OwnUnmap(w)) <= c.pending /\ (FALSE <=> c.state = "Normal")
    BY <1>4, <2>1 DEF Good, Shows
  <2>3. Calm(r, w)  BY <1>1, <1>2, <2>2 DEF Calm, Stirs
  <2>4. Places(r, OwnUnmap(w)) = Places(q, OwnUnmap(w))  BY <1>1, <1>2 DEF Places
  <2>5. Shows(w, r, c, FALSE, l)  BY <1>4, <2>2, <2>3, <2>4 DEF Shows, Count
  <2>. QED  BY <1>3, <1>4, <2>1, <2>5 DEF Good, r
<1>5. CASE c = Gone
  <2>1. \A i, j \in DOMAIN q : i < j /\ Asks(q[i], w) => ~Stirs(q[j], w)  BY <1>5 DEF Good, Shows
  <2>2. ASSUME NEW i \in DOMAIN r, NEW j \in DOMAIN r, i < j, Asks(r[i], w)  PROVE  ~Stirs(r[j], w)
    <3>1. CASE j = n  BY <1>1, <1>2, <3>1
    <3>2. CASE j \in DOMAIN q
      <4>1. i # n  BY <1>1, <2>2, <3>2
      <4>. QED  BY <1>1, <2>1, <2>2, <3>2, <4>1
    <3>. QED  BY <1>1, <3>1, <3>2
  <2>3. Shows(w, r, c, FALSE, l)  BY <1>1, <1>5, <2>2 DEF Shows
  <2>. QED  BY <1>3, <1>5, <2>3 DEF Good, r
<1>. QED  BY <1>4, <1>5

(* ... unmaps it and is to say so, ...                                     *)
LEMMA GoodWithdrawn ==
  ASSUME NEW w \in Windows, NEW q \in Seq(Events), NEW u \in Seq(Events), \A i \in DOMAIN u : ~Asks(u[i], w),
         NEW c, NEW m, NEW s, NEW a, NEW t, NEW l, Good(w, q, c, m, s, a, t, l)
  PROVE  Good(w, q \o u, c, FALSE, s, "withdrawn", TRUE, l)
<1>1. \A i \in DOMAIN (q \o u) : Asks((q \o u)[i], w) => i \in DOMAIN q /\ (q \o u)[i] = q[i]  OBVIOUS
<1>2. Withdraws(w, q \o u, c, TRUE)  BY DEF Withdraws
<1>. QED  BY <1>1, <1>2 DEF Good

(* ... says so, ...                                                        *)
LEMMA GoodTold ==
  ASSUME NEW w \in Windows, NEW q \in Seq(Events), NEW e \in Events, Tells(e, w), NEW c, NEW m, NEW s,
         NEW a, NEW t, t, NEW l, Good(w, q, c, m, s, a, t, l)
  PROVE  Good(w, q \o <<e>>, c, m, s, a, FALSE, l)
<1>. DEFINE r == q \o <<e>>
            n == Len(q) + 1
<1>1. /\ r \in Seq(Events) /\ n \in DOMAIN r /\ r[n] = e /\ n \in Nat /\ DOMAIN q \subseteq Nat
      /\ \A i \in DOMAIN q : i \in DOMAIN r /\ i < n /\ r[i] = q[i]
      /\ \A i \in DOMAIN r : i \in DOMAIN q \/ i = n
  BY OneMore
<1>2. a # "shown" /\ ~Asks(e, w)  BY DEF Good, Tells, Asks
<1>. HIDE DEF r, n
<1>3. \A i \in DOMAIN r : Asks(r[i], w) => i < n /\ i \in DOMAIN q /\ r[i] = q[i]  BY <1>1, <1>2
<1>4. Withdraws(w, r, c, FALSE)  BY <1>1, <1>3 DEF Withdraws
<1>5. (\E i \in DOMAIN q : Ends(q[i], w)) => \E i \in DOMAIN r : Ends(r[i], w)  BY <1>1
<1>6. c = Gone /\ m => FALSE  BY <1>2 DEF Good, Found
<1>7. \A i \in DOMAIN r : Asks(r[i], w) /\ r[i].on = "frame" => c # Gone  BY <1>3 DEF Good
<1>8. Good(w, r, c, m, s, a, FALSE, l)  BY <1>2, <1>4, <1>5, <1>6, <1>7 DEF Good
<1>. QED  BY <1>8 DEF r

(* ... or destroys it.                                                     *)
LEMMA GoodDestroyed ==
  ASSUME NEW w \in Windows, NEW q \in Seq(Events), NEW u \in Seq(Events), \A i \in DOMAIN u : ~Asks(u[i], w),
         NEW c, c # Gone => \E i \in DOMAIN u : Ends(u[i], w),
         NEW m, NEW s, NEW a, NEW t, NEW l, Good(w, q, c, m, s, a, t, l)
  PROVE  Good(w, q \o u, c, FALSE, s, "destroyed", t, l)
<1>1. \A i \in DOMAIN (q \o u) : Asks((q \o u)[i], w) => i \in DOMAIN q /\ (q \o u)[i] = q[i]  OBVIOUS
<1>2. \A i \in DOMAIN u : i + Len(q) \in DOMAIN (q \o u) /\ (q \o u)[i + Len(q)] = u[i]  OBVIOUS
<1>3. c # Gone => \E i \in DOMAIN (q \o u) : Ends((q \o u)[i], w)  BY <1>2
<1>. QED  BY <1>1, <1>3 DEF Good

-----------------------------------------------------------------------------
(* The transitions. q is the queue without the event that led to it, and   *)
(* every window is ready for one.                                          *)

Ready(w, q) == Good(w, q, client[w], mapped[w], wmState[w], asked[w], telling[w], ToLook(w))
Prepared(q) == Typed /\ q \in Seq(Events) /\ \A w \in Windows : Ready(w, q)
Stay        == UNCHANGED <<hints, asked, telling, existing>>

LEMMA ManagedClient ==
  ASSUME Typed, NEW w \in Windows
  PROVE  IsManaged(w) <=> client[w] \in Client
<1>1. client[w] \in Client \cup {Gone}  BY DEF Typed
<1>2. Gone \notin Client  BY DEF Gone, Client, State
<1>. QED  BY <1>1, <1>2 DEF IsManaged

LEMMA SetStateOf ==
  ASSUME Typed, NEW ws, ws \subseteq Managed, NEW st \in State, NEW n \in Nat, SetState(ws, st, n)
  PROVE  /\ client' \in [Windows -> Client \cup {Gone}]
         /\ \A w \in ws : /\ w \in Windows /\ client[w] \in Client /\ client'[w] \in Client
                          /\ client'[w].state = st /\ client'[w].pending = client[w].pending + n
         /\ \A w \in Windows \ ws : client'[w] = client[w]
<1>1. ASSUME NEW w \in ws
      PROVE  /\ w \in Windows /\ client[w] \in Client /\ client'[w] \in Client
             /\ client'[w].state = st /\ client'[w].pending = client[w].pending + n
  <2>1. w \in Windows /\ IsManaged(w)  BY <1>1 DEF Managed
  <2>2. client[w] \in Client  BY <2>1, ManagedClient
  <2>3. PICK c \in Client : c = client[w]  BY <2>2
  <2>4. client'[w] = [c EXCEPT !.state = st, !.pending = @ + n]
    BY <1>1, <2>1, <2>3, Zenon DEF SetState
  <2>5. PICK k \in Nat : k = c.pending + n  BY DEF Client
  <2>6. PICK b \in Client : b = [c EXCEPT !.state = st]  BY DEF Client
  <2>7. b.state = st /\ b.pending = c.pending  BY <2>6 DEF Client
  <2>8. PICK d : d = [b EXCEPT !.pending = k]  OBVIOUS
  <2>9. d = [c EXCEPT !.state = st, !.pending = @ + n]  BY <2>8, <2>5, <2>6
  <2>10. d \in Client /\ d.state = st /\ d.pending = c.pending + n  BY <2>5, <2>7, <2>8 DEF Client
  <2>. QED  BY <2>1, <2>3, <2>4, <2>9, <2>10
<1>2. \A w \in Windows \ ws : client'[w] = client[w]  BY DEF SetState
<1>3. \A w \in Windows : client'[w] \in Client \cup {Gone}  BY <1>1, <1>2 DEF Typed
<1>4. client' = [w \in Windows |-> client'[w]]  BY DEF SetState
<1>. QED  BY <1>1, <1>2, <1>3, <1>4

(* Windows are hidden and the UnmapNotifys counted (iconifyOne,            *)
(* StateInvisible).                                                        *)
LEMMA HidingKeeps ==
  ASSUME NEW q, Prepared(q), NEW ws, ws \subseteq Managed, NEW st \in {"Iconic", "Invisible"}, Stay,
         Hidden(ws), queue' = q \o Unmaps(ws), SetState(ws, st, 1), SetWMState(ws, "Iconic")
  PROVE  IInv'
<1>1. Typed /\ q \in Seq(Events) /\ (\A w \in Windows : Ready(w, q)) /\ ws \subseteq Windows /\ st \in State
  BY DEF Prepared, Managed, State
<1>2. /\ client' \in [Windows -> Client \cup {Gone}]
      /\ \A w \in ws : /\ w \in Windows /\ client[w] \in Client /\ client'[w] \in Client
                       /\ client'[w].state = st /\ client'[w].pending = client[w].pending + 1
      /\ \A w \in Windows \ ws : client'[w] = client[w]
  BY <1>1, SetStateOf
<1>3. PICK u \in Seq(Events) : u = Unmaps(ws)  BY <1>1, UnmapsOnce
<1>4. \A w \in Windows : /\ \A i \in DOMAIN u : ~Asks(u[i], w) /\ ~Lets(u[i], w)
                         /\ Count(u, OwnUnmap(w)) <= 1
                         /\ w \notin ws => \A i \in DOMAIN u : ~Stirs(u[i], w)
  BY <1>1, <1>3, UnmapsOf, Zenon
<1>5. /\ \A w \in ws : mapped'[w] = FALSE /\ wmState'[w] = "Iconic"
      /\ \A w \in Windows \ ws : mapped'[w] = mapped[w] /\ wmState'[w] = wmState[w]
  BY <1>1 DEF Hidden, SetWMState, Typed
<1>6. asked' = asked /\ telling' = telling /\ existing' = existing /\ hints' = hints  BY DEF Stay
<1>7. Typed'
  <2>1. queue' \in Seq(Events)  BY <1>1, <1>3
  <2>2. mapped' \in [Windows -> BOOLEAN] /\ wmState' \in [Windows -> {"none", "Normal", "Iconic"}]
    BY <1>1 DEF Hidden, SetWMState, Typed
  <2>. QED  BY <1>1, <1>2, <1>6, <2>1, <2>2 DEF Typed
<1>8. ASSUME NEW w \in ws  PROVE  GoodNow(w)'
  <2>1. Good(w, q, client[w], mapped[w], wmState[w], asked[w], telling[w], ToLook(w))  BY <1>1, <1>8 DEF Ready
  <2>2. client'[w].state # "Normal"  BY <1>2, <1>8
  <2>3. Good(w, q \o u, client'[w], FALSE, "Iconic", asked[w], telling[w], ToLook(w))
    BY <1>1, <1>2, <1>3, <1>4, <1>8, <2>1, <2>2, GoodHidden
  <2>. QED  BY <1>3, <1>5, <1>6, <1>8, <2>3 DEF GoodNow, ToLook
<1>9. ASSUME NEW w \in Windows \ ws  PROVE  GoodNow(w)'
  <2>1. Good(w, q, client[w], mapped[w], wmState[w], asked[w], telling[w], ToLook(w))  BY <1>1, <1>9 DEF Ready
  <2>2. Good(w, q \o u, client[w], mapped[w], wmState[w], asked[w], telling[w], ToLook(w))
    BY <1>1, <1>3, <1>4, <1>9, <2>1, GoodAppended
  <2>. QED  BY <1>2, <1>3, <1>5, <1>6, <1>9, <2>2 DEF GoodNow, ToLook
<1>. QED  BY <1>1, <1>7, <1>8, <1>9 DEF IInv

(* Windows are shown (deiconifyOne, deiconifyGroup).                       *)
LEMMA ShowingKeeps ==
  ASSUME NEW q, Prepared(q), NEW ws, ws \subseteq Managed, Stay, Deiconify(ws, q)
  PROVE  IInv'
<1>1. Typed /\ q \in Seq(Events) /\ (\A w \in Windows : Ready(w, q)) /\ ws \subseteq Windows
  BY DEF Prepared, Managed
<1>2. /\ client' \in [Windows -> Client \cup {Gone}]
      /\ \A w \in ws : /\ w \in Windows /\ client[w] \in Client /\ client'[w] \in Client
                       /\ client'[w].state = "Normal" /\ client'[w].pending = client[w].pending + 0
      /\ \A w \in Windows \ ws : client'[w] = client[w]
  <2>1. SetState(ws, "Normal", 0) /\ "Normal" \in State /\ 0 \in Nat  BY DEF Deiconify, State
  <2>. QED  BY <1>1, <2>1, SetStateOf
<1>3. /\ \A w \in ws : mapped'[w] = TRUE /\ wmState'[w] = "Normal"
      /\ \A w \in Windows \ ws : mapped'[w] = mapped[w] /\ wmState'[w] = wmState[w]
  BY <1>1 DEF Deiconify, Shown, SetWMState, Typed
<1>4. asked' = asked /\ telling' = telling /\ existing' = existing /\ hints' = hints /\ queue' = q
  BY DEF Stay, Deiconify
<1>5. Typed'
  <2>1. mapped' \in [Windows -> BOOLEAN] /\ wmState' \in [Windows -> {"none", "Normal", "Iconic"}]
    BY <1>1 DEF Deiconify, Shown, SetWMState, Typed
  <2>. QED  BY <1>1, <1>2, <1>4, <2>1 DEF Typed
<1>6. ASSUME NEW w \in ws  PROVE  GoodNow(w)'
  <2>1. Good(w, q, client[w], mapped[w], wmState[w], asked[w], telling[w], ToLook(w))  BY <1>1, <1>6 DEF Ready
  <2>2. client'[w].pending = client[w].pending  BY <1>2, <1>6 DEF Client
  <2>3. Good(w, q, client'[w], TRUE, "Normal", asked[w], telling[w], ToLook(w))
    BY <1>2, <1>6, <2>1, <2>2, GoodShown
  <2>. QED  BY <1>3, <1>4, <1>6, <2>3 DEF GoodNow, ToLook
<1>7. ASSUME NEW w \in Windows \ ws  PROVE  GoodNow(w)'
  <2>1. Good(w, q, client[w], mapped[w], wmState[w], asked[w], telling[w], ToLook(w))  BY <1>1, <1>7 DEF Ready
  <2>. QED  BY <1>2, <1>3, <1>4, <1>7, <2>1 DEF GoodNow, ToLook
<1>. QED  BY <1>1, <1>5, <1>6, <1>7 DEF IInv

(* A window that is not in NormalState goes from one other state to the    *)
(* other: it is not mapped.                                                *)
LEMMA RelabellingKeeps ==
  ASSUME NEW q, Prepared(q), NEW w \in Managed, client[w].state # "Normal", NEW st \in {"Iconic", "Invisible"},
         Stay, queue' = q, mapped' = mapped, SetState({w}, st, 0), SetWMState({w}, "Iconic")
  PROVE  IInv'
<1>1. Typed /\ q \in Seq(Events) /\ (\A x \in Windows : Ready(x, q)) /\ w \in Windows
  BY DEF Prepared, Managed
<1>2. /\ client' \in [Windows -> Client \cup {Gone}]
      /\ client[w] \in Client /\ client'[w] \in Client
      /\ client'[w].state = st /\ client'[w].pending = client[w].pending + 0
      /\ \A x \in Windows \ {w} : client'[x] = client[x]
  <2>1. {w} \subseteq Managed /\ st \in State /\ 0 \in Nat  BY DEF State
  <2>2. /\ client' \in [Windows -> Client \cup {Gone}]
        /\ \A x \in {w} : /\ x \in Windows /\ client[x] \in Client /\ client'[x] \in Client
                          /\ client'[x].state = st /\ client'[x].pending = client[x].pending + 0
        /\ \A x \in Windows \ {w} : client'[x] = client[x]
    BY <1>1, <2>1, SetStateOf
  <2>. QED  BY <2>2
<1>3. wmState'[w] = "Iconic" /\ \A x \in Windows \ {w} : wmState'[x] = wmState[x]  BY <1>1 DEF SetWMState
<1>4. asked' = asked /\ telling' = telling /\ existing' = existing /\ hints' = hints  BY DEF Stay
<1>5. Typed'
  <2>1. wmState' \in [Windows -> {"none", "Normal", "Iconic"}]  BY <1>1 DEF SetWMState, Typed
  <2>. QED  BY <1>1, <1>2, <1>4, <2>1 DEF Typed
<1>6. GoodNow(w)'
  <2>1. Good(w, q, client[w], mapped[w], wmState[w], asked[w], telling[w], ToLook(w))  BY <1>1 DEF Ready
  <2>2. client'[w].pending = client[w].pending /\ client'[w].state # "Normal"  BY <1>2 DEF Client
  <2>3. Good(w, q, client'[w], mapped[w], "Iconic", asked[w], telling[w], ToLook(w))
    BY <1>1, <1>2, <2>1, <2>2, GoodRelabelled
  <2>. QED  BY <1>3, <1>4, <2>3 DEF GoodNow, ToLook
<1>7. ASSUME NEW x \in Windows \ {w}  PROVE  GoodNow(x)'
  <2>1. Good(x, q, client[x], mapped[x], wmState[x], asked[x], telling[x], ToLook(x))  BY <1>1, <1>7 DEF Ready
  <2>. QED  BY <1>2, <1>3, <1>4, <1>7, <2>1 DEF GoodNow, ToLook
<1>. QED  BY <1>5, <1>6, <1>7 DEF IInv

LEMMA UnchangedKeeps ==
  ASSUME NEW q, Prepared(q), Stay, Unchanged(q)
  PROVE  IInv'
<1>1. asked' = asked /\ telling' = telling /\ existing' = existing /\ hints' = hints
      /\ queue' = q /\ mapped' = mapped /\ wmState' = wmState /\ client' = client
  BY DEF Stay, Unchanged
<1>2. Typed'  BY <1>1 DEF Prepared, Typed
<1>3. ASSUME NEW w \in Windows  PROVE  GoodNow(w)'  BY <1>1, <1>3 DEF Prepared, Ready, GoodNow, ToLook
<1>. QED  BY <1>2, <1>3 DEF IInv

LEMMA WithManaged ==
  ASSUME Typed, NEW w \in Managed
  PROVE  With(w) \subseteq Managed
<1>1. client[w] \in Client  BY ManagedClient DEF Managed
<1>2. client[w].role \in {"LEADER", "INDEPENDENT", "DEPENDENT"}  BY <1>1 DEF Client, Role
<1>. QED  BY <1>2 DEF With, Members

(* What StateIconic, StateNormal and StateInvisible do.                    *)
LEMMA IconicKeeps ==
  ASSUME NEW q, Prepared(q), NEW w \in Managed, Stay, StateIconic(w, q)
  PROVE  IInv'
<1>1. CASE HasIcon(w) /\ client[w].state = "Normal" /\ IconifyOne(With(w), q)
  <2>1. With(w) \subseteq Managed  BY WithManaged DEF Prepared
  <2>2. /\ Hidden(With(w)) /\ queue' = q \o Unmaps(With(w))
        /\ SetState(With(w), "Iconic", 1) /\ SetWMState(With(w), "Iconic")
    BY <1>1, Zenon DEF IconifyOne
  <2>. QED  BY <2>1, <2>2, HidingKeeps
<1>2. CASE /\ client[w].state = "Invisible" /\ SetState({w}, "Iconic", 0) /\ SetWMState({w}, "Iconic")
           /\ queue' = q /\ UNCHANGED mapped
  BY <1>2, RelabellingKeeps
<1>3. CASE Unchanged(q)  BY <1>3, UnchangedKeeps
<1>. QED  BY <1>1, <1>2, <1>3, Zenon DEF StateIconic

LEMMA NormalKeeps ==
  ASSUME NEW q, Prepared(q), NEW w \in Managed, Stay, StateNormal(w, q)
  PROVE  IInv'
<1>1. CASE Deiconify(With(w), q)
  <2>1. With(w) \subseteq Managed  BY WithManaged DEF Prepared
  <2>. QED  BY <1>1, <2>1, ShowingKeeps
<1>2. CASE Deiconify({w}, q)
  <2>1. {w} \subseteq Managed  OBVIOUS
  <2>. QED  BY <1>2, <2>1, ShowingKeeps
<1>3. CASE Unchanged(q)  BY <1>3, UnchangedKeeps
<1>. QED  BY <1>1, <1>2, <1>3, Zenon DEF StateNormal

LEMMA InvisibleKeeps ==
  ASSUME NEW q, Prepared(q), NEW w \in Managed, Stay, StateInvisible(w, q)
  PROVE  IInv'
<1>1. CASE /\ Hidden({w}) /\ queue' = q \o Unmaps({w}) /\ SetState({w}, "Invisible", 1)
           /\ SetWMState({w}, "Iconic")
  <2>1. {w} \subseteq Managed  OBVIOUS
  <2>. QED  BY <1>1, <2>1, HidingKeeps
<1>2. CASE /\ client[w].state = "Iconic" /\ queue' = q /\ SetState({w}, "Invisible", 0)
           /\ SetWMState({w}, "Iconic") /\ UNCHANGED mapped
  BY <1>2, RelabellingKeeps
<1>3. CASE Unchanged(q)  BY <1>3, UnchangedKeeps
<1>. QED  BY <1>1, <1>2, <1>3, Zenon DEF StateInvisible

(* A window is let go that is not shown (StateWithdrawn).                  *)
LEMMA WithdrawnKeeps ==
  ASSUME IInv, queue # <<>>, NEW w \in Managed, Head(queue).win = w, asked[w] # "shown",
         Stay, StateWithdrawn(w, Tail(queue))
  PROVE  IInv'
<1>1. PICK q \in Seq(Events) : q = queue  BY DEF IInv, Typed
<1>2. Typed /\ w \in Windows /\ client[w] \in Client /\ q # <<>> /\ Tail(q) \in Seq(Events)
  BY <1>1, ManagedClient DEF IInv, Managed
<1>3. asked' = asked /\ telling' = telling /\ existing' = existing /\ hints' = hints /\ wmState' = wmState
      /\ queue' = Orphaned(w, Tail(q)) /\ client' = [client EXCEPT ![w] = Gone]
      /\ mapped' = [mapped EXCEPT ![w] = mapped[w] /\ client[w].state # "Normal"]
  BY <1>1 DEF Stay, StateWithdrawn
<1>4. Orphaned(w, Tail(q)) \in Seq(Events)  BY <1>2, OrphanFacts
<1>5. Typed'
  <2>1. client' \in [Windows -> Client \cup {Gone}]  BY <1>2, <1>3 DEF Typed
  <2>2. mapped' \in [Windows -> BOOLEAN]  BY <1>2, <1>3 DEF Typed
  <2>. QED  BY <1>2, <1>3, <1>4, <2>1, <2>2 DEF Typed
<1>6. /\ client'[w] = Gone /\ (mapped'[w] => mapped[w] /\ client[w].state # "Normal")
      /\ \A x \in Windows \ {w} : client'[x] = client[x] /\ mapped'[x] = mapped[x]
  BY <1>2, <1>3 DEF Typed
<1>7. GoodNow(w)'
  <2>1. Good(w, q, client[w], mapped[w], wmState[w], asked[w], telling[w], ToLook(w))
    BY <1>1, <1>2 DEF IInv, GoodNow
  <2>2. PICK n : n = mapped'[w]  OBVIOUS
  <2>3. n => mapped[w] /\ client[w].state # "Normal"  BY <1>6, <2>2
  <2>4. Good(w, Orphaned(w, Tail(q)), Gone, n, wmState[w], asked[w], telling[w], ToLook(w))
    BY <1>2, <2>1, <2>3, GoodGone
  <2>. QED  BY <1>3, <1>6, <2>2, <2>4 DEF GoodNow, ToLook
<1>8. ASSUME NEW x \in Windows \ {w}  PROVE  GoodNow(x)'
  <2>1. Good(x, q, client[x], mapped[x], wmState[x], asked[x], telling[x], ToLook(x))
    BY <1>1, <1>8 DEF IInv, GoodNow
  <2>2. ~Asks(Head(q), x) /\ ~Tells(Head(q), x) /\ ~Ends(Head(q), x)  BY <1>1, <1>8 DEF Asks, Tells, Ends
  <2>3. client[x] \in Client \cup {Gone}  BY <1>2, <1>8 DEF Typed
  <2>4. Good(x, Tail(q), client[x], mapped[x], wmState[x], asked[x], telling[x], ToLook(x))
    BY <1>2, <1>8, <2>1, <2>2, <2>3, GoodDequeued
  <2>5. Good(x, Orphaned(w, Tail(q)), client[x], mapped[x], wmState[x], asked[x], telling[x], ToLook(x))
    BY <1>2, <1>8, <2>4, GoodLeft
  <2>. QED  BY <1>3, <1>6, <1>8, <2>5 DEF GoodNow, ToLook
<1>. QED  BY <1>5, <1>7, <1>8 DEF IInv

-----------------------------------------------------------------------------
(* A window gets a Client (StateNew).                                      *)

LEMMA GroupFacts ==
  ASSUME Typed, NEW w \in Windows
  PROVE  /\ GroupOf(w) \in Windows /\ RoleOf(w) \in Role
         /\ \A found \in BOOLEAN : Initial(w, found) \in {"Normal", "Iconic"}
         /\ Promoted(w) \in [Windows -> Client \cup {Gone}]
         /\ \A x \in Windows : \/ Promoted(w)[x] = client[x]
                               \/ /\ client[x] \in Client /\ Promoted(w)[x] \in Client
                                  /\ Promoted(w)[x].state = client[x].state
                                  /\ Promoted(w)[x].pending = client[x].pending
<1>1. hints \in [Windows -> Hint]  BY StatesAssumption DEF Typed
<1>2. hints[w].transientFor \in Windows \cup {None} /\ hints[w].group \in Windows \cup {None}
  BY <1>1 DEF Hint
<1>3. \A x \in Windows : IsManaged(x) => client[x].group \in Windows  BY ManagedClient DEF Client
<1>4. \A x \in Windows : Via(x) \in Windows  BY <1>3 DEF Via
<1>5. Named(w) \in Windows  BY <1>2, <1>4 DEF Named
<1>6. GroupOf(w) \in Windows  BY <1>3, <1>5 DEF GroupOf
<1>7. RoleOf(w) \in Role  BY DEF RoleOf, Role
<1>8. \A found \in BOOLEAN : Initial(w, found) \in {"Normal", "Iconic"}
  <2>1. wmState[w] \in {"none", "Normal", "Iconic"}  BY DEF Typed
  <2>. QED  BY <2>1 DEF Initial
<1>9. ASSUME NEW x \in Windows
      PROVE  /\ Promoted(w)[x] \in Client \cup {Gone}
             /\ \/ Promoted(w)[x] = client[x]
                \/ /\ client[x] \in Client /\ Promoted(w)[x] \in Client
                   /\ Promoted(w)[x].state = client[x].state
                   /\ Promoted(w)[x].pending = client[x].pending
  <2>1. client[x] \in Client \cup {Gone}  BY DEF Typed
  <2>2. CASE RoleOf(w) = "DEPENDENT" /\ x \in Members(w, "DEPENDENT")
    <3>1. client[x] \in Client  BY <2>2, ManagedClient DEF Members, Managed
    <3>2. PICK g \in Windows, c \in Client : g = GroupOf(w) /\ c = client[x]  BY <1>6, <3>1
    <3>3. Promoted(w)[x] = [c EXCEPT !.group = g]  BY <2>2, <3>2, Zenon DEF Promoted
    <3>4. PICK d : d = [c EXCEPT !.group = g]  OBVIOUS
    <3>5. d \in Client /\ d.state = c.state /\ d.pending = c.pending  BY <3>4 DEF Client
    <3>. QED  BY <3>2, <3>3, <3>4, <3>5
  <2>3. CASE ~(RoleOf(w) = "DEPENDENT" /\ x \in Members(w, "DEPENDENT"))
    BY <2>1, <2>3 DEF Promoted
  <2>. QED  BY <2>2, <2>3
<1>10. Promoted(w) = [x \in Windows |-> Promoted(w)[x]]
  BY DEF Promoted, Typed
<1>. QED  BY <1>6, <1>7, <1>8, <1>9, <1>10

(* The Client is made, and what StateNew does to the windows.              *)
Creates(w, found, q) ==
  /\ client' = [Promoted(w) EXCEPT ![w] = [state |-> Initial(w, found), role |-> RoleOf(w),
                                            group |-> GroupOf(w), pending |-> Expected(w, found)]]
  /\ wmState' = [wmState EXCEPT ![w] = Initial(w, found)]
  /\ mapped' = [mapped EXCEPT ![w] = Initial(w, found) = "Normal"]
  /\ queue' = q \o Unmaps({w}) \o (IF Initial(w, found) = "Iconic" THEN Unmaps({w}) ELSE <<>>)

Made(w, found, q, d, u) ==
  /\ queue' = q \o u
  /\ client' \in [Windows -> Client \cup {Gone}] /\ client'[w] = d /\ d.state \in {"Normal", "Iconic"}
  /\ d.pending = (IF d.state = "Iconic" THEN 1 ELSE 0) + (IF found THEN 1 ELSE 0)
  /\ mapped' \in [Windows -> BOOLEAN] /\ mapped'[w] = (d.state = "Normal")
  /\ wmState' \in [Windows -> {"none", "Normal", "Iconic"}] /\ wmState'[w] = d.state
  /\ \A x \in Windows, i \in DOMAIN u : ~Asks(u[i], x) /\ ~Lets(u[i], x) /\ (x # w => ~Stirs(u[i], x))
  /\ ~mapped[w] => \A i \in DOMAIN u : ~Stirs(u[i], w)
  /\ Count(u, OwnUnmap(w)) <= IF d.state = "Iconic" THEN 2 ELSE 1
  /\ \A x \in Windows \ {w} :
       /\ mapped'[x] = mapped[x] /\ wmState'[x] = wmState[x]
       /\ \/ client'[x] = client[x]
          \/ /\ client[x] \in Client /\ client'[x] \in Client
             /\ client'[x].state = client[x].state /\ client'[x].pending = client[x].pending

LEMMA CreatesOne ==
  ASSUME Typed, NEW w \in Windows, NEW found \in BOOLEAN, NEW q \in Seq(Events), Creates(w, found, q)
  PROVE  \E d \in Client, u \in Seq(Events) : Made(w, found, q, d, u)
<1>1. PICK g, o, st, n : g = GroupOf(w) /\ o = RoleOf(w) /\ st = Initial(w, found) /\ n = Expected(w, found)
  OBVIOUS
<1>2. g \in Windows /\ o \in Role /\ st \in {"Normal", "Iconic"}  BY <1>1, GroupFacts
<1>3. n = (IF st = "Iconic" THEN 1 ELSE 0) + (IF found THEN 1 ELSE 0) /\ n \in Nat
  BY <1>1, <1>2 DEF Expected
<1>4. PICK d : d = [state |-> st, role |-> o, group |-> g, pending |-> n]  OBVIOUS
<1>5. d \in Client /\ d.state = st /\ d.pending = n  BY <1>2, <1>3, <1>4 DEF Client, State
<1>6. client' = [Promoted(w) EXCEPT ![w] = d]  BY <1>1, <1>4, Zenon DEF Creates
<1>7. PICK v \in Seq(Events) : v = Unmaps({w})  BY UnmapsOnce
<1>8. PICK z : z = IF st = "Iconic" THEN v ELSE <<>>  OBVIOUS
<1>9. z \in Seq(Events)  BY <1>8
<1>10. queue' = (q \o v) \o z  BY <1>1, <1>7, <1>8, Zenon DEF Creates
<1>11. PICK u : u = v \o z  OBVIOUS
<1>12. u \in Seq(Events)  BY <1>11, <1>9
<1>13. queue' = q \o u
  <2>1. (q \o v) \o z = q \o (v \o z)  BY <1>9
  <2>. QED  BY <1>10, <1>11, <2>1
<1>14. \A x \in Windows : /\ \A i \in DOMAIN v : ~Asks(v[i], x) /\ ~Lets(v[i], x)
                          /\ Count(v, OwnUnmap(x)) <= 1
                          /\ x # w \/ ~mapped[x] => \A i \in DOMAIN v : ~Stirs(v[i], x)
  BY <1>7, UnmapsOf
<1>15. \A i \in DOMAIN u : \E j \in DOMAIN v : u[i] = v[j]
  <2>1. ASSUME NEW i \in DOMAIN u  PROVE  \E j \in DOMAIN v : u[i] = v[j]
    <3>1. CASE i <= Len(v)  BY <1>11, <1>9, <2>1, <3>1
    <3>2. CASE i > Len(v)
      <4>1. i - Len(v) \in DOMAIN z /\ u[i] = z[i - Len(v)]  BY <1>11, <1>9, <2>1, <3>2
      <4>2. z = v  BY <1>8, <4>1
      <4>. QED  BY <4>1, <4>2
    <3>. QED  BY <1>12, <2>1, <3>1, <3>2
  <2>. QED  BY <2>1
<1>16. Count(u, OwnUnmap(w)) <= IF st = "Iconic" THEN 2 ELSE 1
  <2>1. Count(u, OwnUnmap(w)) = Count(v, OwnUnmap(w)) + Count(z, OwnUnmap(w))  BY <1>11, <1>9, CountConcat, Zenon
  <2>2. Count(v, OwnUnmap(w)) \in Nat /\ Count(z, OwnUnmap(w)) \in Nat /\ Count(v, OwnUnmap(w)) <= 1
    BY <1>14, <1>9, CountNat, Zenon
  <2>3. st = "Iconic" => z = v  BY <1>8
  <2>4. st # "Iconic" => Count(z, OwnUnmap(w)) = 0
    <3>1. st # "Iconic" => \A i \in DOMAIN z : z[i] # OwnUnmap(w)  BY <1>8
    <3>. QED  BY <1>9, <3>1, CountNat, Zenon
  <2>. QED  BY <2>1, <2>2, <2>3, <2>4
<1>17. /\ wmState' = [wmState EXCEPT ![w] = st] /\ mapped' = [mapped EXCEPT ![w] = (st = "Normal")]
  BY <1>1, Zenon DEF Creates
<1>18. /\ wmState' \in [Windows -> {"none", "Normal", "Iconic"}] /\ wmState'[w] = st
       /\ mapped' \in [Windows -> BOOLEAN] /\ mapped'[w] = (st = "Normal")
       /\ \A x \in Windows \ {w} : mapped'[x] = mapped[x] /\ wmState'[x] = wmState[x]
  BY <1>2, <1>17 DEF Typed
<1>19. /\ client' \in [Windows -> Client \cup {Gone}] /\ client'[w] = d
       /\ \A x \in Windows \ {w} : client'[x] = Promoted(w)[x]
  BY <1>5, <1>6, GroupFacts
<1>20. \A x \in Windows \ {w} :
         \/ client'[x] = client[x]
         \/ /\ client[x] \in Client /\ client'[x] \in Client
            /\ client'[x].state = client[x].state /\ client'[x].pending = client[x].pending
  BY <1>19, GroupFacts
<1>21. \A x \in Windows, i \in DOMAIN u : ~Asks(u[i], x) /\ ~Lets(u[i], x) /\ (x # w => ~Stirs(u[i], x))
  BY <1>14, <1>15
<1>22. ~mapped[w] => \A i \in DOMAIN u : ~Stirs(u[i], w)  BY <1>14, <1>15
<1>23. Made(w, found, q, d, u)
  BY <1>2, <1>3, <1>5, <1>13, <1>16, <1>18, <1>19, <1>20, <1>21, <1>22 DEF Made
<1>. QED  BY <1>5, <1>12, <1>23

(* The other windows, whatever becomes of the one that is new.             *)
LEMMA OthersKept ==
  ASSUME Typed, NEW q \in Seq(Events), NEW w \in Windows, NEW found, NEW d \in Client, NEW u \in Seq(Events),
         Made(w, found, q, d, u), \A x \in Windows \ {w} : Ready(x, q),
         hints' = hints, asked' = asked, telling' = telling, existing' \in Seq(Windows), IsInjective(existing'),
         \A x \in Windows \ {w} : ToLook(x)' = ToLook(x), GoodNow(w)'
  PROVE  IInv'
<1>1. Typed'
  <2>1. queue' \in Seq(Events)  BY DEF Made
  <2>2. /\ client' \in [Windows -> Client \cup {Gone}] /\ mapped' \in [Windows -> BOOLEAN]
        /\ wmState' \in [Windows -> {"none", "Normal", "Iconic"}]
    BY Zenon DEF Made
  <2>. QED  BY <2>1, <2>2 DEF Typed
<1>2. ASSUME NEW x \in Windows \ {w}  PROVE  GoodNow(x)'
  <2>1. Good(x, q, client[x], mapped[x], wmState[x], asked[x], telling[x], ToLook(x))  BY <1>2 DEF Ready
  <2>2. /\ queue' = q \o u /\ mapped'[x] = mapped[x] /\ wmState'[x] = wmState[x]
        /\ \/ client'[x] = client[x]
           \/ /\ client[x] \in Client /\ client'[x] \in Client
              /\ client'[x].state = client[x].state /\ client'[x].pending = client[x].pending
        /\ \A i \in DOMAIN u : ~Asks(u[i], x) /\ ~Stirs(u[i], x)
    BY <1>2, Zenon DEF Made
  <2>3. Good(x, q \o u, client[x], mapped[x], wmState[x], asked[x], telling[x], ToLook(x))
    BY <1>2, <2>1, <2>2, GoodAppended
  <2>4. Good(x, q \o u, client'[x], mapped[x], wmState[x], asked[x], telling[x], ToLook(x))
    BY <1>2, <2>2, <2>3, GoodPromoted
  <2>. QED  BY <1>2, <2>2, <2>4 DEF GoodNow
<1>. QED  BY <1>1, <1>2 DEF IInv

LEMMA NewKeeps ==
  ASSUME IInv, existing = <<>>, queue # <<>>, NEW w \in Windows, Asks(Head(queue), w), ~IsManaged(w),
         asked[w] # "destroyed", Stay, Creates(w, FALSE, Tail(queue))
  PROVE  IInv'
<1>1. PICK q \in Seq(Events) : q = queue  BY DEF IInv, Typed
<1>2. Typed /\ q # <<>> /\ Tail(q) \in Seq(Events) /\ Asks(Head(q), w)  BY <1>1 DEF IInv
<1>3. PICK d \in Client, u \in Seq(Events) : Made(w, FALSE, Tail(q), d, u)
  BY <1>1, <1>2, CreatesOne
<1>4. hints' = hints /\ asked' = asked /\ telling' = telling /\ existing' = existing  BY DEF Stay
<1>5. \A x \in Windows : ~ToLook(x) /\ ToLook(x)' = ToLook(x)  BY <1>4 DEF ToLook, ToSet
<1>6. GoodNow(w)'
  <2>1. Good(w, q, client[w], mapped[w], wmState[w], asked[w], telling[w], ToLook(w))
    BY <1>1 DEF IInv, GoodNow
  <2>2. client[w] = Gone /\ ToLook(w) = FALSE  BY <1>5 DEF IsManaged, ToLook
  <2>3. mapped[w] = FALSE
    <3>1. ~mapped[w]  BY <2>1, <2>2 DEF Good, Found
    <3>. QED  BY <1>2, <3>1 DEF Typed
  <2>4. Good(w, q, Gone, FALSE, wmState[w], asked[w], telling[w], FALSE)  BY <2>1, <2>2, <2>3, Zenon
  <2>5. /\ queue' = Tail(q) \o u /\ client'[w] = d /\ d.state \in {"Normal", "Iconic"}
        /\ mapped'[w] = (d.state = "Normal") /\ wmState'[w] = d.state
        /\ \A i \in DOMAIN u : ~Asks(u[i], w)
    BY <1>3, Zenon DEF Made
  <2>6. \A i \in DOMAIN u : ~Stirs(u[i], w)  BY <1>3, <2>3 DEF Made
  <2>7. Good(w, Tail(q), d, d.state = "Normal", d.state, asked[w], telling[w], FALSE)
    BY <1>2, <2>4, <2>5, GoodNew
  <2>8. Good(w, Tail(q) \o u, d, d.state = "Normal", d.state, asked[w], telling[w], FALSE)
    BY <1>2, <2>5, <2>6, <2>7, GoodAppended
  <2>9. ToLook(w)' = FALSE  BY <1>5, <2>2
  <2>. QED  BY <1>4, <2>5, <2>8, <2>9, Zenon DEF GoodNow
<1>7. \A x \in Windows \ {w} : Ready(x, Tail(q))
  <2>1. ASSUME NEW x \in Windows \ {w}  PROVE  Ready(x, Tail(q))
    <3>1. Good(x, q, client[x], mapped[x], wmState[x], asked[x], telling[x], ToLook(x))
      BY <1>1, <2>1 DEF IInv, GoodNow
    <3>2. ~Asks(Head(q), x) /\ ~Tells(Head(q), x) /\ ~Ends(Head(q), x)  BY <1>2, <2>1 DEF Asks, Tells, Ends
    <3>3. client[x] \in Client \cup {Gone}  BY <1>2, <2>1 DEF Typed
    <3>. QED  BY <1>2, <2>1, <3>1, <3>2, <3>3, GoodDequeued DEF Ready
  <2>. QED  BY <2>1
<1>8. existing' \in Seq(Windows) /\ IsInjective(existing')  BY <1>2, <1>4 DEF Typed
<1>. QED  BY <1>2, <1>3, <1>4, <1>5, <1>6, <1>7, <1>8, OthersKept

LEMMA ReparentKeeps ==
  ASSUME IInv, ReparentTree
  PROVE  IInv'
<1>1. PICK q \in Seq(Events) : q = queue  BY DEF IInv, Typed
<1>2. PICK w \in Windows : w = Head(existing)  BY DEF ReparentTree, IInv, Typed
<1>3. /\ Typed /\ existing # <<>> /\ existing' = Tail(existing) /\ hints' = hints /\ asked' = asked
      /\ telling' = telling /\ StateNew(w, TRUE, q)
  BY <1>1, <1>2 DEF ReparentTree, IInv, clientVars
<1>4. existing \in Seq(Windows) /\ IsInjective(existing)  BY <1>3 DEF Typed
<1>5. /\ existing' \in Seq(Windows) /\ IsInjective(existing')
      /\ ToLook(w) = TRUE /\ ToLook(w)' = FALSE /\ \A x \in Windows \ {w} : ToLook(x)' = ToLook(x)
  <2>1. PICK e \in Seq(Windows) : e = existing  BY <1>4
  <2>2. /\ DOMAIN e = 1..Len(e) /\ Len(e) \in Nat /\ e # <<>> /\ Len(e) > 0 /\ e[1] = w
        /\ Tail(e) \in Seq(Windows) /\ DOMAIN Tail(e) = 1..Len(e) - 1
        /\ \A i \in DOMAIN Tail(e) : Tail(e)[i] = e[i + 1] /\ i + 1 \in DOMAIN e /\ i + 1 # 1
        /\ \A i \in DOMAIN e : i # 1 => i - 1 \in DOMAIN Tail(e) /\ Tail(e)[i - 1] = e[i]
    BY <1>2, <1>3, <2>1
  <2>3. \A i, j \in DOMAIN e : e[i] = e[j] => i = j  BY <1>4, <2>1 DEF IsInjective
  <2>4. IsInjective(Tail(e))
    <3>1. ASSUME NEW i \in DOMAIN Tail(e), NEW j \in DOMAIN Tail(e), Tail(e)[i] = Tail(e)[j]  PROVE  i = j
      <4>1. i + 1 = j + 1  BY <2>2, <2>3, <3>1
      <4>. QED  BY <2>2, <4>1
    <3>. QED  BY <3>1 DEF IsInjective
  <2>5. w \in ToSet(e) /\ w \notin ToSet(Tail(e))
    <3>1. \A i \in DOMAIN Tail(e) : Tail(e)[i] # w  BY <2>2, <2>3
    <3>2. 1 \in DOMAIN e  BY <2>2
    <3>. QED  BY <2>2, <3>1, <3>2 DEF ToSet
  <2>6. ASSUME NEW x \in Windows \ {w}  PROVE  x \in ToSet(Tail(e)) <=> x \in ToSet(e)
    <3>1. ASSUME NEW i \in DOMAIN Tail(e), Tail(e)[i] = x  PROVE  \E j \in DOMAIN e : e[j] = x  BY <2>2, <3>1
    <3>2. ASSUME NEW i \in DOMAIN e, e[i] = x  PROVE  \E j \in DOMAIN Tail(e) : Tail(e)[j] = x
      <4>1. i # 1  BY <2>2, <2>6, <3>2
      <4>. QED  BY <2>2, <3>2, <4>1
    <3>. QED  BY <3>1, <3>2 DEF ToSet
  <2>. QED  BY <1>3, <2>1, <2>2, <2>4, <2>5, <2>6 DEF ToLook
<1>6. \A x \in Windows : Good(x, q, client[x], mapped[x], wmState[x], asked[x], telling[x], ToLook(x))
  BY <1>1 DEF IInv, GoodNow
<1>7. client[w] = Gone  BY <1>5, <1>6 DEF Good
<1>8. CASE Creates(w, TRUE, q) /\ mapped[w]
  <2>1. mapped[w] = TRUE /\ TRUE \in BOOLEAN  BY <1>3, <1>8 DEF Typed
  <2>2. PICK d \in Client, u \in Seq(Events) : Made(w, TRUE, q, d, u)  BY <1>3, <1>8, CreatesOne
  <2>3. /\ queue' = q \o u /\ client'[w] = d /\ d.state \in {"Normal", "Iconic"}
        /\ mapped'[w] = (d.state = "Normal") /\ wmState'[w] = d.state
        /\ \A i \in DOMAIN u : ~Asks(u[i], w) /\ ~Lets(u[i], w)
    BY <2>2, Zenon DEF Made
  <2>4. Count(u, OwnUnmap(w)) <= d.pending
    <3>1. Count(u, OwnUnmap(w)) \in Nat  BY CountNat, Zenon
    <3>2. /\ d.pending = (IF d.state = "Iconic" THEN 1 ELSE 0) + 1
          /\ Count(u, OwnUnmap(w)) <= IF d.state = "Iconic" THEN 2 ELSE 1
      BY <2>2 DEF Made
    <3>. QED  BY <3>1, <3>2
  <2>5. Good(w, q, Gone, TRUE, wmState[w], asked[w], telling[w], ToLook(w))  BY <1>6, <1>7, <2>1
  <2>6. Good(w, q \o u, d, d.state = "Normal", d.state, asked[w], telling[w], FALSE)
    BY <2>3, <2>4, <2>5, GoodFound
  <2>7. GoodNow(w)'  BY <1>3, <1>5, <2>3, <2>6, Zenon DEF GoodNow
  <2>8. \A x \in Windows \ {w} : Ready(x, q)  BY <1>6 DEF Ready
  <2>. QED  BY <1>3, <1>5, <2>2, <2>7, <2>8, OthersKept
<1>9. CASE Unchanged(q) /\ (IsManaged(w) \/ asked[w] = "destroyed" \/ ~mapped[w])
  <2>1. /\ queue' = q /\ mapped' = mapped /\ wmState' = wmState /\ client' = client  BY <1>9 DEF Unchanged
  <2>2. Typed'  BY <1>1, <1>3, <1>5, <2>1 DEF Typed
  <2>3. ~mapped[w]  BY <1>6, <1>7, <1>9 DEF IsManaged, Good, Found
  <2>4. Good(w, q, Gone, mapped[w], wmState[w], asked[w], telling[w], FALSE)
    <3>1. Good(w, q, Gone, mapped[w], wmState[w], asked[w], telling[w], ToLook(w))  BY <1>6, <1>7
    <3>. QED  BY <2>3, <3>1 DEF Good, Shows
  <2>5. GoodNow(w)'  BY <1>3, <1>5, <1>7, <2>1, <2>4 DEF GoodNow
  <2>6. ASSUME NEW x \in Windows \ {w}  PROVE  GoodNow(x)'  BY <1>3, <1>5, <1>6, <2>1, <2>6 DEF GoodNow
  <2>. QED  BY <2>2, <2>5, <2>6 DEF IInv
<1>. QED  BY <1>3, <1>8, <1>9, Zenon DEF StateNew, Creates

-----------------------------------------------------------------------------
(* olwm handles an event.                                                  *)

LEMMA RestPrepared ==
  ASSUME IInv, queue # <<>>,
         \A w \in Windows : /\ Asks(Head(queue), w) => IsManaged(w) \/ asked[w] # "shown"
                            /\ Tells(Head(queue), w) \/ Ends(Head(queue), w) => ~IsManaged(w)
  PROVE  Prepared(Tail(queue))
<1>1. PICK q \in Seq(Events) : q = queue  BY DEF IInv, Typed
<1>2. Typed /\ q # <<>> /\ Tail(q) \in Seq(Events)  BY <1>1 DEF IInv
<1>3. ASSUME NEW w \in Windows  PROVE  Ready(w, Tail(q))
  <2>1. Good(w, q, client[w], mapped[w], wmState[w], asked[w], telling[w], ToLook(w))
    BY <1>1 DEF IInv, GoodNow
  <2>2. client[w] \in Client \cup {Gone}  BY <1>2 DEF Typed
  <2>3. /\ Asks(Head(q), w) => client[w] # Gone \/ asked[w] # "shown"
        /\ Tells(Head(q), w) \/ Ends(Head(q), w) => client[w] = Gone
    BY <1>1 DEF IsManaged
  <2>. QED  BY <1>2, <2>1, <2>2, <2>3, GoodDequeued DEF Ready
<1>. QED  BY <1>1, <1>2, <1>3 DEF Prepared

LEMMA HeadFacts ==
  ASSUME Typed, queue # <<>>
  PROVE  /\ Head(queue) \in Events /\ 1 \in DOMAIN queue /\ queue[1] = Head(queue)
         /\ Head(queue).type \notin {"ShowAll", "Orphan"} => Head(queue).win \in Windows
         /\ Head(queue).type \notin {"MapRequest", "Synthetic", "DestroyNotify"} =>
              \A w \in Windows : ~Asks(Head(queue), w) /\ ~Tells(Head(queue), w) /\ ~Ends(Head(queue), w)
<1>1. Head(queue) \in Events /\ 1 \in DOMAIN queue /\ queue[1] = Head(queue)  BY DEF Typed
<1>. QED  BY <1>1 DEF Events, Asks, Tells, Ends

(* The events that only lead to a transition of their window.              *)
LEMMA PlainKeeps ==
  ASSUME IInv, OnChangeState \/ OnToggle \/ OnOpen \/ OnHide \/ OnShowAll \/ OnOrphan
  PROVE  IInv'
<1>1. PICK w, q : w = Win /\ q = Rest  OBVIOUS
<1>2. /\ queue # <<>> /\ Stay /\ Typed
      /\ Head(queue).type \in {"ChangeState", "Toggle", "Open", "Hide", "ShowAll", "Orphan"}
  BY DEF OnChangeState, OnToggle, OnOpen, OnHide, OnShowAll, OnOrphan, Next1, Quiet, clientVars, Stay, IInv
<1>3. Prepared(q)
  <2>1. \A x \in Windows : ~Asks(Head(queue), x) /\ ~Tells(Head(queue), x) /\ ~Ends(Head(queue), x)
    BY <1>2, HeadFacts
  <2>. QED  BY <1>1, <1>2, <2>1, RestPrepared DEF Rest
<1>4. Head(queue).type \notin {"ShowAll", "Orphan"} => w \in Windows  BY <1>1, <1>2, HeadFacts DEF Win
<1>5. ASSUME w \in Windows  PROVE  client[w].state \in State => w \in Managed
  BY <1>5 DEF Managed, IsManaged, Gone, State
<1>6. CASE OnChangeState
  <2>1. w \in Windows  BY <1>4, <1>6 DEF OnChangeState, Next1
  <2>2. CASE IsManaged(w) /\ StateIconic(w, q)  BY <1>2, <1>3, <2>1, <2>2, IconicKeeps DEF Managed
  <2>3. CASE Unchanged(q)  BY <1>2, <1>3, <2>3, UnchangedKeeps
  <2>. QED  BY <1>1, <1>6, <2>2, <2>3 DEF OnChangeState
<1>7. CASE OnToggle
  <2>1. w \in Windows  BY <1>4, <1>7 DEF OnToggle, Next1
  <2>2. CASE client[w].state = "Normal" /\ StateIconic(w, q)
    BY <1>2, <1>3, <1>5, <2>1, <2>2, IconicKeeps DEF State
  <2>3. CASE client[w].state = "Iconic" /\ StateNormal(w, q)
    BY <1>2, <1>3, <1>5, <2>1, <2>3, NormalKeeps DEF State
  <2>4. CASE Unchanged(q)  BY <1>2, <1>3, <2>4, UnchangedKeeps
  <2>. QED  BY <1>1, <1>7, <2>2, <2>3, <2>4 DEF OnToggle
<1>8. CASE OnOpen
  <2>1. w \in Windows /\ StateNormal(w, q)  BY <1>1, <1>4, <1>8 DEF OnOpen, Next1
  <2>2. client[w].state \in State  BY <2>1 DEF StateNormal, State
  <2>. QED  BY <1>2, <1>3, <1>5, <2>1, <2>2, NormalKeeps
<1>9. CASE OnHide
  <2>1. w \in Windows /\ StateInvisible(w, q)  BY <1>1, <1>4, <1>9 DEF OnHide, Next1
  <2>2. client[w].state \in State  BY <2>1 DEF StateInvisible, State
  <2>. QED  BY <1>2, <1>3, <1>5, <2>1, <2>2, InvisibleKeeps
<1>10. CASE OnShowAll
  <2>1. PICK ws : ws = {x \in Managed : client[x].state = "Invisible"}  OBVIOUS
  <2>2. ws \subseteq Managed /\ Deiconify(ws, q)  BY <1>1, <1>10, <2>1 DEF OnShowAll
  <2>. QED  BY <1>2, <1>3, <2>2, ShowingKeeps
<1>11. CASE OnOrphan
  <2>1. Unchanged(q)  BY <1>1, <1>11 DEF OnOrphan
  <2>. QED  BY <1>2, <1>3, <2>1, UnchangedKeeps
<1>. QED  BY <1>6, <1>7, <1>8, <1>9, <1>10, <1>11

LEMMA MapRequestKeeps ==
  ASSUME IInv, OnMapRequest
  PROVE  IInv'
<1>1. PICK w, q : w = Win /\ q = Rest  OBVIOUS
<1>2. queue # <<>> /\ Stay /\ Typed /\ Head(queue).type = "MapRequest" /\ existing = <<>>
  BY DEF OnMapRequest, Next1, Quiet, clientVars, Stay, IInv
<1>3. w \in Windows /\ Asks(Head(queue), w)  BY <1>1, <1>2, HeadFacts DEF Win, Asks
<1>4. \A x \in Windows : /\ Asks(Head(queue), x) => x = w
                         /\ ~Tells(Head(queue), x) /\ ~Ends(Head(queue), x)
  BY <1>1, <1>2 DEF Asks, Tells, Ends, Win
<1>5. IsManaged(w) \/ asked[w] # "shown" => Prepared(q)  BY <1>1, <1>2, <1>4, RestPrepared DEF Rest
<1>6. CASE Head(queue).on = "root" /\ StateNew(w, FALSE, q)
  <2>1. CASE ~IsManaged(w) /\ asked[w] # "destroyed" /\ Creates(w, FALSE, q)
    BY <1>1, <1>2, <1>3, <2>1, NewKeeps DEF Rest
  <2>2. CASE (IsManaged(w) \/ asked[w] = "destroyed") /\ Unchanged(q)
    BY <1>2, <1>5, <2>2, UnchangedKeeps
  <2>. QED  BY <1>6, <2>1, <2>2, Zenon DEF StateNew, Creates
<1>7. CASE Head(queue).on = "frame" /\ IF client[w].state = "Iconic" THEN StateNormal(w, q) ELSE Unchanged(q)
  <2>1. \A i \in DOMAIN queue : Asks(queue[i], w) /\ queue[i].on = "frame" => client[w] # Gone
    BY <1>3 DEF IInv, GoodNow, Good
  <2>2. w \in Managed  BY <1>2, <1>3, <1>7, <2>1, HeadFacts DEF Managed, IsManaged
  <2>3. Prepared(q)  BY <1>5, <2>2 DEF Managed
  <2>. QED  BY <1>2, <1>7, <2>2, <2>3, NormalKeeps, UnchangedKeeps
<1>. QED  BY <1>1, <1>6, <1>7, Zenon DEF OnMapRequest

LEMMA UnmapNotifyKeeps ==
  ASSUME IInv, OnUnmapNotify
  PROVE  IInv'
<1>1. PICK w : w = Win  OBVIOUS
<1>2. PICK q \in Seq(Events) : q = queue  BY DEF IInv, Typed
<1>3. q # <<>> /\ Stay /\ Typed /\ Head(queue).type = "UnmapNotify" /\ Head(queue).win = w
  BY <1>1, <1>2 DEF OnUnmapNotify, Next1, Quiet, clientVars, Stay, IInv, Win
<1>4. w \in Windows /\ \A x \in Windows : ~Asks(Head(queue), x) /\ ~Tells(Head(queue), x) /\ ~Ends(Head(queue), x)
  BY <1>2, <1>3, HeadFacts
<1>5. Prepared(Tail(q))  BY <1>2, <1>3, <1>4, RestPrepared
<1>6. Good(w, q, client[w], mapped[w], wmState[w], asked[w], telling[w], ToLook(w))
  BY <1>2, <1>4 DEF IInv, GoodNow
<1>7. CASE /\ IsManaged(w) /\ client[w].pending > 0 /\ client' = [client EXCEPT ![w].pending = @ - 1]
           /\ queue' = Tail(q) /\ UNCHANGED <<mapped, wmState>>
  <2>1. PICK c \in Client : c = client[w]  BY <1>3, <1>4, <1>7, ManagedClient
  <2>2. c.pending \in Nat /\ c.pending > 0  BY <1>7, <2>1 DEF Client
  <2>3. PICK d : d = [c EXCEPT !.pending = c.pending - 1]  OBVIOUS
  <2>4. d \in Client /\ d.state = c.state /\ d.pending = c.pending - 1  BY <2>2, <2>3 DEF Client
  <2>5. client' = [client EXCEPT ![w] = d]  BY <1>7, <2>1, <2>3
  <2>6. Good(w, Tail(q), d, mapped[w], wmState[w], asked[w], telling[w], ToLook(w))
    BY <1>2, <1>3, <1>4, <1>6, <2>1, <2>2, <2>4, GoodExpected
  <2>7. client'[w] = d /\ \A x \in Windows \ {w} : client'[x] = client[x]
    BY <1>3, <1>4, <2>5 DEF Typed
  <2>8. /\ queue' = Tail(q) /\ mapped' = mapped /\ wmState' = wmState
        /\ hints' = hints /\ asked' = asked /\ telling' = telling /\ existing' = existing
    BY <1>3, <1>7 DEF Stay
  <2>9. client' \in [Windows -> Client \cup {Gone}]  BY <1>3, <2>4, <2>5 DEF Typed
  <2>10. Typed'  BY <1>3, <1>5, <2>8, <2>9 DEF Typed, Prepared
  <2>11. GoodNow(w)'  BY <2>6, <2>7, <2>8 DEF GoodNow, ToLook
  <2>12. ASSUME NEW x \in Windows \ {w}  PROVE  GoodNow(x)'
    BY <1>5, <2>7, <2>8, <2>12 DEF GoodNow, ToLook, Prepared, Ready
  <2>. QED  BY <2>10, <2>11, <2>12 DEF IInv
<1>8. CASE IsManaged(w) /\ client[w].pending = 0 /\ StateWithdrawn(w, Tail(q))
  <2>1. asked[w] # "shown"
    <3>1. SUFFICES ASSUME asked[w] = "shown"  PROVE  FALSE  OBVIOUS
    <3>2. Calm(q, w) /\ Count(q, OwnUnmap(w)) <= 0  BY <1>6, <1>8, <3>1 DEF Good, Shows, IsManaged
    <3>3. Head(q) \in Events /\ 1 \in DOMAIN q /\ q[1] = Head(q)  BY <1>3
    <3>4. Stirs(Head(q), w) /\ ~Lets(Head(q), w)  BY <1>2, <1>3, <1>4, <3>2, <3>3, EventFacts DEF Calm
    <3>5. q[1] = OwnUnmap(w)  BY <3>3, <3>4 DEF Stirs
    <3>6. Count(q, OwnUnmap(w)) > 0 /\ Count(q, OwnUnmap(w)) \in Nat  BY <3>3, <3>5, CountNat, Zenon
    <3>. QED  BY <3>2, <3>6
  <2>2. w \in Managed  BY <1>4, <1>8 DEF Managed
  <2>. QED  BY <1>2, <1>3, <1>8, <2>1, <2>2, WithdrawnKeeps
<1>9. CASE Unchanged(Tail(q))  BY <1>3, <1>5, <1>9, UnchangedKeeps
<1>. QED  BY <1>1, <1>2, <1>7, <1>8, <1>9, Zenon DEF OnUnmapNotify, Rest

LEMMA LetGoKeeps ==
  ASSUME IInv, OnSynthetic \/ OnDestroyNotify
  PROVE  IInv'
<1>1. PICK w, q : w = Win /\ q = Rest  OBVIOUS
<1>2. queue # <<>> /\ Stay /\ Typed /\ Head(queue).type \in {"Synthetic", "DestroyNotify"} /\ Head(queue).win = w
  BY <1>1 DEF OnSynthetic, OnDestroyNotify, Next1, Quiet, clientVars, Stay, IInv, Win
<1>3. w \in Windows /\ Head(queue) \in Events /\ 1 \in DOMAIN queue /\ queue[1] = Head(queue)
  BY <1>2, HeadFacts
<1>4. CASE IsManaged(w) /\ StateWithdrawn(w, q)
  <2>1. asked[w] # "shown"
    <3>1. asked[w] = "shown" => \A i \in DOMAIN queue : ~Lets(queue[i], w)
      BY <1>3, <1>4 DEF IInv, GoodNow, Good, Shows, Calm, IsManaged
    <3>2. Lets(queue[1], w)  BY <1>2, <1>3 DEF Lets, Tells, Ends
    <3>. QED  BY <1>3, <3>1, <3>2
  <2>. QED  BY <1>1, <1>2, <1>3, <1>4, <2>1, WithdrawnKeeps DEF Managed, Rest
<1>5. CASE ~IsManaged(w) /\ Unchanged(q)
  <2>1. \A x \in Windows : ~Asks(Head(queue), x) /\ (Tells(Head(queue), x) \/ Ends(Head(queue), x) => x = w)
    BY <1>2 DEF Asks, Tells, Ends
  <2>2. Prepared(q)  BY <1>1, <1>2, <1>5, <2>1, RestPrepared DEF Rest
  <2>. QED  BY <1>2, <1>5, <2>2, UnchangedKeeps
<1>. QED  BY <1>1, <1>4, <1>5, Zenon DEF OnSynthetic, OnDestroyNotify

-----------------------------------------------------------------------------
(* Clients and the user.                                                   *)

LEMMA AppendKeeps ==
  ASSUME IInv, NEW e \in Events, e.type \in {"ChangeState", "Toggle", "Hide", "Open", "ShowAll"},
         queue' = queue \o <<e>>, Stay, mapped' = mapped, wmState' = wmState, client' = client
  PROVE  IInv'
<1>1. PICK q \in Seq(Events) : q = queue  BY DEF IInv, Typed
<1>2. PICK u : u = <<e>>  OBVIOUS
<1>3. u \in Seq(Events) /\ \A i \in DOMAIN u : u[i] = e  BY <1>2
<1>4. \A w \in Windows : ~Asks(e, w) /\ ~Stirs(e, w)  BY EventFacts DEF Asks
<1>5. /\ Typed /\ queue' = q \o u /\ hints' = hints /\ asked' = asked /\ telling' = telling
      /\ existing' = existing
  BY <1>1, <1>2 DEF IInv, Stay
<1>6. Typed'  BY <1>3, <1>5 DEF Typed
<1>7. ASSUME NEW w \in Windows  PROVE  GoodNow(w)'
  <2>1. Good(w, q, client[w], mapped[w], wmState[w], asked[w], telling[w], ToLook(w))
    BY <1>1 DEF IInv, GoodNow
  <2>2. Good(w, q \o u, client[w], mapped[w], wmState[w], asked[w], telling[w], ToLook(w))
    BY <1>3, <1>4, <2>1, GoodAppended
  <2>. QED  BY <1>5, <2>2 DEF GoodNow, ToLook
<1>. QED  BY <1>6, <1>7 DEF IInv

(* A client changes what it does with w and sends events of w.             *)
LEMMA ClientKeeps ==
  ASSUME IInv, NEW w \in Windows, NEW u \in Seq(Events), \A i \in DOMAIN u : u[i].win = w,
         queue' = queue \o u, Others,
         NEW a \in {"withdrawn", "shown", "destroyed"}, asked' = [asked EXCEPT ![w] = a],
         NEW t \in BOOLEAN, telling' = [telling EXCEPT ![w] = t],
         NEW m \in BOOLEAN, mapped' = [mapped EXCEPT ![w] = m],
         Good(w, queue \o u, client[w], m, wmState[w], a, t, ToLook(w))
  PROVE  IInv'
<1>1. PICK q \in Seq(Events) : q = queue  BY DEF IInv, Typed
<1>2. /\ Typed /\ queue' = q \o u /\ hints' = hints /\ existing' = existing
      /\ client' = client /\ wmState' = wmState
  BY <1>1 DEF IInv, Others
<1>3. Typed'  BY <1>2 DEF Typed
<1>4. /\ asked'[w] = a /\ telling'[w] = t /\ mapped'[w] = m
      /\ \A x \in Windows \ {w} : asked'[x] = asked[x] /\ telling'[x] = telling[x] /\ mapped'[x] = mapped[x]
  BY <1>2 DEF Typed
<1>5. GoodNow(w)'  BY <1>1, <1>2, <1>4 DEF GoodNow, ToLook
<1>6. ASSUME NEW x \in Windows \ {w}  PROVE  GoodNow(x)'
  <2>1. Good(x, q, client[x], mapped[x], wmState[x], asked[x], telling[x], ToLook(x))
    BY <1>1, <1>6 DEF IInv, GoodNow
  <2>2. \A i \in DOMAIN u : ~Asks(u[i], x) /\ ~Stirs(u[i], x)  BY <1>6, EventFacts DEF Asks
  <2>3. Good(x, q \o u, client[x], mapped[x], wmState[x], asked[x], telling[x], ToLook(x))
    BY <1>6, <2>1, <2>2, GoodAppended
  <2>. QED  BY <1>2, <1>4, <1>6, <2>3 DEF GoodNow, ToLook
<1>. QED  BY <1>3, <1>5, <1>6 DEF IInv

(* Where the assumption on clients is needed: what is left of the past of  *)
(* a withdrawn window comes before the request.                            *)
LEMMA MapKeeps ==
  ASSUME IInv, WaitsForRoot, NEW w \in Windows, Map(w)
  PROVE  IInv'
<1>1. PICK q \in Seq(Events) : q = queue  BY DEF IInv, Typed
<1>2. PICK e : e = MapRequest(w)  OBVIOUS
<1>3. e \in Events /\ Asks(e, w) /\ e.win = w /\ (e.on = "frame" => IsManaged(w))
  <2>1. PICK b \in Events : b = Event("MapRequest", w)  BY EventFacts DEF Types
  <2>2. b.win = w /\ b.type = "MapRequest"  BY <2>1 DEF Event
  <2>3. PICK f \in {"root", "frame"} : f = IF IsManaged(w) THEN "frame" ELSE "root"  OBVIOUS
  <2>4. e = [b EXCEPT !.on = f]  BY <1>2, <2>1, <2>3, Zenon DEF MapRequest
  <2>. QED  BY <2>2, <2>3, <2>4 DEF Events, Asks
<1>4. PICK u : u = <<e>>  OBVIOUS
<1>5. u \in Seq(Events) /\ \A i \in DOMAIN u : u[i].win = w  BY <1>3, <1>4
<1>6. /\ ~mapped[w] /\ ~telling[w] /\ asked[w] # "destroyed" /\ queue' = q \o u
      /\ asked' = [asked EXCEPT ![w] = "shown"] /\ telling' = telling /\ mapped' = mapped /\ Others
      /\ asked[w] = "withdrawn" => Withdrawn(w)
  BY <1>1, <1>2, <1>4 DEF Map, Send
<1>7. Typed /\ mapped[w] = FALSE /\ telling[w] = FALSE
      /\ telling' = [telling EXCEPT ![w] = FALSE] /\ mapped' = [mapped EXCEPT ![w] = FALSE]
  BY <1>6 DEF IInv, Typed
<1>8. Good(w, q, client[w], FALSE, wmState[w], asked[w], FALSE, ToLook(w))
  BY <1>1, <1>7 DEF IInv, GoodNow
<1>9. client[w] \in Client \cup {Gone} /\ asked[w] \in {"withdrawn", "shown", "destroyed"}  BY <1>7 DEF Typed
<1>10. asked[w] # "shown" => client[w] = Gone /\ \A i \in DOMAIN q : ~Asks(q[i], w)
  BY <1>1, <1>6, <1>9 DEF Withdrawn, IsManaged, Asks
<1>11. Good(w, q \o <<e>>, client[w], FALSE, wmState[w], "shown", FALSE, ToLook(w))
  BY <1>3, <1>8, <1>9, <1>10, GoodAsked DEF IsManaged
<1>12. Good(w, q \o u, client[w], FALSE, wmState[w], "shown", FALSE, ToLook(w))  BY <1>4, <1>11
<1>. QED  BY <1>1, <1>5, <1>6, <1>7, <1>12, ClientKeeps

LEMMA WithdrawKeeps ==
  ASSUME IInv, NEW w \in Windows, Withdraw(w) \/ Destroy(w)
  PROVE  IInv'
<1>1. PICK q \in Seq(Events) : q = queue  BY DEF IInv, Typed
<1>2. PICK n, d : n = Event("UnmapNotify", w) /\ d = Event("DestroyNotify", w)  OBVIOUS
<1>3. n \in Events /\ d \in Events /\ n.win = w /\ d.win = w /\ ~Asks(n, w) /\ ~Asks(d, w) /\ Ends(d, w)
  <2>1. n \in Events /\ d \in Events  BY <1>2, EventFacts DEF Types
  <2>2. n.win = w /\ d.win = w /\ n.type = "UnmapNotify" /\ d.type = "DestroyNotify"  BY <1>2 DEF Event
  <2>. QED  BY <2>1, <2>2 DEF Asks, Ends
<1>4. PICK v : v = IF mapped[w] THEN <<n>> ELSE <<>>  OBVIOUS
<1>5. v = Unmapping(w) /\ v \in Seq(Events) /\ \A i \in DOMAIN v : v[i] = n
  BY <1>2, <1>3, <1>4 DEF Unmapping
<1>6. Typed /\ Good(w, q, client[w], mapped[w], wmState[w], asked[w], telling[w], ToLook(w))
  BY <1>1 DEF IInv, GoodNow
<1>7. CASE Withdraw(w)
  <2>1. PICK u : u = IF IsManaged(w) THEN v ELSE <<>>  OBVIOUS
  <2>2. u \in Seq(Events) /\ \A i \in DOMAIN u : u[i].win = w /\ ~Asks(u[i], w)  BY <1>3, <1>5, <2>1
  <2>3. /\ queue' = q \o u /\ asked' = [asked EXCEPT ![w] = "withdrawn"]
        /\ telling' = [telling EXCEPT ![w] = TRUE] /\ mapped' = [mapped EXCEPT ![w] = FALSE] /\ Others
    BY <1>1, <1>5, <1>7, <2>1 DEF Withdraw, Gives, Send
  <2>4. Good(w, q \o u, client[w], FALSE, wmState[w], "withdrawn", TRUE, ToLook(w))
    BY <1>6, <2>2, GoodWithdrawn
  <2>. QED  BY <1>1, <2>2, <2>3, <2>4, ClientKeeps
<1>8. CASE Destroy(w)
  <2>1. PICK g : g = v \o <<d>>  OBVIOUS
  <2>2. g \in Seq(Events) /\ (\A i \in DOMAIN g : g[i] \in {n, d}) /\ \E i \in DOMAIN g : g[i] = d
    <3>1. /\ v \o <<d>> \in Seq(Events) /\ DOMAIN v = 1..Len(v) /\ Len(v) \in Nat
          /\ DOMAIN (v \o <<d>>) = 1..Len(v) + 1 /\ (v \o <<d>>)[Len(v) + 1] = d
          /\ \A i \in DOMAIN v : i \in DOMAIN (v \o <<d>>) /\ i < Len(v) + 1 /\ (v \o <<d>>)[i] = v[i]
          /\ \A i \in DOMAIN (v \o <<d>>) : i \in DOMAIN v \/ i = Len(v) + 1
      BY <1>3, <1>5, OneMore
    <3>. QED  BY <1>5, <2>1, <3>1
  <2>3. PICK u : u = IF IsManaged(w) THEN g ELSE <<>>  OBVIOUS
  <2>4. u \in Seq(Events) /\ \A i \in DOMAIN u : u[i].win = w /\ ~Asks(u[i], w)  BY <1>3, <2>2, <2>3
  <2>5. client[w] # Gone => \E i \in DOMAIN u : Ends(u[i], w)  BY <1>3, <2>2, <2>3 DEF IsManaged
  <2>6. /\ queue' = q \o u /\ asked' = [asked EXCEPT ![w] = "destroyed"]
        /\ telling' = telling /\ mapped' = [mapped EXCEPT ![w] = FALSE] /\ Others
    BY <1>1, <1>2, <1>5, <1>8, <2>1, <2>3 DEF Destroy, Gives, Send
  <2>7. PICK t \in BOOLEAN : t = telling[w]  BY <1>6 DEF Typed
  <2>8. telling' = [telling EXCEPT ![w] = t]  BY <1>6, <2>6, <2>7 DEF Typed
  <2>9. Good(w, q \o u, client[w], FALSE, wmState[w], "destroyed", t, ToLook(w))
    BY <1>6, <2>4, <2>5, <2>7, GoodDestroyed
  <2>. QED  BY <1>1, <2>4, <2>6, <2>8, <2>9, ClientKeeps
<1>. QED  BY <1>7, <1>8

LEMMA TellKeeps ==
  ASSUME IInv, NEW w \in Windows, Tell(w)
  PROVE  IInv'
<1>1. PICK q \in Seq(Events) : q = queue  BY DEF IInv, Typed
<1>2. PICK e : e = Event("Synthetic", w)  OBVIOUS
<1>3. e \in Events /\ Tells(e, w) /\ e.win = w
  <2>1. e \in Events  BY <1>2, EventFacts DEF Types
  <2>2. e.win = w /\ e.type = "Synthetic"  BY <1>2 DEF Event
  <2>. QED  BY <2>1, <2>2 DEF Tells
<1>4. PICK u : u = <<e>>  OBVIOUS
<1>5. u \in Seq(Events) /\ \A i \in DOMAIN u : u[i].win = w  BY <1>3, <1>4
<1>6. /\ telling[w] /\ queue' = q \o u /\ telling' = [telling EXCEPT ![w] = FALSE]
      /\ asked' = asked /\ mapped' = mapped /\ Others
  BY <1>1, <1>2, <1>4 DEF Tell, Send
<1>7. PICK a \in {"withdrawn", "shown", "destroyed"}, m \in BOOLEAN : a = asked[w] /\ m = mapped[w]
  BY DEF IInv, Typed
<1>8. telling[w] = TRUE /\ asked' = [asked EXCEPT ![w] = a] /\ mapped' = [mapped EXCEPT ![w] = m]
  BY <1>6, <1>7 DEF IInv, Typed
<1>9. Good(w, q, client[w], m, wmState[w], a, TRUE, ToLook(w))
  BY <1>1, <1>7, <1>8 DEF IInv, GoodNow
<1>10. Good(w, q \o <<e>>, client[w], m, wmState[w], a, FALSE, ToLook(w))
  BY <1>3, <1>9, GoodTold
<1>11. Good(w, q \o u, client[w], m, wmState[w], a, FALSE, ToLook(w))  BY <1>4, <1>10
<1>12. PICK f \in BOOLEAN : f = FALSE  OBVIOUS
<1>13. Good(w, queue \o u, client[w], m, wmState[w], a, f, ToLook(w)) /\ telling' = [telling EXCEPT ![w] = f]
  BY <1>1, <1>6, <1>11, <1>12
<1>14. queue' = queue \o u /\ \A i \in DOMAIN u : u[i].win = w  BY <1>1, <1>5, <1>6
<1>15. Others /\ asked' = [asked EXCEPT ![w] = a] /\ mapped' = [mapped EXCEPT ![w] = m]  BY <1>6, <1>8
<1>. QED  BY <1>5, <1>13, <1>14, <1>15, ClientKeeps, ZenonT(30)

LEMMA UserKeeps ==
  ASSUME IInv, User \/ \E w \in Windows : Iconify(w)
  PROVE  IInv'
<1>1. PICK e \in Events : /\ e.type \in {"ChangeState", "Toggle", "Hide", "Open", "ShowAll"}
                          /\ queue' = queue \o <<e>>
  <2>1. ASSUME NEW w \in Windows, NEW type \in {"ChangeState", "Toggle", "Hide", "Open"}
        PROVE  Event(type, w) \in Events /\ Event(type, w).type = type
    BY EventFacts DEF Event, Types
  <2>2. Event("ShowAll", None) \in Events /\ Event("ShowAll", None).type = "ShowAll"  BY EventFacts DEF Event
  <2>3. CASE \E w \in Managed, type \in {"Toggle", "Hide"} : queue' = queue \o <<Event(type, w)>>
    BY <2>1, <2>3 DEF Managed
  <2>4. CASE \E w \in Managed : queue' = queue \o <<Event("Open", w)>>
    BY <2>1, <2>4 DEF Managed
  <2>5. CASE queue' = queue \o <<Event("ShowAll", None)>>  BY <2>2, <2>5
  <2>6. CASE \E w \in Windows : queue' = queue \o <<Event("ChangeState", w)>>  BY <2>1, <2>6
  <2>. QED  BY <2>3, <2>4, <2>5, <2>6, Zenon DEF User, Iconify, Send
<1>2. Stay /\ mapped' = mapped /\ wmState' = wmState /\ client' = client
  BY DEF User, Iconify, Others, clientVars, Stay
<1>. QED  BY <1>1, <1>2, AppendKeeps

-----------------------------------------------------------------------------
LEMMA InitIInv == Init => IInv
<1>. SUFFICES ASSUME Init  PROVE  IInv  OBVIOUS
<1>1. Cardinality(Windows) \in Nat /\ existing \in Injection(1..Cardinality(Windows), Windows)
  BY FS_CardinalityType, StatesAssumption DEF Init, Injection
<1>2. existing \in Surjection(1..Cardinality(Windows), Windows)
  <2>1. Cardinality(1..Cardinality(Windows)) = Cardinality(Windows)  BY <1>1, FS_Interval
  <2>. QED  BY <1>1, <2>1, FS_Injection, StatesAssumption
<1>3. \A w \in Windows : ToLook(w)  BY <1>2 DEF Surjection, ToLook, ToSet
<1>4. Typed
  <2>1. existing \in Seq(Windows)  BY <1>1 DEF Init
  <2>2. wmState \in [Windows -> {"none", "Normal", "Iconic"}]  BY StatesAssumption DEF Init
  <2>. QED  BY <2>1, <2>2 DEF Init, Typed
<1>5. ASSUME NEW w \in Windows  PROVE  GoodNow(w)
  <2>1. /\ client[w] = Gone /\ queue = <<>> /\ telling[w] = FALSE
        /\ asked[w] = IF mapped[w] THEN "shown" ELSE "withdrawn"
    BY DEF Init
  <2>2. DOMAIN queue = {}  BY <2>1
  <2>. QED  BY <1>3, <2>1, <2>2 DEF GoodNow, Good, Found, Shows, Withdraws
<1>. QED  BY <1>4, <1>5 DEF IInv

LEMMA NextIInv ==
  ASSUME WaitsForRoot, IInv, [Next]_vars
  PROVE  IInv'
<1>1. CASE Olwm
  BY <1>1, PlainKeeps, MapRequestKeeps, UnmapNotifyKeeps, LetGoKeeps, ReparentKeeps DEF Olwm
<1>2. CASE User \/ \E w \in Windows : Iconify(w)  BY <1>2, UserKeeps
<1>3. ASSUME NEW w \in Windows, Map(w) \/ Withdraw(w) \/ Tell(w) \/ Destroy(w)  PROVE  IInv'
  BY <1>3, MapKeeps, WithdrawKeeps, TellKeeps
<1>4. CASE UNCHANGED vars
  <2>1. /\ hints' = hints /\ asked' = asked /\ telling' = telling /\ mapped' = mapped /\ wmState' = wmState
        /\ queue' = queue /\ existing' = existing /\ client' = client
    BY <1>4 DEF vars, clientVars
  <2>2. Typed'  BY <2>1 DEF IInv, Typed
  <2>3. ASSUME NEW w \in Windows  PROVE  GoodNow(w)'  BY <2>1 DEF IInv, GoodNow, ToLook
  <2>. QED  BY <2>2, <2>3 DEF IInv
<1>. QED  BY <1>1, <1>2, <1>3, <1>4 DEF Next

(* The inductive invariant holds if clients wait until a withdrawal is     *)
(* complete (ICCCM 4.1.4), for any windows, hints and bounds.              *)
THEOREM Invariance ==
  ASSUME WaitsForRoot
  PROVE  Spec => []IInv
<1>1. Init => IInv  BY InitIInv
<1>2. IInv /\ [Next]_vars => IInv'  BY NextIInv
<1>. QED  BY <1>1, <1>2, PTL DEF Spec

(* A window that its client shows is not let go for an unmapping of        *)
(* olwm's: pendingUnmaps covers all of them that are still in the queue.   *)
THEOREM UnmapsAreExpected ==
  ASSUME WaitsForRoot
  PROVE  Spec => []OwnUnmapsExpected
<1>1. IInv => OwnUnmapsExpected
  <2>. SUFFICES ASSUME IInv  PROVE  OwnUnmapsExpected  OBVIOUS
  <2>1. TypeOK
    <3>1. \A i \in DOMAIN queue : queue[i] \in Events  BY DEF IInv, Typed
    <3>2. \A i \in DOMAIN queue : queue[i].win \in Windows \cup {None}  BY <3>1 DEF Events
    <3>. QED  BY <3>2 DEF IInv, Typed, TypeOK
  <2>2. ASSUME NEW w \in Managed, asked[w] = "shown"  PROVE  OwnUnmaps(w) <= client[w].pending
    <3>1. Good(w, queue, client[w], mapped[w], wmState[w], asked[w], telling[w], ToLook(w)) /\ client[w] # Gone
      BY <2>2 DEF IInv, GoodNow, Managed, IsManaged
    <3>2. Count(queue, OwnUnmap(w)) <= client[w].pending  BY <2>2, <3>1 DEF Good, Shows
    <3>. QED  BY <3>2, Zenon DEF OwnUnmaps, Count, Places
  <2>. QED  BY <2>1, <2>2 DEF OwnUnmapsExpected
<1>. QED  BY <1>1, Invariance, PTL

(* When every event has been handled, what olwm believes of a window is    *)
(* what is on the screen, and a window has a Client if and only if its     *)
(* client shows it.                                                        *)
THEOREM BelievesTheScreen ==
  ASSUME WaitsForRoot
  PROVE  Spec => []ScreenIsBelieved
<1>1. IInv => ScreenIsBelieved
  <2>. SUFFICES ASSUME IInv, Settled, NEW w \in Windows
                PROVE  /\ IsManaged(w) <=> asked[w] = "shown"
                       /\ IsManaged(w) => /\ mapped[w] <=> client[w].state = "Normal"
                                          /\ wmState[w] = "Normal" <=> client[w].state = "Normal"
    BY DEF ScreenIsBelieved
  <2>1. DOMAIN queue = {} /\ ~telling[w] /\ ~ToLook(w)  BY DEF Settled, ToLook, ToSet
  <2>2. Good(w, queue, client[w], mapped[w], wmState[w], asked[w], telling[w], ToLook(w))
    BY DEF IInv, GoodNow
  <2>3. asked[w] \in {"withdrawn", "shown", "destroyed"}  BY DEF IInv, Typed
  <2>4. IsManaged(w) <=> asked[w] = "shown"
    BY <2>1, <2>2, <2>3 DEF Good, Shows, Withdraws, IsManaged
  <2>. QED  BY <2>1, <2>2, <2>4 DEF Good, Shows, IsManaged
<1>. QED  BY <1>1, Invariance, PTL
===============================================================================
