------------------------ MODULE NotifierDispatchProofs -----------------------
(* Proofs about NotifierDispatch, for any clients, events and programs:    *)
(* the dispatcher's lists agree with each other, only what a client still  *)
(* has a function for stays pending, and nothing is left behind by a       *)
(* program that does not enter notify_start; then, for the classes of      *)
(* programs each theorem names, a client is never called for a safe event  *)
(* inside such a call, a veto is honoured, no event is handed over twice   *)
(* or without being pending, and the dispatcher keeps what EventDelivery   *)
(* promises.                                                               *)
EXTENDS NotifierDispatch, WellFoundedInduction, FiniteSetTheorems, TLAPS

-----------------------------------------------------------------------------
(* Sequences. What a helper yields is shown by taking the shortest         *)
(* sequence for which it does not: its front contradicts that.             *)

(* A set of numbers that is not empty has a least element.                 *)
LEMMA Least ==
  ASSUME NEW T, T \subseteq Nat, T # {}
  PROVE  \E x \in T : \A y \in T : x <= y
<1>1. IsWellFoundedOn(OpToRel(<, Nat), Nat)
  BY NatLessThanWellFounded
<1>2. PICK x \in T : \A y \in T : ~ (<<y, x>> \in OpToRel(<, Nat))
  BY <1>1, WFMin
<1>3. \A m, n \in Nat : m < n => <<m, n>> \in OpToRel(<, Nat)
  BY DEF OpToRel
<1>4. \A y \in T : ~ (y < x)
  BY <1>2, <1>3
<1> QED BY <1>4

(* OfKinds is a function defined by recursion; here is its equation.       *)
KindStep(q, kinds, g, n) ==
  IF n = 0 THEN <<>>
  ELSE IF q[n].kind \in kinds THEN Append(g[n - 1], q[n]) ELSE g[n - 1]

UpTo(q, kinds) == CHOOSE g : g = [n \in 0..Len(q) |-> KindStep(q, kinds, g, n)]

(* There is a function that satisfies the equation: otherwise there is a   *)
(* least length for which there is none, and the one for the length before *)
(* can be extended.                                                        *)
LEMMA UpToIsDefined ==
  ASSUME NEW q, NEW kinds, Len(q) \in Nat
  PROVE  UpTo(q, kinds) = [n \in 0..Len(q) |-> KindStep(q, kinds, UpTo(q, kinds), n)]
<1> DEFINE Bad == {N \in Nat : ~ \E g : g = [n \in 0..N |-> KindStep(q, kinds, g, n)]}
<1>1. ASSUME Bad # {} PROVE FALSE
  <2>1. PICK N \in Bad : \A M \in Bad : N <= M
    BY <1>1, Least
  <2>2. CASE N = 0
    <3> DEFINE g0 == [n \in 0..N |-> <<>>]
    <3>1. g0 = [n \in 0..N |-> KindStep(q, kinds, g0, n)]
      BY <2>2 DEF KindStep
    <3> QED BY <3>1
  <2>3. CASE N # 0
    <3>1. N - 1 \in Nat /\ ~ (N <= N - 1)
      BY <2>3
    <3>2. PICK g : g = [n \in 0..(N - 1) |-> KindStep(q, kinds, g, n)]
      BY <3>1, <2>1
    <3> DEFINE h == [n \in 0..N |-> IF n = N THEN KindStep(q, kinds, g, N) ELSE g[n]]
    <3>3. ASSUME NEW n \in 0..N PROVE h[n] = KindStep(q, kinds, h, n)
      <4>1. CASE n = N
        <5>1. h[n - 1] = g[n - 1]
          BY <4>1, <2>3, <3>1
        <5> QED BY <5>1, <4>1, <2>3 DEF KindStep
      <4>2. CASE n # N
        <5>1. n \in 0..(N - 1)
          BY <4>2, <3>1
        <5>2. h[n] = KindStep(q, kinds, g, n)
          BY <4>2, <5>1, <3>2
        <5>3. n # 0 => h[n - 1] = g[n - 1]
          BY <5>1, <3>1
        <5> QED BY <5>2, <5>3 DEF KindStep
      <4> QED BY <4>1, <4>2
    <3>4. h = [n \in 0..N |-> KindStep(q, kinds, h, n)]
      BY <3>3
    <3> QED BY <3>4
  <2> QED BY <2>2, <2>3
<1>2. \E g : g = [n \in 0..Len(q) |-> KindStep(q, kinds, g, n)]
  BY <1>1
<1> QED BY <1>2 DEF UpTo

(* OfKinds is the value of that function at the whole length.              *)
LEMMA OfKindsIsUpTo ==
  ASSUME NEW q, NEW kinds PROVE OfKinds(q, kinds) = UpTo(q, kinds)[Len(q)]
BY DEF OfKinds, UpTo, KindStep

(* Nothing is found in a queue that is empty.                              *)
LEMMA OfKindsEmpty == ASSUME NEW kinds PROVE OfKinds(<<>>, kinds) = <<>>
<1>1. Len(<<>>) = 0
  OBVIOUS
<1>2. UpTo(<<>>, kinds)[0] = KindStep(<<>>, kinds, UpTo(<<>>, kinds), 0)
  BY <1>1, UpToIsDefined
<1> QED BY <1>1, <1>2, OfKindsIsUpTo DEF KindStep

(* A condition that is added at the end is found at the end, if it is of   *)
(* one of the kinds.                                                       *)
LEMMA OfKindsAppend ==
  ASSUME NEW S, NEW q \in Seq(S), NEW x \in S, NEW kinds
  PROVE  OfKinds(Append(q, x), kinds) = IF x.kind \in kinds THEN Append(OfKinds(q, kinds), x)
                                        ELSE OfKinds(q, kinds)
<1> DEFINE r == Append(q, x)
           f == UpTo(q, kinds)
           g == UpTo(r, kinds)
           N == Len(q)
<1>1. N \in Nat /\ Len(r) = N + 1 /\ r[N + 1] = x /\ \A i \in 1..N : r[i] = q[i]
  OBVIOUS
<1>2. f = [n \in 0..N |-> KindStep(q, kinds, f, n)]
  BY <1>1, UpToIsDefined
<1>3. g = [n \in 0..(N + 1) |-> KindStep(r, kinds, g, n)]
  <2>1. Len(r) \in Nat /\ 0..Len(r) = 0..(N + 1)
    BY <1>1
  <2> HIDE DEF r
  <2>2. g = [n \in 0..Len(r) |-> KindStep(r, kinds, g, n)]
    BY <2>1, UpToIsDefined
  <2> QED BY <2>1, <2>2
<1> DEFINE Bad == {n \in Nat : n <= N /\ f[n] # g[n]}
<1> HIDE DEF f, g, r, N
<1>4. ASSUME Bad # {} PROVE FALSE
  <2>1. PICK n \in Bad : \A m \in Bad : n <= m
    BY <1>4, Least
  <2>2. n \in 0..N /\ n \in 0..(N + 1) /\ (n # 0 => n - 1 \in Nat /\ n - 1 <= N /\ ~ (n <= n - 1))
    BY <2>1, <1>1
  <2>3. n # 0 => f[n - 1] = g[n - 1]
    BY <2>1, <2>2
  <2>4. n # 0 => r[n] = q[n]
    BY <2>2, <1>1
  <2>5. f[n] = KindStep(q, kinds, f, n) /\ g[n] = KindStep(r, kinds, g, n)
    BY <2>2, <1>2, <1>3
  <2>6. f[n] = g[n]
    BY <2>3, <2>4, <2>5 DEF KindStep
  <2> QED BY <2>6, <2>1
<1>5. f[N] = g[N]
  BY <1>4, <1>1
<1>6. g[N + 1] = KindStep(r, kinds, g, N + 1)
  <2>1. N + 1 \in 0..(N + 1)
    BY <1>1
  <2> QED BY <2>1, <1>3
<1>7. g[N + 1] = IF x.kind \in kinds THEN Append(g[N], x) ELSE g[N]
  BY <1>6, <1>1 DEF KindStep
<1>8. OfKinds(q, kinds) = f[N]
  BY OfKindsIsUpTo DEF f, N
<1>9. OfKinds(r, kinds) = g[N + 1]
  BY OfKindsIsUpTo, <1>1 DEF g
<1> QED BY <1>5, <1>7, <1>8, <1>9 DEF r

(* What Front and Last are for a sequence that is not empty.               *)
LEMMA FrontAndLast ==
  ASSUME NEW S, NEW q \in Seq(S), q # <<>>
  PROVE  /\ Len(q) \in Nat /\ Len(q) >= 1 /\ q[Len(q)] \in S /\ Last(q) = q[Len(q)]
         /\ Front(q) \in Seq(S) /\ Len(Front(q)) = Len(q) - 1
         /\ \A i \in 1..(Len(q) - 1) : Front(q)[i] = q[i]
         /\ q = Append(Front(q), Last(q))
<1>1. Len(q) \in Nat /\ Len(q) >= 1 /\ q[Len(q)] \in S
  OBVIOUS
<1>2. Len(q) - 1 \in Nat /\ \A i \in 1..(Len(q) - 1) : i \in 1..Len(q)
  BY <1>1
<1>3. \A i \in 1..Len(q) : q[i] \in S
  OBVIOUS
<1>4. SubSeq(q, 1, Len(q) - 1) = [i \in 1..(Len(q) - 1) |-> q[i]]
  BY <1>1, <1>2
<1>5. SubSeq(q, 1, Len(q) - 1) \in Seq(S)
  BY <1>2, <1>3, <1>4
<1>6. Front(q) \in Seq(S) /\ Len(Front(q)) = Len(q) - 1
      /\ \A i \in 1..(Len(q) - 1) : Front(q)[i] = q[i]
  <2>1. PICK n \in Nat : n = Len(q) - 1
    BY <1>2
  <2>2. Front(q) = [i \in 1..n |-> q[i]] /\ Front(q) \in Seq(S)
    BY <2>1, <1>4, <1>5 DEF Front
  <2>3. Len(Front(q)) = n /\ \A i \in 1..n : Front(q)[i] = q[i]
    BY <2>2
  <2> QED BY <2>1, <2>2, <2>3
<1>7. q = Append(Front(q), q[Len(q)])
  BY <1>1, <1>6
<1> QED BY <1>1, <1>6, <1>7 DEF Last

(* The elements of a concatenation.                                       *)
Joined(S, q, r) ==
  /\ q \o r \in Seq(S) /\ Len(q \o r) = Len(q) + Len(r)
  /\ \A i \in 1..Len(q) : (q \o r)[i] = q[i]
  /\ \A i \in 1..Len(r) : (q \o r)[Len(q) + i] = r[i]

LEMMA Concatenated ==
  ASSUME NEW S, NEW q \in Seq(S), NEW r \in Seq(S)
  PROVE  Joined(S, q, r)
<1>1. q \o r \in Seq(S) /\ Len(q \o r) = Len(q) + Len(r)
  OBVIOUS
<1>2. Len(q) \in Nat /\ Len(r) \in Nat
  OBVIOUS
<1>3. ASSUME NEW i \in 1..Len(q) PROVE (q \o r)[i] = q[i]
  BY <1>2
<1>4. ASSUME NEW i \in 1..Len(r) PROVE (q \o r)[Len(q) + i] = r[i]
  <2>1. Len(q) + i \in 1..(Len(q) + Len(r)) /\ ~ (Len(q) + i <= Len(q)) /\ (Len(q) + i) - Len(q) = i
    BY <1>2
  <2> QED BY <2>1, <1>2
<1> QED BY <1>1, <1>3, <1>4 DEF Joined

(* Sequences with the same elements are equal.                             *)
LEMMA SameSequence ==
  ASSUME NEW S, NEW q \in Seq(S), NEW r \in Seq(S), Len(q) = Len(r),
         \A i \in 1..Len(q) : q[i] = r[i]
  PROVE  q = r
OBVIOUS

(* A sequence that is not empty was built by appending.                    *)
Buildable(S) ==
  \A q \in Seq(S) : q # <<>> =>
    \E r \in Seq(S), x \in S : /\ q = Append(r, x) /\ Len(q) = Len(r) + 1 /\ Len(r) \in Nat
                              /\ Last(q) = x /\ Front(q) = r
                              /\ \A i \in 1..Len(r) : q[i] = r[i]

LEMMA Built == ASSUME NEW S PROVE Buildable(S)
<1> SUFFICES ASSUME NEW q \in Seq(S), q # <<>>
             PROVE  \E r \in Seq(S), x \in S : /\ q = Append(r, x) /\ Len(q) = Len(r) + 1
                                               /\ Len(r) \in Nat /\ Last(q) = x /\ Front(q) = r
                                               /\ \A i \in 1..Len(r) : q[i] = r[i]
  BY DEF Buildable
<1> QED BY FrontAndLast

(* What the elements of a sequence have to do with its length.             *)
LEMMA RangeIs ==
  ASSUME NEW S, NEW q \in Seq(S)
  PROVE  /\ Range(q) \subseteq S /\ (q = <<>> <=> Range(q) = {}) /\ (q = <<>> <=> Len(q) = 0)
         /\ \A p \in DOMAIN q : q[p] \in Range(q)
<1>1. Len(q) \in Nat /\ DOMAIN q = 1..Len(q) /\ \A p \in 1..Len(q) : q[p] \in S
  OBVIOUS
<1>2. q = <<>> <=> Len(q) = 0
  OBVIOUS
<1>3. q # <<>> => 1 \in 1..Len(q)
  BY <1>1, <1>2
<1>4. q = <<>> => DOMAIN q = {}
  BY <1>1, <1>2
<1> QED BY <1>1, <1>2, <1>3, <1>4 DEF Range

(* Appending adds one element.                                             *)
LEMMA RangeOfAppend ==
  ASSUME NEW S, NEW q \in Seq(S), NEW x \in S
  PROVE  Range(Append(q, x)) = Range(q) \cup {x}
<1>1. /\ DOMAIN Append(q, x) = 1..(Len(q) + 1) /\ DOMAIN q = 1..Len(q) /\ Len(q) \in Nat
      /\ Append(q, x)[Len(q) + 1] = x /\ \A i \in 1..Len(q) : Append(q, x)[i] = q[i]
  OBVIOUS
<1>2. Range(Append(q, x)) \subseteq Range(q) \cup {x}
  <2> SUFFICES ASSUME NEW i \in 1..(Len(q) + 1) PROVE Append(q, x)[i] \in Range(q) \cup {x}
    BY <1>1 DEF Range
  <2>1. i \in 1..Len(q) \/ i = Len(q) + 1
    BY <1>1
  <2> QED BY <1>1, <2>1 DEF Range
<1>3. Range(q) \cup {x} \subseteq Range(Append(q, x))
  <2>1. \A i \in 1..Len(q) : i \in 1..(Len(q) + 1)
    BY <1>1
  <2>2. Len(q) + 1 \in 1..(Len(q) + 1)
    BY <1>1
  <2> QED BY <1>1, <2>1, <2>2 DEF Range
<1> QED BY <1>2, <1>3

(* What was appended is last.                                              *)
LEMMA LastOfAppend ==
  ASSUME NEW S, NEW q \in Seq(S), NEW x \in S
  PROVE  /\ Append(q, x) \in Seq(S) /\ Append(q, x) # <<>>
         /\ Last(Append(q, x)) = x /\ Front(Append(q, x)) = q
<1>1. Append(q, x) \in Seq(S) /\ Append(q, x) # <<>>
      /\ Len(Append(q, x)) = Len(q) + 1 /\ Append(q, x)[Len(q) + 1] = x
      /\ \A i \in 1..Len(q) : Append(q, x)[i] = q[i]
  OBVIOUS
<1>2. Last(Append(q, x)) = x
  BY <1>1 DEF Last
<1>3. /\ Front(Append(q, x)) \in Seq(S) /\ Len(Front(Append(q, x))) = Len(q)
      /\ \A i \in 1..Len(q) : Front(Append(q, x))[i] = q[i]
  <2> DEFINE r == Append(q, x)
  <2>1. r \in Seq(S) /\ r # <<>> /\ Len(r) - 1 = Len(q)
    BY <1>1
  <2> HIDE DEF r
  <2>2. Front(r) \in Seq(S) /\ Len(Front(r)) = Len(r) - 1
        /\ \A i \in 1..(Len(r) - 1) : Front(r)[i] = r[i]
    BY <2>1, FrontAndLast
  <2>3. \A i \in 1..Len(q) : Front(r)[i] = r[i]
    BY <2>1, <2>2
  <2> QED BY <2>1, <2>2, <2>3, <1>1 DEF r
<1>4. Front(Append(q, x)) = q
  BY <1>3
<1> QED BY <1>1, <1>2, <1>4

(* Replacing the top is taking it away and pushing another.                *)
LEMMA TopReplaced ==
  ASSUME NEW S, NEW q \in Seq(S), q # <<>>, NEW x \in S
  PROVE  SetTop(q, x) = Append(Front(q), x)
<1>1. /\ Len(q) \in Nat /\ Len(q) >= 1
      /\ Front(q) \in Seq(S) /\ Len(Front(q)) = Len(q) - 1
      /\ \A i \in 1..(Len(q) - 1) : Front(q)[i] = q[i]
  BY FrontAndLast
<1>2. /\ SetTop(q, x) \in Seq(S) /\ Len(SetTop(q, x)) = Len(q)
      /\ \A i \in 1..Len(q) : SetTop(q, x)[i] = IF i = Len(q) THEN x ELSE q[i]
  BY <1>1 DEF SetTop
<1>3. /\ Append(Front(q), x) \in Seq(S) /\ Len(Append(Front(q), x)) = Len(q)
      /\ \A i \in 1..Len(q) : Append(Front(q), x)[i] = IF i = Len(q) THEN x ELSE q[i]
  BY <1>1
<1> QED BY <1>2, <1>3

(* The elements that RemoveAt leaves.                                      *)
LEMMA Removed ==
  ASSUME NEW S, NEW q \in Seq(S), NEW p \in 1..Len(q)
  PROVE  /\ RemoveAt(q, p) \in Seq(S) /\ Len(RemoveAt(q, p)) = Len(q) - 1
         /\ \A i \in 1..(Len(q) - 1) : RemoveAt(q, p)[i] = IF i < p THEN q[i] ELSE q[i + 1]
<1> DEFINE before == SubSeq(q, 1, p - 1)
           after == SubSeq(q, p + 1, Len(q))
<1>1. Len(q) \in Nat /\ p \in Nat /\ 1 <= p /\ p <= Len(q) /\ \A i \in 1..Len(q) : q[i] \in S
  OBVIOUS
<1>2. before = [i \in 1..(p - 1) |-> q[i]] /\ after = [i \in 1..(Len(q) - p) |-> q[i + p]]
  BY <1>1
<1>3. p - 1 \in Nat /\ Len(q) - p \in Nat /\ (\A i \in 1..(p - 1) : i \in 1..Len(q))
      /\ (\A i \in 1..(Len(q) - p) : i + p \in 1..Len(q))
  BY <1>1
<1>4. before \in Seq(S) /\ Len(before) = p - 1 /\ after \in Seq(S) /\ Len(after) = Len(q) - p
  BY <1>1, <1>2, <1>3
<1> HIDE DEF before, after
<1>5. /\ before \o after \in Seq(S) /\ Len(before \o after) = Len(before) + Len(after)
      /\ \A i \in 1..Len(before) : (before \o after)[i] = before[i]
      /\ \A i \in 1..Len(after) : (before \o after)[Len(before) + i] = after[i]
  <2>1. before \in Seq(S) /\ after \in Seq(S)
    BY <1>4
  <2>2. Joined(S, before, after)
    BY <2>1, Concatenated
  <2> QED BY <2>2 DEF Joined
<1>6. RemoveAt(q, p) = before \o after
  BY DEF RemoveAt, before, after
<1>7. Len(before \o after) = Len(q) - 1
  BY <1>1, <1>4, <1>5
<1>8. ASSUME NEW i \in 1..(Len(q) - 1)
      PROVE  (before \o after)[i] = IF i < p THEN q[i] ELSE q[i + 1]
  <2>1. CASE i < p
    <3>1. i \in 1..(p - 1)
      BY <2>1, <1>1
    <3>2. (before \o after)[i] = before[i] /\ before[i] = q[i]
      BY <3>1, <1>2, <1>4, <1>5
    <3> QED BY <2>1, <3>2
  <2>2. CASE ~ (i < p)
    <3>1. PICK k \in 1..(Len(q) - p) : (p - 1) + k = i /\ k + p = i + 1
      BY <2>2, <1>1
    <3>2. (before \o after)[(p - 1) + k] = after[k]
      BY <1>4, <1>5
    <3>3. after[k] = q[k + p]
      BY <1>2
    <3> QED BY <2>2, <3>1, <3>2, <3>3
  <2> QED BY <2>1, <2>2
<1> QED BY <1>5, <1>6, <1>7, <1>8

(* What OfKinds finds: the conditions of these kinds and no other.         *)
LEMMA OfKindsRange ==
  ASSUME NEW S, NEW q \in Seq(S), NEW kinds
  PROVE  /\ OfKinds(q, kinds) \in Seq(S)
         /\ Range(OfKinds(q, kinds)) = {x \in Range(q) : x.kind \in kinds}
<1>0. Buildable(S)
  BY Built
<1> DEFINE Good(r) == /\ OfKinds(r, kinds) \in Seq(S)
                      /\ Range(OfKinds(r, kinds)) = {x \in Range(r) : x.kind \in kinds}
           Bad == {n \in Nat : \E r \in Seq(S) : Len(r) = n /\ ~ Good(r)}
<1>1. ASSUME Bad # {} PROVE FALSE
  <2>1. PICK n \in Bad : \A m \in Bad : n <= m
    BY <1>1, Least
  <2>2. PICK r \in Seq(S) : Len(r) = n /\ ~ Good(r)
    BY <2>1
  <2>3. CASE r = <<>>
    BY <2>2, <2>3, OfKindsEmpty DEF Range
  <2>4. CASE r # <<>>
    <3>1. PICK f \in Seq(S), x \in S : /\ r = Append(f, x) /\ Len(r) = Len(f) + 1 /\ Len(f) \in Nat
                                       /\ Last(r) = x /\ Front(r) = f
                                       /\ \A i \in 1..Len(f) : r[i] = f[i]
      BY <2>4, <1>0 DEF Buildable
    <3>2. Good(f)
      <4>1. ~ (n <= Len(f))
        BY <3>1, <2>2
      <4> QED BY <4>1, <3>1, <2>1
    <3>3. OfKinds(Append(f, x), kinds) = IF x.kind \in kinds THEN Append(OfKinds(f, kinds), x)
                                         ELSE OfKinds(f, kinds)
      BY <3>1, OfKindsAppend
    <3>4. Range(r) = Range(f) \cup {x}
      BY <3>1, RangeOfAppend
    <3>5. CASE x.kind \in kinds
      <4>1. OfKinds(r, kinds) = Append(OfKinds(f, kinds), x)
        BY <3>1, <3>3, <3>5
      <4>2. Range(OfKinds(r, kinds)) = Range(OfKinds(f, kinds)) \cup {x}
        BY <4>1, <3>2, RangeOfAppend
      <4>3. Good(r)
        BY <4>1, <4>2, <3>2, <3>4, <3>5
      <4> QED BY <4>3, <2>2
    <3>6. CASE x.kind \notin kinds
      <4>1. OfKinds(r, kinds) = OfKinds(f, kinds)
        BY <3>1, <3>3, <3>6
      <4>2. Good(r)
        BY <4>1, <3>2, <3>4, <3>6
      <4> QED BY <4>2, <2>2
    <3> QED BY <3>5, <3>6
  <2> QED BY <2>3, <2>4
<1>2. Len(q) \in Nat
  OBVIOUS
<1> QED BY <1>1, <1>2

(* A queue with conditions of these kinds only is found as it is.          *)
LEMMA OfKindsAll ==
  ASSUME NEW S, NEW q \in Seq(S), NEW kinds, \A p \in DOMAIN q : q[p].kind \in kinds
  PROVE  OfKinds(q, kinds) = q
<1>0. Buildable(S)
  BY Built
<1> DEFINE Bad == {n \in Nat : \E r \in Seq(S) : /\ Len(r) = n /\ OfKinds(r, kinds) # r
                                                 /\ \A p \in 1..Len(r) : r[p].kind \in kinds}
<1>1. ASSUME Bad # {} PROVE FALSE
  <2>1. PICK n \in Bad : \A m \in Bad : n <= m
    BY <1>1, Least
  <2>2. PICK r \in Seq(S) : /\ Len(r) = n /\ OfKinds(r, kinds) # r
                            /\ \A p \in 1..Len(r) : r[p].kind \in kinds
    BY <2>1
  <2>3. r # <<>>
    BY <2>2, OfKindsEmpty
  <2>4. PICK f \in Seq(S), x \in S : /\ r = Append(f, x) /\ Len(r) = Len(f) + 1 /\ Len(f) \in Nat
                                     /\ Last(r) = x /\ \A i \in 1..Len(f) : r[i] = f[i]
    BY <2>3, <1>0 DEF Buildable
  <2>5. OfKinds(f, kinds) = f
    <3>1. ~ (n <= Len(f)) /\ \A p \in 1..Len(f) : p \in 1..Len(r)
      BY <2>2, <2>4
    <3>2. \A p \in 1..Len(f) : f[p].kind \in kinds
      BY <3>1, <2>2, <2>4
    <3> QED BY <3>1, <3>2, <2>1, <2>4
  <2>6. x.kind \in kinds
    <3>1. Len(r) \in 1..Len(r) /\ r[Len(r)] = x
      BY <2>4 DEF Last
    <3> QED BY <3>1, <2>2
  <2>7. OfKinds(r, kinds) = r
    BY <2>4, <2>5, <2>6, OfKindsAppend
  <2> QED BY <2>2, <2>7
<1>2. Len(q) \in Nat /\ DOMAIN q = 1..Len(q)
  OBVIOUS
<1> QED BY <1>1, <1>2

(* Appending to a concatenation is appending to its second part.           *)
LEMMA ConcatAppend ==
  ASSUME NEW S, NEW q \in Seq(S), NEW r \in Seq(S), NEW x \in S
  PROVE  q \o Append(r, x) = Append(q \o r, x)
OBVIOUS

(* OfKinds finds in a concatenation what it finds in its parts.            *)
KindsConcat(q, u, kinds) == OfKinds(q \o u, kinds) = OfKinds(q, kinds) \o OfKinds(u, kinds)

(* That is so for all sequences.                                           *)
LEMMA OfKindsConcat ==
  ASSUME NEW S, NEW q \in Seq(S), NEW u \in Seq(S), NEW kinds
  PROVE  KindsConcat(q, u, kinds)
<1>0. Buildable(S)
  BY Built
<1>c. ASSUME NEW v \in Seq(S), NEW r \in Seq(S), NEW x \in S
      PROVE  v \o Append(r, x) = Append(v \o r, x)
  BY ConcatAppend
<1>a. ASSUME NEW r \in Seq(S), NEW x \in S
      PROVE  OfKinds(Append(r, x), kinds) = IF x.kind \in kinds THEN Append(OfKinds(r, kinds), x)
                                            ELSE OfKinds(r, kinds)
  BY OfKindsAppend
<1> DEFINE Good(r) == OfKinds(q \o r, kinds) = OfKinds(q, kinds) \o OfKinds(r, kinds)
           Bad == {n \in Nat : \E r \in Seq(S) : Len(r) = n /\ ~ Good(r)}
<1>1. ASSUME Bad # {} PROVE FALSE
  <2>1. PICK n \in Bad : \A m \in Bad : n <= m
    BY <1>1, Least
  <2>2. PICK r \in Seq(S) : Len(r) = n /\ ~ Good(r)
    BY <2>1
  <2>3. r # <<>>
    <3> SUFFICES ASSUME r = <<>> PROVE FALSE
      OBVIOUS
    <3>1. OfKinds(r, kinds) = <<>> /\ q \o r = q
      BY OfKindsEmpty
    <3>2. OfKinds(q, kinds) \in Seq(S)
      BY OfKindsRange
    <3>3. OfKinds(q, kinds) \o <<>> = OfKinds(q, kinds)
      BY <3>2
    <3> QED BY <3>1, <3>3, <2>2
  <2>4. PICK f \in Seq(S), x \in S : /\ r = Append(f, x) /\ Len(r) = Len(f) + 1 /\ Len(f) \in Nat
                                     /\ Last(r) = x /\ Front(r) = f
                                     /\ \A i \in 1..Len(f) : r[i] = f[i]
    BY <2>3, <1>0 DEF Buildable
  <2>5. Good(f)
    <3>1. ~ (n <= Len(f))
      BY <2>4, <2>2
    <3> QED BY <3>1, <2>4, <2>1
  <2>6. q \o r = Append(q \o f, x) /\ q \o f \in Seq(S)
    <3>1. q \o f \in Seq(S)
      BY Concatenated DEF Joined
    <3>2. q \o Append(f, x) = Append(q \o f, x)
      BY <1>c
    <3> QED BY <2>4, <3>1, <3>2
  <2>7. OfKinds(q \o r, kinds) = IF x.kind \in kinds THEN Append(OfKinds(q \o f, kinds), x)
                                 ELSE OfKinds(q \o f, kinds)
    <3>1. OfKinds(Append(q \o f, x), kinds) = IF x.kind \in kinds THEN Append(OfKinds(q \o f, kinds), x)
                                              ELSE OfKinds(q \o f, kinds)
      BY <2>6, <1>a
    <3> QED BY <3>1, <2>6
  <2>8. OfKinds(r, kinds) = IF x.kind \in kinds THEN Append(OfKinds(f, kinds), x)
                            ELSE OfKinds(f, kinds)
    BY <2>4, <1>a
  <2>9. OfKinds(q, kinds) \in Seq(S) /\ OfKinds(f, kinds) \in Seq(S)
    BY OfKindsRange
  <2>10. OfKinds(q, kinds) \o Append(OfKinds(f, kinds), x) = Append(OfKinds(q, kinds) \o OfKinds(f, kinds), x)
    BY <2>9, <1>c
  <2>11. Good(r)
    BY <2>5, <2>7, <2>8, <2>10
  <2> QED BY <2>2, <2>11
<1>2. Len(u) \in Nat
  OBVIOUS
<1>3. Good(u)
  BY <1>1, <1>2
<1> QED BY <1>3 DEF KindsConcat

(* What is before and what is after a place, and that RemoveAt leaves      *)
(* both.                                                                   *)
LEMMA Around ==
  ASSUME NEW S, NEW q \in Seq(S), NEW p \in 1..Len(q)
  PROVE  \E b \in Seq(S), a \in Seq(S) :
            /\ q = b \o (<<q[p]>> \o a) /\ RemoveAt(q, p) = b \o a
            /\ Len(b) = p - 1 /\ \A i \in 1..(p - 1) : b[i] = q[i]
<1>0. ASSUME NEW u \in Seq(S), NEW v \in Seq(S)
      PROVE  Joined(S, u, v)
  BY Concatenated
<1> DEFINE before == SubSeq(q, 1, p - 1)
           after == SubSeq(q, p + 1, Len(q))
<1>1. Len(q) \in Nat /\ p \in Nat /\ 1 <= p /\ p <= Len(q) /\ \A i \in 1..Len(q) : q[i] \in S
  OBVIOUS
<1>2. before = [i \in 1..(p - 1) |-> q[i]] /\ after = [i \in 1..(Len(q) - p) |-> q[i + p]]
  BY <1>1
<1>3. p - 1 \in Nat /\ Len(q) - p \in Nat /\ (\A i \in 1..(p - 1) : i \in 1..Len(q))
      /\ (\A i \in 1..(Len(q) - p) : i + p \in 1..Len(q))
  BY <1>1
<1>4. before \in Seq(S) /\ Len(before) = p - 1 /\ after \in Seq(S) /\ Len(after) = Len(q) - p
  BY <1>1, <1>2, <1>3
<1>5. \A i \in 1..(p - 1) : before[i] = q[i]
  BY <1>2
<1>6. \A i \in 1..(Len(q) - p) : after[i] = q[i + p]
  BY <1>2
<1> HIDE DEF before, after
<1>7. q[p] \in S
  BY <1>1
<1> DEFINE x == q[p]
           rest == <<x>> \o after
<1>8. <<x>> \in Seq(S) /\ Len(<<x>>) = 1 /\ <<x>>[1] = x
  BY <1>7
<1> HIDE DEF x
<1>9. /\ rest \in Seq(S) /\ Len(rest) = 1 + (Len(q) - p) /\ rest[1] = x
      /\ \A i \in 1..(Len(q) - p) : rest[1 + i] = after[i]
  <2>1. rest \in Seq(S) /\ Len(rest) = Len(<<x>>) + Len(after)
        /\ (\A i \in 1..1 : rest[i] = <<x>>[i])
        /\ (\A i \in 1..Len(after) : rest[1 + i] = after[i])
    BY <1>0, <1>4, <1>8 DEF Joined
  <2> QED BY <2>1, <1>4, <1>8
<1> HIDE DEF rest
<1>10. /\ before \o rest \in Seq(S) /\ Len(before \o rest) = Len(before) + Len(rest)
       /\ (\A i \in 1..Len(before) : (before \o rest)[i] = before[i])
       /\ (\A i \in 1..Len(rest) : (before \o rest)[Len(before) + i] = rest[i])
  BY <1>0, <1>4, <1>9 DEF Joined
<1>11. Len(before \o rest) = Len(q)
  BY <1>1, <1>4, <1>9, <1>10
<1>12. ASSUME NEW i \in 1..Len(q) PROVE (before \o rest)[i] = q[i]
  <2>1. CASE i < p
    <3>1. i \in 1..(p - 1)
      BY <2>1, <1>1
    <3> QED BY <3>1, <1>4, <1>5, <1>10
  <2>2. CASE i >= p
    <3>1. PICK j \in 1..(1 + (Len(q) - p)) : i = (p - 1) + j
      <4>1. i - (p - 1) \in 1..(1 + (Len(q) - p)) /\ i = (p - 1) + (i - (p - 1))
        BY <2>2, <1>1
      <4> QED BY <4>1
    <3>2. (before \o rest)[i] = rest[j]
      BY <3>1, <1>4, <1>9, <1>10
    <3>3. CASE j = 1
      BY <3>1, <3>2, <3>3, <1>9, <1>1 DEF x
    <3>4. CASE j # 1
      <4>1. PICK k \in 1..(Len(q) - p) : j = 1 + k
        <5>1. j - 1 \in 1..(Len(q) - p) /\ j = 1 + (j - 1)
          BY <3>4, <1>1
        <5> QED BY <5>1
      <4>2. rest[j] = q[k + p]
        BY <4>1, <1>6, <1>9
      <4>3. k + p = i
        BY <4>1, <3>1, <1>1
      <4> QED BY <4>2, <4>3, <3>2
    <3> QED BY <3>3, <3>4
  <2>3. i < p \/ i >= p
    BY <1>1
  <2> QED BY <2>1, <2>2, <2>3
<1>13. q = before \o rest
  BY <1>10, <1>11, <1>12, SameSequence
<1>14. RemoveAt(q, p) = before \o after
  BY DEF RemoveAt, before, after
<1> QED BY <1>4, <1>5, <1>13, <1>14 DEF rest, x

-----------------------------------------------------------------------------
(* Activations.                                                            *)

(* The fields of an activation, by its sort.                               *)
LEMMA FrameFields ==
  ASSUME NEW f \in Frame
  PROVE  /\ f.f \in {"sched", "client", "call", "copy"}
         /\ f.f = "sched" => f.i \in Nat \ {0} /\ f.n \in Nat
         /\ f.f = "client" => f.c \in Clients /\ f.i \in Nat \ {0} /\ f.bits \subseteq Kinds
         /\ f.f = "call" => /\ f.c \in Clients /\ f.kind \in Kinds /\ f.id \in Ids \cup {0}
                            /\ f.how \in {"queued", "safe", "immediate", "hinted"} /\ f.veto \in BOOLEAN
         /\ f.f = "copy" => f.c \in Clients /\ f.id \in Ids /\ f.code \in Codes
BY DEF Frame

(* The activations that the actions push.                                  *)
LEMMA FramesMade ==
  /\ \A i \in Nat \ {0}, n \in Nat : [f |-> "sched", i |-> i, n |-> n] \in Frame
  /\ \A c \in Clients, i \in Nat \ {0}, bits \in SUBSET Kinds :
        [f |-> "client", c |-> c, i |-> i, bits |-> bits] \in Frame
  /\ \A c \in Clients, kind \in Kinds, id \in Ids \cup {0},
        how \in {"queued", "safe", "immediate", "hinted"} : Activated(c, kind, id, how) \in Frame
  /\ \A c \in Clients, id \in Ids, code \in Codes :
        [f |-> "copy", c |-> c, id |-> id, code |-> code] \in Frame
BY DEF Frame, Activated

(* The activations that the actions put in place of another.               *)
LEMMA FramesChanged ==
  ASSUME NEW f \in Frame
  PROVE  /\ f.f = "sched" => \A i \in Nat \ {0} : /\ [f EXCEPT !.i = i] \in Frame
                                            /\ [f EXCEPT !.i = i].f = "sched"
         /\ f.f = "client" => /\ \A i \in Nat \ {0} : [f EXCEPT !.i = i] \in Frame
                                                /\ [f EXCEPT !.i = i].f = "client"
                                                /\ [f EXCEPT !.i = i].c = f.c
                              /\ \A bits \in SUBSET Kinds : [f EXCEPT !.bits = bits] \in Frame
                                                /\ [f EXCEPT !.bits = bits].f = "client"
                                                /\ [f EXCEPT !.bits = bits].c = f.c
         /\ f.f = "call" => [f EXCEPT !.veto = TRUE] \in Frame
         /\ f.f = "copy" => \A code \in Codes : [f EXCEPT !.code = code] \in Frame
<1>1. CASE f.f = "sched"
  BY <1>1 DEF Frame
<1>2. CASE f.f = "client"
  BY <1>2 DEF Frame
<1>3. CASE f.f = "call"
  BY <1>3 DEF Frame
<1>4. CASE f.f = "copy"
  BY <1>4 DEF Frame
<1> QED BY <1>1, <1>2, <1>3, <1>4, FrameFields

-----------------------------------------------------------------------------
(* The lists: what each of the dispatcher's operations makes of them.      *)

EachOnce(s) == \A i, j \in DOMAIN s : s[i] = s[j] => i = j

(* The client still has a function for the condition, or the condition is  *)
(* one that outlives its function.                                         *)
Wanted(condition, functions) ==
  condition.kind \in OneShot \/ \E type \in functions : condition.kind \in KindsOf(type)

HasId(condition) == condition.kind = "event" => condition.id \in Ids

(* The lists as they should be. *)
Lists ==
  /\ order \in Seq(Clients) /\ queue \in [Clients -> Seq(Condition)] /\ latest \in [Clients -> Nat]
  /\ EachOnce(order)
  /\ Range(order) = {c \in Clients : queue[c] # <<>>}
  /\ \A c \in Clients : latest[c] \in {0, Len(queue[c])}
  /\ \A c \in Clients : \A x \in Range(queue[c]) : HasId(x)

(* The step makes q the queue of c and changes the lists accordingly. *)
ListsTo(c, q) ==
  /\ queue' = [queue EXCEPT ![c] = q]
  /\ \E hint \in {0, Len(q)} : latest' = [latest EXCEPT ![c] = hint]
  /\ order' \in Seq(Clients) /\ EachOnce(order')
  /\ Range(order') = IF q = <<>> THEN Range(order) \ {c} ELSE Range(order) \cup {c}

(* A change of one client's queue that goes with the list and the hint     *)
(* keeps all of them as they should be.                                    *)
LEMMA ListsFollow ==
  ASSUME Lists, NEW c \in Clients, NEW q \in Seq(Condition), ListsTo(c, q),
         \A x \in Range(q) : HasId(x)
  PROVE  Lists'
<1>1. queue' \in [Clients -> Seq(Condition)] /\ queue'[c] = q
      /\ \A d \in Clients : d # c => queue'[d] = queue[d]
  BY DEF Lists, ListsTo
<1>2. /\ latest' \in [Clients -> Nat] /\ latest'[c] \in {0, Len(q)}
      /\ \A d \in Clients : d # c => latest'[d] = latest[d]
  <2>1. Len(q) \in Nat
    OBVIOUS
  <2> QED BY <2>1 DEF Lists, ListsTo
<1>3. order' \in Seq(Clients) /\ EachOnce(order')
  BY DEF ListsTo
<1>4. Range(order') = {d \in Clients : queue'[d] # <<>>}
  <2>1. CASE q = <<>>
    BY <1>1, <2>1 DEF Lists, ListsTo
  <2>2. CASE q # <<>>
    BY <1>1, <2>2 DEF Lists, ListsTo
  <2> QED BY <2>1, <2>2
<1>5. \A d \in Clients : latest'[d] \in {0, Len(queue'[d])}
  BY <1>1, <1>2 DEF Lists
<1>6. \A d \in Clients : \A x \in Range(queue'[d]) : HasId(x)
  BY <1>1 DEF Lists
<1>7. EachOnce(order)' <=> EachOnce(order')
  BY DEF EachOnce
<1> QED BY <1>1, <1>2, <1>3, <1>4, <1>5, <1>6, <1>7 DEF Lists, HasId, EachOnce, Range

(* A client that is not listed may be added.                               *)
LEMMA ListedAtEnd ==
  ASSUME NEW S, NEW s \in Seq(S), EachOnce(s), NEW c \in S, c \notin Range(s)
  PROVE  Append(s, c) \in Seq(S) /\ EachOnce(Append(s, c)) /\ Range(Append(s, c)) = Range(s) \cup {c}
<1>1. /\ DOMAIN Append(s, c) = 1..(Len(s) + 1) /\ DOMAIN s = 1..Len(s) /\ Len(s) \in Nat
      /\ Append(s, c)[Len(s) + 1] = c /\ \A i \in 1..Len(s) : Append(s, c)[i] = s[i]
  OBVIOUS
<1>2. \A i \in 1..Len(s) : s[i] # c
  BY <1>1 DEF Range
<1>3. \A i \in 1..(Len(s) + 1) : i \in 1..Len(s) \/ i = Len(s) + 1
  BY <1>1
<1>4. EachOnce(Append(s, c))
  BY <1>1, <1>2, <1>3 DEF EachOnce
<1> QED BY <1>4, RangeOfAppend

(* ntfy_remove takes one client off the list and leaves the others.        *)
LEMMA UnlistedIs ==
  ASSUME order \in Seq(Clients), EachOnce(order), NEW c
  PROVE  /\ Unlisted(c) \in Seq(Clients) /\ EachOnce(Unlisted(c))
         /\ Range(Unlisted(c)) = Range(order) \ {c}
<1>1. CASE c \notin Range(order)
  BY <1>1 DEF Unlisted
<1>2. CASE c \in Range(order)
  <2> DEFINE p == CHOOSE i \in DOMAIN order : order[i] = c
             s == RemoveAt(order, p)
             N == Len(order)
  <2>1. p \in DOMAIN order /\ order[p] = c
    BY <1>2 DEF Range
  <2>2. DOMAIN order = 1..N /\ N \in Nat
    OBVIOUS
  <2> HIDE DEF p
  <2>3. p \in 1..Len(order) /\ p \in Nat /\ 1 <= p /\ p <= N
    BY <2>1, <2>2
  <2>4. /\ s \in Seq(Clients) /\ Len(s) = N - 1
        /\ \A i \in 1..(N - 1) : s[i] = IF i < p THEN order[i] ELSE order[i + 1]
    BY <2>3, Removed
  <2>5. Unlisted(c) = s
    BY <1>2 DEF Unlisted, p
  <2> HIDE DEF s, N
  <2>6. DOMAIN s = 1..(N - 1)
    BY <2>4, <2>2, <2>3
  <2>7. \A i \in 1..(N - 1) : i \in 1..N /\ i + 1 \in 1..N
    BY <2>2
  <2>8. EachOnce(s)
    <3> SUFFICES ASSUME NEW i \in 1..(N - 1), NEW j \in 1..(N - 1), s[i] = s[j] PROVE i = j
      BY <2>6 DEF EachOnce
    <3>1. \A m, n \in 1..N : order[m] = order[n] => m = n
      BY <2>2 DEF EachOnce
    <3> QED BY <3>1, <2>2, <2>3, <2>4, <2>7
  <2>9. Range(s) = Range(order) \ {c}
    <3>1. \A i \in 1..(N - 1) : s[i] \in Range(order) /\ s[i] # c
      <4> TAKE i \in 1..(N - 1)
      <4>1. PICK j \in 1..N : s[i] = order[j] /\ j # p
        BY <2>2, <2>3, <2>4, <2>7
      <4> QED BY <4>1, <2>1, <2>2 DEF Range, EachOnce
    <3>2. \A d \in Range(order) \ {c} : \E i \in 1..(N - 1) : s[i] = d
      <4> TAKE d \in Range(order) \ {c}
      <4>1. PICK j \in 1..N : order[j] = d /\ j # p
        BY <2>1, <2>2 DEF Range
      <4>2. CASE j < p
        BY <4>1, <4>2, <2>2, <2>3, <2>4
      <4>3. CASE ~ (j < p)
        <5>1. j - 1 \in 1..(N - 1) /\ ~ (j - 1 < p) /\ (j - 1) + 1 = j
          BY <4>1, <4>3, <2>2, <2>3
        <5> QED BY <5>1, <4>1, <2>4
      <4> QED BY <4>2, <4>3
    <3> QED BY <3>1, <3>2, <2>6 DEF Range
  <2> QED BY <2>4, <2>5, <2>8, <2>9
<1> QED BY <1>1, <1>2

(* ndis_enqueue adds the condition at the end, and lists the client.       *)
LEMMA EnqueueTo ==
  ASSUME Lists, NEW c \in Clients, NEW x \in Condition, Enqueue(c, x)
  PROVE  \E q \in Seq(Condition) : /\ q = Append(queue[c], x) /\ Range(q) = Range(queue[c]) \cup {x}
                                   /\ ListsTo(c, q)
<1> DEFINE q == Append(queue[c], x)
<1>1. queue[c] \in Seq(Condition) /\ Len(queue[c]) \in Nat
  BY DEF Lists
<1>2. q \in Seq(Condition) /\ q # <<>> /\ Len(q) = Len(queue[c]) + 1
  BY <1>1
<1>3. Range(q) = Range(queue[c]) \cup {x}
  BY <1>1, RangeOfAppend
<1>4. queue' = [queue EXCEPT ![c] = q] /\ latest' = [latest EXCEPT ![c] = Len(q)]
  BY <1>2 DEF Enqueue
<1>5. order' \in Seq(Clients) /\ EachOnce(order') /\ Range(order') = Range(order) \cup {c}
  <2>1. CASE c \in Range(order)
    BY <2>1 DEF Enqueue, Lists
  <2>2. CASE c \notin Range(order)
    <3>1. order' = Append(order, c)
      BY <2>2 DEF Enqueue
    <3> QED BY <3>1, <2>2, ListedAtEnd DEF Lists
  <2> QED BY <2>1, <2>2
<1> HIDE DEF q
<1>6. ListsTo(c, q)
  BY <1>2, <1>4, <1>5 DEF ListsTo
<1> QED BY <1>2, <1>3, <1>6 DEF q

(* What CHOOSE gives as the first of some places is the first.             *)
LEMMA FirstIs ==
  ASSUME NEW T, T \subseteq Nat, T # {}
  PROVE  /\ (CHOOSE p \in T : \A q \in T : p <= q) \in T
         /\ \A q \in T : (CHOOSE p \in T : \A r \in T : p <= r) <= q
BY Least

(* ntfy_find_condition finds a condition that fits, if there is one.       *)
LEMMA FindIs ==
  ASSUME Lists, NEW c \in Clients, NEW matching, matching \subseteq DOMAIN queue[c], matching # {}
  PROVE  Find(c, matching) \in matching
<1>1. matching \subseteq Nat
  BY DEF Lists
<1> QED BY <1>1, FirstIs DEF Find

(* Removing a condition adds none.                                         *)
LEMMA RangeOfRemoved ==
  ASSUME NEW S, NEW q \in Seq(S), NEW p \in 1..Len(q)
  PROVE  Range(RemoveAt(q, p)) \subseteq Range(q)
<1>1. /\ RemoveAt(q, p) \in Seq(S) /\ Len(RemoveAt(q, p)) = Len(q) - 1
      /\ \A i \in 1..(Len(q) - 1) : RemoveAt(q, p)[i] = IF i < p THEN q[i] ELSE q[i + 1]
  BY Removed
<1>2. Len(q) \in Nat /\ DOMAIN q = 1..Len(q) /\ DOMAIN RemoveAt(q, p) = 1..(Len(q) - 1)
  BY <1>1
<1>3. \A i \in 1..(Len(q) - 1) : i \in 1..Len(q) /\ i + 1 \in 1..Len(q)
  BY <1>2
<1> QED BY <1>1, <1>2, <1>3 DEF Range

(* ntfy_unset_condition removes one condition, and the client with its     *)
(* last one.                                                               *)
LEMMA UnsetTo ==
  ASSUME Lists, NEW c \in Clients, NEW p \in DOMAIN queue[c], Unset(c, p)
  PROVE  \E q \in Seq(Condition) : /\ q = RemoveAt(queue[c], p) /\ Range(q) \subseteq Range(queue[c])
                                   /\ ListsTo(c, q)
<1> DEFINE q == RemoveAt(queue[c], p)
<1>1. queue[c] \in Seq(Condition) /\ Len(queue[c]) \in Nat /\ p \in 1..Len(queue[c])
  BY DEF Lists
<1>2. q \in Seq(Condition) /\ Len(q) = Len(queue[c]) - 1
  BY <1>1, Removed
<1>3. Range(q) \subseteq Range(queue[c])
  BY <1>1, RangeOfRemoved
<1>4. queue' = [queue EXCEPT ![c] = q] /\ latest' = [latest EXCEPT ![c] = 0]
  BY DEF Unset
<1>5. q = <<>> <=> Len(queue[c]) = 1
  <2> HIDE DEF q
  <2>1. q = <<>> <=> Len(q) = 0
    BY <1>2, RangeIs
  <2> QED BY <2>1, <1>1, <1>2
<1>6. c \in Range(order)
  BY <1>1 DEF Lists
<1>7. order' = IF q = <<>> THEN Unlisted(c) ELSE order
  BY <1>5 DEF Unset
<1> HIDE DEF q
<1>8. ListsTo(c, q)
  <2>1. order' \in Seq(Clients) /\ EachOnce(order')
        /\ Range(order') = IF q = <<>> THEN Range(order) \ {c} ELSE Range(order) \cup {c}
    BY <1>6, <1>7, UnlistedIs DEF Lists
  <2> QED BY <1>4, <2>1 DEF ListsTo
<1> QED BY <1>2, <1>3, <1>8 DEF q

(* notify_flush_pending leaves nothing pending for the client.             *)
LEMMA FlushTo ==
  ASSUME Lists, NEW c \in Clients, Flush(c)
  PROVE  ListsTo(c, <<>>)
<1>1. order' \in Seq(Clients) /\ EachOnce(order') /\ Range(order') = Range(order) \ {c}
  BY UnlistedIs DEF Flush, Lists
<1> QED BY <1>1 DEF Flush, ListsTo

(* What ndis_flush_condition leaves: nothing of the kinds, but for the     *)
(* children, of which it takes one.                                        *)
LEMMA LeftIs ==
  ASSUME Lists, NEW c \in Clients, NEW kinds \in SUBSET Kinds
  PROVE  /\ Left(c, kinds) \in Seq(Condition) /\ Range(Left(c, kinds)) \subseteq Range(queue[c])
         /\ kinds # {"wait3"} => Range(Left(c, kinds)) = {x \in Range(queue[c]) : x.kind \notin kinds}
<1>1. queue[c] \in Seq(Condition) /\ Len(queue[c]) \in Nat /\ DOMAIN queue[c] = 1..Len(queue[c])
  BY DEF Lists
<1> DEFINE flushed == {p \in DOMAIN queue[c] : queue[c][p].kind \in kinds}
<1>2. CASE kinds = {"wait3"} /\ flushed # {}
  <2> DEFINE p == CHOOSE p \in flushed : \A q \in flushed : p <= q
  <2>1. p \in flushed
    <3> HIDE DEF flushed
    <3>1. flushed \subseteq Nat
      BY <1>1 DEF flushed
    <3> QED BY <3>1, <1>2, FirstIs
  <2>2. p \in 1..Len(queue[c])
    BY <2>1, <1>1
  <2>3. Left(c, kinds) = RemoveAt(queue[c], p)
    BY <1>2 DEF Left
  <2> HIDE DEF p
  <2> QED BY <1>1, <1>2, <2>2, <2>3, Removed, RangeOfRemoved
<1>3. CASE ~ (kinds = {"wait3"} /\ flushed # {})
  <2>1. Left(c, kinds) = OfKinds(queue[c], Kinds \ kinds)
    BY <1>3 DEF Left
  <2>2. /\ OfKinds(queue[c], Kinds \ kinds) \in Seq(Condition)
        /\ Range(OfKinds(queue[c], Kinds \ kinds)) = {x \in Range(queue[c]) : x.kind \in Kinds \ kinds}
    BY <1>1, OfKindsRange
  <2>3. \A x \in Range(queue[c]) : x.kind \in Kinds
    <3>1. Range(queue[c]) \subseteq Condition
      BY <1>1, RangeIs
    <3> QED BY <3>1 DEF Condition
  <2> QED BY <2>1, <2>2, <2>3
<1> QED BY <1>2, <1>3

(* Flushing kinds changes the lists together.                              *)
LEMMA FlushKindsTo ==
  ASSUME Lists, NEW c \in Clients, NEW kinds \in SUBSET Kinds, FlushKinds(c, kinds)
  PROVE  ListsTo(c, Left(c, kinds))
<1> DEFINE q == Left(c, kinds)
<1>1. q \in Seq(Condition) /\ Range(q) \subseteq Range(queue[c])
  BY LeftIs
<1>2. /\ queue' = [queue EXCEPT ![c] = q]
      /\ latest' = [latest EXCEPT ![c] = IF q = queue[c] THEN latest[c] ELSE 0]
      /\ order' = IF q = <<>> THEN Unlisted(c) ELSE order
  BY DEF FlushKinds, Lists
<1> HIDE DEF q
<1>3. \E hint \in {0, Len(q)} : latest' = [latest EXCEPT ![c] = hint]
  BY <1>2 DEF Lists
<1>4. order' \in Seq(Clients) /\ EachOnce(order')
      /\ Range(order') = IF q = <<>> THEN Range(order) \ {c} ELSE Range(order) \cup {c}
  <2>1. CASE q = <<>>
    BY <2>1, <1>2, UnlistedIs DEF Lists
  <2>2. CASE q # <<>>
    <3>1. Range(q) # {}
      BY <1>1, <2>2, RangeIs
    <3>2. queue[c] # <<>>
      BY <1>1, <3>1, RangeIs DEF Lists
    <3>3. c \in Range(order)
      BY <3>2 DEF Lists
    <3> QED BY <1>2, <2>2, <3>3 DEF Lists
  <2> QED BY <2>1, <2>2
<1>5. ListsTo(c, q)
  BY <1>2, <1>3, <1>4 DEF ListsTo
<1> QED BY <1>5 DEF q

(* A function that is called a last time is unset, and the notification is *)
(* put behind what is left.                                                *)
LEMMA ExpireTo ==
  ASSUME Lists, NEW c \in Clients, NEW kind \in Detected, Expire(c, kind)
  PROVE  \E q \in Seq(Condition), x \in Condition :
            /\ x = [kind |-> kind, code |-> 0, id |-> 0]
            /\ q = Append(Left(c, {kind}), x)
            /\ Range(q) = Range(Left(c, {kind})) \cup {x} /\ ListsTo(c, q)
<1> DEFINE left == Left(c, {kind})
           x == [kind |-> kind, code |-> 0, id |-> 0]
           q == Append(left, x)
<1>1. left \in Seq(Condition) /\ Range(left) \subseteq Range(queue[c]) /\ Len(left) \in Nat
  <2>1. {kind} \in SUBSET Kinds
    BY DEF Kinds
  <2>2. left \in Seq(Condition) /\ Range(left) \subseteq Range(queue[c])
    BY <2>1, LeftIs
  <2> HIDE DEF left
  <2> QED BY <2>2
<1>2. x \in Condition
  BY DEF Condition, Kinds
<1>3. /\ queue' = [queue EXCEPT ![c] = q] /\ latest' = [latest EXCEPT ![c] = Len(left) + 1]
      /\ order' = IF left = <<>> THEN Append(Unlisted(c), c) ELSE order
  BY DEF Expire
<1> HIDE DEF left, x
<1>4. q \in Seq(Condition) /\ q # <<>> /\ Len(q) = Len(left) + 1
  BY <1>1, <1>2
<1>5. Range(q) = Range(left) \cup {x}
  BY <1>1, <1>2, RangeOfAppend
<1>6. order' \in Seq(Clients) /\ EachOnce(order') /\ Range(order') = Range(order) \cup {c}
  <2>1. CASE left = <<>>
    <3> DEFINE s == Unlisted(c)
    <3>1. s \in Seq(Clients) /\ EachOnce(s) /\ Range(s) = Range(order) \ {c}
      BY UnlistedIs DEF Lists
    <3>2. order' = Append(s, c)
      BY <1>3, <2>1
    <3> HIDE DEF s
    <3> QED BY <3>1, <3>2, ListedAtEnd
  <2>2. CASE left # <<>>
    <3>1. Range(left) # {}
      BY <1>1, <2>2 DEF Range
    <3>2. c \in Range(order)
      BY <1>1, <3>1 DEF Lists, Range
    <3> QED BY <1>3, <2>2, <3>2 DEF Lists
  <2> QED BY <2>1, <2>2
<1> HIDE DEF q
<1>7. ListsTo(c, q)
  BY <1>3, <1>4, <1>6 DEF ListsTo
<1> QED BY <1>2, <1>4, <1>5, <1>7 DEF q, x, left

-----------------------------------------------------------------------------
(* The inductive invariant that needs no assumption: types, lists, and     *)
(* which activation may rest on which.                                     *)

(* A call for an event has the event's number.                             *)
CallHasId(f) ==
  f.f = "call" /\ (f.kind = "event" \/ f.how \in {"safe", "hinted"}) => f.kind = "event" /\ f.id \in Ids

(* The activations that can be called from the main program.               *)
OnBottom(f) == f.f \in {"sched", "copy"} \/ (f.f = "call" /\ f.how # "queued")

(* Which activation is called by which: a function calls the notifier, the *)
(* scheduler calls notify_client, and that calls functions of its own      *)
(* client.                                                                 *)
Rests(f, g) ==
  \/ OnBottom(f) /\ g.f = "call"
  \/ f.f = "client" /\ g.f = "sched"
  \/ f.f = "call" /\ f.how = "queued" /\ g.f = "client" /\ g.c = f.c

NestedIn(st) ==
  /\ st \in Seq(Frame)
  /\ \A k \in DOMAIN st : /\ CallHasId(st[k])
                          /\ IF k = 1 THEN OnBottom(st[k]) ELSE Rests(st[k], st[k - 1])

(* The arrays hold events.                                                 *)
EventsKnown == \A x \in Range(events) : x.kind = "event" /\ HasId(x)

(* While a copy function runs its client has a safe function: no call of a *)
(* client can come between.                                                *)
CopyWanted == At("copy") => "safe" \in funcs[Top.c]

Base == TypeOK /\ Lists /\ EventsKnown /\ NestedIn(stack) /\ CopyWanted /\ StillWanted

(* What the top of such a stack is, and that the rest is such a stack.     *)
LEMMA TopIs ==
  ASSUME NEW st, NestedIn(st), st # <<>>
  PROVE  /\ Last(st) \in Frame /\ CallHasId(Last(st)) /\ NestedIn(Front(st))
         /\ st = Append(Front(st), Last(st)) /\ Len(Front(st)) = Len(st) - 1
         /\ IF Front(st) = <<>> THEN OnBottom(Last(st)) ELSE Rests(Last(st), Last(Front(st)))
<1>1. st \in Seq(Frame)
  BY DEF NestedIn
<1>2. /\ Len(st) \in Nat /\ Len(st) >= 1 /\ st[Len(st)] \in Frame /\ Last(st) = st[Len(st)]
      /\ Front(st) \in Seq(Frame) /\ Len(Front(st)) = Len(st) - 1
      /\ \A i \in 1..(Len(st) - 1) : Front(st)[i] = st[i]
      /\ st = Append(Front(st), Last(st))
  BY <1>1, FrontAndLast
<1>3. DOMAIN st = 1..Len(st) /\ DOMAIN Front(st) = 1..(Len(st) - 1)
  BY <1>1, <1>2
<1>4. CallHasId(Last(st)) /\ IF Len(st) = 1 THEN OnBottom(Last(st)) ELSE Rests(Last(st), st[Len(st) - 1])
  BY <1>2, <1>3 DEF NestedIn
<1>5. Len(st) # 1 => Front(st) # <<>> /\ Last(Front(st)) = st[Len(st) - 1]
  <2> SUFFICES ASSUME Len(st) # 1 PROVE Front(st) # <<>> /\ Last(Front(st)) = st[Len(st) - 1]
    OBVIOUS
  <2>1. Len(st) - 1 \in 1..(Len(st) - 1)
    BY <1>2
  <2>2. Front(st) # <<>>
    BY <2>1, <1>2, RangeIs
  <2> QED BY <2>1, <2>2, <1>2 DEF Last
<1>6. Len(st) = 1 => Front(st) = <<>>
  BY <1>2, RangeIs
<1>7. NestedIn(Front(st))
  <2> SUFFICES ASSUME NEW k \in 1..(Len(st) - 1)
               PROVE  /\ CallHasId(Front(st)[k])
                      /\ IF k = 1 THEN OnBottom(Front(st)[k]) ELSE Rests(Front(st)[k], Front(st)[k - 1])
    BY <1>2, <1>3 DEF NestedIn
  <2>1. k \in 1..Len(st) /\ (k # 1 => k - 1 \in 1..(Len(st) - 1))
    BY <1>2
  <2> QED BY <2>1, <1>2, <1>3 DEF NestedIn
<1> QED BY <1>2, <1>4, <1>5, <1>6, <1>7

(* Pushing what may rest on the top.                                       *)
LEMMA PushIs ==
  ASSUME NEW st, NestedIn(st), NEW f \in Frame, CallHasId(f),
         IF st = <<>> THEN OnBottom(f) ELSE Rests(f, Last(st))
  PROVE  NestedIn(Append(st, f))
<1> DEFINE N == Len(st)
<1>1. st \in Seq(Frame) /\ N \in Nat /\ DOMAIN st = 1..N
  BY DEF NestedIn
<1>2. /\ Append(st, f) \in Seq(Frame) /\ DOMAIN Append(st, f) = 1..(N + 1)
      /\ Append(st, f)[N + 1] = f /\ \A i \in 1..N : Append(st, f)[i] = st[i]
  BY <1>1
<1>3. ASSUME NEW k \in 1..(N + 1)
      PROVE  /\ CallHasId(Append(st, f)[k])
             /\ IF k = 1 THEN OnBottom(Append(st, f)[k]) ELSE Rests(Append(st, f)[k], Append(st, f)[k - 1])
  <2>1. CASE k \in 1..N
    <3>1. k # 1 => k - 1 \in 1..N
      BY <2>1, <1>1
    <3> QED BY <3>1, <2>1, <1>1, <1>2 DEF NestedIn
  <2>2. CASE k = N + 1
    <3>1. st = <<>> <=> N = 0
      BY <1>1, RangeIs
    <3>2. N # 0 => Append(st, f)[N] = Last(st)
      <4>1. N # 0 => N \in 1..N
        BY <1>1
      <4> QED BY <4>1, <1>2 DEF Last
    <3>3. k = 1 <=> N = 0
      BY <2>2, <1>1
    <3>4. k - 1 = N
      BY <2>2, <1>1
    <3> QED BY <3>1, <3>2, <3>3, <3>4, <2>2, <1>2
  <2>3. k \in 1..N \/ k = N + 1
    BY <1>1
  <2> QED BY <2>1, <2>2, <2>3
<1> QED BY <1>2, <1>3 DEF NestedIn

(* The number of the event that is posted next.                            *)
LEMMA NextId ==
  ASSUME posts \in 0..Len(CodeOf), posts < Len(CodeOf)
  PROVE  posts + 1 \in Ids /\ CodeOf[posts + 1] \in Codes /\ posts + 1 \in 0..Len(CodeOf)
<1>1. Len(CodeOf) \in Nat /\ DOMAIN CodeOf = 1..Len(CodeOf)
  BY ConstantsAssumption
<1>2. posts + 1 \in 1..Len(CodeOf) /\ posts + 1 \in 0..Len(CodeOf)
  BY <1>1
<1> QED BY <1>1, <1>2 DEF Ids, Codes

(* One client's queue changes, and what is in it afterwards is wanted.     *)
Moved(c) ==
  \E q \in Seq(Condition) : /\ ListsTo(c, q) /\ \A x \in Range(q) : HasId(x) /\ Wanted(x, funcs'[c])
                            /\ \A d \in Clients : d # c => funcs'[d] = funcs[d]

(* All that is pending for a client is wanted, and events are numbered.    *)
LEMMA AllWanted ==
  ASSUME Lists, StillWanted, NEW c \in Clients
  PROVE  \A x \in Range(queue[c]) : HasId(x) /\ Wanted(x, funcs[c])
BY DEF Lists, StillWanted, Wanted, Range

(* Enqueueing what is wanted.                                              *)
LEMMA EnqueueMoves ==
  ASSUME Lists, StillWanted, NEW c \in Clients, NEW x \in Condition, HasId(x), Wanted(x, funcs[c]),
         Enqueue(c, x), funcs' = funcs
  PROVE  Moved(c)
BY EnqueueTo, AllWanted DEF Moved

(* Removing a condition.                                                   *)
LEMMA UnsetMoves ==
  ASSUME Lists, StillWanted, NEW c \in Clients, NEW p \in DOMAIN queue[c], Unset(c, p), funcs' = funcs
  PROVE  Moved(c)
BY UnsetTo, AllWanted DEF Moved

(* Flushing a client that may lose its functions.                          *)
LEMMA FlushMoves ==
  ASSUME Lists, NEW c \in Clients, Flush(c), \A d \in Clients : d # c => funcs'[d] = funcs[d]
  PROVE  Moved(c)
<1>1. ListsTo(c, <<>>) /\ <<>> \in Seq(Condition)
  BY FlushTo
<1>2. Range(<<>>) = {}
  BY <1>1, RangeIs
<1> QED BY <1>1, <1>2 DEF Moved

(* Unsetting a function flushes just the kinds nobody wants any more.      *)
LEMMA UnsetFuncMoves ==
  ASSUME Lists, StillWanted, funcs \in [Clients -> SUBSET Funcs], NEW c \in Clients, NEW type \in Funcs,
         FlushKinds(c, KindsOf(type)), Unsettle(c, type)
  PROVE  Moved(c)
<1>1. KindsOf(type) \in SUBSET Kinds
  BY DEF KindsOf, Funcs, Kinds, Detected, Destroy
<1> DEFINE q == Left(c, KindsOf(type))
<1>2. /\ q \in Seq(Condition) /\ Range(q) \subseteq Range(queue[c])
      /\ KindsOf(type) # {"wait3"} => Range(q) = {x \in Range(queue[c]) : x.kind \notin KindsOf(type)}
  BY <1>1, LeftIs
<1>3. ListsTo(c, q)
  BY <1>1, FlushKindsTo
<1> HIDE DEF q
<1>4. funcs'[c] = funcs[c] \ {type} /\ \A d \in Clients : d # c => funcs'[d] = funcs[d]
  BY DEF Unsettle
<1>5. ASSUME NEW x \in Range(q) PROVE HasId(x) /\ Wanted(x, funcs'[c])
  <2>1. HasId(x) /\ Wanted(x, funcs[c])
    BY <1>2, AllWanted
  <2>2. CASE x.kind \in OneShot
    BY <2>1, <2>2 DEF Wanted
  <2>3. CASE x.kind \notin OneShot
    <3>1. x.kind \notin KindsOf(type)
      BY <1>2, <2>3 DEF OneShot
    <3> QED BY <2>1, <2>3, <3>1, <1>4 DEF Wanted
  <2> QED BY <2>2, <2>3
<1> QED BY <1>2, <1>3, <1>4, <1>5 DEF Moved

(* Unsetting a timer or child before its last notification is enqueued:    *)
(* that one is of a kind that may outlive its function.                    *)
LEMMA ExpireMoves ==
  ASSUME Lists, StillWanted, funcs \in [Clients -> SUBSET Funcs], NEW c \in Clients, NEW kind \in OneShot,
         Expire(c, kind)
  PROVE  Moved(c)
<1>1. kind \in Detected /\ {kind} \in SUBSET Kinds
  BY DEF OneShot, Kinds, Detected
<1>2. PICK q \in Seq(Condition), x \in Condition :
            /\ x = [kind |-> kind, code |-> 0, id |-> 0]
            /\ Range(q) = Range(Left(c, {kind})) \cup {x} /\ ListsTo(c, q)
  BY <1>1, ExpireTo
<1>3. Range(Left(c, {kind})) \subseteq Range(queue[c])
      /\ (kind # "wait3" => Range(Left(c, {kind})) = {y \in Range(queue[c]) : y.kind # kind})
  BY <1>1, LeftIs
<1>4. funcs'[c] = funcs[c] \ {kind} /\ \A d \in Clients : d # c => funcs'[d] = funcs[d]
  BY DEF Expire, Unsettle
<1>5. HasId(x) /\ Wanted(x, funcs'[c])
  BY <1>2 DEF HasId, Wanted, OneShot
<1>6. ASSUME NEW y \in Range(Left(c, {kind})) PROVE HasId(y) /\ Wanted(y, funcs'[c])
  <2>1. HasId(y) /\ Wanted(y, funcs[c])
    BY <1>3, AllWanted
  <2>2. CASE y.kind \in OneShot
    BY <2>1, <2>2 DEF Wanted
  <2>3. CASE y.kind \notin OneShot
    <3>1. PICK type \in funcs[c] : y.kind \in KindsOf(type)
      BY <2>1, <2>3 DEF Wanted
    <3>2. type # kind
      BY <2>3, <3>1 DEF KindsOf, OneShot
    <3> QED BY <2>1, <3>1, <3>2, <1>4 DEF Wanted
  <2> QED BY <2>2, <2>3
<1> QED BY <1>2, <1>4, <1>5, <1>6 DEF Moved

(* No queue changes, and no client loses a function.                       *)
Kept == UNCHANGED listVars /\ \A d \in Clients : funcs[d] \subseteq funcs'[d]

ListsMove == Kept \/ \E c \in Clients : Moved(c)

(* The conditions that the actions enqueue.                                *)
LEMMA ConditionsMade ==
  /\ \A code \in Codes, id \in Ids : [kind |-> "event", code |-> code, id |-> id] \in Condition
  /\ \A kind \in Kinds : [kind |-> kind, code |-> 0, id |-> 0] \in Condition
BY DEF Condition, Kinds

(* Posting moves the lists in one of the two ways.                         *)
LEMMA PostMoves ==
  ASSUME Base, NEW c \in Clients, NEW hint \in {"safe", "immediate"}, Post(c, hint)
  PROVE  ListsMove
<1>1. posts \in 0..Len(CodeOf) /\ funcs' = funcs
  BY DEF Base, TypeOK, Post
<1>2. posts + 1 \in Ids /\ CodeOf[posts + 1] \in Codes
  BY <1>1, NextId DEF Post
<1>3. UNCHANGED listVars => ListsMove
  BY <1>1 DEF ListsMove, Kept
<1>4. ASSUME NEW st, Queue(c, [kind |-> "event", code |-> CodeOf[posts + 1], id |-> posts + 1], st),
             "safe" \in funcs[c]
      PROVE  ListsMove
  <2> DEFINE x == [kind |-> "event", code |-> CodeOf[posts + 1], id |-> posts + 1]
  <2>1. x \in Condition /\ HasId(x) /\ Wanted(x, funcs[c])
    BY <1>2, <1>4, ConditionsMade DEF HasId, Wanted, KindsOf
  <2>2. Enqueue(c, x)
    BY <1>4 DEF Queue
  <2> HIDE DEF x
  <2> QED BY <1>1, <2>1, <2>2, EnqueueMoves DEF Base, ListsMove
<1> QED BY <1>3, <1>4 DEF Post

(* So does what the detector finds.                                        *)
LEMMA DetectMoves ==
  ASSUME Base, NEW c \in Clients, NEW kind \in Detected, Detect(c, kind)
  PROVE  ListsMove
<1>1. CASE Enqueue(c, [kind |-> kind, code |-> 0, id |-> 0]) /\ UNCHANGED <<funcs, processing>>
  <2> DEFINE x == [kind |-> kind, code |-> 0, id |-> 0]
  <2>1. x \in Condition
    BY ConditionsMade DEF Kinds
  <2>2. HasId(x)
    BY DEF HasId, Detected
  <2>3. kind \in funcs[c]
    BY DEF Detect
  <2>4. x.kind \in KindsOf(kind)
    BY DEF KindsOf, Detected
  <2>5. Wanted(x, funcs[c])
    BY <2>3, <2>4 DEF Wanted
  <2> HIDE DEF x
  <2>6. Enqueue(c, x)
    BY <1>1 DEF x
  <2> QED BY <1>1, <2>1, <2>2, <2>5, <2>6, EnqueueMoves DEF Base, ListsMove
<1>2. CASE kind \in OneShot /\ Expire(c, kind)
  BY <1>2, ExpireMoves DEF Base, TypeOK, ListsMove
<1> QED BY <1>1, <1>2 DEF Detect

(* So does taking what was found for notifying.                            *)
LEMMA TakenFromQueue ==
  ASSUME Base, NEW c \in Clients, NEW kind, NEW code, Matching(c, kind, code) # {},
         Unset(c, Find(c, Matching(c, kind, code))), funcs' = funcs
  PROVE  ListsMove
<1>1. Matching(c, kind, code) \subseteq DOMAIN queue[c]
  BY DEF Matching
<1>2. Find(c, Matching(c, kind, code)) \in DOMAIN queue[c]
  BY <1>1, FindIs DEF Base
<1> QED BY <1>2, UnsetMoves DEF Base, ListsMove

(* Every step moves the lists in one of the two ways.                      *)
LEMMA ListsMoveAlways ==
  ASSUME Base, Next
  PROVE  ListsMove
<1>0. UNCHANGED <<listVars, funcs>> => ListsMove
  BY DEF ListsMove, Kept
<1>1. CASE ScheduleNext \/ LeaveClient \/ LeaveDispatch \/ EventsDone \/ Dispatch
  BY <1>0, <1>1 DEF ScheduleNext, LeaveClient, LeaveDispatch, EventsDone, Dispatch, StartDispatch, detVars,
                    listVars
<1>2. CASE NotifyEvent
  <2>1. funcs' = funcs
    BY <1>2 DEF NotifyEvent
  <2>2. Top.c \in Clients
    <3>1. stack # <<>> /\ Top.f = "client"
      BY <1>2 DEF NotifyEvent, EventsTurn, At
    <3>2. Top \in Frame
      BY <3>1, TopIs DEF Base, Top
    <3> QED BY <3>1, <3>2, FrameFields
  <2> DEFINE m == Matching(Top.c, "event", events[Top.i].code)
  <2>3. CASE m = {}
    BY <1>0, <1>2, <2>1, <2>3 DEF NotifyEvent
  <2>4. CASE m # {}
    <3>1. Unset(Top.c, Find(Top.c, m))
      BY <1>2, <2>4 DEF NotifyEvent
    <3> QED BY <2>1, <2>2, <2>4, <3>1, TakenFromQueue
  <2> QED BY <2>3, <2>4
<1>3. CASE NotifyOther
  <2>1. funcs' = funcs
    BY <1>3 DEF NotifyOther
  <2>2. Top.c \in Clients
    <3>1. stack # <<>> /\ Top.f = "client"
      BY <1>3 DEF NotifyOther, At
    <3>2. Top \in Frame
      BY <3>1, TopIs DEF Base, Top
    <3> QED BY <3>1, <3>2, FrameFields
  <2> DEFINE m == Matching(Top.c, First(Top.bits), 0)
  <2>3. CASE m = {}
    BY <1>0, <1>3, <2>1, <2>3 DEF NotifyOther
  <2>4. CASE m # {}
    <3>1. Unset(Top.c, Find(Top.c, m))
      BY <1>3, <2>4 DEF NotifyOther
    <3> QED BY <2>1, <2>2, <2>4, <3>1, TakenFromQueue
  <2> QED BY <2>3, <2>4
<1>4. CASE EndCopy
  <2>1. funcs' = funcs /\ stack # <<>> /\ Top.f = "copy" /\ "safe" \in funcs[Top.c]
    BY <1>4 DEF EndCopy, detVars, At, Base, CopyWanted
  <2>2. Top \in Frame
    BY <2>1, TopIs DEF Base, Top
  <2>3. Top.c \in Clients /\ Top.id \in Ids /\ Top.code \in Codes
    BY <2>1, <2>2, FrameFields
  <2> DEFINE x == [kind |-> "event", code |-> Top.code, id |-> Top.id]
  <2>4. x \in Condition /\ HasId(x) /\ Wanted(x, funcs[Top.c])
    BY <2>1, <2>3, ConditionsMade DEF HasId, Wanted, KindsOf
  <2>5. Enqueue(Top.c, x)
    BY <1>4 DEF EndCopy, Queue
  <2> HIDE DEF x
  <2> QED BY <2>1, <2>3, <2>4, <2>5, EnqueueMoves DEF Base, ListsMove
<1>5. CASE ReturnEvent \/ ReturnDetected \/ Veto \/ Stop \/ Ignore \/ Start("start", "in") \/ Start("once", "stopping")
  BY <1>0, <1>5 DEF ReturnEvent, ReturnDetected, Veto, Stop, Ignore, Start, detVars, listVars
<1>6. CASE ReturnChecked \/ ReturnDestroyed
  <2>1. Top.c \in Clients
    <3>1. stack # <<>> /\ Top.f = "call"
      BY <1>6 DEF ReturnChecked, ReturnDestroyed, At
    <3>2. Top \in Frame
      BY <3>1, TopIs DEF Base, Top
    <3> QED BY <3>1, <3>2, FrameFields
  <2>2. CASE ReturnChecked
    <3>1. funcs' = funcs
      BY <2>2 DEF ReturnChecked, detVars
    <3>2. UNCHANGED listVars \/ Flush(Top.c)
      BY <2>2 DEF ReturnChecked
    <3> QED BY <1>0, <2>1, <3>1, <3>2, FlushMoves DEF Base, ListsMove
  <2>3. CASE ReturnDestroyed
    <3>1. UNCHANGED <<funcs, listVars>> \/ RemoveClient(Top.c)
      BY <2>3 DEF ReturnDestroyed
    <3> QED BY <1>0, <2>1, <3>1, FlushMoves DEF Base, TypeOK, ListsMove, RemoveClient
  <2> QED BY <1>6, <2>2, <2>3
<1>7. ASSUME NEW c \in Clients, NEW hint \in {"safe", "immediate"}, Post(c, hint) PROVE ListsMove
  BY <1>7, PostMoves
<1>8. ASSUME NEW c \in Clients, PostAsync(c) PROVE ListsMove
  <2>1. posts + 1 \in Ids /\ CodeOf[posts + 1] \in Codes /\ funcs' = funcs /\ "safe" \in funcs[c]
    BY <1>8, NextId DEF Base, TypeOK, PostAsync, detVars
  <2> DEFINE x == [kind |-> "event", code |-> CodeOf[posts + 1], id |-> posts + 1]
  <2>2. x \in Condition /\ HasId(x) /\ Wanted(x, funcs[c])
    BY <2>1, ConditionsMade DEF HasId, Wanted, KindsOf
  <2>3. Enqueue(c, x)
    BY <1>8 DEF PostAsync
  <2> HIDE DEF x
  <2> QED BY <2>1, <2>2, <2>3, EnqueueMoves DEF Base, ListsMove
<1>9. ASSUME NEW c \in Clients, NEW status \in program.statuses,
             DestroyNow(c, status) \/ DestroyLater(c, status)
      PROVE  ListsMove
  <2>1. CASE DestroyNow(c, status)
    BY <1>0, <2>1 DEF DestroyNow
  <2>2. CASE DestroyLater(c, status)
    <3>1. status \in Destroy /\ funcs' = funcs /\ "destroy" \in funcs[c]
      BY <2>2, ConstantsAssumption DEF DestroyLater, detVars, Base, TypeOK, Program
    <3> DEFINE x == [kind |-> status, code |-> 0, id |-> 0]
    <3>2. x \in Condition /\ HasId(x)
      BY <3>1, ConditionsMade DEF HasId, Kinds, Destroy
    <3>3. Wanted(x, funcs[c])
      BY <3>1 DEF Wanted, KindsOf
    <3>4. Enqueue(c, x)
      BY <2>2 DEF DestroyLater, Queue
    <3> HIDE DEF x
    <3> QED BY <3>1, <3>2, <3>3, <3>4, EnqueueMoves DEF Base, ListsMove
  <2> QED BY <1>9, <2>1, <2>2
<1>10. ASSUME NEW c \in Clients, FlushPending(c) \/ NotifyRemove(c) PROVE ListsMove
  <2>1. CASE FlushPending(c)
    BY <2>1, FlushMoves DEF FlushPending, detVars, Base, ListsMove
  <2>2. CASE NotifyRemove(c)
    BY <2>2, FlushMoves DEF NotifyRemove, RemoveClient, Base, TypeOK, ListsMove
  <2> QED BY <1>10, <2>1, <2>2
<1>11. ASSUME NEW c \in Clients, NEW type \in Funcs, SetFunc(c, type) \/ UnsetFunc(c, type) PROVE ListsMove
  <2>1. CASE SetFunc(c, type)
    BY <2>1 DEF SetFunc, Base, TypeOK, ListsMove, Kept
  <2>2. CASE UnsetFunc(c, type)
    BY <2>2, UnsetFuncMoves DEF UnsetFunc, Base, TypeOK, ListsMove
  <2> QED BY <1>11, <2>1, <2>2
<1>12. ASSUME NEW c \in Clients, NEW kind \in Detected, Detect(c, kind) PROVE ListsMove
  BY <1>12, DetectMoves
<1> QED
  BY <1>1, <1>2, <1>3, <1>4, <1>5, <1>6, <1>7, <1>8, <1>9, <1>10, <1>11, <1>12
  DEF Next, Notifier, Returns, Clientele

(* So every step keeps the lists as they should be, and only what is       *)
(* wanted pending.                                                         *)
LEMMA ListsStep ==
  ASSUME Base, ListsMove
  PROVE  Lists' /\ StillWanted'
<1>1. CASE Kept
  <2>1. Lists'
    BY <1>1 DEF Base, Kept, listVars, Lists, EachOnce, Range, HasId
  <2>2. StillWanted'
    BY <1>1 DEF Base, Kept, listVars, StillWanted
  <2> QED BY <2>1, <2>2
<1>2. ASSUME NEW c \in Clients, Moved(c) PROVE Lists' /\ StillWanted'
  <2>1. PICK q \in Seq(Condition) : /\ ListsTo(c, q)
                                    /\ \A x \in Range(q) : HasId(x) /\ Wanted(x, funcs'[c])
                                    /\ \A d \in Clients : d # c => funcs'[d] = funcs[d]
    BY <1>2 DEF Moved
  <2>2. Lists'
    BY <2>1, ListsFollow DEF Base
  <2>3. queue'[c] = q /\ \A d \in Clients : d # c => queue'[d] = queue[d]
    BY <2>1 DEF ListsTo, Base, Lists
  <2>4. ASSUME NEW d \in Clients, NEW p \in DOMAIN queue'[d]
        PROVE  \/ queue'[d][p].kind \in OneShot
               \/ \E type \in funcs'[d] : queue'[d][p].kind \in KindsOf(type)
    <3>1. CASE d = c
      <4>1. q[p] \in Range(q)
        BY <3>1, <2>3, <2>4 DEF Range
      <4> QED BY <4>1, <3>1, <2>1, <2>3 DEF Wanted
    <3>2. CASE d # c
      BY <3>2, <2>1, <2>3, <2>4 DEF Base, StillWanted
    <3> QED BY <3>1, <3>2
  <2> QED BY <2>2, <2>4 DEF StillWanted
<1> QED BY <1>1, <1>2 DEF ListsMove

-----------------------------------------------------------------------------
(* The stack of such activations.                                          *)

(* The stack after a push.                                                 *)
LEMMA PushedIs ==
  ASSUME NEW st, NestedIn(st), NEW f \in Frame, CallHasId(f),
         IF st = <<>> THEN OnBottom(f) ELSE Rests(f, Last(st))
  PROVE  /\ NestedIn(Append(st, f)) /\ Append(st, f) # <<>>
         /\ Last(Append(st, f)) = f /\ Front(Append(st, f)) = st
<1>1. st \in Seq(Frame)
  BY DEF NestedIn
<1> QED BY <1>1, PushIs, LastOfAppend

(* The stack after a change of its top.                                    *)
LEMMA SetTopIs ==
  ASSUME NEW st, NestedIn(st), st # <<>>, NEW f \in Frame, CallHasId(f), f.f = Last(st).f,
         f.f \in {"client", "call"} => f.c = Last(st).c, f.f = "call" => f.how = Last(st).how
  PROVE  /\ NestedIn(SetTop(st, f)) /\ SetTop(st, f) # <<>>
         /\ Last(SetTop(st, f)) = f /\ Front(SetTop(st, f)) = Front(st)
<1>1. st \in Seq(Frame)
  BY DEF NestedIn
<1>2. SetTop(st, f) = Append(Front(st), f)
  BY <1>1, TopReplaced
<1>3. /\ NestedIn(Front(st))
      /\ IF Front(st) = <<>> THEN OnBottom(Last(st)) ELSE Rests(Last(st), Last(Front(st)))
  BY TopIs
<1>4. IF Front(st) = <<>> THEN OnBottom(f) ELSE Rests(f, Last(Front(st)))
  BY <1>3 DEF OnBottom, Rests
<1> QED BY <1>2, <1>3, <1>4, PushedIs

(* The stack is one that calls can build, and the client whose event is    *)
(* being copied has a safe function.                                       *)
StackIsGood(st, fs) ==
  NestedIn(st) /\ (st # <<>> /\ Last(st).f = "copy" => "safe" \in fs[Last(st).c])

(* A return leaves a function, the scheduler, the prioritizer or nothing   *)
(* on top: no copy function.                                               *)
LEMMA PoppedIsGood ==
  ASSUME NEW st, NestedIn(st), st # <<>>, NEW fs
  PROVE  StackIsGood(Front(st), fs)
<1>1. /\ NestedIn(Front(st))
      /\ IF Front(st) = <<>> THEN OnBottom(Last(st)) ELSE Rests(Last(st), Last(Front(st)))
  BY TopIs
<1> QED BY <1>1 DEF StackIsGood, Rests

(* The prioritizer turns to a kind that its bits have.                     *)
LEMMA FirstOfBits ==
  ASSUME NEW bits \in SUBSET Kinds, bits # {}
  PROVE  First(bits) \in bits
<1> DEFINE at == {i \in DOMAIN Rank : Rank[i] \in bits}
<1>1. DOMAIN Rank = 1..11
  BY DEF Rank
<1>2. \A kind \in Kinds : \E i \in 1..11 : Rank[i] = kind
  <2>1. /\ Rank[1] = "itimer" /\ Rank[2] = "wait3" /\ Rank[3] = "signal" /\ Rank[4] = "exception"
        /\ Rank[5] = "event" /\ Rank[6] = "output" /\ Rank[7] = "input" /\ Rank[8] = "check"
        /\ Rank[9] = "cleanup" /\ Rank[10] = "death" /\ Rank[11] = "save"
    BY DEF Rank
  <2>2. /\ 1 \in 1..11 /\ 2 \in 1..11 /\ 3 \in 1..11 /\ 4 \in 1..11 /\ 5 \in 1..11 /\ 6 \in 1..11
        /\ 7 \in 1..11 /\ 8 \in 1..11 /\ 9 \in 1..11 /\ 10 \in 1..11 /\ 11 \in 1..11
    OBVIOUS
  <2>3. SUFFICES ASSUME NEW kind \in Kinds PROVE \E i \in 1..11 : Rank[i] = kind
    OBVIOUS
  <2>4. kind \in {"itimer", "wait3", "signal", "exception", "output", "input", "check", "cleanup", "death",
                  "save", "event"}
    BY <2>3 DEF Kinds, Detected, Destroy
  <2> QED BY <2>1, <2>2, <2>4
<1>3. at # {} /\ at \subseteq Nat
  BY <1>1, <1>2
<1>4. First(bits) = Rank[CHOOSE i \in at : \A j \in at : i <= j]
  BY DEF First
<1> HIDE DEF at
<1>5. (CHOOSE i \in at : \A j \in at : i <= j) \in at
  BY <1>3, FirstIs
<1> QED BY <1>4, <1>5 DEF at

StackGood == StackIsGood(stack, funcs)

(* What the invariant says of the stack.                                   *)
LEMMA BaseStack ==
  ASSUME Base
  PROVE  /\ StackGood
         /\ stack # <<>> => /\ Top \in Frame /\ CallHasId(Top) /\ NestedIn(Below)
                            /\ IF Below = <<>> THEN OnBottom(Top) ELSE Rests(Top, Last(Below))
BY TopIs DEF Base, StackGood, StackIsGood, CopyWanted, At, Top, Below

(* The scheduler goes on to its next client.                               *)
LEMMA AdvanceIsGood ==
  ASSUME NEW st, NestedIn(st), st # <<>>, Last(st).f = "sched", Advance(st)
  PROVE  StackIsGood(stack', funcs') /\ sched' = [sched EXCEPT ![Last(st).i] = NoClient]
<1>0. Last(st) \in Frame /\ Last(st).i \in Nat \ {0}
  BY TopIs, FrameFields
<1>1. PICK i \in Nat \ {0} : i = Last(st).i + 1
  BY <1>0
<1> DEFINE f == [Last(st) EXCEPT !.i = i]
<1>2. f \in Frame /\ f.f = "sched"
  BY <1>0, FramesChanged
<1>3. stack' = SetTop(st, f)
  BY <1>1 DEF Advance
<1> HIDE DEF f
<1>4. CallHasId(f)
  BY <1>2 DEF CallHasId
<1>5. NestedIn(SetTop(st, f)) /\ Last(SetTop(st, f)) = f
  BY <1>2, <1>4, SetTopIs
<1> QED BY <1>2, <1>3, <1>5 DEF StackIsGood, Advance

(* notify_client fills the arrays with events and rests on the scheduler.  *)
LEMMA VisitIsGood ==
  ASSUME Lists, NEW st, NestedIn(st), st # <<>>, Last(st).f = "sched", NEW c \in Clients, Visit(c, st)
  PROVE  /\ StackIsGood(stack', funcs') /\ eventQueued' = FALSE
         /\ events' \in Seq(Condition) /\ \A x \in Range(events') : x.kind = "event" /\ HasId(x)
<1>1. queue[c] \in Seq(Condition) /\ \A x \in Range(queue[c]) : HasId(x)
  BY DEF Lists
<1> DEFINE bits == {"event"} \cup {queue[c][p].kind : p \in DOMAIN queue[c]}
           f == [f |-> "client", c |-> c, i |-> 1, bits |-> bits]
<1>2. \A p \in DOMAIN queue[c] : queue[c][p].kind \in Kinds
  <2>1. \A p \in DOMAIN queue[c] : queue[c][p] \in Condition
    BY <1>1
  <2> QED BY <2>1 DEF Condition
<1>3. bits \in SUBSET Kinds
  BY <1>2 DEF Kinds
<1> HIDE DEF bits
<1>4. f \in Frame /\ f.f = "client"
  <2>1. 1 \in Nat \ {0}
    OBVIOUS
  <2> QED BY <1>3, <2>1, FramesMade
<1>5. stack' = Append(st, f)
  BY DEF Visit, bits
<1> HIDE DEF f
<1>6. CallHasId(f) /\ Rests(f, Last(st))
  BY <1>4 DEF CallHasId, Rests
<1>7. StackIsGood(stack', funcs')
  BY <1>4, <1>5, <1>6, PushedIs DEF StackIsGood
<1>8. events' \in Seq(Condition) /\ Range(events') = {x \in Range(queue[c]) : x.kind \in {"event"}}
  BY <1>1, OfKindsRange DEF Visit
<1>9. \A x \in Range(events') : x.kind = "event" /\ HasId(x)
  BY <1>1, <1>8
<1> QED BY <1>7, <1>8, <1>9 DEF Visit

(* ndis_dispatch may be called from the main program or from a function.   *)
LEMMA DispatchIsGood ==
  ASSUME order' \in Seq(Clients), sched \in [Slots -> Clients \cup {NoClient}],
         NEW st, NestedIn(st), st = <<>> \/ Last(st).f = "call", StartDispatch(st)
  PROVE  StackIsGood(stack', funcs') /\ sched' \in [Slots -> Clients \cup {NoClient}]
<1> DEFINE f == [f |-> "sched", i |-> 1, n |-> Len(order')]
<1>1. Len(order') \in Nat /\ \A i \in 1..Len(order') : order'[i] \in Clients
  OBVIOUS
<1>2. f \in Frame /\ f.f = "sched"
  BY <1>1, FramesMade
<1>3. stack' = Append(st, f)
  BY DEF StartDispatch
<1> HIDE DEF f
<1>4. CallHasId(f) /\ OnBottom(f) /\ (st # <<>> => Rests(f, Last(st)))
  BY <1>2 DEF CallHasId, OnBottom, Rests
<1>5. StackIsGood(stack', funcs')
  BY <1>2, <1>3, <1>4, PushedIs DEF StackIsGood
<1>6. \A i \in Slots : i \in Nat /\ i >= 1
  BY DEF Slots
<1>7. \A i \in Slots : i <= Len(order') => i \in 1..Len(order')
  BY <1>1, <1>6
<1> QED BY <1>1, <1>5, <1>7 DEF StartDispatch

(* The types of what is neither list, array nor stack.                     *)
Scalars ==
  /\ program \in Programs /\ funcs \in [Clients -> SUBSET Funcs]
  /\ processing \subseteq Clients /\ vetoed \in BOOLEAN
  /\ loop \in {"out", "in", "stopping"} /\ eventQueued \in BOOLEAN
  /\ sched \in [Slots -> Clients \cup {NoClient}] /\ handed \in [Clients -> Seq(Ids)]
  /\ posts \in 0..Len(CodeOf) /\ calls \in 0..MaxCalls /\ detects \in 0..MaxDetects

EventsGood == events \in Seq(Condition) /\ EventsKnown

(* The invariant, in the parts that are proved one by one.                 *)
LEMMA BaseIs == Base <=> Scalars /\ EventsGood /\ StackGood /\ Lists /\ StillWanted
BY DEF Base, TypeOK, Scalars, EventsGood, StackGood, StackIsGood, NestedIn, Lists, CopyWanted, At, Top

(* The bound on calls.                                                     *)
LEMMA OneMoreCall ==
  ASSUME Scalars, NEW name, MayCallOnce(name) \/ (calls < MaxCalls /\ calls' = calls + 1), program' = program
  PROVE  calls' \in 0..MaxCalls'
<1>1. MaxCalls \in Nat /\ MaxCalls' = MaxCalls /\ calls \in 0..MaxCalls
  BY ConstantsAssumption DEF Scalars, MaxCalls, Program
<1>2. calls < MaxCalls /\ calls' = calls + 1
  BY DEF MayCallOnce
<1> HIDE DEF MaxCalls
<1> QED BY <1>1, <1>2

(* One more event in what was handed to a client.                          *)
LEMMA HandedMore ==
  ASSUME Scalars, NEW c \in Clients, NEW id \in Ids, handed' = [handed EXCEPT ![c] = Append(@, id)]
  PROVE  handed' \in [Clients -> Seq(Ids)]
<1>1. handed[c] \in Seq(Ids) /\ handed \in [Clients -> Seq(Ids)]
  BY DEF Scalars
<1>2. Append(handed[c], id) \in Seq(Ids)
  BY <1>1
<1> QED BY <1>1, <1>2

(* notify_flush_pending writes NOTIFY_CLIENT_NULL into the table.          *)
LEMMA SchedFlushed ==
  ASSUME Scalars, NEW c, Flush(c)
  PROVE  sched' \in [Slots -> Clients \cup {NoClient}]
BY DEF Scalars, Flush

(* What is known when a function runs.                                     *)
LEMMA TopCall ==
  ASSUME Base, At("call")
  PROVE  /\ stack # <<>> /\ Top.f = "call" /\ Top.c \in Clients /\ Top.kind \in Kinds
         /\ Top.how \in {"hinted", "safe"} => Top.id \in Ids
<1>1. stack # <<>> /\ Top.f = "call"
  BY DEF At
<1>2. Top \in Frame /\ CallHasId(Top)
  BY <1>1, BaseStack
<1> QED BY <1>1, <1>2, FrameFields DEF CallHasId

(* What is known when notify_client runs.                                  *)
LEMMA TopClientIs ==
  ASSUME Base, At("client")
  PROVE  /\ stack # <<>> /\ Top.f = "client" /\ Top.c \in Clients /\ Top.i \in Nat \ {0} /\ Top.bits \subseteq Kinds
         /\ Top \in Frame /\ NestedIn(Below) /\ Below # <<>> /\ Last(Below).f = "sched"
<1>1. stack # <<>> /\ Top.f = "client"
  BY DEF At
<1>2. /\ Top \in Frame /\ NestedIn(Below)
      /\ IF Below = <<>> THEN OnBottom(Top) ELSE Rests(Top, Last(Below))
  BY <1>1, BaseStack
<1>3. Below # <<>> /\ Last(Below).f = "sched"
  BY <1>1, <1>2 DEF OnBottom, Rests
<1> QED BY <1>1, <1>2, <1>3, FrameFields

(* What is known when the scheduler runs.                                  *)
LEMMA TopSched ==
  ASSUME Base, At("sched")
  PROVE  /\ stack # <<>> /\ Top.f = "sched" /\ Top.i \in Nat \ {0} /\ Top.n \in Nat /\ NestedIn(stack)
         /\ NestedIn(Below)
BY BaseStack, FrameFields DEF At, Base

(* What the arrays hold at a place.                                        *)
LEMMA EventTaken ==
  ASSUME Base, NEW i \in Nat \ {0}, i <= Len(events)
  PROVE  /\ events[i] \in Condition /\ events[i] \in Range(events)
         /\ events[i].kind = "event" /\ events[i].id \in Ids
<1>1. events \in Seq(Condition) /\ i \in DOMAIN events
  BY DEF Base, TypeOK
<1>2. events[i] \in Condition /\ events[i] \in Range(events)
  BY <1>1 DEF Range
<1> QED BY <1>2 DEF Base, EventsKnown, HasId

Sound == Scalars /\ EventsGood /\ StackGood

(* A step that leaves arrays and stack.                                    *)
LEMMA Unmoved ==
  ASSUME Base, UNCHANGED <<events, stack>>, Scalars',
         stack = <<>> \/ Top.f # "copy"
  PROVE  Sound'
BY BaseStack, BaseIs DEF Sound, EventsGood, EventsKnown, HasId, StackGood, StackIsGood, NestedIn, Top, Range

(* A step that leaves the arrays.                                          *)
LEMMA StackMoves ==
  ASSUME Base, UNCHANGED events, Scalars', StackIsGood(stack', funcs')
  PROVE  Sound'
BY BaseIs DEF Sound, EventsGood, EventsKnown, StackGood, StackIsGood, NestedIn, Range

(* Who calls is the main program or the function on top.                   *)
LEMMA CallerIsTop ==
  ASSUME Base, MayCall
  PROVE  stack = <<>> \/ (stack # <<>> /\ Top.f = "call")
BY DEF MayCall, At

(* A call by the poster or the interposed function.                        *)
LEMMA CallPushed ==
  ASSUME NEW st, NestedIn(st), st = <<>> \/ Last(st).f = "call",
         NEW c \in Clients, NEW kind \in Kinds, NEW id \in Ids \cup {0}, NEW how \in {"safe", "immediate", "hinted"},
         kind = "event" => id \in Ids, how # "immediate" => kind = "event",
         stack' = Append(st, Activated(c, kind, id, how))
  PROVE  StackIsGood(stack', funcs')
<1> DEFINE f == Activated(c, kind, id, how)
<1>1. f \in Frame
  BY FramesMade
<1>2. f.f = "call" /\ f.how = how /\ f.kind = kind /\ f.id = id
  BY DEF Activated
<1> HIDE DEF f
<1>3. CallHasId(f) /\ OnBottom(f) /\ (st # <<>> => Rests(f, Last(st)))
  BY <1>2 DEF CallHasId, OnBottom, Rests
<1>4. NestedIn(Append(st, f)) /\ Last(Append(st, f)) = f
  BY <1>1, <1>3, PushedIs
<1> QED BY <1>2, <1>4 DEF StackIsGood, f

(* A call by the prioritizer.                                              *)
LEMMA QueuedCallPushed ==
  ASSUME NEW st, NestedIn(st), st # <<>>, Last(st).f = "client",
         NEW kind \in Kinds, NEW id \in Ids \cup {0}, kind = "event" => id \in Ids, Last(st).c \in Clients,
         stack' = Append(st, Activated(Last(st).c, kind, id, "queued"))
  PROVE  StackIsGood(stack', funcs')
<1> DEFINE f == Activated(Last(st).c, kind, id, "queued")
<1>1. f \in Frame
  BY FramesMade
<1>2. f.f = "call" /\ f.how = "queued" /\ f.kind = kind /\ f.id = id /\ f.c = Last(st).c
  BY DEF Activated
<1> HIDE DEF f
<1>3. CallHasId(f) /\ Rests(f, Last(st))
  BY <1>2 DEF CallHasId, Rests
<1>4. NestedIn(Append(st, f)) /\ Last(Append(st, f)) = f
  BY <1>1, <1>3, PushedIs
<1> QED BY <1>2, <1>4 DEF StackIsGood, f

(* The steps of scheduler, prioritizer and loop.                           *)
LEMMA DispatchingIsSound ==
  ASSUME Base, Lists', ScheduleNext \/ LeaveClient \/ LeaveDispatch \/ EventsDone \/ Dispatch
  PROVE  Sound'
<1>1. Scalars
  BY BaseIs
<1>2. CASE ScheduleNext
  <2>1. stack # <<>> /\ Top.f = "sched" /\ NestedIn(stack)
    BY <1>2, TopSched DEF ScheduleNext
  <2>2. CASE sched[Top.i] \in Range(order)
    <3>1. sched[Top.i] \in Clients
      BY <2>2 DEF Base, Lists
    <3>2. Visit(sched[Top.i], stack) /\ UNCHANGED sched
      BY <1>2, <2>2 DEF ScheduleNext
    <3>3. /\ StackIsGood(stack', funcs') /\ eventQueued' = FALSE
          /\ events' \in Seq(Condition) /\ \A x \in Range(events') : x.kind = "event" /\ HasId(x)
      BY <2>1, <3>1, <3>2, VisitIsGood DEF Base, Top
    <3>4. Scalars'
      BY <1>1, <1>2, <3>2, <3>3 DEF ScheduleNext, Scalars, detVars, budgets, MaxCalls, MaxDetects
    <3> QED BY <3>3, <3>4 DEF Sound, EventsGood, EventsKnown, HasId, StackGood, StackIsGood, NestedIn, Range
  <2>3. CASE sched[Top.i] \notin Range(order)
    <3>1. Advance(stack) /\ UNCHANGED <<eventQueued, events>>
      BY <1>2, <2>3 DEF ScheduleNext
    <3>2. StackIsGood(stack', funcs') /\ sched' = [sched EXCEPT ![Top.i] = NoClient]
      BY <2>1, <3>1, AdvanceIsGood DEF Top
    <3>3. Scalars'
      BY <1>1, <1>2, <3>1, <3>2 DEF ScheduleNext, Scalars, detVars, budgets, MaxCalls, MaxDetects
    <3> QED BY <3>1, <3>2, <3>3, StackMoves
  <2> QED BY <2>2, <2>3
<1>3. CASE LeaveClient
  <2>1. Top.c \in Clients /\ NestedIn(Below) /\ Below # <<>> /\ Last(Below).f = "sched"
    BY <1>3, TopClientIs DEF LeaveClient
  <2>2. CASE eventQueued /\ Top.c \in Range(order)
    <3>1. Visit(Top.c, Below) /\ UNCHANGED sched
      BY <1>3, <2>2 DEF LeaveClient
    <3>2. /\ StackIsGood(stack', funcs') /\ eventQueued' = FALSE
          /\ events' \in Seq(Condition) /\ \A x \in Range(events') : x.kind = "event" /\ HasId(x)
      BY <2>1, <3>1, VisitIsGood DEF Base
    <3>3. Scalars'
      BY <1>1, <1>3, <3>1, <3>2 DEF LeaveClient, Scalars, detVars, budgets, MaxCalls, MaxDetects
    <3> QED BY <3>2, <3>3 DEF Sound, EventsGood, EventsKnown, HasId, StackGood, StackIsGood, NestedIn, Range
  <2>3. CASE ~ (eventQueued /\ Top.c \in Range(order))
    <3>1. Advance(Below) /\ UNCHANGED <<eventQueued, events>>
      BY <1>3, <2>3 DEF LeaveClient
    <3>2. StackIsGood(stack', funcs') /\ sched' = [sched EXCEPT ![Last(Below).i] = NoClient]
      BY <2>1, <3>1, AdvanceIsGood
    <3>3. Scalars'
      BY <1>1, <1>3, <3>1, <3>2 DEF LeaveClient, Scalars, detVars, budgets, MaxCalls, MaxDetects
    <3> QED BY <3>1, <3>2, <3>3, StackMoves
  <2> QED BY <2>2, <2>3
<1>4. CASE LeaveDispatch
  <2>1. StackIsGood(stack', funcs')
    BY <1>4, PoppedIsGood DEF LeaveDispatch, At, Base, Below
  <2>2. Scalars'
    BY <1>1, <1>4 DEF LeaveDispatch, Scalars, detVars, budgets, MaxCalls, MaxDetects
  <2>3. UNCHANGED events
    BY <1>4 DEF LeaveDispatch
  <2> QED BY <2>1, <2>2, <2>3, StackMoves
<1>5. CASE EventsDone
  <2>1. stack # <<>> /\ Top.f = "client" /\ Top.bits \subseteq Kinds /\ Top \in Frame
    BY <1>5, TopClientIs DEF EventsDone, EventsTurn
  <2>2. PICK bits \in SUBSET Kinds : bits = Top.bits \ {"event"}
    BY <2>1
  <2> DEFINE f == [Top EXCEPT !.bits = bits]
  <2>3. f \in Frame /\ f.f = "client" /\ f.c = Top.c
    BY <2>1, FramesChanged
  <2>4. stack' = SetTop(stack, f)
    BY <1>5, <2>2 DEF EventsDone
  <2> HIDE DEF f
  <2>5. CallHasId(f)
    BY <2>3 DEF CallHasId
  <2>6. NestedIn(SetTop(stack, f)) /\ Last(SetTop(stack, f)) = f
    BY <2>1, <2>3, <2>5, SetTopIs DEF Base, Top
  <2>7. StackIsGood(stack', funcs')
    BY <2>3, <2>4, <2>6 DEF StackIsGood
  <2>8. Scalars'
    BY <1>1, <1>5 DEF EventsDone, Scalars, detVars, budgets, MaxCalls, MaxDetects
  <2>9. EventsGood'
    BY <1>5 DEF EventsDone, EventsGood, EventsKnown, Range
  <2> QED BY <2>7, <2>8, <2>9 DEF Sound, StackGood, StackIsGood, NestedIn
<1>6. CASE Dispatch
  <2>1. StackIsGood(stack', funcs') /\ sched' \in [Slots -> Clients \cup {NoClient}]
    <3>1. stack = <<>> /\ StartDispatch(stack) /\ NestedIn(stack)
      BY <1>6 DEF Dispatch, Base
    <3>2. order' \in Seq(Clients)
      BY DEF Lists
    <3> QED BY <1>1, <3>1, <3>2, DispatchIsGood DEF Scalars
  <2>2. Scalars'
    BY <1>1, <1>6, <2>1 DEF Dispatch, Scalars, detVars, budgets, MaxCalls, MaxDetects
  <2>3. UNCHANGED events
    BY <1>6 DEF Dispatch
  <2> QED BY <2>1, <2>2, <2>3, StackMoves
<1> QED BY <1>2, <1>3, <1>4, <1>5, <1>6

(* The prioritizer goes to the next place of the arrays.                   *)
LEMMA NextPlace ==
  ASSUME Base, At("client")
  PROVE  LET next == SetTop(stack, [Top EXCEPT !.i = @ + 1]) IN
         NestedIn(next) /\ next # <<>> /\ Last(next).f = "client" /\ Last(next).c = Top.c
<1>1. stack # <<>> /\ Top.f = "client" /\ Top.i \in Nat \ {0} /\ Top \in Frame
  BY TopClientIs
<1>2. PICK i \in Nat \ {0} : i = Top.i + 1
  BY <1>1
<1> DEFINE f == [Top EXCEPT !.i = i]
<1>3. f \in Frame /\ f.f = "client" /\ f.c = Top.c
  BY <1>1, FramesChanged
<1>4. [Top EXCEPT !.i = @ + 1] = f
  BY <1>2
<1> HIDE DEF f
<1>5. CallHasId(f)
  BY <1>3 DEF CallHasId
<1>6. NestedIn(SetTop(stack, f)) /\ SetTop(stack, f) # <<>> /\ Last(SetTop(stack, f)) = f
  BY <1>1, <1>3, <1>5, SetTopIs DEF Base, Top
<1> QED BY <1>3, <1>4, <1>6

(* The prioritizer has fewer bits.                                         *)
LEMMA NextBits ==
  ASSUME Base, At("client"), NEW bits \in SUBSET Kinds
  PROVE  LET next == SetTop(stack, [Top EXCEPT !.bits = bits]) IN
         NestedIn(next) /\ next # <<>> /\ Last(next).f = "client" /\ Last(next).c = Top.c
<1>1. stack # <<>> /\ Top.f = "client" /\ Top \in Frame
  BY TopClientIs
<1> DEFINE f == [Top EXCEPT !.bits = bits]
<1>3. f \in Frame /\ f.f = "client" /\ f.c = Top.c
  BY <1>1, FramesChanged
<1> HIDE DEF f
<1>5. CallHasId(f)
  BY <1>3 DEF CallHasId
<1>6. NestedIn(SetTop(stack, f)) /\ SetTop(stack, f) # <<>> /\ Last(SetTop(stack, f)) = f
  BY <1>1, <1>3, <1>5, SetTopIs DEF Base, Top
<1> QED BY <1>3, <1>6 DEF f

(* notify_event.                                                           *)
LEMMA NotifyEventIsSound ==
  ASSUME Base, NotifyEvent
  PROVE  Sound'
<1>0. Scalars /\ UNCHANGED events
  BY BaseIs DEF NotifyEvent
<1>1. At("client") /\ Top.c \in Clients /\ Top.i \in Nat \ {0} /\ Top.i <= Len(events)
  BY TopClientIs DEF NotifyEvent, EventsTurn
<1> DEFINE next == SetTop(stack, [Top EXCEPT !.i = @ + 1])
           m == Matching(Top.c, "event", events[Top.i].code)
<1>2. NestedIn(next) /\ next # <<>> /\ Last(next).f = "client" /\ Last(next).c = Top.c
  BY <1>1, NextPlace
<1>3. events[Top.i].id \in Ids
  BY <1>1, EventTaken
<1>4. CASE m = {}
  <2>1. stack' = next /\ UNCHANGED <<processing, handed>>
    BY <1>4 DEF NotifyEvent
  <2> HIDE DEF next
  <2>2. StackIsGood(stack', funcs')
    BY <1>2, <2>1 DEF StackIsGood
  <2>3. Scalars'
    BY <1>0, <2>1 DEF NotifyEvent, Scalars, detVars, budgets, MaxCalls, MaxDetects
  <2> QED BY <1>0, <2>2, <2>3, StackMoves
<1>5. CASE m # {}
  <2>1. /\ stack' = Append(next, Activated(Top.c, "event", events[Top.i].id, "queued"))
        /\ processing' \in {processing, processing \cup {Top.c}}
        /\ handed' = [handed EXCEPT ![Top.c] = Append(@, events[Top.i].id)]
    BY <1>5 DEF NotifyEvent
  <2> HIDE DEF next
  <2>2. StackIsGood(stack', funcs')
    <3>1. "event" \in Kinds /\ events[Top.i].id \in Ids \cup {0}
      BY <1>3 DEF Kinds
    <3>2. stack' = Append(next, Activated(Last(next).c, "event", events[Top.i].id, "queued"))
      BY <1>2, <2>1
    <3> QED BY <1>1, <1>2, <1>3, <3>1, <3>2, QueuedCallPushed
  <2>3. handed' \in [Clients -> Seq(Ids)]
    BY <1>0, <1>1, <1>3, <2>1, HandedMore
  <2>4. Scalars'
    BY <1>0, <1>1, <2>1, <2>3 DEF NotifyEvent, Scalars, detVars, budgets, MaxCalls, MaxDetects
  <2> QED BY <1>0, <2>2, <2>4, StackMoves
<1> QED BY <1>4, <1>5

(* notify_input, notify_destroy and their like.                            *)
LEMMA NotifyOtherIsSound ==
  ASSUME Base, NotifyOther
  PROVE  Sound'
<1>0. Scalars /\ UNCHANGED events
  BY BaseIs DEF NotifyOther
<1>1. At("client") /\ Top.c \in Clients /\ Top.bits \subseteq Kinds /\ Top.bits # {}
  BY TopClientIs DEF NotifyOther
<1> DEFINE kind == First(Top.bits)
           m == Matching(Top.c, kind, 0)
<1>2. kind \in Kinds /\ kind # "event"
  BY <1>1, FirstOfBits DEF NotifyOther
<1>3. Without(Top.bits, kind) \in SUBSET Kinds /\ Without(Top.bits, kind) \ {kind} \in SUBSET Kinds
  BY <1>1 DEF Without
<1>4. CASE m = {}
  <2> DEFINE bits == Without(Top.bits, kind) \ {kind}
             next == SetTop(stack, [Top EXCEPT !.bits = bits])
  <2>1. stack' = next /\ UNCHANGED vetoed
    BY <1>4 DEF NotifyOther
  <2>2. NestedIn(next) /\ next # <<>> /\ Last(next).f = "client"
    BY <1>1, <1>3, NextBits
  <2> HIDE DEF next
  <2>3. StackIsGood(stack', funcs')
    BY <2>1, <2>2 DEF StackIsGood
  <2>4. Scalars'
    BY <1>0, <2>1 DEF NotifyOther, Scalars, detVars, budgets, MaxCalls, MaxDetects
  <2> QED BY <1>0, <2>3, <2>4, StackMoves
<1>5. CASE m # {}
  <2> DEFINE bits == Without(Top.bits, kind)
             next == SetTop(stack, [Top EXCEPT !.bits = bits])
  <2>1. stack' = Append(next, Activated(Top.c, kind, 0, "queued")) /\ vetoed' \in BOOLEAN
    BY <1>5 DEF NotifyOther
  <2>2. NestedIn(next) /\ next # <<>> /\ Last(next).f = "client" /\ Last(next).c = Top.c
    BY <1>1, <1>3, NextBits
  <2> HIDE DEF next, kind
  <2>3. StackIsGood(stack', funcs')
    <3>1. 0 \in Ids \cup {0} /\ stack' = Append(next, Activated(Last(next).c, kind, 0, "queued"))
      BY <2>1, <2>2
    <3> QED BY <1>1, <1>2, <2>2, <3>1, QueuedCallPushed
  <2>4. Scalars'
    BY <1>0, <2>1 DEF NotifyOther, Scalars, detVars, budgets, MaxCalls, MaxDetects
  <2> QED BY <1>0, <2>3, <2>4, StackMoves
<1> QED BY <1>4, <1>5

(* Enqueueing, with the dispatching that may follow at once.               *)
LEMMA QueueIsSound ==
  ASSUME Base, Lists', NEW c \in Clients, NEW x, NEW st, NestedIn(st), st = <<>> \/ Last(st).f = "call",
         Queue(c, x, st)
  PROVE  StackIsGood(stack', funcs') /\ sched' \in [Slots -> Clients \cup {NoClient}] /\ eventQueued' = TRUE
<1>1. sched \in [Slots -> Clients \cup {NoClient}] /\ order' \in Seq(Clients)
  BY DEF Base, TypeOK, Lists
<1>2. CASE loop = "out"
  <2>1. StartDispatch(st)
    BY <1>2 DEF Queue
  <2> QED BY <1>1, <2>1, DispatchIsGood DEF Queue, Enqueue
<1>3. CASE loop # "out"
  <2>1. stack' = st /\ UNCHANGED sched
    BY <1>3 DEF Queue
  <2> QED BY <1>1, <2>1 DEF Queue, Enqueue, StackIsGood
<1> QED BY <1>2, <1>3

(* The copy function returns.                                              *)
LEMMA EndCopyIsSound ==
  ASSUME Base, Lists', EndCopy
  PROVE  Sound'
<1>0. Scalars /\ UNCHANGED events /\ stack # <<>> /\ Top.f = "copy"
  BY BaseIs DEF EndCopy, At
<1>1. Top \in Frame /\ NestedIn(Below) /\ IF Below = <<>> THEN OnBottom(Top) ELSE Rests(Top, Last(Below))
  BY <1>0, BaseStack
<1>2. Below = <<>> \/ Last(Below).f = "call"
  BY <1>0, <1>1 DEF Rests
<1>3. Top.c \in Clients
  BY <1>0, <1>1, FrameFields
<1>4. StackIsGood(stack', funcs') /\ sched' \in [Slots -> Clients \cup {NoClient}] /\ eventQueued' = TRUE
  BY <1>1, <1>2, <1>3, QueueIsSound DEF EndCopy
<1>5. Scalars'
  BY <1>0, <1>4 DEF EndCopy, Scalars, detVars, budgets, MaxCalls, MaxDetects
<1> QED BY <1>0, <1>4, <1>5, StackMoves

(* A client's function returns.                                            *)
LEMMA ReturnsAreSound ==
  ASSUME Base, Returns
  PROVE  Sound'
<1>0. Scalars /\ UNCHANGED events
  BY BaseIs DEF Returns, ReturnEvent, ReturnDetected, ReturnChecked, ReturnDestroyed
<1>1. /\ At("call") /\ stack # <<>> /\ Top.f = "call" /\ Top.c \in Clients /\ NestedIn(stack) /\ NestedIn(Below)
      /\ Top \in Frame /\ IF Below = <<>> THEN OnBottom(Top) ELSE Rests(Top, Last(Below))
  BY TopCall, BaseStack DEF Base, Returns, ReturnEvent, ReturnDetected, ReturnChecked, ReturnDestroyed
<1>2. \A fs : StackIsGood(Below, fs)
  BY <1>1, PoppedIsGood DEF Below
<1>3. CASE ReturnEvent \/ ReturnDetected
  <2>1. stack' = Below /\ StackIsGood(stack', funcs')
    BY <1>2, <1>3 DEF ReturnEvent, ReturnDetected
  <2>2. Scalars'
    BY <1>0, <1>3 DEF ReturnEvent, ReturnDetected, Scalars, detVars, budgets, MaxCalls, MaxDetects
  <2> QED BY <1>0, <2>1, <2>2, StackMoves
<1>4. CASE ReturnChecked
  <2>1. sched' \in [Slots -> Clients \cup {NoClient}]
    BY <1>0, <1>1, <1>4, SchedFlushed DEF ReturnChecked, Scalars
  <2>2. Scalars'
    BY <1>0, <1>4, <2>1 DEF ReturnChecked, Scalars, detVars, budgets, MaxCalls, MaxDetects
  <2>3. StackIsGood(stack', funcs')
    <3> DEFINE client == Last(Below)
    <3>1. CASE stack' = Below
      BY <1>2, <3>1
    <3>2. CASE stack' # Below
      <4>1. Top.how = "queued" /\ stack' = SetTop(Below, [client EXCEPT !.bits = @ \ {"cleanup", "death"}])
        BY <1>4, <3>2 DEF ReturnChecked
      <4>2. Below # <<>> /\ client.f = "client"
        BY <1>1, <4>1 DEF OnBottom, Rests
      <4>3. client \in Frame
        BY <1>1, <4>2, TopIs
      <4>4. client.bits \subseteq Kinds
        BY <4>2, <4>3, FrameFields
      <4>5. PICK bits \in SUBSET Kinds : bits = client.bits \ {"cleanup", "death"}
        BY <4>4
      <4> DEFINE f == [client EXCEPT !.bits = bits]
      <4>6. f \in Frame /\ f.f = "client" /\ f.c = client.c
        BY <4>2, <4>3, FramesChanged
      <4>7. stack' = SetTop(Below, f)
        BY <4>1, <4>5
      <4> HIDE DEF f
      <4>8. CallHasId(f)
        BY <4>6 DEF CallHasId
      <4>9. NestedIn(SetTop(Below, f)) /\ Last(SetTop(Below, f)) = f
        BY <1>1, <4>2, <4>6, <4>8, SetTopIs
      <4> QED BY <4>6, <4>7, <4>9 DEF StackIsGood
    <3> QED BY <3>1, <3>2
  <2> QED BY <1>0, <2>2, <2>3, StackMoves
<1>5. CASE ReturnDestroyed
  <2>1. sched' \in [Slots -> Clients \cup {NoClient}]
    BY <1>0, <1>1, <1>5, SchedFlushed DEF ReturnDestroyed, RemoveClient, Scalars
  <2>2. Scalars'
    BY <1>0, <1>5, <2>1 DEF ReturnDestroyed, RemoveClient, Scalars, detVars, budgets, MaxCalls, MaxDetects
  <2>3. stack' = Below /\ StackIsGood(stack', funcs')
    BY <1>2, <1>5 DEF ReturnDestroyed
  <2> QED BY <1>0, <2>2, <2>3, StackMoves
<1> QED BY <1>3, <1>4, <1>5 DEF Returns

(* The immediate function ignores the event.                               *)
LEMMA IgnoreIsSound ==
  ASSUME Base, Ignore
  PROVE  Sound'
<1>0. Scalars /\ UNCHANGED events
  BY BaseIs DEF Ignore
<1>1. /\ stack # <<>> /\ Top.f = "call" /\ Top.how = "hinted" /\ Top.c \in Clients /\ Top.id \in Ids
  BY TopCall DEF Ignore
<1>2. NestedIn(Below) /\ (Below = <<>> \/ Last(Below).f = "call")
  BY <1>1, BaseStack DEF Rests
<1>3. /\ stack' = Append(Below, Activated(Top.c, "event", Top.id, "safe"))
      /\ handed' = [handed EXCEPT ![Top.c] = Append(@, Top.id)] /\ processing' = processing \cup {Top.c}
  BY DEF Ignore, CallNow
<1>4. StackIsGood(stack', funcs')
  BY <1>1, <1>2, <1>3, CallPushed DEF Kinds
<1>5. handed' \in [Clients -> Seq(Ids)]
  BY <1>0, <1>1, <1>3, HandedMore
<1>6. Scalars'
  BY <1>0, <1>1, <1>3, <1>5 DEF Ignore, Scalars, detVars, budgets, MaxCalls, MaxDetects
<1> QED BY <1>0, <1>4, <1>6, StackMoves

(* notify_post_event.                                                      *)
LEMMA PostIsSound ==
  ASSUME Base, Lists', NEW c \in Clients, NEW hint \in {"safe", "immediate"}, Post(c, hint)
  PROVE  Sound'
<1>0. Scalars /\ UNCHANGED events
  BY BaseIs DEF Post
<1>1. NestedIn(stack) /\ (stack = <<>> \/ Last(stack).f = "call")
  BY CallerIsTop DEF Base, Post, Top
<1>2. posts + 1 \in Ids /\ CodeOf[posts + 1] \in Codes /\ posts' = posts + 1 /\ posts' \in 0..Len(CodeOf)
  BY <1>0, NextId DEF Scalars, Post
<1>3. ASSUME NEW how \in {"safe", "immediate", "hinted"}, CallNow(c, posts + 1, how, stack),
             UNCHANGED <<listVars, eventQueued, sched>>
      PROVE  Sound'
  <2>1. stack' = Append(stack, Activated(c, "event", posts + 1, how))
    BY <1>3 DEF CallNow
  <2>2. StackIsGood(stack', funcs')
    <3>1. "event" \in Kinds /\ posts + 1 \in Ids \cup {0}
      BY <1>2 DEF Kinds
    <3> QED BY <1>1, <1>2, <2>1, <3>1, CallPushed
  <2>3. handed' \in [Clients -> Seq(Ids)]
    BY <1>0, <1>2, <1>3, HandedMore DEF CallNow, Scalars
  <2>4. processing' = processing \cup {c}
    BY <1>3 DEF CallNow
  <2>5. Scalars'
    BY <1>0, <1>2, <1>3, <2>3, <2>4 DEF Post, Scalars, detVars, budgets, MaxCalls, MaxDetects
  <2> QED BY <1>0, <2>2, <2>5, StackMoves
<1>4. CASE /\ Queue(c, [kind |-> "event", code |-> CodeOf[posts + 1], id |-> posts + 1], stack)
           /\ UNCHANGED <<processing, handed>>
  <2>1. StackIsGood(stack', funcs') /\ sched' \in [Slots -> Clients \cup {NoClient}] /\ eventQueued' = TRUE
    BY <1>1, <1>4, QueueIsSound
  <2>2. Scalars'
    BY <1>0, <1>2, <1>4, <2>1 DEF Post, Scalars, detVars, budgets, MaxCalls, MaxDetects
  <2> QED BY <1>0, <2>1, <2>2, StackMoves
<1>5. CASE /\ stack' = Append(stack, [f |-> "copy", c |-> c, id |-> posts + 1, code |-> CodeOf[posts + 1]])
           /\ UNCHANGED <<processing, handed, listVars, eventQueued, sched>> /\ "safe" \in funcs[c]
  <2> DEFINE f == [f |-> "copy", c |-> c, id |-> posts + 1, code |-> CodeOf[posts + 1]]
  <2>1. f \in Frame /\ f.f = "copy" /\ f.c = c
    BY <1>2, FramesMade
  <2>2. stack' = Append(stack, f)
    BY <1>5
  <2> HIDE DEF f
  <2>3. CallHasId(f) /\ OnBottom(f) /\ (stack # <<>> => Rests(f, Last(stack)))
    BY <1>1, <2>1 DEF CallHasId, OnBottom, Rests
  <2>4. NestedIn(Append(stack, f)) /\ Last(Append(stack, f)) = f
    BY <1>1, <2>1, <2>3, PushedIs
  <2>5. funcs' = funcs
    BY DEF Post
  <2>6. StackIsGood(stack', funcs')
    BY <1>5, <2>1, <2>2, <2>4, <2>5 DEF StackIsGood
  <2>7. Scalars'
    BY <1>0, <1>2, <1>5 DEF Post, Scalars, detVars, budgets, MaxCalls, MaxDetects
  <2> QED BY <1>0, <2>6, <2>7, StackMoves
<1>6. Target(c, hint) \in {"safe", "immediate"}
  BY <1>0 DEF Target
<1> QED BY <1>3, <1>4, <1>5, <1>6 DEF Post

(* notify_post_event from a function for an asynchronous signal.           *)
LEMMA PostAsyncIsSound ==
  ASSUME Base, NEW c \in Clients, PostAsync(c)
  PROVE  Sound'
<1>0. Scalars /\ UNCHANGED events /\ funcs' = funcs
  BY BaseIs DEF PostAsync, detVars
<1>1. CodeOf[posts + 1] \in Codes /\ posts' = posts + 1 /\ posts' \in 0..Len(CodeOf)
  BY <1>0, NextId DEF Scalars, PostAsync
<1>2. Scalars'
  BY <1>0, <1>1 DEF PostAsync, Enqueue, Scalars, detVars, MaxCalls, MaxDetects
<1>3. CASE At("copy") /\ Top.c = c
  <2> DEFINE f == [Top EXCEPT !.code = CodeOf[posts + 1]]
  <2>1. stack # <<>> /\ Top.f = "copy" /\ Top \in Frame
    BY <1>3, BaseStack DEF At
  <2>2. f \in Frame
    BY <1>1, <2>1, FramesChanged
  <2>3. f.f = "copy" /\ f.c = Top.c
    BY <2>1 DEF Frame
  <2>4. stack' = SetTop(stack, f)
    BY <1>3 DEF PostAsync
  <2> HIDE DEF f
  <2>5. CallHasId(f)
    BY <2>3 DEF CallHasId
  <2>6. NestedIn(SetTop(stack, f)) /\ Last(SetTop(stack, f)) = f
    BY <2>1, <2>2, <2>3, <2>5, SetTopIs DEF Base, Top
  <2>7. "safe" \in funcs'[f.c]
    BY <1>0, <1>3, <2>3 DEF PostAsync
  <2>8. StackIsGood(stack', funcs')
    BY <2>4, <2>6, <2>7 DEF StackIsGood
  <2> QED BY <1>0, <1>2, <2>8, StackMoves
<1>4. CASE ~ (At("copy") /\ Top.c = c)
  <2>1. stack' = stack
    BY <1>4 DEF PostAsync
  <2>2. StackIsGood(stack', funcs')
    BY <1>0, <2>1, BaseStack DEF StackGood
  <2> QED BY <1>0, <1>2, <2>2, StackMoves
<1> QED BY <1>3, <1>4

(* notify_post_destroy.                                                    *)
LEMMA DestroyIsSound ==
  ASSUME Base, Lists', NEW c \in Clients, NEW status \in program.statuses,
         DestroyNow(c, status) \/ DestroyLater(c, status)
  PROVE  Sound'
<1>0. Scalars /\ UNCHANGED <<program, events>>
  BY BaseIs DEF DestroyNow, DestroyLater
<1>1. NestedIn(stack) /\ (stack = <<>> \/ Last(stack).f = "call")
  BY CallerIsTop DEF Base, DestroyNow, DestroyLater, MayCallOnce, Top
<1>2. status \in Destroy
  BY <1>0, ConstantsAssumption DEF Scalars, Program
<1>3. calls' \in 0..MaxCalls'
  BY <1>0, OneMoreCall DEF DestroyNow, DestroyLater
<1>4. CASE DestroyNow(c, status)
  <2>1. stack' = Append(stack, Activated(c, status, 0, "immediate"))
    BY <1>4 DEF DestroyNow
  <2>2. status \in Kinds /\ status # "event" /\ 0 \in Ids \cup {0}
    BY <1>2 DEF Kinds, Destroy
  <2>3. StackIsGood(stack', funcs')
    BY <1>1, <2>1, <2>2, CallPushed
  <2>4. Scalars'
    BY <1>0, <1>3, <1>4 DEF DestroyNow, Scalars, MaxDetects
  <2> QED BY <1>0, <2>3, <2>4, StackMoves
<1>5. CASE DestroyLater(c, status)
  <2>1. StackIsGood(stack', funcs') /\ sched' \in [Slots -> Clients \cup {NoClient}] /\ eventQueued' = TRUE
    BY <1>1, <1>5, QueueIsSound DEF DestroyLater
  <2>2. Scalars'
    BY <1>0, <1>3, <1>5, <2>1 DEF DestroyLater, Scalars, detVars, MaxDetects
  <2> QED BY <1>0, <2>1, <2>2, StackMoves
<1> QED BY <1>4, <1>5

(* The other calls of clients, and the detector.                           *)
LEMMA OthersAreSound ==
  ASSUME Base,
         \/ Veto \/ Stop \/ Start("start", "in") \/ Start("once", "stopping")
         \/ \E c \in Clients : \/ FlushPending(c) \/ NotifyRemove(c)
                               \/ \E type \in Funcs : SetFunc(c, type) \/ UnsetFunc(c, type)
                               \/ \E kind \in Detected : Detect(c, kind)
  PROVE  Sound'
<1>0. Scalars
  BY BaseIs
<1>1. CASE Veto
  <2>1. At("call") /\ stack # <<>> /\ Top.f = "call" /\ Top \in Frame /\ CallHasId(Top)
    BY <1>1, CallerIsTop, BaseStack DEF Veto, At
  <2> DEFINE f == [Top EXCEPT !.veto = TRUE]
  <2>2. f \in Frame
    BY <2>1, FramesChanged
  <2>3. f.f = "call" /\ f.how = Top.how /\ f.c = Top.c /\ f.kind = Top.kind /\ f.id = Top.id
    BY <2>1 DEF Frame
  <2>4. stack' = SetTop(stack, f)
    BY <1>1 DEF Veto
  <2> HIDE DEF f
  <2>5. CallHasId(f)
    BY <2>1, <2>3 DEF CallHasId
  <2>6. NestedIn(SetTop(stack, f)) /\ Last(SetTop(stack, f)) = f
    BY <2>1, <2>2, <2>3, <2>5, SetTopIs DEF Base, Top
  <2>7. StackIsGood(stack', funcs')
    BY <2>3, <2>4, <2>6 DEF StackIsGood
  <2>8. Scalars'
    BY <1>0, <1>1 DEF Veto, Scalars, budgets, MaxCalls, MaxDetects
  <2>9. UNCHANGED events
    BY <1>1 DEF Veto
  <2> QED BY <2>7, <2>8, <2>9, StackMoves
<1>2. ASSUME Stop \/ (\E c \in Clients : FlushPending(c) \/ NotifyRemove(c)
                                      \/ \E type \in Funcs : SetFunc(c, type) \/ UnsetFunc(c, type))
      PROVE  Sound'
  <2>1. UNCHANGED <<program, events, stack>> /\ MayCall /\ calls < MaxCalls /\ calls' = calls + 1
    BY <1>2 DEF Stop, FlushPending, NotifyRemove, SetFunc, UnsetFunc, MayCallOnce
  <2>2. calls' \in 0..MaxCalls'
    BY <1>0, <2>1, OneMoreCall
  <2>3. stack = <<>> \/ Top.f # "copy"
    BY <2>1, CallerIsTop
  <2>4. CASE Stop
    <3>1. Scalars'
      BY <1>0, <2>2, <2>4 DEF Stop, Scalars, detVars, MaxDetects
    <3> QED BY <2>1, <2>3, <3>1, Unmoved
  <2>5. ASSUME NEW c \in Clients, FlushPending(c) PROVE Sound'
    <3>1. sched' \in [Slots -> Clients \cup {NoClient}]
      BY <1>0, <2>5, SchedFlushed DEF FlushPending
    <3>2. Scalars'
      BY <1>0, <2>2, <2>5, <3>1 DEF FlushPending, Scalars, detVars, MaxDetects
    <3> QED BY <2>1, <2>3, <3>2, Unmoved
  <2>6. ASSUME NEW c \in Clients, NotifyRemove(c) PROVE Sound'
    <3>1. sched' \in [Slots -> Clients \cup {NoClient}]
      BY <1>0, <2>6, SchedFlushed DEF NotifyRemove, RemoveClient
    <3>2. Scalars'
      BY <1>0, <2>2, <2>6, <3>1 DEF NotifyRemove, RemoveClient, Scalars, MaxDetects
    <3> QED BY <2>1, <2>3, <3>2, Unmoved
  <2>7. ASSUME NEW c \in Clients, NEW type \in Funcs, SetFunc(c, type) PROVE Sound'
    <3>1. Scalars'
      BY <1>0, <2>2, <2>7 DEF SetFunc, Scalars, MaxDetects
    <3> QED BY <2>1, <2>3, <3>1, Unmoved
  <2>8. ASSUME NEW c \in Clients, NEW type \in Funcs, UnsetFunc(c, type) PROVE Sound'
    <3>1. Scalars'
      BY <1>0, <2>2, <2>8 DEF UnsetFunc, Unsettle, Scalars, MaxDetects
    <3> QED BY <2>1, <2>3, <3>1, Unmoved
  <2> QED BY <1>2, <2>4, <2>5, <2>6, <2>7, <2>8
<1>3. CASE Start("start", "in") \/ Start("once", "stopping")
  <2>1. UNCHANGED <<program, events, stack>> /\ stack = <<>>
    BY <1>3 DEF Start
  <2>2. calls' \in 0..MaxCalls'
    BY <1>0, <1>3, OneMoreCall DEF Start
  <2>3. Scalars'
    BY <1>0, <1>3, <2>2 DEF Start, Scalars, detVars, MaxDetects
  <2> QED BY <2>1, <2>3, Unmoved
<1>4. ASSUME NEW c \in Clients, NEW kind \in Detected, Detect(c, kind) PROVE Sound'
  <2>1. UNCHANGED <<program, events, stack, calls>> /\ stack = <<>> /\ detects' = detects + 1
    BY <1>4 DEF Detect
  <2>2. detects' \in 0..MaxDetects'
    <3>1. MaxDetects \in Nat /\ MaxDetects' = MaxDetects /\ detects \in 0..MaxDetects /\ detects < MaxDetects
      BY <1>0, <1>4, <2>1, ConstantsAssumption DEF Scalars, MaxDetects, Program, Detect
    <3> HIDE DEF MaxDetects
    <3> QED BY <2>1, <3>1
  <2>3. /\ funcs' \in [Clients -> SUBSET Funcs] /\ processing' \subseteq Clients /\ eventQueued' = TRUE
    <3>1. CASE Enqueue(c, [kind |-> kind, code |-> 0, id |-> 0]) /\ UNCHANGED <<funcs, processing>>
      BY <1>0, <3>1 DEF Enqueue, Scalars
    <3>2. CASE Expire(c, kind)
      <4>1. Unsettle(c, kind) /\ eventQueued' = TRUE
        BY <3>2 DEF Expire
      <4> QED BY <1>0, <4>1 DEF Unsettle, Scalars
    <3> QED BY <1>4, <3>1, <3>2 DEF Detect
  <2>4. Scalars'
    BY <1>0, <1>4, <2>1, <2>2, <2>3 DEF Detect, Scalars, MaxCalls
  <2> QED BY <2>1, <2>4, Unmoved
<1> QED BY <1>1, <1>2, <1>3, <1>4

(* The empty sequence has no elements.                                     *)
LEMMA NothingIn == Range(<<>>) = {}
BY DEF Range

(* The invariant holds at first.                                           *)
LEMMA BaseAtFirst == Init => Base
<1> SUFFICES ASSUME Init PROVE Base
  OBVIOUS
<1>1. Scalars
  <2>1. program \in Program /\ MaxCalls \in Nat /\ MaxDetects \in Nat /\ Len(CodeOf) \in Nat
    BY ConstantsAssumption DEF Init, Program, MaxCalls, MaxDetects
  <2>2. funcs \in [Clients -> SUBSET Funcs]
    BY <2>1 DEF Init, Program
  <2>3. handed \in [Clients -> Seq(Ids)]
    BY DEF Init
  <2>4. sched \in [Slots -> Clients \cup {NoClient}]
    BY DEF Init
  <2>5. posts \in 0..Len(CodeOf) /\ calls \in 0..MaxCalls /\ detects \in 0..MaxDetects
    <3>1. posts = 0 /\ calls = 0 /\ detects = 0
      BY DEF Init
    <3> HIDE DEF MaxCalls, MaxDetects
    <3> QED BY <2>1, <3>1
  <2>6. /\ program \in Programs /\ processing \subseteq Clients /\ vetoed \in BOOLEAN
        /\ loop \in {"out", "in", "stopping"} /\ eventQueued \in BOOLEAN
    BY DEF Init
  <2> QED BY <2>2, <2>3, <2>4, <2>5, <2>6 DEF Scalars
<1>2. EventsGood
  <2>1. events = <<>> /\ Range(<<>>) = {} /\ <<>> \in Seq(Condition)
    BY NothingIn DEF Init
  <2> QED BY <2>1 DEF EventsGood, EventsKnown
<1>3. StackGood
  BY DEF Init, StackGood, StackIsGood, NestedIn
<1>4. Lists
  <2>1. Range(<<>>) = {}
    BY NothingIn
  <2>2. order = <<>> /\ queue = [c \in Clients |-> <<>>] /\ latest = [c \in Clients |-> 0]
    BY DEF Init
  <2>3. queue \in [Clients -> Seq(Condition)] /\ latest \in [Clients -> Nat] /\ order \in Seq(Clients)
    BY <2>2
  <2>4. EachOnce(order)
    BY <2>2 DEF EachOnce
  <2> QED BY <2>1, <2>2, <2>3, <2>4 DEF Lists
<1>5. StillWanted
  BY DEF Init, StillWanted
<1> QED BY <1>1, <1>2, <1>3, <1>4, <1>5, BaseIs

(* Every step keeps types, arrays and stack as they should be, if it keeps *)
(* the lists so.                                                           *)
LEMMA SoundStep ==
  ASSUME Base, Lists', Next
  PROVE  Sound'
<1>1. CASE Notifier
  BY <1>1, DispatchingIsSound, NotifyEventIsSound, NotifyOtherIsSound, EndCopyIsSound DEF Notifier
<1>2. CASE Returns
  BY <1>2, ReturnsAreSound
<1>3. CASE Clientele
  BY <1>3, PostIsSound, PostAsyncIsSound, DestroyIsSound, OthersAreSound, IgnoreIsSound DEF Clientele
<1> QED BY <1>1, <1>2, <1>3 DEF Next

(* The invariant is inductive.                                             *)
LEMMA BaseStep == Base /\ [Next]_vars => Base'
<1> SUFFICES ASSUME Base, [Next]_vars PROVE Base'
  OBVIOUS
<1>1. CASE Next
  <2>1. Lists' /\ StillWanted'
    BY <1>1, ListsMoveAlways, ListsStep
  <2>2. Sound'
    BY <1>1, <2>1, SoundStep
  <2>3. Base' <=> Scalars' /\ EventsGood' /\ StackGood' /\ Lists' /\ StillWanted'
    BY DEF Base, TypeOK, Scalars, EventsGood, StackGood, StackIsGood, NestedIn, Lists, CopyWanted, At, Top
  <2> QED BY <2>1, <2>2, <2>3 DEF Sound
<1>2. CASE UNCHANGED vars
  <2>1. /\ UNCHANGED <<order, queue, latest, events, stack, funcs, program>>
        /\ UNCHANGED <<processing, vetoed, loop, eventQueued, sched, handed, posts, calls, detects>>
    BY <1>2 DEF vars, detVars, listVars, budgets
  <2>2. TypeOK'
    BY <2>1 DEF Base, TypeOK, MaxCalls, MaxDetects
  <2>3. Lists' /\ EventsKnown'
    BY <2>1 DEF Base, Lists, EventsKnown
  <2>4. NestedIn(stack)' /\ CopyWanted'
    BY <2>1 DEF Base, NestedIn, CopyWanted, At, Top
  <2>5. StillWanted'
    BY <2>1 DEF Base, StillWanted
  <2> QED BY <2>2, <2>3, <2>4, <2>5 DEF Base
<1> QED BY <1>1, <1>2

(* In every state of every program the lists agree, and the stack is one   *)
(* that the notifier's calls can build: the scheduler on nothing or on a   *)
(* function, notify_client on the scheduler, a dispatched function on the  *)
(* notify_client of its own client.                                        *)
THEOREM BaseAlways == Spec => []Base
BY BaseAtFirst, BaseStep, PTL DEF Spec

(* The dispatcher lists exactly the clients with conditions pending, each  *)
(* once, and a hint names the newest condition or none; and whatever is    *)
(* pending can be delivered, as the client still has a function for it     *)
(* (ndis_enqueue, ntfy_unset_condition, notify_remove, notify_set_*_func,  *)
(* ndis_flush_condition), however calls are nested.                        *)
THEOREM PendingStaysSound == Spec => []PendingSound
<1>1. Base => ListsAgree
  BY DEF Base, Lists, EachOnce, ListsAgree
<1>2. Base => StillWanted
  BY DEF Base
<1> QED BY <1>1, <1>2, BaseAlways, PTL DEF PendingSound

-----------------------------------------------------------------------------
(* How the stack moves. In a program that calls nothing before             *)
(* notify_start only one dispatching is under way.                         *)

(* The scheduler is at the bottom only.                                    *)
Flat(st) == \A k \in DOMAIN st : st[k].f = "sched" => k = 1

(* Pushing keeps that, unless it is another dispatching.                   *)
LEMMA FlatAppend ==
  ASSUME NEW st \in Seq(Frame), Flat(st), NEW f \in Frame, f.f = "sched" => st = <<>>
  PROVE  Flat(Append(st, f))
<1>1. /\ Len(st) \in Nat /\ DOMAIN st = 1..Len(st) /\ DOMAIN Append(st, f) = 1..(Len(st) + 1)
      /\ Append(st, f)[Len(st) + 1] = f /\ \A k \in 1..Len(st) : Append(st, f)[k] = st[k]
  OBVIOUS
<1>2. st = <<>> <=> Len(st) = 0
  BY RangeIs
<1>3. \A k \in 1..(Len(st) + 1) : k \in 1..Len(st) \/ k = Len(st) + 1
  BY <1>1
<1> QED BY <1>1, <1>2, <1>3 DEF Flat

(* A return keeps it.                                                      *)
LEMMA FlatFront ==
  ASSUME NEW st \in Seq(Frame), Flat(st), st # <<>>
  PROVE  /\ Flat(Front(st)) /\ Front(st) \in Seq(Frame)
         /\ Last(st).f = "sched" => Front(st) = <<>>
<1>1. /\ Len(st) \in Nat /\ Len(st) >= 1 /\ Last(st) = st[Len(st)]
      /\ Front(st) \in Seq(Frame) /\ Len(Front(st)) = Len(st) - 1
      /\ \A i \in 1..(Len(st) - 1) : Front(st)[i] = st[i]
  BY FrontAndLast
<1>2. DOMAIN st = 1..Len(st) /\ DOMAIN Front(st) = 1..(Len(st) - 1)
  BY <1>1
<1>3. \A i \in 1..(Len(st) - 1) : i \in 1..Len(st)
  BY <1>1
<1>4. Last(st).f = "sched" => Len(Front(st)) = 0
  BY <1>1, <1>2 DEF Flat
<1> QED BY <1>1, <1>2, <1>3, <1>4, RangeIs DEF Flat

(* A change of the top keeps it.                                           *)
LEMMA FlatSetTop ==
  ASSUME NEW st \in Seq(Frame), Flat(st), st # <<>>, NEW f \in Frame, f.f = Last(st).f
  PROVE  Flat(SetTop(st, f))
BY FlatFront, FlatAppend, TopReplaced

(* Nothing is dispatched within a dispatching but by a program that posts  *)
(* outside notify_start.                                                   *)
OneLevel == "early" \notin Calls => Flat(stack) /\ (loop = "out" => stack = <<>>)

(* Such a program can only call notify_start when it is outside of it.     *)
LEMMA NothingOutside ==
  ASSUME Base, Next, "early" \notin Calls, loop = "out", stack = <<>>
  PROVE  loop' # "out" /\ stack' = stack
<1>1. \A kind : ~ At(kind)
  BY DEF At
<1>2. ~ MayCall
  BY <1>1 DEF MayCall
<1>3. ~ Notifier
  BY <1>1 DEF Notifier, ScheduleNext, LeaveClient, LeaveDispatch, NotifyEvent, EventsTurn, EventsDone,
     NotifyOther, EndCopy, Dispatch
<1>4. ~ Returns
  BY <1>1 DEF Returns, ReturnEvent, ReturnDetected, ReturnChecked, ReturnDestroyed
<1>5. Start("start", "in") \/ Start("once", "stopping")
  <2>1. \A c, hint : ~ Post(c, hint)
    BY <1>2 DEF Post
  <2>2. \A c : ~ PostAsync(c) /\ ~ FlushPending(c) /\ ~ NotifyRemove(c)
    BY <1>2 DEF PostAsync, FlushPending, NotifyRemove, MayCallOnce
  <2>3. \A c, status : ~ DestroyNow(c, status) /\ ~ DestroyLater(c, status)
    BY <1>2 DEF DestroyNow, DestroyLater, MayCallOnce
  <2>4. \A c, type : ~ SetFunc(c, type) /\ ~ UnsetFunc(c, type)
    BY <1>2 DEF SetFunc, UnsetFunc, MayCallOnce
  <2>5. \A c, kind : ~ Detect(c, kind)
    BY DEF Detect
  <2>6. ~ Veto /\ ~ Stop /\ ~ Ignore
    BY <1>1, <1>2 DEF Veto, Stop, Ignore, MayCallOnce
  <2> QED BY <1>3, <1>4, <2>1, <2>2, <2>3, <2>4, <2>5, <2>6 DEF Next, Clientele
<1> QED BY <1>5 DEF Start

(* The poster calls a function that is set, a safe one only while the      *)
(* client is in no other.                                                  *)
PostedTo(f) ==
  IF f.how = "safe" THEN "safe" \in funcs[f.c] /\ f.c \notin processing /\ f.c \in processing'
  ELSE "immediate" \in funcs[f.c]

(* Where a function that is called for an event comes from.                *)
NewCall(f) ==
  f.f = "call" =>
     /\ f.veto => Veto
     /\ f.kind = "event" =>
          \/ NotifyEvent /\ f.how = "queued" /\ (f.c \in processing' \/ funcs[f.c] = {})
          \/ Ignore
          \/ (\E hint \in {"safe", "immediate"} : Post(f.c, hint)) /\ PostedTo(f)

(* The ways in which a step moves the stack.                               *)
Gone == stack # <<>> /\ stack' = Below
Changed ==
  /\ stack # <<>>
  /\ \E f \in Frame : /\ f.f = Top.f /\ stack' = SetTop(stack, f)
                      /\ f.f = "call" => Veto /\ f.kind # "event"
BelowChanged ==
  /\ stack # <<>> /\ Below # <<>> /\ Last(Below).f # "call"
  /\ \E f \in Frame : f.f = Last(Below).f /\ stack' = SetTop(Below, f)
Pushed ==
  \E f \in Frame :
     NewCall(f) /\ stack' = Append(stack, f) /\ (f.f = "sched" => stack = <<>> \/ loop = "out")
Replaced ==
  /\ stack # <<>>
  /\ \E f \in Frame : NewCall(f) /\ stack' = Append(Below, f) /\ (f.f = "sched" => loop = "out")
Called ==
  /\ At("client")
  /\ \E g \in Frame, f \in Frame :
        g.f = "client" /\ f.f = "call" /\ NewCall(f) /\ stack' = Append(SetTop(stack, g), f)

StackTo == stack' = stack \/ Gone \/ Changed \/ BelowChanged \/ Pushed \/ Replaced \/ Called

(* What notify_client's activation is when it starts.                      *)
LEMMA VisitFrame ==
  ASSUME Lists, NEW c \in Clients, NEW st, Visit(c, st)
  PROVE  \E f \in Frame : /\ f.f = "client" /\ f.c = c /\ f.i = 1 /\ stack' = Append(st, f)
                           /\ f.bits = {"event"} \cup {queue[c][p].kind : p \in DOMAIN queue[c]}
<1> DEFINE bits == {"event"} \cup {queue[c][p].kind : p \in DOMAIN queue[c]}
           f == [f |-> "client", c |-> c, i |-> 1, bits |-> bits]
<1>1. queue[c] \in Seq(Condition)
  BY DEF Lists
<1>2. \A p \in DOMAIN queue[c] : queue[c][p].kind \in Kinds
  <2>1. \A p \in DOMAIN queue[c] : queue[c][p] \in Condition
    BY <1>1
  <2> QED BY <2>1 DEF Condition
<1>3. bits \in SUBSET Kinds /\ 1 \in Nat \ {0}
  BY <1>2 DEF Kinds
<1>4. stack' = Append(st, f)
  BY DEF Visit
<1> HIDE DEF bits
<1>5. f \in Frame
  BY <1>3, FramesMade
<1>6. f.f = "client" /\ f.c = c /\ f.i = 1 /\ f.bits = bits
  OBVIOUS
<1> QED BY <1>4, <1>5, <1>6 DEF bits

(* What the scheduler's is when it goes on.                                *)
LEMMA AdvanceFrame ==
  ASSUME NEW st, NestedIn(st), st # <<>>, Last(st).f = "sched", Advance(st)
  PROVE  \E f \in Frame : f.f = "sched" /\ stack' = SetTop(st, f) /\ f.i = Last(st).i + 1
<1>0. Last(st) \in Frame /\ Last(st).i \in Nat \ {0}
  BY TopIs, FrameFields
<1>1. PICK i \in Nat \ {0} : i = Last(st).i + 1
  BY <1>0
<1> DEFINE f == [Last(st) EXCEPT !.i = i]
<1>2. f \in Frame /\ f.f = "sched"
  BY <1>0, FramesChanged
<1>3. f.i = i
  BY <1>0 DEF Frame
<1>4. stack' = SetTop(st, f)
  BY <1>1 DEF Advance
<1> QED BY <1>1, <1>2, <1>3, <1>4

(* What the scheduler's is when it starts.                                 *)
LEMMA DispatchFrame ==
  ASSUME order' \in Seq(Clients), NEW st, StartDispatch(st)
  PROVE  \E f \in Frame : /\ f.f = "sched" /\ f.i = 1 /\ f.n = Len(order') /\ stack' = Append(st, f)
<1> DEFINE f == [f |-> "sched", i |-> 1, n |-> Len(order')]
<1>1. Len(order') \in Nat /\ 1 \in Nat \ {0}
  OBVIOUS
<1>2. f \in Frame
  BY <1>1, FramesMade
<1>3. stack' = Append(st, f)
  BY DEF StartDispatch
<1>4. f.f = "sched" /\ f.i = 1 /\ f.n = Len(order')
  OBVIOUS
<1> QED BY <1>2, <1>3, <1>4

(* Whether enqueueing dispatches.                                          *)
LEMMA QueueFrame ==
  ASSUME order' \in Seq(Clients), NEW c, NEW x, NEW st, Queue(c, x, st)
  PROVE  \/ stack' = st /\ loop # "out"
         \/ loop = "out" /\ \E f \in Frame : f.f = "sched" /\ stack' = Append(st, f)
BY DispatchFrame DEF Queue

(* The prioritizer's place and bits.                                       *)
LEMMA ClientChanged ==
  ASSUME NEW f \in Frame, f.f = "client"
  PROVE  /\ \A i \in Nat \ {0} : LET g == [f EXCEPT !.i = i] IN
              g \in Frame /\ g.f = "client" /\ g.c = f.c /\ g.i = i /\ g.bits = f.bits
         /\ \A bits \in SUBSET Kinds : LET g == [f EXCEPT !.bits = bits] IN
              g \in Frame /\ g.f = "client" /\ g.c = f.c /\ g.i = f.i /\ g.bits = bits
BY DEF Frame

(* A call by the prioritizer.                                              *)
LEMMA QueuedIs ==
  \A c \in Clients, kind \in Kinds, id \in Ids \cup {0} :
     LET f == Activated(c, kind, id, "queued") IN
     /\ f \in Frame /\ f.f = "call" /\ f.c = c /\ f.kind = kind /\ f.id = id /\ f.how = "queued"
     /\ f.veto = FALSE
BY FramesMade DEF Activated

(* Any other call.                                                         *)
LEMMA CalledIs ==
  \A c \in Clients, kind \in Kinds, id \in Ids \cup {0}, how \in {"safe", "immediate", "hinted"} :
     LET f == Activated(c, kind, id, how) IN
     /\ f \in Frame /\ f.f = "call" /\ f.c = c /\ f.kind = kind /\ f.id = id /\ f.how = how
     /\ f.veto = FALSE
<1>1. SUFFICES ASSUME NEW c \in Clients, NEW kind \in Kinds, NEW id \in Ids \cup {0},
                      NEW how \in {"safe", "immediate", "hinted"}
               PROVE  LET f == Activated(c, kind, id, how) IN
                      /\ f \in Frame /\ f.f = "call" /\ f.c = c /\ f.kind = kind /\ f.id = id /\ f.how = how
                      /\ f.veto = FALSE
  OBVIOUS
<1>2. how \in {"queued", "safe", "immediate", "hinted"}
  OBVIOUS
<1>3. Activated(c, kind, id, how) \in Frame
  BY <1>2, FramesMade
<1> QED BY <1>3 DEF Activated

(* The notifier's steps.                                                   *)
LEMMA StackOfNotifier ==
  ASSUME Base, Lists', Notifier
  PROVE  StackTo
<1>0. order' \in Seq(Clients) /\ Lists /\ NestedIn(stack)
  BY DEF Lists, Base
<1>1. CASE ScheduleNext
  <2>1. stack # <<>> /\ Top.f = "sched"
    BY <1>1, TopSched DEF ScheduleNext
  <2>2. CASE sched[Top.i] \in Range(order)
    <3>1. sched[Top.i] \in Clients /\ Visit(sched[Top.i], stack)
      BY <1>1, <2>2 DEF ScheduleNext, Base, Lists
    <3>2. PICK f \in Frame : f.f = "client" /\ stack' = Append(stack, f)
      BY <1>0, <3>1, VisitFrame
    <3> QED BY <3>2 DEF StackTo, Pushed, NewCall
  <2>3. CASE sched[Top.i] \notin Range(order)
    <3>1. Advance(stack)
      BY <1>1, <2>3 DEF ScheduleNext
    <3>2. PICK f \in Frame : f.f = "sched" /\ stack' = SetTop(stack, f)
      BY <1>0, <2>1, <3>1, AdvanceFrame DEF Top
    <3> QED BY <2>1, <3>2 DEF StackTo, Changed
  <2> QED BY <2>2, <2>3
<1>2. CASE LeaveClient
  <2>1. stack # <<>> /\ Top.f = "client" /\ Top.c \in Clients /\ NestedIn(Below) /\ Below # <<>> /\ Last(Below).f = "sched"
    BY <1>2, TopClientIs DEF LeaveClient
  <2>2. CASE eventQueued /\ Top.c \in Range(order)
    <3>1. Visit(Top.c, Below)
      BY <1>2, <2>2 DEF LeaveClient
    <3>2. PICK f \in Frame : f.f = "client" /\ stack' = Append(Below, f)
      BY <1>0, <2>1, <3>1, VisitFrame
    <3> QED BY <2>1, <3>2 DEF StackTo, Replaced, NewCall
  <2>3. CASE ~ (eventQueued /\ Top.c \in Range(order))
    <3>1. Advance(Below)
      BY <1>2, <2>3 DEF LeaveClient
    <3>2. PICK f \in Frame : f.f = "sched" /\ stack' = SetTop(Below, f)
      BY <2>1, <3>1, AdvanceFrame
    <3> QED BY <2>1, <3>2 DEF StackTo, BelowChanged
  <2> QED BY <2>2, <2>3
<1>3. CASE LeaveDispatch
  BY <1>3 DEF LeaveDispatch, At, StackTo, Gone
<1>4. CASE EventsDone
  <2>1. stack # <<>> /\ Top.f = "client" /\ Top.bits \subseteq Kinds /\ Top \in Frame
    BY <1>4, TopClientIs DEF EventsDone, EventsTurn
  <2>2. PICK bits \in SUBSET Kinds : bits = Top.bits \ {"event"}
    BY <2>1
  <2> DEFINE f == [Top EXCEPT !.bits = bits]
  <2>3. f \in Frame /\ f.f = "client"
    BY <2>1, ClientChanged
  <2>4. stack' = SetTop(stack, f)
    BY <1>4, <2>2 DEF EventsDone
  <2> HIDE DEF f
  <2> QED BY <2>1, <2>3, <2>4 DEF StackTo, Changed
<1>5. CASE NotifyEvent
  <2>1. At("client") /\ stack # <<>> /\ Top.f = "client" /\ Top.c \in Clients /\ Top.i \in Nat \ {0} /\ Top \in Frame
        /\ Top.i <= Len(events)
    BY <1>5, TopClientIs DEF NotifyEvent, EventsTurn
  <2>2. PICK i \in Nat \ {0} : i = Top.i + 1
    BY <2>1
  <2> DEFINE g == [Top EXCEPT !.i = i]
             f == Activated(Top.c, "event", events[Top.i].id, "queued")
  <2>3. g \in Frame /\ g.f = "client"
    BY <2>1, ClientChanged
  <2>4. events[Top.i].id \in Ids \cup {0} /\ "event" \in Kinds
    BY <2>1, EventTaken DEF Kinds
  <2>5. f \in Frame /\ f.f = "call" /\ f.veto = FALSE /\ f.c = Top.c /\ f.how = "queued"
    BY <2>1, <2>4, QueuedIs
  <2>6. stack' = SetTop(stack, g) \/ stack' = Append(SetTop(stack, g), f)
    BY <1>5, <2>2 DEF NotifyEvent
  <2>7. CASE stack' = SetTop(stack, g)
    <3> HIDE DEF g
    <3> QED BY <2>1, <2>3, <2>7 DEF StackTo, Changed
  <2>8. CASE stack' = Append(SetTop(stack, g), f) /\ stack' # SetTop(stack, g)
    <3>1. Top.c \in processing' \/ funcs[Top.c] = {}
      <4>1. processing' = IF funcs[Top.c] = {} THEN processing ELSE processing \cup {Top.c}
        BY <1>5, <2>2, <2>8 DEF NotifyEvent
      <4> QED BY <4>1
    <3> HIDE DEF f, g
    <3>2. NewCall(f)
      BY <1>5, <2>5, <3>1 DEF NewCall
    <3> QED BY <2>1, <2>3, <2>5, <2>8, <3>2 DEF StackTo, Called
  <2> QED BY <2>6, <2>7, <2>8
<1>6. CASE NotifyOther
  <2>1. At("client") /\ stack # <<>> /\ Top.f = "client" /\ Top.c \in Clients /\ Top.bits \subseteq Kinds /\ Top.bits # {}
        /\ Top \in Frame
    BY <1>6, TopClientIs DEF NotifyOther
  <2> DEFINE kind == First(Top.bits)
             f == Activated(Top.c, kind, 0, "queued")
  <2>2. kind \in Kinds /\ kind # "event"
    BY <1>6, <2>1, FirstOfBits DEF NotifyOther
  <2>3. PICK bits \in SUBSET Kinds : \/ stack' = SetTop(stack, [Top EXCEPT !.bits = bits])
                                     \/ stack' = Append(SetTop(stack, [Top EXCEPT !.bits = bits]), f)
    <3>1. Without(Top.bits, kind) \in SUBSET Kinds /\ Without(Top.bits, kind) \ {kind} \in SUBSET Kinds
      BY <2>1 DEF Without
    <3> QED BY <1>6, <3>1 DEF NotifyOther
  <2>z. 0 \in Ids \cup {0}
    OBVIOUS
  <2> HIDE DEF kind
  <2>4. f \in Frame /\ f.f = "call" /\ f.veto = FALSE /\ f.kind # "event"
    BY <2>1, <2>2, <2>z, QueuedIs
  <2> DEFINE g == [Top EXCEPT !.bits = bits]
  <2>5. g \in Frame /\ g.f = "client"
    BY <2>1, ClientChanged
  <2>6. stack' = SetTop(stack, g) \/ stack' = Append(SetTop(stack, g), f)
    BY <2>3
  <2> HIDE DEF f, g
  <2>7. NewCall(f)
    BY <2>4 DEF NewCall
  <2> QED BY <2>1, <2>4, <2>5, <2>6, <2>7 DEF StackTo, Changed, Called
<1>7. CASE EndCopy
  <2>1. stack # <<>> /\ Queue(Top.c, [kind |-> "event", code |-> Top.code, id |-> Top.id], Below)
    BY <1>7 DEF EndCopy, At
  <2>2. \/ stack' = Below
        \/ loop = "out" /\ \E f \in Frame : f.f = "sched" /\ stack' = Append(Below, f)
    BY <1>0, <2>1, QueueFrame
  <2> QED BY <2>1, <2>2 DEF StackTo, Gone, Replaced, NewCall
<1>8. CASE Dispatch
  <2>1. stack = <<>> /\ StartDispatch(stack)
    BY <1>8 DEF Dispatch
  <2>2. PICK f \in Frame : f.f = "sched" /\ stack' = Append(stack, f)
    BY <1>0, <2>1, DispatchFrame
  <2> QED BY <2>1, <2>2 DEF StackTo, Pushed, NewCall
<1> QED BY <1>1, <1>2, <1>3, <1>4, <1>5, <1>6, <1>7, <1>8 DEF Notifier

(* The returns.                                                            *)
LEMMA StackOfReturns ==
  ASSUME Base, Returns
  PROVE  Gone \/ BelowChanged
<1>1. /\ At("call") /\ stack # <<>> /\ Top.f = "call" /\ NestedIn(Below)
      /\ Top \in Frame /\ IF Below = <<>> THEN OnBottom(Top) ELSE Rests(Top, Last(Below))
  BY TopCall, BaseStack DEF Base, Returns, ReturnEvent, ReturnDetected, ReturnChecked, ReturnDestroyed
<1>2. CASE stack' = Below
  BY <1>1, <1>2 DEF Gone
<1>3. CASE stack' # Below
  <2> DEFINE client == Last(Below)
  <2>1. Top.how = "queued" /\ stack' = SetTop(Below, [client EXCEPT !.bits = @ \ {"cleanup", "death"}])
    BY <1>3 DEF Returns, ReturnEvent, ReturnDetected, ReturnDestroyed, ReturnChecked
  <2>2. Below # <<>> /\ client.f = "client"
    BY <1>1, <2>1 DEF OnBottom, Rests
  <2>3. client \in Frame
    BY <1>1, <2>2, TopIs
  <2>4. PICK bits \in SUBSET Kinds : bits = client.bits \ {"cleanup", "death"}
    BY <2>2, <2>3, FrameFields
  <2> DEFINE f == [client EXCEPT !.bits = bits]
  <2>5. f \in Frame /\ f.f = "client"
    BY <2>2, <2>3, ClientChanged
  <2>6. stack' = SetTop(Below, f)
    BY <2>1, <2>4
  <2> HIDE DEF f
  <2> QED BY <1>1, <2>2, <2>5, <2>6 DEF BelowChanged
<1> QED BY <1>2, <1>3

(* The ways in which a client's call moves it.                             *)
Stays == stack' = stack \/ Changed \/ Pushed

(* notify_post_event.                                                      *)
LEMMA StackOfPost ==
  ASSUME Base, Lists', NEW c \in Clients, NEW hint \in {"safe", "immediate"}, Post(c, hint)
  PROVE  Stays
<1>0. order' \in Seq(Clients) /\ posts \in 0..Len(CodeOf)
  BY DEF Lists, Base, TypeOK
<1>1. posts + 1 \in Ids /\ CodeOf[posts + 1] \in Codes
  BY <1>0, NextId DEF Post
<1>2. ASSUME NEW how \in {"safe", "immediate", "hinted"}, CallNow(c, posts + 1, how, stack),
             IF how = "safe" THEN "safe" \in funcs[c] /\ c \notin processing ELSE "immediate" \in funcs[c]
      PROVE  Stays
  <2> DEFINE f == Activated(c, "event", posts + 1, how)
  <2>1. stack' = Append(stack, f) /\ processing' = processing \cup {c}
    BY <1>2 DEF CallNow
  <2>2. "event" \in Kinds /\ posts + 1 \in Ids \cup {0}
    BY <1>1 DEF Kinds
  <2>3. f \in Frame /\ f.f = "call" /\ f.veto = FALSE /\ f.c = c /\ f.how = how
    BY <2>2, CalledIs
  <2> HIDE DEF f
  <2>4. PostedTo(f)
    BY <1>2, <2>1, <2>3 DEF PostedTo
  <2>5. NewCall(f)
    BY <2>3, <2>4 DEF NewCall
  <2> QED BY <2>1, <2>3, <2>5 DEF Stays, Pushed
<1>3. CASE Queue(c, [kind |-> "event", code |-> CodeOf[posts + 1], id |-> posts + 1], stack)
  BY <1>0, <1>3, QueueFrame DEF Stays, Pushed, NewCall
<1>4. CASE stack' = Append(stack, [f |-> "copy", c |-> c, id |-> posts + 1, code |-> CodeOf[posts + 1]])
  <2> DEFINE f == [f |-> "copy", c |-> c, id |-> posts + 1, code |-> CodeOf[posts + 1]]
  <2>1. f \in Frame /\ f.f = "copy"
    BY <1>1, FramesMade
  <2>2. stack' = Append(stack, f)
    BY <1>4
  <2> HIDE DEF f
  <2> QED BY <2>1, <2>2 DEF Stays, Pushed, NewCall
<1>5. Target(c, hint) \in {"safe", "immediate"}
  BY DEF Base, TypeOK, Target
<1> QED BY <1>2, <1>3, <1>4, <1>5 DEF Post

(* The client's other calls, and the detector.                             *)
LEMMA StackOfOthers ==
  ASSUME Base, Lists', Clientele
  PROVE  Stays \/ (Ignore /\ Replaced)
<1>0. order' \in Seq(Clients)
  BY DEF Lists
<1>1. ASSUME NEW c \in Clients, PostAsync(c) PROVE Stays
  <2>1. CASE At("copy") /\ Top.c = c
    <3> DEFINE f == [Top EXCEPT !.code = CodeOf[posts + 1]]
    <3>1. stack # <<>> /\ Top.f = "copy" /\ Top \in Frame
      BY <2>1, BaseStack DEF At
    <3>2. CodeOf[posts + 1] \in Codes
      BY <1>1, NextId DEF PostAsync, Base, TypeOK
    <3>3. f \in Frame
      BY <3>1, <3>2, FramesChanged
    <3>4. f.f = "copy"
      BY <3>1 DEF Frame
    <3>5. stack' = SetTop(stack, f)
      BY <1>1, <2>1 DEF PostAsync
    <3> HIDE DEF f
    <3> QED BY <3>1, <3>3, <3>4, <3>5 DEF Stays, Changed
  <2>2. CASE ~ (At("copy") /\ Top.c = c)
    BY <1>1, <2>2 DEF PostAsync, Stays
  <2> QED BY <2>1, <2>2
<1>2. ASSUME NEW c \in Clients, NEW status \in program.statuses, DestroyNow(c, status) \/ DestroyLater(c, status)
      PROVE  Stays
  <2>1. status \in Kinds /\ status # "event"
    BY ConstantsAssumption DEF Base, TypeOK, Program, Kinds, Destroy
  <2>2. CASE DestroyNow(c, status)
    <3> DEFINE f == Activated(c, status, 0, "immediate")
    <3>1. stack' = Append(stack, f)
      BY <2>2 DEF DestroyNow
    <3>2. 0 \in Ids \cup {0}
      OBVIOUS
    <3>3. f \in Frame /\ f.f = "call" /\ f.veto = FALSE /\ f.kind # "event"
      BY <2>1, <3>2, CalledIs
    <3> HIDE DEF f
    <3> QED BY <3>1, <3>3 DEF Stays, Pushed, NewCall
  <2>3. CASE DestroyLater(c, status)
    <3>1. Queue(c, [kind |-> status, code |-> 0, id |-> 0], stack)
      BY <2>3 DEF DestroyLater
    <3> QED BY <1>0, <3>1, QueueFrame DEF Stays, Pushed, NewCall
  <2> QED BY <1>2, <2>2, <2>3
<1>3. ASSUME Veto PROVE Stays
  <2>1. stack # <<>> /\ Top.f = "call" /\ Top \in Frame /\ Top.kind # "event"
    BY <1>3, CallerIsTop, BaseStack DEF Veto, Destroy
  <2> DEFINE f == [Top EXCEPT !.veto = TRUE]
  <2>2. f \in Frame
    BY <2>1, FramesChanged
  <2>3. f.f = "call" /\ f.kind = Top.kind
    BY <2>1 DEF Frame
  <2>4. stack' = SetTop(stack, f)
    BY <1>3 DEF Veto
  <2> HIDE DEF f
  <2> QED BY <1>3, <2>1, <2>2, <2>3, <2>4 DEF Stays, Changed
<1>4. ASSUME Ignore PROVE Replaced
  <2>1. stack # <<>> /\ Top.c \in Clients /\ Top.id \in Ids \cup {0} /\ "event" \in Kinds
    BY <1>4, TopCall DEF Ignore, Kinds
  <2> DEFINE f == Activated(Top.c, "event", Top.id, "safe")
  <2>2. f \in Frame /\ f.f = "call" /\ f.veto = FALSE
    BY <2>1, CalledIs
  <2>3. stack' = Append(Below, f)
    BY <1>4 DEF Ignore, CallNow
  <2> HIDE DEF f
  <2> QED BY <1>4, <2>1, <2>2, <2>3 DEF Replaced, NewCall
<1>5. ASSUME Stop \/ Start("start", "in") \/ Start("once", "stopping") PROVE Stays
  BY <1>5 DEF Stop, Start, Stays
<1>6. ASSUME NEW c \in Clients, FlushPending(c) \/ NotifyRemove(c) \/ (\E type \in Funcs : SetFunc(c, type) \/ UnsetFunc(c, type))
                                \/ \E kind \in Detected : Detect(c, kind)
      PROVE Stays
  BY <1>6 DEF FlushPending, NotifyRemove, SetFunc, UnsetFunc, Detect, Stays
<1> QED BY <1>1, <1>2, <1>3, <1>4, <1>5, <1>6, StackOfPost DEF Clientele

(* Every step moves the stack in one of these ways.                        *)
LEMMA StackStep ==
  ASSUME Base, Lists', Next
  PROVE  StackTo
BY StackOfNotifier, StackOfReturns, StackOfOthers DEF Next, StackTo, Stays

(* notify_start or notify_dispatch.                                        *)
Starts == Start("start", "in") \/ Start("once", "stopping")

(* notify_start is entered and left by these steps only.                   *)
LEMMA LoopMoves ==
  ASSUME Next
  PROVE  /\ program' = program
         /\ loop' = loop \/ LeaveDispatch \/ Stop \/ Starts
<1>1. CASE Notifier
  BY <1>1 DEF Notifier, ScheduleNext, LeaveClient, LeaveDispatch, NotifyEvent, EventsDone, NotifyOther,
     EndCopy, Dispatch
<1>2. CASE Returns
  BY <1>2 DEF Returns, ReturnEvent, ReturnDetected, ReturnChecked, ReturnDestroyed
<1>3. CASE Clientele
  <2>1. ASSUME NEW c \in Clients,
               \/ \E hint \in {"safe", "immediate"} : Post(c, hint)
               \/ PostAsync(c)
               \/ \E status \in program.statuses : DestroyNow(c, status) \/ DestroyLater(c, status)
               \/ FlushPending(c) \/ NotifyRemove(c)
        PROVE  program' = program /\ loop' = loop
    BY <2>1 DEF Post, PostAsync, DestroyNow, DestroyLater, FlushPending, NotifyRemove
  <2>2. ASSUME NEW c \in Clients,
               \/ \E type \in Funcs : SetFunc(c, type) \/ UnsetFunc(c, type)
               \/ \E kind \in Detected : Detect(c, kind)
        PROVE  program' = program /\ loop' = loop
    BY <2>2 DEF SetFunc, UnsetFunc, Detect
  <2>3. CASE Veto \/ Ignore
    BY <2>3 DEF Veto, Ignore
  <2>4. CASE Stop \/ Starts
    BY <2>4 DEF Stop, Starts, Start
  <2> QED BY <1>3, <2>1, <2>2, <2>3, <2>4 DEF Clientele, Starts
<1> QED BY <1>1, <1>2, <1>3 DEF Next

(* OneLevel is inductive, given Base.                                      *)
LEMMA OneLevelStep ==
  ASSUME Base, Lists', OneLevel, Next
  PROVE  OneLevel'
<1>0. /\ program' = program
      /\ loop' = loop \/ LeaveDispatch \/ Stop \/ Starts
  BY LoopMoves
<1> SUFFICES ASSUME "early" \notin Calls
             PROVE  Flat(stack') /\ (loop' = "out" => stack' = <<>>)
  BY <1>0 DEF OneLevel, Calls, Flat
<1>1. CASE loop = "out"
  BY <1>1, NothingOutside DEF OneLevel
<1>2. CASE loop # "out"
  <2>1. Flat(stack) /\ stack \in Seq(Frame)
    BY DEF OneLevel, Base, TypeOK
  <2>2. stack # <<>> => Flat(Below) /\ Below \in Seq(Frame) /\ (Top.f = "sched" => Below = <<>>)
    BY <2>1, FlatFront DEF Below, Top
  <2>3. Flat(stack')
    <3>1. CASE stack' = stack
      BY <2>1, <3>1
    <3>2. CASE Gone
      BY <2>2, <3>2 DEF Gone
    <3>3. CASE Changed
      BY <2>1, <3>3, FlatSetTop DEF Changed, Top
    <3>4. CASE BelowChanged
      BY <2>2, <3>4, FlatSetTop DEF BelowChanged
    <3>5. CASE Pushed
      BY <1>2, <2>1, <3>5, FlatAppend DEF Pushed
    <3>6. CASE Replaced
      BY <1>2, <2>2, <3>6, FlatAppend DEF Replaced
    <3>7. CASE Called
      <4>1. PICK g \in Frame, f \in Frame : g.f = "client" /\ f.f = "call" /\ stack' = Append(SetTop(stack, g), f)
        BY <3>7 DEF Called
      <4>2. Flat(SetTop(stack, g))
        BY <2>1, <3>7, <4>1, FlatSetTop DEF Called, At, Top
      <4>3. SetTop(stack, g) \in Seq(Frame)
        <5>1. SetTop(stack, g) = Append(Below, g)
          BY <3>7, <2>1, TopReplaced DEF Called, At, Below
        <5>2. Below \in Seq(Frame)
          BY <2>2, <3>7 DEF Called, At
        <5> QED BY <5>1, <5>2
      <4> QED BY <4>1, <4>2, <4>3, FlatAppend
    <3> QED BY <3>1, <3>2, <3>3, <3>4, <3>5, <3>6, <3>7, StackStep DEF StackTo
  <2>4. loop' = "out" => stack' = <<>>
    <3>1. CASE LeaveDispatch
      BY <3>1, <2>2, <1>2 DEF LeaveDispatch, At
    <3>2. CASE Stop \/ Starts
      BY <3>2 DEF Stop, Starts, Start
    <3> QED BY <1>0, <1>2, <3>1, <3>2
  <2> QED BY <2>3, <2>4
<1> QED BY <1>1, <1>2

(* The activations on the stack after a push, a return, a change.          *)
LEMMA RangesAre ==
  ASSUME NEW st \in Seq(Frame)
  PROVE  /\ \A f \in Frame : Range(Append(st, f)) = Range(st) \cup {f}
         /\ st # <<>> => /\ Front(st) \in Seq(Frame) /\ Range(st) = Range(Front(st)) \cup {Last(st)}
                         /\ \A f \in Frame : /\ SetTop(st, f) \in Seq(Frame)
                                              /\ Range(SetTop(st, f)) = Range(Front(st)) \cup {f}
<1>1. ASSUME NEW r \in Seq(Frame), NEW f \in Frame PROVE Range(Append(r, f)) = Range(r) \cup {f}
  BY RangeOfAppend
<1>2. ASSUME st # <<>>
      PROVE  /\ Front(st) \in Seq(Frame) /\ Range(st) = Range(Front(st)) \cup {Last(st)}
             /\ \A f \in Frame : /\ SetTop(st, f) \in Seq(Frame)
                                  /\ Range(SetTop(st, f)) = Range(Front(st)) \cup {f}
  <2>1. Front(st) \in Seq(Frame) /\ st = Append(Front(st), Last(st)) /\ Last(st) \in Frame
    BY <1>2, FrontAndLast
  <2>2. Range(st) = Range(Front(st)) \cup {Last(st)}
    BY <2>1, <1>1
  <2>3. ASSUME NEW f \in Frame
        PROVE  SetTop(st, f) \in Seq(Frame) /\ Range(SetTop(st, f)) = Range(Front(st)) \cup {f}
    <3>1. SetTop(st, f) = Append(Front(st), f)
      BY <1>2, TopReplaced
    <3> QED BY <3>1, <2>1, <1>1
  <2> QED BY <2>1, <2>2, <2>3
<1> QED BY <1>1, <1>2

(* Every call on the stack was there before, or is a new one.              *)
LEMMA CallsAre ==
  ASSUME Base, Lists', Next
  PROVE  \A f \in Range(stack') : f.f = "call" => f \in Range(stack) \/ NewCall(f)
<1>1. stack \in Seq(Frame)
  BY DEF Base, TypeOK
<1>2. stack # <<>> => Below \in Seq(Frame) /\ Range(stack) = Range(Below) \cup {Top}
  BY <1>1, RangesAre DEF Below, Top
<1>3. CASE stack' = stack
  BY <1>3
<1>4. CASE Gone
  BY <1>2, <1>4 DEF Gone
<1>5. CASE Changed
  <2>1. PICK f \in Frame : stack # <<>> /\ stack' = SetTop(stack, f) /\ NewCall(f)
    BY <1>5 DEF Changed, NewCall
  <2>2. Range(stack') = Range(Below) \cup {f}
    BY <1>1, <2>1, RangesAre DEF Below
  <2> QED BY <1>2, <2>1, <2>2
<1>6. CASE BelowChanged
  <2>1. PICK f \in Frame : f.f # "call" /\ stack' = SetTop(Below, f)
    BY <1>6 DEF BelowChanged
  <2>2. stack # <<>> /\ Below # <<>> /\ Below \in Seq(Frame)
    BY <1>2, <1>6 DEF BelowChanged
  <2>3. Range(stack') = Range(Front(Below)) \cup {f} /\ Range(Front(Below)) \subseteq Range(Below)
    BY <2>1, <2>2, RangesAre
  <2> QED BY <1>2, <2>1, <2>2, <2>3
<1>7. CASE Pushed
  <2>1. PICK f \in Frame : NewCall(f) /\ stack' = Append(stack, f)
    BY <1>7 DEF Pushed
  <2>2. Range(stack') = Range(stack) \cup {f}
    BY <1>1, <2>1, RangeOfAppend
  <2> QED BY <2>1, <2>2
<1>8. CASE Replaced
  BY <1>2, <1>8, RangesAre DEF Replaced
<1>9. CASE Called
  <2>1. PICK g \in Frame, f \in Frame :
            g.f = "client" /\ NewCall(f) /\ stack' = Append(SetTop(stack, g), f)
    BY <1>9 DEF Called
  <2>2. stack # <<>>
    BY <1>9 DEF Called, At
  <2>3. SetTop(stack, g) \in Seq(Frame) /\ Range(SetTop(stack, g)) = Range(Below) \cup {g}
    BY <1>1, <2>2, RangesAre DEF Below
  <2> DEFINE st == SetTop(stack, g)
  <2> HIDE DEF st
  <2>4. Range(stack') = Range(Below) \cup {g} \cup {f}
    <3>1. st \in Seq(Frame) /\ stack' = Append(st, f) /\ Range(st) = Range(Below) \cup {g}
      BY <2>1, <2>3 DEF st
    <3> QED BY <3>1, RangeOfAppend
  <2> QED BY <1>2, <2>1, <2>2, <2>4
<1> QED BY <1>3, <1>4, <1>5, <1>6, <1>7, <1>8, <1>9, StackStep DEF StackTo

-----------------------------------------------------------------------------
(* Vetoes.                                                                 *)

(* Who has vetoed is remembered by the flag, unless a program destroys at  *)
(* once, or dispatches within a dispatching, and clears it so.             *)
VetoKept ==
  \A f \in Range(stack) : f.f = "call" /\ f.veto =>
     "veto" \in Calls /\ ({"early", "destroy_now"} \cap Calls = {} => vetoed)

(* The prioritizer runs within no other call, if there is one dispatching. *)
LEMMA NoCallBelow ==
  ASSUME Base, Flat(stack), At("client")
  PROVE  \A f \in Range(stack) : f.f # "call"
<1>1. /\ stack # <<>> /\ Top.f = "client" /\ NestedIn(Below) /\ Below # <<>> /\ Last(Below).f = "sched"
      /\ stack \in Seq(Frame)
  BY TopClientIs DEF Base, TypeOK
<1>2. Flat(Below) /\ Below \in Seq(Frame)
  BY <1>1, FlatFront DEF Below
<1>3. Front(Below) = <<>>
  BY <1>1, <1>2, FlatFront
<1>4. Range(Below) = Range(<<>>) \cup {Last(Below)}
  BY <1>1, <1>2, <1>3, RangesAre
<1>5. Range(stack) = Range(Below) \cup {Top}
  BY <1>1, RangesAre DEF Below, Top
<1> QED BY <1>1, <1>4, <1>5, NothingIn

(* The flag is cleared by the prioritizer and by an immediate destruction. *)
LEMMA VetoedMoves ==
  ASSUME Next
  PROVE  vetoed' = vetoed \/ Veto \/ NotifyOther \/ "destroy_now" \in Calls
<1>1. CASE Notifier
  BY <1>1 DEF Notifier, ScheduleNext, LeaveClient, LeaveDispatch, NotifyEvent, EventsDone,
     EndCopy, Dispatch, detVars
<1>2. CASE Returns
  BY <1>2 DEF Returns, ReturnEvent, ReturnDetected, ReturnChecked, ReturnDestroyed, detVars
<1>3. CASE Clientele
  <2>1. ASSUME NEW c \in Clients,
               \/ \E hint \in {"safe", "immediate"} : Post(c, hint)
               \/ PostAsync(c)
               \/ \E status \in program.statuses : DestroyNow(c, status) \/ DestroyLater(c, status)
               \/ FlushPending(c) \/ NotifyRemove(c)
        PROVE  vetoed' = vetoed \/ "destroy_now" \in Calls
    BY <2>1 DEF Post, PostAsync, DestroyNow, DestroyLater, FlushPending, NotifyRemove, detVars, MayCallOnce
  <2>2. ASSUME NEW c \in Clients,
               \/ \E type \in Funcs : SetFunc(c, type) \/ UnsetFunc(c, type)
               \/ \E kind \in Detected : Detect(c, kind)
        PROVE  vetoed' = vetoed
    BY <2>2 DEF SetFunc, UnsetFunc, Detect
  <2>3. CASE Ignore \/ Stop \/ Starts
    BY <2>3 DEF Ignore, Stop, Starts, Start, detVars
  <2> QED BY <1>3, <2>1, <2>2, <2>3 DEF Clientele, Starts
<1> QED BY <1>1, <1>2, <1>3 DEF Next

(* VetoKept is inductive, given the two others.                            *)
LEMMA VetoStep ==
  ASSUME Base, Lists', OneLevel, VetoKept, Next
  PROVE  VetoKept'
<1>1. Calls' = Calls
  BY LoopMoves DEF Calls
<1>2. ASSUME NEW f \in Range(stack'), f.f = "call", f.veto
      PROVE  "veto" \in Calls /\ ({"early", "destroy_now"} \cap Calls = {} => vetoed')
  <2>1. CASE Veto
    BY <2>1 DEF Veto
  <2>2. CASE ~ Veto
    <3>1. f \in Range(stack)
      BY <1>2, <2>2, CallsAre DEF NewCall
    <3>2. "veto" \in Calls /\ ({"early", "destroy_now"} \cap Calls = {} => vetoed)
      BY <1>2, <3>1 DEF VetoKept
    <3>3. "early" \notin Calls => ~ NotifyOther
      BY <1>2, <3>1, NoCallBelow DEF NotifyOther, OneLevel
    <3> QED BY <2>2, <3>2, <3>3, VetoedMoves
  <2> QED BY <2>1, <2>2
<1>3. Range(stack)' = Range(stack')
  BY DEF Range
<1> QED BY <1>1, <1>2, <1>3 DEF VetoKept

(* The length of the stack.                                                *)
LEMMA Lengths ==
  ASSUME NEW st \in Seq(Frame), NEW f \in Frame
  PROVE  /\ Len(Append(st, f)) = Len(st) + 1 /\ Len(st) \in Nat
         /\ st # <<>> => Len(SetTop(st, f)) = Len(st)
BY DEF SetTop

(* A client's call does not make the stack shorter.                        *)
LEMMA StaysOrGrows ==
  ASSUME Base, Stays
  PROVE  ~ (Len(stack') < Len(stack))
<1>1. stack \in Seq(Frame) /\ Len(stack) \in Nat
  BY DEF Base, TypeOK
<1>2. CASE stack' = stack
  BY <1>1, <1>2
<1>3. CASE Changed
  BY <1>1, <1>3, Lengths DEF Changed
<1>4. CASE Pushed
  <2>1. PICK f \in Frame : stack' = Append(stack, f)
    BY <1>4 DEF Pushed
  <2>2. Len(stack') = Len(stack) + 1
    BY <1>1, <2>1, Lengths
  <2> QED BY <1>1, <2>2
<1> QED BY <1>2, <1>3, <1>4 DEF Stays

(* When a function that has vetoed returns, the flag is set, and the       *)
(* prioritizer drops the destruction.                                      *)
LEMMA VetoReturnsHonoured ==
  ASSUME Base, Lists', VetoKept, "veto" \in Calls => {"early", "destroy_now"} \cap Calls = {},
         Next, VetoReturns
  PROVE  Last(stack').bits \cap {"cleanup", "death"} = {}
<1>1. /\ At("call") /\ stack # <<>> /\ Top.f = "call" /\ Top.kind = "check" /\ Top.how = "queued" /\ Top.veto
      /\ Len(stack') < Len(stack)
  BY DEF VetoReturns, At
<1>2. ~ Notifier
  BY <1>1 DEF Notifier, ScheduleNext, LeaveClient, LeaveDispatch, NotifyEvent, EventsTurn, EventsDone,
     NotifyOther, EndCopy, Dispatch, At
<1>3. ~ Clientele
  <2>1. ~ Ignore
    BY <1>1 DEF Ignore
  <2> QED BY <1>1, <2>1, StackOfOthers, StaysOrGrows
<1>4. ReturnChecked
  BY <1>1, <1>2, <1>3 DEF Next, Returns, ReturnEvent, ReturnDetected, ReturnDestroyed, Detected
<1>5. vetoed
  <2>1. stack \in Seq(Frame)
    BY DEF Base, TypeOK
  <2>2. Top \in Range(stack)
    BY <1>1, <2>1, RangesAre DEF Top
  <2> QED BY <1>1, <2>2 DEF VetoKept
<1>6. /\ NestedIn(Below) /\ IF Below = <<>> THEN OnBottom(Top) ELSE Rests(Top, Last(Below))
  BY <1>1, BaseStack
<1>7. Below # <<>> /\ Last(Below).f = "client"
  BY <1>1, <1>6 DEF OnBottom, Rests
<1> DEFINE client == Last(Below)
<1>8. client \in Frame /\ Below \in Seq(Frame) /\ client.bits \subseteq Kinds
  <2>1. client \in Frame /\ Below \in Seq(Frame)
    BY <1>6, <1>7, TopIs DEF NestedIn
  <2> QED BY <1>7, <2>1, FrameFields
<1>9. CASE client.bits \cap {"cleanup", "death"} # {}
  <2>1. PICK bits \in SUBSET Kinds : bits = client.bits \ {"cleanup", "death"}
    BY <1>8
  <2> DEFINE f == [client EXCEPT !.bits = bits]
  <2>2. f \in Frame /\ f.bits = bits
    BY <1>7, <1>8, ClientChanged
  <2>3. stack' = SetTop(Below, f)
    BY <1>1, <1>4, <1>5, <1>9, <2>1 DEF ReturnChecked
  <2> HIDE DEF f
  <2>4. stack' = Append(Front(Below), f) /\ Front(Below) \in Seq(Frame)
    BY <1>7, <1>8, <2>2, <2>3, TopReplaced, RangesAre
  <2>5. Last(stack') = f
    BY <2>2, <2>4, LastOfAppend
  <2> QED BY <2>1, <2>2, <2>5
<1>10. CASE client.bits \cap {"cleanup", "death"} = {}
  <2>1. stack' = Below
    BY <1>4, <1>10 DEF ReturnChecked
  <2> QED BY <1>10, <2>1
<1> QED BY <1>9, <1>10

(* A client that vetoes when the dispatcher asks it is not destroyed by    *)
(* the same visit (notify_veto_destroy, ndis_default_prioritizer), in the  *)
(* programs in which those that veto neither destroy at once nor post      *)
(* outside notify_start.                                                   *)
THEOREM VetoIsHonoured ==
  ASSUME \A p \in Programs : "veto" \in p.calls => {"early", "destroy_now"} \cap p.calls = {}
  PROVE  Spec => VetoHonoured
<1>1. Init => OneLevel /\ VetoKept
  BY NothingIn DEF Init, OneLevel, VetoKept, Flat
<1>2. ASSUME Base, Base', OneLevel, VetoKept, [Next]_vars PROVE OneLevel' /\ VetoKept'
  <2>1. Lists'
    BY <1>2 DEF Base, Lists, EachOnce, HasId, Range
  <2>2. CASE Next
    BY <1>2, <2>1, <2>2, OneLevelStep, VetoStep
  <2>3. CASE UNCHANGED vars
    BY <1>2, <2>3 DEF vars, detVars, OneLevel, VetoKept, Flat, Calls, Range
  <2> QED BY <1>2, <2>2, <2>3
<1>3. ASSUME Base, Base', OneLevel, VetoKept, [Next]_vars
      PROVE  [VetoReturns => Last(stack').bits \cap {"cleanup", "death"} = {}]_vars
  <2>1. Lists'
    BY <1>3 DEF Base, Lists, EachOnce, HasId, Range
  <2>2. "veto" \in Calls => {"early", "destroy_now"} \cap Calls = {}
    BY <1>3 DEF Base, TypeOK, Calls
  <2> QED BY <1>3, <2>1, <2>2, VetoReturnsHonoured
<1> QED BY <1>1, <1>2, <1>3, BaseAlways, PTL DEF Spec, VetoHonoured

-----------------------------------------------------------------------------
(* Safe events.                                                            *)

(* A call of a safe function.                                              *)
SafeCall(f) == f.f = "call" /\ f.kind = "event" /\ f.how \in {"queued", "safe"}

(* Each client is in one such call at most.                                *)
SafeOnce(st) == \A i, j \in DOMAIN st : SafeCall(st[i]) /\ SafeCall(st[j]) /\ st[i].c = st[j].c => i = j

(* Pushing a call for a client that is in none keeps that.                 *)
LEMMA SafeAppend ==
  ASSUME NEW st \in Seq(Frame), SafeOnce(st), NEW f \in Frame,
         SafeCall(f) => \A g \in Range(st) : SafeCall(g) => g.c # f.c
  PROVE  SafeOnce(Append(st, f))
<1>1. /\ Len(st) \in Nat /\ DOMAIN st = 1..Len(st) /\ DOMAIN Append(st, f) = 1..(Len(st) + 1)
      /\ Append(st, f)[Len(st) + 1] = f /\ \A k \in 1..Len(st) : Append(st, f)[k] = st[k]
  OBVIOUS
<1>2. \A k \in 1..(Len(st) + 1) : k \in 1..Len(st) \/ k = Len(st) + 1
  BY <1>1
<1>3. \A k \in 1..Len(st) : st[k] \in Range(st)
  BY <1>1 DEF Range
<1> HIDE DEF SafeCall
<1> QED BY <1>1, <1>2, <1>3 DEF SafeOnce

(* A return keeps it, and the client is then in none.                      *)
LEMMA SafeFront ==
  ASSUME NEW st \in Seq(Frame), SafeOnce(st), st # <<>>
  PROVE  /\ SafeOnce(Front(st)) /\ Front(st) \in Seq(Frame)
         /\ SafeCall(Last(st)) => \A g \in Range(Front(st)) : SafeCall(g) => g.c # Last(st).c
<1>1. /\ Len(st) \in Nat /\ Len(st) >= 1 /\ Last(st) = st[Len(st)]
      /\ Front(st) \in Seq(Frame) /\ Len(Front(st)) = Len(st) - 1
      /\ \A i \in 1..(Len(st) - 1) : Front(st)[i] = st[i]
  BY FrontAndLast
<1>2. DOMAIN st = 1..Len(st) /\ DOMAIN Front(st) = 1..(Len(st) - 1)
  BY <1>1
<1>3. \A i \in 1..(Len(st) - 1) : i \in 1..Len(st) /\ i # Len(st)
  BY <1>1
<1>4. Len(st) \in 1..Len(st)
  BY <1>1
<1> HIDE DEF SafeCall
<1>5. SafeOnce(Front(st))
  BY <1>1, <1>2, <1>3 DEF SafeOnce
<1>6. ASSUME SafeCall(Last(st)), NEW g \in Range(Front(st)), SafeCall(g) PROVE g.c # Last(st).c
  <2>1. PICK i \in 1..(Len(st) - 1) : g = st[i]
    BY <1>1, <1>2 DEF Range
  <2> QED BY <2>1, <1>1, <1>2, <1>3, <1>4, <1>6 DEF SafeOnce
<1> QED BY <1>1, <1>5, <1>6

(* A change of what is no such call keeps it.                              *)
LEMMA SafeTop ==
  ASSUME NEW st \in Seq(Frame), SafeOnce(st), st # <<>>, NEW f \in Frame, ~ SafeCall(f)
  PROVE  SafeOnce(SetTop(st, f)) /\ SetTop(st, f) \in Seq(Frame)
<1>1. SafeOnce(Front(st)) /\ Front(st) \in Seq(Frame)
  BY SafeFront
<1>2. SetTop(st, f) = Append(Front(st), f)
  BY TopReplaced
<1> QED BY <1>1, <1>2, SafeAppend

(* The program sets no functions while it runs, has no immediate ones and  *)
(* posts from within notify_start only.                                    *)
OnlySafe == {"early", "set"} \cap Calls = {} /\ \A c \in Clients : "immediate" \notin program.funcs[c]

(* NCLT_EVENT_PROCESSING is set, or the client can get no event since it   *)
(* has no function.                                                        *)
Protected(c) == c \in processing \/ funcs[c] = {}

(* Whoever is being called for a safe event is protected from another.     *)
Guarded ==
  OnlySafe =>
    /\ \A c \in Clients : "immediate" \notin funcs[c]
    /\ \A f \in Range(stack) : f.f = "call" /\ f.kind = "event" => SafeCall(f) /\ Protected(f.c)
    /\ SafeOnce(stack)

(* In such a program functions are only lost, and only the return of the   *)
(* safe function takes the protection away.                                *)
LEMMA FuncsShrink ==
  ASSUME Base, Next, "set" \notin Calls
  PROVE  \A c \in Clients :
            /\ funcs'[c] \subseteq funcs[c]
            /\ Protected(c) => Protected(c)' \/ (ReturnEvent /\ c = Top.c)
<1>0. funcs \in [Clients -> SUBSET Funcs]
  BY DEF Base, TypeOK
<1>1. CASE Notifier
  <2>1. funcs' = funcs
    BY <1>1 DEF Notifier, ScheduleNext, LeaveClient, LeaveDispatch, NotifyEvent, EventsDone,
       EndCopy, Dispatch, NotifyOther, detVars
  <2>2. processing \subseteq processing'
    BY <1>1 DEF Notifier, ScheduleNext, LeaveClient, LeaveDispatch, NotifyEvent, EventsDone,
       EndCopy, Dispatch, NotifyOther, detVars
  <2> QED BY <2>1, <2>2 DEF Protected
<1>2. ASSUME NEW d \in Clients, RemoveClient(d)
      PROVE  \A c \in Clients : funcs'[c] \subseteq funcs[c] /\ (Protected(c) => Protected(c)')
  BY <1>0, <1>2 DEF RemoveClient, Protected
<1>3. ASSUME NEW d \in Clients, NEW type, Unsettle(d, type)
      PROVE  \A c \in Clients : funcs'[c] \subseteq funcs[c] /\ (Protected(c) => Protected(c)')
  <2>1. TAKE c \in Clients
  <2>2. CASE c = d
    BY <1>0, <1>3, <2>2 DEF Unsettle, Protected
  <2>3. CASE c # d
    BY <1>0, <1>3, <2>3 DEF Unsettle, Protected
  <2> QED BY <2>2, <2>3
<1>4. CASE Returns
  <2>1. CASE ReturnEvent
    BY <2>1 DEF ReturnEvent, Protected
  <2>2. CASE ReturnDetected \/ ReturnChecked
    BY <2>2 DEF ReturnDetected, ReturnChecked, Protected, detVars
  <2>3. CASE ReturnDestroyed
    <3>1. Top.c \in Clients
      BY <2>3, TopCall DEF ReturnDestroyed
    <3>2. CASE funcs[Top.c] # {}
      BY <1>2, <2>3, <3>1, <3>2 DEF ReturnDestroyed
    <3>3. CASE funcs[Top.c] = {}
      BY <2>3, <3>3 DEF ReturnDestroyed, Protected
    <3> QED BY <3>2, <3>3
  <2> QED BY <1>4, <2>1, <2>2, <2>3 DEF Returns
<1>5. CASE Clientele
  <2>1. ASSUME NEW d \in Clients,
               \/ \E hint \in {"safe", "immediate"} : Post(d, hint)
               \/ PostAsync(d)
               \/ \E status \in program.statuses : DestroyNow(d, status) \/ DestroyLater(d, status)
               \/ FlushPending(d)
        PROVE  funcs' = funcs /\ processing \subseteq processing'
    BY <2>1 DEF Post, CallNow, PostAsync, DestroyNow, DestroyLater, FlushPending, detVars
  <2>2. ASSUME NEW d \in Clients, NotifyRemove(d)
        PROVE  \A c \in Clients : funcs'[c] \subseteq funcs[c] /\ (Protected(c) => Protected(c)')
    BY <1>2, <2>2 DEF NotifyRemove
  <2>3. ASSUME NEW d \in Clients, NEW type \in Funcs, SetFunc(d, type) PROVE FALSE
    BY <2>3 DEF SetFunc, MayCallOnce
  <2>4. ASSUME NEW d \in Clients, NEW type \in Funcs, UnsetFunc(d, type)
        PROVE  \A c \in Clients : funcs'[c] \subseteq funcs[c] /\ (Protected(c) => Protected(c)')
    BY <1>3, <2>4 DEF UnsetFunc
  <2>5. ASSUME NEW d \in Clients, NEW kind \in Detected, Detect(d, kind)
        PROVE  \A c \in Clients : funcs'[c] \subseteq funcs[c] /\ (Protected(c) => Protected(c)')
    <3>1. CASE UNCHANGED <<funcs, processing>>
      BY <3>1 DEF Protected
    <3>2. CASE Expire(d, kind)
      BY <1>3, <3>2 DEF Expire
    <3> QED BY <2>5, <3>1, <3>2 DEF Detect
  <2>6. ASSUME Veto \/ Ignore \/ Stop \/ Starts PROVE funcs' = funcs /\ processing \subseteq processing'
    BY <2>6 DEF Veto, Ignore, CallNow, Stop, Starts, Start, detVars
  <2>7. funcs' = funcs /\ processing \subseteq processing'
        => \A c \in Clients : funcs'[c] \subseteq funcs[c] /\ (Protected(c) => Protected(c)')
    BY DEF Protected
  <2> QED BY <1>5, <2>1, <2>2, <2>3, <2>4, <2>5, <2>6, <2>7 DEF Clientele, Starts
<1> QED BY <1>1, <1>4, <1>5 DEF Next

(* A new call for an event is for a client that is in none, and protects   *)
(* it.                                                                     *)
LEMMA NewSafeCall ==
  ASSUME Base, OneLevel, Guarded, OnlySafe, NEW f \in Frame, NewCall(f), f.f = "call", f.kind = "event"
  PROVE  /\ SafeCall(f) /\ Protected(f.c)'
         /\ \A g \in Range(stack) : SafeCall(g) => g.c # f.c
<1>0. f.c \in Clients /\ f.how \in {"queued", "safe", "immediate", "hinted"}
  BY FrameFields
<1>1. CASE NotifyEvent /\ f.how = "queued" /\ (f.c \in processing' \/ funcs[f.c] = {})
  <2>1. \A g \in Range(stack) : g.f # "call"
    BY <1>1, NoCallBelow DEF NotifyEvent, EventsTurn, OneLevel, OnlySafe
  <2>2. funcs' = funcs
    BY <1>1 DEF NotifyEvent
  <2> QED BY <1>1, <2>1, <2>2 DEF SafeCall, Protected
<1>2. ~ Ignore
  <2> SUFFICES ASSUME Ignore PROVE FALSE
    OBVIOUS
  <2>1. At("call") /\ stack # <<>> /\ Top.f = "call" /\ Top.how = "hinted" /\ stack \in Seq(Frame)
    BY DEF Ignore, At, Base, TypeOK
  <2>2. Top.kind = "event"
    BY <2>1, BaseStack DEF CallHasId
  <2>3. Top \in Range(stack)
    BY <2>1, RangesAre DEF Top
  <2> QED BY <2>1, <2>2, <2>3 DEF Guarded, SafeCall
<1>3. CASE PostedTo(f)
  <2>1. f.how = "safe" /\ f.c \notin processing /\ funcs[f.c] # {} /\ f.c \in processing'
    BY <1>0, <1>3 DEF PostedTo, Guarded
  <2> QED BY <2>1 DEF SafeCall, Protected, Guarded
<1> QED BY <1>1, <1>2, <1>3 DEF NewCall

(* No step puts a client into two.                                         *)
LEMMA SafeOnceStep ==
  ASSUME Base, Lists', OneLevel, Guarded, OnlySafe, Next
  PROVE  SafeOnce(stack')
<1>0. stack \in Seq(Frame) /\ SafeOnce(stack)
  BY DEF Base, TypeOK, Guarded
<1>1. stack # <<>> => Below \in Seq(Frame) /\ SafeOnce(Below) /\ Range(Below) \subseteq Range(stack)
  BY <1>0, SafeFront, RangesAre DEF Below
<1>2. ASSUME NEW f \in Frame, NewCall(f)
      PROVE  SafeCall(f) => \A g \in Range(stack) : SafeCall(g) => g.c # f.c
  BY <1>2, NewSafeCall DEF SafeCall
<1>3. CASE stack' = stack
  BY <1>0, <1>3
<1>4. CASE Gone
  BY <1>1, <1>4 DEF Gone
<1>5. CASE Changed
  BY <1>0, <1>5, SafeTop DEF Changed, SafeCall
<1>6. CASE BelowChanged
  BY <1>1, <1>6, SafeTop DEF BelowChanged, SafeCall
<1>7. CASE Pushed
  <2>1. PICK f \in Frame : NewCall(f) /\ stack' = Append(stack, f)
    BY <1>7 DEF Pushed
  <2> QED BY <1>0, <1>2, <2>1, SafeAppend
<1>8. CASE Replaced
  <2>1. PICK f \in Frame : NewCall(f) /\ stack' = Append(Below, f)
    BY <1>8 DEF Replaced
  <2>2. Below \in Seq(Frame) /\ SafeOnce(Below) /\ Range(Below) \subseteq Range(stack)
    BY <1>1, <1>8 DEF Replaced
  <2> QED BY <1>2, <2>1, <2>2, SafeAppend
<1>9. CASE Called
  <2>1. PICK g \in Frame, f \in Frame :
            g.f = "client" /\ NewCall(f) /\ stack' = Append(SetTop(stack, g), f)
    BY <1>9 DEF Called
  <2>2. stack # <<>> /\ At("client")
    BY <1>9 DEF Called, At
  <2> DEFINE st == SetTop(stack, g)
  <2>3. ~ SafeCall(g)
    BY <2>1 DEF SafeCall
  <2>4. st \in Seq(Frame) /\ SafeOnce(st) /\ Range(st) = Range(Below) \cup {g}
    BY <1>0, <2>2, <2>3, SafeTop, RangesAre DEF Below
  <2>5. stack' = Append(st, f)
    BY <2>1
  <2> HIDE DEF st
  <2>6. SafeCall(f) => \A h \in Range(st) : SafeCall(h) => h.c # f.c
    BY <1>1, <1>2, <2>1, <2>2, <2>3, <2>4
  <2> QED BY <2>4, <2>5, <2>6, SafeAppend
<1> QED BY <1>3, <1>4, <1>5, <1>6, <1>7, <1>8, <1>9, StackStep DEF StackTo

(* Guarded is inductive, given the two others.                             *)
LEMMA GuardedStep ==
  ASSUME Base, Base', Lists', OneLevel, Guarded, Next
  PROVE  Guarded'
<1>0. program' = program /\ (OnlySafe' <=> OnlySafe)
  BY LoopMoves DEF OnlySafe, Calls
<1> SUFFICES ASSUME OnlySafe
             PROVE  /\ \A c \in Clients : "immediate" \notin funcs'[c]
                    /\ \A f \in Range(stack') : f.f = "call" /\ f.kind = "event" => SafeCall(f) /\ Protected(f.c)'
                    /\ SafeOnce(stack')
  BY <1>0 DEF Guarded, Range, SafeOnce, SafeCall
<1>1. \A c \in Clients :
        /\ funcs'[c] \subseteq funcs[c]
        /\ Protected(c) => Protected(c)' \/ (ReturnEvent /\ c = Top.c)
  BY FuncsShrink DEF OnlySafe
<1>2. \A c \in Clients : "immediate" \notin funcs'[c]
  BY <1>1 DEF Guarded
<1>3. ASSUME NEW f \in Range(stack'), f.f = "call", f.kind = "event"
      PROVE  SafeCall(f) /\ Protected(f.c)'
  <2>1. f \in Frame
    <3>1. stack' \in Seq(Frame)
      BY DEF Base, TypeOK, Frame
    <3> QED BY <3>1, RangeIs
  <2>2. CASE f \notin Range(stack)
    BY <1>3, <2>1, <2>2, CallsAre, NewSafeCall
  <2>3. CASE f \in Range(stack)
    <3>1. SafeCall(f) /\ Protected(f.c) /\ f.c \in Clients
      BY <1>3, <2>1, <2>3, FrameFields DEF Guarded
    <3>2. CASE ~ ReturnEvent
      BY <1>1, <3>1, <3>2
    <3>3. CASE ReturnEvent
      <4>1. stack # <<>> /\ Top.f = "call" /\ Top.kind = "event" /\ stack' = Below /\ stack \in Seq(Frame)
        BY <3>3 DEF ReturnEvent, At, Base, TypeOK
      <4>2. Top \in Range(stack)
        BY <4>1, RangesAre DEF Top
      <4>3. SafeCall(Top) /\ SafeOnce(stack)
        BY <4>1, <4>2 DEF Guarded
      <4>4. f.c # Top.c
        BY <1>3, <3>1, <4>1, <4>3, SafeFront DEF Below, Top
      <4> QED BY <1>1, <3>1, <4>4
    <3> QED BY <3>2, <3>3
  <2> QED BY <2>2, <2>3
<1> QED BY <1>2, <1>3, SafeOnceStep

(* A set whose elements are all equal has one at most.                     *)
LEMMA AtMostOne ==
  ASSUME NEW S, \A x, y \in S : x = y
  PROVE  Cardinality(S) <= 1
<1>1. CASE S = {}
  BY <1>1, FS_EmptySet
<1>2. CASE S # {}
  <2>1. PICK x : S = {x}
    BY <1>2
  <2>2. Cardinality({x}) = 1
    BY FS_Singleton
  <2> QED BY <2>1, <2>2
<1> QED BY <1>1, <1>2

(* A client is never called for a safe event while it is being called for  *)
(* one (NCLT_EVENT_PROCESSING in ndet_p_event, ndis_d_event), in the       *)
(* programs in which no immediate function is called in between, whose     *)
(* return clears the flag, and no client is removed and set again.         *)
THEOREM NeverRecursiveSafe ==
  ASSUME \A p \in Programs : /\ {"early", "set"} \cap p.calls = {}
                             /\ \A c \in Clients : "immediate" \notin p.funcs[c]
  PROVE  Spec => []NoRecursiveSafe
<1>1. Init => OneLevel /\ Guarded
  <2> SUFFICES ASSUME Init PROVE OneLevel /\ Guarded
    OBVIOUS
  <2>1. stack = <<>> /\ funcs = program.funcs /\ Range(<<>>) = {}
    BY NothingIn DEF Init
  <2> QED BY <2>1 DEF OneLevel, Guarded, Flat, SafeOnce, OnlySafe
<1>2. ASSUME Base, Base', OneLevel, Guarded, [Next]_vars PROVE OneLevel' /\ Guarded'
  <2>1. Lists'
    BY <1>2 DEF Base, Lists, EachOnce, HasId, Range
  <2>2. CASE Next
    BY <1>2, <2>1, <2>2, OneLevelStep, GuardedStep
  <2>3. CASE UNCHANGED vars
    BY <1>2, <2>3 DEF vars, detVars, OneLevel, Guarded, OnlySafe, Protected, SafeOnce, SafeCall, Flat, Calls, Range
  <2> QED BY <1>2, <2>2, <2>3
<1>3. ASSUME Base, Guarded PROVE NoRecursiveSafe
  <2>1. SafeOnce(stack)
    BY <1>3 DEF Guarded, OnlySafe, Base, TypeOK, Calls
  <2> SUFFICES ASSUME NEW c \in Clients PROVE Cardinality(SafeCalls(c)) <= 1
    BY DEF NoRecursiveSafe
  <2>2. \A i, j \in SafeCalls(c) : i = j
    BY <2>1 DEF SafeCalls, SafeOnce, SafeCall
  <2> QED BY <2>2, AtMostOne
<1> QED BY <1>1, <1>2, <1>3, BaseAlways, PTL DEF Spec

-----------------------------------------------------------------------------
(* Programs that do not enter notify_start.                                *)

(* One condition is pending, and the dispatching that was started for it   *)
(* is on its way to it: the client is in the first place of the table, or  *)
(* is being visited with the condition's bit set and the event in the      *)
(* first place of the arrays.                                              *)
Alone(c) ==
  /\ order = <<c>> /\ Len(queue[c]) = 1 /\ queue[c][1].kind \in Destroy \cup {"event"}
  /\ \/ At("sched") /\ Top.i = 1 /\ Top.n = 1 /\ sched[1] = c
     \/ /\ At("client") /\ Top.c = c /\ Top.bits \in {{"event", queue[c][1].kind}, {queue[c][1].kind}}
        /\ queue[c][1].kind = "event" => Top.i = 1 /\ events = queue[c]

(* The program calls neither notify_start nor notify_dispatch.             *)
NeverStarts == {"start", "once"} \cap Calls = {}

(* At most one condition is pending in such a program.                     *)
OnePending == NeverStarts => loop = "out" /\ (order = <<>> \/ \E c \in Clients : Alone(c))

(* The table has a first place.                                            *)
LEMMA FirstSlot == ASSUME NEW c \in Clients PROVE 1 \in Slots
<1>1. IsFiniteSet(Clients) /\ Clients # {}
  BY ConstantsAssumption
<1>2. Cardinality(Clients) \in Nat /\ Cardinality(Clients) # 0
  BY <1>1, FS_EmptySet, FS_CardinalityType
<1> QED BY <1>2 DEF Slots

(* What is enqueued when nothing is pending is alone.                      *)
LEMMA QueuedAlone ==
  ASSUME Lists, order = <<>>, loop = "out", NEW c \in Clients, NEW x \in Condition, x.kind \in Destroy \cup {"event"},
         sched \in [Slots -> Clients \cup {NoClient}], NEW st \in Seq(Frame), Queue(c, x, st)
  PROVE  Alone(c)'
<1>1. Range(order) = {}
  BY NothingIn
<1>2. queue[c] = <<>> /\ queue \in [Clients -> Seq(Condition)]
  BY <1>1 DEF Lists
<1>3. Enqueue(c, x) /\ StartDispatch(st)
  BY DEF Queue
<1>4. order' = Append(<<>>, c) /\ queue'[c] = Append(<<>>, x)
  BY <1>1, <1>2, <1>3 DEF Enqueue
<1>5. order' = <<c>> /\ Len(order') = 1 /\ order'[1] = c /\ order' \in Seq(Clients)
  BY <1>4
<1>6. Len(queue'[c]) = 1 /\ queue'[c][1] = x
  BY <1>4
<1>7. PICK f \in Frame : f.f = "sched" /\ f.i = 1 /\ f.n = 1 /\ stack' = Append(st, f)
  BY <1>3, <1>5, DispatchFrame
<1>8. stack' # <<>> /\ Last(stack') = f
  BY <1>7, LastOfAppend
<1>9. sched'[1] = c
  BY <1>3, <1>5, FirstSlot DEF StartDispatch
<1> QED BY <1>5, <1>6, <1>7, <1>8, <1>9 DEF Alone, At, Top

(* Removing adds nothing.                                                  *)
LEMMA NoneAdded ==
  ASSUME order = <<>>, NEW c,
         \/ order' = order
         \/ \E p : Unset(c, p)
         \/ \E kinds : FlushKinds(c, kinds)
         \/ Flush(c)
  PROVE  order' = <<>>
<1>1. Unlisted(c) = order
  BY NothingIn DEF Unlisted
<1> QED BY <1>1 DEF Unset, FlushKinds, Flush

(* Such a program stays outside notify_start.                              *)
LEMMA StaysOut ==
  ASSUME Next, loop = "out", NeverStarts
  PROVE  loop' = "out" /\ ~ Stop /\ ~ Starts
<1>1. ~ Stop /\ ~ Starts
  BY DEF Stop, Starts, Start, NeverStarts
<1>2. LeaveDispatch => loop' = loop
  BY DEF LeaveDispatch
<1> QED BY <1>1, <1>2, LoopMoves

(* When nothing is pending, one condition at most becomes so.              *)
LEMMA FromNone ==
  ASSUME Base, Next, NeverStarts, loop = "out", order = <<>>
  PROVE  order' = <<>> \/ \E c \in Clients : Alone(c)'
<1>0. Lists /\ stack \in Seq(Frame) /\ sched \in [Slots -> Clients \cup {NoClient}] /\ funcs \in [Clients -> SUBSET Funcs]
  BY DEF Base, TypeOK
<1>1. CASE Notifier
  <2>1. CASE ScheduleNext \/ LeaveClient \/ LeaveDispatch \/ EventsDone
    BY <2>1 DEF ScheduleNext, LeaveClient, LeaveDispatch, EventsDone, listVars
  <2>2. CASE NotifyEvent \/ NotifyOther
    <3>1. order' = order \/ \E p : Unset(Top.c, p)
      BY <2>2 DEF NotifyEvent, NotifyOther, listVars
    <3> QED BY <3>1, NoneAdded
  <2>3. CASE EndCopy
    <3>1. stack # <<>> /\ Top.f = "copy"
      BY <2>3 DEF EndCopy, At
    <3>2. Top.c \in Clients /\ Top.id \in Ids /\ Top.code \in Codes /\ Below \in Seq(Frame)
      BY <1>0, <3>1, BaseStack, FrameFields, RangesAre DEF Below
    <3> DEFINE x == [kind |-> "event", code |-> Top.code, id |-> Top.id]
    <3>3. x \in Condition /\ x.kind \in Destroy \cup {"event"}
      BY <3>2, ConditionsMade
    <3>4. Queue(Top.c, x, Below)
      BY <2>3 DEF EndCopy
    <3> HIDE DEF x
    <3> QED BY <1>0, <3>2, <3>3, <3>4, QueuedAlone
  <2>4. ~ Dispatch
    BY DEF Dispatch
  <2> QED BY <1>1, <2>1, <2>2, <2>3, <2>4 DEF Notifier
<1>2. CASE Returns
  <2>1. order' = order \/ Flush(Top.c)
    BY <1>2 DEF Returns, ReturnEvent, ReturnDetected, ReturnChecked, ReturnDestroyed, RemoveClient, listVars
  <2> QED BY <2>1, NoneAdded
<1>3. CASE Clientele
  <2>1. ASSUME NEW c \in Clients, NEW hint \in {"safe", "immediate"}, Post(c, hint)
        PROVE  order' = <<>> \/ Alone(c)'
    <3> DEFINE x == [kind |-> "event", code |-> CodeOf[posts + 1], id |-> posts + 1]
    <3>1. posts + 1 \in Ids /\ CodeOf[posts + 1] \in Codes
      BY <2>1, NextId DEF Base, TypeOK, Post
    <3>2. x \in Condition /\ x.kind \in Destroy \cup {"event"}
      BY <3>1, ConditionsMade
    <3>3. UNCHANGED listVars \/ Queue(c, x, stack)
      BY <2>1 DEF Post
    <3> HIDE DEF x
    <3> QED BY <1>0, <3>2, <3>3, QueuedAlone DEF listVars
  <2>2. ASSUME NEW c \in Clients, PostAsync(c) PROVE FALSE
    BY <2>2 DEF PostAsync
  <2>3. ASSUME NEW c \in Clients, NEW status \in program.statuses, DestroyNow(c, status) \/ DestroyLater(c, status)
        PROVE  order' = <<>> \/ Alone(c)'
    <3> DEFINE x == [kind |-> status, code |-> 0, id |-> 0]
    <3>1. status \in Destroy
      BY ConstantsAssumption DEF Base, TypeOK, Program
    <3>2. x \in Condition /\ x.kind \in Destroy \cup {"event"}
      BY <3>1, ConditionsMade DEF Kinds
    <3>3. UNCHANGED listVars \/ Queue(c, x, stack)
      BY <2>3 DEF DestroyNow, DestroyLater
    <3> HIDE DEF x
    <3> QED BY <1>0, <3>2, <3>3, QueuedAlone DEF listVars
  <2>4. ASSUME NEW c \in Clients, FlushPending(c) \/ NotifyRemove(c) PROVE order' = <<>>
    BY <2>4, NoneAdded DEF FlushPending, NotifyRemove, RemoveClient
  <2>5. ASSUME NEW c \in Clients, NEW type \in Funcs, SetFunc(c, type) \/ UnsetFunc(c, type) PROVE order' = <<>>
    BY <2>5, NoneAdded DEF SetFunc, UnsetFunc, listVars
  <2>6. ASSUME NEW c \in Clients, NEW kind \in Detected, Detect(c, kind) PROVE FALSE
    BY <2>6 DEF Detect
  <2>7. ASSUME Veto \/ Ignore PROVE order' = <<>>
    BY <2>7 DEF Veto, Ignore, listVars
  <2> QED BY <1>3, <2>1, <2>2, <2>3, <2>4, <2>5, <2>6, <2>7, StaysOut DEF Clientele, Starts
<1> QED BY <1>1, <1>2, <1>3 DEF Next

(* While the scheduler or the prioritizer is on top, only they take steps. *)
LEMMA OnlyDispatcher ==
  ASSUME Base, Next, NeverStarts, loop = "out", At("sched") \/ At("client")
  PROVE  ScheduleNext \/ LeaveClient \/ LeaveDispatch \/ NotifyEvent \/ EventsDone \/ NotifyOther
<1>1. stack # <<>> /\ ~ At("call") /\ ~ At("copy") /\ ~ MayCall
  BY DEF At, MayCall
<1>2. ~ Returns /\ ~ EndCopy /\ ~ Dispatch
  BY <1>1 DEF Returns, ReturnEvent, ReturnDetected, ReturnChecked, ReturnDestroyed, EndCopy, Dispatch
<1>3. ~ Clientele
  <2>1. \A d, hint : ~ Post(d, hint)
    BY <1>1 DEF Post
  <2>2. \A d : ~ PostAsync(d) /\ ~ FlushPending(d) /\ ~ NotifyRemove(d)
    BY <1>1 DEF PostAsync, FlushPending, NotifyRemove, MayCallOnce
  <2>3. \A d, status : ~ DestroyNow(d, status) /\ ~ DestroyLater(d, status)
    BY <1>1 DEF DestroyNow, DestroyLater, MayCallOnce
  <2>4. \A d, type : ~ SetFunc(d, type) /\ ~ UnsetFunc(d, type)
    BY <1>1 DEF SetFunc, UnsetFunc, MayCallOnce
  <2>5. \A d, kind : ~ Detect(d, kind)
    BY DEF Detect
  <2>6. ~ Veto /\ ~ Ignore
    BY <1>1 DEF Veto, Ignore
  <2> QED BY <2>1, <2>2, <2>3, <2>4, <2>5, <2>6, StaysOut DEF Clientele, Starts
<1> QED BY <1>2, <1>3 DEF Next, Notifier

(* Taking the only condition leaves nothing.                               *)
LEMMA LastTaken ==
  ASSUME Lists, NEW c \in Clients, order = <<c>>, Len(queue[c]) = 1, NEW matching,
         matching \subseteq DOMAIN queue[c], matching # {}, Unset(c, Find(c, matching))
  PROVE  order' = <<>>
<1>1. Find(c, matching) \in matching
  BY FindIs
<1>2. PICK p \in DOMAIN queue[c] : p = Find(c, matching)
  BY <1>1
<1>3. PICK q \in Seq(Condition) : q = RemoveAt(queue[c], p) /\ ListsTo(c, q)
  BY <1>2, UnsetTo
<1>4. queue[c] \in Seq(Condition) /\ p \in 1..Len(queue[c])
  BY DEF Lists
<1>5. Len(q) = 0
  <2>1. Len(q) = Len(queue[c]) - 1
    BY <1>3, <1>4, Removed
  <2> QED BY <2>1
<1>6. q = <<>>
  BY <1>5, RangeIs
<1>7. Range(order') = Range(order) \ {c} /\ order' \in Seq(Clients)
  BY <1>3, <1>6 DEF ListsTo
<1>8. Range(order) = {c}
  BY DEF Range
<1> QED BY <1>7, <1>8, RangeIs

(* A visit puts the client's only condition where it will be found.        *)
LEMMA Visited ==
  ASSUME Lists, NEW c \in Clients, Len(queue[c]) = 1, NEW st \in Seq(Frame), Visit(c, st)
  PROVE  /\ At("client")' /\ Top'.c = c /\ Top'.i = 1 /\ Top'.bits = {"event", queue[c][1].kind}
         /\ queue[c][1].kind = "event" => events' = queue[c]
<1>1. queue[c] \in Seq(Condition) /\ DOMAIN queue[c] = {1}
  BY DEF Lists
<1>2. PICK f \in Frame : /\ f.f = "client" /\ f.c = c /\ f.i = 1 /\ stack' = Append(st, f)
                         /\ f.bits = {"event"} \cup {queue[c][p].kind : p \in DOMAIN queue[c]}
  BY VisitFrame, ZenonT(30)
<1>3. stack' # <<>> /\ Last(stack') = f
  BY <1>2, LastOfAppend
<1>4. f.bits = {"event", queue[c][1].kind}
  BY <1>1, <1>2
<1>5. ASSUME queue[c][1].kind = "event" PROVE events' = queue[c]
  <2>1. \A p \in DOMAIN queue[c] : queue[c][p].kind \in {"event"}
    BY <1>1, <1>5
  <2>2. OfKinds(queue[c], {"event"}) = queue[c]
    BY <1>1, <2>1, OfKindsAll
  <2> QED BY <2>2 DEF Visit
<1> QED BY <1>2, <1>3, <1>4, <1>5 DEF At, Top

(* What is on top after a change.                                          *)
LEMMA TopBecomes ==
  ASSUME NEW st \in Seq(Frame), st # <<>>, NEW f \in Frame, stack' = SetTop(st, f)
  PROVE  stack' # <<>> /\ Top' = f /\ Below' = Front(st)
<1>1. stack' = Append(Front(st), f) /\ Front(st) \in Seq(Frame)
  BY TopReplaced, RangesAre
<1> QED BY <1>1, LastOfAppend DEF Top, Below

(* While one condition is pending, the dispatching finds it or goes on     *)
(* towards it.                                                             *)
LEMMA FromAlone ==
  ASSUME Base, Next, NeverStarts, loop = "out", NEW c \in Clients, Alone(c)
  PROVE  order' = <<>> \/ Alone(c)'
<1>0. /\ Lists /\ stack \in Seq(Frame) /\ order = <<c>> /\ Len(queue[c]) = 1 /\ queue[c] \in Seq(Condition)
      /\ DOMAIN queue[c] = {1} /\ Range(order) = {c}
  BY DEF Base, TypeOK, Lists, Alone, Range
<1> DEFINE kind == queue[c][1].kind
<1>1. kind \in Destroy \cup {"event"}
  BY DEF Alone
<1>2. CASE At("sched") /\ Top.i = 1 /\ Top.n = 1 /\ sched[1] = c
  <2>1. ScheduleNext
    BY <1>2, OnlyDispatcher DEF At, LeaveClient, LeaveDispatch, NotifyEvent, EventsDone, EventsTurn, NotifyOther
  <2>2. Visit(c, stack) /\ UNCHANGED listVars
    BY <1>0, <1>2, <2>1 DEF ScheduleNext
  <2>3. /\ At("client")' /\ Top'.c = c /\ Top'.i = 1 /\ Top'.bits = {"event", kind}
        /\ kind = "event" => events' = queue[c]
    BY <1>0, <2>2, Visited
  <2> QED BY <1>0, <1>1, <2>2, <2>3 DEF Alone, listVars
<1>3. CASE /\ At("client") /\ Top.c = c /\ Top.bits \in {{"event", kind}, {kind}}
           /\ kind = "event" => Top.i = 1 /\ events = queue[c]
  <2>0. stack # <<>> /\ Top.f = "client" /\ Top \in Frame /\ Top.bits # {} /\ Top.i \in Nat \ {0} /\ Top.bits \subseteq Kinds
    BY <1>3, TopClientIs
  <2>1. NotifyEvent \/ EventsDone \/ NotifyOther
    BY <1>3, <2>0, OnlyDispatcher DEF At, ScheduleNext, LeaveClient, LeaveDispatch
  <2>2. ASSUME NEW f \in Frame, f.f = "client", f.c = c, f.bits \in {{"event", kind}, {kind}}, kind # "event",
               stack' = SetTop(stack, f), UNCHANGED listVars
        PROVE  Alone(c)'
    <3>1. At("client")' /\ Top' = f
      BY <1>0, <2>0, <2>2, TopBecomes DEF At, Top
    <3> QED BY <1>0, <1>1, <2>2, <3>1 DEF Alone, listVars
  <2>3. CASE NotifyEvent
    <3> DEFINE m == Matching(c, "event", events[Top.i].code)
    <3>1. m \subseteq DOMAIN queue[c]
      BY DEF Matching
    <3>2. CASE m # {}
      <4>1. Unset(c, Find(c, m))
        BY <1>3, <2>3, <3>2 DEF NotifyEvent
      <4> HIDE DEF m
      <4> QED BY <1>0, <3>1, <3>2, <4>1, LastTaken
    <3>3. CASE m = {}
      <4>1. kind # "event"
        <5> SUFFICES ASSUME kind = "event" PROVE FALSE
          OBVIOUS
        <5>1. Top.i = 1 /\ events[1].code = queue[c][1].code
          BY <1>3
        <5>2. 1 \in m
          BY <1>0, <5>1 DEF Matching, Fits, Destroy
        <5> QED BY <5>2, <3>3
      <4>2. PICK i \in Nat \ {0} : i = Top.i + 1
        BY <2>0
      <4> DEFINE f == [Top EXCEPT !.i = i]
      <4>3. f \in Frame /\ f.f = "client" /\ f.c = c /\ f.bits = Top.bits
        BY <1>3, <2>0, ClientChanged
      <4>4. stack' = SetTop(stack, f) /\ UNCHANGED listVars
        BY <1>3, <2>3, <3>3, <4>2 DEF NotifyEvent
      <4> HIDE DEF f
      <4> QED BY <1>3, <2>2, <4>1, <4>3, <4>4
    <3> QED BY <3>2, <3>3
  <2>4. CASE EventsDone
    <3>1. kind # "event"
      <4> SUFFICES ASSUME kind = "event" PROVE FALSE
        OBVIOUS
      <4>1. Top.i = 1 /\ Len(events) = 1
        BY <1>0, <1>3
      <4> QED BY <2>4, <4>1 DEF EventsDone
    <3>2. PICK bits \in SUBSET Kinds : bits = Top.bits \ {"event"}
      BY <2>0
    <3>3. bits = {kind}
      BY <1>3, <3>1, <3>2
    <3> DEFINE f == [Top EXCEPT !.bits = bits]
    <3>4. f \in Frame /\ f.f = "client" /\ f.c = c /\ f.bits = bits
      BY <1>3, <2>0, ClientChanged
    <3>5. stack' = SetTop(stack, f) /\ UNCHANGED listVars
      BY <2>4, <3>2 DEF EventsDone
    <3> HIDE DEF f
    <3> QED BY <1>3, <2>2, <3>1, <3>3, <3>4, <3>5
  <2>5. CASE NotifyOther
    <3> DEFINE turn == First(Top.bits)
               m == Matching(c, turn, 0)
    <3>1. turn \in Top.bits /\ turn # "event"
      BY <2>0, <2>5, FirstOfBits DEF NotifyOther
    <3>2. turn = kind /\ kind \in Destroy
      BY <1>1, <1>3, <3>1
    <3>3. 1 \in m
      BY <1>0, <3>2 DEF Matching, Fits
    <3>4. m \subseteq DOMAIN queue[c]
      BY DEF Matching
    <3>5. Unset(c, Find(c, m))
      BY <1>3, <2>5, <3>3 DEF NotifyOther
    <3> HIDE DEF m
    <3> QED BY <1>0, <3>3, <3>4, <3>5, LastTaken
  <2> QED BY <2>1, <2>3, <2>4, <2>5
<1> QED BY <1>2, <1>3 DEF Alone

(* In a program that does not enter notify_start whatever is posted is     *)
(* dispatched before control is back in its main function (ndis_enqueue,   *)
(* ndis_dispatch, notify_client): what is enqueued is dispatched at once,  *)
(* and before a function is called nothing is pending any more.            *)
THEOREM NeverStranded == Spec => []NothingStranded
<1>1. Init => OnePending
  BY DEF Init, OnePending
<1>2. ASSUME Base, OnePending, [Next]_vars PROVE OnePending'
  <2>1. CASE Next
    <3>1. NeverStarts' <=> NeverStarts
      BY <2>1, LoopMoves DEF NeverStarts, Calls
    <3>2. NeverStarts => loop' = "out" /\ (order' = <<>> \/ \E c \in Clients : Alone(c)')
      BY <1>2, <2>1, StaysOut, FromNone, FromAlone DEF OnePending
    <3> QED BY <3>1, <3>2 DEF OnePending
  <2>2. CASE UNCHANGED vars
    BY <1>2, <2>2 DEF vars, listVars, OnePending, NeverStarts, Alone, At, Top, Calls
  <2> QED BY <1>2, <2>1, <2>2
<1>3. OnePending => NothingStranded
  BY DEF OnePending, NothingStranded, NeverStarts, Alone, At
<1> QED BY <1>1, <1>2, <1>3, BaseAlways, PTL DEF Spec

-----------------------------------------------------------------------------
(* More about OfKinds, for the events among a client's conditions.         *)

(* Selecting twice is selecting what is of both.                           *)
LEMMA OfKindsTwice ==
  ASSUME NEW S, NEW q \in Seq(S), NEW A, NEW B
  PROVE  OfKinds(OfKinds(q, A), B) = OfKinds(q, A \cap B)
<1>0. Buildable(S)
  BY Built
<1>a. \A r \in Seq(S), x \in S : \A kinds :
        OfKinds(Append(r, x), kinds) = IF x.kind \in kinds THEN Append(OfKinds(r, kinds), x) ELSE OfKinds(r, kinds)
  BY OfKindsAppend
<1>b. \A r \in Seq(S) : \A kinds : OfKinds(r, kinds) \in Seq(S)
  BY OfKindsRange
<1> DEFINE Good(r) == OfKinds(OfKinds(r, A), B) = OfKinds(r, A \cap B)
           Bad == {n \in Nat : \E r \in Seq(S) : Len(r) = n /\ ~ Good(r)}
<1>1. ASSUME Bad # {} PROVE FALSE
  <2>1. PICK n \in Bad : \A m \in Bad : n <= m
    BY <1>1, Least
  <2>2. PICK r \in Seq(S) : Len(r) = n /\ ~ Good(r)
    BY <2>1
  <2>3. CASE r = <<>>
    BY <2>2, <2>3, OfKindsEmpty
  <2>4. CASE r # <<>>
    <3>1. PICK f \in Seq(S), x \in S : /\ r = Append(f, x) /\ Len(r) = Len(f) + 1 /\ Len(f) \in Nat
                                       /\ Last(r) = x /\ Front(r) = f
                                       /\ \A i \in 1..Len(f) : r[i] = f[i]
      BY <2>4, <1>0 DEF Buildable
    <3>2. Good(f)
      <4>1. ~ (n <= Len(f))
        BY <3>1, <2>2
      <4> QED BY <4>1, <3>1, <2>1
    <3>3. OfKinds(r, A \cap B) = IF x.kind \in A \cap B THEN Append(OfKinds(f, A \cap B), x)
                                 ELSE OfKinds(f, A \cap B)
      <4> DEFINE C == A \cap B
      <4> HIDE DEF C
      <4>1. OfKinds(Append(f, x), C) = IF x.kind \in C THEN Append(OfKinds(f, C), x) ELSE OfKinds(f, C)
        BY <1>a
      <4> QED BY <3>1, <4>1 DEF C
    <3>4. OfKinds(r, A) = IF x.kind \in A THEN Append(OfKinds(f, A), x) ELSE OfKinds(f, A)
      BY <3>1, <1>a
    <3>5. OfKinds(Append(OfKinds(f, A), x), B) =
            IF x.kind \in B THEN Append(OfKinds(OfKinds(f, A), B), x) ELSE OfKinds(OfKinds(f, A), B)
      <4>1. OfKinds(f, A) \in Seq(S)
        BY <1>b
      <4> QED BY <4>1, <1>a
    <3>6. Good(r)
      BY <3>2, <3>3, <3>4, <3>5
    <3> QED BY <3>6, <2>2
  <2> QED BY <2>3, <2>4
<1>2. Len(q) \in Nat
  OBVIOUS
<1> QED BY <1>1, <1>2

(* Selecting no kind leaves nothing.                                       *)
LEMMA OfNoKind ==
  ASSUME NEW S, NEW q \in Seq(S)
  PROVE  OfKinds(q, {}) = <<>>
<1>1. OfKinds(q, {}) \in Seq(S) /\ Range(OfKinds(q, {})) = {}
  BY OfKindsRange
<1> QED BY <1>1, RangeIs

(* Selecting from one condition.                                           *)
LEMMA OfKindsOne ==
  ASSUME NEW S, NEW x \in S, NEW kinds
  PROVE  OfKinds(<<x>>, kinds) = IF x.kind \in kinds THEN <<x>> ELSE <<>>
<1> DEFINE e == <<>>
<1>1. e \in Seq(S) /\ <<x>> = Append(e, x) /\ OfKinds(e, kinds) = e
  BY OfKindsEmpty
<1> HIDE DEF e
<1>2. OfKinds(Append(e, x), kinds) = IF x.kind \in kinds THEN Append(OfKinds(e, kinds), x) ELSE OfKinds(e, kinds)
  BY <1>1, OfKindsAppend
<1>3. OfKinds(<<x>>, kinds) = IF x.kind \in kinds THEN <<x>> ELSE e
  BY <1>1, <1>2
<1> QED BY <1>3 DEF e

(* A condition that is selected is taken from its place among the          *)
(* selected.                                                               *)
SplitAt(S, q, kinds, p) ==
  \E b \in Seq(S), a \in Seq(S) :
     OfKinds(RemoveAt(q, p), kinds) = b \o a /\ OfKinds(q, kinds) = b \o (<<q[p]>> \o a)

(* Removing a condition removes it from what is selected, and only if it   *)
(* is.                                                                     *)
LEMMA OfKindsSplit ==
  ASSUME NEW S, NEW q \in Seq(S), NEW kinds, NEW p \in 1..Len(q)
  PROVE  /\ q[p].kind \notin kinds => OfKinds(RemoveAt(q, p), kinds) = OfKinds(q, kinds)
         /\ q[p].kind \in kinds => SplitAt(S, q, kinds, p)
<1>1. PICK b \in Seq(S), a \in Seq(S) : /\ q = b \o (<<q[p]>> \o a) /\ RemoveAt(q, p) = b \o a
                                        /\ Len(b) = p - 1 /\ \A i \in 1..(p - 1) : b[i] = q[i]
  BY Around
<1>2. PICK x \in S : x = q[p]
  OBVIOUS
<1> DEFINE one == <<x>>
<1>3. one \in Seq(S) /\ q = b \o (one \o a)
  BY <1>1, <1>2
<1>4. OfKinds(one, kinds) = IF x.kind \in kinds THEN one ELSE <<>>
  BY OfKindsOne
<1> HIDE DEF one
<1>5. one \in Seq(S)
  BY <1>3
<1> DEFINE rest == one \o a
<1>r. rest \in Seq(S)
  BY <1>5
<1>o. OfKinds(one \o a, kinds) = OfKinds(one, kinds) \o OfKinds(a, kinds)
  <2>1. KindsConcat(one, a, kinds)
    BY <1>5, OfKindsConcat
  <2> QED BY <2>1 DEF KindsConcat
<1>s. OfKinds(rest, kinds) = OfKinds(one, kinds) \o OfKinds(a, kinds)
  BY <1>o
<1> HIDE DEF rest
<1>t. OfKinds(b \o rest, kinds) = OfKinds(b, kinds) \o OfKinds(rest, kinds)
  <2>1. KindsConcat(b, rest, kinds)
    BY <1>r, OfKindsConcat
  <2> QED BY <2>1 DEF KindsConcat
<1>6. OfKinds(b \o (one \o a), kinds) = OfKinds(b, kinds) \o (OfKinds(one, kinds) \o OfKinds(a, kinds))
  BY <1>s, <1>t DEF rest
<1>7. OfKinds(b \o a, kinds) = OfKinds(b, kinds) \o OfKinds(a, kinds)
  <2>1. KindsConcat(b, a, kinds)
    BY OfKindsConcat
  <2> QED BY <2>1 DEF KindsConcat
<1>8. OfKinds(b, kinds) \in Seq(S) /\ OfKinds(a, kinds) \in Seq(S)
  BY OfKindsRange
<1>9. <<>> \o OfKinds(a, kinds) = OfKinds(a, kinds)
  BY <1>8
<1>10. OfKinds(q, kinds) = IF x.kind \in kinds THEN OfKinds(b, kinds) \o (one \o OfKinds(a, kinds))
                                               ELSE OfKinds(b, kinds) \o OfKinds(a, kinds)
  BY <1>3, <1>4, <1>6, <1>9
<1> QED BY <1>1, <1>2, <1>7, <1>8, <1>10 DEF one, SplitAt

(* No event occurs twice.                                                  *)
IdsApart(s) == \A i, j \in DOMAIN s : s[i].id = s[j].id => i = j

(* A sequence with one element put in front.                               *)
LEMMA OneBefore ==
  ASSUME NEW S, NEW x \in S, NEW a \in Seq(S)
  PROVE  LET rest == <<x>> \o a IN
         /\ rest \in Seq(S) /\ Len(rest) = Len(a) + 1 /\ rest[1] = x /\ rest # <<>>
         /\ Head(rest) = x /\ Tail(rest) = a
OBVIOUS

(* Removing a condition that is the first selected one leaves the tail.    *)
LEMMA FirstTaken ==
  ASSUME NEW S, NEW q \in Seq(S), NEW kinds, NEW p \in 1..Len(q)
  PROVE  q[p].kind \in kinds /\ IdsApart(OfKinds(q, kinds)) /\ OfKinds(q, kinds)[1].id = q[p].id
         => /\ OfKinds(q, kinds) # <<>> /\ Head(OfKinds(q, kinds)) = q[p]
            /\ OfKinds(RemoveAt(q, p), kinds) = Tail(OfKinds(q, kinds))
<1>0. q[p].kind \in kinds => SplitAt(S, q, kinds, p)
  BY OfKindsSplit
<1> SUFFICES ASSUME q[p].kind \in kinds, IdsApart(OfKinds(q, kinds)), OfKinds(q, kinds)[1].id = q[p].id
             PROVE  /\ OfKinds(q, kinds) # <<>> /\ Head(OfKinds(q, kinds)) = q[p]
                    /\ OfKinds(RemoveAt(q, p), kinds) = Tail(OfKinds(q, kinds))
  OBVIOUS
<1>1. PICK b \in Seq(S), a \in Seq(S) :
         OfKinds(RemoveAt(q, p), kinds) = b \o a /\ OfKinds(q, kinds) = b \o (<<q[p]>> \o a)
  BY <1>0 DEF SplitAt
<1> DEFINE own == b \o (<<q[p]>> \o a)
           rest == <<q[p]>> \o a
<1>2. q[p] \in S
  OBVIOUS
<1>3. /\ rest \in Seq(S) /\ Len(rest) = Len(a) + 1 /\ rest[1] = q[p] /\ rest # <<>>
      /\ Head(rest) = q[p] /\ Tail(rest) = a
  BY <1>2, OneBefore
<1> HIDE DEF rest
<1>4. own \in Seq(S) /\ Len(own) = Len(b) + Len(rest) /\ own[Len(b) + 1] = rest[1]
      /\ \A i \in 1..Len(b) : own[i] = b[i]
  BY <1>1, <1>3 DEF rest
<1>5. Len(b) \in Nat /\ Len(a) \in Nat
  BY <1>1
<1> HIDE DEF own
<1>6. DOMAIN own = 1..(Len(b) + Len(a) + 1)
  BY <1>3, <1>4, <1>5
<1>7. 1 \in DOMAIN own /\ Len(b) + 1 \in DOMAIN own
  BY <1>5, <1>6
<1>8. own[1].id = own[Len(b) + 1].id
  BY <1>1, <1>3, <1>4 DEF own
<1>9. 1 = Len(b) + 1
  BY <1>1, <1>7, <1>8 DEF IdsApart, own
<1>10. b = <<>>
  BY <1>1, <1>5, <1>9, RangeIs
<1>11. <<>> \o rest = rest /\ <<>> \o a = a
  BY <1>1, <1>3
<1>12. own = rest
  BY <1>10, <1>11 DEF own, rest
<1> QED BY <1>1, <1>3, <1>10, <1>11, <1>12 DEF own

-----------------------------------------------------------------------------
(* The events of the clients' queues: what the dispatcher's operations     *)
(* make of them.                                                           *)

(* Each client's events, in their order.                                   *)
Own == [c \in Clients |-> EventsOf(c)]

(* They are the events that are pending.                                   *)
LEMMA OwnIs ==
  ASSUME Lists, NEW c \in Clients
  PROVE  /\ Own[c] \in Seq(Condition) /\ Own[c] = OfKinds(queue[c], {"event"})
         /\ \A x \in Range(Own[c]) : x.kind = "event" /\ x.id \in Ids /\ x \in Range(queue[c])
         /\ \A x \in Range(queue[c]) : x.kind = "event" => x \in Range(Own[c])
<1>1. queue[c] \in Seq(Condition) /\ Own[c] = OfKinds(queue[c], {"event"})
  BY DEF Lists, Own, EventsOf
<1>2. /\ OfKinds(queue[c], {"event"}) \in Seq(Condition)
      /\ Range(OfKinds(queue[c], {"event"})) = {x \in Range(queue[c]) : x.kind \in {"event"}}
  BY <1>1, OfKindsRange
<1>3. \A x \in Range(queue[c]) : x.kind = "event" => x.id \in Ids
  BY DEF Lists, HasId
<1> QED BY <1>1, <1>2, <1>3

(* A change of one client's queue changes its events.                      *)
LEMMA OwnTo ==
  ASSUME Lists, NEW c \in Clients, NEW q, queue' = [queue EXCEPT ![c] = q]
  PROVE  Own' = [Own EXCEPT ![c] = OfKinds(q, {"event"})]
BY DEF Lists, Own, EventsOf

(* And no event, if the new queue has the same ones.                       *)
LEMMA OwnSame ==
  ASSUME Lists, NEW c \in Clients, NEW q, queue' = [queue EXCEPT ![c] = q], OfKinds(q, {"event"}) = Own[c]
  PROVE  Own' = Own
BY DEF Lists, Own, EventsOf

(* ndis_enqueue.                                                           *)
LEMMA OwnEnqueued ==
  ASSUME Lists, NEW c \in Clients, NEW x \in Condition, Enqueue(c, x)
  PROVE  Own' = IF x.kind = "event" THEN [Own EXCEPT ![c] = Append(Own[c], x)] ELSE Own
<1> DEFINE q == Append(queue[c], x)
<1>1. queue' = [queue EXCEPT ![c] = q] /\ queue[c] \in Seq(Condition)
  BY DEF Enqueue, Lists
<1>a. \A r \in Seq(Condition), y \in Condition : \A kinds :
        OfKinds(Append(r, y), kinds) = IF y.kind \in kinds THEN Append(OfKinds(r, kinds), y) ELSE OfKinds(r, kinds)
  BY OfKindsAppend
<1>2. OfKinds(Append(queue[c], x), {"event"}) = IF x.kind \in {"event"} THEN Append(OfKinds(queue[c], {"event"}), x)
                                               ELSE OfKinds(queue[c], {"event"})
  BY <1>1, <1>a
<1>3. OfKinds(q, {"event"}) = IF x.kind = "event" THEN Append(Own[c], x) ELSE Own[c]
  BY <1>2, OwnIs
<1> HIDE DEF q
<1> QED BY <1>1, <1>3, OwnTo, OwnSame

(* notify_flush_pending.                                                   *)
LEMMA OwnFlushed ==
  ASSUME Lists, NEW c \in Clients, Flush(c)
  PROVE  Own' = [Own EXCEPT ![c] = <<>>]
<1>1. queue' = [queue EXCEPT ![c] = <<>>] /\ OfKinds(<<>>, {"event"}) = <<>>
  BY OfKindsEmpty DEF Flush
<1> QED BY <1>1, OwnTo

(* Taking another condition takes no event.                                *)
LEMMA OwnUnset ==
  ASSUME Lists, NEW c \in Clients, NEW p \in DOMAIN queue[c], queue[c][p].kind # "event", Unset(c, p)
  PROVE  Own' = Own
<1> DEFINE q == RemoveAt(queue[c], p)
<1>1. queue' = [queue EXCEPT ![c] = q] /\ queue[c] \in Seq(Condition) /\ p \in 1..Len(queue[c])
  BY DEF Unset, Lists
<1>2. OfKinds(RemoveAt(queue[c], p), {"event"}) = OfKinds(queue[c], {"event"})
  <2>1. queue[c][p].kind \notin {"event"}
    OBVIOUS
  <2> QED BY <1>1, <2>1, OfKindsSplit
<1>3. OfKinds(q, {"event"}) = Own[c]
  BY <1>2, OwnIs
<1> HIDE DEF q
<1> QED BY <1>1, <1>3, OwnSame

(* Taking the condition of the first event.                                *)
LEMMA OwnTaken ==
  ASSUME Lists, NEW c \in Clients, NEW p \in DOMAIN queue[c], queue[c][p].kind = "event", Unset(c, p),
         IdsApart(Own[c]), Own[c][1].id = queue[c][p].id
  PROVE  Own[c] # <<>> /\ Head(Own[c]) = queue[c][p] /\ Own' = [Own EXCEPT ![c] = Tail(Own[c])]
<1> DEFINE q == RemoveAt(queue[c], p)
           k == {"event"}
<1>1. queue' = [queue EXCEPT ![c] = q] /\ queue[c] \in Seq(Condition) /\ p \in 1..Len(queue[c])
  BY DEF Unset, Lists
<1>2. Own[c] = OfKinds(queue[c], k) /\ queue[c][p].kind \in k
  BY OwnIs
<1> HIDE DEF k
<1>3. IdsApart(OfKinds(queue[c], k)) /\ OfKinds(queue[c], k)[1].id = queue[c][p].id
  BY <1>2
<1>4. /\ OfKinds(queue[c], k) # <<>> /\ Head(OfKinds(queue[c], k)) = queue[c][p]
      /\ OfKinds(RemoveAt(queue[c], p), k) = Tail(OfKinds(queue[c], k))
  BY <1>1, <1>2, <1>3, FirstTaken
<1>5. Own[c] # <<>> /\ Head(Own[c]) = queue[c][p] /\ OfKinds(q, k) = Tail(Own[c])
  BY <1>2, <1>4
<1> HIDE DEF q
<1>6. Own' = [Own EXCEPT ![c] = OfKinds(q, k)]
  BY <1>1, OwnTo DEF k
<1> QED BY <1>5, <1>6

(* ndis_flush_condition takes all events or none.                          *)
LEMMA OwnLeft ==
  ASSUME Lists, NEW c \in Clients, NEW kinds \in SUBSET Kinds
  PROVE  /\ "event" \notin kinds => OfKinds(Left(c, kinds), {"event"}) = Own[c]
         /\ kinds = {"event"} => OfKinds(Left(c, kinds), {"event"}) = <<>>
<1>1. queue[c] \in Seq(Condition) /\ DOMAIN queue[c] = 1..Len(queue[c])
  BY DEF Lists
<1> DEFINE flushed == {p \in DOMAIN queue[c] : queue[c][p].kind \in kinds}
<1>2. CASE kinds = {"wait3"} /\ flushed # {}
  <2> DEFINE p == CHOOSE p \in flushed : \A q \in flushed : p <= q
  <2>1. p \in flushed
    <3> HIDE DEF flushed
    <3>1. flushed \subseteq Nat
      BY <1>1 DEF flushed
    <3> QED BY <3>1, <1>2, FirstIs
  <2>2. p \in 1..Len(queue[c]) /\ queue[c][p].kind \notin {"event"}
    BY <2>1, <1>1, <1>2
  <2>3. Left(c, kinds) = RemoveAt(queue[c], p)
    BY <1>2 DEF Left
  <2> HIDE DEF p
  <2>4. OfKinds(RemoveAt(queue[c], p), {"event"}) = OfKinds(queue[c], {"event"})
    BY <1>1, <2>2, OfKindsSplit
  <2> QED BY <1>2, <2>2, <2>3, <2>4, OwnIs
<1>3. CASE ~ (kinds = {"wait3"} /\ flushed # {})
  <2>1. Left(c, kinds) = OfKinds(queue[c], Kinds \ kinds)
    BY <1>3 DEF Left
  <2>2. OfKinds(OfKinds(queue[c], Kinds \ kinds), {"event"}) = OfKinds(queue[c], (Kinds \ kinds) \cap {"event"})
    BY <1>1, OfKindsTwice
  <2>3. "event" \notin kinds => (Kinds \ kinds) \cap {"event"} = {"event"}
    BY DEF Kinds
  <2>4. kinds = {"event"} => (Kinds \ kinds) \cap {"event"} = {}
    OBVIOUS
  <2>5. OfKinds(queue[c], {}) = <<>>
    BY <1>1, OfNoKind
  <2> QED BY <2>1, <2>2, <2>3, <2>4, <2>5, OwnIs
<1> QED BY <1>2, <1>3

(* So flushing kinds takes all events or none.                             *)
LEMMA OwnFlushedKinds ==
  ASSUME Lists, NEW c \in Clients, NEW kinds \in SUBSET Kinds, FlushKinds(c, kinds),
         "event" \notin kinds \/ kinds = {"event"}
  PROVE  Own' = Own \/ Own' = [Own EXCEPT ![c] = <<>>]
<1> DEFINE q == Left(c, kinds)
<1>1. queue' = [queue EXCEPT ![c] = q]
  BY DEF FlushKinds
<1>2. OfKinds(q, {"event"}) = Own[c] \/ OfKinds(q, {"event"}) = <<>>
  BY OwnLeft
<1> HIDE DEF q
<1>3. CASE OfKinds(q, {"event"}) = Own[c]
  BY <1>1, <1>3, OwnSame
<1>4. CASE OfKinds(q, {"event"}) = <<>>
  <2>1. Own' = [Own EXCEPT ![c] = OfKinds(q, {"event"})]
    BY <1>1, OwnTo
  <2> QED BY <2>1, <1>4
<1> QED BY <1>2, <1>3, <1>4

(* The last notification of a timer or child changes no events.            *)
LEMMA OwnExpired ==
  ASSUME Lists, NEW c \in Clients, NEW kind \in Detected, Expire(c, kind)
  PROVE  Own' = Own
<1> DEFINE left == Left(c, {kind})
           x == [kind |-> kind, code |-> 0, id |-> 0]
           q == Append(left, x)
<1>1. {kind} \in SUBSET Kinds /\ kind # "event" /\ x \in Condition /\ x.kind = kind
  BY ConditionsMade DEF Kinds, Detected
<1>2. left \in Seq(Condition) /\ OfKinds(left, {"event"}) = Own[c]
  BY <1>1, LeftIs, OwnLeft
<1>3. queue' = [queue EXCEPT ![c] = q]
  BY DEF Expire
<1> HIDE DEF left, x
<1>a. \A r \in Seq(Condition), y \in Condition : \A kinds :
        OfKinds(Append(r, y), kinds) = IF y.kind \in kinds THEN Append(OfKinds(r, kinds), y) ELSE OfKinds(r, kinds)
  BY OfKindsAppend
<1>4. OfKinds(Append(left, x), {"event"}) = IF x.kind \in {"event"} THEN Append(OfKinds(left, {"event"}), x)
                                            ELSE OfKinds(left, {"event"})
  BY <1>1, <1>2, <1>a
<1>5. OfKinds(q, {"event"}) = Own[c]
  BY <1>1, <1>2, <1>4
<1> HIDE DEF q
<1> QED BY <1>3, <1>5, OwnSame

-----------------------------------------------------------------------------
(* What the stack remembers: the events that are not decided upon, and the *)
(* activation of notify_client whose arrays are filled.                    *)

(* An event is being copied, or is with an immediate function that may     *)
(* ignore it.                                                              *)
Opened(f) == f.f = "copy" \/ (f.f = "call" /\ f.how = "hinted")
OpenIds(st) == {st[k].id : k \in {j \in DOMAIN st : Opened(st[j])}}

(* The code in the detector's condition is still the event's.              *)
CopyIntact(f) == Copied # {} /\ f.code = CodeOf[f.id]

(* No two activations hold the same undecided event.                       *)
Traced(st) ==
  /\ \A j, k \in DOMAIN st : Opened(st[j]) /\ Opened(st[k]) /\ st[j].id = st[k].id => j = k
  /\ \A k \in DOMAIN st : st[k].f = "copy" => CopyIntact(st[k])

(* The activation of notify_client that works through the arrays. *)
Turn(st) ==
  {st[k] : k \in {j \in DOMAIN st : /\ st[j].f = "client"
                                    /\ \A m \in DOMAIN st : m > j => st[m].f # "client"}}

(* What a push changes of these.                                           *)
LEMMA PushTrace ==
  ASSUME NEW st \in Seq(Frame), NEW f \in Frame
  PROVE  LET new == Append(st, f) IN
         /\ OpenIds(new) = IF Opened(f) THEN OpenIds(st) \cup {f.id} ELSE OpenIds(st)
         /\ Turn(new) = IF f.f = "client" THEN {f} ELSE Turn(st)
         /\ /\ Traced(st) /\ (Opened(f) => f.id \notin OpenIds(st))
            /\ f.f = "copy" => CopyIntact(f)
            => Traced(new)
<1> DEFINE new == Append(st, f)
           n == Len(st)
<1>1. /\ n \in Nat /\ DOMAIN st = 1..n /\ DOMAIN new = 1..(n + 1)
      /\ new[n + 1] = f /\ \A k \in 1..n : new[k] = st[k]
  OBVIOUS
<1>2. \A k \in 1..(n + 1) : k \in 1..n \/ k = n + 1
  BY <1>1
<1>3. \A k \in 1..n : k \in 1..(n + 1) /\ n + 1 > k /\ k # n + 1
  BY <1>1
<1>4. n + 1 \in 1..(n + 1)
  BY <1>1
<1> HIDE DEF new, n
<1>5. OpenIds(new) = IF Opened(f) THEN OpenIds(st) \cup {f.id} ELSE OpenIds(st)
  BY <1>1, <1>2, <1>3, <1>4 DEF OpenIds
<1>6. Turn(new) = IF f.f = "client" THEN {f} ELSE Turn(st)
  <2>1. CASE f.f = "client"
    <3>1. \A k \in DOMAIN new : (new[k].f = "client" /\ \A m \in DOMAIN new : m > k => new[m].f # "client")
                                <=> k = n + 1
      <4>1. \A k \in 1..n : ~ (\A m \in DOMAIN new : m > k => new[m].f # "client")
        BY <1>1, <1>3, <1>4, <2>1
      <4>2. \A m \in DOMAIN new : ~ (m > n + 1)
        BY <1>1
      <4> QED BY <1>1, <1>2, <4>1, <4>2, <2>1
    <3> QED BY <3>1, <1>1, <1>4, <2>1 DEF Turn
  <2>2. CASE f.f # "client"
    <3>1. \A k \in 1..n : (\A m \in DOMAIN new : m > k => new[m].f # "client")
                          <=> (\A m \in DOMAIN st : m > k => st[m].f # "client")
      BY <1>1, <1>2, <1>3, <2>2
    <3> QED BY <3>1, <1>1, <1>2, <1>3, <2>2 DEF Turn
  <2> QED BY <2>1, <2>2
<1>7. ASSUME Traced(st), Opened(f) => f.id \notin OpenIds(st), f.f = "copy" => CopyIntact(f)
      PROVE  Traced(new)
  <2>1. Opened(f) => \A k \in 1..n : ~ (Opened(st[k]) /\ st[k].id = f.id)
    BY <1>1, <1>7 DEF OpenIds
  <2> QED BY <1>1, <1>2, <1>7, <2>1 DEF Traced
<1> QED BY <1>5, <1>6, <1>7 DEF new

(* What a return changes.                                                  *)
LEMMA PopTrace ==
  ASSUME NEW st \in Seq(Frame), st # <<>>, Traced(st)
  PROVE  /\ Front(st) \in Seq(Frame) /\ Last(st) \in Frame /\ Traced(Front(st))
         /\ OpenIds(Front(st)) = IF Opened(Last(st)) THEN OpenIds(st) \ {Last(st).id} ELSE OpenIds(st)
         /\ Opened(Last(st)) => Last(st).id \in OpenIds(st)
         /\ Last(st).f = "copy" => CopyIntact(Last(st))
         /\ Last(st).f # "client" => Turn(Front(st)) = Turn(st)
         /\ Last(st).f = "client" => Turn(st) = {Last(st)}
<1> DEFINE low == Front(st)
           f == Last(st)
           n == Len(st)
<1>1. /\ n \in Nat /\ n >= 1 /\ st[n] = f /\ f \in Frame /\ low \in Seq(Frame) /\ Len(low) = n - 1
      /\ \A i \in 1..(n - 1) : low[i] = st[i]
      /\ st = Append(low, f)
  BY FrontAndLast
<1>2. DOMAIN st = 1..n /\ DOMAIN low = 1..(n - 1) /\ n \in 1..n /\ \A i \in 1..(n - 1) : i \in 1..n /\ i # n
  BY <1>1
<1> HIDE DEF low, f, n
<1>3. Traced(low) /\ (Opened(f) => f.id \notin OpenIds(low)) /\ (f.f = "copy" => CopyIntact(f))
  <2>1. Traced(low)
    BY <1>1, <1>2 DEF Traced
  <2>2. Opened(f) => f.id \notin OpenIds(low)
    BY <1>1, <1>2 DEF Traced, OpenIds
  <2>3. f.f = "copy" => CopyIntact(f)
    BY <1>1, <1>2 DEF Traced
  <2> QED BY <2>1, <2>2, <2>3
<1>4. /\ OpenIds(Append(low, f)) = IF Opened(f) THEN OpenIds(low) \cup {f.id} ELSE OpenIds(low)
      /\ Turn(Append(low, f)) = IF f.f = "client" THEN {f} ELSE Turn(low)
  BY <1>1, PushTrace
<1>5. OpenIds(st) = IF Opened(f) THEN OpenIds(low) \cup {f.id} ELSE OpenIds(low)
  BY <1>1, <1>4
<1>6. Turn(st) = IF f.f = "client" THEN {f} ELSE Turn(low)
  BY <1>1, <1>4
<1>7. OpenIds(low) = IF Opened(f) THEN OpenIds(st) \ {f.id} ELSE OpenIds(st)
  BY <1>3, <1>5
<1> QED BY <1>1, <1>3, <1>5, <1>6, <1>7 DEF low, f

(* What a change of the top changes.                                       *)
LEMMA SetTrace ==
  ASSUME NEW st \in Seq(Frame), st # <<>>, Traced(st), NEW f \in Frame, f.f = Last(st).f,
         ~ Opened(f), ~ Opened(Last(st))
  PROVE  /\ SetTop(st, f) \in Seq(Frame) /\ Traced(SetTop(st, f)) /\ OpenIds(SetTop(st, f)) = OpenIds(st)
         /\ Turn(SetTop(st, f)) = IF f.f = "client" THEN {f} ELSE Turn(st)
<1> DEFINE low == Front(st)
<1>1. /\ low \in Seq(Frame) /\ Traced(low) /\ OpenIds(low) = OpenIds(st)
      /\ Last(st).f # "client" => Turn(low) = Turn(st)
  BY PopTrace
<1>2. SetTop(st, f) = Append(low, f)
  BY TopReplaced
<1> HIDE DEF low
<1>3. /\ OpenIds(Append(low, f)) = OpenIds(low) /\ Turn(Append(low, f)) = IF f.f = "client" THEN {f} ELSE Turn(low)
      /\ Traced(Append(low, f))
  BY <1>1, PushTrace DEF Opened
<1>4. Append(low, f) \in Seq(Frame)
  BY <1>1
<1> QED BY <1>1, <1>2, <1>3, <1>4

-----------------------------------------------------------------------------
(* The inductive invariant about events.                                   *)

IdsIn(s) == {x.id : x \in Range(s)}

(* Events that have been posted, with their own codes.                     *)
Known(s) == \A x \in Range(s) : x.id \in 1..posts /\ x.code = CodeOf[x.id]

(* An event is waiting, or has been handed over, or is undecided, and each *)
(* of these once.                                                          *)
EventsApart(c) ==
  /\ Known(Own[c]) /\ IdsApart(Own[c])
  /\ EachOnce(handed[c]) /\ Range(handed[c]) \subseteq 1..posts
  /\ \A id \in Range(handed[c]) : id \notin IdsIn(Own[c])
  /\ \A id \in Undecided : id \notin Range(handed[c]) /\ id \notin IdsIn(Own[c])

(* That holds for all clients, and the arrays hold events that are not     *)
(* undecided.                                                              *)
Ledger ==
  /\ \A c \in Clients : EventsApart(c)
  /\ Known(events) /\ \A id \in Undecided : id \notin IdsIn(events)
  /\ Undecided \subseteq 1..posts

(* What is left of the arrays from place i on are the first of the events   *)
(* that s has waiting, or none of them.                                    *)
Ahead(i, s) ==
  \/ Len(events) - i + 1 <= Len(s) /\ \A j \in i..Len(events) : events[j].id = s[j - i + 1].id
  \/ \A j \in i..Len(events) : \A x \in Range(s) : events[j].id # x.id

(* If events are no longer among its bits, the activation has emptied the  *)
(* arrays; until then they run ahead of its client's queue.                *)
InTurn(f) == ("event" \notin f.bits => events = <<>>) /\ Ahead(f.i, Own[f.c])

(* The invariant.                                                          *)
Told == Ledger /\ Traced(stack) /\ \A f \in Turn(stack) : InTurn(f)

(* An event that is nowhere yet.                                           *)
Fresh(id) ==
  /\ \A c \in Clients : id \notin Range(handed[c]) /\ id \notin IdsIn(Own[c])
  /\ id \notin IdsIn(events)

(* The kinds of step, for an event. Nothing happens to it, or all that     *)
(* wait for a client are forgotten.                                        *)
Quiet ==
  /\ UNCHANGED <<posts, handed>> /\ Undecided' = Undecided
  /\ Own' = Own \/ \E c \in Clients : Own' = [Own EXCEPT ![c] = <<>>]

(* A new or undecided event waits, is handed over, or goes to an immediate *)
(* function.                                                               *)
Decides(c, id) ==
  /\ \/ posts' = posts + 1 /\ id = posts + 1 /\ Undecided' = Undecided
     \/ posts' = posts /\ id \in Undecided /\ Undecided' = Undecided \ {id}
  /\ \/ /\ handed' = handed
        /\ Own' = [Own EXCEPT ![c] = Append(Own[c], [kind |-> "event", code |-> CodeOf[id], id |-> id])]
     \/ Own' = Own /\ handed' = [handed EXCEPT ![c] = Append(handed[c], id)]
     \/ Own' = Own /\ handed' = handed

(* An event is posted and not decided upon.                                *)
Opens == posts' = posts + 1 /\ Undecided' = Undecided \cup {posts + 1} /\ Own' = Own /\ handed' = handed

(* The first event that waits for the client is handed over.               *)
Hands(c) ==
  /\ Own[c] # <<>> /\ Own' = [Own EXCEPT ![c] = Tail(Own[c])]
  /\ handed' = [handed EXCEPT ![c] = Append(handed[c], Head(Own[c]).id)]
  /\ posts' = posts /\ Undecided' = Undecided

(* The types of what the steps are about.                                  *)
LEMMA PostsIs ==
  ASSUME Base
  PROVE  /\ posts \in Nat /\ Len(CodeOf) \in Nat /\ posts <= Len(CodeOf)
         /\ Own \in [Clients -> Seq(Condition)] /\ handed \in [Clients -> Seq(Ids)]
         /\ events \in Seq(Condition)
         /\ \A id \in 1..posts : id \in Ids
<1>1. Len(CodeOf) \in Nat /\ Ids = 1..Len(CodeOf) /\ posts \in 0..Len(CodeOf)
  BY ConstantsAssumption DEF Base, TypeOK, Ids
<1>2. \A c \in Clients : Own[c] \in Seq(Condition)
  BY OwnIs DEF Base
<1>3. Own \in [Clients -> Seq(Condition)]
  BY <1>2 DEF Own
<1> QED BY <1>1, <1>3 DEF Base, TypeOK

(* The event that is posted next is nowhere yet.                           *)
LEMMA NewIsFresh ==
  ASSUME Base, Ledger
  PROVE  Fresh(posts + 1) /\ posts + 1 \notin Undecided
<1>1. posts \in Nat /\ posts + 1 \notin 1..posts
  BY PostsIs
<1> QED BY <1>1 DEF Ledger, EventsApart, Known, IdsIn, Fresh

(* Nor is one that is undecided.                                           *)
LEMMA OpenIsFresh ==
  ASSUME Ledger, NEW id \in Undecided
  PROVE  Fresh(id)
BY DEF Ledger, EventsApart, Fresh

(* Adding an event that is not among them.                                 *)
LEMMA AppendedApart ==
  ASSUME NEW S, NEW s \in Seq(S), IdsApart(s), NEW x \in S, x.id \notin IdsIn(s)
  PROVE  /\ IdsApart(Append(s, x)) /\ IdsIn(Append(s, x)) = IdsIn(s) \cup {x.id}
         /\ Range(Append(s, x)) = Range(s) \cup {x}
<1>1. /\ Len(s) \in Nat /\ DOMAIN Append(s, x) = 1..(Len(s) + 1) /\ DOMAIN s = 1..Len(s)
      /\ Append(s, x)[Len(s) + 1] = x /\ \A i \in 1..Len(s) : Append(s, x)[i] = s[i]
  OBVIOUS
<1>2. \A i \in 1..Len(s) : s[i].id # x.id
  BY <1>1 DEF IdsIn, Range
<1>3. \A i \in 1..(Len(s) + 1) : i \in 1..Len(s) \/ i = Len(s) + 1
  BY <1>1
<1>4. IdsApart(Append(s, x))
  BY <1>1, <1>2, <1>3 DEF IdsApart
<1>5. Range(Append(s, x)) = Range(s) \cup {x}
  BY RangeOfAppend
<1> QED BY <1>4, <1>5 DEF IdsIn

(* Adding a number that is not among them.                                 *)
LEMMA AppendedOnce ==
  ASSUME NEW S, NEW s \in Seq(S), EachOnce(s), NEW x \in S, x \notin Range(s)
  PROVE  EachOnce(Append(s, x)) /\ Range(Append(s, x)) = Range(s) \cup {x}
BY ListedAtEnd

(* Taking the first event.                                                 *)
LEMMA TailApart ==
  ASSUME NEW S, NEW s \in Seq(S), s # <<>>, IdsApart(s)
  PROVE  /\ Tail(s) \in Seq(S) /\ Head(s) \in Range(s) /\ IdsApart(Tail(s)) /\ Range(Tail(s)) \subseteq Range(s)
         /\ Head(s).id \notin IdsIn(Tail(s)) /\ IdsIn(Tail(s)) \subseteq IdsIn(s)
<1> DEFINE n == Len(s)
           t == Tail(s)
<1>1. /\ n \in Nat /\ n # 0 /\ t \in Seq(S) /\ Len(t) = n - 1 /\ Head(s) = s[1]
      /\ \A i \in 1..(n - 1) : t[i] = s[i + 1]
  OBVIOUS
<1>2. DOMAIN s = 1..n /\ DOMAIN t = 1..(n - 1)
  BY <1>1
<1> HIDE DEF n, t
<1>3. 1 \in 1..n /\ \A i \in 1..(n - 1) : i + 1 \in 1..n /\ i + 1 # 1
  BY <1>1
<1>4. Range(t) \subseteq Range(s) /\ Head(s) \in Range(s)
  BY <1>1, <1>2, <1>3 DEF Range
<1>5. IdsApart(t)
  <2> SUFFICES ASSUME NEW i \in 1..(n - 1), NEW j \in 1..(n - 1), t[i].id = t[j].id PROVE i = j
    BY <1>2 DEF IdsApart
  <2>1. i + 1 \in 1..n /\ j + 1 \in 1..n
    BY <1>3
  <2>2. s[i + 1].id = s[j + 1].id
    BY <1>1
  <2>3. i + 1 = j + 1
    BY <1>2, <2>1, <2>2 DEF IdsApart
  <2> QED BY <2>3, <1>1
<1>6. \A i \in 1..(n - 1) : t[i].id # s[1].id
  BY <1>1, <1>2, <1>3 DEF IdsApart
<1>7. Head(s).id \notin IdsIn(t)
  BY <1>1, <1>2, <1>6 DEF IdsIn, Range
<1>8. IdsIn(t) \subseteq IdsIn(s)
  BY <1>4 DEF IdsIn
<1> QED BY <1>1, <1>4, <1>5, <1>7, <1>8 DEF t

(* The steps of each kind keep the ledger: the quiet ones, which may fill  *)
(* or empty the arrays,                                                    *)
LEMMA LedgerQuiet ==
  ASSUME Base, Ledger, Quiet, events' = events \/ events' = <<>> \/ \E c \in Clients : events' = Own[c]
  PROVE  Ledger'
<1>1. /\ \A id \in Undecided : id \notin IdsIn(<<>>)
      /\ Range(<<>>) = {} /\ IdsApart(<<>>)
  BY NothingIn DEF IdsIn, IdsApart
<1>2. Own \in [Clients -> Seq(Condition)]
  BY PostsIs
<1>3. \A c \in Clients : Own'[c] = Own[c] \/ Own'[c] = <<>>
  BY <1>2 DEF Quiet
<1>4. ASSUME NEW c \in Clients PROVE EventsApart(c)'
  <2>1. EventsApart(c)
    BY DEF Ledger
  <2>2. CASE Own'[c] = Own[c]
    BY <2>1, <2>2 DEF EventsApart, Quiet, Known, IdsIn, IdsApart, EachOnce, Range
  <2>3. CASE Own'[c] = <<>>
    <3>1. Range(Own'[c]) = {} /\ IdsApart(Own'[c])
      BY <2>3, <1>1
    <3>2. IdsApart(Own[c])' /\ Known(Own[c])' /\ IdsIn(Own[c])' = {}
      BY <3>1 DEF IdsApart, Known, IdsIn, Range
    <3>3. /\ EachOnce(handed[c])' /\ Range(handed[c])' \subseteq (1..posts)'
          /\ Undecided' = Undecided /\ Range(handed[c])' = Range(handed[c])
      BY <2>1 DEF EventsApart, Quiet, EachOnce, Range
    <3> QED BY <2>1, <3>2, <3>3 DEF EventsApart
  <2> QED BY <1>3, <2>2, <2>3
<1>5. Known(events)' /\ \A id \in Undecided' : id \notin IdsIn(events)'
  <2>1. CASE events' = events
    BY <2>1 DEF Ledger, Quiet, Known, IdsIn, Range
  <2>2. CASE events' = <<>>
    <3>1. Range(events)' = {}
      BY <2>2, <1>1 DEF Range
    <3> QED BY <3>1 DEF Known, IdsIn
  <2>3. ASSUME NEW c \in Clients, events' = Own[c] PROVE Known(events)' /\ \A id \in Undecided' : id \notin IdsIn(events)'
    BY <2>3 DEF Ledger, Quiet, EventsApart, Known, IdsIn, Range
  <2> QED BY <2>1, <2>2, <2>3
<1> QED BY <1>4, <1>5 DEF Ledger, Quiet

(* those that post an event without deciding,                              *)
LEMMA LedgerOpens ==
  ASSUME Base, Ledger, Opens, events' = events
  PROVE  Ledger'
<1>1. Fresh(posts + 1) /\ posts \in Nat /\ posts + 1 \in 1..(posts + 1) /\ \A id \in 1..posts : id \in 1..(posts + 1)
  BY NewIsFresh, PostsIs
<1>2. \A c \in Clients : Own'[c] = Own[c] /\ handed'[c] = handed[c]
  BY DEF Opens
<1>3. ASSUME NEW c \in Clients PROVE EventsApart(c)'
  <2>1. EventsApart(c) /\ posts + 1 \notin Range(handed[c]) /\ posts + 1 \notin IdsIn(Own[c])
    BY <1>1 DEF Ledger, Fresh
  <2> QED BY <1>1, <1>2, <2>1 DEF EventsApart, Opens, Known, IdsIn, IdsApart, EachOnce, Range
<1>4. Known(events)' /\ \A id \in Undecided' : id \notin IdsIn(events)'
  BY <1>1 DEF Ledger, Opens, Known, IdsIn, Range, Fresh
<1>5. Undecided' \subseteq 1..posts'
  BY <1>1 DEF Opens, Ledger
<1> QED BY <1>3, <1>4, <1>5 DEF Ledger

(* those that decide,                                                      *)
LEMMA LedgerDecides ==
  ASSUME Base, Ledger, NEW c \in Clients, NEW id \in Ids, Decides(c, id), events' = events
  PROVE  Ledger'
<1> DEFINE x == [kind |-> "event", code |-> CodeOf[id], id |-> id]
<1>1. /\ Own \in [Clients -> Seq(Condition)] /\ handed \in [Clients -> Seq(Ids)] /\ posts \in Nat
      /\ CodeOf[id] \in Codes /\ x \in Condition /\ x.id = id /\ x.code = CodeOf[id]
  BY PostsIs, ConditionsMade DEF Codes
<1> HIDE DEF x
<1>2. /\ Fresh(id) /\ id \notin Undecided' /\ Undecided' \subseteq Undecided
      /\ posts' \in Nat /\ id \in 1..posts' /\ \A n \in 1..posts : n \in 1..posts'
  <2>1. CASE posts' = posts + 1 /\ id = posts + 1 /\ Undecided' = Undecided
    BY <1>1, <2>1, NewIsFresh
  <2>2. CASE posts' = posts /\ id \in Undecided /\ Undecided' = Undecided \ {id}
    BY <1>1, <2>2, OpenIsFresh DEF Ledger
  <2> QED BY <2>1, <2>2 DEF Decides
<1>3. \A d \in Clients : \/ Own'[d] = Own[d] /\ handed'[d] = handed[d]
                         \/ Own'[d] = Append(Own[d], x) /\ handed'[d] = handed[d]
                         \/ Own'[d] = Own[d] /\ handed'[d] = Append(handed[d], id)
  BY <1>1 DEF Decides, x
<1>4. ASSUME NEW d \in Clients PROVE EventsApart(d)'
  <2>1. EventsApart(d) /\ id \notin Range(handed[d]) /\ id \notin IdsIn(Own[d])
    BY <1>2 DEF Ledger, Fresh
  <2>2. CASE Own'[d] = Own[d] /\ handed'[d] = handed[d]
    BY <1>2, <2>1, <2>2 DEF EventsApart, Known, IdsIn, IdsApart, EachOnce, Range
  <2>3. CASE Own'[d] = Append(Own[d], x) /\ handed'[d] = handed[d]
    <3> DEFINE s == Append(Own[d], x)
    <3>1. Own[d] \in Seq(Condition) /\ x.id \notin IdsIn(Own[d]) /\ IdsApart(Own[d])
      BY <1>1, <2>1 DEF EventsApart
    <3>2. IdsApart(s) /\ IdsIn(s) = IdsIn(Own[d]) \cup {id} /\ Range(s) = Range(Own[d]) \cup {x}
      BY <1>1, <3>1, AppendedApart
    <3> HIDE DEF s
    <3>3. \A y \in Range(s) : y.id \in 1..posts' /\ y.code = CodeOf[y.id]
      BY <1>1, <1>2, <2>1, <3>2 DEF EventsApart, Known
    <3>4. \A n \in Undecided' : n \notin Range(handed[d]) /\ n \notin IdsIn(s)
      BY <1>2, <2>1, <3>2 DEF EventsApart
    <3>5. \A n \in Range(handed[d]) : n \notin IdsIn(s) /\ n \in 1..posts'
      BY <1>2, <2>1, <3>2 DEF EventsApart
    <3>6. Own'[d] = s
      BY <2>3 DEF s
    <3> QED BY <2>1, <2>3, <3>2, <3>3, <3>4, <3>5, <3>6 DEF EventsApart, Known, IdsIn, IdsApart, EachOnce, Range
  <2>4. CASE Own'[d] = Own[d] /\ handed'[d] = Append(handed[d], id)
    <3> DEFINE h == Append(handed[d], id)
    <3>1. handed[d] \in Seq(Ids) /\ EachOnce(handed[d])
      BY <1>1, <2>1 DEF EventsApart
    <3>2. EachOnce(h) /\ Range(h) = Range(handed[d]) \cup {id}
      BY <2>1, <3>1, AppendedOnce
    <3> HIDE DEF h
    <3>3. \A y \in Range(Own[d]) : y.id \in 1..posts' /\ y.code = CodeOf[y.id]
      BY <1>2, <2>1 DEF EventsApart, Known
    <3>4. \A n \in Undecided' : n \notin Range(h) /\ n \notin IdsIn(Own[d])
      BY <1>2, <2>1, <3>2 DEF EventsApart
    <3>5. \A n \in Range(h) : n \notin IdsIn(Own[d]) /\ n \in 1..posts'
      BY <1>2, <2>1, <3>2 DEF EventsApart
    <3>6. handed'[d] = h
      BY <2>4 DEF h
    <3> QED BY <2>1, <2>4, <3>2, <3>3, <3>4, <3>5, <3>6 DEF EventsApart, Known, IdsIn, IdsApart, EachOnce, Range
  <2> QED BY <1>3, <2>2, <2>3, <2>4
<1>5. Known(events)' /\ \A n \in Undecided' : n \notin IdsIn(events)'
  BY <1>2 DEF Ledger, Known, IdsIn, Range
<1>6. Undecided' \subseteq 1..posts'
  BY <1>2 DEF Ledger
<1> QED BY <1>4, <1>5, <1>6 DEF Ledger

(* and those that hand the first one over.                                 *)
LEMMA LedgerHands ==
  ASSUME Base, Ledger, NEW c \in Clients, Hands(c), events' = events
  PROVE  Ledger'
<1>1. /\ Own \in [Clients -> Seq(Condition)] /\ handed \in [Clients -> Seq(Ids)]
  BY PostsIs
<1>2. EventsApart(c) /\ Own[c] \in Seq(Condition) /\ handed[c] \in Seq(Ids) /\ Own[c] # <<>>
  BY <1>1 DEF Ledger, Hands
<1> DEFINE t == Tail(Own[c])
           id == Head(Own[c]).id
           h == Append(handed[c], id)
<1>3. /\ t \in Seq(Condition) /\ Head(Own[c]) \in Range(Own[c]) /\ IdsApart(t) /\ Range(t) \subseteq Range(Own[c])
      /\ id \notin IdsIn(t) /\ IdsIn(t) \subseteq IdsIn(Own[c])
  BY <1>2, TailApart DEF EventsApart
<1>4. id \in IdsIn(Own[c]) /\ id \in Ids /\ id \in 1..posts
  <2>1. id \in IdsIn(Own[c]) /\ id \in 1..posts
    BY <1>2, <1>3 DEF IdsIn, EventsApart, Known
  <2> QED BY <2>1, PostsIs
<1>5. Own'[c] = t /\ handed'[c] = h /\ \A d \in Clients : d # c => Own'[d] = Own[d] /\ handed'[d] = handed[d]
  BY <1>1 DEF Hands
<1> HIDE DEF t, id
<1>6. EachOnce(h) /\ Range(h) = Range(handed[c]) \cup {id}
  <2>1. EachOnce(handed[c]) /\ id \notin Range(handed[c])
    BY <1>2, <1>4 DEF EventsApart
  <2> QED BY <1>2, <1>4, <2>1, AppendedOnce
<1> HIDE DEF h
<1>7. ASSUME NEW d \in Clients, d # c PROVE EventsApart(d)'
  <2>1. EventsApart(d)
    BY DEF Ledger
  <2> QED BY <1>5, <1>7, <2>1 DEF EventsApart, Hands, Known, IdsIn, IdsApart, EachOnce, Range
<1>8. EventsApart(c)'
  <2>1. \A y \in Range(t) : y.id \in 1..posts /\ y.code = CodeOf[y.id]
    BY <1>2, <1>3 DEF EventsApart, Known
  <2>2. \A n \in Undecided : n \notin Range(h) /\ n \notin IdsIn(t)
    BY <1>2, <1>3, <1>4, <1>6 DEF EventsApart
  <2>3. \A n \in Range(h) : n \notin IdsIn(t) /\ n \in 1..posts
    BY <1>2, <1>3, <1>4, <1>6 DEF EventsApart
  <2>4. posts' = posts /\ Undecided' = Undecided
    BY DEF Hands
  <2>5. Known(Own[c])' /\ IdsApart(Own[c])'
    BY <1>3, <1>5, <2>1, <2>4 DEF Known, IdsApart, Range
  <2>6. EachOnce(handed[c])' /\ Range(handed[c])' = Range(h) /\ IdsIn(Own[c])' = IdsIn(t)
    BY <1>5, <1>6 DEF EachOnce, Range, IdsIn
  <2> QED BY <2>2, <2>3, <2>4, <2>5, <2>6 DEF EventsApart
<1>9. Known(events)' /\ (\A n \in Undecided' : n \notin IdsIn(events)') /\ Undecided' \subseteq 1..posts'
  BY DEF Ledger, Hands, Known, IdsIn, Range
<1> QED BY <1>7, <1>8, <1>9 DEF Ledger

-----------------------------------------------------------------------------
(* Every step is of one of these kinds and keeps the invariant, if events  *)
(* are told apart by their codes and no copy function is overtaken.        *)

(* Each event has a code of its own: notify_event looks for the code only. *)
DistinctCodes == \A i, j \in Ids : CodeOf[i] = CodeOf[j] => i = j

(* There are no copy functions, or nothing is posted by functions for      *)
(* asynchronous signals, which would change the code that the detector's   *)
(* condition holds meanwhile.                                              *)
CopiesKept == Copied = {} \/ \A p \in Programs : "async" \notin p.calls

(* The arrays still run ahead of the queue after a step of another         *)
(* activation.                                                             *)
LEMMA TurnKept ==
  ASSUME Base, Ledger, NEW f \in Frame, f.f = "client", InTurn(f), events' = events,
         Quiet \/ Opens \/ \E c \in Clients, id \in Ids : Decides(c, id)
  PROVE  InTurn(f)'
<1>0. /\ f.c \in Clients /\ f.i \in Nat \ {0} /\ Own \in [Clients -> Seq(Condition)] /\ events \in Seq(Condition)
      /\ Own[f.c] \in Seq(Condition)
  BY FrameFields, PostsIs
<1> DEFINE own == Own[f.c]
<1>1. \/ Own'[f.c] = own
      \/ Own'[f.c] = <<>>
      \/ \E x \in Condition : Own'[f.c] = Append(own, x) /\ x.id \notin IdsIn(events)
  <2>1. CASE Quiet \/ Opens
    BY <1>0, <2>1 DEF Quiet, Opens
  <2>2. ASSUME NEW c \in Clients, NEW id \in Ids, Decides(c, id)
        PROVE  \/ Own'[f.c] = own
               \/ \E x \in Condition : Own'[f.c] = Append(own, x) /\ x.id \notin IdsIn(events)
    <3> DEFINE x == [kind |-> "event", code |-> CodeOf[id], id |-> id]
    <3>1. x \in Condition /\ x.id = id
      BY ConditionsMade DEF Codes
    <3> HIDE DEF x
    <3>2. Own'[f.c] = own \/ Own'[f.c] = Append(own, x)
      BY <1>0, <2>2 DEF Decides, x
    <3>3. id \notin IdsIn(events)
      BY <2>2, NewIsFresh, OpenIsFresh DEF Decides, Fresh
    <3> QED BY <3>1, <3>2, <3>3
  <2> QED BY <2>1, <2>2
<1>2. CASE Own'[f.c] = own
  BY <1>2 DEF InTurn, Ahead, Range
<1>3. CASE Own'[f.c] = <<>>
  <2>1. Range(Own'[f.c]) = {}
    BY <1>3, NothingIn
  <2> QED BY <2>1 DEF InTurn, Ahead, Range
<1>4. ASSUME NEW x \in Condition, Own'[f.c] = Append(own, x), x.id \notin IdsIn(events)
      PROVE  InTurn(f)'
  <2> DEFINE s == Append(own, x)
             n == Len(events)
  <2>1. /\ Range(s) = Range(own) \cup {x} /\ Len(s) = Len(own) + 1 /\ Len(own) \in Nat /\ n \in Nat
        /\ \A i \in 1..Len(own) : s[i] = own[i]
    <3>1. Range(s) = Range(own) \cup {x}
      BY <1>0, RangeOfAppend
    <3> QED BY <1>0, <3>1
  <2>2. \A j \in f.i..n : events[j].id # x.id
    <3> TAKE j \in f.i..n
    <3>1. j \in DOMAIN events
      BY <1>0
    <3> QED BY <3>1, <1>4 DEF IdsIn, Range
  <2>3. Own'[f.c] = s
    BY <1>4
  <2> HIDE DEF s
  <2>4. CASE n - f.i + 1 <= Len(own) /\ \A j \in f.i..n : events[j].id = own[j - f.i + 1].id
    <3>1. \A j \in f.i..n : j - f.i + 1 \in 1..Len(own)
      BY <1>0, <2>1, <2>4, SMTT(30)
    <3>3. n - f.i + 1 <= Len(s)
      BY <1>0, <2>1, <2>4
    <3>4. ASSUME NEW j \in f.i..n PROVE events[j].id = s[j - f.i + 1].id
      <4>1. s[j - f.i + 1] = own[j - f.i + 1]
        BY <2>1, <3>1
      <4>2. events[j].id = own[j - f.i + 1].id
        BY <2>4
      <4> QED BY <4>1, <4>2
    <3>2. n - f.i + 1 <= Len(s) /\ \A j \in f.i..n : events[j].id = s[j - f.i + 1].id
      BY <3>3, <3>4
    <3> QED BY <2>3, <3>2 DEF InTurn, Ahead
  <2>5. CASE \A j \in f.i..n : \A y \in Range(own) : events[j].id # y.id
    <3>1. \A j \in f.i..n : \A y \in Range(s) : events[j].id # y.id
      BY <2>1, <2>2, <2>5
    <3> QED BY <2>3, <3>1 DEF InTurn, Ahead, Range
  <2> QED BY <2>4, <2>5 DEF InTurn, Ahead
<1> QED BY <1>1, <1>2, <1>3, <1>4

(* Empty arrays do.                                                        *)
LEMMA NothingLeft ==
  ASSUME NEW f \in Frame, f.f = "client", events' = <<>>
  PROVE  InTurn(f)'
<1>1. f.i \in Nat \ {0}
  BY FrameFields
<1>2. Len(<<>>) = 0 /\ \A j \in f.i..0 : FALSE
  BY <1>1
<1> QED BY <1>2 DEF InTurn, Ahead

(* So do arrays that have just been filled.                                *)
LEMMA AllAhead ==
  ASSUME Base, NEW f \in Frame, f.f = "client", f.i = 1, "event" \in f.bits, events' = Own[f.c], Own' = Own
  PROVE  InTurn(f)'
<1>1. f.c \in Clients /\ Own[f.c] \in Seq(Condition)
  BY FrameFields, PostsIs
<1> DEFINE s == Own[f.c]
<1>2. Len(s) - 1 + 1 <= Len(s) /\ \A j \in 1..Len(s) : s[j].id = s[j - 1 + 1].id
  <2>1. Len(s) \in Nat
    BY <1>1
  <2> HIDE DEF s
  <2>2. Len(s) - 1 + 1 <= Len(s)
    BY <2>1
  <2>3. \A j \in 1..Len(s) : j - 1 + 1 = j
    OBVIOUS
  <2> QED BY <2>2, <2>3
<1>3. events' = s /\ Own'[f.c] = s
  OBVIOUS
<1> HIDE DEF s
<1> QED BY <1>2, <1>3 DEF InTurn, Ahead

(* The undecided events, in terms of the stack.                            *)
LEMMA UndecidedIs == Undecided = OpenIds(stack) /\ Undecided' = OpenIds(stack')
BY DEF Undecided, OpenIds, Opened

(* The stack of the next state.                                            *)
LEMMA TracedIs == (Traced(stack)' <=> Traced(stack')) /\ Turn(stack)' = Turn(stack')
BY DEF Traced, CopyIntact, Opened, Turn

(* Who is in turn is an activation of notify_client.                       *)
LEMMA TurnIs ==
  ASSUME NEW st \in Seq(Frame), NEW f \in Turn(st)
  PROVE  f \in Frame /\ f.f = "client"
BY DEF Turn

(* A step that leaves the arrays and who is in turn.                       *)
LEMMA StillTold ==
  ASSUME Base, Told, events' = events, Traced(stack'), Turn(stack') = Turn(stack),
         Quiet \/ Opens \/ \E c \in Clients, id \in Ids : Decides(c, id)
  PROVE  Told'
<1>1. stack \in Seq(Frame)
  BY DEF Base, TypeOK
<1>2. ASSUME NEW f \in Turn(stack) PROVE InTurn(f)'
  <2>1. f \in Frame /\ f.f = "client" /\ InTurn(f)
    BY <1>1, <1>2, TurnIs DEF Told
  <2> QED BY <2>1, TurnKept DEF Told
<1>3. Ledger'
  BY LedgerQuiet, LedgerOpens, LedgerDecides DEF Told
<1>4. (\A f \in Turn(stack) : InTurn(f))'
  <2>1. \A f \in Turn(stack') : InTurn(f)'
    BY <1>2
  <2> QED BY <2>1, TracedIs
<1> QED BY <1>3, <1>4, TracedIs DEF Told

(* A step after which an activation is in turn that has what it needs.     *)
LEMMA OneTold ==
  ASSUME Base, Told, Quiet, events' = events \/ events' = <<>> \/ \E c \in Clients : events' = Own[c],
         Traced(stack'), NEW g \in Frame, Turn(stack') = {g}, InTurn(g)'
  PROVE  Told'
<1>1. Ledger'
  BY LedgerQuiet DEF Told
<1>2. (\A f \in Turn(stack) : InTurn(f))'
  <2>1. \A f \in Turn(stack') : InTurn(f)'
    OBVIOUS
  <2> QED BY <2>1, TracedIs
<1> QED BY <1>1, <1>2, TracedIs DEF Told

(* A step that empties the arrays.                                         *)
LEMMA EmptyTold ==
  ASSUME Base, Told, Quiet, events' = <<>>, Traced(stack'), stack' \in Seq(Frame)
  PROVE  Told'
<1>1. Ledger'
  BY LedgerQuiet DEF Told
<1>2. (\A f \in Turn(stack) : InTurn(f))'
  <2>1. ASSUME NEW f \in Turn(stack') PROVE InTurn(f)'
    <3>1. f \in Frame /\ f.f = "client"
      BY <2>1, TurnIs
    <3> QED BY <3>1, NothingLeft
  <2> QED BY <2>1, TracedIs
<1> QED BY <1>1, <1>2, TracedIs DEF Told

(* The event at the next place of the arrays is the first of those that    *)
(* wait, or none of what is left in the arrays waits any more.             *)
LEMMA DueIs ==
  ASSUME Base, Told, DistinctCodes, EventsTurn, Top.i <= Len(events)
  PROVE  LET c == Top.c
             event == events[Top.i]
             m == Matching(c, "event", event.code)
         IN /\ c \in Clients /\ event.id \in Ids
            /\ \A p \in m : /\ p \in DOMAIN queue[c] /\ queue[c][p].kind = "event"
                            /\ queue[c][p].id = event.id /\ Own[c][1].id = event.id
            /\ m # {} => Len(events) - Top.i + 1 <= Len(Own[c])
                         /\ \A j \in Top.i..Len(events) : events[j].id = Own[c][j - Top.i + 1].id
            /\ m = {} => \A j \in Top.i..Len(events) : \A x \in Range(Own[c]) : events[j].id # x.id
<1> DEFINE c == Top.c
           i == Top.i
           event == events[i]
           m == Matching(c, "event", event.code)
<1>1. /\ At("client") /\ stack # <<>> /\ Top.f = "client" /\ c \in Clients /\ i \in Nat \ {0} /\ Top \in Frame
      /\ events \in Seq(Condition) /\ Own[c] \in Seq(Condition) /\ Len(events) \in Nat /\ i \in i..Len(events)
      /\ stack \in Seq(Frame)
  BY TopClientIs, PostsIs, SMTT(30) DEF EventsTurn, Base, TypeOK
<1>2. event \in Range(events) /\ event.id \in Ids /\ event.code = CodeOf[event.id]
  BY <1>1, EventTaken DEF Told, Ledger, Known
<1>3. Turn(stack) = {Top}
  BY <1>1, PopTrace DEF Told, Top
<1>4. Ahead(i, Own[c])
  BY <1>3 DEF Told, InTurn
<1>5. ASSUME NEW p \in m
      PROVE  /\ p \in DOMAIN queue[c] /\ queue[c][p].kind = "event" /\ queue[c][p].id = event.id
             /\ queue[c][p] \in Range(Own[c])
  <2>1. p \in DOMAIN queue[c] /\ queue[c][p].kind = "event" /\ queue[c][p].code = event.code
    BY DEF Matching, Fits, Destroy
  <2>2. queue[c][p] \in Range(Own[c]) /\ queue[c][p].id \in Ids
    <3>1. queue[c][p] \in Range(queue[c])
      BY <2>1 DEF Range
    <3> QED BY <1>1, <2>1, <3>1, OwnIs DEF Base
  <2>3. queue[c][p].code = CodeOf[queue[c][p].id]
    BY <1>1, <2>2 DEF Told, Ledger, EventsApart, Known
  <2> QED BY <1>2, <2>1, <2>2, <2>3 DEF DistinctCodes
<1> HIDE DEF c, i, event, m
<1> DEFINE First1 == /\ Len(events) - i + 1 <= Len(Own[c])
                     /\ \A j \in i..Len(events) : events[j].id = Own[c][j - i + 1].id
           None == \A j \in i..Len(events) : \A x \in Range(Own[c]) : events[j].id # x.id
<1>6. First1 \/ None
  BY <1>4 DEF Ahead
<1>7. ASSUME NEW p \in m PROVE First1 /\ Own[c][1].id = event.id
  <2>1. ~ None
    BY <1>1, <1>5 DEF event
  <2>2. i - i + 1 = 1
    BY <1>1
  <2> QED BY <1>1, <1>6, <2>1, <2>2 DEF event
<1>8. ASSUME m = {} PROVE None
  <2>1. CASE First1
    <3>1. i - i + 1 = 1 /\ 1 \in DOMAIN Own[c]
      <4>1. Len(Own[c]) \in Nat /\ DOMAIN Own[c] = 1..Len(Own[c])
        BY <1>1
      <4> QED BY <1>1, <2>1, <4>1
    <3>2. event.id = Own[c][1].id /\ Own[c][1] \in Range(Own[c])
      BY <1>1, <2>1, <3>1 DEF event, Range
    <3>3. Own[c][1].kind = "event" /\ Own[c][1].code = CodeOf[Own[c][1].id] /\ Own[c][1] \in Range(queue[c])
      BY <1>1, <3>2, OwnIs DEF Base, Told, Ledger, EventsApart, Known
    <3>4. PICK p \in DOMAIN queue[c] : queue[c][p] = Own[c][1]
      BY <3>3 DEF Range
    <3>5. p \in m
      BY <1>2, <3>2, <3>3, <3>4 DEF m, Matching, Fits, Destroy
    <3> QED BY <3>5, <1>8
  <2> QED BY <2>1, <1>6
<1>9. \A p \in m : /\ p \in DOMAIN queue[c] /\ queue[c][p].kind = "event"
                   /\ queue[c][p].id = event.id /\ Own[c][1].id = event.id
  BY <1>5, <1>7
<1>10. m # {} => First1
  BY <1>7
<1> HIDE DEF First1, None
<1> QED BY <1>1, <1>2, <1>8, <1>9, <1>10 DEF c, i, event, m, First1, None

(* A step of one of the kinds.                                             *)
Tells == Quiet \/ Opens \/ (\E c \in Clients, id \in Ids : Decides(c, id)) \/ \E c \in Clients : Hands(c)

(* notify_event hands over the first of the waiting events, or none.       *)
LEMMA NotifyEventTells ==
  ASSUME Base, Told, DistinctCodes, NotifyEvent
  PROVE  Tells /\ Told'
<1> DEFINE c == Top.c
           event == events[Top.i]
           m == Matching(c, "event", event.code)
           n == Len(events)
<1>1. /\ At("client") /\ stack # <<>> /\ Top.f = "client" /\ c \in Clients /\ Top.i \in Nat \ {0} /\ Top \in Frame
      /\ Own[c] \in Seq(Condition) /\ n \in Nat /\ stack \in Seq(Frame) /\ Traced(stack) /\ Top = Last(stack)
      /\ EventsTurn /\ Top.i <= n /\ events' = events /\ posts' = posts /\ First(Top.bits) = "event"
      /\ Top.bits \subseteq Kinds /\ Top.bits # {} /\ Own \in [Clients -> Seq(Condition)]
      /\ handed \in [Clients -> Seq(Ids)]
  BY TopClientIs, PostsIs, SMTT(30) DEF NotifyEvent, EventsTurn, Base, TypeOK, Told, budgets, Top
<1>2. /\ event.id \in Ids
      /\ \A p \in m : /\ p \in DOMAIN queue[c] /\ queue[c][p].kind = "event"
                      /\ queue[c][p].id = event.id /\ Own[c][1].id = event.id
      /\ m # {} => n - Top.i + 1 <= Len(Own[c])
                   /\ \A j \in Top.i..n : events[j].id = Own[c][j - Top.i + 1].id
      /\ m = {} => \A j \in Top.i..n : \A x \in Range(Own[c]) : events[j].id # x.id
  BY <1>1, DueIs
<1>3. PICK i \in Nat \ {0} : i = Top.i + 1
  BY <1>1
<1>a. LET h == [Top EXCEPT !.i = i] IN h \in Frame /\ h.f = "client" /\ h.c = Top.c /\ h.i = i /\ h.bits = Top.bits
  BY <1>1, ClientChanged
<1>b. PICK g \in Frame : g = [Top EXCEPT !.i = i]
  BY <1>a
<1>4. g \in Frame /\ g.f = "client" /\ g.c = c /\ g.i = i /\ g.bits = Top.bits
  BY <1>a, <1>b
<1> DEFINE next == SetTop(stack, g)
           call == Activated(c, "event", event.id, "queued")
<1>5. IF m = {} THEN stack' = next /\ UNCHANGED <<listVars, handed>>
      ELSE /\ Unset(c, Find(c, m)) /\ stack' = Append(next, call)
           /\ handed' = [handed EXCEPT ![c] = Append(handed[c], event.id)]
  <2>1. IF m = {} THEN stack' = SetTop(stack, [Top EXCEPT !.i = Top.i + 1]) /\ UNCHANGED <<listVars, handed>>
      ELSE /\ Unset(c, Find(c, m)) /\ stack' = Append(SetTop(stack, [Top EXCEPT !.i = Top.i + 1]), call)
           /\ handed' = [handed EXCEPT ![c] = Append(handed[c], event.id)]
    BY <1>1 DEF NotifyEvent
  <2> QED BY <2>1, <1>3, <1>b
<1>6. next \in Seq(Frame) /\ Traced(next) /\ OpenIds(next) = OpenIds(stack) /\ Turn(next) = {g}
  BY <1>1, <1>4, SetTrace DEF Opened
<1>7. "event" \in g.bits
  BY <1>1, <1>4, FirstOfBits
<1>8. call \in Frame /\ call.f = "call" /\ call.how = "queued"
  <2>1. "event" \in Kinds /\ event.id \in Ids \cup {0}
    BY <1>2 DEF Kinds
  <2> QED BY <1>1, <2>1, QueuedIs
<1> HIDE DEF next, call, c, event, m, n
<1>9. CASE m = {}
  <2>1. Own' = Own
    BY <1>5, <1>9 DEF listVars, Own, EventsOf
  <2>2. Quiet
    BY <1>1, <1>5, <1>6, <1>9, <2>1, UndecidedIs DEF Quiet
  <2>3. \A j \in i..n : j \in Top.i..n
    BY <1>1, <1>3
  <2>4. \A j \in i..n : \A x \in Range(Own[c]) : events[j].id # x.id
    BY <1>2, <1>9, <2>3
  <2>z. Own'[g.c] = Own[c] /\ events' = events /\ g.i = i
    BY <1>1, <1>4, <2>1
  <2>5. Ahead(g.i, Own[g.c])'
    BY <2>4, <2>z DEF Ahead, n, Range
  <2>6. InTurn(g)'
    BY <2>5, <1>7 DEF InTurn
  <2>7. Told'
    <3>1. Traced(stack') /\ Turn(stack') = {g} /\ events' = events
      BY <1>1, <1>5, <1>6, <1>9
    <3> QED BY <1>4, <2>2, <2>6, <3>1, OneTold
  <2> QED BY <2>2, <2>7 DEF Tells
<1>10. CASE m # {}
  <2>1. Find(c, m) \in m
    <3>1. m \subseteq DOMAIN queue[c]
      BY <1>2
    <3> QED BY <1>1, <1>10, <3>1, FindIs DEF Base
  <2>2. PICK p \in m : p = Find(c, m)
    BY <2>1
  <2>3. /\ p \in DOMAIN queue[c] /\ queue[c][p].kind = "event" /\ queue[c][p].id = event.id
        /\ Own[c][1].id = queue[c][p].id /\ Unset(c, p)
    BY <1>2, <1>5, <1>10, <2>2
  <2>4. IdsApart(Own[c])
    BY <1>1 DEF Told, Ledger, EventsApart
  <2>5. Own[c] # <<>> /\ Head(Own[c]) = queue[c][p] /\ Own' = [Own EXCEPT ![c] = Tail(Own[c])]
    BY <1>1, <2>3, <2>4, OwnTaken DEF Base
  <2>6. /\ Traced(Append(next, call)) /\ OpenIds(Append(next, call)) = OpenIds(next)
        /\ Turn(Append(next, call)) = Turn(next)
    BY <1>6, <1>8, PushTrace DEF Opened
  <2>7. Traced(stack') /\ Undecided' = Undecided /\ Turn(stack') = {g}
    BY <1>5, <1>6, <1>10, <2>6, UndecidedIs
  <2>8. Hands(c)
    BY <1>1, <1>5, <1>10, <2>3, <2>5, <2>7 DEF Hands
  <2>9. Ledger'
    BY <1>1, <2>8, LedgerHands DEF Told
  <2> DEFINE s == Own[c]
             t == Tail(s)
  <2>10. /\ s \in Seq(Condition) /\ Len(s) \in Nat /\ Len(s) # 0 /\ Len(t) = Len(s) - 1
         /\ \A k \in 1..(Len(s) - 1) : t[k] = s[k + 1]
    BY <1>1, <2>5
  <2>11. Own'[c] = t /\ n - Top.i + 1 <= Len(s) /\ \A j \in Top.i..n : events[j].id = s[j - Top.i + 1].id
    BY <1>1, <1>2, <1>10, <2>5
  <2> HIDE DEF s, t
  <2>12. n - i + 1 <= Len(t)
    BY <1>1, <1>3, <2>10, <2>11, SMTT(30)
  <2>13. ASSUME NEW j \in i..n PROVE events[j].id = t[j - i + 1].id
    <3>a. j \in Top.i..n
      BY <1>1, <1>3
    <3>b. Top.i \in Nat /\ n \in Nat /\ i = Top.i + 1 /\ n - Top.i + 1 <= Len(s) /\ Len(s) \in Nat /\ j \in i..n
      BY <1>1, <1>3, <2>10, <2>11
    <3>1. j \in Top.i..n /\ j - i + 1 \in 1..(Len(s) - 1) /\ (j - i + 1) + 1 = j - Top.i + 1
      BY <3>a, <3>b, SMTT(30)
    <3>2. t[j - i + 1] = s[(j - i + 1) + 1]
      BY <2>10, <3>1
    <3>3. events[j].id = s[j - Top.i + 1].id
      BY <2>11, <3>1
    <3> QED BY <3>1, <3>2, <3>3
  <2>z. Own'[g.c] = t /\ events' = events /\ g.i = i
    BY <1>1, <1>4, <2>11
  <2>14. Ahead(g.i, Own[g.c])'
    BY <2>12, <2>13, <2>z DEF Ahead, n
  <2>15. InTurn(g)'
    BY <2>14, <1>7 DEF InTurn
  <2>16. (\A f \in Turn(stack) : InTurn(f))'
    <3>1. \A f \in Turn(stack') : InTurn(f)'
      BY <2>7, <2>15
    <3> QED BY <3>1, TracedIs
  <2> QED BY <1>1, <2>7, <2>8, <2>9, <2>16, TracedIs DEF Told, Tells
<1> QED BY <1>9, <1>10

(* Unchanged queues have the same events.                                  *)
LEMMA OwnUnmoved ==
  ASSUME UNCHANGED listVars
  PROVE  Own' = Own
BY DEF listVars, Own, EventsOf

(* notify_client fills the arrays.                                         *)
LEMMA VisitTells ==
  ASSUME Base, Told, NEW c \in Clients, NEW st \in Seq(Frame), Traced(st), OpenIds(st) = Undecided,
         Visit(c, st), UNCHANGED <<listVars, handed, posts>>
  PROVE  Tells /\ Told'
<1>1. PICK f \in Frame : /\ f.f = "client" /\ f.c = c /\ f.i = 1 /\ stack' = Append(st, f)
                         /\ f.bits = {"event"} \cup {queue[c][p].kind : p \in DOMAIN queue[c]}
  <2>1. Lists
    BY DEF Base
  <2> QED BY <2>1, VisitFrame
<1>2. Traced(stack') /\ Turn(stack') = {f} /\ OpenIds(stack') = OpenIds(st)
  BY <1>1, PushTrace DEF Opened
<1>3. Own' = Own
  BY OwnUnmoved DEF listVars
<1>4. Quiet
  BY <1>2, <1>3, UndecidedIs DEF Quiet
<1>5. events' = Own[c]
  BY OwnIs DEF Visit, Base
<1>6. "event" \in f.bits
  BY <1>1
<1>7. InTurn(f)'
  BY <1>1, <1>3, <1>5, <1>6, AllAhead
<1>8. Told'
  BY <1>2, <1>4, <1>5, <1>7, OneTold
<1> QED BY <1>4, <1>8 DEF Tells

(* The scheduler goes on.                                                  *)
LEMMA AdvanceTrace ==
  ASSUME NEW st, NestedIn(st), st # <<>>, Last(st).f = "sched", Traced(st), Advance(st)
  PROVE  /\ Traced(stack') /\ OpenIds(stack') = OpenIds(st) /\ Turn(stack') = Turn(st)
         /\ stack' \in Seq(Frame)
<1>1. PICK f \in Frame : f.f = "sched" /\ stack' = SetTop(st, f) /\ f.i = Last(st).i + 1
  BY AdvanceFrame
<1>2. st \in Seq(Frame)
  BY DEF NestedIn
<1> QED BY <1>1, <1>2, SetTrace DEF Opened

(* Enqueueing, with the dispatching that may follow.                       *)
LEMMA QueueTrace ==
  ASSUME Lists', NEW c, NEW x, NEW st \in Seq(Frame), Traced(st), Queue(c, x, st)
  PROVE  Traced(stack') /\ OpenIds(stack') = OpenIds(st) /\ Turn(stack') = Turn(st)
<1>1. order' \in Seq(Clients)
  BY DEF Lists
<1>2. CASE stack' = st
  BY <1>2
<1>3. ASSUME NEW f \in Frame, f.f = "sched", stack' = Append(st, f)
      PROVE  Traced(stack') /\ OpenIds(stack') = OpenIds(st) /\ Turn(stack') = Turn(st)
  BY <1>3, PushTrace DEF Opened
<1> QED BY <1>1, <1>2, <1>3, QueueFrame

(* The steps of scheduler, prioritizer and loop.                           *)
LEMMA DispatcherTells ==
  ASSUME Base, Lists', Told, ScheduleNext \/ LeaveClient \/ LeaveDispatch \/ EventsDone \/ Dispatch
  PROVE  Tells /\ Told'
<1>0. /\ stack \in Seq(Frame) /\ Traced(stack) /\ OpenIds(stack) = Undecided /\ Undecided' = OpenIds(stack')
      /\ Lists /\ NestedIn(stack) /\ UNCHANGED <<posts, handed>>
  <2>1. UNCHANGED <<posts, handed>>
    BY DEF ScheduleNext, LeaveClient, LeaveDispatch, EventsDone, Dispatch, budgets
  <2> QED BY <2>1, UndecidedIs DEF Base, TypeOK, Told
<1>1. CASE ScheduleNext
  <2>1. stack # <<>> /\ Top.f = "sched" /\ Last(stack).f = "sched"
    BY <1>1, TopSched DEF ScheduleNext, Top
  <2>2. CASE sched[Top.i] \in Range(order)
    <3>1. sched[Top.i] \in Clients
      BY <1>0, <2>2 DEF Lists
    <3>2. PICK c \in Clients : c = sched[Top.i]
      BY <3>1
    <3>3. Visit(c, stack) /\ UNCHANGED <<listVars, handed, posts>>
      BY <1>0, <1>1, <2>2, <3>2 DEF ScheduleNext
    <3> QED BY <1>0, <3>3, VisitTells
  <2>3. CASE sched[Top.i] \notin Range(order)
    <3>1. Advance(stack) /\ UNCHANGED listVars /\ events' = events
      BY <1>1, <2>3 DEF ScheduleNext
    <3>2. Traced(stack') /\ OpenIds(stack') = OpenIds(stack) /\ Turn(stack') = Turn(stack)
      BY <1>0, <2>1, <3>1, AdvanceTrace
    <3>3. Quiet
      BY <1>0, <3>1, <3>2, OwnUnmoved DEF Quiet
    <3> QED BY <3>1, <3>2, <3>3, StillTold DEF Tells
  <2> QED BY <2>2, <2>3
<1>2. CASE LeaveClient
  <2>1. /\ stack # <<>> /\ Top.f = "client" /\ Top.c \in Clients /\ NestedIn(Below) /\ Below # <<>>
        /\ Last(Below).f = "sched" /\ Top.bits = {}
    BY <1>2, TopClientIs DEF LeaveClient
  <2>2. /\ Below \in Seq(Frame) /\ Traced(Below) /\ OpenIds(Below) = OpenIds(stack)
        /\ Turn(stack) = {Top}
    BY <1>0, <2>1, PopTrace DEF Top, Below, Opened
  <2>3. events = <<>>
    BY <2>1, <2>2 DEF Told, InTurn
  <2>4. CASE eventQueued /\ Top.c \in Range(order)
    <3>1. PICK c \in Clients : c = Top.c
      BY <2>1
    <3>2. PICK st \in Seq(Frame) : st = Below
      BY <2>2
    <3>3. Visit(c, st) /\ UNCHANGED <<listVars, handed, posts>>
      BY <1>0, <1>2, <2>4, <3>1, <3>2 DEF LeaveClient
    <3> QED BY <1>0, <2>2, <3>2, <3>3, VisitTells
  <2>5. CASE ~ (eventQueued /\ Top.c \in Range(order))
    <3>1. Advance(Below) /\ UNCHANGED listVars /\ events' = events
      BY <1>2, <2>5 DEF LeaveClient
    <3>2. Traced(stack') /\ OpenIds(stack') = OpenIds(Below) /\ stack' \in Seq(Frame)
      <4>1. PICK st \in Seq(Frame) : st = Below
        BY <2>2
      <4>2. Advance(st) /\ NestedIn(st) /\ st # <<>> /\ Last(st).f = "sched" /\ Traced(st)
        BY <2>1, <2>2, <3>1, <4>1
      <4> QED BY <4>1, <4>2, AdvanceTrace
    <3>3. Quiet
      BY <1>0, <2>2, <3>1, <3>2, OwnUnmoved DEF Quiet
    <3> QED BY <2>3, <3>1, <3>2, <3>3, EmptyTold DEF Tells
  <2> QED BY <2>4, <2>5
<1>3. CASE LeaveDispatch
  <2>1. stack # <<>> /\ Top.f = "sched" /\ stack' = Front(stack) /\ UNCHANGED listVars /\ events' = events
    BY <1>3 DEF LeaveDispatch, At, Below
  <2>2. Traced(stack') /\ OpenIds(stack') = OpenIds(stack) /\ Turn(stack') = Turn(stack)
    BY <1>0, <2>1, PopTrace DEF Top, Opened
  <2>3. Quiet
    BY <1>0, <2>1, <2>2, OwnUnmoved DEF Quiet
  <2> QED BY <2>1, <2>2, <2>3, StillTold DEF Tells
<1>4. CASE EventsDone
  <2>1. stack # <<>> /\ Top.f = "client" /\ Top.bits \subseteq Kinds /\ Top \in Frame
    BY <1>4, TopClientIs DEF EventsDone, EventsTurn
  <2>2. PICK bits \in SUBSET Kinds : bits = Top.bits \ {"event"}
    BY <2>1
  <2>3. LET h == [Top EXCEPT !.bits = bits] IN h \in Frame /\ h.f = "client"
    BY <2>1, ClientChanged
  <2>4. PICK g \in Frame : g = [Top EXCEPT !.bits = bits]
    BY <2>3
  <2>5. g.f = "client" /\ stack' = SetTop(stack, g) /\ events' = <<>> /\ UNCHANGED listVars
    BY <1>4, <2>2, <2>3, <2>4 DEF EventsDone
  <2>6. Traced(stack') /\ OpenIds(stack') = OpenIds(stack) /\ stack' \in Seq(Frame)
    BY <1>0, <2>1, <2>5, SetTrace DEF Top, Opened
  <2>7. Quiet
    BY <1>0, <2>5, <2>6, OwnUnmoved DEF Quiet
  <2> QED BY <2>5, <2>6, <2>7, EmptyTold DEF Tells
<1>5. CASE Dispatch
  <2>1. stack = <<>> /\ StartDispatch(stack) /\ UNCHANGED queue /\ events' = events
    BY <1>5 DEF Dispatch
  <2>2. PICK f \in Frame : f.f = "sched" /\ f.i = 1 /\ f.n = Len(order') /\ stack' = Append(stack, f)
    BY <2>1, DispatchFrame DEF Lists
  <2>3. Traced(stack') /\ OpenIds(stack') = OpenIds(stack) /\ Turn(stack') = Turn(stack)
    BY <1>0, <2>2, PushTrace DEF Opened
  <2>4. Own' = Own
    BY <2>1 DEF Own, EventsOf
  <2>5. Quiet
    BY <1>0, <2>3, <2>4 DEF Quiet
  <2> QED BY <2>1, <2>3, <2>5, StillTold DEF Tells
<1> QED BY <1>1, <1>2, <1>3, <1>4, <1>5

(* A step that leaves arrays and what the stack remembers.                 *)
LEMMA PlainTells ==
  ASSUME Base, Told, UNCHANGED <<posts, handed, events>>,
         Own' = Own \/ \E c \in Clients : Own' = [Own EXCEPT ![c] = <<>>],
         Traced(stack'), OpenIds(stack') = OpenIds(stack), Turn(stack') = Turn(stack)
  PROVE  Tells /\ Told'
<1>1. Quiet
  BY UndecidedIs DEF Quiet
<1> QED BY <1>1, StillTold DEF Tells

(* What the invariant says of the stack.                                   *)
LEMMA StackIsTraced ==
  ASSUME Base, Told
  PROVE  /\ stack \in Seq(Frame) /\ Traced(stack) /\ Lists /\ Undecided = OpenIds(stack)
         /\ Undecided' = OpenIds(stack')
BY UndecidedIs DEF Base, TypeOK, Told

(* What it says when a function runs.                                      *)
LEMMA CallTraced ==
  ASSUME Base, Told, At("call")
  PROVE  /\ stack # <<>> /\ Top = Last(stack) /\ Top \in Frame /\ Top.f = "call" /\ Top.c \in Clients
         /\ CallHasId(Top)
         /\ Below = Front(stack) /\ Below \in Seq(Frame) /\ Traced(Below) /\ Turn(Below) = Turn(stack)
         /\ OpenIds(Below) = IF Top.how = "hinted" THEN Undecided \ {Top.id} ELSE Undecided
         /\ Top.how = "hinted" => Top.id \in Undecided /\ Top.id \in Ids /\ Top.kind = "event"
<1>1. stack # <<>> /\ Top.f = "call" /\ Top = Last(stack) /\ Below = Front(stack)
  BY DEF At, Top, Below
<1>2. Top \in Frame /\ CallHasId(Top) /\ Top.c \in Clients
  BY <1>1, BaseStack, FrameFields
<1>3. /\ Front(stack) \in Seq(Frame) /\ Traced(Front(stack)) /\ Turn(Front(stack)) = Turn(stack)
      /\ OpenIds(Front(stack)) = IF Opened(Last(stack)) THEN OpenIds(stack) \ {Last(stack).id} ELSE OpenIds(stack)
      /\ Opened(Last(stack)) => Last(stack).id \in OpenIds(stack)
  BY <1>1, StackIsTraced, PopTrace
<1>4. Opened(Top) <=> Top.how = "hinted"
  BY <1>1 DEF Opened
<1>5. Top.how = "hinted" => Top.id \in Ids /\ Top.kind = "event"
  BY <1>1, <1>2 DEF CallHasId
<1>6. Undecided = OpenIds(stack)
  BY StackIsTraced
<1>7. Opened(Last(stack)) <=> Top.how = "hinted"
  BY <1>1, <1>4
<1>8. OpenIds(Below) = IF Top.how = "hinted" THEN Undecided \ {Top.id} ELSE Undecided
  BY <1>1, <1>3, <1>6, <1>7
<1>9. Top.how = "hinted" => Top.id \in Undecided
  BY <1>1, <1>3, <1>6, <1>7
<1> QED BY <1>1, <1>2, <1>3, <1>5, <1>8, <1>9

(* An activation that has lost bits other than events.                     *)
LEMMA SameTurn ==
  ASSUME Base, Ledger, NEW f \in Frame, f.f = "client", InTurn(f), NEW g \in Frame, g.f = "client",
         g.i = f.i, g.c = f.c, "event" \in f.bits => "event" \in g.bits, events' = events, Quiet
  PROVE  InTurn(g)'
<1>1. InTurn(f)'
  BY TurnKept
<1> QED BY <1>1 DEF InTurn, Ahead

(* Notifying another kind leaves the bit for events.                       *)
LEMMA WithoutIs ==
  ASSUME NEW bits \in SUBSET Kinds, NEW kind \in Kinds, kind # "event"
  PROVE  /\ Without(bits, kind) \in SUBSET Kinds /\ Without(bits, kind) \ {kind} \in SUBSET Kinds
         /\ "event" \in bits => "event" \in Without(bits, kind) /\ "event" \in Without(bits, kind) \ {kind}
BY DEF Without, Finals

(* notify_input, notify_destroy and their like.                            *)
LEMMA NotifyOtherTells ==
  ASSUME Base, Told, NotifyOther
  PROVE  Tells /\ Told'
<1>1. /\ At("client") /\ stack # <<>> /\ Top.f = "client" /\ Top.c \in Clients /\ Top.i \in Nat \ {0} /\ Top \in Frame
      /\ Top.bits \in SUBSET Kinds /\ Top.bits # {} /\ Top = Last(stack) /\ First(Top.bits) # "event"
      /\ UNCHANGED <<posts, handed, events>>
  BY TopClientIs DEF NotifyOther, budgets, Top
<1>2. stack \in Seq(Frame) /\ Traced(stack) /\ Lists
  BY StackIsTraced
<1>3. Turn(stack) = {Top}
  BY <1>1, <1>2, PopTrace
<1>4. InTurn(Top) /\ Ledger
  BY <1>3 DEF Told
<1>5. PICK kind \in Kinds : kind = First(Top.bits)
  BY <1>1, FirstOfBits
<1>6. kind # "event"
  BY <1>1, <1>5
<1> DEFINE m == Matching(Top.c, kind, 0)
<1>7. ASSUME NEW bits \in SUBSET Kinds, "event" \in Top.bits => "event" \in bits
      PROVE  \E g \in Frame : /\ g = [Top EXCEPT !.bits = bits] /\ g.f = "client" /\ g.i = Top.i /\ g.c = Top.c
                              /\ "event" \in Top.bits => "event" \in g.bits
                              /\ SetTop(stack, g) \in Seq(Frame) /\ Traced(SetTop(stack, g))
                              /\ OpenIds(SetTop(stack, g)) = OpenIds(stack) /\ Turn(SetTop(stack, g)) = {g}
  <2>1. LET h == [Top EXCEPT !.bits = bits] IN h \in Frame /\ h.f = "client" /\ h.c = Top.c /\ h.i = Top.i /\ h.bits = bits
    BY <1>1, ClientChanged
  <2>2. PICK g \in Frame : g = [Top EXCEPT !.bits = bits]
    BY <2>1
  <2>3. g.f = "client" /\ g.i = Top.i /\ g.c = Top.c /\ g.bits = bits
    BY <2>1, <2>2
  <2>4. /\ SetTop(stack, g) \in Seq(Frame) /\ Traced(SetTop(stack, g))
        /\ OpenIds(SetTop(stack, g)) = OpenIds(stack) /\ Turn(SetTop(stack, g)) = {g}
    BY <1>1, <1>2, <2>3, SetTrace DEF Opened
  <2> QED BY <1>7, <2>2, <2>3, <2>4
<1>8. /\ Without(Top.bits, kind) \in SUBSET Kinds /\ Without(Top.bits, kind) \ {kind} \in SUBSET Kinds
      /\ "event" \in Top.bits => "event" \in Without(Top.bits, kind) /\ "event" \in Without(Top.bits, kind) \ {kind}
  BY <1>1, <1>6, WithoutIs
<1>9. ASSUME NEW g \in Frame, g.f = "client", g.i = Top.i, g.c = Top.c, "event" \in Top.bits => "event" \in g.bits,
             Traced(stack'), OpenIds(stack') = OpenIds(stack), Turn(stack') = {g}, Own' = Own
      PROVE  Tells /\ Told'
  <2>1. Quiet
    BY <1>1, <1>9, UndecidedIs DEF Quiet
  <2>2. PICK f \in Frame : f = Top
    BY <1>1
  <2>3. InTurn(g)'
    <3>1. f.f = "client" /\ InTurn(f) /\ g.i = f.i /\ g.c = f.c /\ ("event" \in f.bits => "event" \in g.bits)
      BY <1>1, <1>4, <1>9, <2>2
    <3> QED BY <1>1, <1>4, <1>9, <2>1, <3>1, SameTurn
  <2> QED BY <1>1, <1>9, <2>1, <2>3, OneTold DEF Tells
<1>10. CASE m = {}
  <2>1. /\ stack' = SetTop(stack, [Top EXCEPT !.bits = Without(Top.bits, kind) \ {kind}]) /\ UNCHANGED listVars
    BY <1>5, <1>10 DEF NotifyOther
  <2>2. PICK g \in Frame : /\ g = [Top EXCEPT !.bits = Without(Top.bits, kind) \ {kind}]
                           /\ g.f = "client" /\ g.i = Top.i /\ g.c = Top.c
                           /\ "event" \in Top.bits => "event" \in g.bits
                           /\ SetTop(stack, g) \in Seq(Frame) /\ Traced(SetTop(stack, g))
                           /\ OpenIds(SetTop(stack, g)) = OpenIds(stack) /\ Turn(SetTop(stack, g)) = {g}
    BY <1>7, <1>8
  <2>3. Own' = Own
    BY <2>1, OwnUnmoved
  <2> QED BY <1>9, <2>1, <2>2, <2>3
<1>11. CASE m # {}
  <2>1. /\ Unset(Top.c, Find(Top.c, m))
        /\ stack' = Append(SetTop(stack, [Top EXCEPT !.bits = Without(Top.bits, kind)]),
                           Activated(Top.c, kind, 0, "queued"))
    BY <1>5, <1>11 DEF NotifyOther
  <2>2. PICK g \in Frame : /\ g = [Top EXCEPT !.bits = Without(Top.bits, kind)]
                           /\ g.f = "client" /\ g.i = Top.i /\ g.c = Top.c
                           /\ "event" \in Top.bits => "event" \in g.bits
                           /\ SetTop(stack, g) \in Seq(Frame) /\ Traced(SetTop(stack, g))
                           /\ OpenIds(SetTop(stack, g)) = OpenIds(stack) /\ Turn(SetTop(stack, g)) = {g}
    BY <1>7, <1>8
  <2>3. LET f == Activated(Top.c, kind, 0, "queued") IN f \in Frame /\ f.f = "call" /\ f.how = "queued"
    BY <1>1, QueuedIs
  <2>4. PICK f \in Frame : f = Activated(Top.c, kind, 0, "queued") /\ f.f = "call" /\ f.how = "queued"
    BY <2>3
  <2>5. PICK next \in Seq(Frame) : next = SetTop(stack, g)
    BY <2>2
  <2>6. stack' = Append(next, f) /\ Traced(next) /\ OpenIds(next) = OpenIds(stack) /\ Turn(next) = {g}
    BY <2>1, <2>2, <2>4, <2>5
  <2>7. Traced(stack') /\ OpenIds(stack') = OpenIds(stack) /\ Turn(stack') = {g}
    BY <2>4, <2>6, PushTrace DEF Opened
  <2>8. \A p \in m : p \in DOMAIN queue[Top.c] /\ queue[Top.c][p].kind # "event"
    BY <1>6 DEF Matching, Fits, Destroy
  <2>9. Find(Top.c, m) \in m
    <3>1. m \subseteq DOMAIN queue[Top.c]
      BY <2>8
    <3> HIDE DEF m
    <3> QED BY <1>1, <1>2, <1>11, <3>1, FindIs
  <2>10. PICK p \in m : p = Find(Top.c, m)
    BY <2>9
  <2>11. p \in DOMAIN queue[Top.c] /\ queue[Top.c][p].kind # "event" /\ Unset(Top.c, p)
    BY <2>1, <2>8, <2>10
  <2>12. Own' = Own
    BY <1>1, <1>2, <2>11, OwnUnset
  <2> QED BY <1>9, <2>2, <2>7, <2>12
<1> QED BY <1>10, <1>11

(* The copy function returns, and the event waits.                         *)
LEMMA EndCopyTells ==
  ASSUME Base, Lists', Told, EndCopy
  PROVE  Tells /\ Told'
<1>1. /\ stack # <<>> /\ Top.f = "copy" /\ Top = Last(stack) /\ Below = Front(stack)
      /\ Queue(Top.c, [kind |-> "event", code |-> Top.code, id |-> Top.id], Below)
      /\ UNCHANGED <<posts, handed, events>>
  BY DEF EndCopy, At, budgets, Top, Below
<1>2. stack \in Seq(Frame) /\ Traced(stack) /\ Lists /\ Undecided = OpenIds(stack) /\ Undecided' = OpenIds(stack')
  BY StackIsTraced
<1>3. /\ Below \in Seq(Frame) /\ Top \in Frame /\ Traced(Below) /\ OpenIds(Below) = OpenIds(stack) \ {Top.id}
      /\ Top.id \in OpenIds(stack) /\ CopyIntact(Top) /\ Turn(Below) = Turn(stack)
  BY <1>1, <1>2, PopTrace DEF Opened
<1>4. PICK c \in Clients, id \in Ids : c = Top.c /\ id = Top.id /\ Top.code = CodeOf[id]
  BY <1>1, <1>3, FrameFields DEF CopyIntact
<1> DEFINE x == [kind |-> "event", code |-> CodeOf[id], id |-> id]
<1>5. x \in Condition /\ x.kind = "event" /\ Queue(c, x, Below)
  BY <1>1, <1>4, ConditionsMade DEF Codes
<1> HIDE DEF x
<1>6. Own' = [Own EXCEPT ![c] = Append(Own[c], x)]
  BY <1>2, <1>5, OwnEnqueued DEF Queue
<1>7. PICK st \in Seq(Frame) : st = Below
  BY <1>3
<1>8. Traced(stack') /\ OpenIds(stack') = OpenIds(st) /\ Turn(stack') = Turn(st)
  BY <1>3, <1>5, <1>7, QueueTrace
<1>9. Decides(c, id)
  BY <1>1, <1>2, <1>3, <1>4, <1>6, <1>7, <1>8 DEF Decides, x
<1>10. Turn(stack') = Turn(stack)
  BY <1>3, <1>7, <1>8
<1> QED BY <1>1, <1>8, <1>9, <1>10, StillTold DEF Tells

(* A function returns; an immediate one has taken the event.               *)
LEMMA ReturnsTell ==
  ASSUME Base, Told, Returns
  PROVE  Tells /\ Told'
<1>1. At("call") /\ UNCHANGED <<posts, handed, events>>
  BY DEF Returns, ReturnEvent, ReturnDetected, ReturnChecked, ReturnDestroyed, budgets
<1>2. /\ stack # <<>> /\ Top = Last(stack) /\ Top \in Frame /\ Top.f = "call" /\ Top.c \in Clients
      /\ CallHasId(Top)
      /\ Below = Front(stack) /\ Below \in Seq(Frame) /\ Traced(Below) /\ Turn(Below) = Turn(stack)
      /\ OpenIds(Below) = IF Top.how = "hinted" THEN Undecided \ {Top.id} ELSE Undecided
      /\ Top.how = "hinted" => Top.id \in Undecided /\ Top.id \in Ids /\ Top.kind = "event"
  BY <1>1, CallTraced
<1>3. Lists /\ Undecided = OpenIds(stack) /\ Undecided' = OpenIds(stack')
  BY StackIsTraced
<1>a. PICK c \in Clients : c = Top.c
  BY <1>2
<1>4. ASSUME stack' = Below, Top.how # "hinted",
             Own' = Own \/ \E d \in Clients : Own' = [Own EXCEPT ![d] = <<>>]
      PROVE  Tells /\ Told'
  <2>1. Traced(stack') /\ OpenIds(stack') = OpenIds(stack) /\ Turn(stack') = Turn(stack)
    BY <1>2, <1>3, <1>4
  <2> QED BY <1>1, <1>4, <2>1, PlainTells
<1>5. CASE ReturnEvent
  <2>1. stack' = Below /\ UNCHANGED listVars
    BY <1>5 DEF ReturnEvent
  <2>2. Own' = Own
    BY <2>1, OwnUnmoved
  <2>3. CASE Top.how # "hinted"
    BY <1>4, <2>1, <2>2, <2>3
  <2>4. CASE Top.how = "hinted"
    <3>1. PICK id \in Ids : id = Top.id
      BY <1>2, <2>4
    <3>2. id \in Undecided /\ Undecided' = Undecided \ {id}
      BY <1>2, <1>3, <2>1, <2>4, <3>1
    <3>3. Decides(c, id)
      BY <1>1, <2>2, <3>2 DEF Decides
    <3>4. Traced(stack') /\ Turn(stack') = Turn(stack)
      BY <1>2, <2>1
    <3> QED BY <1>1, <3>3, <3>4, StillTold DEF Tells
  <2> QED BY <2>3, <2>4
<1>6. CASE ReturnDetected
  <2>1. stack' = Below /\ UNCHANGED listVars /\ Top.how # "hinted"
    BY <1>2, <1>6 DEF ReturnDetected, Detected, detVars
  <2>2. Own' = Own
    BY <2>1, OwnUnmoved
  <2> QED BY <1>4, <2>1, <2>2
<1>7. CASE ReturnDestroyed
  <2>1. stack' = Below /\ Top.how # "hinted" /\ (Flush(c) \/ UNCHANGED listVars)
    BY <1>2, <1>7, <1>a DEF ReturnDestroyed, RemoveClient
  <2>2. Own' = Own \/ Own' = [Own EXCEPT ![c] = <<>>]
    BY <1>3, <2>1, OwnUnmoved, OwnFlushed
  <2> QED BY <1>4, <2>1, <2>2
<1>8. CASE ReturnChecked
  <2>1. Top.how # "hinted" /\ Top.kind \in {"check", "save"}
    BY <1>2, <1>8 DEF ReturnChecked
  <2>2. CASE stack' = Below /\ UNCHANGED listVars
    <3>1. Own' = Own
      BY <2>2, OwnUnmoved
    <3> QED BY <1>4, <2>1, <2>2, <3>1
  <2>3. CASE ~ (stack' = Below /\ UNCHANGED listVars)
    <3>1. /\ Top.how = "queued" /\ Flush(c)
          /\ stack' = SetTop(Below, [Last(Below) EXCEPT !.bits = Last(Below).bits \ {"cleanup", "death"}])
      BY <1>8, <1>a, <2>3 DEF ReturnChecked
    <3>2. Below # <<>> /\ Last(Below).f = "client"
      BY <1>2, <3>1, BaseStack DEF Rests, OnBottom
    <3>3. Last(Below) \in Frame /\ Turn(Below) = {Last(Below)}
      BY <1>2, <3>2, PopTrace
    <3>4. PICK f \in Frame : f = Last(Below)
      BY <3>3
    <3>5. f.f = "client" /\ f.bits \subseteq Kinds /\ f.bits \ {"cleanup", "death"} \in SUBSET Kinds
          /\ f \in Turn(stack)
      BY <1>2, <3>2, <3>3, <3>4, FrameFields
    <3> DEFINE bits == f.bits \ {"cleanup", "death"}
    <3>6. LET h == [f EXCEPT !.bits = bits] IN h \in Frame /\ h.f = "client" /\ h.c = f.c /\ h.i = f.i /\ h.bits = bits
      BY <3>5, ClientChanged
    <3>7. PICK g \in Frame : g = [f EXCEPT !.bits = bits]
      BY <3>6
    <3>8. g.f = "client" /\ g.i = f.i /\ g.c = f.c /\ g.bits = bits
      BY <3>6, <3>7
    <3>9. stack' = SetTop(Below, g)
      BY <3>1, <3>4, <3>7
    <3>10. Traced(SetTop(Below, g)) /\ OpenIds(SetTop(Below, g)) = OpenIds(Below) /\ Turn(SetTop(Below, g)) = {g}
      BY <1>2, <3>2, <3>8, SetTrace DEF Opened
    <3>11. Quiet
      <4>1. Own' = [Own EXCEPT ![c] = <<>>]
        BY <1>3, <3>1, OwnFlushed
      <4>2. Undecided' = Undecided
        BY <1>2, <1>3, <2>1, <3>9, <3>10
      <4> QED BY <1>1, <4>1, <4>2 DEF Quiet
    <3>12. InTurn(g)'
      <4>1. InTurn(f) /\ Ledger /\ ("event" \in f.bits => "event" \in g.bits)
        BY <3>5, <3>8 DEF Told
      <4> QED BY <1>1, <3>5, <3>8, <3>11, <4>1, SameTurn
    <3>13. Traced(stack') /\ Turn(stack') = {g}
      BY <3>9, <3>10
    <3> QED BY <1>1, <3>11, <3>12, <3>13, OneTold DEF Tells
  <2> QED BY <2>2, <2>3
<1> QED BY <1>5, <1>6, <1>7, <1>8 DEF Returns

(* The immediate function ignores the event, and the safe one gets it.     *)
LEMMA IgnoreTells ==
  ASSUME Base, Told, Ignore
  PROVE  Tells /\ Told'
<1>1. /\ At("call") /\ Top.how = "hinted" /\ UNCHANGED <<posts, events, listVars>>
      /\ CallNow(Top.c, Top.id, "safe", Below)
  BY DEF Ignore, budgets
<1>2. /\ stack # <<>> /\ Top \in Frame /\ Top.c \in Clients
      /\ Below = Front(stack) /\ Below \in Seq(Frame) /\ Traced(Below) /\ Turn(Below) = Turn(stack)
      /\ OpenIds(Below) = Undecided \ {Top.id} /\ Top.id \in Undecided /\ Top.id \in Ids
  BY <1>1, CallTraced
<1>3. PICK c \in Clients, id \in Ids : c = Top.c /\ id = Top.id
  BY <1>2
<1>4. stack' = Append(Below, Activated(c, "event", id, "safe")) /\ handed' = [handed EXCEPT ![c] = Append(handed[c], id)]
  BY <1>1, <1>3 DEF CallNow
<1>5. LET f == Activated(c, "event", id, "safe") IN f \in Frame /\ f.f = "call" /\ f.how = "safe"
  <2>1. "event" \in Kinds /\ id \in Ids \cup {0}
    BY DEF Kinds
  <2> QED BY <2>1, CalledIs
<1>6. PICK f \in Frame : f = Activated(c, "event", id, "safe") /\ f.f = "call" /\ f.how = "safe"
  BY <1>5
<1>7. PICK st \in Seq(Frame) : st = Below
  BY <1>2
<1>8. stack' = Append(st, f) /\ Traced(st)
  BY <1>2, <1>4, <1>6, <1>7
<1>9. Traced(stack') /\ OpenIds(stack') = OpenIds(st) /\ Turn(stack') = Turn(st)
  BY <1>6, <1>8, PushTrace DEF Opened
<1>10. Own' = Own
  BY <1>1, OwnUnmoved
<1>11. Decides(c, id)
  <2>1. id \in Undecided /\ Undecided' = Undecided \ {id}
    BY <1>2, <1>3, <1>7, <1>9, StackIsTraced
  <2> QED BY <1>1, <1>4, <1>10, <2>1 DEF Decides
<1>12. Turn(stack') = Turn(stack)
  BY <1>2, <1>7, <1>9
<1> QED BY <1>1, <1>9, <1>11, <1>12, StillTold DEF Tells

(* notify_post_event.                                                      *)
LEMMA PostTells ==
  ASSUME Base, Lists', Told, NEW c \in Clients, NEW hint \in {"safe", "immediate"}, Post(c, hint)
  PROVE  Tells /\ Told'
<1> DEFINE id == posts + 1
           type == Target(c, hint)
<1>1. /\ stack \in Seq(Frame) /\ Traced(stack) /\ Lists /\ Undecided = OpenIds(stack) /\ Undecided' = OpenIds(stack')
      /\ events' = events /\ posts' = id
  BY StackIsTraced DEF Post
<1>2. id \in Ids /\ CodeOf[id] \in Codes /\ id \notin OpenIds(stack)
  <2>1. posts \in 0..Len(CodeOf) /\ posts < Len(CodeOf)
    BY DEF Base, TypeOK, Post
  <2>2. Ledger
    BY DEF Told
  <2> QED BY <1>1, <2>1, <2>2, NextId, NewIsFresh
<1>3. "event" \in Kinds /\ id \in Ids \cup {0}
  BY <1>2 DEF Kinds
<1>4. ASSUME NEW how \in {"safe", "immediate", "hinted"}, CallNow(c, id, how, stack), UNCHANGED listVars
      PROVE  Tells /\ Told'
  <2>1. stack' = Append(stack, Activated(c, "event", id, how))
        /\ handed' = IF how = "safe" THEN [handed EXCEPT ![c] = Append(handed[c], id)] ELSE handed
    BY <1>4 DEF CallNow
  <2>2. LET f == Activated(c, "event", id, how) IN f \in Frame /\ f.f = "call" /\ f.how = how /\ f.id = id
    BY <1>3, CalledIs
  <2>3. PICK f \in Frame : f = Activated(c, "event", id, how) /\ f.f = "call" /\ f.how = how /\ f.id = id
    BY <2>2
  <2>4. Opened(f) <=> how = "hinted"
    BY <2>3 DEF Opened
  <2>5. stack' = Append(stack, f)
    BY <2>1, <2>3
  <2>6. /\ Traced(stack') /\ Turn(stack') = Turn(stack)
        /\ OpenIds(stack') = IF how = "hinted" THEN OpenIds(stack) \cup {id} ELSE OpenIds(stack)
    BY <1>1, <1>2, <2>3, <2>4, <2>5, PushTrace
  <2>7. Own' = Own
    BY <1>4, OwnUnmoved
  <2>8. how = "hinted" => Opens
    BY <1>1, <2>1, <2>6, <2>7 DEF Opens
  <2>9. how # "hinted" => \E d \in Clients, n \in Ids : Decides(d, n)
    <3>1. how # "hinted" => Decides(c, id)
      BY <1>1, <2>1, <2>6, <2>7 DEF Decides
    <3> QED BY <1>2, <3>1
  <2> QED BY <1>1, <2>6, <2>8, <2>9, StillTold DEF Tells
<1>5. CASE type = "immediate"
  <2>1. PICK how \in {"safe", "immediate", "hinted"} : how = IF hint = type THEN "hinted" ELSE type
    BY <1>5
  <2>2. CallNow(c, id, how, stack) /\ UNCHANGED listVars
    BY <1>5, <2>1 DEF Post
  <2> QED BY <1>4, <2>2
<1>6. CASE type = "safe" /\ c \notin processing
  <2>1. CallNow(c, id, "safe", stack) /\ UNCHANGED listVars
    BY <1>6 DEF Post
  <2> QED BY <1>4, <2>1
<1>7. CASE type = "safe" /\ c \in processing /\ id \notin Copied
  <2> DEFINE x == [kind |-> "event", code |-> CodeOf[id], id |-> id]
  <2>1. Queue(c, x, stack) /\ handed' = handed
    BY <1>7 DEF Post
  <2>2. x \in Condition /\ x.kind = "event"
    BY <1>2, ConditionsMade
  <2> HIDE DEF x
  <2>3. Own' = [Own EXCEPT ![c] = Append(Own[c], x)]
    BY <1>1, <2>1, <2>2, OwnEnqueued DEF Queue
  <2>4. Traced(stack') /\ OpenIds(stack') = OpenIds(stack) /\ Turn(stack') = Turn(stack)
    BY <1>1, <2>1, QueueTrace
  <2>5. Decides(c, id)
    BY <1>1, <2>1, <2>3, <2>4 DEF Decides, x
  <2>6. \E d \in Clients, n \in Ids : Decides(d, n)
    BY <1>2, <2>5
  <2> QED BY <1>1, <2>4, <2>6, StillTold DEF Tells
<1>8. CASE type = "safe" /\ c \in processing /\ id \in Copied
  <2>1. /\ stack' = Append(stack, [f |-> "copy", c |-> c, id |-> id, code |-> CodeOf[id]])
        /\ handed' = handed /\ UNCHANGED listVars
    BY <1>8 DEF Post
  <2>2. [f |-> "copy", c |-> c, id |-> id, code |-> CodeOf[id]] \in Frame
    BY <1>2, FramesMade
  <2>3. PICK f \in Frame : f = [f |-> "copy", c |-> c, id |-> id, code |-> CodeOf[id]]
    BY <2>2
  <2>4. f.f = "copy" /\ f.id = id /\ f.code = CodeOf[id] /\ stack' = Append(stack, f)
    BY <2>1, <2>3
  <2>5. Opened(f) /\ CopyIntact(f)
    BY <1>8, <2>4 DEF Opened, CopyIntact
  <2>6. Traced(stack') /\ Turn(stack') = Turn(stack) /\ OpenIds(stack') = OpenIds(stack) \cup {id}
    BY <1>1, <1>2, <2>4, <2>5, PushTrace
  <2>7. Own' = Own
    BY <2>1, OwnUnmoved
  <2>8. Opens
    BY <1>1, <2>1, <2>6, <2>7 DEF Opens
  <2> QED BY <1>1, <2>6, <2>8, StillTold DEF Tells
<1>9. type = "immediate" \/ type = "safe"
  BY DEF Post
<1> QED BY <1>5, <1>6, <1>7, <1>8, <1>9

(* notify_post_event from a function for an asynchronous signal.           *)
LEMMA PostAsyncTells ==
  ASSUME Base, Told, CopiesKept, NEW c \in Clients, PostAsync(c)
  PROVE  Tells /\ Told'
<1> DEFINE id == posts + 1
           x == [kind |-> "event", code |-> CodeOf[id], id |-> id]
<1>1. /\ stack \in Seq(Frame) /\ Traced(stack) /\ Lists /\ Undecided = OpenIds(stack) /\ Undecided' = OpenIds(stack')
      /\ UNCHANGED <<events, handed>> /\ posts' = id /\ Enqueue(c, x)
  BY StackIsTraced DEF PostAsync
<1>2. id \in Ids /\ x \in Condition /\ x.kind = "event"
  <2>1. posts \in 0..Len(CodeOf) /\ posts < Len(CodeOf)
    BY DEF Base, TypeOK, PostAsync
  <2> QED BY <2>1, NextId, ConditionsMade
<1>3. ~ At("copy")
  <2>1. program \in Programs /\ "async" \in program.calls
    BY DEF PostAsync, Base, TypeOK, Calls
  <2>2. Copied = {}
    BY <2>1 DEF CopiesKept
  <2>3. At("copy") => CopyIntact(Last(stack))
    BY <1>1, PopTrace DEF At, Top
  <2> QED BY <2>2, <2>3 DEF CopyIntact
<1>4. stack' = stack
  BY <1>3 DEF PostAsync
<1> HIDE DEF x
<1>5. Own' = [Own EXCEPT ![c] = Append(Own[c], x)]
  BY <1>1, <1>2, OwnEnqueued
<1>6. Decides(c, id)
  BY <1>1, <1>4, <1>5 DEF Decides, x
<1>7. \E d \in Clients, n \in Ids : Decides(d, n)
  BY <1>2, <1>6
<1> QED BY <1>1, <1>4, <1>7, StillTold DEF Tells

(* notify_post_destroy.                                                    *)
LEMMA DestroyTells ==
  ASSUME Base, Lists', Told, NEW c \in Clients, NEW status \in program.statuses,
         DestroyNow(c, status) \/ DestroyLater(c, status)
  PROVE  Tells /\ Told'
<1>1. stack \in Seq(Frame) /\ Traced(stack) /\ Lists /\ UNCHANGED <<posts, handed, events>>
  BY StackIsTraced DEF DestroyNow, DestroyLater
<1>2. status \in Destroy /\ status \in Kinds /\ status # "event"
  <2>1. status \in Destroy
    BY ConstantsAssumption DEF Base, TypeOK, Program
  <2> QED BY <2>1 DEF Kinds, Destroy
<1>3. CASE DestroyNow(c, status)
  <2>1. stack' = Append(stack, Activated(c, status, 0, "immediate")) /\ UNCHANGED listVars
    BY <1>3 DEF DestroyNow
  <2>2. LET f == Activated(c, status, 0, "immediate") IN f \in Frame /\ f.f = "call" /\ f.how = "immediate"
    BY <1>2, CalledIs
  <2>3. PICK f \in Frame : f = Activated(c, status, 0, "immediate") /\ f.f = "call" /\ f.how = "immediate"
    BY <2>2
  <2>4. stack' = Append(stack, f)
    BY <2>1, <2>3
  <2>5. Traced(stack') /\ OpenIds(stack') = OpenIds(stack) /\ Turn(stack') = Turn(stack)
    BY <1>1, <2>3, <2>4, PushTrace DEF Opened
  <2>6. Own' = Own
    BY <2>1, OwnUnmoved
  <2> QED BY <1>1, <2>5, <2>6, PlainTells
<1>4. CASE DestroyLater(c, status)
  <2> DEFINE x == [kind |-> status, code |-> 0, id |-> 0]
  <2>1. Queue(c, x, stack)
    BY <1>4 DEF DestroyLater
  <2>2. x \in Condition /\ x.kind = status
    BY <1>2, ConditionsMade
  <2> HIDE DEF x
  <2>3. Own' = Own
    BY <1>1, <1>2, <2>1, <2>2, OwnEnqueued DEF Queue
  <2>4. Traced(stack') /\ OpenIds(stack') = OpenIds(stack) /\ Turn(stack') = Turn(stack)
    BY <1>1, <2>1, QueueTrace
  <2> QED BY <1>1, <2>3, <2>4, PlainTells
<1> QED BY <1>3, <1>4

(* The other calls of clients, and the detector.                           *)
LEMMA OthersTell ==
  ASSUME Base, Told,
         \/ Veto \/ Stop \/ Start("start", "in") \/ Start("once", "stopping")
         \/ \E c \in Clients : \/ FlushPending(c) \/ NotifyRemove(c)
                               \/ \E type \in Funcs : SetFunc(c, type) \/ UnsetFunc(c, type)
                               \/ \E kind \in Detected : Detect(c, kind)
  PROVE  Tells /\ Told'
<1>1. stack \in Seq(Frame) /\ Traced(stack) /\ Lists
  BY StackIsTraced
<1>2. ASSUME UNCHANGED <<posts, handed, events, stack>>,
             Own' = Own \/ \E c \in Clients : Own' = [Own EXCEPT ![c] = <<>>]
      PROVE  Tells /\ Told'
  <2>1. Traced(stack') /\ OpenIds(stack') = OpenIds(stack) /\ Turn(stack') = Turn(stack)
    BY <1>1, <1>2
  <2> QED BY <1>2, <2>1, PlainTells
<1>3. CASE Veto
  <2>1. /\ stack # <<>> /\ Top = Last(stack) /\ Top.kind \in Destroy /\ At("call")
        /\ stack' = SetTop(stack, [Top EXCEPT !.veto = TRUE]) /\ UNCHANGED <<posts, handed, events, listVars>>
    BY <1>3 DEF Veto, MayCall, Top, budgets
  <2>2. Top \in Frame /\ Top.f = "call" /\ Top.how # "hinted"
    <3>1. Top.kind # "event"
      BY <2>1 DEF Destroy
    <3> QED BY <2>1, <3>1, CallTraced
  <2>3. [Top EXCEPT !.veto = TRUE] \in Frame
    BY <2>2, FramesChanged
  <2>4. PICK f \in Frame : f = [Top EXCEPT !.veto = TRUE]
    BY <2>3
  <2>5. f.f = "call" /\ f.how = Top.how
    BY <2>2, <2>4 DEF Frame
  <2>6. stack' = SetTop(stack, f)
    BY <2>1, <2>4
  <2>7. Traced(stack') /\ OpenIds(stack') = OpenIds(stack) /\ Turn(stack') = Turn(stack)
    BY <1>1, <2>1, <2>2, <2>5, <2>6, SetTrace DEF Opened
  <2>8. Own' = Own
    BY <2>1, OwnUnmoved
  <2> QED BY <2>1, <2>7, <2>8, PlainTells
<1>4. CASE Stop \/ Start("start", "in") \/ Start("once", "stopping")
  <2>1. UNCHANGED <<posts, handed, events, stack>> /\ UNCHANGED listVars
    BY <1>4 DEF Stop, Start
  <2>2. Own' = Own
    BY <2>1, OwnUnmoved
  <2> QED BY <1>2, <2>1, <2>2
<1>5. ASSUME NEW c \in Clients, FlushPending(c) \/ NotifyRemove(c) PROVE Tells /\ Told'
  <2>1. UNCHANGED <<posts, handed, events, stack>> /\ Flush(c)
    BY <1>5 DEF FlushPending, NotifyRemove, RemoveClient
  <2>2. Own' = [Own EXCEPT ![c] = <<>>]
    BY <1>1, <2>1, OwnFlushed
  <2> QED BY <1>2, <2>1, <2>2
<1>6. ASSUME NEW c \in Clients, NEW type \in Funcs, SetFunc(c, type) PROVE Tells /\ Told'
  <2>1. UNCHANGED <<posts, handed, events, stack>> /\ UNCHANGED listVars
    BY <1>6 DEF SetFunc
  <2>2. Own' = Own
    BY <2>1, OwnUnmoved
  <2> QED BY <1>2, <2>1, <2>2
<1>7. ASSUME NEW c \in Clients, NEW type \in Funcs, UnsetFunc(c, type) PROVE Tells /\ Told'
  <2>1. UNCHANGED <<posts, handed, events, stack>> /\ FlushKinds(c, KindsOf(type))
    BY <1>7 DEF UnsetFunc
  <2>2. PICK kinds : kinds = KindsOf(type)
    OBVIOUS
  <2>3. kinds \in SUBSET Kinds /\ ("event" \notin kinds \/ kinds = {"event"})
    <3>1. type = "safe" => kinds = {"event"}
      BY <2>2 DEF KindsOf
    <3>2. type = "immediate" => kinds = {}
      BY <2>2 DEF KindsOf
    <3>3. type = "destroy" => kinds = Destroy
      BY <2>2 DEF KindsOf
    <3>4. type \in Detected => kinds = {type}
      BY <2>2 DEF KindsOf, Detected
    <3> QED BY <3>1, <3>2, <3>3, <3>4 DEF Funcs, Kinds, Detected, Destroy
  <2>4. FlushKinds(c, kinds)
    BY <2>1, <2>2
  <2>5. Own' = Own \/ Own' = [Own EXCEPT ![c] = <<>>]
    BY <1>1, <2>3, <2>4, OwnFlushedKinds
  <2> QED BY <1>2, <2>1, <2>5
<1>8. ASSUME NEW c \in Clients, NEW kind \in Detected, Detect(c, kind) PROVE Tells /\ Told'
  <2>1. /\ UNCHANGED <<posts, handed, events, stack>>
        /\ Enqueue(c, [kind |-> kind, code |-> 0, id |-> 0]) \/ Expire(c, kind)
    BY <1>8 DEF Detect
  <2>2. ASSUME Enqueue(c, [kind |-> kind, code |-> 0, id |-> 0]) PROVE Own' = Own
    <3> DEFINE x == [kind |-> kind, code |-> 0, id |-> 0]
    <3>1. x \in Condition /\ x.kind # "event" /\ Enqueue(c, x)
      BY <2>2, ConditionsMade DEF Kinds, Detected
    <3> HIDE DEF x
    <3> QED BY <1>1, <3>1, OwnEnqueued
  <2>3. Own' = Own
    BY <1>1, <2>1, <2>2, OwnExpired
  <2> QED BY <1>2, <2>1, <2>3
<1> QED BY <1>3, <1>4, <1>5, <1>6, <1>7, <1>8

(* Every step.                                                             *)
LEMMA TellsStep ==
  ASSUME Base, Lists', Told, DistinctCodes, CopiesKept, Next
  PROVE  Tells /\ Told'
<1>1. CASE Notifier
  BY <1>1, DispatcherTells, NotifyEventTells, NotifyOtherTells, EndCopyTells DEF Notifier
<1>2. CASE Returns
  BY <1>2, ReturnsTell
<1>3. CASE Clientele
  BY <1>3, PostTells, PostAsyncTells, DestroyTells, OthersTell, IgnoreTells DEF Clientele
<1> QED BY <1>1, <1>2, <1>3 DEF Next

(* The invariant holds at first.                                           *)
LEMMA ToldAtFirst ==
  ASSUME Init
  PROVE  Told /\ Undecided = {} /\ posts = 0 /\ \A c \in Clients : Own[c] = <<>>
<1> DEFINE e == <<>>
<1>1. /\ stack = e /\ events = e /\ posts = 0 /\ queue = [c \in Clients |-> e] /\ handed = [c \in Clients |-> e]
  BY DEF Init
<1>2. DOMAIN e = {} /\ Range(e) = {} /\ OfKinds(e, {"event"}) = e
  BY NothingIn, OfKindsEmpty
<1> HIDE DEF e
<1>3. Undecided = {} /\ Turn(stack) = {} /\ Traced(stack)
  BY <1>1, <1>2 DEF Undecided, Turn, Traced
<1>4. \A c \in Clients : Own[c] = e /\ handed[c] = e
  BY <1>1, <1>2 DEF Own, EventsOf
<1>5. Ledger
  <2>1. \A c \in Clients : EventsApart(c)
    BY <1>2, <1>3, <1>4 DEF EventsApart, Known, IdsApart, EachOnce, IdsIn
  <2>2. Known(events) /\ (\A id \in Undecided : id \notin IdsIn(events)) /\ Undecided \subseteq 1..posts
    BY <1>1, <1>2, <1>3 DEF Known, IdsIn
  <2> QED BY <2>1, <2>2 DEF Ledger
<1> QED BY <1>1, <1>3, <1>4, <1>5 DEF Told, e

(* And is kept when nothing changes.                                       *)
LEMMA ToldUnchanged ==
  ASSUME Told, UNCHANGED vars
  PROVE  Told'
<1>1. Own' = Own /\ Undecided' = Undecided /\ UNCHANGED <<handed, posts, events, stack>>
  BY DEF vars, listVars, budgets, Own, EventsOf, Undecided
<1>2. Ledger'
  BY <1>1 DEF Told, Ledger, EventsApart, Known, IdsApart, EachOnce, IdsIn, Range
<1>3. Traced(stack)' /\ Turn(stack)' = Turn(stack)
  BY <1>1, TracedIs DEF Told
<1>4. (\A f \in Turn(stack) : InTurn(f))'
  BY <1>1, <1>3 DEF Told, InTurn, Ahead, Range
<1> QED BY <1>2, <1>3, <1>4 DEF Told

(* In every state an event is either waiting, handed over or undecided,    *)
(* each once; and what is left in the arrays of the notify_client in turn  *)
(* are the first events of the queue, in their order, or none that waits:  *)
(* whatever flushing, removing, posting and dispatching is nested in the   *)
(* calls.                                                                  *)
THEOREM ToldAlways ==
  ASSUME DistinctCodes, CopiesKept
  PROVE  Spec => []Told
<1>1. Init => Told
  BY ToldAtFirst
<1>2. Base /\ Base' /\ Told /\ [Next]_vars => Told'
  <2>1. ASSUME Base, Base', Told, Next PROVE Told'
    BY <2>1, TellsStep DEF Base
  <2>2. ASSUME Told, UNCHANGED vars PROVE Told'
    BY <2>2, ToldUnchanged
  <2> QED BY <2>1, <2>2
<1> QED BY <1>1, <1>2, BaseAlways, PTL DEF Spec

(* No event is handed to a client a second time (notify_event,             *)
(* ndet_p_event), although the arrays may be those of another activation,  *)
(* if no two events have the same code and no copy function is overtaken.  *)
THEOREM NeverHandedTwice ==
  ASSUME DistinctCodes, CopiesKept
  PROVE  Spec => []HandedOnce
<1>1. Told => HandedOnce
  BY DEF Told, Ledger, EventsApart, EachOnce, HandedOnce
<1> QED BY <1>1, ToldAlways, PTL

(* A pending event has the code it was posted with (ndet_p_event, the copy *)
(* function), under the same assumptions: the run that refutes EventIntact *)
(* has copy functions and asynchronous posts.                              *)
THEOREM EventsStayIntact ==
  ASSUME DistinctCodes, CopiesKept
  PROVE  Spec => []EventIntact
<1>1. ASSUME Base, Told PROVE EventIntact
  <2> SUFFICES ASSUME NEW c \in Clients, NEW p \in DOMAIN queue[c], queue[c][p].kind = "event"
               PROVE  queue[c][p].code = CodeOf[queue[c][p].id]
    BY DEF EventIntact
  <2>1. Lists
    BY <1>1 DEF Base
  <2>2. queue[c][p] \in Range(queue[c])
    BY DEF Range
  <2>3. queue[c][p] \in Range(Own[c])
    BY <2>1, <2>2, OwnIs
  <2>4. Known(Own[c])
    BY <1>1 DEF Told, Ledger, EventsApart
  <2> QED BY <2>3, <2>4 DEF Known
<1> QED BY <1>1, BaseAlways, ToldAlways, PTL

(* While notify_client is on top, only it makes calls.                     *)
LEMMA OnlyClient ==
  ASSUME Next, At("client")
  PROVE  \/ LeaveClient \/ NotifyEvent \/ EventsDone \/ NotifyOther
         \/ stack' = stack
<1>1. stack # <<>> /\ Top.f = "client"
  BY DEF At
<1>2. ~ MayCall
  BY <1>1 DEF MayCall, At
<1>3. CASE Notifier
  BY <1>1, <1>3 DEF Notifier, ScheduleNext, LeaveDispatch, EndCopy, Dispatch, At
<1>4. CASE Returns
  BY <1>1, <1>4 DEF Returns, ReturnEvent, ReturnDetected, ReturnChecked, ReturnDestroyed, At
<1>5. CASE Clientele
  <2>1. ~ Veto /\ ~ Stop /\ ~ Ignore /\ ~ Start("start", "in") /\ ~ Start("once", "stopping")
    BY <1>1, <1>2 DEF Veto, Stop, MayCallOnce, Ignore, Start, At
  <2>2. ASSUME NEW c \in Clients, NEW hint, Post(c, hint) PROVE FALSE
    BY <1>2, <2>2 DEF Post
  <2>3. ASSUME NEW c \in Clients, PostAsync(c) PROVE stack' = stack
    BY <1>1, <2>3 DEF PostAsync, At
  <2>4. ASSUME NEW c \in Clients, NEW status, DestroyNow(c, status) \/ DestroyLater(c, status) PROVE FALSE
    BY <1>2, <2>4 DEF DestroyNow, DestroyLater, MayCallOnce
  <2>5. ASSUME NEW c \in Clients, FlushPending(c) \/ NotifyRemove(c) PROVE FALSE
    BY <1>2, <2>5 DEF FlushPending, NotifyRemove, MayCallOnce
  <2>6. ASSUME NEW c \in Clients, NEW type, SetFunc(c, type) \/ UnsetFunc(c, type) PROVE FALSE
    BY <1>2, <2>6 DEF SetFunc, UnsetFunc, MayCallOnce
  <2>7. ASSUME NEW c \in Clients, NEW kind, Detect(c, kind) PROVE FALSE
    BY <1>1, <2>7 DEF Detect
  <2> QED BY <1>5, <2>1, <2>2, <2>3, <2>4, <2>5, <2>6, <2>7 DEF Clientele
<1> QED BY <1>3, <1>4, <1>5 DEF Next

(* What it hands over was waiting.                                         *)
LEMMA HandedIsPending ==
  ASSUME Base, Told, DistinctCodes, Next, At("client"), Len(stack') > Len(stack), Last(stack').kind = "event"
  PROVE  \E p \in DOMAIN queue[Top.c] : queue[Top.c][p].id = Last(stack').id
<1>1. /\ stack # <<>> /\ Top = Last(stack) /\ Top \in Frame /\ Top.f = "client" /\ Top.c \in Clients
      /\ Top.bits \in SUBSET Kinds /\ Top.i \in Nat \ {0} /\ NestedIn(Below) /\ Below # <<>> /\ Last(Below).f = "sched"
  BY TopClientIs DEF Top
<1>2. stack \in Seq(Frame) /\ Len(stack) \in Nat /\ Below \in Seq(Frame) /\ Len(Below) = Len(stack) - 1
  <2>1. stack \in Seq(Frame)
    BY StackIsTraced
  <2> QED BY <1>1, <2>1, FrontAndLast DEF Below
<1>3. ASSUME NEW f \in Frame, stack' = SetTop(stack, f) \/ stack' = Append(Below, f) \/ stack' = SetTop(Below, f)
      PROVE  FALSE
  <2>1. Len(stack') = Len(stack) \/ Len(stack') = Len(Below)
    BY <1>1, <1>2, <1>3, Lengths
  <2> QED BY <1>2, <2>1
<1>4. ~ LeaveClient
  <2>1. ASSUME LeaveClient, eventQueued /\ Top.c \in Range(order) PROVE FALSE
    <3>1. PICK c \in Clients : c = Top.c
      BY <1>1
    <3>2. Visit(c, Below)
      BY <2>1, <3>1 DEF LeaveClient
    <3>3. Lists
      BY StackIsTraced
    <3>4. \E f \in Frame : stack' = Append(Below, f)
      BY <3>2, <3>3, VisitFrame
    <3> QED BY <1>3, <3>4
  <2>2. ASSUME LeaveClient, ~ (eventQueued /\ Top.c \in Range(order)) PROVE FALSE
    <3>1. Advance(Below)
      BY <2>2 DEF LeaveClient
    <3>2. \E f \in Frame : stack' = SetTop(Below, f)
      BY <1>1, <3>1, AdvanceFrame
    <3> QED BY <1>3, <3>2
  <2> QED BY <2>1, <2>2
<1>5. ~ EventsDone
  <2> SUFFICES ASSUME EventsDone PROVE FALSE
    OBVIOUS
  <2>1. PICK bits \in SUBSET Kinds : bits = Top.bits \ {"event"}
    BY <1>1
  <2>2. LET h == [Top EXCEPT !.bits = bits] IN h \in Frame
    BY <1>1, ClientChanged
  <2>3. stack' = SetTop(stack, [Top EXCEPT !.bits = bits])
    BY <2>1 DEF EventsDone
  <2> QED BY <1>3, <2>2, <2>3
<1>6. ~ NotifyOther
  <2> SUFFICES ASSUME NotifyOther PROVE FALSE
    OBVIOUS
  <2>1. PICK kind \in Kinds : kind = First(Top.bits) /\ kind # "event"
    <3>1. Top.bits # {} /\ First(Top.bits) # "event"
      BY DEF NotifyOther
    <3> QED BY <1>1, <3>1, FirstOfBits
  <2>2. /\ Without(Top.bits, kind) \in SUBSET Kinds /\ Without(Top.bits, kind) \ {kind} \in SUBSET Kinds
    BY <1>1, <2>1, WithoutIs
  <2>3. \A bits \in SUBSET Kinds : [Top EXCEPT !.bits = bits] \in Frame
    BY <1>1, FramesChanged
  <2>4. \/ stack' = SetTop(stack, [Top EXCEPT !.bits = Without(Top.bits, kind) \ {kind}])
        \/ stack' = Append(SetTop(stack, [Top EXCEPT !.bits = Without(Top.bits, kind)]), Activated(Top.c, kind, 0, "queued"))
    BY <2>1 DEF NotifyOther
  <2>5. CASE stack' = SetTop(stack, [Top EXCEPT !.bits = Without(Top.bits, kind) \ {kind}])
    BY <1>3, <2>2, <2>3, <2>5
  <2>6. CASE stack' = Append(SetTop(stack, [Top EXCEPT !.bits = Without(Top.bits, kind)]), Activated(Top.c, kind, 0, "queued"))
    <3>1. LET f == Activated(Top.c, kind, 0, "queued") IN f \in Frame /\ f.kind = kind
      BY <1>1, QueuedIs
    <3>2. PICK f \in Frame : f = Activated(Top.c, kind, 0, "queued") /\ f.kind = kind
      BY <3>1
    <3>3. PICK g \in Frame : g = [Top EXCEPT !.bits = Without(Top.bits, kind)]
      BY <2>2, <2>3
    <3>4. SetTop(stack, g) \in Seq(Frame)
      BY <1>1, <1>2, RangesAre
    <3>5. PICK next \in Seq(Frame) : next = SetTop(stack, g)
      BY <3>4
    <3>6. stack' = Append(next, f)
      BY <2>6, <3>2, <3>3, <3>5
    <3>7. Last(stack') = f
      BY <3>6, LastOfAppend
    <3> QED BY <2>1, <3>2, <3>7
  <2> QED BY <2>4, <2>5, <2>6
<1>7. NotifyEvent
  BY <1>2, <1>4, <1>5, <1>6, OnlyClient
<1> DEFINE event == events[Top.i]
           m == Matching(Top.c, "event", event.code)
<1>8. EventsTurn /\ Top.i <= Len(events)
  BY <1>7 DEF NotifyEvent
<1>9. /\ event.id \in Ids
      /\ \A p \in m : p \in DOMAIN queue[Top.c] /\ queue[Top.c][p].id = event.id
  BY <1>8, DueIs
<1>10. PICK i \in Nat \ {0} : i = Top.i + 1
  BY <1>1
<1>11. PICK g \in Frame : g = [Top EXCEPT !.i = i]
  BY <1>1, FramesChanged
<1>12. /\ m = {} => stack' = SetTop(stack, g)
       /\ m # {} => stack' = Append(SetTop(stack, g), Activated(Top.c, "event", event.id, "queued"))
  <2>1. IF m = {} THEN stack' = SetTop(stack, [Top EXCEPT !.i = Top.i + 1])
        ELSE stack' = Append(SetTop(stack, [Top EXCEPT !.i = Top.i + 1]), Activated(Top.c, "event", event.id, "queued"))
    BY <1>7 DEF NotifyEvent
  <2> QED BY <1>10, <1>11, <2>1
<1>13. m # {}
  BY <1>3, <1>12
<1>14. LET f == Activated(Top.c, "event", event.id, "queued") IN f \in Frame /\ f.id = event.id
  <2>1. "event" \in Kinds /\ event.id \in Ids \cup {0}
    BY <1>9 DEF Kinds
  <2> QED BY <1>1, <2>1, QueuedIs
<1>15. PICK f \in Frame : f = Activated(Top.c, "event", event.id, "queued") /\ f.id = event.id
  BY <1>14
<1>16. SetTop(stack, g) \in Seq(Frame)
  BY <1>1, <1>2, RangesAre
<1>17. PICK next \in Seq(Frame) : next = SetTop(stack, g)
  BY <1>16
<1>18. stack' = Append(next, f)
  BY <1>12, <1>13, <1>15, <1>17
<1>19. Last(stack') = f
  BY <1>18, LastOfAppend
<1> QED BY <1>9, <1>13, <1>15, <1>19

(* A queued event that is handed over was still pending: what was flushed  *)
(* in the meantime is skipped (notify_event's ntfy_find_condition), under  *)
(* the same assumptions.                                                   *)
THEOREM HandsWhatPends ==
  ASSUME DistinctCodes, CopiesKept
  PROVE  Spec => HandsPending
<1>1. Base /\ Told /\ [Next]_vars =>
        [At("client") /\ Len(stack') > Len(stack) /\ Last(stack').kind = "event"
           => \E p \in DOMAIN queue[Top.c] : queue[Top.c][p].id = Last(stack').id]_vars
  BY HandedIsPending
<1> QED BY <1>1, BaseAlways, ToldAlways, PTL DEF Spec, HandsPending

-----------------------------------------------------------------------------
(* The refinement of EventDelivery.                                        *)

(* What EventDelivery sees of the state.                                   *)
IdsOf(s) == [i \in DOMAIN s |-> s[i].id]
Taken == (1..posts) \ Undecided
Pending == [c \in Clients |-> IdsOf(Own[c])]

(* The numbers of events, for sequences that grow and shrink.              *)
LEMMA IdsAre ==
  ASSUME NEW s \in Seq(Condition)
  PROVE  /\ s = <<>> => IdsOf(s) = <<>>
         /\ \A x \in Condition : IdsOf(Append(s, x)) = Append(IdsOf(s), x.id)
         /\ s # <<>> => IdsOf(s) # <<>> /\ Head(IdsOf(s)) = Head(s).id /\ IdsOf(Tail(s)) = Tail(IdsOf(s))
<1> DEFINE I == {x.id : x \in Condition}
<1>1. ASSUME NEW r \in Seq(Condition)
      PROVE  /\ IdsOf(r) \in Seq(I) /\ Len(IdsOf(r)) = Len(r) /\ Len(r) \in Nat
             /\ \A i \in 1..Len(r) : IdsOf(r)[i] = r[i].id
  BY DEF IdsOf
<1>2. s = <<>> => IdsOf(s) = <<>>
  <2>1. DOMAIN <<>> = {}
    OBVIOUS
  <2>2. IdsOf(s) \in Seq(I) /\ Len(IdsOf(s)) = Len(s)
    BY <1>1
  <2> HIDE DEF I
  <2>3. s = <<>> => Len(s) = 0
    OBVIOUS
  <2> QED BY <2>2, <2>3, RangeIs
<1>3. ASSUME NEW x \in Condition PROVE IdsOf(Append(s, x)) = Append(IdsOf(s), x.id)
  <2> DEFINE t == Append(s, x)
             a == IdsOf(t)
             b == Append(IdsOf(s), x.id)
  <2>1. /\ t \in Seq(Condition) /\ Len(t) = Len(s) + 1 /\ t[Len(s) + 1] = x /\ \A i \in 1..Len(s) : t[i] = s[i]
    OBVIOUS
  <2>2. /\ a \in Seq(I) /\ Len(a) = Len(s) + 1 /\ Len(s) \in Nat /\ \A i \in 1..(Len(s) + 1) : a[i] = t[i].id
    <3> HIDE DEF t
    <3> QED BY <1>1, <2>1
  <2>3. IdsOf(s) \in Seq(I) /\ Len(IdsOf(s)) = Len(s) /\ x.id \in I /\ \A i \in 1..Len(s) : IdsOf(s)[i] = s[i].id
    BY <1>1
  <2> HIDE DEF t, a, I
  <2>4. b \in Seq(I) /\ Len(b) = Len(s) + 1 /\ b[Len(s) + 1] = x.id /\ \A i \in 1..Len(s) : b[i] = IdsOf(s)[i]
    BY <2>3
  <2> HIDE DEF b
  <2>5. \A i \in 1..(Len(s) + 1) : i \in 1..Len(s) \/ i = Len(s) + 1
    BY <2>2
  <2>6. \A i \in 1..Len(a) : a[i] = b[i]
    BY <2>1, <2>2, <2>3, <2>4, <2>5
  <2>7. a = b
    BY <2>2, <2>4, <2>6, SameSequence
  <2> QED BY <2>7 DEF a, b, t
<1>4. ASSUME s # <<>>
      PROVE  IdsOf(s) # <<>> /\ Head(IdsOf(s)) = Head(s).id /\ IdsOf(Tail(s)) = Tail(IdsOf(s))
  <2> DEFINE t == Tail(s)
             a == IdsOf(t)
             n == Len(s)
             d == IdsOf(s)
             b == Tail(d)
  <2>1. n \in Nat /\ n # 0 /\ t \in Seq(Condition) /\ Len(t) = n - 1 /\ Head(s) = s[1] /\ \A i \in 1..(n - 1) : t[i] = s[i + 1]
    BY <1>4
  <2>2. a \in Seq(I) /\ Len(a) = n - 1 /\ \A i \in 1..(n - 1) : a[i] = t[i].id
    <3> HIDE DEF t, n
    <3> QED BY <1>1, <2>1
  <2>3. d \in Seq(I) /\ Len(d) = n /\ \A i \in 1..n : d[i] = s[i].id
    BY <1>1
  <2> HIDE DEF t, a, d, I, n
  <2>4. d # <<>> /\ Head(d) = d[1] /\ b \in Seq(I) /\ Len(b) = n - 1 /\ \A i \in 1..(n - 1) : b[i] = d[i + 1]
    BY <2>1, <2>3
  <2> HIDE DEF b
  <2>5. 1 \in 1..n /\ \A i \in 1..(n - 1) : i + 1 \in 1..n
    BY <2>1
  <2>6. ASSUME NEW i \in 1..Len(a) PROVE a[i] = b[i]
    <3>1. i \in 1..(n - 1) /\ i + 1 \in 1..n
      BY <2>2, <2>5
    <3>2. a[i] = s[i + 1].id
      BY <2>1, <2>2, <3>1
    <3>3. b[i] = d[i + 1] /\ d[i + 1] = s[i + 1].id
      BY <2>3, <2>4, <3>1
    <3> QED BY <3>2, <3>3
  <2>7. a = b
    BY <2>2, <2>4, <2>6, SameSequence
  <2>8. Head(d) = Head(s).id
    BY <2>1, <2>3, <2>4, <2>5
  <2> QED BY <2>4, <2>7, <2>8 DEF a, b, d, t
<1> QED BY <1>2, <1>3, <1>4

(* A change of one client's events.                                        *)
LEMMA PendingTo ==
  ASSUME Base, NEW c \in Clients, NEW s, Own' = [Own EXCEPT ![c] = s]
  PROVE  Pending' = [Pending EXCEPT ![c] = IdsOf(s)]
<1>1. Own \in [Clients -> Seq(Condition)]
  BY PostsIs
<1> QED BY <1>1 DEF Pending, IdsOf

(* What each kind of step decides.                                         *)
LEMMA TakenTo ==
  ASSUME Base, Told
  PROVE  /\ Quiet => Taken' = Taken
         /\ Opens => Taken' = Taken
         /\ \A c \in Clients, id \in Ids : Decides(c, id) => id \notin Taken /\ Taken' = Taken \cup {id}
         /\ \A c \in Clients : Hands(c) => Taken' = Taken
<1>1. posts \in Nat /\ Undecided \subseteq 1..posts
  BY PostsIs DEF Told, Ledger
<1>2. posts + 1 \notin 1..posts /\ 1..(posts + 1) = (1..posts) \cup {posts + 1}
  BY <1>1
<1>3. Quiet => Taken' = Taken
  BY DEF Quiet, Taken
<1>4. Opens => Taken' = Taken
  BY <1>1, <1>2 DEF Opens, Taken
<1>5. ASSUME NEW c \in Clients, NEW id \in Ids, Decides(c, id) PROVE id \notin Taken /\ Taken' = Taken \cup {id}
  <2>1. CASE posts' = posts + 1 /\ id = posts + 1 /\ Undecided' = Undecided
    BY <1>1, <1>2, <2>1 DEF Taken
  <2>2. CASE posts' = posts /\ id \in Undecided /\ Undecided' = Undecided \ {id}
    BY <1>1, <2>2 DEF Taken
  <2> QED BY <1>5, <2>1, <2>2 DEF Decides
<1>6. \A c \in Clients : Hands(c) => Taken' = Taken
  BY DEF Hands, Taken
<1> QED BY <1>3, <1>4, <1>5, <1>6

(* EventDelivery with these values for its variables.                      *)
LEMMA PromiseIs ==
  /\ Promise!Init <=> Taken = {} /\ Pending = [c \in Clients |-> <<>>] /\ handed = Pending
  /\ Promise!Next <=>
       \/ \E c \in Clients, e \in Ids :
            /\ e \notin Taken /\ Taken' = Taken \cup {e}
            /\ \/ Pending' = [Pending EXCEPT ![c] = Append(Pending[c], e)] /\ handed' = handed
               \/ handed' = [handed EXCEPT ![c] = Append(handed[c], e)] /\ Pending' = Pending
       \/ \E e \in Ids : e \notin Taken /\ Taken' = Taken \cup {e} /\ Pending' = Pending /\ handed' = handed
       \/ \E c \in Clients :
            \/ /\ Pending[c] # <<>> /\ Pending' = [Pending EXCEPT ![c] = Tail(Pending[c])]
               /\ handed' = [handed EXCEPT ![c] = Append(handed[c], Head(Pending[c]))] /\ Taken' = Taken
            \/ Pending' = [Pending EXCEPT ![c] = <<>>] /\ Taken' = Taken /\ handed' = handed
  /\ (UNCHANGED Promise!vars) <=> Taken' = Taken /\ Pending' = Pending /\ handed' = handed
<1>1. Pending = [c \in Clients |-> [i \in DOMAIN EventsOf(c) |-> EventsOf(c)[i].id]]
  BY DEF Pending, IdsOf, Own
<1>2. Pending' = [c \in Clients |-> [i \in DOMAIN EventsOf(c) |-> EventsOf(c)[i].id]]'
  BY DEF Pending, IdsOf, Own
<1> QED BY <1>1, <1>2 DEF Promise!Init, Promise!Next, Promise!vars, Promise!Wait, Promise!HandNow, Promise!Divert,
     Promise!HandNext, Promise!Forget, Taken

(* Every kind of step is one of its actions, or none.                      *)
LEMMA PromiseStep ==
  ASSUME Base, Told, Tells
  PROVE  Promise!Next \/ UNCHANGED Promise!vars
<1>1. Own \in [Clients -> Seq(Condition)] /\ Pending \in [Clients -> {IdsOf(Own[c]) : c \in Clients}]
      /\ \A c \in Clients : Pending[c] = IdsOf(Own[c])
  BY PostsIs DEF Pending
<1>2. ASSUME Own' = Own PROVE Pending' = Pending
  BY <1>2 DEF Pending, IdsOf
<1>3. CASE Quiet
  <2>1. Taken' = Taken /\ handed' = handed
    BY <1>3, TakenTo DEF Quiet
  <2>2. CASE Own' = Own
    BY <1>2, <2>1, <2>2, PromiseIs
  <2>3. ASSUME NEW c \in Clients, Own' = [Own EXCEPT ![c] = <<>>] PROVE Promise!Next
    <3> DEFINE e == <<>>
    <3>1. e \in Seq(Condition) /\ Own' = [Own EXCEPT ![c] = e]
      BY <2>3
    <3> HIDE DEF e
    <3>2. Pending' = [Pending EXCEPT ![c] = IdsOf(e)] /\ IdsOf(<<>>) = <<>>
      BY <3>1, PendingTo, IdsAre DEF e
    <3>3. Pending' = [Pending EXCEPT ![c] = <<>>]
      BY <3>2 DEF e
    <3> QED BY <2>1, <3>3, PromiseIs
  <2> QED BY <1>3, <2>2, <2>3 DEF Quiet
<1>4. CASE Opens
  <2>1. Taken' = Taken /\ handed' = handed /\ Own' = Own
    BY <1>4, TakenTo DEF Opens
  <2> QED BY <1>2, <2>1, PromiseIs
<1>5. ASSUME NEW c \in Clients, NEW id \in Ids, Decides(c, id) PROVE Promise!Next
  <2>1. id \notin Taken /\ Taken' = Taken \cup {id}
    BY <1>5, TakenTo
  <2> DEFINE x == [kind |-> "event", code |-> CodeOf[id], id |-> id]
  <2>2. CASE handed' = handed /\ Own' = [Own EXCEPT ![c] = Append(Own[c], x)]
    <3>1. x \in Condition /\ x.id = id
      BY ConditionsMade DEF Codes
    <3> HIDE DEF x
    <3>2. Pending' = [Pending EXCEPT ![c] = IdsOf(Append(Own[c], x))]
      BY <2>2, PendingTo
    <3>3. IdsOf(Append(Own[c], x)) = Append(Pending[c], id)
      <4>1. Own[c] \in Seq(Condition) /\ Pending[c] = IdsOf(Own[c])
        BY <1>1
      <4>2. IdsOf(Append(Own[c], x)) = Append(IdsOf(Own[c]), x.id)
        BY <3>1, <4>1, IdsAre
      <4> QED BY <3>1, <4>1, <4>2
    <3>4. Pending' = [Pending EXCEPT ![c] = Append(Pending[c], id)]
      BY <3>2, <3>3
    <3> QED BY <2>1, <2>2, <3>4, PromiseIs
  <2>3. CASE Own' = Own /\ handed' = [handed EXCEPT ![c] = Append(handed[c], id)]
    BY <1>2, <2>1, <2>3, PromiseIs
  <2>4. CASE Own' = Own /\ handed' = handed
    BY <1>2, <2>1, <2>4, PromiseIs
  <2> QED BY <1>5, <2>2, <2>3, <2>4 DEF Decides
<1>6. ASSUME NEW c \in Clients, Hands(c) PROVE Promise!Next
  <2>1. /\ Taken' = Taken /\ Own[c] # <<>> /\ Own' = [Own EXCEPT ![c] = Tail(Own[c])]
        /\ handed' = [handed EXCEPT ![c] = Append(handed[c], Head(Own[c]).id)]
    BY <1>6, TakenTo DEF Hands
  <2>2. Pending[c] # <<>> /\ Head(Pending[c]) = Head(Own[c]).id /\ IdsOf(Tail(Own[c])) = Tail(Pending[c])
    <3>1. Own[c] \in Seq(Condition) /\ Pending[c] = IdsOf(Own[c]) /\ Own[c] # <<>>
      BY <1>1, <2>1
    <3>2. IdsOf(Own[c]) # <<>> /\ Head(IdsOf(Own[c])) = Head(Own[c]).id /\ IdsOf(Tail(Own[c])) = Tail(IdsOf(Own[c]))
      BY <3>1, IdsAre
    <3> QED BY <3>1, <3>2
  <2>3. Pending' = [Pending EXCEPT ![c] = IdsOf(Tail(Own[c]))]
    BY <2>1, PendingTo
  <2> QED BY <2>1, <2>2, <2>3, PromiseIs
<1> QED BY <1>3, <1>4, <1>5, <1>6 DEF Tells

(* The dispatcher implements EventDelivery: an event is handed over at     *)
(* most once, those that wait in the order in which they began to, and     *)
(* none is lost but by a call that takes all that wait for the client; for *)
(* all programs in which events have codes of their own and copy functions *)
(* are not overtaken.                                                      *)
THEOREM PromiseIsKept ==
  ASSUME DistinctCodes, CopiesKept
  PROVE  Spec => Delivers
<1>1. Init => Promise!Init
  <2> SUFFICES ASSUME Init PROVE Promise!Init
    OBVIOUS
  <2>1. Undecided = {} /\ posts = 0 /\ \A c \in Clients : Own[c] = <<>>
    BY ToldAtFirst
  <2>2. handed = [c \in Clients |-> <<>>]
    BY DEF Init
  <2> DEFINE e == <<>>
  <2>3. e \in Seq(Condition) /\ IdsOf(e) = e
    <3>1. e \in Seq(Condition) /\ e = <<>>
      OBVIOUS
    <3>2. \A s \in Seq(Condition) : s = <<>> => IdsOf(s) = <<>>
      BY IdsAre
    <3> HIDE DEF e
    <3> QED BY <3>1, <3>2
  <2> HIDE DEF e
  <2>4. \A c \in Clients : Own[c] = e
    BY <2>1 DEF e
  <2>5. Pending = [c \in Clients |-> e]
    BY <2>3, <2>4 DEF Pending
  <2>6. Taken = {}
    BY <2>1 DEF Taken
  <2> QED BY <2>2, <2>5, <2>6, PromiseIs DEF e
<1>2. Base /\ Base' /\ Told /\ [Next]_vars => [Promise!Next]_Promise!vars
  <2>1. ASSUME Base, Base', Told, Next PROVE Promise!Next \/ UNCHANGED Promise!vars
    <3>1. Tells
      BY <2>1, TellsStep DEF Base
    <3> QED BY <2>1, <3>1, PromiseStep
  <2>2. ASSUME Base, UNCHANGED vars PROVE UNCHANGED Promise!vars
    <3>1. Own' = Own /\ Undecided' = Undecided /\ UNCHANGED <<posts, handed>>
      BY <2>2 DEF vars, listVars, budgets, Own, EventsOf, Undecided
    <3>2. Pending' = Pending /\ Taken' = Taken
      BY <3>1 DEF Pending, IdsOf, Taken
    <3> QED BY <3>1, <3>2, PromiseIs
  <2> QED BY <2>1, <2>2
<1> QED BY <1>1, <1>2, BaseAlways, ToldAlways, PTL DEF Spec, Delivers, Promise!Spec

=============================================================================
