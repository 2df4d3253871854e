--------------------------- MODULE InterposerProofs ---------------------------
(***************************************************************************)
(* Proofs about Interposer, for any conditions, functions and node size.   *)
(***************************************************************************)
EXTENDS Interposer, TLAPS, SequenceTheorems

USE DEF Slot

-----------------------------------------------------------------------------
(* Sequences: the last element dropped, one in the middle cut out.          *)

LEMMA DropLast ==
  ASSUME NEW S, NEW s \in Seq(S), s # <<>>
  PROVE  /\ Drop(s) \in Seq(S) /\ Len(Drop(s)) = Len(s) - 1 /\ Len(s) \in Nat \ {0}
         /\ \A i \in 1..(Len(s) - 1) : Drop(s)[i] = s[i]
<1>1. Len(s) \in Nat \ {0}
  BY EmptySeq
<1>2. \A i \in 1..(Len(s) - 1) : s[i] \in S
  BY ElementOfSeq, <1>1
<1>3. /\ Drop(s) \in Seq(S) /\ Len(Drop(s)) = Len(s) - 1
      /\ \A i \in 1..(Len(s) - 1) : Drop(s)[i] = s[1 + i - 1]
  <2> DEFINE n == Len(s) - 1
  <2>1. n \in Nat /\ n - 1 + 1 = n /\ \A i \in 1..n : s[i] \in S
    BY <1>1, <1>2
  <2> HIDE DEF n
  <2>2. /\ SubSeq(s, 1, n) \in Seq(S)
        /\ Len(SubSeq(s, 1, n)) = IF 1 <= n THEN n - 1 + 1 ELSE 0
        /\ \A i \in 1..(n - 1 + 1) : SubSeq(s, 1, n)[i] = s[1 + i - 1]
    BY <2>1, SubSeqProperties
  <2> QED  BY <2>1, <2>2 DEF Drop, n
<1> QED
  BY <1>1, <1>3

LEMMA CutOut ==
  ASSUME NEW S, NEW s \in Seq(S), NEW i \in DOMAIN s
  PROVE  LET r == SubSeq(s, 1, i - 1) \o SubSeq(s, i + 1, Len(s))
         IN  r \in Seq(S) /\ \A j \in DOMAIN r : \E k \in DOMAIN s : r[j] = s[k]
<1> DEFINE a == SubSeq(s, 1, i - 1)
           b == SubSeq(s, i + 1, Len(s))
<1>1. i \in 1..Len(s) /\ Len(s) \in Nat
  BY LenProperties
<1>2. \A k \in 1..Len(s) : s[k] \in S
  BY ElementOfSeq
<1>3. a \in Seq(S) /\ Len(a) = i - 1 /\ \A j \in 1..(i - 1) : a[j] = s[j]
  BY <1>1, <1>2, SubSeqProperties
<1>4. b \in Seq(S) /\ Len(b) = Len(s) - i
      /\ \A j \in 1..(Len(s) - i) : b[j] = s[i + j]
  BY <1>1, <1>2, SubSeqProperties
<1> HIDE DEF a, b
<1>5. a \o b \in Seq(S) /\ Len(a \o b) = Len(s) - 1
  BY <1>1, <1>3, <1>4, ConcatProperties
<1>6. ASSUME NEW j \in DOMAIN (a \o b)
      PROVE  \E k \in DOMAIN s : (a \o b)[j] = s[k]
  <2>1. j \in 1..(Len(s) - 1)
    BY <1>5, LenProperties
  <2>2. CASE j <= i - 1
    <3>1. (a \o b)[j] = a[j]
      BY <2>1, <2>2, <1>1, <1>3, <1>4, ConcatProperties
    <3>2. j \in DOMAIN s /\ a[j] = s[j]
      BY <2>1, <2>2, <1>1, <1>3
    <3> QED  BY <3>1, <3>2
  <2>3. CASE j > i - 1
    <3>1. (a \o b)[j] = b[j - (i - 1)]
      BY <2>1, <2>3, <1>1, <1>3, <1>4, ConcatProperties
    <3>2. b[j - (i - 1)] = s[i + (j - (i - 1))]
      BY <2>1, <2>3, <1>1, <1>4
    <3>3. i + (j - (i - 1)) \in DOMAIN s
      BY <2>1, <2>3, <1>1
    <3> QED  BY <3>1, <3>2, <3>3
  <2> QED  BY <2>1, <2>2, <2>3, <1>1
<1> QED  BY <1>5, <1>6 DEF a, b

-----------------------------------------------------------------------------
(* What becomes of a list: it stays one, dense and not empty.               *)

Good(d) == d \in Callout /\ d.count > 0 /\ Dense(d)

LEMMA SetGood ==
  ASSUME NEW d \in Callout, Dense(d), NEW f \in Funcs,
         NEW k, k = IF d.count > 0 THEN d.count ELSE 1
  PROVE  Good([count |-> k, slots |-> [d.slots EXCEPT ![k] = f]])
  BY FuncsAssumption DEF Good, Callout, Dense

LEMMA InFrontGood ==
  ASSUME NEW d, Good(d), d.count < FuncsMax, NEW f \in Funcs
  PROVE  Good(InFront(d, f))
  BY FuncsAssumption DEF Good, Callout, Dense, InFront

LEMMA WithoutGood ==
  ASSUME NEW d, Good(d), d.count # 1, NEW f \in Funcs, NEW i \in Listed(d, f)
  PROVE  Good(Without(d, i))
<1> USE FuncsAssumption DEF Good, Callout, Dense, Listed
<1>1. CASE d.count = 2
  BY <1>1 DEF Without
<1>2. CASE d.count # 2
  BY <1>2 DEF Without
<1> QED  BY <1>1, <1>2

LEMMA UnsetType == Unset \in Callout /\ Unset.count = 0 /\ Dense(Unset)
  BY FuncsAssumption DEF Unset, Callout, Dense

-----------------------------------------------------------------------------
(* The initial states, and the steps that leave both stacks alone.          *)

LEMMA InitIInv == Init => IInv
<1> SUFFICES ASSUME Init PROVE IInv
  OBVIOUS
<1> USE DEF Init
<1>1. TypeOK
  BY UnsetType, FuncsAssumption, BoundsAssumption, EmptySeq DEF TypeOK
<1>2. ListDense /\ FramesSet
  BY UnsetType DEF ListDense, FramesSet
<1>3. /\ LevelsExist /\ LevelsRise /\ StackMatches
      /\ CalloutsFollowSnapshot /\ CallersPassed /\ IndexFollows
  BY DEF LevelsExist, LevelsRise, StackMatches, CalloutsFollowSnapshot, CallersPassed, IndexFollows
<1> QED  BY <1>1, <1>2, <1>3 DEF IInv, WInv

(* What the invariant says of the lists alone, in one place.                *)
ListsGood == /\ \A c \in Conds : detector[c] \in Callout /\ Dense(detector[c])
             /\ \A c \in Conds : /\ queue[c] \in Seq(Callout)
                                 /\ \A i \in DOMAIN queue[c] : Good(queue[c][i])

LEMMA ListsFromInv == WInv => ListsGood
  BY LenProperties, ElementOfSeq
     DEF WInv, TypeOK, ListDense, FramesSet, ListsGood, Good

LEMMA QuietStep ==
  ASSUME WInv, UNCHANGED <<stack, calls>>,
         detector' \in [Conds -> Callout], queue' \in [Conds -> Seq(Callout)],
         ListsGood', ops' \in 0..MaxOps,
         errno' \in {"ok", "no_condition", "func_limit", "inval", "aborted"}
  PROVE  WInv' /\ (IInv => IInv')
<1>1. TypeOK'
  BY DEF WInv, TypeOK
<1>2. ListDense' /\ FramesSet'
  BY DEF WInv, ListDense, FramesSet, ListsGood, Good
<1>3. LevelsExist' /\ LevelsRise' /\ StackMatches'
  BY DEF WInv, LevelsExist, LevelsRise, StackMatches, Running
<1>4. CalloutsFollowSnapshot /\ CallersPassed /\ IndexFollows
        => CalloutsFollowSnapshot' /\ CallersPassed' /\ IndexFollows'
  BY DEF CalloutsFollowSnapshot, CallersPassed, IndexFollows
<1> QED  BY <1>1, <1>2, <1>3, <1>4 DEF WInv, IInv

LEMMA QuietCases ==
  ASSUME WInv, NEW c \in Conds,
         UnsetError(c) \/ UnsetFunc(c) \/ Enqueue(c) \/ NextFails(c)
  PROVE  WInv' /\ (IInv => IInv')
<1> USE ListsFromInv, BoundsAssumption DEF WInv, TypeOK
<1>1. CASE UnsetError(c) \/ NextFails(c)
  BY <1>1, QuietStep DEF UnsetError, NextFails, Change, Fail, ListsGood
<1>2. CASE UnsetFunc(c)
  <2> USE <1>2 DEF UnsetFunc, Change
  <2>1. detector' \in [Conds -> Callout] /\ queue' \in [Conds -> Seq(Callout)]
    BY UnsetType, EmptySeq
  <2>2. ListsGood'
    BY UnsetType, EmptySeq DEF ListsGood
  <2> QED  BY <2>1, <2>2, QuietStep
<1>3. CASE Enqueue(c)
  <2> USE <1>3 DEF Enqueue
  <2> DEFINE q == Append(queue[c], detector[c])
  <2>1. Good(detector[c])
    BY DEF Good, IsSet, ListsGood
  <2>2. q \in Seq(Callout) /\ \A i \in DOMAIN q : Good(q[i])
    <3>1. /\ q \in Seq(Callout) /\ Len(q) = Len(queue[c]) + 1
          /\ \A i \in 1..Len(queue[c]) : q[i] = queue[c][i]
          /\ q[Len(queue[c]) + 1] = detector[c]
      BY AppendProperties DEF ListsGood
    <3>2. \A i \in 1..(Len(queue[c]) + 1) : Good(q[i])
      BY <3>1, <2>1, LenProperties DEF ListsGood
    <3> QED  BY <3>1, <3>2, LenProperties
  <2>3. queue' \in [Conds -> Seq(Callout)] /\ queue' = [queue EXCEPT ![c] = q]
    BY <2>2
  <2> HIDE DEF q
  <2>4. ListsGood'
    BY <2>2, <2>3 DEF ListsGood
  <2> QED  BY <2>3, <2>4, QuietStep
<1> QED  BY <1>1, <1>2, <1>3

LEMMA ChangeStep ==
  ASSUME WInv, NEW c \in Conds, NEW f \in Funcs,
         SetFunc(c, f) \/ InterposeFunc(c, f) \/ RemoveFunc(c, f)
  PROVE  WInv' /\ (IInv => IInv')
<1> USE ListsFromInv, BoundsAssumption DEF WInv, TypeOK
<1>4. ASSUME NEW d, Good(d), detector' = [detector EXCEPT ![c] = d], Change,
             UNCHANGED <<queue, stack, calls, errno>>
      PROVE  WInv' /\ (IInv => IInv')
  <2>1. detector' \in [Conds -> Callout]
    BY <1>4 DEF Good
  <2>2. ListsGood'
    BY <1>4 DEF ListsGood, Good
  <2> QED  BY <1>4, <2>1, <2>2, QuietStep DEF Change
<1>5. CASE SetFunc(c, f)
  <2> DEFINE k == IF detector[c].count > 0 THEN detector[c].count ELSE 1
             d == [count |-> k, slots |-> [detector[c].slots EXCEPT ![k] = f]]
  <2>1. Good(d)
    BY SetGood DEF ListsGood
  <2>2. detector' = [detector EXCEPT ![c] = d]
    BY <1>5 DEF SetFunc, IsSet, Callout
  <2> QED  BY <1>4, <1>5, <2>1, <2>2 DEF SetFunc
<1>6. CASE InterposeFunc(c, f)
  <2> USE <1>6 DEF InterposeFunc
  <2>1. CASE detector[c].count < FuncsMax /\ detector' = [detector EXCEPT ![c] = InFront(detector[c], f)]
             /\ UNCHANGED <<queue, stack, calls, errno>>
    <3>1. Good(InFront(detector[c], f))
      BY <2>1, InFrontGood DEF IsSet, ListsGood, Good
    <3> QED  BY <1>4, <2>1, <3>1
  <2>2. CASE Fail("aborted") \/ Fail("func_limit")
    BY <2>2, QuietStep DEF Change, Fail, ListsGood
  <2> QED  BY <2>1, <2>2
<1>7. CASE RemoveFunc(c, f)
  <2> USE <1>7 DEF RemoveFunc
  <2>1. CASE detector[c].count = 1
    BY <2>1, QuietStep DEF Change, Fail, ListsGood
  <2>2. CASE detector[c].count # 1 /\ UNCHANGED detector
    <3>1. UNCHANGED <<detector, queue, stack, calls, errno>> /\ ops' \in 0..MaxOps
      BY <2>2 DEF Change
    <3>2. ListsGood'
      BY <3>1 DEF ListsGood
    <3> QED  BY <3>1, <3>2, QuietStep
  <2>3. CASE /\ detector[c].count # 1
             /\ \E i \in Listed(detector[c], f) :
                  detector' = [detector EXCEPT ![c] = Without(detector[c], i)]
    <3>1. PICK i \in Listed(detector[c], f) :
            detector' = [detector EXCEPT ![c] = Without(detector[c], i)]
      BY <2>3
    <3>2. Good(Without(detector[c], i))
      BY <2>3, WithoutGood DEF IsSet, ListsGood, Good
    <3> QED  BY <1>4, <2>3, <3>1, <3>2
  <2> QED  BY <2>1, <2>2, <2>3
<1> QED  BY <1>5, <1>6, <1>7

-----------------------------------------------------------------------------
(* Steps that grow or shrink the two stacks.                                *)

LEMMA PushStep ==
  ASSUME WInv, NEW c \in Conds, NEW d, Good(d), Push(c, d),
         UNCHANGED <<detector, errno, ops>>,
         queue' \in [Conds -> Seq(Callout)], ListsGood'
  PROVE  WInv' /\ (IInv => IInv')
<1> USE FuncsAssumption
<1> DEFINE fr == [cond |-> c, callout |-> d, next |-> 1]
           a  == Called(Len(stack) + 1, 1, d.slots[1])
<1>1. /\ stack \in Seq(Frame) /\ calls \in Seq(Activation)
      /\ Len(stack) \in Nat /\ Len(calls) \in Nat
      /\ DOMAIN stack = 1..Len(stack) /\ DOMAIN calls = 1..Len(calls)
  BY LenProperties DEF WInv, TypeOK
<1>2. fr \in Frame /\ a \in Activation
  BY <1>1 DEF Good, Frame, Activation, Called, Dense, Callout
<1>3. /\ stack' \in Seq(Frame) /\ Len(stack') = Len(stack) + 1
      /\ \A k \in 1..Len(stack) : stack'[k] = stack[k]
      /\ stack'[Len(stack) + 1] = fr
      /\ DOMAIN stack' = 1..(Len(stack) + 1)
  BY <1>1, <1>2, AppendProperties, LenProperties DEF Push
<1>4. /\ calls' \in Seq(Activation) /\ Len(calls') = Len(calls) + 1
      /\ \A k \in 1..Len(calls) : calls'[k] = calls[k]
      /\ calls'[Len(calls) + 1] = a
      /\ DOMAIN calls' = 1..(Len(calls) + 1)
  BY <1>1, <1>2, AppendProperties, LenProperties DEF Push
<1>5. /\ fr.cond = c /\ fr.callout = d /\ fr.next = 1
      /\ a.level = Len(stack) + 1 /\ a.pos = 1 /\ a.fn = d.slots[1] /\ a.passed = FALSE
  BY DEF Called
<1> HIDE DEF fr, a
<1>6. TypeOK'
  BY <1>3, <1>4 DEF WInv, TypeOK
<1>7. ListDense' /\ FramesSet'
  <2>1. ASSUME NEW k \in DOMAIN stack'
        PROVE  Dense(stack'[k].callout) /\ stack'[k].callout.count > 0
    <3>1. CASE k <= Len(stack)
      BY <3>1, <1>1, <1>3 DEF WInv, ListDense, FramesSet
    <3>2. CASE k = Len(stack) + 1
      BY <3>2, <1>3, <1>5 DEF Good
    <3> QED  BY <3>1, <3>2, <1>1, <1>3
  <2> QED  BY <2>1 DEF ListDense, FramesSet, ListsGood, Good
<1>8. LevelsExist' /\ LevelsRise'
  <2>1. LevelsExist'
    BY <1>1, <1>3, <1>4, <1>5 DEF WInv, LevelsExist
  <2>2. \A i \in 1..Len(calls) : calls[i].level \in 1..Len(stack)
    BY <1>1 DEF WInv, LevelsExist
  <2>3. \A i, j \in 1..Len(calls) : i <= j => calls'[i].level <= calls'[j].level
    BY <1>1, <1>4 DEF WInv, LevelsRise
  <2>4. ASSUME NEW i \in DOMAIN calls', NEW j \in DOMAIN calls', i <= j
        PROVE  calls'[i].level <= calls'[j].level
    <3>1. CASE j <= Len(calls)
      BY <2>3, <2>4, <3>1, <1>1, <1>4
    <3>2. CASE j = Len(calls) + 1 /\ i <= Len(calls)
      <4>1. calls'[i].level \in 1..Len(stack)
        BY <2>2, <2>4, <3>2, <1>1, <1>4
      <4> QED  BY <3>2, <4>1, <1>1, <1>4, <1>5
    <3>3. CASE j = Len(calls) + 1 /\ i = Len(calls) + 1
      BY <3>3, <1>1, <1>4, <1>5
    <3> QED  BY <2>4, <3>1, <3>2, <3>3, <1>1, <1>4
  <2> QED  BY <2>1, <2>4 DEF LevelsRise
<1>9. StackMatches'
  <2>1. calls' # <<>> /\ calls'[Len(calls')].level = Len(stack')
    BY <1>1, <1>3, <1>4, <1>5, EmptySeq
  <2>2. ASSUME NEW i \in DOMAIN calls'
        PROVE  LET below == IF i = 1 THEN 0 ELSE calls'[i - 1].level
               IN  calls'[i].level = IF calls'[i].pos = 1 THEN below + 1 ELSE below
    <3>1. CASE i <= Len(calls)
      BY <3>1, <1>1, <1>4 DEF WInv, StackMatches
    <3>2. CASE i = Len(calls) + 1 /\ calls = <<>>
      <4>1. Len(calls) = 0 /\ Len(stack) = 0
        BY <3>2, EmptySeq DEF WInv, StackMatches
      <4> QED  BY <4>1, <3>2, <1>4, <1>5
    <3>3. CASE i = Len(calls) + 1 /\ calls # <<>>
      <4>1. Len(calls) # 0 /\ calls[Len(calls)].level = Len(stack)
        BY <3>3, <1>1, EmptySeq DEF WInv, StackMatches, Running
      <4> QED  BY <4>1, <3>3, <1>1, <1>4, <1>5
    <3> QED  BY <3>1, <3>2, <3>3, <1>1, <1>4
  <2> QED  BY <2>1, <2>2 DEF StackMatches, Running
<1>10. ASSUME CalloutsFollowSnapshot, CallersPassed, IndexFollows
       PROVE  CalloutsFollowSnapshot' /\ CallersPassed' /\ IndexFollows'
  <2>1. ASSUME NEW i \in 1..Len(calls)
        PROVE  calls'[i] = calls[i] /\ stack'[calls[i].level] = stack[calls[i].level]
    BY <1>1, <1>3, <1>4 DEF WInv, LevelsExist
  <2>2. CalloutsFollowSnapshot'
    <3>1. ASSUME NEW i \in DOMAIN calls'
          PROVE  LET b == calls'[i]
                     e == stack'[b.level].callout
                 IN  b.pos <= e.count /\ b.fn = e.slots[b.pos] /\ b.fn \in Funcs
      <4>1. CASE i <= Len(calls)
        BY <4>1, <2>1, <1>1, <1>4, <1>10 DEF CalloutsFollowSnapshot
      <4>2. CASE i = Len(calls) + 1
        BY <4>2, <1>3, <1>4, <1>5 DEF Good, Dense, Callout
      <4> QED  BY <4>1, <4>2, <1>1, <1>4
    <3>2. ASSUME NEW i \in DOMAIN calls', i > 1, calls'[i].pos > 1
          PROVE  calls'[i].pos = calls'[i - 1].pos + 1
      <4>1. i <= Len(calls) /\ i - 1 \in 1..Len(calls)
        BY <3>2, <1>1, <1>4, <1>5
      <4>2. i \in DOMAIN calls /\ calls'[i] = calls[i] /\ calls'[i - 1] = calls[i - 1]
        BY <4>1, <1>1, <1>4
      <4>3. calls[i].pos > 1 => calls[i].pos = calls[i - 1].pos + 1
        BY <4>2, <3>2, <1>10 DEF CalloutsFollowSnapshot
      <4> QED  BY <4>2, <4>3, <3>2
    <3> QED  BY <3>1, <3>2 DEF CalloutsFollowSnapshot
  <2>3. CallersPassed'
    <3>1. ASSUME NEW i \in DOMAIN calls', i > 1, calls'[i].pos > 1
          PROVE  calls'[i - 1].passed
      <4>1. i <= Len(calls) /\ i - 1 \in 1..Len(calls)
        BY <3>1, <1>1, <1>4, <1>5
      <4>2. i \in DOMAIN calls /\ calls'[i] = calls[i] /\ calls'[i - 1] = calls[i - 1]
        BY <4>1, <1>1, <1>4
      <4> QED  BY <4>2, <3>1, <1>10 DEF CallersPassed
    <3> QED  BY <3>1 DEF CallersPassed
  <2>4. IndexFollows'
    <3>1. ASSUME NEW i \in DOMAIN calls', ~calls'[i].passed
          PROVE  stack'[calls'[i].level].next = calls'[i].pos
      <4>1. CASE i <= Len(calls)
        BY <4>1, <3>1, <2>1, <1>1, <1>4, <1>10 DEF IndexFollows
      <4>2. CASE i = Len(calls) + 1
        BY <4>2, <1>3, <1>4, <1>5
      <4> QED  BY <4>1, <4>2, <1>1, <1>4
    <3> QED  BY <3>1 DEF IndexFollows
  <2> QED  BY <2>2, <2>3, <2>4
<1> QED  BY <1>6, <1>7, <1>8, <1>9, <1>10 DEF WInv, IInv

LEMMA CallStep ==
  ASSUME WInv, NEW c \in Conds, Immediate(c) \/ Dispatch(c)
  PROVE  WInv' /\ (IInv => IInv')
<1>1. CASE Immediate(c)
  <2>1. Good(detector[c]) /\ ListsGood' /\ queue' \in [Conds -> Seq(Callout)]
    BY <1>1, ListsFromInv DEF Immediate, IsSet, ListsGood, Good, WInv, TypeOK
  <2> QED  BY <1>1, <2>1, PushStep DEF Immediate
<1>2. CASE Dispatch(c)
  <2>1. PICK i \in DOMAIN queue[c] :
          /\ Push(c, queue[c][i])
          /\ queue' = [queue EXCEPT ![c] = SubSeq(queue[c], 1, i - 1)
                                             \o SubSeq(queue[c], i + 1, Len(queue[c]))]
          /\ UNCHANGED <<detector, errno, ops>>
    BY <1>2 DEF Dispatch
  <2> DEFINE r == SubSeq(queue[c], 1, i - 1) \o SubSeq(queue[c], i + 1, Len(queue[c]))
  <2>2. ListsGood /\ queue \in [Conds -> Seq(Callout)]
    BY ListsFromInv DEF WInv, TypeOK
  <2>3. r \in Seq(Callout) /\ \A j \in DOMAIN r : \E k \in DOMAIN queue[c] : r[j] = queue[c][k]
    BY <2>2, CutOut DEF ListsGood
  <2>4. queue' = [queue EXCEPT ![c] = r]
    BY <2>1
  <2> HIDE DEF r
  <2>5. queue' \in [Conds -> Seq(Callout)] /\ ListsGood'
    BY <2>1, <2>2, <2>3, <2>4 DEF ListsGood
  <2>6. Good(queue[c][i])
    BY <2>2 DEF ListsGood
  <2> QED  BY <2>1, <2>5, <2>6, PushStep
<1> QED  BY <1>1, <1>2

LEMMA NextStep ==
  ASSUME WInv, NEW c \in Conds, NextFunc(c)
  PROVE  WInv' /\ (Disciplined /\ IInv => IInv')
<1> USE FuncsAssumption
<1> DEFINE n == Len(calls)  L == Len(stack)
           f == Top.callout.slots[Top.next + 1]
           p == [calls EXCEPT ![n].passed = TRUE]
           a == Called(L, Top.next + 1, f)
<1>1. /\ stack \in Seq(Frame) /\ calls \in Seq(Activation)
      /\ L \in Nat \ {0} /\ n \in Nat \ {0}
      /\ DOMAIN stack = 1..L /\ DOMAIN calls = 1..n
  BY LenProperties, EmptySeq DEF WInv, TypeOK, NextFunc, NextAllowed
<1>2. /\ Top \in Frame /\ Top.next \in 1..FuncsMax /\ Top.next + 1 \in Slot
      /\ calls[n] \in Activation /\ calls[n].level = L
      /\ Top = stack[L] /\ Running = calls[n]
  <2>1. Top = stack[L] /\ Running = calls[n]
    BY DEF Top, Running
  <2>2. stack[L] \in Frame /\ calls[n] \in Activation
    BY <1>1, ElementOfSeq
  <2>3. calls[n].level = L
    BY <2>1 DEF NextFunc, WInv, StackMatches
  <2>4. Top.next \in 1..FuncsMax /\ Top.next + 1 <= FuncsMax
    BY <2>1, <2>2 DEF Frame, NextFunc, NextAllowed
  <2> QED  BY <2>1, <2>2, <2>3, <2>4
<1>3. /\ stack' \in Seq(Frame) /\ Len(stack') = L /\ DOMAIN stack' = 1..L
      /\ \A k \in 1..L : stack'[k].callout = stack[k].callout
      /\ \A k \in 1..(L - 1) : stack'[k] = stack[k]
      /\ stack'[L].next = Top.next + 1
  <2> DEFINE t == [Top EXCEPT !.next = Top.next + 1]
  <2>1. stack' = [stack EXCEPT ![L] = t] /\ t \in Frame
        /\ t.callout = Top.callout /\ t.next = Top.next + 1
    BY <1>1, <1>2 DEF NextFunc, Top, Frame
  <2> HIDE DEF t
  <2>2. stack' \in Seq(Frame) /\ Len(stack') = L
    BY <2>1, <1>1, ExceptSeq
  <2> QED  BY <2>1, <2>2, <1>1, <1>2, LenProperties
<1>4. /\ p \in Seq(Activation) /\ Len(p) = n /\ DOMAIN p = 1..n
      /\ \A i \in 1..n : p[i].level = calls[i].level /\ p[i].pos = calls[i].pos
                         /\ p[i].fn = calls[i].fn
      /\ \A i \in 1..(n - 1) : p[i] = calls[i]
      /\ p[n].passed = TRUE
  <2> DEFINE r == [calls[n] EXCEPT !.passed = TRUE]
  <2>1. p = [calls EXCEPT ![n] = r] /\ r \in Activation /\ r.passed = TRUE
        /\ r.level = calls[n].level /\ r.pos = calls[n].pos /\ r.fn = calls[n].fn
    BY <1>1, <1>2 DEF Activation
  <2> HIDE DEF r, p
  <2>2. p \in Seq(Activation) /\ Len(p) = n
        /\ \A j \in 1..n : p[j] = IF j = n THEN r ELSE calls[j]
    BY <2>1, <1>1, ExceptSeq
  <2>3. p[n] = r /\ \A i \in 1..(n - 1) : p[i] = calls[i]
    BY <2>2, <1>1
  <2>4. \A i \in 1..n : p[i].level = calls[i].level /\ p[i].pos = calls[i].pos
                         /\ p[i].fn = calls[i].fn
    BY <2>1, <2>2, <1>1
  <2> QED  BY <2>1, <2>2, <2>3, <2>4, LenProperties
<1>5. a.level = L /\ a.pos = Top.next + 1 /\ a.fn = f /\ a.passed = FALSE
  BY DEF Called
<1>6. \/ f \in {Null, Junk} /\ calls' = p
      \/ f # Null /\ calls' = Append(p, a)
  BY DEF NextFunc, Called
<1>7. f \in Funcs \cup {Null, Junk} /\ (f # Null => a \in Activation)
  BY <1>1, <1>2, <1>5 DEF Frame, Callout, Activation, Called
<1> HIDE DEF n, L, f, p, a
<1>8. CASE f \in {Null, Junk} /\ calls' = p
  <2>1. TypeOK' /\ ListDense' /\ FramesSet'
    BY <1>1, <1>3, <1>4, <1>8 DEF WInv, TypeOK, NextFunc, ListDense, FramesSet
  <2>2. LevelsExist' /\ LevelsRise'
    BY <1>1, <1>3, <1>4, <1>8 DEF WInv, LevelsExist, LevelsRise
  <2>3. StackMatches'
    <3>1. calls' # <<>> /\ calls'[Len(calls')].level = Len(stack')
      BY <1>1, <1>2, <1>3, <1>4, <1>8, EmptySeq
    <3>2. ASSUME NEW i \in DOMAIN calls'
          PROVE  LET below == IF i = 1 THEN 0 ELSE calls'[i - 1].level
                 IN  calls'[i].level = IF calls'[i].pos = 1 THEN below + 1 ELSE below
      BY <1>1, <1>4, <1>8 DEF WInv, StackMatches
    <3> QED  BY <3>1, <3>2 DEF StackMatches, Running
  <2>4. ~(Disciplined /\ IInv)
    <3> SUFFICES ASSUME Disciplined, IInv PROVE FALSE
      OBVIOUS
    <3>1. Top.next = Running.pos /\ Running.pos < Top.callout.count
      BY <1>1, <1>2 DEF NextFunc, MayCallNext, IInv, IndexFollows
    <3>2. Dense(Top.callout) /\ Top.next + 1 <= Top.callout.count
      <4>1. Dense(Top.callout)
        BY <1>1, <1>2 DEF WInv, ListDense
      <4>2. Top.callout.count \in 0..FuncsMax /\ Running.pos \in 1..FuncsMax
        BY <1>2 DEF Frame, Callout, Activation
      <4> QED  BY <4>1, <4>2, <3>1
    <3>3. f \in Funcs
      BY <3>2, <1>2 DEF f, Dense
    <3> QED  BY <3>3, <1>8
  <2> QED  BY <2>1, <2>2, <2>3, <2>4 DEF WInv
<1>9. CASE f # Null /\ calls' = Append(p, a)
  <2>1. /\ calls' \in Seq(Activation) /\ Len(calls') = n + 1 /\ DOMAIN calls' = 1..(n + 1)
        /\ \A i \in 1..n : calls'[i] = p[i]
        /\ calls'[n + 1] = a
    BY <1>1, <1>4, <1>7, <1>9, AppendProperties, LenProperties
  <2>2. TypeOK' /\ ListDense' /\ FramesSet'
    BY <1>1, <1>3, <2>1 DEF WInv, TypeOK, NextFunc, ListDense, FramesSet
  <2>3. LevelsExist'
    BY <1>1, <1>3, <1>4, <1>5, <2>1 DEF WInv, LevelsExist
  <2>4. LevelsRise'
    <3>1. \A i \in 1..n : calls[i].level \in 1..L
      BY <1>1 DEF WInv, LevelsExist
    <3>2. \A i, j \in 1..n : i <= j => calls'[i].level <= calls'[j].level
      <4>1. \A i \in 1..n : calls'[i].level = calls[i].level
        BY <1>4, <2>1
      <4> QED  BY <4>1, <1>1 DEF WInv, LevelsRise
    <3>3. \A i \in 1..n : calls'[i].level <= calls'[n + 1].level
      BY <3>1, <1>1, <1>4, <1>5, <2>1
    <3>4. ASSUME NEW i \in DOMAIN calls', NEW j \in DOMAIN calls', i <= j
          PROVE  calls'[i].level <= calls'[j].level
      <4>1. CASE j <= n
        BY <4>1, <3>2, <3>4, <2>1, <1>1
      <4>2. CASE j = n + 1 /\ i <= n
        BY <4>2, <3>3, <2>1, <1>1
      <4>3. CASE j = n + 1 /\ i = n + 1
        BY <4>3, <2>1, <1>1, <1>5
      <4> QED  BY <4>1, <4>2, <4>3, <3>4, <2>1, <1>1
    <3> QED  BY <3>4 DEF LevelsRise
  <2>5. StackMatches'
    <3>1. calls' # <<>> /\ calls'[Len(calls')].level = Len(stack')
      BY <1>1, <1>3, <1>5, <2>1, EmptySeq
    <3>2. ASSUME NEW i \in DOMAIN calls'
          PROVE  LET below == IF i = 1 THEN 0 ELSE calls'[i - 1].level
                 IN  calls'[i].level = IF calls'[i].pos = 1 THEN below + 1 ELSE below
      <4>1. CASE i <= n
        BY <4>1, <1>1, <1>4, <2>1 DEF WInv, StackMatches
      <4>2. CASE i = n + 1
        BY <4>2, <1>1, <1>2, <1>4, <1>5, <2>1
      <4> QED  BY <4>1, <4>2, <2>1, <1>1
    <3> QED  BY <3>1, <3>2 DEF StackMatches, Running
  <2>6. ASSUME Disciplined, IInv PROVE CalloutsFollowSnapshot' /\ CallersPassed' /\ IndexFollows'
    <3>1. /\ Top.next = calls[n].pos /\ calls[n].pos < Top.callout.count
          /\ ~calls[n].passed
      BY <2>6, <1>1, <1>2 DEF NextFunc, MayCallNext, IInv, IndexFollows
    <3>2. f \in Funcs /\ f = Top.callout.slots[calls[n].pos + 1]
      <4>1. /\ Dense(Top.callout) /\ Top.next + 1 <= Top.callout.count
            /\ Top.next = calls[n].pos
        BY <3>1, <1>1, <1>2 DEF WInv, ListDense, Frame, Callout
      <4> QED  BY <4>1, <1>2 DEF f, Dense
    <3>3. ASSUME NEW i \in 1..n
          PROVE  /\ calls'[i].level = calls[i].level /\ calls'[i].pos = calls[i].pos
                 /\ calls'[i].fn = calls[i].fn /\ calls[i].level \in 1..L
                 /\ stack'[calls'[i].level].callout = stack[calls[i].level].callout
      <4>1. calls[i].level \in 1..L
        BY <1>1 DEF WInv, LevelsExist
      <4>2. calls'[i] = p[i]
        BY <2>1
      <4>3. calls'[i].level = calls[i].level /\ calls'[i].pos = calls[i].pos
            /\ calls'[i].fn = calls[i].fn
        BY <4>2, <1>4
      <4> QED  BY <4>1, <4>3, <1>3
    <3>4. CalloutsFollowSnapshot'
      <4>1. ASSUME NEW i \in DOMAIN calls'
            PROVE  LET b == calls'[i]
                       e == stack'[b.level].callout
                   IN  b.pos <= e.count /\ b.fn = e.slots[b.pos] /\ b.fn \in Funcs
        <5>1. CASE i <= n
          BY <5>1, <3>3, <2>1, <1>1, <2>6 DEF IInv, CalloutsFollowSnapshot
        <5>2. CASE i = n + 1
          <6>1. calls'[i] = a /\ a.level = L /\ a.pos = calls[n].pos + 1 /\ a.fn = f
            BY <5>2, <3>1, <1>5, <2>1
          <6>2. stack'[L].callout = Top.callout
            BY <1>1, <1>2, <1>3
          <6>3. calls[n].pos + 1 <= Top.callout.count
            BY <3>1, <1>2 DEF Frame, Callout, Activation
          <6> QED  BY <6>1, <6>2, <6>3, <3>2
        <5> QED  BY <5>1, <5>2, <2>1, <1>1
      <4>2. ASSUME NEW i \in DOMAIN calls', i > 1, calls'[i].pos > 1
            PROVE  calls'[i].pos = calls'[i - 1].pos + 1
        <5>1. CASE i <= n
          <6>1. i \in DOMAIN calls /\ i - 1 \in 1..n
            BY <5>1, <4>2, <1>1, <2>1
          <6>2. calls[i].pos > 1 => calls[i].pos = calls[i - 1].pos + 1
            BY <6>1, <4>2, <2>6 DEF IInv, CalloutsFollowSnapshot
          <6> QED  BY <6>1, <6>2, <4>2, <3>3, <1>1
        <5>2. CASE i = n + 1
          BY <5>2, <3>1, <1>1, <1>4, <1>5, <2>1
        <5> QED  BY <5>1, <5>2, <2>1, <1>1
      <4> QED  BY <4>1, <4>2 DEF CalloutsFollowSnapshot
    <3>5. CallersPassed'
      <4>1. ASSUME NEW i \in DOMAIN calls', i > 1, calls'[i].pos > 1
            PROVE  calls'[i - 1].passed
        <5>1. CASE i <= n
          <6>1. i \in DOMAIN calls /\ i - 1 \in 1..(n - 1) /\ i - 1 \in 1..n
            BY <5>1, <4>1, <1>1, <2>1
          <6>2. calls[i - 1].passed
            BY <6>1, <4>1, <3>3, <1>1, <2>6 DEF IInv, CallersPassed
          <6> QED  BY <6>1, <6>2, <1>4, <2>1
        <5>2. CASE i = n + 1
          BY <5>2, <1>1, <1>4, <2>1
        <5> QED  BY <5>1, <5>2, <2>1, <1>1
      <4> QED  BY <4>1 DEF CallersPassed
    <3>6. IndexFollows'
      <4>1. ASSUME NEW i \in DOMAIN calls', ~calls'[i].passed
            PROVE  stack'[calls'[i].level].next = calls'[i].pos
        <5>1. CASE i = n + 1
          BY <5>1, <1>1, <1>3, <1>5, <2>1
        <5>2. CASE i = n
          BY <5>2, <4>1, <1>1, <1>4, <2>1
        <5>3. CASE i < n
          <6>1. /\ i \in 1..(n - 1) /\ i \in 1..n /\ i + 1 \in 1..n
                /\ calls'[i] = calls[i] /\ ~calls[i].passed
            BY <5>3, <4>1, <1>1, <1>4, <2>1
          <6>2. CASE calls[i].level = L
            <7>1. calls[i + 1].level = L
              BY <6>1, <6>2, <1>1, <1>2, <3>3 DEF WInv, LevelsRise
            <7>2. calls[i + 1].pos # 1
              BY <7>1, <6>1, <6>2, <1>1 DEF WInv, StackMatches
            <7>3. calls[i + 1] \in Activation
              BY <6>1, <1>1, ElementOfSeq
            <7>4. calls[i].passed
              <8> DEFINE j == i + 1
              <8>1. j \in DOMAIN calls /\ j > 1 /\ j - 1 = i
                BY <6>1, <1>1
              <8>2. calls[j].pos > 1
                <9>1. calls[j].pos \in 1..FuncsMax /\ calls[j].pos # 1
                  BY <7>2, <7>3 DEF Activation
                <9> QED  BY <9>1
              <8> HIDE DEF j
              <8> QED  BY <8>1, <8>2, <2>6 DEF IInv, CallersPassed
            <7> QED  BY <7>4, <6>1
          <6>3. CASE calls[i].level # L
            <7>1. calls[i].level \in 1..(L - 1)
              BY <6>1, <6>3, <3>3, <1>1
            <7> QED  BY <7>1, <6>1, <1>1, <1>3, <2>6 DEF IInv, IndexFollows
          <6> QED  BY <6>2, <6>3
        <5> QED  BY <5>1, <5>2, <5>3, <2>1, <1>1
      <4> QED  BY <4>1 DEF IndexFollows
    <3> QED  BY <3>4, <3>5, <3>6
  <2> QED  BY <2>2, <2>3, <2>4, <2>5, <2>6 DEF WInv, IInv
<1> QED  BY <1>6, <1>8, <1>9

LEMMA ReturnStep ==
  ASSUME WInv, Return
  PROVE  WInv' /\ (IInv => IInv')
<1> DEFINE n == Len(calls)  L == Len(stack)
<1>1. /\ stack \in Seq(Frame) /\ calls \in Seq(Activation) /\ calls # <<>>
      /\ L \in Nat /\ n \in Nat \ {0}
      /\ DOMAIN stack = 1..L /\ DOMAIN calls = 1..n
  BY LenProperties, EmptySeq DEF WInv, TypeOK, Return
<1>2. Running = calls[n] /\ calls[n].level = L /\ L \in 1..L /\ L # 0 /\ stack # <<>>
  <2>1. Running = calls[n] /\ calls[n].level = L
    BY <1>1 DEF Running, WInv, StackMatches
  <2>2. calls[n].level \in 1..L
    BY <1>1 DEF WInv, LevelsExist
  <2> QED  BY <2>1, <2>2, <1>1, EmptySeq
<1>3. /\ calls' \in Seq(Activation) /\ Len(calls') = n - 1 /\ DOMAIN calls' = 1..(n - 1)
      /\ \A i \in 1..(n - 1) : calls'[i] = calls[i]
  <2>1. calls' = Drop(calls)
    BY DEF Return
  <2>2. /\ Drop(calls) \in Seq(Activation) /\ Len(Drop(calls)) = n - 1
        /\ \A i \in 1..(n - 1) : Drop(calls)[i] = calls[i]
    BY <1>1, DropLast
  <2> QED  BY <2>1, <2>2, LenProperties
<1> DEFINE M == IF calls[n].pos = 1 THEN L - 1 ELSE L
<1>4. /\ stack' \in Seq(Frame) /\ Len(stack') = M /\ DOMAIN stack' = 1..M
      /\ \A k \in 1..M : stack'[k] = stack[k]
  <2>1. CASE calls[n].pos = 1
    <3>1. stack' = Drop(stack)
      BY <2>1, <1>2 DEF Return
    <3>2. /\ Drop(stack) \in Seq(Frame) /\ Len(Drop(stack)) = L - 1
          /\ \A k \in 1..(L - 1) : Drop(stack)[k] = stack[k]
      BY <1>1, <1>2, DropLast
    <3> QED  BY <2>1, <3>1, <3>2, LenProperties
  <2>2. CASE calls[n].pos # 1
    <3>1. stack' = stack
      BY <2>2, <1>2 DEF Return
    <3> QED  BY <2>2, <3>1, <1>1
  <2> QED  BY <2>1, <2>2
<1>5. M \in Nat /\ M <= L
  BY <1>1, <1>2
<1>6. /\ n = 1 => M = 0
      /\ n # 1 => calls[n - 1].level = M
  <2>1. L = IF calls[n].pos = 1 THEN (IF n = 1 THEN 0 ELSE calls[n - 1].level) + 1
                                ELSE (IF n = 1 THEN 0 ELSE calls[n - 1].level)
    BY <1>1, <1>2 DEF WInv, StackMatches
  <2>2. n # 1 => calls[n - 1].level \in Nat
    <3>1. n # 1 => n - 1 \in 1..Len(calls)
      BY <1>1
    <3>2. n # 1 => calls[n - 1] \in Activation
      BY <3>1, <1>1, ElementOfSeq
    <3> QED  BY <3>2 DEF Activation
  <2> QED  BY <2>1, <2>2, <1>1, <1>2
<1> HIDE DEF n, L, M
<1>7. TypeOK' /\ ListDense' /\ FramesSet'
  <2>1. TypeOK'
    BY <1>3, <1>4 DEF WInv, TypeOK, Return
  <2>2. \A k \in DOMAIN stack' : k \in DOMAIN stack /\ stack'[k] = stack[k]
    BY <1>1, <1>4, <1>5
  <2>3. ListDense' /\ FramesSet'
    BY <2>2 DEF WInv, ListDense, FramesSet, Return
  <2> QED  BY <2>1, <2>3
<1>8. ASSUME NEW i \in 1..(n - 1) PROVE calls[i].level \in 1..M
  <2>1. calls[i].level \in 1..L /\ i \in 1..n /\ n - 1 \in 1..n /\ n # 1 /\ i <= n - 1
    BY <1>1 DEF WInv, LevelsExist
  <2>2. calls[i].level <= calls[n - 1].level
    BY <2>1, <1>1 DEF WInv, LevelsRise
  <2> QED  BY <2>1, <2>2, <1>1, <1>5, <1>6
<1>9. LevelsExist'
  BY <1>3, <1>4, <1>8 DEF LevelsExist
<1>10. LevelsRise'
  BY <1>1, <1>3 DEF WInv, LevelsRise
<1>11. StackMatches'
  <2>1. calls' = <<>> => stack' = <<>>
    BY <1>1, <1>3, <1>4, <1>6, EmptySeq
  <2>2. calls' # <<>> => calls'[Len(calls')].level = Len(stack')
    BY <1>1, <1>3, <1>4, <1>6, EmptySeq
  <2>3. ASSUME NEW i \in DOMAIN calls'
        PROVE  LET below == IF i = 1 THEN 0 ELSE calls'[i - 1].level
               IN  calls'[i].level = IF calls'[i].pos = 1 THEN below + 1 ELSE below
    BY <1>1, <1>3 DEF WInv, StackMatches
  <2> QED  BY <2>1, <2>2, <2>3 DEF StackMatches, Running
<1>12. ASSUME IInv PROVE CalloutsFollowSnapshot' /\ CallersPassed' /\ IndexFollows'
  <2>1. ASSUME NEW i \in DOMAIN calls'
        PROVE  i \in DOMAIN calls /\ calls'[i] = calls[i]
               /\ stack'[calls'[i].level] = stack[calls[i].level]
    BY <1>1, <1>3, <1>4, <1>8
  <2>2. ASSUME NEW i \in DOMAIN calls', i > 1
        PROVE  calls'[i - 1] = calls[i - 1]
    BY <2>2, <1>1, <1>3
  <2>3. CalloutsFollowSnapshot'
    BY <2>1, <2>2, <1>12 DEF IInv, CalloutsFollowSnapshot
  <2>4. CallersPassed'
    BY <2>1, <2>2, <1>12 DEF IInv, CallersPassed
  <2>5. IndexFollows'
    BY <2>1, <1>12 DEF IInv, IndexFollows
  <2> QED  BY <2>3, <2>4, <2>5
<1> QED  BY <1>7, <1>9, <1>10, <1>11, <1>12 DEF WInv, IInv

-----------------------------------------------------------------------------
(* Every step keeps the invariants.                                         *)

LEMMA StepKeeps ==
  ASSUME WInv, [Next]_vars
  PROVE  WInv' /\ (Disciplined /\ IInv => IInv')
<1>1. CASE UNCHANGED vars
  <2>1. ListsGood'
    BY <1>1, ListsFromInv DEF vars, ListsGood
  <2>2. /\ detector' \in [Conds -> Callout] /\ queue' \in [Conds -> Seq(Callout)]
        /\ ops' \in 0..MaxOps /\ UNCHANGED <<stack, calls>>
        /\ errno' \in {"ok", "no_condition", "func_limit", "inval", "aborted"}
    BY <1>1 DEF vars, WInv, TypeOK
  <2> QED  BY <2>1, <2>2, QuietStep
<1>2. CASE Return
  BY <1>2, ReturnStep
<1>3. ASSUME NEW c \in Conds,
             \/ UnsetError(c) \/ UnsetFunc(c) \/ Enqueue(c) \/ NextFails(c)
      PROVE  WInv' /\ (IInv => IInv')
  BY <1>3, QuietCases
<1>4. ASSUME NEW c \in Conds, Immediate(c) \/ Dispatch(c)
      PROVE  WInv' /\ (IInv => IInv')
  BY <1>4, CallStep
<1>5. ASSUME NEW c \in Conds, NextFunc(c)
      PROVE  WInv' /\ (Disciplined /\ IInv => IInv')
  BY <1>5, NextStep
<1>6. ASSUME NEW c \in Conds, NEW f \in Funcs,
             SetFunc(c, f) \/ InterposeFunc(c, f) \/ RemoveFunc(c, f)
      PROVE  WInv' /\ (IInv => IInv')
  BY <1>6, ChangeStep
<1> QED  BY <1>1, <1>2, <1>3, <1>4, <1>5, <1>6 DEF Next

(* Whatever its functions do, the Notifier keeps the lists dense and the two*)
(* stacks together.                                                         *)
THEOREM Structure == Spec => []WInv
<1>1. Init => WInv
  BY InitIInv DEF IInv
<1>2. WInv /\ [Next]_vars => WInv'
  BY StepKeeps
<1> QED  BY <1>1, <1>2, PTL DEF Spec

(* The types of the variables: no list outgrows its node.                   *)
THEOREM TypeCorrect == Spec => []TypeOK
<1>1. WInv => TypeOK
  BY DEF WInv
<1> QED  BY <1>1, Structure, PTL

(* No list, copied or not, has a hole or an uninitialised pointer in it.    *)
THEOREM ListsDense == Spec => []ListDense
<1>1. WInv => ListDense
  BY DEF WInv
<1> QED  BY <1>1, Structure, PTL

(* The top of the interposition stack is the running function's condition.  *)
THEOREM StacksMatch == Spec => []StackMatches
<1>1. WInv => StackMatches
  BY DEF WInv
<1> QED  BY <1>1, Structure, PTL

(* The full inductive invariant, under the discipline of the functions.     *)
THEOREM Invariance == ASSUME Disciplined PROVE Spec => []IInv
<1>1. Init => IInv
  BY InitIInv
<1>2. IInv /\ [Next]_vars => IInv'
  BY StepKeeps, Disciplined DEF IInv
<1> QED  BY <1>1, <1>2, PTL DEF Spec

(* If functions pass a notification on at most once, and the last of a list *)
(* never, each notification runs down the list as it was when copied.       *)
THEOREM RunsDownTheList == ASSUME Disciplined PROVE Spec => []CalloutsFollowSnapshot
<1>1. IInv => CalloutsFollowSnapshot
  BY DEF IInv
<1> QED  BY <1>1, Invariance, PTL
=============================================================================
