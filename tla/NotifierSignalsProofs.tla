------------------------ MODULE NotifierSignalsProofs ------------------------
(***************************************************************************)
(* What NotifierSignals promises for every set of signals, pool size, pipe *)
(* size and bound: the proofs behind the run signals.                      *)
(***************************************************************************)
EXTENDS NotifierSignals, TLAPS, FiniteSetTheorems, SequenceTheorems

-----------------------------------------------------------------------------
(* The stack of activations under the three things that happen to it.      *)

LEMMA TailStack ==
  ASSUME NEW st \in Seq(Activation), st # <<>>
  PROVE  /\ Tail(st) \in Seq(Activation)
         /\ Acts(Tail(st)) \subseteq Acts(st)
         /\ Acts(st) = {Head(st)} \cup Acts(Tail(st))
         /\ Tail(st) # <<>> => Tail(st)[Len(Tail(st))] = st[Len(st)]
         /\ Tail(st) = <<>> => st[Len(st)] = Head(st)
<1> DEFINE t == Tail(st)
<1>1. /\ t \in Seq(Activation) /\ Len(t) = Len(st) - 1 /\ Len(st) \in Nat \ {0}
      /\ \A i \in 1..Len(t) : t[i] = st[i + 1]
      /\ DOMAIN t = 1..Len(t) /\ DOMAIN st = 1..Len(st) /\ Head(st) = st[1]
  BY HeadTailProperties, EmptySeq, LenProperties
<1>2. Acts(st) = {Head(st)} \cup Acts(t)
  <2>1. ASSUME NEW i \in 1..Len(st) PROVE st[i] \in {Head(st)} \cup Acts(t)
    <3>1. CASE i = 1
      BY <3>1, <1>1
    <3>2. CASE i # 1
      <4>1. i - 1 \in 1..Len(t) /\ t[i - 1] = st[i]
        BY <3>2, <1>1
      <4>2. QED
        BY <4>1, <1>1 DEF Acts
    <3>3. QED
      BY <3>1, <3>2
  <2>2. ASSUME NEW i \in 1..Len(t) PROVE t[i] \in Acts(st)
    <3>1. i + 1 \in 1..Len(st) /\ t[i] = st[i + 1]
      BY <1>1
    <3>2. QED
      BY <3>1, <1>1 DEF Acts
  <2>3. Head(st) \in Acts(st)
    BY <1>1 DEF Acts
  <2>4. QED
    BY <2>1, <2>2, <2>3, <1>1 DEF Acts
<1>3. t # <<>> => t[Len(t)] = st[Len(st)]
  BY <1>1, EmptySeq
<1>4. t = <<>> => st[Len(st)] = Head(st)
  <2>1. t = <<>> => Len(t) = 0
    BY EmptySeq
  <2>2. Len(t) = Len(st) - 1 /\ Len(st) \in Nat /\ Head(st) = st[1]
    BY <1>1
  <2>3. QED
    <3> HIDE DEF t
    <3> QED
      BY <2>1, <2>2
<1>5. QED
  BY <1>1, <1>2, <1>3, <1>4

LEMMA PushStack ==
  ASSUME NEW st \in Seq(Activation), NEW a \in Activation
  PROVE  /\ <<a>> \o st \in Seq(Activation) /\ <<a>> \o st # <<>>
         /\ Head(<<a>> \o st) = a /\ Tail(<<a>> \o st) = st
<1> DEFINE t == <<a>> \o st
<1>1. /\ t \in Seq(Activation) /\ Len(t) = Len(st) + 1 /\ t[1] = a
      /\ \A i \in 1..Len(st) : t[i + 1] = st[i]
  <2>1. <<a>> \in Seq(Activation) /\ Len(<<a>>) = 1 /\ <<a>>[1] = a
    OBVIOUS
  <2>2. /\ t \in Seq(Activation) /\ Len(t) = 1 + Len(st)
        /\ \A i \in 1..(1 + Len(st)) : t[i] = IF i <= 1 THEN <<a>>[i] ELSE st[i - 1]
    BY <2>1, ConcatProperties
  <2>3. Len(st) \in Nat
    BY LenProperties
  <2>4. QED
    BY <2>1, <2>2, <2>3
<1>2. t # <<>> /\ Len(st) \in Nat
  BY <1>1, EmptySeq, LenProperties
<1>3. /\ Tail(t) \in Seq(Activation) /\ Len(Tail(t)) = Len(st)
      /\ \A i \in 1..Len(st) : Tail(t)[i] = st[i]
  BY <1>1, <1>2, HeadTailProperties
<1>4. Tail(t) = st
  BY <1>3, SeqEqual
<1>5. Head(t) = a
  BY <1>1
<1>6. QED
  BY <1>1, <1>2, <1>4, <1>5

LEMMA SetStack ==
  ASSUME NEW st \in Seq(Activation), st # <<>>, NEW a \in Activation
  PROVE  /\ [st EXCEPT ![1] = a] \in Seq(Activation)
         /\ [st EXCEPT ![1] = a] # <<>>
         /\ Head([st EXCEPT ![1] = a]) = a
         /\ Tail([st EXCEPT ![1] = a]) = Tail(st)
<1> DEFINE t == [st EXCEPT ![1] = a]
<1>1. Len(st) \in Nat \ {0}
  BY EmptySeq
<1>2. /\ t \in Seq(Activation) /\ Len(t) = Len(st)
      /\ \A j \in 1..Len(st) : t[j] = IF j = 1 THEN a ELSE st[j]
  BY <1>1, ExceptSeq
<1>3. t # <<>>
  BY <1>1, <1>2, EmptySeq
<1>4. /\ Tail(t) \in Seq(Activation) /\ Tail(st) \in Seq(Activation)
      /\ Len(Tail(t)) = Len(Tail(st))
      /\ \A i \in 1..Len(Tail(t)) : Tail(t)[i] = t[i + 1] /\ Tail(st)[i] = st[i + 1]
      /\ Len(Tail(t)) = Len(st) - 1
  BY <1>1, <1>2, <1>3, HeadTailProperties
<1>5. Tail(t) = Tail(st)
  <2>1. \A i \in 1..Len(Tail(t)) : Tail(t)[i] = Tail(st)[i]
    BY <1>1, <1>2, <1>4
  <2>2. QED
    BY <2>1, <1>4, SeqEqual
<1>6. Head(t) = a
  BY <1>1, <1>2
<1>7. QED
  BY <1>2, <1>3, <1>5, <1>6

(* The activations between the two macros: the innermost counts for itself,*)
(* the others for themselves.                                              *)
LEMMA InterruptingTail ==
  ASSUME NEW st \in Seq(Activation), st # <<>>
  PROVE  /\ Cardinality(Interrupting(st)) \in Nat
         /\ Cardinality(Interrupting(Tail(st))) \in Nat
         /\ Cardinality(Interrupting(st)) =
              Cardinality(Interrupting(Tail(st))) + IF Head(st).pc \in InterruptPC THEN 1 ELSE 0
<1> DEFINE t == Tail(st)
           S == Interrupting(t)
           T == Interrupting(st) \ {1}
           f == [i \in S |-> i + 1]
<1>1. /\ t \in Seq(Activation) /\ Len(t) = Len(st) - 1 /\ Len(st) \in Nat \ {0}
      /\ \A i \in 1..Len(t) : t[i] = st[i + 1]
      /\ DOMAIN t = 1..Len(t) /\ DOMAIN st = 1..Len(st) /\ Head(st) = st[1]
  BY HeadTailProperties, EmptySeq, LenProperties
<1>2. IsFiniteSet(S) /\ IsFiniteSet(Interrupting(st)) /\ IsFiniteSet(T)
  <2>1. IsFiniteSet(1..Len(t)) /\ IsFiniteSet(1..Len(st))
    BY <1>1, FS_Interval
  <2>2. S \in SUBSET (1..Len(t)) /\ Interrupting(st) \in SUBSET (1..Len(st))
        /\ T \in SUBSET (1..Len(st))
    BY <1>1 DEF Interrupting
  <2>3. QED
    BY <2>1, <2>2, FS_Subset
<1>3. f \in Bijection(S, T)
  <2>1. ASSUME NEW i \in S PROVE i + 1 \in T
    BY <1>1 DEF Interrupting
  <2>2. ASSUME NEW j \in T PROVE \E i \in S : i + 1 = j
    <3>1. j - 1 \in 1..Len(t) /\ t[j - 1] = st[j] /\ st[j].pc \in InterruptPC
      BY <1>1 DEF Interrupting
    <3>2. j - 1 \in S /\ (j - 1) + 1 = j
      BY <3>1, <1>1 DEF Interrupting
    <3>3. QED
      BY <3>2
  <2>3. \A i, j \in S : f[i] = f[j] => i = j
    BY <1>1 DEF Interrupting
  <2>4. f \in [S -> T]
    BY <2>1
  <2>5. \A j \in T : \E i \in S : f[i] = j
    BY <2>2
  <2>6. QED
    BY <2>3, <2>4, <2>5 DEF Bijection, Injection, Surjection, IsInjective
<1>4. Cardinality(T) = Cardinality(S)
  <2>1. ExistsBijection(S, T)
    BY <1>3 DEF ExistsBijection
  <2>2. QED
    BY <2>1, <1>2, FS_Bijection
<1>5. 1 \in Interrupting(st) <=> Head(st).pc \in InterruptPC
  BY <1>1 DEF Interrupting
<1>6. /\ Cardinality(S) \in Nat /\ Cardinality(Interrupting(st)) \in Nat
      /\ Cardinality(T) = IF 1 \in Interrupting(st) THEN Cardinality(Interrupting(st)) - 1
                          ELSE Cardinality(Interrupting(st))
  BY <1>2, FS_CardinalityType, FS_RemoveElement
<1>7. QED
  BY <1>4, <1>5, <1>6

(* What a step does to the activations, in terms the invariant is made of. *)
LEMMA StackKept ==
  ASSUME UNCHANGED <<program, stack>>
  PROVE  /\ Activations' = Activations /\ (WillWake' <=> WillWake) /\ (Running' <=> Running)
         /\ BottomSavedEmpty => BottomSavedEmpty'
         /\ NoTornUpdate => NoTornUpdate'
         /\ Interrupting(stack)' = Interrupting(stack)
BY DEF Activations, WillWake, Running, BottomSavedEmpty, NoTornUpdate, Acts, Interrupting

-----------------------------------------------------------------------------
(* The invariant is inductive.                                             *)

(* In the initial states nothing is caught and no section is open.         *)
LEMMA InitIInv == Init => IInv
<1> SUFFICES ASSUME Init PROVE IInv
  OBVIOUS
<1> USE DEF Init
<1>1. Activations = {} /\ Interrupting(stack) = {} /\ Running
  BY DEF Activations, Acts, Interrupting, Running
<1>2. TypeOK
  <2>1. <<>> \in Seq(Activation)
    BY EmptySeq
  <2>2. 0 \in 0..PipeCap /\ 0 \in 0..MaxRaises /\ 0 \in 0..MaxCalls /\ 0 \in 0..MaxNesting
    BY EnvAssumption
  <2>3. QED
    BY <2>1, <2>2 DEF TypeOK, MainPC
<1>3. SectionsMatch
  BY DEF SectionsMatch, CriticalPC
<1>4. InterruptsCounted
  BY <1>1, FS_EmptySet DEF InterruptsCounted
<1>5. AsyncOutsideCritical /\ MaskRestored /\ BottomSavedEmpty /\ NoTornUpdate
  BY <1>1 DEF AsyncOutsideCritical, MaskRestored, BottomSavedEmpty, NoTornUpdate
<1>6. RegisteredIsCaught /\ DelayJustified /\ PipeFollows
  BY <1>1 DEF RegisteredIsCaught, DelayJustified, PipeFollows, InCritical
<1>7. QED
  BY <1>2, <1>3, <1>4, <1>5, <1>6 DEF IInv

(* A step of the main program: the stack is empty and stays so.            *)
LEMMA MainStep ==
  ASSUME IInv, Application \/ Loop
  PROVE  IInv'
<1> USE DEF IInv
<1>a. stack = <<>> /\ UNCHANGED <<program, stack>>
  BY DEF Application, Loop, BeginCall, EnterNested, LeaveNested, CanCall, OtherCall, WindowLoop, SetSignalFunc, UnsetSignalFunc,
     Start, Leave, LoopTop, FigSigChange, Recalculate, Params, Test, EnterPause, PauseReturns,
     ChooseTimeout, EnterSelect, SelectReturns, Gather, EndDispatch, Dispatch, Running, loopFrame
<1>b. /\ Activations = {} /\ Activations' = {} /\ ~WillWake /\ ~WillWake'
      /\ BottomSavedEmpty' /\ NoTornUpdate'
  BY <1>a, StackKept DEF Activations, WillWake, Acts, NoTornUpdate
<1>c. UNCHANGED <<interrupts, mask>>
  BY DEF Application, Loop, BeginCall, EnterNested, LeaveNested, CanCall, OtherCall, WindowLoop, SetSignalFunc, UnsetSignalFunc,
     Start, Leave, LoopTop, FigSigChange, Recalculate, Params, Test, EnterPause, PauseReturns,
     ChooseTimeout, EnterSelect, SelectReturns, Gather, EndDispatch, Dispatch, loopFrame, kernelVars
<1>d. InterruptsCounted' /\ AsyncOutsideCritical' /\ MaskRestored'
  BY <1>a, <1>b, <1>c, StackKept DEF InterruptsCounted, AsyncOutsideCritical, MaskRestored, Running
<1> SUFFICES TypeOK' /\ SectionsMatch' /\ RegisteredIsCaught' /\ DelayJustified' /\ PipeFollows'
  BY <1>b, <1>d
<1> USE PoolAssumption, EnvAssumption DEF mainVars, sigVars, condVars, kernelVars, loopFrame,
        InCritical, Running
<1>1. CASE BeginCall
  <2> USE <1>1 DEF BeginCall, CanCall, BeginCritical, EndCritical, Waiting
  <2>1. TypeOK'
    BY DEF TypeOK, MainPC, SectionsMatch, CriticalPC
  <2>2. SectionsMatch' /\ RegisteredIsCaught'
    BY DEF SectionsMatch, CriticalPC, RegisteredIsCaught, TypeOK
  <2>3. DelayJustified' /\ PipeFollows'
    BY <1>b DEF DelayJustified, PipeFollows, SectionsMatch, CriticalPC, TypeOK
  <2>4. QED
    BY <2>1, <2>2, <2>3
<1>2. CASE OtherCall
  <2> USE <1>2 DEF OtherCall, CanCall, BeginCritical, EndCritical, Waiting
  <2>1. TypeOK'
    BY DEF TypeOK, MainPC, SectionsMatch, CriticalPC
  <2>2. SectionsMatch' /\ RegisteredIsCaught'
    BY DEF SectionsMatch, CriticalPC, RegisteredIsCaught, TypeOK
  <2>3. DelayJustified' /\ PipeFollows'
    BY <1>b DEF DelayJustified, PipeFollows, SectionsMatch, CriticalPC, TypeOK
  <2>4. QED
    BY <2>1, <2>2, <2>3
<1>3. CASE WindowLoop
  <2> USE <1>3 DEF WindowLoop, CanCall, BeginCritical, EndCritical, Waiting
  <2>1. TypeOK'
    BY DEF TypeOK, MainPC, SectionsMatch, CriticalPC
  <2>2. SectionsMatch' /\ RegisteredIsCaught'
    BY DEF SectionsMatch, CriticalPC, RegisteredIsCaught, TypeOK
  <2>3. DelayJustified' /\ PipeFollows'
    BY <1>b DEF DelayJustified, PipeFollows, SectionsMatch, CriticalPC, TypeOK
  <2>4. QED
    BY <2>1, <2>2, <2>3
<1>4. CASE Start
  <2> USE <1>4 DEF Start, CanCall, BeginCritical, EndCritical, Waiting
  <2>1. TypeOK'
    BY DEF TypeOK, MainPC, SectionsMatch, CriticalPC
  <2>2. SectionsMatch' /\ RegisteredIsCaught'
    BY DEF SectionsMatch, CriticalPC, RegisteredIsCaught, TypeOK
  <2>3. DelayJustified' /\ PipeFollows'
    BY <1>b DEF DelayJustified, PipeFollows, SectionsMatch, CriticalPC, TypeOK
  <2>4. QED
    BY <2>1, <2>2, <2>3
<1>5. CASE Leave
  <2> USE <1>5 DEF Leave, CanCall, BeginCritical, EndCritical, Waiting
  <2>1. TypeOK'
    BY DEF TypeOK, MainPC, SectionsMatch, CriticalPC
  <2>2. SectionsMatch' /\ RegisteredIsCaught'
    BY DEF SectionsMatch, CriticalPC, RegisteredIsCaught, TypeOK
  <2>3. DelayJustified' /\ PipeFollows'
    BY <1>b DEF DelayJustified, PipeFollows, SectionsMatch, CriticalPC, TypeOK
  <2>4. QED
    BY <2>1, <2>2, <2>3
<1>6. CASE LoopTop
  <2> USE <1>6 DEF LoopTop, CanCall, BeginCritical, EndCritical, Waiting
  <2>1. TypeOK'
    BY DEF TypeOK, MainPC, SectionsMatch, CriticalPC
  <2>2. SectionsMatch' /\ RegisteredIsCaught'
    BY DEF SectionsMatch, CriticalPC, RegisteredIsCaught, TypeOK
  <2>3. DelayJustified' /\ PipeFollows'
    BY <1>b DEF DelayJustified, PipeFollows, SectionsMatch, CriticalPC, TypeOK
  <2>4. QED
    BY <2>1, <2>2, <2>3
<1>7. CASE FigSigChange
  <2> USE <1>7 DEF FigSigChange, CanCall, BeginCritical, EndCritical, Waiting
  <2>1. TypeOK'
    BY DEF TypeOK, MainPC, SectionsMatch, CriticalPC
  <2>2. SectionsMatch' /\ RegisteredIsCaught'
    BY DEF SectionsMatch, CriticalPC, RegisteredIsCaught, TypeOK
  <2>3. DelayJustified' /\ PipeFollows'
    BY <1>b DEF DelayJustified, PipeFollows, SectionsMatch, CriticalPC, TypeOK
  <2>4. QED
    BY <2>1, <2>2, <2>3
<1>8. CASE Recalculate
  <2> USE <1>8 DEF Recalculate, CanCall, BeginCritical, EndCritical, Waiting
  <2>1. TypeOK'
    BY DEF TypeOK, MainPC, SectionsMatch, CriticalPC
  <2>2. SectionsMatch' /\ RegisteredIsCaught'
    BY DEF SectionsMatch, CriticalPC, RegisteredIsCaught, TypeOK
  <2>3. DelayJustified' /\ PipeFollows'
    BY <1>b DEF DelayJustified, PipeFollows, SectionsMatch, CriticalPC, TypeOK
  <2>4. QED
    BY <2>1, <2>2, <2>3
<1>9. CASE Params
  <2> USE <1>9 DEF Params, CanCall, BeginCritical, EndCritical, Waiting
  <2>1. TypeOK'
    BY DEF TypeOK, MainPC, SectionsMatch, CriticalPC
  <2>2. SectionsMatch' /\ RegisteredIsCaught'
    BY DEF SectionsMatch, CriticalPC, RegisteredIsCaught, TypeOK
  <2>3. DelayJustified' /\ PipeFollows'
    BY <1>b DEF DelayJustified, PipeFollows, SectionsMatch, CriticalPC, TypeOK
  <2>4. QED
    BY <2>1, <2>2, <2>3
<1>10. CASE Test
  <2> USE <1>10 DEF Test, CanCall, BeginCritical, EndCritical, Waiting
  <2>1. TypeOK'
    <3>1. mpc' \in MainPC
      BY DEF MainPC
    <3>2. QED
      BY <3>1 DEF TypeOK
  <2>2. SectionsMatch' /\ RegisteredIsCaught'
    BY DEF SectionsMatch, CriticalPC, RegisteredIsCaught, TypeOK
  <2>3. DelayJustified' /\ PipeFollows'
    BY <1>b DEF DelayJustified, PipeFollows, SectionsMatch, CriticalPC, TypeOK
  <2>4. QED
    BY <2>1, <2>2, <2>3
<1>11. CASE EnterPause
  <2> USE <1>11 DEF EnterPause, CanCall, BeginCritical, EndCritical, Waiting
  <2>1. TypeOK'
    BY DEF TypeOK, MainPC, SectionsMatch, CriticalPC
  <2>2. SectionsMatch' /\ RegisteredIsCaught'
    BY DEF SectionsMatch, CriticalPC, RegisteredIsCaught, TypeOK
  <2>3. DelayJustified' /\ PipeFollows'
    BY <1>b DEF DelayJustified, PipeFollows, SectionsMatch, CriticalPC, TypeOK
  <2>4. QED
    BY <2>1, <2>2, <2>3
<1>12. CASE PauseReturns
  <2> USE <1>12 DEF PauseReturns, CanCall, BeginCritical, EndCritical, Waiting
  <2>1. TypeOK'
    <3>1. eintr' \in BOOLEAN
      OBVIOUS
    <3>2. blocked' \in 0..MaxNesting /\ mpc' \in MainPC
      BY DEF TypeOK, MainPC, SectionsMatch, CriticalPC
    <3>3. QED
      BY <3>1, <3>2 DEF TypeOK
  <2>2. SectionsMatch' /\ RegisteredIsCaught'
    BY DEF SectionsMatch, CriticalPC, RegisteredIsCaught, TypeOK
  <2>3. DelayJustified' /\ PipeFollows'
    BY <1>b DEF DelayJustified, PipeFollows, SectionsMatch, CriticalPC, TypeOK
  <2>4. QED
    BY <2>1, <2>2, <2>3
<1>13. CASE ChooseTimeout
  <2> USE <1>13 DEF ChooseTimeout, CanCall, BeginCritical, EndCritical, Waiting
  <2>1. TypeOK'
    BY DEF TypeOK, MainPC, SectionsMatch, CriticalPC
  <2>2. SectionsMatch' /\ RegisteredIsCaught'
    BY DEF SectionsMatch, CriticalPC, RegisteredIsCaught, TypeOK
  <2>3. DelayJustified' /\ PipeFollows'
    BY <1>b DEF DelayJustified, PipeFollows, SectionsMatch, CriticalPC, TypeOK
  <2>4. QED
    BY <2>1, <2>2, <2>3
<1>14. CASE EnterSelect
  <2> USE <1>14 DEF EnterSelect, CanCall, BeginCritical, EndCritical, Waiting
  <2>1. TypeOK'
    BY DEF TypeOK, MainPC, SectionsMatch, CriticalPC
  <2>2. SectionsMatch' /\ RegisteredIsCaught'
    BY DEF SectionsMatch, CriticalPC, RegisteredIsCaught, TypeOK
  <2>3. DelayJustified' /\ PipeFollows'
    BY <1>b DEF DelayJustified, PipeFollows, SectionsMatch, CriticalPC, TypeOK
  <2>4. QED
    BY <2>1, <2>2, <2>3
<1>15. CASE SelectReturns
  <2> USE <1>15 DEF SelectReturns, CanCall, BeginCritical, EndCritical, Waiting
  <2>1. TypeOK'
    <3>1. ready' \in BOOLEAN /\ eintr' \in BOOLEAN
      OBVIOUS
    <3>2. blocked' \in 0..MaxNesting /\ mpc' \in MainPC
      BY DEF TypeOK, MainPC, SectionsMatch, CriticalPC
    <3>3. QED
      BY <3>1, <3>2 DEF TypeOK
  <2>2. SectionsMatch' /\ RegisteredIsCaught'
    BY DEF SectionsMatch, CriticalPC, RegisteredIsCaught, TypeOK
  <2>3. DelayJustified' /\ PipeFollows'
    BY <1>b DEF DelayJustified, PipeFollows, SectionsMatch, CriticalPC, TypeOK
  <2>4. QED
    BY <2>1, <2>2, <2>3
<1>16. CASE Gather
  <2> USE <1>16 DEF Gather, CanCall, BeginCritical, EndCritical, Waiting
  <2>1. TypeOK'
    <3>1. pipe' \in 0..PipeCap
      <4>1. pipe' = 0 \/ pipe' = pipe
        OBVIOUS
      <4>2. QED
        BY <4>1 DEF TypeOK
    <3>a. ready' \in BOOLEAN
      OBVIOUS
    <3>2. /\ nodes' \in Nat /\ blocked' \in 0..MaxNesting /\ mpc' \in MainPC /\ after' \in MainPC
          /\ queued' \subseteq Signals /\ received' \subseteq Signals
      BY DEF TypeOK, MainPC, SectionsMatch, CriticalPC
    <3>3. QED
      BY <3>1, <3>a, <3>2 DEF TypeOK
  <2>2. SectionsMatch' /\ RegisteredIsCaught'
    BY DEF SectionsMatch, CriticalPC, RegisteredIsCaught, TypeOK
  <2>3. DelayJustified' /\ PipeFollows'
    BY <1>b DEF DelayJustified, PipeFollows, SectionsMatch, CriticalPC, TypeOK
  <2>4. QED
    BY <2>1, <2>2, <2>3
<1>17. CASE EndDispatch
  <2> USE <1>17 DEF EndDispatch, CanCall, BeginCritical, EndCritical, Waiting
  <2>1. TypeOK'
    BY DEF TypeOK, MainPC, SectionsMatch, CriticalPC
  <2>2. SectionsMatch' /\ RegisteredIsCaught'
    BY DEF SectionsMatch, CriticalPC, RegisteredIsCaught, TypeOK
  <2>3. DelayJustified' /\ PipeFollows'
    BY <1>b DEF DelayJustified, PipeFollows, SectionsMatch, CriticalPC, TypeOK
  <2>4. QED
    BY <2>1, <2>2, <2>3
<1>18. ASSUME NEW s \in Signals, SetSignalFunc(s) PROVE TypeOK' /\ SectionsMatch' /\ RegisteredIsCaught'
                                         /\ DelayJustified' /\ PipeFollows'
  <2> USE <1>18 DEF SetSignalFunc, EndCritical
  <2>1. TypeOK'
    BY DEF TypeOK, MainPC, SectionsMatch, CriticalPC
  <2>2. SectionsMatch' /\ RegisteredIsCaught'
    BY DEF SectionsMatch, CriticalPC, RegisteredIsCaught, TypeOK
  <2>3. DelayJustified' /\ PipeFollows'
    BY <1>b DEF DelayJustified, PipeFollows, SectionsMatch, CriticalPC, TypeOK
  <2>4. QED
    BY <2>1, <2>2, <2>3
<1>19. ASSUME NEW s \in Signals, UnsetSignalFunc(s) PROVE TypeOK' /\ SectionsMatch' /\ RegisteredIsCaught'
                                         /\ DelayJustified' /\ PipeFollows'
  <2> USE <1>19 DEF UnsetSignalFunc, EndCritical
  <2>1. TypeOK'
    BY DEF TypeOK, MainPC, SectionsMatch, CriticalPC
  <2>2. SectionsMatch' /\ RegisteredIsCaught'
    BY DEF SectionsMatch, CriticalPC, RegisteredIsCaught, TypeOK
  <2>3. DelayJustified' /\ PipeFollows'
    BY <1>b DEF DelayJustified, PipeFollows, SectionsMatch, CriticalPC, TypeOK
  <2>4. QED
    BY <2>1, <2>2, <2>3
<1>20. ASSUME NEW s \in Signals, Dispatch(s) PROVE TypeOK' /\ SectionsMatch' /\ RegisteredIsCaught'
                                         /\ DelayJustified' /\ PipeFollows'
  <2> USE <1>20 DEF Dispatch, EndCritical
  <2>1. TypeOK'
    BY DEF TypeOK, MainPC, SectionsMatch, CriticalPC
  <2>2. SectionsMatch' /\ RegisteredIsCaught'
    BY DEF SectionsMatch, CriticalPC, RegisteredIsCaught, TypeOK
  <2>3. DelayJustified' /\ PipeFollows'
    BY <1>b DEF DelayJustified, PipeFollows, SectionsMatch, CriticalPC, TypeOK
  <2>4. QED
    BY <2>1, <2>2, <2>3
<1>21. CASE EnterNested
  <2> USE <1>21 DEF EnterNested, BeginCritical
  <2>1. TypeOK'
    BY DEF TypeOK, MainPC, SectionsMatch, CriticalPC
  <2>2. SectionsMatch' /\ RegisteredIsCaught'
    BY DEF SectionsMatch, CriticalPC, RegisteredIsCaught, TypeOK
  <2>3. DelayJustified' /\ PipeFollows'
    BY <1>b DEF DelayJustified, PipeFollows, SectionsMatch, CriticalPC, TypeOK
  <2>4. QED
    BY <2>1, <2>2, <2>3
<1>22. CASE LeaveNested
  <2> USE <1>22 DEF LeaveNested, BeginCritical
  <2>1. TypeOK'
    BY DEF TypeOK, MainPC, SectionsMatch, CriticalPC
  <2>2. SectionsMatch' /\ RegisteredIsCaught'
    BY DEF SectionsMatch, CriticalPC, RegisteredIsCaught, TypeOK
  <2>3. DelayJustified' /\ PipeFollows'
    BY <1>b DEF DelayJustified, PipeFollows, SectionsMatch, CriticalPC, TypeOK
  <2>4. QED
    BY <2>1, <2>2, <2>3
<1>23. QED
  BY <1>1, <1>2, <1>3, <1>4, <1>5, <1>6, <1>7, <1>8, <1>9, <1>10, <1>11, <1>12, <1>13, <1>14, <1>15, <1>16, <1>17, <1>18, <1>19, <1>20,
     <1>21, <1>22 DEF Application, Loop

(* The kernel pushes an activation; the catcher changes the innermost one  *)
(* or returns from it.  What that does to the parts of the invariant.      *)
LEMMA PushStep ==
  ASSUME stack \in Seq(Activation), NEW a \in Activation, a.pc = "enter",
         stack' = <<a>> \o stack
  PROVE  /\ stack' \in Seq(Activation) /\ stack' # <<>>
         /\ Activations' = {a} \cup Activations
         /\ stack'[Len(stack')] = IF stack = <<>> THEN a ELSE stack[Len(stack)]
         /\ Cardinality(Interrupting(stack')) = Cardinality(Interrupting(stack))
<1>1. /\ stack' \in Seq(Activation) /\ stack' # <<>> /\ Head(stack') = a
      /\ Tail(stack') = stack
  BY PushStack
<1>2. Activations' = {a} \cup Activations
  BY <1>1, TailStack DEF Activations
<1>3. stack'[Len(stack')] = IF stack = <<>> THEN a ELSE stack[Len(stack)]
  BY <1>1, TailStack
<1>4. Cardinality(Interrupting(stack')) = Cardinality(Interrupting(stack))
  <2>1. /\ Cardinality(Interrupting(stack)) \in Nat
        /\ Cardinality(Interrupting(stack')) = Cardinality(Interrupting(stack))
             + IF a.pc \in InterruptPC THEN 1 ELSE 0
    BY <1>1, InterruptingTail
  <2>2. a.pc \notin InterruptPC
    BY DEF InterruptPC
  <2>3. QED
    BY <2>1, <2>2
<1>5. QED
  BY <1>1, <1>2, <1>3, <1>4

LEMMA SetStep ==
  ASSUME stack \in Seq(Activation), stack # <<>>, NEW a \in Activation, a.old = Me.old,
         stack' = [stack EXCEPT ![1] = a]
  PROVE  /\ stack' \in Seq(Activation) /\ stack' # <<>>
         /\ Activations = {Me} \cup Acts(Tail(stack))
         /\ Activations' = {a} \cup Acts(Tail(stack))
         /\ stack'[Len(stack')].old = stack[Len(stack)].old
         /\ Cardinality(Interrupting(Tail(stack))) \in Nat
         /\ Cardinality(Interrupting(stack)) =
              Cardinality(Interrupting(Tail(stack))) + IF Me.pc \in InterruptPC THEN 1 ELSE 0
         /\ Cardinality(Interrupting(stack')) =
              Cardinality(Interrupting(Tail(stack))) + IF a.pc \in InterruptPC THEN 1 ELSE 0
<1>1. /\ stack' \in Seq(Activation) /\ stack' # <<>> /\ Head(stack') = a
      /\ Tail(stack') = Tail(stack)
  BY SetStack
<1>2. /\ Activations = {Me} \cup Acts(Tail(stack))
      /\ Activations' = {a} \cup Acts(Tail(stack))
  BY <1>1, TailStack DEF Activations, Me
<1>3. stack'[Len(stack')].old = stack[Len(stack)].old
  <2>1. Tail(stack) = <<>> => stack'[Len(stack')] = a /\ stack[Len(stack)] = Me
    BY <1>1, TailStack DEF Me
  <2>2. Tail(stack) # <<>> => stack'[Len(stack')] = stack[Len(stack)]
    BY <1>1, TailStack
  <2>3. QED
    BY <2>1, <2>2
<1>4. /\ Cardinality(Interrupting(Tail(stack))) \in Nat
      /\ Cardinality(Interrupting(stack)) =
           Cardinality(Interrupting(Tail(stack))) + IF Me.pc \in InterruptPC THEN 1 ELSE 0
      /\ Cardinality(Interrupting(stack')) =
           Cardinality(Interrupting(Tail(stack))) + IF a.pc \in InterruptPC THEN 1 ELSE 0
  BY <1>1, InterruptingTail DEF Me
<1>5. QED
  BY <1>1, <1>2, <1>3, <1>4

LEMMA PopStep ==
  ASSUME stack \in Seq(Activation), stack # <<>>, Me.pc \notin InterruptPC,
         stack' = Tail(stack)
  PROVE  /\ stack' \in Seq(Activation)
         /\ Activations = {Me} \cup Activations'
         /\ stack' # <<>> => stack'[Len(stack')] = stack[Len(stack)]
         /\ stack' = <<>> => stack[Len(stack)] = Me
         /\ Cardinality(Interrupting(stack')) = Cardinality(Interrupting(stack))
<1>1. /\ stack' \in Seq(Activation)
      /\ Activations = {Me} \cup Activations'
      /\ stack' # <<>> => stack'[Len(stack')] = stack[Len(stack)]
      /\ stack' = <<>> => stack[Len(stack)] = Me
  BY TailStack DEF Activations, Me
<1>2. /\ Cardinality(Interrupting(stack')) \in Nat
      /\ Cardinality(Interrupting(stack)) = Cardinality(Interrupting(stack'))
           + IF Me.pc \in InterruptPC THEN 1 ELSE 0
  BY InterruptingTail DEF Me
<1>3. QED
  BY <1>1, <1>2

(* A step of the catcher or of the kernel: the main program stands still.  *)
LEMMA CatcherStep ==
  ASSUME IInv, Catcher \/ Environment
  PROVE  IInv'
<1> USE DEF IInv
<1> USE DEF mainVars, condVars, kernelVars, catcherFrame, InCritical, Running
<1>a. /\ stack \in Seq(Activation)
      /\ stack # <<>> => Me \in Activation /\ Me \in Activations
  <2>1. stack # <<>> => Me \in Activation
    BY HeadTailProperties DEF TypeOK, Me
  <2>2. stack # <<>> => Me \in Activations
    BY TailStack DEF TypeOK, Me, Activations
  <2>3. QED
    BY <2>1, <2>2 DEF TypeOK
<1>1. CASE BlockManaged
  <2> DEFINE a == [Me EXCEPT !.pc = "check"]
  <2>1. stack # <<>> /\ Me.pc = "enter" /\ Me \in Activation /\ Me \in Activations
    BY <1>a, <1>1 DEF BlockManaged, Innermost, Me
  <2>2. a \in Activation /\ a.old = Me.old /\ a.pc = "check" /\ a.sig = Me.sig
    BY <2>1 DEF Activation, CatcherPC
  <2>3. stack' = [stack EXCEPT ![1] = a]
    BY <1>1 DEF BlockManaged, GoTo, Me
  <2>4. /\ stack' \in Seq(Activation) /\ stack' # <<>>
        /\ Activations = {Me} \cup Acts(Tail(stack))
        /\ Activations' = {a} \cup Acts(Tail(stack))
        /\ stack'[Len(stack')].old = stack[Len(stack)].old
    BY <1>a, <2>1, <2>2, <2>3, SetStep
  <2>5. InterruptsCounted' /\ interrupts' \in Nat
    <3>1. /\ Cardinality(Interrupting(Tail(stack))) \in Nat
          /\ Cardinality(Interrupting(stack)) =
               Cardinality(Interrupting(Tail(stack))) + IF Me.pc \in InterruptPC THEN 1 ELSE 0
          /\ Cardinality(Interrupting(stack')) =
               Cardinality(Interrupting(Tail(stack))) + IF a.pc \in InterruptPC THEN 1 ELSE 0
      BY <1>a, <2>1, <2>2, <2>3, SetStep
    <3>2. QED
      BY <3>1, <2>1, <2>2, <1>1 DEF BlockManaged, InterruptsCounted, InterruptPC, TypeOK
  <2> HIDE DEF a
  <2>6. TypeOK'
    BY <2>1, <2>4, <2>5, <1>1 DEF BlockManaged, TypeOK, Activation
  <2>7. SectionsMatch' /\ RegisteredIsCaught' /\ MaskRestored' /\ BottomSavedEmpty'
    BY <2>1, <2>4, <1>1 DEF BlockManaged, SectionsMatch, RegisteredIsCaught, MaskRestored,
       BottomSavedEmpty
  <2>8. AsyncOutsideCritical' /\ NoTornUpdate'
    BY <2>1, <2>2, <2>4, <1>1 DEF BlockManaged, AsyncOutsideCritical, NoTornUpdate, MustDelay
  <2>9. DelayJustified' /\ PipeFollows'
    BY <2>1, <2>2, <2>4, <1>1 DEF BlockManaged, DelayJustified, PipeFollows, WillWake, MustDelay
  <2>10. QED
    BY <2>5, <2>6, <2>7, <2>8, <2>9
<1>2. CASE BeginInterrupt
  <2> DEFINE a == [Me EXCEPT !.pc = "send"]
  <2>1. stack # <<>> /\ Me.pc = "check" /\ Me \in Activation /\ Me \in Activations
    BY <1>a, <1>2 DEF BeginInterrupt, Innermost, Me
  <2>2. a \in Activation /\ a.old = Me.old /\ a.pc = "send" /\ a.sig = Me.sig
    BY <2>1 DEF Activation, CatcherPC
  <2>3. stack' = [stack EXCEPT ![1] = a]
    BY <1>2 DEF BeginInterrupt, GoTo, Me
  <2>4. /\ stack' \in Seq(Activation) /\ stack' # <<>>
        /\ Activations = {Me} \cup Acts(Tail(stack))
        /\ Activations' = {a} \cup Acts(Tail(stack))
        /\ stack'[Len(stack')].old = stack[Len(stack)].old
    BY <1>a, <2>1, <2>2, <2>3, SetStep
  <2>5. InterruptsCounted' /\ interrupts' \in Nat
    <3>1. /\ Cardinality(Interrupting(Tail(stack))) \in Nat
          /\ Cardinality(Interrupting(stack)) =
               Cardinality(Interrupting(Tail(stack))) + IF Me.pc \in InterruptPC THEN 1 ELSE 0
          /\ Cardinality(Interrupting(stack')) =
               Cardinality(Interrupting(Tail(stack))) + IF a.pc \in InterruptPC THEN 1 ELSE 0
      BY <1>a, <2>1, <2>2, <2>3, SetStep
    <3>2. QED
      BY <3>1, <2>1, <2>2, <1>2 DEF BeginInterrupt, InterruptsCounted, InterruptPC, TypeOK
  <2> HIDE DEF a
  <2>6. TypeOK'
    BY <2>1, <2>4, <2>5, <1>2 DEF BeginInterrupt, TypeOK, Activation
  <2>7. SectionsMatch' /\ RegisteredIsCaught' /\ MaskRestored' /\ BottomSavedEmpty'
    BY <2>1, <2>4, <1>2 DEF BeginInterrupt, SectionsMatch, RegisteredIsCaught, MaskRestored,
       BottomSavedEmpty
  <2>8. AsyncOutsideCritical' /\ NoTornUpdate'
    BY <2>1, <2>2, <2>4, <1>2 DEF BeginInterrupt, AsyncOutsideCritical, NoTornUpdate, MustDelay
  <2>9. DelayJustified' /\ PipeFollows'
    BY <2>1, <2>2, <2>4, <1>2 DEF BeginInterrupt, DelayJustified, PipeFollows, WillWake, MustDelay
  <2>10. QED
    BY <2>5, <2>6, <2>7, <2>8, <2>9
<1>3. CASE Unblock
  <2> DEFINE a == [Me EXCEPT !.pc = "exit"]
  <2>1. stack # <<>> /\ Me.pc = "unblock" /\ Me \in Activation /\ Me \in Activations
    BY <1>a, <1>3 DEF Unblock, Innermost, Me
  <2>2. a \in Activation /\ a.old = Me.old /\ a.pc = "exit" /\ a.sig = Me.sig
    BY <2>1 DEF Activation, CatcherPC
  <2>3. stack' = [stack EXCEPT ![1] = a]
    BY <1>3 DEF Unblock, GoTo, Me
  <2>4. /\ stack' \in Seq(Activation) /\ stack' # <<>>
        /\ Activations = {Me} \cup Acts(Tail(stack))
        /\ Activations' = {a} \cup Acts(Tail(stack))
        /\ stack'[Len(stack')].old = stack[Len(stack)].old
    BY <1>a, <2>1, <2>2, <2>3, SetStep
  <2>5. InterruptsCounted' /\ interrupts' \in Nat
    <3>1. /\ Cardinality(Interrupting(Tail(stack))) \in Nat
          /\ Cardinality(Interrupting(stack)) =
               Cardinality(Interrupting(Tail(stack))) + IF Me.pc \in InterruptPC THEN 1 ELSE 0
          /\ Cardinality(Interrupting(stack')) =
               Cardinality(Interrupting(Tail(stack))) + IF a.pc \in InterruptPC THEN 1 ELSE 0
      BY <1>a, <2>1, <2>2, <2>3, SetStep
    <3>2. QED
      BY <3>1, <2>1, <2>2, <1>3 DEF Unblock, InterruptsCounted, InterruptPC, TypeOK
  <2> HIDE DEF a
  <2>6. TypeOK'
    BY <2>1, <2>4, <2>5, <1>3 DEF Unblock, TypeOK, Activation
  <2>7. SectionsMatch' /\ RegisteredIsCaught' /\ MaskRestored' /\ BottomSavedEmpty'
    BY <2>1, <2>4, <1>3 DEF Unblock, SectionsMatch, RegisteredIsCaught, MaskRestored,
       BottomSavedEmpty
  <2>8. AsyncOutsideCritical' /\ NoTornUpdate'
    BY <2>1, <2>2, <2>4, <1>3 DEF Unblock, AsyncOutsideCritical, NoTornUpdate, MustDelay
  <2>9. DelayJustified' /\ PipeFollows'
    BY <2>1, <2>2, <2>4, <1>3 DEF Unblock, DelayJustified, PipeFollows, WillWake, MustDelay
  <2>10. QED
    BY <2>5, <2>6, <2>7, <2>8, <2>9
<1>4. CASE EndInterrupt
  <2> DEFINE a == [Me EXCEPT !.pc = "wake"]
  <2>1. stack # <<>> /\ Me.pc = "exit" /\ Me \in Activation /\ Me \in Activations
    BY <1>a, <1>4 DEF EndInterrupt, Innermost, Me
  <2>2. a \in Activation /\ a.old = Me.old /\ a.pc = "wake" /\ a.sig = Me.sig
    BY <2>1 DEF Activation, CatcherPC
  <2>3. stack' = [stack EXCEPT ![1] = a]
    BY <1>4 DEF EndInterrupt, GoTo, Me
  <2>4. /\ stack' \in Seq(Activation) /\ stack' # <<>>
        /\ Activations = {Me} \cup Acts(Tail(stack))
        /\ Activations' = {a} \cup Acts(Tail(stack))
        /\ stack'[Len(stack')].old = stack[Len(stack)].old
    BY <1>a, <2>1, <2>2, <2>3, SetStep
  <2>5. InterruptsCounted' /\ interrupts' \in Nat
    <3>1. /\ Cardinality(Interrupting(Tail(stack))) \in Nat
          /\ Cardinality(Interrupting(stack)) =
               Cardinality(Interrupting(Tail(stack))) + IF Me.pc \in InterruptPC THEN 1 ELSE 0
          /\ Cardinality(Interrupting(stack')) =
               Cardinality(Interrupting(Tail(stack))) + IF a.pc \in InterruptPC THEN 1 ELSE 0
      BY <1>a, <2>1, <2>2, <2>3, SetStep
    <3>2. QED
      BY <3>1, <2>1, <2>2, <1>4 DEF EndInterrupt, InterruptsCounted, InterruptPC, TypeOK
  <2> HIDE DEF a
  <2>6. TypeOK'
    BY <2>1, <2>4, <2>5, <1>4 DEF EndInterrupt, TypeOK, Activation
  <2>7. SectionsMatch' /\ RegisteredIsCaught' /\ MaskRestored' /\ BottomSavedEmpty'
    BY <2>1, <2>4, <1>4 DEF EndInterrupt, SectionsMatch, RegisteredIsCaught, MaskRestored,
       BottomSavedEmpty
  <2>8. AsyncOutsideCritical' /\ NoTornUpdate'
    BY <2>1, <2>2, <2>4, <1>4 DEF EndInterrupt, AsyncOutsideCritical, NoTornUpdate, MustDelay
  <2>9. DelayJustified' /\ PipeFollows'
    BY <2>1, <2>2, <2>4, <1>4 DEF EndInterrupt, DelayJustified, PipeFollows, WillWake, MustDelay
  <2>10. QED
    BY <2>5, <2>6, <2>7, <2>8, <2>9
<1>5. CASE StartDelay
  <2> DEFINE a == [Me EXCEPT !.pc = IF program.atomic THEN "wake" ELSE "load"]
  <2>1. stack # <<>> /\ Me.pc = "check" /\ Me \in Activation /\ Me \in Activations
    BY <1>a, <1>5 DEF StartDelay, Innermost, Me
  <2>2. a \in Activation /\ a.old = Me.old /\ a.pc = (IF program.atomic THEN "wake" ELSE "load") /\ a.sig = Me.sig
    BY <2>1 DEF Activation, CatcherPC, TypeOK
  <2>3. stack' = [stack EXCEPT ![1] = a]
    BY <1>5 DEF StartDelay, GoTo, Me
  <2>4. /\ stack' \in Seq(Activation) /\ stack' # <<>>
        /\ Activations = {Me} \cup Acts(Tail(stack))
        /\ Activations' = {a} \cup Acts(Tail(stack))
        /\ stack'[Len(stack')].old = stack[Len(stack)].old
    BY <1>a, <2>1, <2>2, <2>3, SetStep
  <2>5. InterruptsCounted' /\ interrupts' \in Nat
    <3>1. /\ Cardinality(Interrupting(Tail(stack))) \in Nat
          /\ Cardinality(Interrupting(stack)) =
               Cardinality(Interrupting(Tail(stack))) + IF Me.pc \in InterruptPC THEN 1 ELSE 0
          /\ Cardinality(Interrupting(stack')) =
               Cardinality(Interrupting(Tail(stack))) + IF a.pc \in InterruptPC THEN 1 ELSE 0
      BY <1>a, <2>1, <2>2, <2>3, SetStep
    <3>2. QED
      BY <3>1, <2>1, <2>2, <1>5 DEF StartDelay, InterruptsCounted, InterruptPC, TypeOK
  <2> HIDE DEF a
  <2>6. TypeOK'
    BY <2>1, <2>4, <2>5, <1>5 DEF StartDelay, TypeOK, Activation
  <2>7. SectionsMatch' /\ RegisteredIsCaught' /\ MaskRestored' /\ BottomSavedEmpty'
    BY <2>1, <2>4, <1>5 DEF StartDelay, SectionsMatch, RegisteredIsCaught, MaskRestored,
       BottomSavedEmpty
  <2>8. AsyncOutsideCritical' /\ NoTornUpdate'
    BY <2>1, <2>2, <2>4, <1>5 DEF StartDelay, AsyncOutsideCritical, NoTornUpdate, MustDelay
  <2>9. DelayJustified' /\ PipeFollows'
    BY <2>1, <2>2, <2>4, <1>5 DEF StartDelay, DelayJustified, PipeFollows, WillWake, MustDelay
  <2>10. QED
    BY <2>5, <2>6, <2>7, <2>8, <2>9
<1>6. CASE LoadDelayed
  <2> DEFINE a == [Me EXCEPT !.pc = "store", !.word = delayed]
  <2>1. stack # <<>> /\ Me.pc = "load" /\ Me \in Activation /\ Me \in Activations
    BY <1>a, <1>6 DEF LoadDelayed, Innermost, Me
  <2>2. a \in Activation /\ a.old = Me.old /\ a.pc = "store" /\ a.sig = Me.sig
    BY <2>1 DEF Activation, CatcherPC, TypeOK
  <2>3. stack' = [stack EXCEPT ![1] = a]
    BY <1>6 DEF LoadDelayed, GoTo, Me
  <2>4. /\ stack' \in Seq(Activation) /\ stack' # <<>>
        /\ Activations = {Me} \cup Acts(Tail(stack))
        /\ Activations' = {a} \cup Acts(Tail(stack))
        /\ stack'[Len(stack')].old = stack[Len(stack)].old
    BY <1>a, <2>1, <2>2, <2>3, SetStep
  <2>5. InterruptsCounted' /\ interrupts' \in Nat
    <3>1. /\ Cardinality(Interrupting(Tail(stack))) \in Nat
          /\ Cardinality(Interrupting(stack)) =
               Cardinality(Interrupting(Tail(stack))) + IF Me.pc \in InterruptPC THEN 1 ELSE 0
          /\ Cardinality(Interrupting(stack')) =
               Cardinality(Interrupting(Tail(stack))) + IF a.pc \in InterruptPC THEN 1 ELSE 0
      BY <1>a, <2>1, <2>2, <2>3, SetStep
    <3>2. QED
      BY <3>1, <2>1, <2>2, <1>6 DEF LoadDelayed, InterruptsCounted, InterruptPC, TypeOK
  <2> HIDE DEF a
  <2>6. TypeOK'
    BY <2>1, <2>4, <2>5, <1>6 DEF LoadDelayed, TypeOK, Activation
  <2>7. SectionsMatch' /\ RegisteredIsCaught' /\ MaskRestored' /\ BottomSavedEmpty'
    BY <2>1, <2>4, <1>6 DEF LoadDelayed, SectionsMatch, RegisteredIsCaught, MaskRestored,
       BottomSavedEmpty
  <2>8. AsyncOutsideCritical' /\ NoTornUpdate'
    BY <2>1, <2>2, <2>4, <1>6 DEF LoadDelayed, AsyncOutsideCritical, NoTornUpdate, MustDelay
  <2>9. DelayJustified' /\ PipeFollows'
    BY <2>1, <2>2, <2>4, <1>6 DEF LoadDelayed, DelayJustified, PipeFollows, WillWake, MustDelay
  <2>10. QED
    BY <2>5, <2>6, <2>7, <2>8, <2>9
<1>7. CASE StoreDelayed
  <2> DEFINE a == [Me EXCEPT !.pc = "wake"]
  <2>1. stack # <<>> /\ Me.pc = "store" /\ Me \in Activation /\ Me \in Activations
    BY <1>a, <1>7 DEF StoreDelayed, Innermost, Me
  <2>2. a \in Activation /\ a.old = Me.old /\ a.pc = "wake" /\ a.sig = Me.sig
    BY <2>1 DEF Activation, CatcherPC, TypeOK
  <2>3. stack' = [stack EXCEPT ![1] = a]
    BY <1>7 DEF StoreDelayed, GoTo, Me
  <2>4. /\ stack' \in Seq(Activation) /\ stack' # <<>>
        /\ Activations = {Me} \cup Acts(Tail(stack))
        /\ Activations' = {a} \cup Acts(Tail(stack))
        /\ stack'[Len(stack')].old = stack[Len(stack)].old
    BY <1>a, <2>1, <2>2, <2>3, SetStep
  <2>5. InterruptsCounted' /\ interrupts' \in Nat
    <3>1. /\ Cardinality(Interrupting(Tail(stack))) \in Nat
          /\ Cardinality(Interrupting(stack)) =
               Cardinality(Interrupting(Tail(stack))) + IF Me.pc \in InterruptPC THEN 1 ELSE 0
          /\ Cardinality(Interrupting(stack')) =
               Cardinality(Interrupting(Tail(stack))) + IF a.pc \in InterruptPC THEN 1 ELSE 0
      BY <1>a, <2>1, <2>2, <2>3, SetStep
    <3>2. QED
      BY <3>1, <2>1, <2>2, <1>7 DEF StoreDelayed, InterruptsCounted, InterruptPC, TypeOK
  <2> HIDE DEF a
  <2>6. TypeOK'
    BY <2>1, <2>4, <2>5, <1>7 DEF StoreDelayed, TypeOK, Activation
  <2>7. SectionsMatch' /\ RegisteredIsCaught' /\ MaskRestored' /\ BottomSavedEmpty'
    BY <2>1, <2>4, <1>7 DEF StoreDelayed, SectionsMatch, RegisteredIsCaught, MaskRestored,
       BottomSavedEmpty
  <2>8. AsyncOutsideCritical' /\ NoTornUpdate'
    BY <2>1, <2>2, <2>4, <1>7 DEF StoreDelayed, AsyncOutsideCritical, NoTornUpdate, MustDelay
  <2>9. DelayJustified' /\ PipeFollows'
    BY <2>1, <2>2, <2>4, <1>7 DEF StoreDelayed, DelayJustified, PipeFollows, WillWake, MustDelay
  <2>10. QED
    BY <2>5, <2>6, <2>7, <2>8, <2>9
<1>8. CASE SendAsync
  <2> DEFINE a == [Me EXCEPT !.pc = "unblock"]
  <2>1. stack # <<>> /\ Me.pc = "send" /\ Me \in Activation /\ Me \in Activations
    BY <1>a, <1>8 DEF SendAsync, Innermost, Me
  <2>2. a \in Activation /\ a.old = Me.old /\ a.pc = "unblock" /\ a.sig = Me.sig
    BY <2>1 DEF Activation, CatcherPC, TypeOK
  <2>3. stack' = [stack EXCEPT ![1] = a]
    BY <1>8 DEF SendAsync, GoTo, Me
  <2>4. /\ stack' \in Seq(Activation) /\ stack' # <<>>
        /\ Activations = {Me} \cup Acts(Tail(stack))
        /\ Activations' = {a} \cup Acts(Tail(stack))
        /\ stack'[Len(stack')].old = stack[Len(stack)].old
    BY <1>a, <2>1, <2>2, <2>3, SetStep
  <2>5. InterruptsCounted' /\ interrupts' \in Nat
    <3>1. /\ Cardinality(Interrupting(Tail(stack))) \in Nat
          /\ Cardinality(Interrupting(stack)) =
               Cardinality(Interrupting(Tail(stack))) + IF Me.pc \in InterruptPC THEN 1 ELSE 0
          /\ Cardinality(Interrupting(stack')) =
               Cardinality(Interrupting(Tail(stack))) + IF a.pc \in InterruptPC THEN 1 ELSE 0
      BY <1>a, <2>1, <2>2, <2>3, SetStep
    <3>2. QED
      BY <3>1, <2>1, <2>2, <1>8 DEF SendAsync, InterruptsCounted, InterruptPC, TypeOK
  <2> HIDE DEF a
  <2>6. TypeOK'
    <3>1. /\ received' \subseteq Signals /\ delayed' \subseteq Signals
          /\ nodes' \in Nat /\ calls' \in 0..MaxCalls
      <4>1. Me.sig \in Signals
        BY <2>1 DEF Activation
      <4>2. CASE AsyncCall
        BY <4>1, <4>2, EnvAssumption DEF AsyncCall, TypeOK
      <4>3. CASE received' = received \cup {Me.sig} /\ UNCHANGED <<delayed, nodes, calls>>
        BY <4>1, <4>3 DEF TypeOK
      <4>4. QED
        BY <4>2, <4>3, <1>8 DEF SendAsync
    <3>2. /\ managing' \subseteq Signals /\ installed' \subseteq Signals
          /\ sync' \subseteq Signals /\ async' \subseteq Signals
      <4>1. CASE UNCHANGED condVars
        BY <4>1 DEF TypeOK
      <4>2. CASE AsyncCall /\ ~UNCHANGED condVars
        BY <4>2 DEF AsyncCall, TypeOK
      <4>3. QED
        BY <4>1, <4>2, <1>8 DEF SendAsync
    <3>3. nested' \in BOOLEAN /\ sigChange' \in BOOLEAN
      BY <1>8 DEF SendAsync, AsyncCall, TypeOK
    <3>4. QED
      BY <2>4, <2>5, <3>1, <3>2, <3>3, <1>8 DEF SendAsync, TypeOK
  <2>7. SectionsMatch' /\ RegisteredIsCaught' /\ MaskRestored' /\ BottomSavedEmpty'
    BY <2>1, <2>4, <1>8 DEF SendAsync, SectionsMatch, RegisteredIsCaught, MaskRestored,
       BottomSavedEmpty, AsyncCall
  <2>8. AsyncOutsideCritical' /\ NoTornUpdate'
    BY <2>1, <2>2, <2>4, <1>8 DEF SendAsync, AsyncOutsideCritical, NoTornUpdate, MustDelay
  <2>9. DelayJustified' /\ PipeFollows'
    <3>1. WillWake'
      BY <2>2, <2>4 DEF WillWake
    <3>2. PipeFollows'
      BY <3>1, <1>8 DEF SendAsync, PipeFollows
    <3>3. DelayJustified'
      <4>1. CASE AsyncCall
        <5>1. /\ nodes' <= nodes /\ nodes \in Nat /\ nodes' \in Nat /\ delayed' = {}
              /\ UNCHANGED <<mpc, blocked>>
          BY <4>1, <1>8 DEF SendAsync, AsyncCall, TypeOK
        <5>2. SUFFICES ASSUME \E b \in Activations' : b.pc \in {"load", "store"}
                       PROVE  InCritical' \/ mpc' = "leave" \/ nodes' < MinNodes
          BY <5>1 DEF DelayJustified
        <5>3. \E b \in Activations : b.pc \in {"load", "store"}
          BY <5>2, <2>2, <2>4
        <5>4. InCritical \/ mpc = "leave" \/ nodes < MinNodes
          BY <5>3 DEF DelayJustified
        <5>5. QED
          BY <5>1, <5>4, PoolAssumption
      <4>2. CASE UNCHANGED <<delayed, nodes>>
        BY <4>2, <2>2, <2>4, <1>8 DEF SendAsync, DelayJustified
      <4>3. QED
        BY <4>1, <4>2, <1>8 DEF SendAsync
    <3>4. QED
      BY <3>2, <3>3
  <2>10. QED
    BY <2>5, <2>6, <2>7, <2>8, <2>9
<1>9. CASE ReturnDeaf
  <2>1. /\ stack # <<>> /\ Me.pc = "check" /\ Me \in Activation /\ Me \in Activations
        /\ stack' = Tail(stack)
    BY <1>a, <1>9 DEF ReturnDeaf, Innermost, Me, Return
  <2>2. /\ stack' \in Seq(Activation)
        /\ Activations = {Me} \cup Activations'
        /\ stack' # <<>> => stack'[Len(stack')] = stack[Len(stack)]
        /\ stack' = <<>> => stack[Len(stack)] = Me
        /\ Cardinality(Interrupting(stack')) = Cardinality(Interrupting(stack))
    BY <1>a, <2>1, PopStep DEF InterruptPC
  <2>3. TypeOK'
    BY <2>1, <2>2, <1>9, EnvAssumption DEF ReturnDeaf, TypeOK, Activation, Return
  <2>4. InterruptsCounted'
    BY <2>2, <1>9 DEF ReturnDeaf, InterruptsCounted
  <2>5. SectionsMatch' /\ RegisteredIsCaught' /\ MaskRestored' /\ BottomSavedEmpty'
    BY <2>1, <2>2, <1>9 DEF ReturnDeaf, SectionsMatch, RegisteredIsCaught, MaskRestored,
       BottomSavedEmpty, Return
  <2>6. AsyncOutsideCritical' /\ NoTornUpdate'
    BY <2>1, <2>2, <1>9 DEF ReturnDeaf, AsyncOutsideCritical, NoTornUpdate
  <2>7. DelayJustified' /\ PipeFollows'
    BY <2>1, <2>2, <1>9 DEF ReturnDeaf, DelayJustified, PipeFollows, WillWake, TypeOK
  <2>8. QED
    BY <2>3, <2>4, <2>5, <2>6, <2>7
<1>10. CASE Wake
  <2>1. /\ stack # <<>> /\ Me.pc = "wake" /\ Me \in Activation /\ Me \in Activations
        /\ stack' = Tail(stack)
    BY <1>a, <1>10 DEF Wake, Innermost, Me, Return
  <2>2. /\ stack' \in Seq(Activation)
        /\ Activations = {Me} \cup Activations'
        /\ stack' # <<>> => stack'[Len(stack')] = stack[Len(stack)]
        /\ stack' = <<>> => stack[Len(stack)] = Me
        /\ Cardinality(Interrupting(stack')) = Cardinality(Interrupting(stack))
    BY <1>a, <2>1, PopStep DEF InterruptPC
  <2>3. TypeOK'
    BY <2>1, <2>2, <1>10, EnvAssumption DEF Wake, TypeOK, Activation, Return
  <2>4. InterruptsCounted'
    BY <2>2, <1>10 DEF Wake, InterruptsCounted
  <2>5. SectionsMatch' /\ RegisteredIsCaught' /\ MaskRestored' /\ BottomSavedEmpty'
    BY <2>1, <2>2, <1>10 DEF Wake, SectionsMatch, RegisteredIsCaught, MaskRestored,
       BottomSavedEmpty, Return
  <2>6. AsyncOutsideCritical' /\ NoTornUpdate'
    BY <2>1, <2>2, <1>10 DEF Wake, AsyncOutsideCritical, NoTornUpdate
  <2>7. DelayJustified' /\ PipeFollows'
    BY <2>1, <2>2, <1>10 DEF Wake, DelayJustified, PipeFollows, WillWake, TypeOK
  <2>8. QED
    BY <2>3, <2>4, <2>5, <2>6, <2>7
<1>11. ASSUME NEW s \in Signals, Raise(s) PROVE IInv'
  <2>1. UNCHANGED <<program, stack, interrupts, mask, mainVars, deaf, sigVars, condVars, nodes, pipeOn, pipe,
                    ready, eintr, nested, calls>>
    BY <1>11 DEF Raise
  <2>2. TypeOK'
    <3>1. raised' \subseteq Signals /\ raises' \in 0..MaxRaises
      <4>1. raises < MaxRaises /\ raised' = raised \cup {s} /\ raises' = raises + 1
        BY <1>11 DEF Raise
      <4>2. QED
        BY <4>1, EnvAssumption DEF TypeOK
    <3>2. QED
      BY <2>1, <3>1 DEF TypeOK, sigVars
  <2>3. InterruptsCounted' /\ AsyncOutsideCritical' /\ MaskRestored' /\ BottomSavedEmpty' /\ NoTornUpdate'
    BY <2>1, <1>11, StackKept DEF Raise, InterruptsCounted, AsyncOutsideCritical, MaskRestored
  <2>4. SectionsMatch' /\ RegisteredIsCaught' /\ DelayJustified' /\ PipeFollows'
    <3>1. Activations' = Activations /\ (WillWake' <=> WillWake)
      BY <2>1, StackKept
    <3>2. SectionsMatch' /\ RegisteredIsCaught'
      BY <2>1 DEF SectionsMatch, RegisteredIsCaught
    <3>3. DelayJustified' /\ PipeFollows'
      BY <2>1, <3>1 DEF DelayJustified, PipeFollows, sigVars
    <3>4. QED
      BY <3>2, <3>3
  <2>5. QED
    BY <2>2, <2>3, <2>4
<1>12. ASSUME NEW s \in Signals, Deliver(s) PROVE IInv'
  <2> DEFINE a == [sig |-> s, pc |-> "enter", old |-> mask, word |-> {}]
  <2>1. a \in Activation /\ a.pc = "enter" /\ a.old = mask /\ stack' = <<a>> \o stack
    BY <1>12 DEF Deliver, Activation, CatcherPC, TypeOK
  <2> HIDE DEF a
  <2>2. /\ stack' \in Seq(Activation) /\ stack' # <<>>
        /\ Activations' = {a} \cup Activations
        /\ stack'[Len(stack')] = IF stack = <<>> THEN a ELSE stack[Len(stack)]
        /\ Cardinality(Interrupting(stack')) = Cardinality(Interrupting(stack))
    BY <1>a, <2>1, PushStep
  <2>3. TypeOK'
    <3>1. eintr' \in BOOLEAN
      BY <1>12 DEF Deliver
    <3>2. QED
      BY <3>1, <2>2, <1>12 DEF Deliver, TypeOK
  <2>4. InterruptsCounted'
    BY <2>2, <1>12 DEF Deliver, InterruptsCounted
  <2>5. SectionsMatch' /\ RegisteredIsCaught' /\ MaskRestored' /\ BottomSavedEmpty'
    BY <2>1, <2>2, <1>12 DEF Deliver, SectionsMatch, RegisteredIsCaught, MaskRestored, BottomSavedEmpty
  <2>6. AsyncOutsideCritical' /\ NoTornUpdate'
    BY <2>1, <2>2, <1>12 DEF Deliver, AsyncOutsideCritical, NoTornUpdate
  <2>7. DelayJustified' /\ PipeFollows'
    BY <2>1, <2>2, <1>12 DEF Deliver, DelayJustified, PipeFollows, WillWake
  <2>8. QED
    BY <2>3, <2>4, <2>5, <2>6, <2>7
<1>13. QED
  BY <1>1, <1>2, <1>3, <1>4, <1>5, <1>6, <1>7, <1>8, <1>9, <1>10, <1>11, <1>12
     DEF Catcher, Environment

(* IInv holds in every reachable state.                                    *)
THEOREM Invariance == Spec => []IInv
<1>1. IInv /\ [Next]_vars => IInv'
  <2>1. ASSUME IInv, Next PROVE IInv'
    BY <2>1, MainStep, CatcherStep DEF Next
  <2>2. ASSUME IInv, UNCHANGED vars PROVE IInv'
    <3>1. UNCHANGED <<program, mainVars, interrupts, deaf, sigVars, condVars, nodes, pipeOn, pipe,
                      ready, eintr, kernelVars, stack, nested, raises, calls>>
      BY <2>2 DEF vars
    <3>2. UNCHANGED <<program, mpc, after, blocked, interrupts, deaf, delayed, received, queued,
                      managing, installed, sync, async, sigChange, nodes, pipeOn, pipe,
                      ready, eintr, raised, mask, stack, nested, raises, calls>>
      BY <3>1 DEF mainVars, sigVars, condVars, kernelVars
    <3>3. Activations' = Activations /\ (WillWake' <=> WillWake)
      BY <3>2, StackKept
    <3>4. TypeOK' /\ SectionsMatch' /\ RegisteredIsCaught'
      BY <2>2, <3>2 DEF IInv, TypeOK, SectionsMatch, RegisteredIsCaught
    <3>5. InterruptsCounted' /\ BottomSavedEmpty' /\ NoTornUpdate'
      BY <2>2, <3>2, StackKept DEF IInv, InterruptsCounted
    <3>6. AsyncOutsideCritical' /\ MaskRestored'
      BY <2>2, <3>2, <3>3 DEF IInv, AsyncOutsideCritical, MaskRestored, InCritical, Running
    <3>7. DelayJustified' /\ PipeFollows'
      BY <2>2, <3>2, <3>3 DEF IInv, DelayJustified, PipeFollows, InCritical
    <3>8. QED
      BY <3>4, <3>5, <3>6, <3>7 DEF IInv
  <2>3. QED
    BY <2>1, <2>2
<1>2. QED
  BY InitIInv, <1>1, PTL DEF Spec

-----------------------------------------------------------------------------
(* The properties the runs check.                                          *)

(* Every variable has its type: ntfy_interrupts never goes negative and    *)
(* ntfy_sigs_blocked never counts two sections.                            *)
THEOREM TypeCorrect == Spec => []TypeOK
<1>1. IInv => TypeOK
  BY DEF IInv
<1>2. QED
  BY <1>1, Invariance, PTL

(* Asynchronous functions never run inside a critical section.             *)
THEOREM AsyncOutside == Spec => []AsyncOutsideCritical
<1>1. IInv => AsyncOutsideCritical
  BY DEF IInv
<1>2. QED
  BY <1>1, Invariance, PTL

(* The signal mask is empty whenever the main program runs, however deep   *)
(* the nesting of catchers was.                                            *)
THEOREM MaskIsRestored == Spec => []MaskRestored
<1>1. IInv => MaskRestored
  BY DEF IInv
<1>2. QED
  BY <1>1, Invariance, PTL

(* The signals clients wait for are caught, and managed.                   *)
THEOREM RegisteredCaught == Spec => []RegisteredIsCaught
<1>1. IInv => RegisteredIsCaught
  BY DEF IInv
<1>2. QED
  BY <1>1, Invariance, PTL

(* No critical section ends leaving a signal delayed.                      *)
THEOREM DelayedSent == Spec => []DelayedNotForgotten
<1>1. IInv => DelayedNotForgotten
  BY DEF IInv, DelayJustified, DelayedNotForgotten
<1>2. QED
  BY <1>1, Invariance, PTL

(* The self-pipe closes the race between the test and select().            *)
THEOREM SelectRaceClosed == Spec => []SelectNeverSleepsOnSignal
<1>1. IInv => SelectNeverSleepsOnSignal
  <2>1. SUFFICES ASSUME IInv, Running, mpc = "selecting", received \cup delayed # {}
                 PROVE  pipe > 0
    BY DEF SelectNeverSleepsOnSignal
  <2>2. stack \in Seq(Activation) /\ stack = <<>>
    BY <2>1 DEF IInv, TypeOK, Running
  <2>3. ~WillWake
    BY <2>2 DEF WillWake, Activations, Acts
  <2>4. QED
    BY <2>1, <2>3 DEF IInv, PipeFollows
<1>2. QED
  BY <1>1, Invariance, PTL

-----------------------------------------------------------------------------
(* A caught signal is lost only where the application gives it up.         *)

Early == {"enter", "check", "load", "store", "send"}
Excused(s) == s \in queued \/ s \notin sync \cap sync' \/ deaf

LEMMA InFlightMember ==
  ASSUME NEW s
  PROVE  s \in InFlight <=> \E b \in Activations : b.pc \in Early /\ s = b.sig
BY DEF InFlight, Early

LEMMA InFlightMemberPrime ==
  ASSUME NEW s
  PROVE  s \in InFlight' <=> \E b \in Activations' : b.pc \in Early /\ s = b.sig
BY DEF InFlight, Early

(* While the main program runs nothing is in flight; what a step of it lets*)
(* go of has been handed out or flushed.                                   *)
LEMMA MainKeeps ==
  ASSUME IInv, Application \/ Loop, NEW s \in Held, s \notin Held'
  PROVE  Excused(s)
<1>1. stack = <<>> /\ UNCHANGED stack
  BY DEF Application, Loop, BeginCall, EnterNested, LeaveNested, CanCall, OtherCall, WindowLoop, SetSignalFunc, UnsetSignalFunc,
     Start, Leave, LoopTop, FigSigChange, Recalculate, Params, Test, EnterPause, PauseReturns,
     ChooseTimeout, EnterSelect, SelectReturns, Gather, EndDispatch, Dispatch, Running, loopFrame
<1>2. Activations = {}
  BY <1>1 DEF Activations, Acts
<1>3. s \in delayed \cup received \cup queued
  BY <1>2, InFlightMember DEF Held
<1>4. s \notin delayed' \cup received' \cup queued'
  BY DEF Held
<1>5. CASE UNCHANGED sigVars
  BY <1>3, <1>4, <1>5 DEF sigVars
<1>6. CASE Leave
  BY <1>3, <1>4, <1>6 DEF Leave
<1>7. CASE Gather
  BY <1>3, <1>4, <1>7 DEF Gather, Excused
<1>8. CASE \E x \in Signals : UnsetSignalFunc(x)
  BY <1>3, <1>4, <1>8 DEF UnsetSignalFunc, Excused
<1>9. CASE \E x \in Signals : Dispatch(x)
  BY <1>3, <1>4, <1>9 DEF Dispatch, Excused
<1>10. QED
  <2>1. \/ UNCHANGED sigVars \/ Leave \/ Gather
        \/ \E x \in Signals : UnsetSignalFunc(x) \/ Dispatch(x)
    BY DEF Application, Loop, BeginCall, EnterNested, LeaveNested, OtherCall, WindowLoop, SetSignalFunc,
     Start, LoopTop, FigSigChange, Recalculate, Params, Test, EnterPause, PauseReturns,
     ChooseTimeout, EnterSelect, SelectReturns, EndDispatch
  <2>2. QED
    BY <2>1, <1>5, <1>6, <1>7, <1>8, <1>9

(* A step of the catcher hands its signal on, or is deaf.                  *)
LEMMA CatcherKeeps ==
  ASSUME IInv, program.atomic, Catcher \/ Environment, NEW s \in Held, s \notin Held'
  PROVE  Excused(s)
<1> USE DEF IInv
<1>1. stack \in Seq(Activation) /\ (stack # <<>> => Me \in Activation)
  BY HeadTailProperties DEF TypeOK, Me
<1>2. s \in InFlight \/ s \in delayed \cup received \cup queued
  BY DEF Held
<1>3. s \notin InFlight' /\ s \notin delayed' \cup received' \cup queued'
  BY DEF Held
<1>4. UNCHANGED queued
  BY DEF Catcher, Environment, BlockManaged, StartDelay, LoadDelayed, StoreDelayed, ReturnDeaf,
     BeginInterrupt, SendAsync, Unblock, EndInterrupt, Wake, Raise, Deliver, catcherFrame, sigVars
<1>5. CASE stack # <<>> /\ Catcher
  <2> DEFINE T == Acts(Tail(stack))
  <2>1. Activations = {Me} \cup T
    BY <1>1, <1>5, TailStack DEF Activations, Me
  <2>2. CASE ReturnDeaf
    <3>1. deaf
      BY <2>2 DEF ReturnDeaf
    <3>2. QED
      BY <3>1 DEF Excused
  <2>3. CASE Wake
    <3>1. Activations' = T /\ Me.pc = "wake" /\ UNCHANGED <<delayed, received>>
      BY <2>3 DEF Wake, Return, Innermost, Activations, Me
    <3>2. s \notin InFlight
      BY <3>1, <2>1, <1>3, InFlightMember, InFlightMemberPrime DEF Early
    <3>3. QED
      BY <3>1, <3>2, <1>2, <1>3, <1>4
  <2>4. ASSUME NEW p \in CatcherPC, GoTo(p), Me.pc \in Early => p \in Early \/ Me.sig \in delayed' \cup received',
               delayed \cup received \subseteq delayed' \cup received'
        PROVE  FALSE
    <3> DEFINE a == [Me EXCEPT !.pc = p]
    <3>1. a \in Activation /\ a.old = Me.old /\ a.sig = Me.sig /\ a.pc = p
      BY <1>1, <1>5 DEF Activation
    <3>2. stack' = [stack EXCEPT ![1] = a]
      BY <2>4 DEF GoTo, Me
    <3> HIDE DEF a
    <3>3. Activations' = {a} \cup T
      BY <1>1, <1>5, <3>1, <3>2, SetStep
    <3>4. s \in InFlight
      BY <1>2, <1>3, <1>4, <2>4
    <3>5. PICK b \in Activations : b.pc \in Early /\ s = b.sig
      BY <3>4, InFlightMember
    <3>6. b = Me
      BY <3>3, <3>5, <2>1, <1>3, InFlightMemberPrime
    <3>7. p \notin Early
      BY <3>1, <3>3, <3>5, <3>6, <1>3, InFlightMemberPrime
    <3>8. QED
      BY <3>5, <3>6, <3>7, <2>4, <1>3
  <2>5. CASE BlockManaged
    BY <2>5, <2>4 DEF BlockManaged, catcherFrame, CatcherPC, Early
  <2>6. CASE StartDelay
    BY <2>6, <2>4 DEF StartDelay, catcherFrame, CatcherPC
  <2>7. CASE LoadDelayed \/ StoreDelayed
    <3>1. Me \in Activations /\ Me.pc \in {"load", "store"}
      BY <2>1, <2>7 DEF LoadDelayed, StoreDelayed, Innermost, Me
    <3>2. QED
      BY <3>1 DEF NoTornUpdate
  <2>8. CASE BeginInterrupt
    BY <2>8, <2>4 DEF BeginInterrupt, catcherFrame, CatcherPC, Early
  <2>9. CASE SendAsync
    <3>1. GoTo("unblock") /\ Me.sig \in received' /\ delayed \cup received \subseteq delayed' \cup received'
      BY <2>9 DEF SendAsync, AsyncCall
    <3>2. "unblock" \in CatcherPC
      BY DEF CatcherPC
    <3>3. QED
      BY <3>1, <3>2, <2>4
  <2>10. CASE Unblock
    BY <2>10, <2>4 DEF Unblock, catcherFrame, CatcherPC, Early, Innermost, Me
  <2>11. CASE EndInterrupt
    BY <2>11, <2>4 DEF EndInterrupt, catcherFrame, CatcherPC, Early, Innermost, Me
  <2>12. QED
    BY <1>5, <2>2, <2>3, <2>5, <2>6, <2>7, <2>8, <2>9, <2>10, <2>11 DEF Catcher
<1>6. CASE \E x \in Signals : Raise(x)
  <2>1. UNCHANGED <<program, stack, delayed, received>>
    BY <1>6 DEF Raise, sigVars
  <2>2. InFlight' = InFlight
    BY <2>1, StackKept DEF InFlight
  <2>3. QED
    BY <2>1, <2>2, <1>2, <1>3, <1>4
<1>7. ASSUME NEW x \in Signals, Deliver(x) PROVE FALSE
  <2> DEFINE a == [sig |-> x, pc |-> "enter", old |-> mask, word |-> {}]
  <2>1. a \in Activation /\ a.pc = "enter" /\ stack' = <<a>> \o stack
    BY <1>7 DEF Deliver, Activation, CatcherPC, TypeOK
  <2> HIDE DEF a
  <2>2. Activations' = {a} \cup Activations
    BY <1>1, <2>1, PushStep
  <2>3. UNCHANGED <<delayed, received>>
    BY <1>7 DEF Deliver
  <2>4. s \in InFlight
    BY <2>3, <1>2, <1>3, <1>4
  <2>5. QED
    BY <2>2, <2>4, <1>3, InFlightMember, InFlightMemberPrime
<1>8. QED
  <2>1. Catcher => stack # <<>>
    BY DEF Catcher, BlockManaged, StartDelay, LoadDelayed, StoreDelayed, ReturnDeaf,
     BeginInterrupt, SendAsync, Unblock, EndInterrupt, Wake, Innermost
  <2>2. QED
    BY <2>1, <1>5, <1>6, <1>7 DEF Environment

(* With a one-instruction sigaddset no caught signal vanishes: it reaches  *)
(* its client, or the client or a window loop has given it up.             *)
THEOREM NothingVanishes == Spec => NoSignalVanishes
<1> DEFINE Kept == program.atomic =>
             \A s \in Held \ Held' : s \in queued \/ s \notin sync \cap sync' \/ deaf
<1>1. IInv /\ [Next]_vars => [Kept]_vars
  <2>1. SUFFICES ASSUME IInv, Next, program.atomic, NEW s \in Held, s \notin Held' PROVE Excused(s)
    BY DEF Excused
  <2>2. QED
    BY <2>1, MainKeeps, CatcherKeeps DEF Next
<1>2. QED
  BY <1>1, Invariance, PTL DEF Spec, NoSignalVanishes
=============================================================================
