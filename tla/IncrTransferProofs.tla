-------------------------- MODULE IncrTransferProofs --------------------------
(* Proofs about IncrTransfer, for data of any number of pieces: the types,  *)
(* the inductive invariant, and that the protocol implements a stream as    *)
(* long as the owner's convert_proc does not fail in the middle.            *)
EXTENDS IncrTransfer, SequenceTheorems, TLAPS

Kind == {"new", "delete", "cancel"}

(* A queue has one deletion at most, or none.                               *)
Single(q)   == \A i, j \in DOMAIN q : q[i].is = "delete" /\ q[j].is = "delete" => i = j
NoDelete(q) == \A i \in DOMAIN q : q[i].is # "delete"

-----------------------------------------------------------------------------
(* Lemmas: what the server and the programs do to a queue of events.       *)

(* Reading an event: what is left has no deletion more.                    *)
LEMMA Shorter ==
  ASSUME NEW q \in Seq(Event), q # <<>>
  PROVE  /\ Tail(q) \in Seq(Event) /\ Head(q) \in Event
         /\ Single(q) => Single(Tail(q))
         /\ NoDelete(q) => NoDelete(Tail(q)) /\ Head(q).is # "delete"
         /\ Single(q) /\ Head(q).is = "delete" => NoDelete(Tail(q))
<1> DEFINE t == Tail(q)
<1>1. /\ t \in Seq(Event) /\ Head(q) = q[1] /\ Len(q) \in Nat \ {0} /\ Len(t) = Len(q) - 1
      /\ \A i \in 1..Len(t) : t[i] = q[i + 1]
  BY HeadTailProperties, EmptySeq, LenProperties
<1>2. DOMAIN q = 1..Len(q) /\ DOMAIN t = 1..Len(t) /\ \A i \in 1..Len(q) : q[i] \in Event
  BY <1>1, LenProperties, ElementOfSeq
<1>3. \A i \in DOMAIN t : i + 1 \in DOMAIN q /\ i + 1 # 1 /\ t[i] = q[i + 1]
  BY <1>1, <1>2
<1>4. 1 \in DOMAIN q
  BY <1>1, <1>2
<1> HIDE DEF t
<1>5. Single(q) => Single(t)
  BY <1>3, <1>2 DEF Single
<1>6. NoDelete(q) => NoDelete(t) /\ Head(q).is # "delete"
  BY <1>1, <1>3, <1>4 DEF NoDelete
<1>7. Single(q) /\ Head(q).is = "delete" => NoDelete(t)
  BY <1>1, <1>3, <1>4 DEF Single, NoDelete
<1>8. QED
  BY <1>1, <1>2, <1>4, <1>5, <1>6, <1>7 DEF t

(* The events of a change, put behind the others.                          *)
Events(kinds) == [i \in DOMAIN kinds |-> [is |-> kinds[i], later |-> later]]

LEMMA Longer ==
  ASSUME later \in BOOLEAN, NEW q \in Seq(Event), NEW kinds \in Seq(Kind)
  PROVE  /\ Events(kinds) \in Seq(Event) /\ q \o Events(kinds) \in Seq(Event)
         /\ Len(q \o Events(kinds)) = Len(q) + Len(kinds)
         /\ \A i \in DOMAIN q : (q \o Events(kinds))[i] = q[i]
         /\ \A i \in DOMAIN kinds : (q \o Events(kinds))[Len(q) + i].is = kinds[i]
<1> DEFINE evs == Events(kinds)
<1>1. /\ Len(kinds) \in Nat /\ Len(q) \in Nat /\ DOMAIN kinds = 1..Len(kinds)
      /\ DOMAIN q = 1..Len(q) /\ \A i \in 1..Len(kinds) : kinds[i] \in Kind
  BY LenProperties, ElementOfSeq
<1>2. evs \in [1..Len(kinds) -> Event]
  BY <1>1 DEF Events, Event, Kind
<1>3. evs \in Seq(Event)
  BY <1>1, <1>2, SeqDef
<1>4. Len(evs) = Len(kinds)
  BY <1>1, <1>2, <1>3, LenProperties
<1>5. \A i \in DOMAIN kinds : evs[i].is = kinds[i]
  BY DEF Events
<1> HIDE DEF evs
<1>6. /\ q \o evs \in Seq(Event) /\ Len(q \o evs) = Len(q) + Len(evs)
      /\ \A i \in 1..(Len(q) + Len(evs)) :
           (q \o evs)[i] = IF i <= Len(q) THEN q[i] ELSE evs[i - Len(q)]
  BY <1>3, ConcatProperties
<1>7. \A i \in DOMAIN q : (q \o evs)[i] = q[i]
  BY <1>1, <1>4, <1>6
<1>8. \A i \in DOMAIN kinds : (q \o evs)[Len(q) + i] = evs[i]
  <2> TAKE i \in DOMAIN kinds
  <2>1. Len(q) + i \in 1..(Len(q) + Len(evs)) /\ ~(Len(q) + i <= Len(q)) /\ Len(q) + i - Len(q) = i
    BY <1>1, <1>4
  <2>2. QED
    BY <2>1, <1>6
<1>9. QED
  BY <1>3, <1>4, <1>5, <1>6, <1>7, <1>8 DEF evs

(* A new value leaves a queue without deletions so; a deletion makes one.   *)
LEMMA NewAdds ==
  ASSUME later \in BOOLEAN, NEW q \in Seq(Event)
  PROVE  /\ NoDelete(q) => NoDelete(q \o Events(<<"new">>))
         /\ NoDelete(q) => Single(q \o Events(<<"delete">>))
<1>1. <<"new">> \in Seq(Kind) /\ <<"delete">> \in Seq(Kind)
  BY DEF Kind
<1>2. /\ Len(<<"new">>) = 1 /\ DOMAIN <<"new">> = {1} /\ <<"new">>[1] = "new"
      /\ Len(<<"delete">>) = 1 /\ DOMAIN <<"delete">> = {1}
  OBVIOUS
<1>3. Len(q) \in Nat /\ DOMAIN q = 1..Len(q)
  BY LenProperties
<1> DEFINE n == q \o Events(<<"new">>)
           d == q \o Events(<<"delete">>)
<1>4. /\ n \in Seq(Event) /\ Len(n) = Len(q) + 1 /\ \A i \in DOMAIN q : n[i] = q[i]
      /\ n[Len(q) + 1].is = "new"
  <2>1. /\ n \in Seq(Event) /\ Len(n) = Len(q) + Len(<<"new">>)
        /\ \A i \in DOMAIN q : n[i] = q[i]
        /\ \A i \in DOMAIN <<"new">> : n[Len(q) + i].is = <<"new">>[i]
    BY ONLY later \in BOOLEAN, q \in Seq(Event), <1>1, Longer
  <2>2. n[Len(q) + 1].is = "new"
    BY <2>1, <1>2
  <2>3. QED
    BY <2>1, <2>2, <1>2
<1>5. /\ d \in Seq(Event) /\ Len(d) = Len(q) + 1 /\ \A i \in DOMAIN q : d[i] = q[i]
  BY <1>1, <1>2, Longer
<1>6. DOMAIN n = 1..(Len(q) + 1) /\ DOMAIN d = 1..(Len(q) + 1)
  BY <1>4, <1>5, LenProperties
<1> HIDE DEF n, d
<1>7. \A i \in 1..(Len(q) + 1) : i \in DOMAIN q \/ i = Len(q) + 1
  BY <1>3
<1>8. NoDelete(q) => NoDelete(n)
  BY <1>4, <1>6, <1>7 DEF NoDelete
<1>9. NoDelete(q) => Single(d)
  BY <1>5, <1>6, <1>7 DEF NoDelete, Single
<1>10. QED
  BY <1>8, <1>9 DEF n, d

LEMMA Changed ==
  ASSUME TypeOK, NEW v, NEW kinds \in Seq(Kind), NEW fo \in Seq(Event), NEW fr \in Seq(Event),
         Change(v, kinds, fo, fr)
  PROVE  /\ value' = v /\ ownerInput' = fo \o Events(kinds)
         /\ ownerInput' \in Seq(Event) /\ reqInput' \in Seq(Event)
<1>1. later \in BOOLEAN /\ masked \in BOOLEAN
  BY DEF TypeOK
<1>2. fo \o Events(kinds) \in Seq(Event) /\ fr \o Events(kinds) \in Seq(Event)
  BY <1>1, Longer
<1>3. QED
  BY <1>1, <1>2 DEF Change, Events

LEMMA Taken ==
  ASSUME TypeOK, NEW fr \in Seq(Event), Take(fr)
  PROVE  /\ value' = None /\ ownerInput' \in Seq(Event) /\ reqInput' \in Seq(Event)
         /\ value = None => ownerInput' = ownerInput
         /\ value # None => ownerInput' = ownerInput \o Events(<<"delete">>)
<1>1. <<"delete">> \in Seq(Kind) /\ ownerInput \in Seq(Event)
  BY DEF Kind, TypeOK
<1>2. CASE value = None
  BY <1>1, <1>2 DEF Take
<1>3. CASE value # None
  BY <1>1, <1>3, Changed DEF Take
<1>4. QED
  BY <1>2, <1>3

LEMMA Told ==
  ASSUME TypeOK, NEW v \in Values, Says(v)
  PROVE  /\ said' \in Values \cup {Nothing} /\ pieces' \in Seq(1..Chunks)
         /\ v.n > 0 => pieces' = Append(pieces, v.n)
         /\ ~(v.n > 0) => pieces' = pieces
<1>1. said \in Values \cup {Nothing} /\ pieces \in Seq(1..Chunks)
  BY DEF TypeOK
<1>2. v.n > 0 => v.type = "data" /\ v.n \in 1..Chunks
  BY TransferAssumption DEF Values, None, Incr, Data
<1>3. said' \in Values \cup {Nothing}
  BY <1>1 DEF Says
<1>4. CASE v.n > 0
  <2>1. pieces' = Append(pieces, v.n)
    BY <1>2, <1>4 DEF Says
  <2>2. Append(pieces, v.n) \in Seq(1..Chunks)
    BY ONLY <1>1, <1>2, <1>4, AppendProperties
  <2>3. QED
    BY <1>3, <1>4, <2>1, <2>2
<1>5. CASE ~(v.n > 0)
  BY <1>1, <1>3, <1>5 DEF Says
<1>6. QED
  BY <1>4, <1>5

-----------------------------------------------------------------------------
(* The types.                                                              *)

TypeInv == TypeOK /\ NextOrLast /\ (notified => owner.at # "asked")

(* The owner has sent the property of type INCR only after it was asked.   *)
LEMMA TypeInit == Init => TypeInv
<1> SUFFICES ASSUME Init PROVE TypeInv
  OBVIOUS
<1>1. Chunks \in Nat \ {0}
  BY TransferAssumption
<1>2. None \in Values /\ said \in Values \cup {Nothing}
  BY DEF Init, Values
<1>3. owner \in [at : {"asked", "wait"} \cup Over, next : 1..(Chunks + 1), last : BOOLEAN]
  <2>1. 1 \in 1..(Chunks + 1)
    BY <1>1
  <2>2. QED
    BY <2>1 DEF Init
<1>4. owner.next # Chunks + 1
  BY <1>1 DEF Init
<1>5. pieces \in Seq(1..Chunks) /\ ownerInput \in Seq(Event) /\ reqInput \in Seq(Event)
  BY DEF Init
<1>6. TypeOK
  BY <1>2, <1>3, <1>5 DEF Init, TypeOK
<1>7. QED
  BY <1>4, <1>6 DEF Init, TypeInv, NextOrLast

LEMMA PieceType ==
  ASSUME TypeInv
  PROVE  Piece \in Values
<1>1. Chunks \in Nat \ {0} /\ owner.next \in 1..(Chunks + 1)
      /\ (owner.next = Chunks + 1 => owner.last)
  BY TransferAssumption DEF TypeInv, TypeOK, NextOrLast
<1>2. ~owner.last => owner.next \in 0..Chunks
  BY <1>1
<1>3. 0 \in 0..Chunks
  BY <1>1
<1>4. QED
  BY <1>2, <1>3 DEF Piece, Values

LEMMA AdvanceType ==
  ASSUME TypeInv, owner.at = "wait", Advance
  PROVE  /\ owner' \in [at : {"asked", "wait"} \cup Over, next : 1..(Chunks + 1), last : BOOLEAN]
         /\ NextOrLast' /\ owner'.at # "asked"
<1> DEFINE Rec == [at : {"asked", "wait"} \cup Over, next : 1..(Chunks + 1), last : BOOLEAN]
<1>1. owner \in Rec /\ Chunks \in Nat \ {0} /\ MayTruncate \in BOOLEAN
      /\ (owner.next = Chunks + 1 => owner.last)
  BY TransferAssumption DEF TypeInv, TypeOK, NextOrLast
<1>2. CASE owner.last
  BY <1>1, <1>2 DEF Advance, Over, NextOrLast
<1>3. CASE ~owner.last
  <2>1. PICK last \in {owner.next = Chunks} \cup {b \in {TRUE} : MayTruncate} :
          owner' = [owner EXCEPT !.next = @ + 1, !.last = last]
    BY <1>3 DEF Advance
  <2>2. last \in BOOLEAN /\ (owner.next = Chunks => last)
    BY <2>1
  <2>3. owner.next \in 1..Chunks
    BY <1>1, <1>3
  <2>4. owner'.next = owner.next + 1 /\ owner'.last = last /\ owner'.at = owner.at
    BY <2>1, <1>1
  <2>5. owner' \in Rec
    <3>1. owner.next + 1 \in 1..(Chunks + 1)
      BY <2>3, <1>1
    <3>2. QED
      BY <2>1, <2>2, <3>1, <1>1
  <2>6. QED
    BY <2>2, <2>3, <2>4, <2>5, <1>1 DEF NextOrLast
<1>4. QED
  BY <1>2, <1>3

LEMMA TypeStep == TypeInv /\ [Next]_vars => TypeInv'
<1> SUFFICES ASSUME TypeInv, [Next]_vars PROVE TypeInv'
  OBVIOUS
<1> USE DEF TypeInv
<1>1. /\ <<"new">> \in Seq(Kind) /\ <<"delete">> \in Seq(Kind) /\ <<"cancel">> \in Seq(Kind)
      /\ <<"cancel", "new">> \in Seq(Kind)
  BY DEF Kind
<1>2. ownerInput \in Seq(Event) /\ reqInput \in Seq(Event) /\ None \in Values /\ Incr \in Values
  BY DEF TypeOK, Values
<1>3. <<>> \in Seq(Event)
  OBVIOUS
<1>4. CASE Converts
  <2>1. value' = Incr /\ ownerInput' \in Seq(Event) /\ reqInput' \in Seq(Event)
    BY <1>1, <1>2, <1>4, Changed DEF Converts
  <2>2. QED
    BY <1>2, <1>4, <2>1 DEF Converts, TypeOK, NextOrLast
<1>5. CASE OwnerEvent
  <2>1. Tail(ownerInput) \in Seq(Event)
    BY <1>2, <1>5, Shorter DEF OwnerEvent
  <2>2. CASE Head(ownerInput).is = "cancel"
    <3>1. owner' = [owner EXCEPT !.at = "failed"] /\ ownerInput' = Tail(ownerInput)
          /\ UNCHANGED <<value, reqInput>>
      BY <1>5, <2>2 DEF OwnerEvent
    <3>2. QED
      BY <1>5, <2>1, <3>1 DEF OwnerEvent, TypeOK, NextOrLast, Over
  <2>3. CASE Head(ownerInput).is # "cancel" /\ Deleted(Head(ownerInput))
    <3>1. Advance /\ Change(Piece, <<"new">>, Tail(ownerInput), reqInput) /\ owner.at = "wait"
      BY <1>5, <2>3 DEF OwnerEvent
    <3>2. value' = Piece /\ ownerInput' \in Seq(Event) /\ reqInput' \in Seq(Event)
      BY <1>1, <1>2, <2>1, <3>1, Changed
    <3>3. QED
      BY <1>5, <3>1, <3>2, PieceType, AdvanceType DEF OwnerEvent, TypeOK
  <2>4. CASE Head(ownerInput).is # "cancel" /\ ~Deleted(Head(ownerInput))
    BY <1>5, <2>1, <2>4 DEF OwnerEvent, TypeOK, NextOrLast
  <2>5. QED
    BY <2>2, <2>3, <2>4
<1>6. CASE OwnerStop
  <2>1. /\ Advance /\ Change(Piece, <<"cancel", "new">>, ownerInput, reqInput) /\ owner.at = "wait"
    BY <1>6 DEF OwnerStop
  <2>2. value' = Piece /\ ownerInput' \in Seq(Event) /\ reqInput' \in Seq(Event)
    BY <1>1, <1>2, <2>1, Changed
  <2>3. QED
    BY <1>6, <2>1, <2>2, PieceType, AdvanceType DEF OwnerStop, TypeOK
<1>7. CASE OwnerTimeout \/ OwnerGone("gone")
  BY <1>7 DEF OwnerTimeout, OwnerGone, TypeOK, NextOrLast, Over
<1>8. CASE Notified
  <2>1. Take(reqInput) \/ Take(<<>>)
    BY <1>8 DEF Notified
  <2>2. value' = None /\ ownerInput' \in Seq(Event) /\ reqInput' \in Seq(Event)
    BY <1>2, <1>3, <2>1, Taken
  <2>3. said' \in Values \cup {Nothing} /\ pieces' \in Seq(1..Chunks)
        /\ requestor' \in {"first", "done"}
    <3>1. CASE value = Incr
      BY <1>8, <3>1 DEF Notified, Silent, TypeOK
    <3>2. CASE value # Incr
      <4>1. Says(value) /\ value \in Values
        BY <1>8, <3>2 DEF Notified, TypeOK
      <4>2. QED
        BY <1>8, <3>2, <4>1, Told DEF Notified
    <3>3. QED
      BY <3>1, <3>2
  <2>4. QED
    BY <1>2, <1>8, <2>2, <2>3 DEF Notified, TypeOK, NextOrLast, Over
<1>9. CASE AddMask
  BY <1>9 DEF AddMask, TypeOK, NextOrLast
<1>10. CASE Start
  <2>1. value' = None /\ ownerInput' \in Seq(Event) /\ reqInput' \in Seq(Event)
    BY <1>2, <1>10, Taken DEF Start
  <2>2. said' \in Values \cup {Nothing} /\ pieces' \in Seq(1..Chunks)
    BY <1>10, Told DEF Start, TypeOK
  <2>3. QED
    BY <1>2, <1>10, <2>1, <2>2 DEF Start, TypeOK, NextOrLast
<1>11. CASE RequestorEvent
  <2>1. Tail(reqInput) \in Seq(Event)
    BY <1>2, <1>11, Shorter DEF RequestorEvent
  <2>2. CASE Head(reqInput).is = "cancel"
    BY <1>11, <2>1, <2>2 DEF RequestorEvent, TypeOK, NextOrLast, Over, Silent
  <2>3. CASE Head(reqInput).is # "cancel" /\ Head(reqInput).is = "new" /\ Head(reqInput).later
    <3>1. Take(Tail(reqInput)) /\ (IF value = None THEN Silent ELSE Says(value))
      BY <1>11, <2>3 DEF RequestorEvent
    <3>2. value' = None /\ ownerInput' \in Seq(Event) /\ reqInput' \in Seq(Event)
      BY <2>1, <3>1, Taken
    <3>3. said' \in Values \cup {Nothing} /\ pieces' \in Seq(1..Chunks)
      BY <3>1, Told DEF Silent, TypeOK
    <3>4. requestor' \in {"done", "wait"}
      BY <1>11, <2>3 DEF RequestorEvent
    <3>5. QED
      BY <1>2, <1>11, <3>2, <3>3, <3>4 DEF RequestorEvent, TypeOK, NextOrLast, Over
  <2>4. CASE Head(reqInput).is # "cancel" /\ ~(Head(reqInput).is = "new" /\ Head(reqInput).later)
    BY <1>11, <2>1, <2>4 DEF RequestorEvent, TypeOK, NextOrLast, Silent
  <2>5. QED
    BY <2>2, <2>3, <2>4
<1>12. CASE RequestorStop
  <2>1. value' = value /\ ownerInput' \in Seq(Event) /\ reqInput' \in Seq(Event)
    BY <1>1, <1>2, <1>12, Changed DEF RequestorStop
  <2>2. QED
    BY <1>12, <2>1 DEF RequestorStop, TypeOK, NextOrLast
<1>13. CASE RequestorTimeout \/ RequestorGone("gone")
  BY <1>13 DEF RequestorTimeout, RequestorGone, TypeOK, NextOrLast, Over
<1>14. CASE Tick
  BY <1>14 DEF Tick, TypeOK, NextOrLast
<1>15. CASE UNCHANGED vars
  BY <1>15 DEF vars, TypeOK, NextOrLast
<1>16. QED
  BY <1>4, <1>5, <1>6, <1>7, <1>8, <1>9, <1>10, <1>11, <1>12, <1>13, <1>14, <1>15 DEF Next, Going

(* All variables keep their types: the owner's place in its data never goes *)
(* past the end, also when the user stops it or a convert_proc fails.      *)
THEOREM TypeCorrect == Spec => []TypeOK
<1>1. Init => TypeInv
  BY TypeInit
<1>2. TypeInv /\ [Next]_vars => TypeInv'
  BY TypeStep
<1>3. TypeInv => TypeOK
  BY DEF TypeInv
<1>4. QED
  BY <1>1, <1>2, <1>3, PTL DEF Spec

-----------------------------------------------------------------------------
(* One token between the two programs.                                     *)

LEMMA OneTokenIs ==
  OneToken <=> Single(ownerInput) /\ (value # None => NoDelete(ownerInput))
  BY DEF OneToken, Single, NoDelete

Begins == ~notified => NotStarted /\ pieces = <<>>
Token  == Begins /\ OneToken

LEMMA TokenInit == Init => Token
  BY DEF Init, Token, Begins, NotStarted, OneToken

(* The value is replaced only by the one who has read that it was taken.    *)
LEMMA TokenStep ==
  ASSUME TypeInv, Token, [Next]_vars, stop = "never"
  PROVE  Token'
<1>1. /\ ownerInput \in Seq(Event) /\ reqInput \in Seq(Event) /\ later \in BOOLEAN
      /\ <<"new">> \in Seq(Kind) /\ <<>> \in Seq(Event) /\ TypeOK
  BY DEF TypeInv, TypeOK, Kind
<1>2. Single(ownerInput) /\ (value # None => NoDelete(ownerInput))
  BY OneTokenIs DEF Token
<1>3. ASSUME NEW fr \in Seq(Event), Take(fr)
      PROVE  Single(ownerInput') /\ value' = None
  <2>1. value # None => ownerInput' = ownerInput \o Events(<<"delete">>)
    BY <1>1, <1>3, Taken
  <2>2. value = None => ownerInput' = ownerInput
    BY <1>1, <1>3, Taken
  <2>3. value' = None
    BY <1>1, <1>3, Taken
  <2>4. NoDelete(ownerInput) => Single(ownerInput \o Events(<<"delete">>))
    BY <1>1, NewAdds
  <2>5. QED
    BY <1>2, <2>1, <2>2, <2>3, <2>4
<1>4. ASSUME Single(ownerInput'), value' # None => NoDelete(ownerInput')
      PROVE  OneToken'
  BY <1>4 DEF OneToken, Single, NoDelete
<1>6. CASE Converts
  <2>1. owner.at = "asked" /\ ~notified /\ ownerInput = <<>>
    BY <1>6 DEF Converts, TypeInv, Token, Begins, NotStarted
  <2>2. NoDelete(ownerInput)
    BY <2>1 DEF NoDelete
  <2>3. ownerInput' = ownerInput \o Events(<<"new">>)
    BY <1>1, <1>6, Changed DEF Converts
  <2>4. NoDelete(ownerInput')
    BY <1>1, <2>2, <2>3, NewAdds
  <2>5. Single(ownerInput') /\ notified'
    BY <2>4, <1>6 DEF Single, NoDelete, Converts
  <2>6. QED
    BY <1>4, <2>4, <2>5 DEF Token, Begins
<1>7. CASE OwnerEvent
  <2>1. notified /\ notified'
    BY <1>7 DEF OwnerEvent, Token, Begins, NotStarted
  <2>2. ownerInput # <<>>
    BY <1>7 DEF OwnerEvent
  <2>3. CASE Head(ownerInput).is # "cancel" /\ Deleted(Head(ownerInput))
    <3>1. NoDelete(Tail(ownerInput)) /\ Tail(ownerInput) \in Seq(Event)
      BY <1>1, <1>2, <2>2, <2>3, Shorter DEF Deleted
    <3>2. ownerInput' = Tail(ownerInput) \o Events(<<"new">>)
      BY <1>1, <1>7, <2>3, <3>1, Changed DEF OwnerEvent
    <3>3. NoDelete(ownerInput')
      BY <1>1, <3>1, <3>2, NewAdds
    <3>4. Single(ownerInput')
      BY <3>3 DEF Single, NoDelete
    <3>5. QED
      BY <1>4, <2>1, <3>3, <3>4 DEF Token, Begins
  <2>4. CASE ~(Head(ownerInput).is # "cancel" /\ Deleted(Head(ownerInput)))
    <3>1. ownerInput' = Tail(ownerInput) /\ value' = value
      BY <1>7, <2>4 DEF OwnerEvent
    <3>2. Single(ownerInput') /\ (value' # None => NoDelete(ownerInput'))
      BY <1>1, <1>2, <2>2, <3>1, Shorter
    <3>3. QED
      BY <1>4, <2>1, <3>2 DEF Token, Begins
  <2>5. QED
    BY <2>3, <2>4
<1>8. CASE Notified
  <2>1. Single(ownerInput') /\ value' = None
    BY <1>1, <1>3, <1>8 DEF Notified
  <2>2. notified'
    BY <1>8 DEF Notified
  <2>3. QED
    BY <1>4, <2>1, <2>2 DEF Token, Begins
<1>9. CASE Start
  <2>1. Single(ownerInput') /\ value' = None
    BY <1>1, <1>3, <1>9 DEF Start
  <2>2. notified'
    BY <1>9 DEF Start, Token, Begins, NotStarted
  <2>3. QED
    BY <1>4, <2>1, <2>2 DEF Token, Begins
<1>10. CASE RequestorEvent
  <2>1. notified'
    BY <1>10 DEF RequestorEvent, Token, Begins, NotStarted
  <2>2. CASE Head(reqInput).is # "cancel" /\ Head(reqInput).is = "new" /\ Head(reqInput).later
    <3>1. Tail(reqInput) \in Seq(Event)
      BY <1>1, <1>10, Shorter DEF RequestorEvent
    <3>2. Single(ownerInput') /\ value' = None
      BY <1>3, <1>10, <2>2, <3>1 DEF RequestorEvent
    <3>3. QED
      BY <1>4, <2>1, <3>2 DEF Token, Begins
  <2>3. CASE ~(Head(reqInput).is # "cancel" /\ Head(reqInput).is = "new" /\ Head(reqInput).later)
    <3>1. UNCHANGED <<value, ownerInput>>
      BY <1>10, <2>3 DEF RequestorEvent
    <3>2. QED
      BY <1>2, <1>4, <2>1, <3>1 DEF Token, Begins
  <2>4. QED
    BY <2>2, <2>3
<1>11. CASE OwnerTimeout \/ OwnerGone("gone") \/ AddMask \/ RequestorTimeout \/ RequestorGone("gone")
            \/ Tick \/ UNCHANGED vars
  <2>1. UNCHANGED <<value, ownerInput, notified, pieces>>
    BY <1>11 DEF OwnerTimeout, OwnerGone, AddMask, RequestorTimeout, RequestorGone, Tick, vars
  <2>2. ASSUME ~notified PROVE NotStarted'
    <3>1. NotStarted
      BY <2>2 DEF Token, Begins
    <3>2. owner' = owner \/ owner' = [owner EXCEPT !.at = "gone"]
      BY <1>11, <3>1 DEF NotStarted, OwnerTimeout, OwnerGone, AddMask, RequestorTimeout,
                         RequestorGone, Tick, vars
    <3>3. owner'.at \in {"asked", "gone"} /\ owner'.next = 1 /\ owner'.last = FALSE
      BY <3>1, <3>2 DEF NotStarted, TypeInv, TypeOK
    <3>4. requestor' \in {requestor, "failed", "gone"}
      BY <1>11, <3>1 DEF NotStarted, OwnerTimeout, OwnerGone, AddMask, RequestorTimeout,
                         RequestorGone, Tick, vars
    <3>5. QED
      BY <2>1, <3>1, <3>3, <3>4 DEF NotStarted
  <2>3. Begins'
    BY <2>1, <2>2 DEF Token, Begins
  <2>4. QED
    BY <1>2, <1>4, <2>1, <2>3 DEF Token
<1>12. CASE OwnerStop \/ RequestorStop
  BY <1>12 DEF OwnerStop, RequestorStop
<1>13. QED
  BY <1>6, <1>7, <1>8, <1>9, <1>10, <1>11, <1>12 DEF Next, Going

-----------------------------------------------------------------------------
(* The pieces in their order.                                              *)

LEMMA OrderInit == Init => InOrder
<1> SUFFICES ASSUME Init PROVE InOrder
  OBVIOUS
<1>1. value.n = 0 /\ value # Data(0) /\ Len(pieces) = 0 /\ DOMAIN pieces = {} /\ owner.next = 1
  BY DEF Init, None, Data
<1>2. QED
  BY <1>1 DEF Init, InOrder

LEMMA ValueIs ==
  ASSUME TypeInv
  PROVE  /\ value.n \in 0..Chunks /\ Chunks \in Nat \ {0} /\ Len(pieces) \in Nat
         /\ owner.next \in 1..(Chunks + 1) /\ pieces \in Seq(1..Chunks)
         /\ value.n > 0 => value = Data(value.n)
         /\ value.n > 0 => value # None /\ value # Incr /\ value # Data(0)
<1>1. Chunks \in Nat \ {0} /\ value \in Values /\ pieces \in Seq(1..Chunks)
      /\ owner.next \in 1..(Chunks + 1)
  BY TransferAssumption DEF TypeInv, TypeOK
<1>2. value.n \in 0..Chunks /\ (value.n > 0 => value = Data(value.n))
  BY <1>1 DEF Values, None, Incr, Data
<1>3. QED
  BY <1>1, <1>2 DEF None, Incr, Data

(* What taking and telling a value does to the order.                      *)
LEMMA Reading ==
  ASSUME TypeInv, InOrder, value' = None, owner' = owner,
         value.n > 0 => pieces' = Append(pieces, value.n),
         ~(value.n > 0) => pieces' = pieces
  PROVE  /\ \A i \in DOMAIN pieces' : pieces'[i] = i
         /\ owner'.last => owner'.next = Chunks + 1
         /\ ~(value'.n > 0) /\ owner'.next = Len(pieces') + 1
         /\ value' # Data(0)
         /\ value.n > 0 => Len(pieces) < Chunks /\ pieces' = Append(pieces, Len(pieces) + 1)
<1>1. value'.n = 0 /\ value' # Data(0)
  BY DEF None, Data
<1>2. CASE value.n > 0
  <2>1. pieces' = Append(pieces, Len(pieces) + 1) /\ owner.next = Len(pieces) + 2
        /\ Len(pieces) < Chunks
    BY <1>2, ValueIs DEF InOrder
  <2>2. /\ Len(pieces') = Len(pieces) + 1 /\ DOMAIN pieces' = 1..(Len(pieces) + 1)
        /\ \A i \in 1..Len(pieces) : pieces'[i] = pieces[i]
        /\ pieces'[Len(pieces) + 1] = Len(pieces) + 1
    BY <2>1, ValueIs, AppendProperties, LenProperties
  <2>3. \A i \in DOMAIN pieces' : pieces'[i] = i
    BY <2>2, ValueIs DEF InOrder
  <2>4. QED
    BY <1>1, <2>1, <2>2, <2>3, ValueIs DEF InOrder
<1>3. CASE ~(value.n > 0)
  BY <1>1, <1>3, ValueIs DEF InOrder
<1>4. QED
  BY <1>2, <1>3

(* A new piece is the next one that the requestor has not been given.      *)
LEMMA OrderStep ==
  ASSUME TypeInv, Token, InOrder, [Next]_vars, stop = "never", MayTruncate = FALSE
  PROVE  InOrder'
<1>1. /\ ownerInput \in Seq(Event) /\ reqInput \in Seq(Event) /\ <<>> \in Seq(Event)
      /\ <<"new">> \in Seq(Kind) /\ value \in Values /\ TypeOK
  BY DEF TypeInv, TypeOK, Kind
<1>2. CASE Converts
  <2>1. value = None /\ value' = Incr /\ UNCHANGED pieces /\ owner' = [owner EXCEPT !.at = "wait"]
        /\ UNCHANGED requestor
    BY <1>1, <1>2, Changed DEF Converts, TypeInv, Token, Begins, NotStarted
  <2>2. owner'.next = owner.next /\ owner'.last = owner.last
    BY <2>1, <1>1 DEF TypeOK
  <2>3. value.n = 0 /\ value'.n = 0 /\ value' # Data(0)
    BY <2>1 DEF None, Incr, Data
  <2>4. QED
    BY <2>1, <2>2, <2>3 DEF InOrder
<1>3. CASE OwnerEvent
  <2>1. ownerInput # <<>> /\ UNCHANGED <<pieces, requestor, notified>>
    BY <1>3 DEF OwnerEvent
  <2>2. CASE Head(ownerInput).is # "cancel" /\ Deleted(Head(ownerInput))
    <3>1. Advance /\ value' = Piece
      BY <1>1, <1>3, <2>1, <2>2, Shorter, Changed DEF OwnerEvent
    <3>2. value = None
      <4>1. 1 \in DOMAIN ownerInput /\ ownerInput[1].is = "delete"
        BY <1>1, <2>1, <2>2, HeadTailProperties, EmptySeq, LenProperties DEF Deleted
      <4>2. QED
        BY <4>1 DEF Token, OneToken
    <3>3. owner.next = Len(pieces) + 1 /\ ~(requestor = "asked" /\ notified)
      BY <3>2 DEF InOrder, None, Incr
    <3>4. CASE owner.last
      <4>1. value' = Data(0) /\ owner' = [owner EXCEPT !.at = "done"]
        BY <3>1, <3>4 DEF Piece, Advance
      <4>2. value'.n = 0 /\ owner'.next = owner.next /\ owner'.last = owner.last
        BY <4>1, <1>1 DEF Data, TypeOK
      <4>3. Len(pieces) = Chunks
        BY <3>3, <3>4, ValueIs DEF InOrder
      <4>4. QED
        BY <2>1, <3>3, <4>1, <4>2, <4>3, ValueIs DEF InOrder
    <3>5. CASE ~owner.last
      <4>1. value' = Data(owner.next)
            /\ owner' = [owner EXCEPT !.next = @ + 1, !.last = (owner.next = Chunks)]
        BY <3>1, <3>5 DEF Piece, Advance
      <4>2. owner'.next = owner.next + 1 /\ owner'.last = (owner.next = Chunks)
        BY <4>1, <1>1 DEF TypeOK
      <4>3. value'.n = owner.next /\ owner.next > 0 /\ value' # Data(0)
        BY <4>1, ValueIs DEF Data
      <4>4. QED
        BY <2>1, <3>3, <4>2, <4>3, ValueIs DEF InOrder
    <3>6. QED
      BY <3>4, <3>5
  <2>3. CASE ~(Head(ownerInput).is # "cancel" /\ Deleted(Head(ownerInput)))
    <3>1. UNCHANGED value /\ (owner' = owner \/ owner' = [owner EXCEPT !.at = "failed"])
      BY <1>3, <2>3 DEF OwnerEvent
    <3>2. owner'.next = owner.next /\ owner'.last = owner.last
      BY <3>1, <1>1 DEF TypeOK
    <3>3. QED
      BY <2>1, <3>1, <3>2 DEF InOrder
  <2>4. QED
    BY <2>2, <2>3
<1>4. CASE Notified
  <2>1. value = Incr /\ UNCHANGED <<pieces, owner>> /\ requestor' = "first"
    BY <1>4 DEF Notified, InOrder, Silent
  <2>2. value' = None /\ value.n = 0
    BY <1>1, <1>4, <2>1, Taken DEF Notified, Incr
  <2>3. QED
    BY <2>1, <2>2, Reading DEF InOrder
<1>5. CASE Start
  <2>1. value' = None /\ owner' = owner /\ requestor' = "wait"
        /\ (value.n > 0 => pieces' = Append(pieces, value.n)) /\ (~(value.n > 0) => pieces' = pieces)
    BY <1>1, <1>5, Taken, Told DEF Start
  <2>2. QED
    BY <2>1, Reading DEF InOrder
<1>6. CASE RequestorEvent
  <2>1. owner' = owner /\ requestor = "wait" /\ reqInput # <<>>
    BY <1>6 DEF RequestorEvent
  <2>2. CASE Head(reqInput).is # "cancel" /\ Head(reqInput).is = "new" /\ Head(reqInput).later
    <3>1. Take(Tail(reqInput)) /\ Tail(reqInput) \in Seq(Event)
      BY <1>1, <1>6, <2>1, <2>2, Shorter DEF RequestorEvent
    <3>2. value' = None
      BY <1>1, <3>1, Taken
    <3>3. (value.n > 0 => pieces' = Append(pieces, value.n)) /\ (~(value.n > 0) => pieces' = pieces)
      <4>1. CASE value = None
        BY <1>6, <2>2, <4>1 DEF RequestorEvent, Silent, None
      <4>2. CASE value # None
        BY <1>1, <1>6, <2>2, <4>2, Told DEF RequestorEvent
      <4>3. QED
        BY <4>1, <4>2
    <3>4. requestor' = IF value = Data(0) THEN "done" ELSE "wait"
      BY <1>6, <2>2 DEF RequestorEvent, Ends
    <3>5. requestor' = "done" => Len(pieces') = Chunks
      BY <3>3, <3>4, ValueIs DEF InOrder
    <3>6. QED
      BY <2>1, <3>2, <3>3, <3>4, <3>5, Reading DEF InOrder
  <2>3. CASE ~(Head(reqInput).is # "cancel" /\ Head(reqInput).is = "new" /\ Head(reqInput).later)
    <3>1. UNCHANGED <<value, pieces>> /\ requestor' \in {"failed", "wait"}
      BY <1>6, <2>1, <2>3 DEF RequestorEvent, Silent
    <3>2. QED
      BY <2>1, <3>1 DEF InOrder
  <2>4. QED
    BY <2>2, <2>3
<1>7. CASE OwnerTimeout \/ OwnerGone("gone") \/ AddMask \/ RequestorTimeout \/ RequestorGone("gone")
            \/ Tick \/ UNCHANGED vars
  <2>1. UNCHANGED <<value, pieces, notified>> /\ requestor' \in {requestor, "start", "failed", "gone"}
    BY <1>7 DEF OwnerTimeout, OwnerGone, AddMask, RequestorTimeout, RequestorGone, Tick, vars
  <2>2. owner' \in {owner, [owner EXCEPT !.at = "failed"], [owner EXCEPT !.at = "gone"]}
    BY <1>7 DEF OwnerTimeout, OwnerGone, AddMask, RequestorTimeout, RequestorGone, Tick, vars
  <2>3. owner'.next = owner.next /\ owner'.last = owner.last
    BY <1>1, <2>2 DEF TypeOK
  <2>4. QED
    BY <2>1, <2>3 DEF InOrder
<1>8. CASE OwnerStop \/ RequestorStop
  BY <1>8 DEF OwnerStop, RequestorStop
<1>9. QED
  BY <1>2, <1>3, <1>4, <1>5, <1>6, <1>7, <1>8 DEF Next, Going

-----------------------------------------------------------------------------
(* The theorems.                                                           *)

LEMMA Inductive == IInv /\ [Next]_vars => IInv'
<1> SUFFICES ASSUME IInv, [Next]_vars PROVE IInv'
  OBVIOUS
<1>1. TypeInv
  BY DEF IInv, TypeInv
<1>2. TypeInv'
  BY <1>1, TypeStep
<1>3. stop' = "never" => stop = "never"
  BY DEF Next, Going, vars, Converts, OwnerEvent, OwnerStop, OwnerTimeout, OwnerGone, Notified,
         AddMask, Start, RequestorEvent, RequestorStop, RequestorTimeout, RequestorGone, Tick
<1>4. ASSUME stop = "never" PROVE Token /\ (~MayTruncate => InOrder)
  BY <1>4 DEF IInv, Token, Begins
<1>5. stop = "never" => Token'
  BY <1>1, <1>4, TokenStep
<1>6. stop = "never" /\ ~MayTruncate => InOrder'
  BY <1>1, <1>4, OrderStep, TransferAssumption
<1>7. QED
  BY <1>2, <1>3, <1>5, <1>6 DEF IInv, TypeInv, Token, Begins

(* The inductive invariant: between the two programs there is one token, a *)
(* value to be taken or the news that it was; with an owner that does not  *)
(* fail in the middle, the next piece is the one the requestor lacks.      *)
THEOREM Invariance == Spec => []IInv
<1>1. Init => IInv
  BY TypeInit, TokenInit, OrderInit DEF IInv, TypeInv, Token, Begins
<1>2. IInv /\ [Next]_vars => IInv'
  BY Inductive
<1>3. QED
  BY <1>1, <1>2, PTL DEF Spec

(* A step of the programs is a step of the stream, or none.                *)
LEMMA Simulates ==
  ASSUME IInv, [Next]_vars, MayTruncate = FALSE
  PROVE  [Implements!Next]_(Implements!vars)
<1>1. TypeInv /\ TypeOK
  BY DEF IInv, TypeInv
<1>2. CASE stop # "never"
  <2>1. stop' # "never"
    BY <1>2 DEF Next, Going, vars, Converts, OwnerEvent, OwnerStop, OwnerTimeout, OwnerGone, Notified,
                AddMask, Start, RequestorEvent, RequestorStop, RequestorTimeout, RequestorGone, Tick
  <2>2. QED
    BY <1>2, <2>1 DEF Implements!vars
<1>3. CASE stop = "never"
  <2>1. stop' = "never"
    BY <1>3 DEF Next, Going, vars, Converts, OwnerEvent, OwnerStop, OwnerTimeout, OwnerGone, Notified,
                AddMask, Start, RequestorEvent, RequestorStop, RequestorTimeout, RequestorGone, Tick
  <2>2. InOrder /\ Token
    BY <1>3 DEF IInv, Token, Begins
  <2>3. ASSUME UNCHANGED pieces, Outcome' = Outcome PROVE [Implements!Next]_(Implements!vars)
    BY <1>3, <2>1, <2>3 DEF Implements!vars
  <2>4. ASSUME Outcome = "open", UNCHANGED pieces, Outcome' = "failed"
        PROVE  [Implements!Next]_(Implements!vars)
    BY <1>3, <2>1, <2>4 DEF Implements!Next, Implements!Fail
  <2>5. ASSUME Outcome = "open", Outcome' = "open", value' = None, owner' = owner,
               value.n > 0 => pieces' = Append(pieces, value.n),
               ~(value.n > 0) => pieces' = pieces
        PROVE  [Implements!Next]_(Implements!vars)
    <3>1. CASE value.n > 0
      <4>1. Len(pieces) < Chunks /\ pieces' = Append(pieces, Len(pieces) + 1)
        BY <1>1, <2>2, <2>5, <3>1, Reading
      <4>2. QED
        BY <1>3, <2>1, <2>5, <4>1 DEF Implements!Next, Implements!Receive
    <3>2. CASE ~(value.n > 0)
      BY <2>3, <2>5, <3>2
    <3>3. QED
      BY <3>1, <3>2
  <2>6. CASE Notified
    <3>1. requestor = "asked" /\ requestor' = "first" /\ UNCHANGED pieces
      BY <2>2, <2>6 DEF Notified, InOrder, Silent
    <3>2. QED
      BY <2>3, <3>1 DEF Outcome
  <2>7. CASE Start
    <3>1. Take(reqInput) /\ Says(value) /\ reqInput \in Seq(Event) /\ value \in Values
          /\ requestor = "start" /\ requestor' = "wait" /\ owner' = owner
      BY <1>1, <2>7 DEF Start, TypeOK
    <3>2. QED
      BY <1>1, <2>5, <3>1, Taken, Told DEF Outcome
  <2>8. CASE RequestorEvent
    <3>1. requestor = "wait" /\ owner' = owner /\ reqInput \in Seq(Event) /\ reqInput # <<>>
          /\ value \in Values
      BY <1>1, <2>8 DEF RequestorEvent, TypeOK
    <3>2. CASE Head(reqInput).is = "cancel"
      <4>1. requestor' = "failed" /\ UNCHANGED pieces
        BY <2>8, <3>2 DEF RequestorEvent, Silent
      <4>2. QED
        BY <2>4, <3>1, <4>1 DEF Outcome
    <3>3. CASE Head(reqInput).is # "cancel" /\ Head(reqInput).is = "new" /\ Head(reqInput).later
      <4>1. Take(Tail(reqInput)) /\ (IF value = None THEN Silent ELSE Says(value))
            /\ requestor' = IF value = Data(0) THEN "done" ELSE "wait"
        BY <2>8, <3>3 DEF RequestorEvent, Ends
      <4>2. value' = None
        BY <1>1, <3>1, <4>1, Shorter, Taken
      <4>3. /\ value.n > 0 => pieces' = Append(pieces, value.n)
            /\ ~(value.n > 0) => pieces' = pieces
        <5>1. CASE value = None
          BY <4>1, <5>1 DEF Silent, None
        <5>2. CASE value # None
          BY <1>1, <3>1, <4>1, <5>2, Told
        <5>3. QED
          BY <5>1, <5>2
      <4>4. CASE value = Data(0)
        <5>1. Len(pieces) = Chunks /\ UNCHANGED pieces
          BY <2>2, <4>3, <4>4 DEF InOrder, Data
        <5>2. Outcome = "open" /\ Outcome' = "done"
          BY <3>1, <4>1, <4>4 DEF Outcome
        <5>3. QED
          BY <1>3, <2>1, <5>1, <5>2 DEF Implements!Next, Implements!End
      <4>5. CASE value # Data(0)
        BY <2>5, <3>1, <4>1, <4>2, <4>3, <4>5 DEF Outcome
      <4>6. QED
        BY <4>4, <4>5
    <3>4. CASE ~(Head(reqInput).is # "cancel" /\ Head(reqInput).is = "new" /\ Head(reqInput).later)
               /\ Head(reqInput).is # "cancel"
      BY <2>3, <2>8, <3>4 DEF RequestorEvent, Silent, Outcome
    <3>5. QED
      BY <3>2, <3>3, <3>4
  <2>9. CASE RequestorTimeout \/ RequestorGone("gone")
    <3>1. requestor \notin Over /\ requestor' \in {"failed", "gone"} /\ UNCHANGED pieces
      BY <2>9 DEF RequestorTimeout, RequestorGone
    <3>2. Outcome = "open" /\ Outcome' = "failed"
      BY <3>1 DEF Outcome, Over
    <3>3. QED
      BY <2>4, <3>1, <3>2
  <2>10. CASE AddMask
    BY <2>3, <2>10 DEF AddMask, Outcome
  <2>11. CASE Converts \/ OwnerEvent \/ OwnerTimeout \/ OwnerGone("gone") \/ Tick \/ UNCHANGED vars
    <3>1. UNCHANGED <<pieces, requestor>>
      BY <2>11 DEF Converts, OwnerEvent, OwnerTimeout, OwnerGone, Tick, vars
    <3>2. QED
      BY <2>3, <3>1 DEF Outcome
  <2>12. CASE OwnerStop \/ RequestorStop
    BY <1>3, <2>12 DEF OwnerStop, RequestorStop
  <2>13. QED
    BY <2>6, <2>7, <2>8, <2>9, <2>10, <2>11, <2>12 DEF Next, Going
<1>4. QED
  BY <1>2, <1>3

(* The protocol of check_incr_prop, SendIncr and ProcessIncr implements a  *)
(* stream: however the events of the two programs interleave with their    *)
(* timeouts and deaths, the requestor is given each piece once and in      *)
(* order, and told the end only when it has them all.                      *)
THEOREM ImplementsStream == MayTruncate = FALSE => (Spec => IsStream)
<1> SUFFICES ASSUME MayTruncate = FALSE PROVE Spec => IsStream
  OBVIOUS
<1>1. Init => Implements!Init
  BY DEF Init, Implements!Init, Outcome
<1>2. IInv /\ [Next]_vars => [Implements!Next]_(Implements!vars)
  BY Simulates
<1>3. Spec => []IInv
  BY Invariance
<1>4. QED
  BY <1>1, <1>2, <1>3, PTL DEF Spec, IsStream, Implements!Spec
==============================================================================
