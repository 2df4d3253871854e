--------------------------- MODULE PieceStreamProofs ---------------------------
(* Proofs about PieceStream, for any lengths, bounds and numbers of marks. *)
EXTENDS PieceStream, SequenceTheorems, WellFoundedInduction, TLAPS

-----------------------------------------------------------------------------
(* Induction, over sets of numbers and without operators.                  *)

LEMMA Least ==
  ASSUME NEW T, T \subseteq Nat, T # {}
  PROVE  \E x \in T : \A y \in T : x <= y
<1>1. IsWellFoundedOn(OpToRel(<, Nat), Nat)
  BY NatLessThanWellFounded
<1>2. PICK x \in T : \A y \in T : ~ (<<y, x>> \in OpToRel(<, Nat))
  BY <1>1, WFMin
<1>3. \A m, n \in Nat : m < n => <<m, n>> \in OpToRel(<, Nat)
  BY DEF OpToRel
<1>4. \A y \in T : ~ (y < x)
  BY <1>2, <1>3
<1> QED BY <1>4

LEMMA Induct ==
  ASSUME NEW n \in Nat, NEW T, 0 \in T, \A k \in Nat : k < n /\ k \in T => k + 1 \in T
  PROVE  \A k \in 0..n : k \in T
<1> DEFINE Bad == {k \in 0..n : k \notin T}
<1>1. ASSUME Bad # {} PROVE FALSE
  <2>1. Bad \subseteq Nat
    OBVIOUS
  <2>2. PICK k \in Bad : \A m \in Bad : k <= m
    BY <1>1, <2>1, Least
  <2>3. k # 0 /\ k - 1 \in Nat /\ k - 1 < n /\ k - 1 \notin Bad
    BY <2>2
  <2>4. k - 1 \in T /\ (k - 1) + 1 = k
    BY <2>3
  <2> QED BY <2>2, <2>3, <2>4
<1> QED BY <1>1

-----------------------------------------------------------------------------
(* Tables of pieces.                                                       *)

(* A piece whose characters are all within the bound, and one that may be  *)
(* anywhere.                                                               *)
Bits == {p \in [pos : Nat, len : Nat, src : Source, off : Nat] : p.off + p.len <= MaxLength}
Rows == {p \in [pos : Int, len : Nat, src : Source, off : Nat] : p.off + p.len <= MaxLength}

(* Where the first i pieces of a table that begins at a end.               *)
Cut(ps, a, i) == IF i = 0 THEN a ELSE End(ps[i])

(* A table without gap, overlap or empty piece from a to b.                *)
Lies(ps, a, b) ==
  /\ ps \in Seq(Bits) /\ a \in Nat /\ b \in Nat
  /\ \A i \in 1..Len(ps) : ps[i].len > 0 /\ ps[i].pos = Cut(ps, a, i - 1)
  /\ Cut(ps, a, Len(ps)) = b

(* Its pieces are those of a text.                                         *)
Shows(ps, text) ==
  \A i \in 1..Len(ps) : \A k \in 1..ps[i].len :
    text[ps[i].pos + k] = <<ps[i].src, ps[i].off + k>>

(* Two pieces of it meet at x, or it begins or ends there.                 *)
Meets(ps, a, x) == \E i \in 0..Len(ps) : Cut(ps, a, i) = x

LEMMA BitsAreRows == Bits \subseteq Rows /\ Seq(Bits) \subseteq Seq(Rows)
<1>1. Bits \subseteq Rows
  BY DEF Bits, Rows
<1>2. ASSUME NEW s \in Seq(Bits) PROVE s \in Seq(Rows)
  <2>1. Len(s) \in Nat /\ s \in [1..Len(s) -> Bits]
    BY LenProperties
  <2>2. s \in [1..Len(s) -> Rows]
    BY <2>1, <1>1
  <2> QED BY <2>1, <2>2
<1> QED BY <1>1, <1>2

LEMMA BitIs ==
  ASSUME NEW p \in Bits
  PROVE  /\ p.pos \in Nat /\ p.len \in Nat /\ p.src \in Source /\ p.off \in Nat
         /\ p.off + p.len <= MaxLength /\ End(p) \in Nat /\ End(p) = p.pos + p.len
BY DEF Bits, End

LEMMA CutIs ==
  ASSUME NEW ps, NEW a, NEW b, Lies(ps, a, b)
  PROVE  /\ Len(ps) \in Nat /\ ps \in Seq(Bits) /\ a \in Nat /\ b \in Nat
         /\ \A i \in 1..Len(ps) : ps[i] \in Bits
         /\ \A i \in 0..Len(ps) : Cut(ps, a, i) \in Nat
         /\ \A i \in 1..Len(ps) : /\ Cut(ps, a, i) = Cut(ps, a, i - 1) + ps[i].len
                                  /\ ps[i].len \in Nat \ {0} /\ ps[i].pos = Cut(ps, a, i - 1)
                                  /\ ps[i].pos \in Nat
                                  /\ End(ps[i]) = Cut(ps, a, i)
<1>1. Len(ps) \in Nat /\ ps \in Seq(Bits) /\ a \in Nat /\ b \in Nat
  BY LenProperties DEF Lies
<1>2. \A i \in 1..Len(ps) : ps[i] \in Bits
  BY <1>1, ElementOfSeq
<1>3. \A i \in 1..Len(ps) : /\ ps[i].pos \in Nat /\ ps[i].len \in Nat /\ End(ps[i]) \in Nat
                            /\ End(ps[i]) = ps[i].pos + ps[i].len
  BY <1>2, BitIs
<1>4. \A i \in 1..Len(ps) : ps[i].len > 0 /\ ps[i].pos = Cut(ps, a, i - 1)
  BY DEF Lies
<1>5. \A i \in 1..Len(ps) : Cut(ps, a, i) = End(ps[i])
  BY <1>1 DEF Cut
<1>6. \A i \in 0..Len(ps) : Cut(ps, a, i) \in Nat
  BY <1>1, <1>3 DEF Cut
<1> QED BY <1>1, <1>2, <1>3, <1>4, <1>5, <1>6

LEMMA Ordered ==
  ASSUME NEW ps, NEW a, NEW b, Lies(ps, a, b)
  PROVE  /\ \A i, j \in 0..Len(ps) : i < j => Cut(ps, a, i) < Cut(ps, a, j)
         /\ \A i \in 0..Len(ps) : a <= Cut(ps, a, i) /\ Cut(ps, a, i) <= b
         /\ (ps = <<>>) <=> (a = b)
<1> DEFINE n == Len(ps)
           c(i) == Cut(ps, a, i)
<1>1. /\ n \in Nat /\ a \in Nat /\ b \in Nat /\ ps \in Seq(Bits)
      /\ \A i \in 0..n : c(i) \in Nat
      /\ \A i \in 1..n : c(i) = c(i - 1) + ps[i].len /\ ps[i].len \in Nat \ {0}
  BY CutIs
<1>2. c(0) = a /\ c(n) = b
  BY DEF Cut, Lies
<1> HIDE DEF c, n
<1>3. \A i \in Nat : i < n => c(i) < c(i + 1)
  <2> TAKE i \in Nat
  <2> HAVE i < n
  <2>1. i + 1 \in 1..n /\ i \in 0..n /\ i + 1 \in 0..n /\ (i + 1) - 1 = i
    BY <1>1
  <2>2. c(i + 1) = c(i) + ps[i + 1].len /\ ps[i + 1].len \in Nat \ {0} /\ c(i) \in Nat
    BY <2>1, <1>1
  <2> QED BY <2>2
<1> DEFINE T == {k \in 0..n : \A i \in 0..k : i < k => c(i) < c(k)}
<1>4. \A k \in 0..n : k \in T
  <2>1. 0 \in T
    BY <1>1
  <2>2. ASSUME NEW k \in Nat, k < n, k \in T PROVE k + 1 \in T
    <3>1. k \in 0..n /\ k + 1 \in 0..n /\ c(k) < c(k + 1)
      BY <1>1, <1>3, <2>2
    <3>2. ASSUME NEW i \in 0..(k + 1), i < k + 1 PROVE c(i) < c(k + 1)
      <4>1. i \in 0..k /\ i \in 0..n
        BY <3>2, <3>1, <1>1
      <4>2. i = k \/ c(i) < c(k)
        BY <4>1, <2>2
      <4> QED BY <4>1, <4>2, <3>1, <1>1
    <3> QED BY <3>1, <3>2
  <2> HIDE DEF T
  <2> QED BY <2>1, <2>2, <1>1, Induct
<1>5. \A i, j \in 0..n : i < j => c(i) < c(j)
  BY <1>4, <1>1
<1>6. \A i \in 0..n : a <= c(i) /\ c(i) <= b
  <2> TAKE i \in 0..n
  <2>1. 0 \in 0..n /\ n \in 0..n
    BY <1>1
  <2>2. (i = 0 \/ c(0) < c(i)) /\ (i = n \/ c(i) < c(n))
    BY <1>5, <2>1, <1>1
  <2> QED BY <2>2, <1>1, <1>2
<1>7. (ps = <<>>) <=> (a = b)
  <2>1. (ps = <<>>) <=> (n = 0)
    BY <1>1, EmptySeq DEF n
  <2>2. n # 0 => c(0) < c(n)
    BY <1>5, <1>1
  <2> QED BY <2>1, <2>2, <1>1, <1>2
<1> QED BY <1>5, <1>6, <1>7 DEF c, n

-----------------------------------------------------------------------------
(* Taking tables apart and putting them together.                          *)

(* The first pieces, and the others.                                       *)
LEMMA Halves ==
  ASSUME NEW S, NEW ps \in Seq(S), NEW h \in 0..Len(ps)
  PROVE  /\ SubSeq(ps, 1, h) \in Seq(S) /\ Len(SubSeq(ps, 1, h)) = h
         /\ SubSeq(ps, h + 1, Len(ps)) \in Seq(S) /\ Len(SubSeq(ps, h + 1, Len(ps))) = Len(ps) - h
         /\ ps = SubSeq(ps, 1, h) \o SubSeq(ps, h + 1, Len(ps))
<1> DEFINE p == SubSeq(ps, 1, h)
           q == SubSeq(ps, h + 1, Len(ps))
<1>1. Len(ps) \in Nat /\ \A i \in 1..Len(ps) : ps[i] \in S
  BY LenProperties, ElementOfSeq
<1>2. p \in Seq(S) /\ Len(p) = h /\ \A i \in 1..h : p[i] = ps[i]
  <2>1. \A i \in 1..h : ps[i] \in S
    BY <1>1
  <2>2. /\ p \in Seq(S) /\ Len(p) = IF 1 <= h THEN h - 1 + 1 ELSE 0
        /\ \A i \in 1..(h - 1 + 1) : p[i] = ps[1 + i - 1]
    BY <2>1, SubSeqProperties
  <2> QED BY <2>2, <1>1
<1>3. q \in Seq(S) /\ Len(q) = Len(ps) - h /\ \A i \in 1..(Len(ps) - h) : q[i] = ps[h + i]
  <2>1. \A i \in (h + 1)..Len(ps) : ps[i] \in S
    BY <1>1
  <2>2. /\ q \in Seq(S) /\ Len(q) = IF h + 1 <= Len(ps) THEN Len(ps) - (h + 1) + 1 ELSE 0
        /\ \A i \in 1..(Len(ps) - (h + 1) + 1) : q[i] = ps[h + 1 + i - 1]
    BY <2>1, <1>1, SubSeqProperties
  <2>3. Len(ps) - (h + 1) + 1 = Len(ps) - h /\ \A i \in 1..(Len(ps) - h) : h + 1 + i - 1 = h + i
    BY <1>1
  <2> HIDE DEF q
  <2>4. Len(q) = Len(ps) - h
    <3> DEFINE n == Len(ps)
    <3>1. n \in Nat /\ h \in 0..n /\ Len(q) = IF h + 1 <= n THEN n - (h + 1) + 1 ELSE 0
      BY <2>2, <1>1
    <3> HIDE DEF n
    <3>2. Len(q) = n - h
      BY <3>1
    <3> QED BY <3>2 DEF n
  <2>5. \A i \in 1..(Len(ps) - h) : q[i] = ps[h + i]
    BY <2>2, <2>3
  <2> QED BY <2>2, <2>4, <2>5
<1> HIDE DEF p, q
<1>4. ps = p \o q
  <2>1. /\ p \o q \in Seq(S) /\ Len(p \o q) = Len(p) + Len(q)
        /\ \A i \in 1..(Len(p) + Len(q)) : (p \o q)[i] = IF i <= Len(p) THEN p[i] ELSE q[i - Len(p)]
    BY <1>2, <1>3, ConcatProperties
  <2>2. Len(p \o q) = Len(ps)
    BY <2>1, <1>1, <1>2, <1>3
  <2>3. ASSUME NEW i \in 1..Len(ps) PROVE (p \o q)[i] = ps[i]
    <3>1. (p \o q)[i] = IF i <= h THEN p[i] ELSE q[i - h]
      BY <2>1, <2>2, <1>2
    <3>2. CASE i <= h
      BY <3>1, <3>2, <1>1, <1>2
    <3>3. CASE ~(i <= h)
      <4>1. i - h \in 1..(Len(ps) - h) /\ h + (i - h) = i
        BY <3>3, <1>1
      <4> QED BY <3>1, <3>3, <4>1, <1>3
    <3> QED BY <3>2, <3>3
  <2> QED BY <2>1, <2>2, <2>3, SeqEqual
<1> QED BY <1>2, <1>3, <1>4 DEF p, q

(* A part of a table.                                                      *)
LEMMA Parted ==
  ASSUME NEW ps, NEW a, NEW b, Lies(ps, a, b), NEW i \in 0..Len(ps), NEW j \in i..Len(ps)
  PROVE  LET part == SubSeq(ps, i + 1, j) IN
         /\ Lies(part, Cut(ps, a, i), Cut(ps, a, j)) /\ Len(part) = j - i
         /\ \A k \in 1..(j - i) : part[k] = ps[i + k]
         /\ \A k \in 0..(j - i) : Cut(part, Cut(ps, a, i), k) = Cut(ps, a, i + k)
         /\ \A text : Shows(ps, text) => Shows(part, text)
<1> DEFINE part == SubSeq(ps, i + 1, j)
           c == Cut(ps, a, i)
<1>1. /\ Len(ps) \in Nat /\ \A k \in 1..Len(ps) : ps[k] \in Bits
      /\ \A k \in 0..Len(ps) : Cut(ps, a, k) \in Nat
      /\ \A k \in 1..Len(ps) : ps[k].len \in Nat \ {0} /\ ps[k].pos = Cut(ps, a, k - 1)
  BY CutIs
<1>2. i \in Nat /\ j \in Nat /\ i <= j /\ j <= Len(ps)
  BY <1>1
<1>3. part \in Seq(Bits) /\ Len(part) = j - i /\ \A k \in 1..(j - i) : part[k] = ps[i + k]
  <2>1. \A k \in (i + 1)..j : ps[k] \in Bits
    BY <1>1, <1>2
  <2>2. /\ part \in Seq(Bits) /\ Len(part) = IF i + 1 <= j THEN j - (i + 1) + 1 ELSE 0
        /\ \A k \in 1..(j - (i + 1) + 1) : part[k] = ps[i + 1 + k - 1]
    BY <2>1, <1>2, SubSeqProperties
  <2>3. j - (i + 1) + 1 = j - i /\ \A k \in 1..(j - i) : i + 1 + k - 1 = i + k
    BY <1>2
  <2> QED BY <2>2, <2>3, <1>2
<1> HIDE DEF part
<1>4. ASSUME NEW k \in 0..(j - i) PROVE Cut(part, c, k) = Cut(ps, a, i + k)
  <2>1. CASE k = 0
    BY <2>1, <1>2 DEF Cut
  <2>2. CASE k # 0
    <3>1. k \in 1..(j - i) /\ i + k # 0 /\ i + k \in 1..Len(ps)
      BY <2>2, <1>2
    <3> QED BY <3>1, <2>2, <1>3 DEF Cut
  <2> QED BY <2>1, <2>2
<1>5. ASSUME NEW k \in 1..(j - i) PROVE part[k].len > 0 /\ part[k].pos = Cut(part, c, k - 1)
  <2>1. i + k \in 1..Len(ps) /\ k - 1 \in 0..(j - i) /\ i + (k - 1) = (i + k) - 1
    BY <1>2
  <2>2. part[k] = ps[i + k] /\ Cut(part, c, k - 1) = Cut(ps, a, (i + k) - 1)
    BY <2>1, <1>3, <1>4
  <2> QED BY SMTT(30), <2>1, <2>2, <1>1
<1>6. Cut(part, c, j - i) = Cut(ps, a, j)
  <2>1. j - i \in 0..(j - i) /\ i + (j - i) = j
    BY <1>2
  <2> QED BY <2>1, <1>4
<1>7. Lies(part, c, Cut(ps, a, j))
  BY <1>1, <1>2, <1>3, <1>5, <1>6 DEF Lies
<1>8. ASSUME NEW text, Shows(ps, text) PROVE Shows(part, text)
  <2> SUFFICES ASSUME NEW k \in 1..Len(part), NEW x \in 1..part[k].len
               PROVE  text[part[k].pos + x] = <<part[k].src, part[k].off + x>>
    BY DEF Shows
  <2>1. i + k \in 1..Len(ps) /\ part[k] = ps[i + k]
    BY <1>2, <1>3
  <2> QED BY <2>1, <1>8 DEF Shows
<1> QED BY <1>3, <1>4, <1>7, <1>8 DEF part

(* Two tables, one after the other.                                        *)
LEMMA Joined ==
  ASSUME NEW p, NEW q, NEW a, NEW b, NEW c, Lies(p, a, b), Lies(q, b, c)
  PROVE  /\ Lies(p \o q, a, c) /\ Len(p \o q) = Len(p) + Len(q)
         /\ \A k \in 0..Len(p) : Cut(p \o q, a, k) = Cut(p, a, k)
         /\ \A k \in 0..Len(q) : Cut(p \o q, a, Len(p) + k) = Cut(q, b, k)
         /\ \A text : Shows(p, text) /\ Shows(q, text) => Shows(p \o q, text)
<1> DEFINE r == p \o q
<1>1. /\ Len(p) \in Nat /\ Len(q) \in Nat /\ a \in Nat /\ c \in Nat /\ p \in Seq(Bits) /\ q \in Seq(Bits)
  BY CutIs
<1>2. /\ r \in Seq(Bits) /\ Len(r) = Len(p) + Len(q)
      /\ \A i \in 1..(Len(p) + Len(q)) : r[i] = IF i <= Len(p) THEN p[i] ELSE q[i - Len(p)]
  BY <1>1, ConcatProperties
<1> HIDE DEF r
<1>3. ASSUME NEW k \in 0..Len(p) PROVE Cut(r, a, k) = Cut(p, a, k)
  <2>1. k # 0 => r[k] = p[k]
    BY <1>1, <1>2
  <2> QED BY <2>1 DEF Cut
<1>4. ASSUME NEW k \in 0..Len(q) PROVE Cut(r, a, Len(p) + k) = Cut(q, b, k)
  <2>1. CASE k = 0
    <3>1. Cut(r, a, Len(p)) = Cut(p, a, Len(p))
      BY <1>1, <1>3
    <3> QED BY <3>1, <2>1, <1>1 DEF Cut, Lies
  <2>2. CASE k # 0
    <3>1. /\ Len(p) + k \in 1..(Len(p) + Len(q)) /\ ~(Len(p) + k <= Len(p)) /\ Len(p) + k # 0
          /\ (Len(p) + k) - Len(p) = k
      BY <2>2, <1>1
    <3>2. r[Len(p) + k] = q[k]
      BY <3>1, <1>2
    <3> QED BY <3>1, <3>2, <2>2 DEF Cut
  <2> QED BY <2>1, <2>2
<1>5. ASSUME NEW i \in 1..Len(r) PROVE r[i].len > 0 /\ r[i].pos = Cut(r, a, i - 1)
  <2>1. CASE i <= Len(p)
    <3>1. i \in 1..Len(p) /\ i - 1 \in 0..Len(p) /\ r[i] = p[i]
      BY <2>1, <1>1, <1>2
    <3> QED BY <3>1, <1>3 DEF Lies
  <2>2. CASE ~(i <= Len(p))
    <3>1. i - Len(p) \in 1..Len(q) /\ r[i] = q[i - Len(p)] /\ (i - Len(p)) - 1 \in 0..Len(q)
          /\ i - 1 = Len(p) + ((i - Len(p)) - 1)
      BY <2>2, <1>1, <1>2
    <3>2. Cut(r, a, i - 1) = Cut(q, b, (i - Len(p)) - 1)
      BY <3>1, <1>4
    <3> QED BY <3>1, <3>2 DEF Lies
  <2> QED BY <2>1, <2>2
<1>6. Cut(r, a, Len(r)) = c
  <2>1. Len(q) \in 0..Len(q)
    BY <1>1
  <2>2. Cut(r, a, Len(p) + Len(q)) = Cut(q, b, Len(q))
    BY <2>1, <1>4
  <2> QED BY <2>2, <1>2 DEF Lies
<1>7. Lies(r, a, c)
  BY <1>1, <1>2, <1>5, <1>6 DEF Lies
<1>8. ASSUME NEW text, Shows(p, text), Shows(q, text) PROVE Shows(r, text)
  <2> SUFFICES ASSUME NEW i \in 1..Len(r), NEW k \in 1..r[i].len
               PROVE  text[r[i].pos + k] = <<r[i].src, r[i].off + k>>
    BY DEF Shows
  <2>1. CASE i <= Len(p)
    <3>1. i \in 1..Len(p) /\ r[i] = p[i]
      BY <2>1, <1>1, <1>2
    <3> QED BY <3>1, <1>8 DEF Shows
  <2>2. CASE ~(i <= Len(p))
    <3>1. i - Len(p) \in 1..Len(q) /\ r[i] = q[i - Len(p)]
      BY <2>2, <1>1, <1>2
    <3> QED BY <3>1, <1>8 DEF Shows
  <2> QED BY <2>1, <2>2
<1> QED BY <1>2, <1>3, <1>4, <1>7, <1>8 DEF r

(* What is between two places of a table.                                  *)
LEMMA MeetsJoined ==
  ASSUME NEW p, NEW q, NEW a, NEW b, NEW c, Lies(p, a, b), Lies(q, b, c), NEW x
  PROVE  Meets(p \o q, a, x) <=> Meets(p, a, x) \/ Meets(q, b, x)
<1>1. Len(p) \in Nat /\ Len(q) \in Nat
  BY CutIs
<1>2. /\ Len(p \o q) = Len(p) + Len(q)
      /\ \A k \in 0..Len(p) : Cut(p \o q, a, k) = Cut(p, a, k)
      /\ \A k \in 0..Len(q) : Cut(p \o q, a, Len(p) + k) = Cut(q, b, k)
  <2> DEFINE r == p \o q
  <2>1. /\ Lies(r, a, c) /\ Len(r) = Len(p) + Len(q)
        /\ \A k \in 0..Len(p) : Cut(r, a, k) = Cut(p, a, k)
        /\ \A k \in 0..Len(q) : Cut(r, a, Len(p) + k) = Cut(q, b, k)
        /\ \A text : Shows(p, text) /\ Shows(q, text) => Shows(r, text)
    BY Joined, Zenon
  <2> QED BY <2>1
<1>3. ASSUME Meets(p, a, x) \/ Meets(q, b, x) PROVE Meets(p \o q, a, x)
  <2>1. CASE Meets(p, a, x)
    <3>1. PICK i \in 0..Len(p) : Cut(p, a, i) = x
      BY <2>1 DEF Meets
    <3>2. i \in 0..Len(p \o q)
      BY <1>1, <1>2
    <3> QED BY <3>1, <3>2, <1>2 DEF Meets
  <2>2. CASE Meets(q, b, x)
    <3>1. PICK i \in 0..Len(q) : Cut(q, b, i) = x
      BY <2>2 DEF Meets
    <3>2. Len(p) + i \in 0..Len(p \o q)
      BY <1>1, <1>2
    <3> QED BY <3>1, <3>2, <1>2 DEF Meets
  <2> QED BY <1>3, <2>1, <2>2
<1>4. ASSUME Meets(p \o q, a, x) PROVE Meets(p, a, x) \/ Meets(q, b, x)
  <2>1. PICK i \in 0..Len(p \o q) : Cut(p \o q, a, i) = x
    BY <1>4 DEF Meets
  <2>2. CASE i <= Len(p)
    <3>1. i \in 0..Len(p)
      BY <2>2, <1>1
    <3> QED BY <3>1, <2>1, <1>2 DEF Meets
  <2>3. CASE ~(i <= Len(p))
    <3>1. i - Len(p) \in 0..Len(q) /\ Len(p) + (i - Len(p)) = i
      BY <2>3, <1>1, <1>2
    <3> QED BY <3>1, <2>1, <1>2 DEF Meets
  <2> QED BY <2>2, <2>3
<1> QED BY <1>3, <1>4

LEMMA JoinedLies ==
  ASSUME NEW p, NEW q, NEW a, NEW b, NEW c, Lies(p, a, b), Lies(q, b, c)
  PROVE  Lies(p \o q, a, c) /\ Len(p \o q) = Len(p) + Len(q) /\ p \o q \in Seq(Bits)
<1>1. /\ Lies(p \o q, a, c) /\ Len(p \o q) = Len(p) + Len(q)
      /\ \A k \in 0..Len(p) : Cut(p \o q, a, k) = Cut(p, a, k)
      /\ \A k \in 0..Len(q) : Cut(p \o q, a, Len(p) + k) = Cut(q, b, k)
      /\ \A text : Shows(p, text) /\ Shows(q, text) => Shows(p \o q, text)
  BY Joined, Zenon
<1> QED BY <1>1 DEF Lies

LEMMA JoinedShows ==
  ASSUME NEW p, NEW q, NEW a, NEW b, NEW c, Lies(p, a, b), Lies(q, b, c),
         NEW text, Shows(p, text), Shows(q, text)
  PROVE  Shows(p \o q, text)
<1>1. /\ Lies(p \o q, a, c) /\ Len(p \o q) = Len(p) + Len(q)
      /\ \A k \in 0..Len(p) : Cut(p \o q, a, k) = Cut(p, a, k)
      /\ \A k \in 0..Len(q) : Cut(p \o q, a, Len(p) + k) = Cut(q, b, k)
      /\ \A new : Shows(p, new) /\ Shows(q, new) => Shows(p \o q, new)
  BY Joined, Zenon
<1> QED BY <1>1

LEMMA Associate ==
  ASSUME NEW x \in Seq(Bits), NEW y \in Seq(Bits), NEW z \in Seq(Bits)
  PROVE  (x \o y) \o z = x \o (y \o z)
BY ConcatAssociative

LEMMA FirstOf ==
  ASSUME NEW x \in Seq(Bits), NEW y \in Seq(Bits), NEW j \in 1..Len(x)
  PROVE  (x \o y)[j] = x[j] /\ x \o y \in Seq(Bits) /\ j \in 1..Len(x \o y)
<1>1. Len(x) \in Nat /\ Len(y) \in Nat /\ j <= Len(x)
  BY LenProperties
<1>2. j \in 1..(Len(x) + Len(y))
  BY <1>1
<1> QED BY <1>1, <1>2, ConcatProperties

LEMMA SecondOf ==
  ASSUME NEW x \in Seq(Bits), NEW y \in Seq(Bits), NEW j \in 1..Len(y)
  PROVE  (x \o y)[Len(x) + j] = y[j] /\ x \o y \in Seq(Bits) /\ Len(x) + j \in 1..Len(x \o y)
<1>1. Len(x) \in Nat /\ Len(y) \in Nat /\ ~(Len(x) + j <= Len(x)) /\ (Len(x) + j) - Len(x) = j
  BY LenProperties
<1>2. Len(x) + j \in 1..(Len(x) + Len(y))
  BY <1>1
<1> QED BY <1>1, <1>2, ConcatProperties

-----------------------------------------------------------------------------
(* Moving the pieces of a table, and opening or closing a gap in it.       *)

MovedBy(p, d) == [p EXCEPT !.pos = @ + d]

LEMMA MovedByIs ==
  ASSUME NEW p \in Rows, NEW d \in Int
  PROVE  /\ MovedBy(p, d) \in Rows /\ MovedBy(p, d).pos = p.pos + d
         /\ MovedBy(p, d).len = p.len /\ MovedBy(p, d).src = p.src /\ MovedBy(p, d).off = p.off
         /\ End(MovedBy(p, d)) = End(p) + d
         /\ p.pos \in Int /\ p.len \in Nat /\ End(p) \in Int
<1> DEFINE q == MovedBy(p, d)
<1>1. /\ p \in [pos : Int, len : Nat, src : Source, off : Nat] /\ p.off + p.len <= MaxLength
      /\ p.pos \in Int /\ p.len \in Nat /\ End(p) \in Int
  BY DEF Rows, End
<1>2. /\ q \in [pos : Int, len : Nat, src : Source, off : Nat]
      /\ q.pos = p.pos + d /\ q.len = p.len /\ q.src = p.src /\ q.off = p.off
  BY <1>1 DEF MovedBy
<1>3. q \in Rows /\ End(q) = End(p) + d
  BY <1>1, <1>2 DEF Rows, End
<1> QED BY <1>1, <1>2, <1>3

LEMMA MovedByTwice ==
  ASSUME NEW p \in Rows, NEW d \in Int, NEW e \in Int
  PROVE  MovedBy(p, 0) = p /\ MovedBy(MovedBy(p, d), e) = MovedBy(p, d + e)
<1> DEFINE q == MovedBy(p, d)
<1>1. p.pos \in Int /\ p = [pos |-> p.pos, len |-> p.len, src |-> p.src, off |-> p.off]
  BY DEF Rows
<1>2. MovedBy(p, 0) = p
  BY <1>1 DEF MovedBy
<1>3. (p.pos + d) + e = p.pos + (d + e)
  BY <1>1
<1>4. MovedBy(p, d + e) = [pos |-> p.pos + (d + e), len |-> p.len, src |-> p.src, off |-> p.off]
  BY <1>1 DEF MovedBy
<1>5. q = [pos |-> p.pos + d, len |-> p.len, src |-> p.src, off |-> p.off]
  BY <1>1 DEF MovedBy
<1> HIDE DEF q
<1>6. MovedBy(q, e) = [pos |-> (p.pos + d) + e, len |-> p.len, src |-> p.src, off |-> p.off]
  BY <1>5 DEF MovedBy
<1> QED BY <1>2, <1>3, <1>4, <1>6 DEF q

LEMMA MovedIs ==
  ASSUME NEW ps \in Seq(Rows), NEW from \in Int, NEW d \in Int
  PROVE  /\ Moved(ps, from, d) \in Seq(Rows) /\ Len(Moved(ps, from, d)) = Len(ps) /\ Len(ps) \in Nat
         /\ \A i \in 1..Len(ps) : /\ ps[i] \in Rows
                                  /\ Moved(ps, from, d)[i] = IF i < from THEN ps[i] ELSE MovedBy(ps[i], d)
<1> DEFINE m == [i \in 1..Len(ps) |-> IF i < from THEN ps[i] ELSE MovedBy(ps[i], d)]
<1>1. Len(ps) \in Nat /\ DOMAIN ps = 1..Len(ps) /\ \A i \in 1..Len(ps) : ps[i] \in Rows
  BY LenProperties, ElementOfSeq
<1>2. Moved(ps, from, d) = m
  BY <1>1 DEF Moved, MovedBy
<1>3. \A i \in 1..Len(ps) : m[i] \in Rows
  <2> TAKE i \in 1..Len(ps)
  <2>1. ps[i] \in Rows /\ MovedBy(ps[i], d) \in Rows
    BY <1>1, MovedByIs
  <2> QED BY <2>1
<1>4. m \in Seq(Rows) /\ Len(m) = Len(ps)
  BY <1>1, <1>3
<1> QED BY <1>1, <1>2, <1>4

LEMMA MovedTwice ==
  ASSUME NEW ps \in Seq(Rows), NEW d \in Int, NEW e \in Int
  PROVE  Moved(Moved(ps, 1, d), 1, e) = Moved(ps, 1, d + e) /\ Moved(ps, 1, 0) = ps
<1> DEFINE m == Moved(ps, 1, d)
           n == Moved(m, 1, e)
           o == Moved(ps, 1, d + e)
           z == Moved(ps, 1, 0)
<1>1. /\ m \in Seq(Rows) /\ Len(m) = Len(ps) /\ Len(ps) \in Nat
      /\ \A i \in 1..Len(ps) : ps[i] \in Rows /\ m[i] = MovedBy(ps[i], d)
  BY MovedIs
<1> HIDE DEF m
<1>2. n \in Seq(Rows) /\ Len(n) = Len(ps) /\ \A i \in 1..Len(ps) : n[i] = MovedBy(m[i], e)
  <2>1. /\ n \in Seq(Rows) /\ Len(n) = Len(m)
        /\ \A i \in 1..Len(m) : n[i] = IF i < 1 THEN m[i] ELSE MovedBy(m[i], e)
    BY <1>1, MovedIs
  <2> QED BY <2>1, <1>1
<1>3. o \in Seq(Rows) /\ Len(o) = Len(ps) /\ \A i \in 1..Len(ps) : o[i] = MovedBy(ps[i], d + e)
  <2>1. d + e \in Int
    OBVIOUS
  <2> QED BY <2>1, MovedIs
<1>4. z \in Seq(Rows) /\ Len(z) = Len(ps) /\ \A i \in 1..Len(ps) : z[i] = MovedBy(ps[i], 0)
  BY MovedIs
<1> HIDE DEF n, o, z
<1>5. \A i \in 1..Len(ps) : n[i] = o[i] /\ z[i] = ps[i]
  <2> TAKE i \in 1..Len(ps)
  <2>1. ps[i] \in Rows /\ m[i] = MovedBy(ps[i], d) /\ n[i] = MovedBy(m[i], e)
    BY <1>1, <1>2
  <2>2. MovedBy(MovedBy(ps[i], d), e) = MovedBy(ps[i], d + e) /\ MovedBy(ps[i], 0) = ps[i]
    BY <2>1, MovedByTwice
  <2> QED BY <2>1, <2>2, <1>3, <1>4
<1>6. n = o
  BY <1>2, <1>3, <1>5, SeqEqual
<1>7. z = ps
  BY <1>4, <1>5, SeqEqual
<1> QED BY <1>6, <1>7 DEF m, n, o, z

(* The second part moves, or both do.                                      *)
LEMMA MovedParts ==
  ASSUME NEW p \in Seq(Rows), NEW q \in Seq(Rows), NEW d \in Int
  PROVE  /\ Moved(p \o q, Len(p) + 1, d) = p \o Moved(q, 1, d)
         /\ Moved(p \o q, 1, d) = Moved(p, 1, d) \o Moved(q, 1, d)
<1> DEFINE r == p \o q
           mp == Moved(p, 1, d)
           mq == Moved(q, 1, d)
<1>1. Len(p) \in Nat /\ Len(q) \in Nat
  BY LenProperties
<1>2. /\ r \in Seq(Rows) /\ Len(r) = Len(p) + Len(q)
      /\ \A i \in 1..(Len(p) + Len(q)) : r[i] = IF i <= Len(p) THEN p[i] ELSE q[i - Len(p)]
  BY ConcatProperties
<1>3. mp \in Seq(Rows) /\ Len(mp) = Len(p) /\ \A i \in 1..Len(p) : mp[i] = MovedBy(p[i], d)
  BY MovedIs
<1>4. mq \in Seq(Rows) /\ Len(mq) = Len(q) /\ \A i \in 1..Len(q) : mq[i] = MovedBy(q[i], d)
  BY MovedIs
<1> HIDE DEF r, mp, mq
<1>5. Moved(r, Len(p) + 1, d) = p \o mq
  <2> DEFINE m == Moved(r, Len(p) + 1, d)
             n == p \o mq
  <2>1. /\ m \in Seq(Rows) /\ Len(m) = Len(p) + Len(q)
        /\ \A i \in 1..(Len(p) + Len(q)) : m[i] = IF i < Len(p) + 1 THEN r[i] ELSE MovedBy(r[i], d)
    <3>1. Len(p) + 1 \in Int
      BY <1>1
    <3>2. /\ m \in Seq(Rows) /\ Len(m) = Len(r)
          /\ \A i \in 1..Len(r) : m[i] = IF i < Len(p) + 1 THEN r[i] ELSE MovedBy(r[i], d)
      BY <3>1, <1>2, MovedIs
    <3> HIDE DEF m
    <3> QED BY <3>2, <1>2
  <2>2. /\ n \in Seq(Rows) /\ Len(n) = Len(p) + Len(q)
        /\ \A i \in 1..(Len(p) + Len(q)) : n[i] = IF i <= Len(p) THEN p[i] ELSE mq[i - Len(p)]
    <3>1. /\ n \in Seq(Rows) /\ Len(n) = Len(p) + Len(mq)
          /\ \A i \in 1..(Len(p) + Len(mq)) : n[i] = IF i <= Len(p) THEN p[i] ELSE mq[i - Len(p)]
      BY ZenonT(60), SMTT(30), <1>4, ConcatProperties
    <3> HIDE DEF n
    <3> QED BY <3>1, <1>4
  <2> HIDE DEF m, n
  <2>3. \A i \in 1..Len(m) : m[i] = n[i]
    <3> TAKE i \in 1..Len(m)
    <3>1. i \in 1..(Len(p) + Len(q))
      BY <2>1
    <3>2. CASE i <= Len(p)
      BY <3>1, <3>2, <2>1, <2>2, <1>1, <1>2
    <3>3. CASE ~(i <= Len(p))
      <4>1. i - Len(p) \in 1..Len(q) /\ ~(i < Len(p) + 1)
        BY <3>1, <3>3, <1>1
      <4> QED BY <4>1, <3>1, <3>3, <2>1, <2>2, <1>2, <1>4
    <3> QED BY <3>2, <3>3
  <2>4. m = n
    BY <2>1, <2>2, <2>3, SeqEqual
  <2> QED BY <2>4 DEF m, n
<1>6. Moved(r, 1, d) = mp \o mq
  <2> DEFINE m == Moved(r, 1, d)
             n == mp \o mq
  <2>1. /\ m \in Seq(Rows) /\ Len(m) = Len(r) /\ \A i \in 1..Len(r) : m[i] = MovedBy(r[i], d)
    BY <1>2, MovedIs
  <2>2. /\ n \in Seq(Rows) /\ Len(n) = Len(mp) + Len(mq)
        /\ \A i \in 1..(Len(mp) + Len(mq)) : n[i] = IF i <= Len(mp) THEN mp[i] ELSE mq[i - Len(mp)]
    BY <1>3, <1>4, ConcatProperties
  <2> HIDE DEF m, n
  <2>3. \A i \in 1..Len(m) : m[i] = n[i]
    <3> TAKE i \in 1..Len(m)
    <3>1. i \in 1..(Len(p) + Len(q)) /\ i \in 1..(Len(mp) + Len(mq))
      BY <2>1, <1>2, <1>3, <1>4
    <3>2. CASE i <= Len(p)
      BY <3>1, <3>2, <2>1, <2>2, <1>1, <1>2, <1>3
    <3>3. CASE ~(i <= Len(p))
      <4>1. i - Len(p) \in 1..Len(q)
        BY <3>1, <3>3, <1>1
      <4> QED BY <4>1, <3>1, <3>3, <2>1, <2>2, <1>2, <1>3, <1>4
    <3> QED BY <3>2, <3>3
  <2>4. m = n
    BY <2>1, <2>2, <2>3, <1>2, <1>3, <1>4, SeqEqual
  <2> QED BY <2>4 DEF m, n
<1> QED BY <1>5, <1>6 DEF r, mp, mq

(* The parts of two sequences, one after the other.                        *)
LEMMA PartsOf ==
  ASSUME NEW S, NEW p \in Seq(S), NEW q \in Seq(S)
  PROVE  SubSeq(p \o q, 1, Len(p)) = p /\ SubSeq(p \o q, Len(p) + 1, Len(p \o q)) = q
<1> DEFINE r == p \o q
           a == SubSeq(r, 1, Len(p))
           b == SubSeq(r, Len(p) + 1, Len(r))
<1>1. Len(p) \in Nat /\ Len(q) \in Nat
  BY LenProperties
<1>2. /\ r \in Seq(S) /\ Len(r) = Len(p) + Len(q)
      /\ \A i \in 1..(Len(p) + Len(q)) : r[i] = IF i <= Len(p) THEN p[i] ELSE q[i - Len(p)]
  BY ConcatProperties
<1> HIDE DEF r
<1>3. \A i \in 1..Len(r) : r[i] \in S
  BY <1>2, ElementOfSeq
<1>4. a \in Seq(S) /\ Len(a) = Len(p) /\ \A i \in 1..Len(p) : a[i] = r[i]
  <2>1. \A i \in 1..Len(p) : r[i] \in S
    BY <1>1, <1>2, <1>3
  <2>2. /\ a \in Seq(S) /\ Len(a) = IF 1 <= Len(p) THEN Len(p) - 1 + 1 ELSE 0
        /\ \A i \in 1..(Len(p) - 1 + 1) : a[i] = r[1 + i - 1]
    BY <2>1, <1>1, SubSeqProperties
  <2> HIDE DEF a
  <2> QED BY <2>2, <1>1
<1>5. b \in Seq(S) /\ Len(b) = Len(q) /\ \A i \in 1..Len(q) : b[i] = r[Len(p) + i]
  <2>1. \A i \in (Len(p) + 1)..Len(r) : r[i] \in S
    BY <1>1, <1>3
  <2>2. Len(r) \in Int /\ Len(p) + 1 \in Int
    BY <1>1, <1>2
  <2>3. /\ b \in Seq(S) /\ Len(b) = IF Len(p) + 1 <= Len(r) THEN Len(r) - (Len(p) + 1) + 1 ELSE 0
        /\ \A i \in 1..(Len(r) - (Len(p) + 1) + 1) : b[i] = r[(Len(p) + 1) + i - 1]
    BY <2>1, <2>2, SubSeqProperties
  <2> HIDE DEF b
  <2>4. Len(r) - (Len(p) + 1) + 1 = Len(q) /\ \A i \in 1..Len(q) : (Len(p) + 1) + i - 1 = Len(p) + i
    BY <1>1, <1>2
  <2>5. Len(b) = Len(q)
    BY <2>3, <2>4, <1>1, <1>2
  <2>6. \A i \in 1..Len(q) : b[i] = r[Len(p) + i]
    BY <2>3, <2>4
  <2> QED BY <2>3, <2>5, <2>6
<1> HIDE DEF a, b
<1>6. \A i \in 1..Len(p) : a[i] = p[i]
  BY <1>1, <1>2, <1>4
<1>7. \A i \in 1..Len(q) : b[i] = q[i]
  <2> TAKE i \in 1..Len(q)
  <2>1. Len(p) + i \in 1..(Len(p) + Len(q)) /\ ~(Len(p) + i <= Len(p)) /\ (Len(p) + i) - Len(p) = i
    BY <1>1
  <2> QED BY <2>1, <1>2, <1>5
<1>8. a = p
  BY <1>4, <1>6, SeqEqual
<1>9. b = q
  BY <1>5, <1>7, SeqEqual
<1> QED BY <1>8, <1>9 DEF a, b, r

LEMMA PutInParts ==
  ASSUME NEW S, NEW p \in Seq(S), NEW q \in Seq(S), NEW new \in Seq(S)
  PROVE  PutIn(p \o q, Len(p) + 1, new) = (p \o new) \o q
<1>1. Len(p) \in Nat /\ (Len(p) + 1) - 1 = Len(p)
  BY LenProperties
<1> QED BY <1>1, PartsOf DEF PutIn

LEMMA CutOutParts ==
  ASSUME NEW S, NEW p \in Seq(S), NEW m \in Seq(S), NEW q \in Seq(S)
  PROVE  CutOut((p \o m) \o q, Len(p) + 1, Len(p) + Len(m) + 1) = p \o q
<1>1. Len(p) \in Nat /\ Len(m) \in Nat /\ (Len(p) + 1) - 1 = Len(p)
  BY LenProperties
<1>2. p \o m \in Seq(S) /\ m \o q \in Seq(S) /\ Len(p \o m) = Len(p) + Len(m)
  BY ConcatProperties
<1>3. SubSeq((p \o m) \o q, Len(p \o m) + 1, Len((p \o m) \o q)) = q
  BY <1>2, PartsOf
<1>4. SubSeq(p \o (m \o q), 1, Len(p)) = p
  BY <1>2, PartsOf
<1>5. (p \o m) \o q = p \o (m \o q)
  BY ConcatAssociative
<1> QED BY <1>1, <1>2, <1>3, <1>4, <1>5 DEF CutOut

(* A table that is moved as a whole.                                       *)
LEMMA Shifted ==
  ASSUME NEW ps, NEW a, NEW b, Lies(ps, a, b), NEW d \in Int, a + d >= 0
  PROVE  /\ Lies(Moved(ps, 1, d), a + d, b + d) /\ Len(Moved(ps, 1, d)) = Len(ps)
         /\ \A k \in 0..Len(ps) : Cut(Moved(ps, 1, d), a + d, k) = Cut(ps, a, k) + d
         /\ \A old, new : /\ Shows(ps, old)
                          /\ \A x \in Nat : a < x /\ x <= b => new[x + d] = old[x]
                          => Shows(Moved(ps, 1, d), new)
<1> DEFINE m == Moved(ps, 1, d)
           n == Len(ps)
<1>1. /\ n \in Nat /\ a \in Nat /\ b \in Nat /\ ps \in Seq(Rows)
      /\ \A i \in 1..n : ps[i] \in Bits
      /\ \A i \in 0..n : Cut(ps, a, i) \in Nat
      /\ \A i \in 1..n : /\ ps[i].len \in Nat \ {0} /\ ps[i].pos = Cut(ps, a, i - 1)
                         /\ End(ps[i]) = Cut(ps, a, i)
  BY CutIs, BitsAreRows
<1>2. /\ m \in Seq(Rows) /\ Len(m) = n
      /\ \A i \in 1..n : m[i] = MovedBy(ps[i], d)
  BY <1>1, MovedIs
<1>3. \A i \in 0..n : a <= Cut(ps, a, i) /\ Cut(ps, a, i) <= b
  BY Ordered
<1> HIDE DEF m, n
<1>4. ASSUME NEW i \in 1..n
      PROVE  /\ m[i] \in Bits /\ m[i].pos = ps[i].pos + d /\ m[i].len = ps[i].len
             /\ m[i].src = ps[i].src /\ m[i].off = ps[i].off /\ End(m[i]) = End(ps[i]) + d
             /\ i - 1 \in 0..n /\ i \in 0..n
  <2>1. ps[i] \in Bits /\ ps[i] \in Rows /\ m[i] = MovedBy(ps[i], d)
    BY <1>1, <1>2, BitsAreRows
  <2>2. /\ m[i] \in Rows /\ m[i].pos = ps[i].pos + d /\ m[i].len = ps[i].len
        /\ m[i].src = ps[i].src /\ m[i].off = ps[i].off /\ End(m[i]) = End(ps[i]) + d
    <3> DEFINE p == ps[i]
    <3>1. p \in Rows /\ m[i] = MovedBy(p, d)
      BY <2>1
    <3> HIDE DEF p
    <3>2. /\ MovedBy(p, d) \in Rows /\ MovedBy(p, d).pos = p.pos + d /\ MovedBy(p, d).len = p.len
          /\ MovedBy(p, d).src = p.src /\ MovedBy(p, d).off = p.off /\ End(MovedBy(p, d)) = End(p) + d
      BY <3>1, MovedByIs
    <3> QED BY <3>1, <3>2 DEF p
  <2>3. i - 1 \in 0..n /\ i \in 0..n
    BY <1>1
  <2>4. Cut(ps, a, i - 1) \in Nat /\ a <= Cut(ps, a, i - 1) /\ ps[i].pos = Cut(ps, a, i - 1)
    BY <2>3, <1>1, <1>3
  <2>5. ps[i].pos + d \in Nat
    BY <2>4, <1>1
  <2>6. m[i].pos \in Nat
    BY <2>2, <2>5
  <2>7. m[i] \in Bits
    BY <2>2, <2>6 DEF Rows, Bits
  <2> QED BY <2>2, <2>3, <2>7
<1>5. ASSUME NEW k \in 0..n PROVE Cut(m, a + d, k) = Cut(ps, a, k) + d
  <2>1. k # 0 => k \in 1..n
    BY <1>1
  <2> QED BY <2>1, <1>4 DEF Cut
<1>6. m \in Seq(Bits)
  <2>1. m \in [1..n -> Rows]
    BY <1>1, <1>2, LenProperties
  <2>2. m \in [1..n -> Bits]
    BY <2>1, <1>4
  <2> QED BY <2>2, <1>1
<1>7. ASSUME NEW i \in 1..n PROVE m[i].len > 0 /\ m[i].pos = Cut(m, a + d, i - 1)
  <2>1. i - 1 \in 0..n /\ m[i].pos = ps[i].pos + d /\ m[i].len = ps[i].len
    BY <1>4
  <2>2. Cut(m, a + d, i - 1) = Cut(ps, a, i - 1) + d
    BY <2>1, <1>5
  <2>3. ps[i].len \in Nat \ {0} /\ ps[i].pos = Cut(ps, a, i - 1)
    BY <1>1
  <2> QED BY <2>1, <2>2, <2>3
<1>8. a + d \in Nat /\ b + d \in Nat /\ Cut(m, a + d, n) = b + d
  <2>1. n \in 0..n
    BY <1>1
  <2>2. Cut(ps, a, n) = b
    BY DEF Lies, n
  <2> QED BY <2>1, <2>2, <1>1, <1>3, <1>5
<1>9. Lies(m, a + d, b + d)
  BY <1>2, <1>6, <1>7, <1>8 DEF Lies
<1>10. ASSUME NEW old, NEW new, Shows(ps, old), \A x \in Nat : a < x /\ x <= b => new[x + d] = old[x]
       PROVE  Shows(m, new)
  <2> SUFFICES ASSUME NEW i \in 1..n, NEW k \in 1..m[i].len
               PROVE  new[m[i].pos + k] = <<m[i].src, m[i].off + k>>
    BY <1>2 DEF Shows
  <2> DEFINE x == ps[i].pos + k
  <2>1. /\ ps[i].len \in Nat /\ k \in 1..ps[i].len /\ ps[i].pos \in Nat /\ m[i].pos = ps[i].pos + d
        /\ a <= ps[i].pos /\ ps[i].pos + ps[i].len <= b
    <3>1. /\ ps[i].pos = Cut(ps, a, i - 1) /\ End(ps[i]) = Cut(ps, a, i)
          /\ i - 1 \in 0..n /\ i \in 0..n
      BY <1>1, <1>4
    <3> QED BY ZenonT(60), SMTT(30), <3>1, <1>1, <1>3, <1>4 DEF End
  <2>2. x \in Nat /\ a < x /\ x <= b /\ x + d = m[i].pos + k
    <3> DEFINE u == ps[i].pos
               v == ps[i].len
    <3>1. u \in Nat /\ v \in Nat /\ k \in 1..v /\ a \in Nat /\ b \in Nat /\ a <= u /\ u + v <= b /\ d \in Int
      BY <2>1, <1>1
    <3>2. m[i].pos = u + d
      BY <2>1
    <3> HIDE DEF u, v
    <3>3. u + k \in Nat /\ a < u + k /\ u + k <= b /\ (u + k) + d = (u + d) + k
      BY <3>1
    <3> QED BY <3>2, <3>3 DEF u
  <2>3. new[m[i].pos + k] = old[x]
    BY <2>2, <1>10
  <2>4. old[x] = <<ps[i].src, ps[i].off + k>>
    BY <2>1, <1>10 DEF Shows, n
  <2> QED BY <2>3, <2>4, <1>4
<1> QED BY <1>2, <1>5, <1>9, <1>10 DEF m, n

LEMMA ShiftedShows ==
  ASSUME NEW ps, NEW a, NEW b, Lies(ps, a, b), NEW d \in Int, a + d >= 0,
         NEW old, NEW new, Shows(ps, old), \A x \in Nat : a < x /\ x <= b => new[x + d] = old[x]
  PROVE  Shows(Moved(ps, 1, d), new)
<1>1. /\ Lies(Moved(ps, 1, d), a + d, b + d) /\ Len(Moved(ps, 1, d)) = Len(ps)
      /\ \A k \in 0..Len(ps) : Cut(Moved(ps, 1, d), a + d, k) = Cut(ps, a, k) + d
      /\ \A o, n : /\ Shows(ps, o)
                   /\ \A x \in Nat : a < x /\ x <= b => n[x + d] = o[x]
                   => Shows(Moved(ps, 1, d), n)
  BY Shifted
<1> QED BY <1>1

(* A table of one piece, and of none.                                      *)
LEMMA OnePiece ==
  ASSUME NEW p \in Bits, p.len > 0
  PROVE  /\ Lies(<<p>>, p.pos, End(p)) /\ <<p>> \in Seq(Bits) /\ Len(<<p>>) = 1 /\ <<p>>[1] = p
         /\ \A text : Shows(<<p>>, text) <=> \A k \in 1..p.len : text[p.pos + k] = <<p.src, p.off + k>>
<1> DEFINE s == <<p>>
<1>1. s \in Seq(Bits) /\ Len(s) = 1 /\ s[1] = p /\ 1..1 = {1}
  OBVIOUS
<1>2. p.pos \in Nat /\ End(p) \in Nat
  BY BitIs
<1> HIDE DEF s
<1>3. Lies(s, p.pos, End(p))
  BY <1>1, <1>2 DEF Lies, Cut
<1>4. ASSUME NEW text
      PROVE  Shows(s, text) <=> \A k \in 1..p.len : text[p.pos + k] = <<p.src, p.off + k>>
  BY <1>1 DEF Shows
<1> QED BY <1>1, <1>3, <1>4 DEF s

LEMMA NoPiece ==
  ASSUME NEW a \in Nat
  PROVE  Lies(<<>>, a, a) /\ \A text : Shows(<<>>, text)
<1>1. <<>> \in Seq(Bits) /\ Len(<<>>) = 0 /\ 1..0 = {}
  OBVIOUS
<1> QED BY <1>1 DEF Lies, Cut, Shows

(* A table taken apart where two pieces meet.                              *)
Apart(ps, a, x, b, p, q) ==
  /\ ps = p \o q /\ Lies(p, a, x) /\ Lies(q, x, b)
  /\ \A text : Shows(ps, text) => Shows(p, text) /\ Shows(q, text)

LEMMA TakenApart ==
  ASSUME NEW ps, NEW a, NEW b, Lies(ps, a, b), NEW x, Meets(ps, a, x)
  PROVE  \E p, q \in Seq(Bits) : Apart(ps, a, x, b, p, q)
<1>1. PICK h \in 0..Len(ps) : Cut(ps, a, h) = x
  BY DEF Meets
<1>2. Len(ps) \in Nat /\ ps \in Seq(Bits) /\ Cut(ps, a, 0) = a /\ Cut(ps, a, Len(ps)) = b
  BY CutIs DEF Lies, Cut
<1> DEFINE p == SubSeq(ps, 1, h)
           q == SubSeq(ps, h + 1, Len(ps))
<1>3. p \in Seq(Bits) /\ q \in Seq(Bits) /\ ps = p \o q
  BY <1>2, Halves
<1>4. Lies(p, a, x) /\ \A text : Shows(ps, text) => Shows(p, text)
  <2>1. 0 \in 0..Len(ps) /\ h \in 0..Len(ps) /\ SubSeq(ps, 0 + 1, h) = p
    BY <1>2
  <2> HIDE DEF p
  <2> QED BY <2>1, <1>1, <1>2, Parted
<1>5. Lies(q, x, b) /\ \A text : Shows(ps, text) => Shows(q, text)
  <2>1. Len(ps) \in h..Len(ps)
    BY <1>2
  <2> QED BY <2>1, <1>1, <1>2, Parted
<1> HIDE DEF p, q
<1>6. Apart(ps, a, x, b, p, q)
  BY <1>3, <1>4, <1>5 DEF Apart
<1> QED BY <1>3, <1>6

-----------------------------------------------------------------------------
(* The piece of a position.                                                *)

Holds(ps, i, x) == i \in 1..Len(ps) /\ ps[i].pos <= x /\ (x < End(ps[i]) \/ i = Len(ps))

LEMMA BoundingIs ==
  ASSUME NEW ps, NEW a, NEW b, Lies(ps, a, b), NEW i, NEW x \in Nat, Holds(ps, i, x)
  PROVE  Bounding(ps, x) = i
<1> DEFINE n == Len(ps)
<1>1. /\ n \in Nat /\ DOMAIN ps = 1..n
      /\ \A k \in 0..n : Cut(ps, a, k) \in Nat
      /\ \A k \in 1..n : ps[k].pos = Cut(ps, a, k - 1) /\ End(ps[k]) = Cut(ps, a, k)
  BY CutIs, LenProperties
<1>2. \A k, j \in 0..n : k < j => Cut(ps, a, k) < Cut(ps, a, j)
  BY Ordered
<1>3. i \in 1..n /\ ps[i].pos <= x /\ (x < End(ps[i]) \/ i = n)
  BY DEF Holds
<1>4. \A j \in 1..n : j > i => x < ps[j].pos
  <2> SUFFICES ASSUME NEW j \in 1..n, j > i PROVE x < ps[j].pos
    OBVIOUS
  <2>1. i \in 0..n /\ j \in 1..n /\ j > i /\ j - 1 \in 0..n /\ i <= j - 1 /\ i # n
    <3>1. n \in Nat /\ i \in 1..n /\ j \in 1..n
      BY <1>1, <1>3
    <3> HIDE DEF n
    <3> QED BY <3>1
  <2>2. Cut(ps, a, i) <= Cut(ps, a, j - 1)
    <3>1. CASE i = j - 1
      BY <3>1, <2>1, <1>1
    <3>2. CASE i # j - 1
      <4>1. i < j - 1
        BY <3>2, <2>1
      <4>2. Cut(ps, a, i) < Cut(ps, a, j - 1)
        BY <4>1, <2>1, <1>2
      <4>3. Cut(ps, a, i) \in Nat /\ Cut(ps, a, j - 1) \in Nat
        BY <2>1, <1>1
      <4> QED BY <4>2, <4>3
    <3> QED BY <3>1, <3>2
  <2>3. Cut(ps, a, i) \in Nat /\ Cut(ps, a, j - 1) \in Nat
    BY <2>1, <1>1
  <2>4. x < Cut(ps, a, i) /\ ps[j].pos = Cut(ps, a, j - 1)
    BY <2>1, <1>1, <1>3
  <2> QED BY <2>2, <2>3, <2>4
<1>5. ASSUME NEW k \in 1..n, ps[k].pos <= x, \A j \in 1..n : j > k => x < ps[j].pos
      PROVE  k = i
  <2>1. ~(k > i)
    <3> SUFFICES ASSUME k > i PROVE FALSE
      OBVIOUS
    <3>1. x < ps[k].pos
      BY <1>4
    <3>2. ps[k].pos \in Nat
      <4>1. k - 1 \in 0..n
        BY <1>1
      <4> QED BY <4>1, <1>1
    <3> QED BY <3>1, <3>2, <1>5
  <2>2. ~(i > k)
    <3> SUFFICES ASSUME i > k PROVE FALSE
      OBVIOUS
    <3>1. x < ps[i].pos
      BY <1>3, <1>5
    <3>2. ps[i].pos \in Nat
      <4>1. i - 1 \in 0..n
        BY <1>1, <1>3
      <4> QED BY <4>1, <1>1, <1>3
    <3> QED BY <3>1, <3>2, <1>3
  <2> QED BY <2>1, <2>2, <1>1, <1>3
<1> HIDE DEF n
<1>6. Bounding(ps, x) = CHOOSE k \in 1..n : ps[k].pos <= x /\ \A j \in 1..n : j > k => x < ps[j].pos
  BY <1>1 DEF Bounding
<1> QED BY <1>3, <1>4, <1>5, <1>6

LEMMA BoundingIn ==
  ASSUME NEW ps, NEW a, NEW b, Lies(ps, a, b), ps # <<>>, NEW x \in Nat, a <= x
  PROVE  Holds(ps, Bounding(ps, x), x)
<1> DEFINE n == Len(ps)
           Above == {k \in 1..n : x < End(ps[k])}
<1>1. /\ n \in Nat /\ a \in Nat
      /\ \A k \in 0..n : Cut(ps, a, k) \in Nat
      /\ \A k \in 1..n : ps[k].pos = Cut(ps, a, k - 1) /\ End(ps[k]) = Cut(ps, a, k)
  BY CutIs
<1>2. n # 0
  BY EmptySeq DEF Lies, n
<1>3. \E i : Holds(ps, i, x)
  <2>1. CASE Above = {}
    <3>1. n \in 1..n /\ ~(x < End(ps[n]))
      BY <2>1, <1>1, <1>2
    <3>2. ps[n].pos = Cut(ps, a, n - 1) /\ End(ps[n]) = Cut(ps, a, n) /\ n - 1 \in 0..n /\ n \in 0..n
      BY <3>1, <1>1
    <3>3. Cut(ps, a, n - 1) < Cut(ps, a, n) /\ Cut(ps, a, n - 1) \in Nat /\ Cut(ps, a, n) \in Nat
      <4>1. n - 1 < n
        BY <1>1
      <4> QED BY <4>1, <3>2, <1>1, Ordered DEF n
    <3>4. ps[n].pos <= x
      BY <3>1, <3>2, <3>3
    <3> QED BY <3>1, <3>4 DEF Holds, n
  <2>2. CASE Above # {}
    <3>1. Above \subseteq Nat
      OBVIOUS
    <3>2. PICK i \in Above : \A k \in Above : i <= k
      BY <2>2, <3>1, Least
    <3>3. i \in 1..n /\ x < End(ps[i])
      BY <3>2
    <3>4. CASE i = 1
      <4>1. ps[i].pos = a
        BY <3>3, <3>4, <1>1 DEF Cut
      <4> QED BY <4>1, <3>3 DEF Holds, n
    <3>5. CASE i # 1
      <4>1. i - 1 \in 1..n /\ i - 1 \in 0..n /\ ~(i <= i - 1)
        BY <3>3, <3>5, <1>1
      <4>2. ~(x < End(ps[i - 1]))
        BY <4>1, <3>2
      <4>3. End(ps[i - 1]) = Cut(ps, a, i - 1) /\ ps[i].pos = Cut(ps, a, i - 1) /\ Cut(ps, a, i - 1) \in Nat
        BY <4>1, <3>3, <1>1
      <4>4. ps[i].pos <= x
        BY <4>2, <4>3
      <4> QED BY <4>4, <3>3 DEF Holds, n
    <3> QED BY <3>4, <3>5
  <2> QED BY <2>1, <2>2
<1>4. PICK i : Holds(ps, i, x)
  BY <1>3
<1> QED BY <1>4, BoundingIs

-----------------------------------------------------------------------------
(* The length of a table is where it ends less where it begins.            *)

SumStep(ps, g, n) == IF n = 0 THEN 0 ELSE g[n - 1] + ps[n].len
Sums(ps) == CHOOSE g : g = [n \in 0..Len(ps) |-> SumStep(ps, g, n)]

LEMMA SumsAre ==
  ASSUME NEW ps, Len(ps) \in Nat
  PROVE  Sums(ps) = [n \in 0..Len(ps) |-> SumStep(ps, Sums(ps), n)]
<1> DEFINE T == {N \in Nat : \E g : g = [n \in 0..N |-> SumStep(ps, g, n)]}
<1>1. 0 \in T
  <2> DEFINE g == [n \in 0..0 |-> 0]
  <2>1. g = [n \in 0..0 |-> SumStep(ps, g, n)]
    BY DEF SumStep
  <2> QED BY <2>1
<1>2. ASSUME NEW N \in Nat, N \in T PROVE N + 1 \in T
  <2>1. PICK g : g = [n \in 0..N |-> SumStep(ps, g, n)]
    BY <1>2
  <2> DEFINE h == [n \in 0..(N + 1) |-> IF n = N + 1 THEN SumStep(ps, g, n) ELSE g[n]]
  <2>2. ASSUME NEW n \in 0..(N + 1) PROVE h[n] = SumStep(ps, h, n)
    <3>1. n # 0 => n - 1 \in 0..(N + 1) /\ n - 1 # N + 1 /\ n - 1 \in 0..N
      OBVIOUS
    <3>2. n # 0 => h[n - 1] = g[n - 1]
      BY <3>1
    <3>3. SumStep(ps, h, n) = SumStep(ps, g, n)
      BY <3>2 DEF SumStep
    <3>4. n # N + 1 => n \in 0..N
      OBVIOUS
    <3>5. n # N + 1 => g[n] = SumStep(ps, g, n)
      BY <3>4, <2>1
    <3> QED BY <3>3, <3>5
  <2>3. h = [n \in 0..(N + 1) |-> SumStep(ps, h, n)]
    BY <2>2
  <2> HIDE DEF h
  <2>4. N + 1 \in Nat /\ \E f : f = [n \in 0..(N + 1) |-> SumStep(ps, f, n)]
    BY <2>3
  <2> QED BY <2>4
<1>3. Len(ps) \in 0..Len(ps)
  OBVIOUS
<1> HIDE DEF T
<1>4. Len(ps) \in T
  BY <1>1, <1>2, <1>3, Induct
<1> QED BY <1>4 DEF T, Sums

LEMMA LengthIs ==
  ASSUME NEW ps, NEW a, NEW b, Lies(ps, a, b)
  PROVE  LengthOf(ps) = b - a
<1> DEFINE f == Sums(ps)
           N == Len(ps)
           T == {k \in 0..N : f[k] = Cut(ps, a, k) - a}
<1>1. /\ N \in Nat /\ a \in Nat /\ \A i \in 0..N : Cut(ps, a, i) \in Nat
      /\ \A i \in 1..N : Cut(ps, a, i) = Cut(ps, a, i - 1) + ps[i].len /\ ps[i].len \in Nat
  BY CutIs
<1>2. f = [n \in 0..N |-> SumStep(ps, f, n)]
  BY <1>1, SumsAre
<1> HIDE DEF f, N
<1>3. 0 \in T
  BY <1>1, <1>2 DEF SumStep, Cut
<1>4. ASSUME NEW k \in Nat, k < N, k \in T PROVE k + 1 \in T
  <2>1. k + 1 \in 1..N /\ k + 1 \in 0..N /\ (k + 1) - 1 = k /\ k + 1 # 0 /\ k \in 0..N
    BY <1>1, <1>4
  <2>2. f[k + 1] = f[k] + ps[k + 1].len
    BY <2>1, <1>2 DEF SumStep
  <2>3. Cut(ps, a, k + 1) = Cut(ps, a, k) + ps[k + 1].len /\ Cut(ps, a, k) \in Nat /\ ps[k + 1].len \in Nat
    BY <2>1, <1>1
  <2> QED BY <2>1, <2>2, <2>3, <1>1, <1>4
<1>5. N \in 0..N
  BY <1>1
<1> HIDE DEF T
<1>6. N \in T
  BY <1>1, <1>3, <1>4, <1>5, Induct
<1>7. f[N] = b - a
  BY <1>6 DEF T, Lies, N
<1> QED BY <1>7 DEF LengthOf, Sums, SumStep, f, N

-----------------------------------------------------------------------------
(* What a table says.                                                      *)

TextStep(ps, g, n) == IF n = 0 THEN <<>> ELSE g[n - 1] \o CharsOf(ps[n])
Texts(ps) == CHOOSE g : g = [n \in 0..Len(ps) |-> TextStep(ps, g, n)]

LEMMA TextsAre ==
  ASSUME NEW ps, Len(ps) \in Nat
  PROVE  Texts(ps) = [n \in 0..Len(ps) |-> TextStep(ps, Texts(ps), n)]
<1> DEFINE T == {N \in Nat : \E g : g = [n \in 0..N |-> TextStep(ps, g, n)]}
<1>1. 0 \in T
  <2> DEFINE g == [n \in 0..0 |-> <<>>]
  <2>1. g = [n \in 0..0 |-> TextStep(ps, g, n)]
    BY DEF TextStep
  <2> QED BY <2>1
<1>2. ASSUME NEW N \in Nat, N \in T PROVE N + 1 \in T
  <2>1. PICK g : g = [n \in 0..N |-> TextStep(ps, g, n)]
    BY <1>2
  <2> DEFINE h == [n \in 0..(N + 1) |-> IF n = N + 1 THEN TextStep(ps, g, n) ELSE g[n]]
  <2>2. ASSUME NEW n \in 0..(N + 1) PROVE h[n] = TextStep(ps, h, n)
    <3>1. n # 0 => n - 1 \in 0..(N + 1) /\ n - 1 # N + 1 /\ n - 1 \in 0..N
      OBVIOUS
    <3>2. n # 0 => h[n - 1] = g[n - 1]
      BY <3>1
    <3>3. TextStep(ps, h, n) = TextStep(ps, g, n)
      BY <3>2 DEF TextStep
    <3>4. n # N + 1 => n \in 0..N
      OBVIOUS
    <3>5. n # N + 1 => g[n] = TextStep(ps, g, n)
      BY <3>4, <2>1
    <3> QED BY <3>3, <3>5
  <2>3. h = [n \in 0..(N + 1) |-> TextStep(ps, h, n)]
    BY <2>2
  <2> HIDE DEF h
  <2>4. N + 1 \in Nat /\ \E f : f = [n \in 0..(N + 1) |-> TextStep(ps, f, n)]
    BY <2>3
  <2> QED BY <2>4
<1>3. Len(ps) \in 0..Len(ps)
  OBVIOUS
<1> HIDE DEF T
<1>4. Len(ps) \in T
  BY <1>1, <1>2, <1>3, Induct
<1> QED BY <1>4 DEF T, Texts

LEMMA CharsAre ==
  ASSUME NEW p \in Bits
  PROVE  /\ CharsOf(p) \in Seq(Char) /\ Len(CharsOf(p)) = p.len
         /\ \A k \in 1..p.len : CharsOf(p)[k] = <<p.src, p.off + k>>
<1>1. /\ p.len \in Nat /\ p.off \in Nat /\ p.off + p.len <= MaxLength /\ p.src \in Source
      /\ MaxLength \in Nat
  BY BitIs, PieceAssumption
<1>2. \A k \in 1..p.len : <<p.src, p.off + k>> \in Char
  BY <1>1 DEF Char
<1> QED BY <1>1, <1>2 DEF CharsOf

(* The characters of a table, each at its place.                           *)
LEMMA DenotesIs ==
  ASSUME NEW ps, NEW a, NEW b, Lies(ps, a, b)
  PROVE  /\ Denotes(ps) \in Seq(Char) /\ Len(Denotes(ps)) = b - a
         /\ \A i \in 1..Len(ps) : \A k \in 1..ps[i].len :
              Denotes(ps)[(ps[i].pos - a) + k] = <<ps[i].src, ps[i].off + k>>
         /\ \A x \in 1..(b - a) : \E i \in 1..Len(ps) : \E k \in 1..ps[i].len : x = (ps[i].pos - a) + k
<1> DEFINE f == Texts(ps)
           N == Len(ps)
           c(k) == Cut(ps, a, k) - a
           Good(k) == /\ f[k] \in Seq(Char) /\ Len(f[k]) = c(k)
                      /\ \A i \in 1..k : \A j \in 1..ps[i].len :
                           f[k][c(i - 1) + j] = <<ps[i].src, ps[i].off + j>>
                      /\ \A x \in 1..c(k) : \E i \in 1..k : \E j \in 1..ps[i].len : x = c(i - 1) + j
           T == {k \in 0..N : Good(k)}
<1>1. /\ N \in Nat /\ a \in Nat /\ \A i \in 0..N : Cut(ps, a, i) \in Nat
      /\ \A i \in 1..N : /\ Cut(ps, a, i) = Cut(ps, a, i - 1) + ps[i].len /\ ps[i].len \in Nat
                         /\ ps[i].pos = Cut(ps, a, i - 1) /\ ps[i] \in Bits
  BY CutIs
<1>2. f = [n \in 0..N |-> TextStep(ps, f, n)]
  BY <1>1, TextsAre
<1>3. \A i \in 0..N : c(i) \in Nat
  BY <1>1, Ordered
<1>4. \A i, j \in 0..N : i < j => c(i) < c(j)
  <2> TAKE i, j \in 0..N
  <2>1. i < j => Cut(ps, a, i) < Cut(ps, a, j)
    BY Ordered
  <2>2. Cut(ps, a, i) \in Nat /\ Cut(ps, a, j) \in Nat
    BY <1>1
  <2> QED BY <2>1, <2>2, <1>1
<1>5. \A i \in 1..N : c(i) = c(i - 1) + ps[i].len /\ ps[i].len \in Nat /\ ps[i].pos - a = c(i - 1) /\ ps[i] \in Bits
                      /\ i - 1 \in 0..N /\ i \in 0..N
  <2> TAKE i \in 1..N
  <2> DEFINE u == Cut(ps, a, i - 1)
             v == Cut(ps, a, i)
             l == ps[i].len
  <2>1. i - 1 \in 0..N /\ i \in 0..N
    BY <1>1
  <2>2. u \in Nat /\ v \in Nat /\ l \in Nat /\ v = u + l /\ a \in Nat /\ ps[i].pos = u /\ ps[i] \in Bits
    BY <2>1, <1>1
  <2> HIDE DEF u, v, l, N
  <2>3. v - a = (u - a) + l /\ ps[i].pos - a = u - a
    BY <2>2
  <2> QED BY <2>1, <2>2, <2>3 DEF u, v, l
<1>6. c(0) = 0
  BY <1>1 DEF Cut
<1> HIDE DEF f, N, c
<1>7. 0 \in T
  <2>1. f[0] = <<>> /\ 1..0 = {} /\ 0 \in 0..N
    BY <1>1, <1>2 DEF TextStep
  <2>2. <<>> \in Seq(Char) /\ Len(<<>>) = 0
    OBVIOUS
  <2> QED BY <2>1, <2>2, <1>6
<1>8. ASSUME NEW k \in Nat, k < N, k \in T PROVE k + 1 \in T
  <2> DEFINE n == k + 1
             s == CharsOf(ps[n])
  <2>1. n \in 1..N /\ n \in 0..N /\ n - 1 = k /\ n # 0 /\ k \in 0..N /\ Good(k)
    <3> HIDE DEF Good
    <3>1. k \in 0..N /\ Good(k)
      BY <1>8
    <3> QED BY <3>1, <1>1, <1>8
  <2>2. c(n) = c(k) + ps[n].len /\ c(k) \in Nat /\ ps[n].len \in Nat /\ ps[n] \in Bits
    BY <2>1, <1>3, <1>5
  <2>3. s \in Seq(Char) /\ Len(s) = ps[n].len /\ \A j \in 1..ps[n].len : s[j] = <<ps[n].src, ps[n].off + j>>
    BY <2>2, CharsAre
  <2>4. f[n] = f[k] \o s
    BY <2>1, <1>2 DEF TextStep
  <2> HIDE DEF s, n
  <2>5. /\ f[n] \in Seq(Char) /\ Len(f[n]) = Len(f[k]) + Len(s)
        /\ \A x \in 1..(Len(f[k]) + Len(s)) : f[n][x] = IF x <= Len(f[k]) THEN f[k][x] ELSE s[x - Len(f[k])]
    <3> DEFINE u == f[k]
    <3>1. u \in Seq(Char)
      BY <2>1
    <3> HIDE DEF u
    <3>2. /\ u \o s \in Seq(Char) /\ Len(u \o s) = Len(u) + Len(s)
          /\ \A x \in 1..(Len(u) + Len(s)) : (u \o s)[x] = IF x <= Len(u) THEN u[x] ELSE s[x - Len(u)]
      BY <3>1, <2>3, ConcatProperties
    <3> QED BY <3>2, <2>4 DEF u
  <2>6. /\ f[n] \in Seq(Char) /\ Len(f[n]) = c(n)
        /\ \A x \in 1..c(n) : f[n][x] = IF x <= c(k) THEN f[k][x] ELSE s[x - c(k)]
    BY <2>1, <2>2, <2>3, <2>5
  <2>7. ASSUME NEW i \in 1..n, NEW j \in 1..ps[i].len
        PROVE  f[n][c(i - 1) + j] = <<ps[i].src, ps[i].off + j>>
    <3>1. CASE i = n
      <4>1. c(i - 1) = c(k) /\ j \in 1..ps[n].len
        BY <3>1, <2>1
      <4>2. c(k) + j \in 1..c(n) /\ ~(c(k) + j <= c(k)) /\ (c(k) + j) - c(k) = j
        BY <4>1, <2>2
      <4>3. f[n][c(k) + j] = s[j]
        BY <4>2, <2>6
      <4> QED BY <4>1, <4>3, <2>3, <3>1
    <3>2. CASE i # n
      <4>1. i \in 1..k /\ i \in 1..N /\ i \in 0..N /\ i - 1 \in 0..N
        <5>1. n \in 1..N /\ n - 1 = k /\ N \in Nat
          BY <2>1, <1>1
        <5> QED BY <5>1, <3>2
      <4>2. c(i) = c(i - 1) + ps[i].len /\ c(i - 1) \in Nat /\ ps[i].len \in Nat /\ c(i) \in Nat
        BY <4>1, <1>3, <1>5
      <4>3. c(i) <= c(k)
        <5>1. i = k \/ i < k
          BY <4>1
        <5>2. i < k => c(i) < c(k)
          BY <4>1, <2>1, <1>4
        <5> QED BY <5>1, <5>2, <4>2, <2>2
      <4>4. c(i - 1) + j \in 1..c(n) /\ c(i - 1) + j <= c(k)
        BY <4>2, <4>3, <2>2
      <4>5. f[n][c(i - 1) + j] = f[k][c(i - 1) + j]
        BY <4>4, <2>6
      <4>6. f[k][c(i - 1) + j] = <<ps[i].src, ps[i].off + j>>
        BY <4>1, <2>1
      <4> QED BY <4>5, <4>6
    <3> QED BY <3>1, <3>2
  <2>8. ASSUME NEW x \in 1..c(n) PROVE \E i \in 1..n : \E j \in 1..ps[i].len : x = c(i - 1) + j
    <3>1. CASE x <= c(k)
      <4>1. x \in 1..c(k)
        BY <3>1, <2>2
      <4>2. PICK i \in 1..k : \E j \in 1..ps[i].len : x = c(i - 1) + j
        BY <4>1, <2>1
      <4>3. i \in 1..n
        BY <2>1
      <4> QED BY <4>2, <4>3
    <3>2. CASE ~(x <= c(k))
      <4>1. x - c(k) \in 1..ps[n].len /\ x = c(k) + (x - c(k)) /\ n \in 1..n
        BY <3>2, <2>1, <2>2
      <4>2. c(n - 1) = c(k)
        BY <2>1
      <4> QED BY <4>1, <4>2
    <3> QED BY <3>1, <3>2
  <2>9. Good(n)
    BY <2>6, <2>7, <2>8
  <2> QED BY <2>1, <2>9 DEF n
<1>9. N \in 0..N
  BY <1>1
<1> HIDE DEF T
<1>10. N \in T
  BY <1>1, <1>7, <1>8, <1>9, Induct
<1>11. Denotes(ps) = f[N]
  BY DEF Denotes, Texts, TextStep, f, N
<1>12. c(N) = b - a
  BY DEF c, N, Lies
<1>13. Good(N)
  BY <1>10 DEF T
<1>14. \A i \in 1..N : ps[i].pos - a = c(i - 1)
  BY <1>5
<1> QED
  <2>1. Denotes(ps) \in Seq(Char) /\ Len(Denotes(ps)) = b - a
    BY <1>11, <1>12, <1>13
  <2>2. \A i \in 1..N : \A k \in 1..ps[i].len : Denotes(ps)[(ps[i].pos - a) + k] = <<ps[i].src, ps[i].off + k>>
    BY <1>11, <1>13, <1>14
  <2>3. \A x \in 1..(b - a) : \E i \in 1..N : \E k \in 1..ps[i].len : x = (ps[i].pos - a) + k
    BY <1>12, <1>13, <1>14
  <2> QED BY <2>1, <2>2, <2>3 DEF N

(* A table that shows a text says that part of it.                         *)
LEMMA DenotesShown ==
  ASSUME NEW ps, NEW a, NEW b, Lies(ps, a, b), NEW text, Shows(ps, text)
  PROVE  \A x \in 1..(b - a) : Denotes(ps)[x] = text[a + x]
<1>1. a \in Nat /\ b \in Nat /\ \A i \in 1..Len(ps) : ps[i].pos \in Nat /\ ps[i].len \in Nat
  BY CutIs
<1> SUFFICES ASSUME NEW x \in 1..(b - a) PROVE Denotes(ps)[x] = text[a + x]
  OBVIOUS
<1>2. PICK i \in 1..Len(ps) : \E k \in 1..ps[i].len : x = (ps[i].pos - a) + k
  BY DenotesIs
<1>3. PICK k \in 1..ps[i].len : x = (ps[i].pos - a) + k
  BY <1>2
<1>4. Denotes(ps)[x] = <<ps[i].src, ps[i].off + k>>
  BY <1>2, <1>3, DenotesIs
<1>5. a + x = ps[i].pos + k
  BY <1>1, <1>3
<1>6. text[ps[i].pos + k] = <<ps[i].src, ps[i].off + k>>
  BY <1>2, <1>3 DEF Shows
<1> QED BY <1>4, <1>5, <1>6

LEMMA ShownIsSaid ==
  ASSUME NEW ps, NEW text \in Seq(Char), Lies(ps, 0, Len(text)), Shows(ps, text)
  PROVE  Denotes(ps) = text
<1>1. Len(text) \in Nat
  OBVIOUS
<1>2. \A x \in 1..(Len(text) - 0) : Denotes(ps)[x] = text[0 + x]
  BY DenotesShown
<1>3. Denotes(ps) \in Seq(Char) /\ Len(Denotes(ps)) = Len(text) - 0
  BY DenotesIs
<1> QED BY <1>1, <1>2, <1>3, SeqEqual

-----------------------------------------------------------------------------
(* One piece becomes two, or another one.                                  *)

LEMMA OneOf == ASSUME NEW S, NEW x \in S PROVE <<x>> \in Seq(S) /\ Len(<<x>>) = 1 /\ <<x>>[1] = x
OBVIOUS

(* An entry of a sequence is replaced.                                     *)
LEMMA ExceptParts ==
  ASSUME NEW S, NEW p \in Seq(S), NEW q \in Seq(S), NEW x \in S, NEW y \in S
  PROVE  /\ [((p \o <<x>>) \o q) EXCEPT ![Len(p) + 1] = y] = (p \o <<y>>) \o q
         /\ ((p \o <<x>>) \o q)[Len(p) + 1] = x
         /\ Len(p) + 1 \in 1..Len((p \o <<x>>) \o q) /\ (p \o <<x>>) \o q \in Seq(S)
         /\ Len((p \o <<x>>) \o q) = Len(p) + 1 + Len(q)
<1> DEFINE n == Len(p) + 1
           r(z) == (p \o <<z>>) \o q
<1>1. Len(p) \in Nat /\ Len(q) \in Nat
  BY LenProperties
<1>2. ASSUME NEW z \in S
      PROVE  /\ r(z) \in Seq(S) /\ Len(r(z)) = n + Len(q)
             /\ \A i \in 1..(n + Len(q)) : r(z)[i] = IF i < n THEN p[i] ELSE IF i = n THEN z ELSE q[i - n]
  <2> DEFINE pz == p \o <<z>>
  <2>1. <<z>> \in Seq(S) /\ Len(<<z>>) = 1 /\ <<z>>[1] = z
    BY OneOf
  <2>2. /\ pz \in Seq(S) /\ Len(pz) = Len(p) + Len(<<z>>)
        /\ \A i \in 1..(Len(p) + Len(<<z>>)) : pz[i] = IF i <= Len(p) THEN p[i] ELSE <<z>>[i - Len(p)]
    BY <2>1, ConcatProperties
  <2> HIDE DEF pz
  <2>3. Len(pz) = n /\ \A i \in 1..n : pz[i] = IF i < n THEN p[i] ELSE z
    <3>1. Len(pz) = n
      BY <2>1, <2>2
    <3>2. ASSUME NEW i \in 1..n PROVE pz[i] = IF i < n THEN p[i] ELSE z
      <4>1. pz[i] = IF i <= Len(p) THEN p[i] ELSE <<z>>[i - Len(p)]
        BY <2>1, <2>2
      <4>2. CASE i < n
        BY <4>1, <4>2, <1>1
      <4>3. CASE ~(i < n)
        <5>1. i - Len(p) = 1 /\ ~(i <= Len(p))
          BY <4>3, <1>1
        <5> QED BY <5>1, <4>1, <4>3, <2>1
      <4> QED BY <4>2, <4>3
    <3> QED BY <3>1, <3>2
  <2>4. /\ pz \o q \in Seq(S) /\ Len(pz \o q) = Len(pz) + Len(q)
        /\ \A i \in 1..(Len(pz) + Len(q)) : (pz \o q)[i] = IF i <= Len(pz) THEN pz[i] ELSE q[i - Len(pz)]
    <3>1. PICK t \in Seq(S) : t = pz
      BY <2>2
    <3>2. /\ t \o q \in Seq(S) /\ Len(t \o q) = Len(t) + Len(q)
          /\ \A i \in 1..(Len(t) + Len(q)) : (t \o q)[i] = IF i <= Len(t) THEN t[i] ELSE q[i - Len(t)]
      BY ConcatProperties
    <3> QED BY <3>1, <3>2
  <2>5. \A i \in 1..(n + Len(q)) : (pz \o q)[i] = IF i < n THEN p[i] ELSE IF i = n THEN z ELSE q[i - n]
    <3> TAKE i \in 1..(n + Len(q))
    <3>1. (pz \o q)[i] = IF i <= n THEN pz[i] ELSE q[i - n]
      BY <2>3, <2>4
    <3>2. i <= n => i \in 1..n
      BY <1>1
    <3> QED BY <3>1, <3>2, <2>3, <1>1
  <2> QED BY <2>3, <2>4, <2>5 DEF pz
<1> HIDE DEF r
<1>3. n \in 1..(n + Len(q)) /\ n \in Nat
  BY <1>1
<1>4. r(x)[n] = x
  BY <1>2, <1>3
<1>5. [r(x) EXCEPT ![n] = y] = r(y)
  <2> DEFINE s == [r(x) EXCEPT ![n] = y]
  <2>1. s \in Seq(S) /\ Len(s) = Len(r(x)) /\ \A i \in 1..Len(r(x)) : s[i] = IF i = n THEN y ELSE r(x)[i]
    BY SMTT(30), <1>2, <1>3, ExceptSeq
  <2> HIDE DEF s
  <2>2. ASSUME NEW i \in 1..Len(s) PROVE s[i] = r(y)[i]
    <3>1. i \in 1..(n + Len(q)) /\ s[i] = IF i = n THEN y ELSE r(x)[i]
      BY <2>1, <1>2
    <3>2. r(x)[i] = IF i < n THEN p[i] ELSE IF i = n THEN x ELSE q[i - n]
      BY <3>1, <1>2
    <3>3. r(y)[i] = IF i < n THEN p[i] ELSE IF i = n THEN y ELSE q[i - n]
      BY <3>1, <1>2
    <3> QED BY <3>1, <3>2, <3>3, <1>3
  <2>3. Len(s) = Len(r(y)) /\ r(y) \in Seq(S)
    BY <2>1, <1>2
  <2>4. s = r(y)
    BY <2>1, <2>2, <2>3, SeqEqual
  <2> QED BY <2>4 DEF s
<1> QED BY <1>2, <1>3, <1>4, <1>5 DEF r

LeftOf(x, d)  == [x EXCEPT !.len = d]
RightOf(x, d) == [x EXCEPT !.pos = @ + d, !.len = @ - d, !.off = @ + d]

LEMMA HalvesAre ==
  ASSUME NEW x \in Bits, NEW d \in 0..x.len
  PROVE  /\ LeftOf(x, d) \in Bits /\ LeftOf(x, d).pos = x.pos /\ LeftOf(x, d).len = d
         /\ LeftOf(x, d).src = x.src /\ LeftOf(x, d).off = x.off /\ End(LeftOf(x, d)) = x.pos + d
         /\ RightOf(x, d) \in Bits /\ RightOf(x, d).pos = x.pos + d /\ RightOf(x, d).len = x.len - d
         /\ RightOf(x, d).src = x.src /\ RightOf(x, d).off = x.off + d /\ End(RightOf(x, d)) = End(x)
         /\ (d = 0 => RightOf(x, d) = x) /\ (d = x.len => LeftOf(x, d) = x)
<1> DEFINE l == LeftOf(x, d)
           r == RightOf(x, d)
<1>1. /\ x \in [pos : Nat, len : Nat, src : Source, off : Nat] /\ x.off + x.len <= MaxLength
      /\ x = [pos |-> x.pos, len |-> x.len, src |-> x.src, off |-> x.off]
      /\ x.pos \in Nat /\ x.len \in Nat /\ x.off \in Nat /\ x.src \in Source
  BY DEF Bits
<1>2. MaxLength \in Nat /\ d \in Nat /\ d <= x.len
  BY <1>1, PieceAssumption
<1>3. l = [pos |-> x.pos, len |-> d, src |-> x.src, off |-> x.off]
  BY <1>1 DEF LeftOf
<1>4. r = [pos |-> x.pos + d, len |-> x.len - d, src |-> x.src, off |-> x.off + d]
  <2> DEFINE y == [pos |-> x.pos + d, len |-> x.len, src |-> x.src, off |-> x.off]
             z == [pos |-> x.pos + d, len |-> x.len - d, src |-> x.src, off |-> x.off]
  <2>1. [x EXCEPT !.pos = @ + d] = y
    BY <1>1
  <2>2. [y EXCEPT !.len = @ - d] = z
    OBVIOUS
  <2>3. [z EXCEPT !.off = @ + d] = [pos |-> x.pos + d, len |-> x.len - d, src |-> x.src, off |-> x.off + d]
    OBVIOUS
  <2>4. r = [[[x EXCEPT !.pos = x.pos + d] EXCEPT !.len = x.len - d] EXCEPT !.off = x.off + d]
    BY DEF RightOf
  <2> QED BY <2>1, <2>2, <2>3, <2>4
<1>5. x.pos + d \in Nat /\ x.len - d \in Nat /\ x.off + d \in Nat /\ (x.pos + d) + (x.len - d) = x.pos + x.len
      /\ (x.off + d) + (x.len - d) <= MaxLength /\ x.off + d <= MaxLength
  BY <1>1, <1>2
<1>6. l \in Bits /\ End(l) = x.pos + d
  BY <1>1, <1>2, <1>3, <1>5 DEF Bits, End
<1>7. r \in Bits /\ End(r) = End(x)
  BY <1>1, <1>4, <1>5 DEF Bits, End
<1>8. d = 0 => r = x
  BY <1>1, <1>4
<1>9. d = x.len => l = x
  BY <1>1, <1>3
<1> QED BY <1>3, <1>4, <1>6, <1>7, <1>8, <1>9

LEMMA SplitParts ==
  ASSUME NEW p \in Seq(Bits), NEW q \in Seq(Bits), NEW x \in Bits, NEW d \in 0..x.len
  PROVE  Split((p \o <<x>>) \o q, Len(p) + 1, d) = ((p \o <<LeftOf(x, d)>>) \o <<RightOf(x, d)>>) \o q
<1> DEFINE ps == (p \o <<x>>) \o q
           n == Len(p) + 1
           l == LeftOf(x, d)
           r == RightOf(x, d)
           pl == p \o <<l>>
<1>1. l \in Bits /\ r \in Bits
  BY HalvesAre
<1>2. /\ ps[n] = x /\ [ps EXCEPT ![n] = l] = pl \o q
  BY <1>1, ExceptParts
<1>3. Len(p) \in Nat /\ pl \in Seq(Bits) /\ Len(pl) = n /\ <<r>> \in Seq(Bits)
  <2>1. <<l>> \in Seq(Bits) /\ Len(<<l>>) = 1 /\ <<r>> \in Seq(Bits)
    BY <1>1, OneOf
  <2> QED BY <2>1, LenProperties, ConcatProperties
<1> HIDE DEF ps, n, pl
<1>4. PutIn(pl \o q, Len(pl) + 1, <<r>>) = (pl \o <<r>>) \o q
  BY <1>3, PutInParts
<1>5. Split(ps, n, d) = PutIn([ps EXCEPT ![n] = [ps[n] EXCEPT !.len = d]], n + 1, <<RightOf(ps[n], d)>>)
  BY DEF Split, RightOf
<1>6. [ps[n] EXCEPT !.len = d] = l
  BY <1>2 DEF LeftOf
<1> HIDE DEF l, r
<1>7. Split(ps, n, d) = PutIn(pl \o q, Len(pl) + 1, <<r>>)
  BY <1>2, <1>3, <1>5, <1>6 DEF r
<1> QED BY <1>4, <1>7 DEF ps, n, pl, l, r

(* One piece of a table, and what is before and after it.                  *)
LEMMA PieceOut ==
  ASSUME NEW ps, NEW a, NEW b, Lies(ps, a, b), NEW i \in 1..Len(ps)
  PROVE  \E p, q \in Seq(Bits) :
           /\ ps = (p \o <<ps[i]>>) \o q /\ Len(p) = i - 1 /\ Len(q) = Len(ps) - i
           /\ Lies(p, a, ps[i].pos) /\ Lies(q, End(ps[i]), b)
           /\ \A text : Shows(ps, text) => Shows(p, text) /\ Shows(q, text) /\ Shows(<<ps[i]>>, text)
<1> DEFINE p == SubSeq(ps, 1, i - 1)
           q == SubSeq(ps, i + 1, Len(ps))
           h == SubSeq(ps, 1, i)
<1>1. /\ Len(ps) \in Nat /\ ps \in Seq(Bits) /\ ps[i] \in Bits /\ ps[i].len > 0
      /\ ps[i].pos = Cut(ps, a, i - 1) /\ End(ps[i]) = Cut(ps, a, i)
      /\ Cut(ps, a, 0) = a /\ Cut(ps, a, Len(ps)) = b
  BY CutIs DEF Lies, Cut
<1>2. i \in 0..Len(ps) /\ i - 1 \in 0..Len(ps) /\ 0 \in 0..Len(ps) /\ Len(ps) \in i..Len(ps)
      /\ i - 1 \in 0..(Len(ps)) /\ i \in (i - 1)..Len(ps)
  BY <1>1
<1>3. /\ ps = h \o q /\ h \in Seq(Bits) /\ Len(h) = i /\ q \in Seq(Bits) /\ Len(q) = Len(ps) - i
  BY <1>1, <1>2, Halves
<1>4. /\ Lies(p, a, ps[i].pos) /\ Len(p) = i - 1 /\ p \in Seq(Bits)
      /\ \A k \in 1..(i - 1) : p[k] = ps[k]
      /\ \A text : Shows(ps, text) => Shows(p, text)
  <2>1. LET part == SubSeq(ps, 0 + 1, i - 1) IN
         /\ Lies(part, Cut(ps, a, 0), Cut(ps, a, i - 1)) /\ Len(part) = (i - 1) - 0
         /\ \A k \in 1..((i - 1) - 0) : part[k] = ps[0 + k]
         /\ \A text : Shows(ps, text) => Shows(part, text)
    BY <1>2, Parted
  <2>2. 0 + 1 = 1 /\ (i - 1) - 0 = i - 1 /\ \A k \in 1..(i - 1) : 0 + k = k
    BY <1>1
  <2> HIDE DEF p
  <2>3. SubSeq(ps, 0 + 1, i - 1) = p
    BY DEF p
  <2>4. /\ Lies(p, Cut(ps, a, 0), Cut(ps, a, i - 1)) /\ Len(p) = (i - 1) - 0
        /\ \A k \in 1..((i - 1) - 0) : p[k] = ps[0 + k]
        /\ \A text : Shows(ps, text) => Shows(p, text)
    BY <2>1, <2>3
  <2>5. p \in Seq(Bits)
    BY <2>4 DEF Lies
  <2> QED BY <2>2, <2>4, <2>5, <1>1
<1>5. Lies(q, End(ps[i]), b) /\ \A text : Shows(ps, text) => Shows(q, text)
  BY <1>1, <1>2, Parted
<1>6. ASSUME NEW text, Shows(ps, text) PROVE Shows(<<ps[i]>>, text)
  <2>1. \A k \in 1..ps[i].len : text[ps[i].pos + k] = <<ps[i].src, ps[i].off + k>>
    BY <1>6 DEF Shows
  <2> QED BY <2>1, <1>1, OnePiece
<1> HIDE DEF p, q
<1>7. h = p \o <<ps[i]>>
  <2>1. \A k \in 1..i : h[k] = ps[k]
    <3>1. \A k \in 1..i : ps[k] \in Bits
      BY <1>1, <1>2, ElementOfSeq
    <3>2. \A k \in 1..(i - 1 + 1) : h[k] = ps[1 + k - 1]
      BY <3>1, <1>1, SubSeqProperties
    <3>3. i - 1 + 1 = i /\ \A k \in 1..i : 1 + k - 1 = k
      BY <1>1
    <3> QED BY <3>2, <3>3
  <2>2. <<ps[i]>> \in Seq(Bits) /\ Len(<<ps[i]>>) = 1 /\ <<ps[i]>>[1] = ps[i]
    BY <1>1, OneOf
  <2> DEFINE s == <<ps[i]>>
             g == p \o s
  <2>3. /\ g \in Seq(Bits) /\ Len(g) = Len(p) + Len(s)
        /\ \A k \in 1..(Len(p) + Len(s)) : g[k] = IF k <= Len(p) THEN p[k] ELSE s[k - Len(p)]
    BY <2>2, <1>4, ConcatProperties
  <2> HIDE DEF g, h
  <2>4. Len(g) = i
    BY <2>2, <2>3, <1>1, <1>4
  <2>5. ASSUME NEW k \in 1..Len(h) PROVE h[k] = g[k]
    <3>1. k \in 1..i /\ i - 1 \in Nat /\ g[k] = IF k <= i - 1 THEN p[k] ELSE s[k - (i - 1)]
      <4>1. k \in 1..i /\ i - 1 \in Nat /\ k \in 1..((i - 1) + 1)
        BY <1>1, <1>3
      <4>2. k \in 1..(Len(p) + Len(s))
        BY <4>1, <2>2, <1>4
      <4>3. g[k] = IF k <= Len(p) THEN p[k] ELSE s[k - Len(p)]
        BY <4>2, <2>3
      <4> QED BY <4>1, <4>3, <1>4
    <3>2. CASE k <= i - 1
      BY <3>1, <3>2, <2>1, <1>4
    <3>3. CASE ~(k <= i - 1)
      <4>1. k = i /\ k - (i - 1) = 1
        BY <3>1, <3>3
      <4> QED BY <4>1, <3>1, <3>3, <2>1, <2>2
    <3> QED BY <3>2, <3>3
  <2>6. h = g
    BY <2>3, <2>4, <2>5, <1>3, SeqEqual
  <2> QED BY <2>6 DEF g
<1>8. ps = (p \o <<ps[i]>>) \o q
  BY <1>3, <1>7
<1> QED BY <1>3, <1>4, <1>5, <1>6, <1>8

(* A piece cut in two: the table shows what it did, and has one place more *)
(* where pieces meet.                                                      *)
SplitAs(ps, a, b, i, at, cut, p, q) ==
  /\ cut = p \o q /\ Len(p) = i /\ Lies(p, a, at) /\ Lies(q, at, b)
  /\ \A text : Shows(ps, text) => Shows(p, text) /\ Shows(q, text)
  /\ \A x : Meets(ps, a, x) => Meets(p, a, x) \/ Meets(q, at, x)
  /\ \A j \in 1..(i - 1) : p[j] = ps[j]

LEMMA SplitIs ==
  ASSUME NEW ps, NEW a, NEW b, Lies(ps, a, b), NEW i \in 1..Len(ps), NEW d \in 1..(ps[i].len - 1)
  PROVE  \E p, q \in Seq(Bits) : SplitAs(ps, a, b, i, ps[i].pos + d, Split(ps, i, d), p, q)
<1> DEFINE x == ps[i]
           l == LeftOf(x, d)
           r == RightOf(x, d)
           m == x.pos + d
<1>1. Len(ps) \in Nat /\ x \in Bits /\ x.len \in Nat /\ x.pos \in Nat
  BY CutIs
<1>2. PICK p, q \in Seq(Bits) :
           /\ ps = (p \o <<x>>) \o q /\ Len(p) = i - 1
           /\ Lies(p, a, x.pos) /\ Lies(q, End(x), b)
           /\ \A text : Shows(ps, text) => Shows(p, text) /\ Shows(q, text) /\ Shows(<<x>>, text)
  BY PieceOut
<1>3. d \in 0..x.len /\ d \in Nat /\ d > 0 /\ x.len - d > 0 /\ i = Len(p) + 1
  BY <1>1, <1>2
<1>4. /\ l \in Bits /\ l.pos = x.pos /\ l.len = d /\ l.src = x.src /\ l.off = x.off /\ End(l) = m
      /\ r \in Bits /\ r.pos = m /\ r.len = x.len - d /\ r.src = x.src /\ r.off = x.off + d /\ End(r) = End(x)
  BY <1>1, <1>3, HalvesAre
<1>5. Split(ps, i, d) = ((p \o <<l>>) \o <<r>>) \o q
  <2>1. Split((p \o <<x>>) \o q, Len(p) + 1, d) = ((p \o <<l>>) \o <<r>>) \o q
    BY <1>1, <1>3, SplitParts
  <2> QED BY <2>1, <1>2, <1>3
<1> HIDE DEF x, l, r
<1>6. /\ Lies(<<l>>, x.pos, m) /\ Lies(<<r>>, m, End(x)) /\ <<l>> \in Seq(Bits) /\ <<r>> \in Seq(Bits)
      /\ Len(<<l>>) = 1 /\ Len(<<r>>) = 1 /\ <<l>>[1] = l /\ <<r>>[1] = r
      /\ \A text : Shows(<<l>>, text) <=> \A k \in 1..l.len : text[l.pos + k] = <<l.src, l.off + k>>
      /\ \A text : Shows(<<r>>, text) <=> \A k \in 1..r.len : text[r.pos + k] = <<r.src, r.off + k>>
  <2>1. l.len > 0 /\ r.len > 0
    BY <1>3, <1>4
  <2>2. /\ Lies(<<l>>, l.pos, End(l)) /\ <<l>> \in Seq(Bits) /\ Len(<<l>>) = 1 /\ <<l>>[1] = l
        /\ \A text : Shows(<<l>>, text) <=> \A k \in 1..l.len : text[l.pos + k] = <<l.src, l.off + k>>
    BY <2>1, <1>4, OnePiece
  <2>3. /\ Lies(<<r>>, r.pos, End(r)) /\ <<r>> \in Seq(Bits) /\ Len(<<r>>) = 1 /\ <<r>>[1] = r
        /\ \A text : Shows(<<r>>, text) <=> \A k \in 1..r.len : text[r.pos + k] = <<r.src, r.off + k>>
    BY <2>1, <1>4, OnePiece
  <2> QED BY <2>2, <2>3, <1>4
<1>7. ASSUME NEW text, Shows(<<x>>, text) PROVE Shows(<<l>>, text) /\ Shows(<<r>>, text)
  <2>1. \A k \in 1..x.len : text[x.pos + k] = <<x.src, x.off + k>>
    <3>1. x.len > 0
      BY <1>1, <1>3 DEF x
    <3>2. x \in Bits
      BY <1>1 DEF x
    <3>3. \A new : Shows(<<x>>, new) <=> \A k \in 1..x.len : new[x.pos + k] = <<x.src, x.off + k>>
      BY <3>1, <3>2, OnePiece
    <3> QED BY <3>3, <1>7
  <2>2. x.len \in Nat /\ x.pos \in Nat /\ x.off \in Nat
    <3>1. x \in Bits
      BY <1>1 DEF x
    <3> QED BY <3>1, BitIs
  <2>3. \A k \in 1..l.len : text[l.pos + k] = <<l.src, l.off + k>>
    <3> TAKE k \in 1..l.len
    <3>1. k \in 1..x.len
      BY <1>3, <1>4, <2>2 DEF x
    <3> QED BY <3>1, <2>1, <1>4
  <2>4. \A k \in 1..r.len : text[r.pos + k] = <<r.src, r.off + k>>
    <3> TAKE k \in 1..r.len
    <3>1. d + k \in 1..x.len /\ x.pos + (d + k) = (x.pos + d) + k /\ x.off + (d + k) = (x.off + d) + k
      <4> DEFINE u == x.len
                 v == x.pos
                 w == x.off
      <4>1. u \in Nat /\ v \in Nat /\ w \in Nat /\ d \in Nat /\ k \in 1..(u - d) /\ u - d > 0
        BY <1>3, <1>4, <2>2 DEF x
      <4> HIDE DEF u, v, w
      <4>2. d + k \in 1..u /\ v + (d + k) = (v + d) + k /\ w + (d + k) = (w + d) + k
        BY SMTT(30), <4>1
      <4> QED BY <4>2 DEF u, v, w
    <3>2. text[x.pos + (d + k)] = <<x.src, x.off + (d + k)>>
      BY <3>1, <2>1
    <3> QED BY <3>1, <3>2, <1>4
  <2> QED BY <2>3, <2>4, <1>6
<1> DEFINE pl == p \o <<l>>
           rq == <<r>> \o q
<1>8. /\ Lies(pl, a, m) /\ Len(pl) = i /\ pl \in Seq(Bits) /\ pl[i].pos = x.pos
      /\ \A text : Shows(ps, text) => Shows(pl, text)
      /\ \A y : Meets(pl, a, y) <=> Meets(p, a, y) \/ Meets(<<l>>, x.pos, y)
  <2>1. /\ Lies(pl, a, m) /\ Len(pl) = Len(p) + Len(<<l>>)
        /\ \A text : Shows(p, text) /\ Shows(<<l>>, text) => Shows(pl, text)
    <3>1. Lies(p, a, x.pos)
      BY <1>2 DEF x
    <3> QED BY <3>1, <1>6, JoinedLies, JoinedShows
  <2>2. \A y : Meets(pl, a, y) <=> Meets(p, a, y) \/ Meets(<<l>>, x.pos, y)
    BY <1>2, <1>6, MeetsJoined DEF x
  <2>3. Len(pl) = i /\ pl \in Seq(Bits)
    BY <2>1, <1>3, <1>6 DEF Lies
  <2>4. pl[i] = l
    <3>1. i \in 1..(Len(p) + Len(<<l>>)) /\ ~(i <= Len(p)) /\ i - Len(p) = 1
      BY <1>2, <1>3, <1>6
    <3>2. \A k \in 1..(Len(p) + Len(<<l>>)) : pl[k] = IF k <= Len(p) THEN p[k] ELSE <<l>>[k - Len(p)]
      BY <1>2, <1>6, ConcatProperties
    <3> QED BY <3>1, <3>2, <1>6
  <2>5. \A text : Shows(ps, text) => Shows(pl, text)
    BY <2>1, <1>2, <1>7 DEF x
  <2> QED BY <2>1, <2>2, <2>3, <2>4, <2>5, <1>4
<1>9. /\ Lies(rq, m, b) /\ rq \in Seq(Bits) 
      /\ \A text : Shows(ps, text) => Shows(rq, text)
      /\ \A y : Meets(rq, m, y) <=> Meets(<<r>>, m, y) \/ Meets(q, End(x), y)
  <2>1. /\ Lies(rq, m, b) /\ Len(rq) = Len(<<r>>) + Len(q)
        /\ \A text : Shows(<<r>>, text) /\ Shows(q, text) => Shows(rq, text)
    <3>1. Lies(q, End(x), b)
      BY <1>2 DEF x
    <3> QED BY <3>1, <1>6, JoinedLies, JoinedShows
  <2>2. \A y : Meets(rq, m, y) <=> Meets(<<r>>, m, y) \/ Meets(q, End(x), y)
    BY <1>2, <1>6, MeetsJoined DEF x
  <2>3. rq \in Seq(Bits)
    BY <2>1 DEF Lies
  <2>4. rq[1] = r /\ rq # <<>>
    <3>1. Len(q) \in Nat
      BY LenProperties
    <3>2. 1 \in 1..(Len(<<r>>) + Len(q)) /\ 1 <= Len(<<r>>) /\ Len(rq) # 0
      BY <2>1, <1>6, <3>1
    <3>3. \A k \in 1..(Len(<<r>>) + Len(q)) : rq[k] = IF k <= Len(<<r>>) THEN <<r>>[k] ELSE q[k - Len(<<r>>)]
      BY <1>2, <1>6, ConcatProperties
    <3> QED BY <3>2, <3>3, <1>6
  <2>5. \A text : Shows(ps, text) => Shows(rq, text)
    BY <2>1, <1>2, <1>7 DEF x
  <2> QED BY <2>1, <2>2, <2>3, <2>4, <2>5
<1>10. Split(ps, i, d) = pl \o rq
  <2>1. (pl \o <<r>>) \o q = pl \o (<<r>> \o q)
    BY SMTT(30), <1>2, <1>6, <1>8, ConcatAssociative
  <2> QED BY <2>1, <1>5
<1>11. ASSUME NEW y, Meets(ps, a, y) PROVE Meets(pl, a, y) \/ Meets(rq, m, y)
  <2>1. Lies(<<x>>, x.pos, End(x))
    <3>1. x \in Bits /\ x.len > 0
      BY <1>1, <1>3 DEF x
    <3> QED BY <3>1, OnePiece
  <2>2. Lies(p \o <<x>>, a, End(x)) /\ (Meets(p \o <<x>>, a, y) <=> Meets(p, a, y) \/ Meets(<<x>>, x.pos, y))
    <3>1. Lies(p, a, x.pos)
      BY <1>2 DEF x
    <3> QED BY <3>1, <2>1, JoinedLies, MeetsJoined
  <2>3. Meets(p \o <<x>>, a, y) \/ Meets(q, End(x), y)
    <3>1. Lies(q, End(x), b) /\ ps = (p \o <<x>>) \o q
      BY <1>2 DEF x
    <3> QED BY <3>1, <2>2, <1>11, MeetsJoined
  <2>4. Meets(<<x>>, x.pos, y) => y = x.pos \/ y = End(x)
    <3>1. Len(<<x>>) = 1 /\ <<x>>[1] = x /\ 0..1 = {0, 1}
      OBVIOUS
    <3> QED BY <3>1 DEF Meets, Cut
  <2>5. Meets(<<l>>, x.pos, x.pos) /\ Meets(<<r>>, m, End(x))
    <3>1. 0 \in 0..1 /\ 1 \in 0..1 /\ 1 # 0
      OBVIOUS
    <3>2. Cut(<<l>>, x.pos, 0) = x.pos /\ Cut(<<r>>, m, 1) = End(x)
      BY <1>4, <1>6 DEF Cut
    <3> QED BY <3>1, <3>2, <1>6 DEF Meets
  <2> QED BY <2>2, <2>3, <2>4, <2>5, <1>8, <1>9
<1>12. ASSUME NEW j \in 1..(i - 1) PROVE pl[j] = ps[j]
  <2>1. PICK s \in Seq(Bits) : s = <<x>>
    <3>1. x \in Bits
      BY <1>1 DEF x
    <3> QED BY <3>1, OneOf
  <2>2. PICK o \in Seq(Bits) : o = <<l>>
    BY <1>6
  <2>3. j \in 1..Len(p)
    BY <1>2
  <2>4. (p \o s)[j] = p[j] /\ (p \o o)[j] = p[j] /\ p \o s \in Seq(Bits) /\ j \in 1..Len(p \o s)
    BY <2>3, FirstOf
  <2>5. PICK z \in Seq(Bits) : z = p \o s
    BY <2>4
  <2>6. (z \o q)[j] = z[j]
    <3>1. j \in 1..Len(z)
      BY <2>4, <2>5
    <3> QED BY <3>1, FirstOf
  <2>7. ps = z \o q
    BY <2>1, <2>5, <1>2 DEF x
  <2> QED BY <2>2, <2>4, <2>5, <2>6, <2>7
<1> HIDE DEF pl, rq
<1>13. SplitAs(ps, a, b, i, m, Split(ps, i, d), pl, rq)
  BY <1>8, <1>9, <1>10, <1>11, <1>12 DEF SplitAs
<1> QED BY <1>8, <1>9, <1>13 DEF x

-----------------------------------------------------------------------------
(* A table opened at a position, and something else put there.             *)

Takes(ps, a, b, h, p, q) ==
  /\ ps = p \o q /\ Len(p) = h /\ Len(q) = Len(ps) - h
  /\ Lies(p, a, Cut(ps, a, h)) /\ Lies(q, Cut(ps, a, h), b)
  /\ \A text : Shows(ps, text) => Shows(p, text) /\ Shows(q, text)

LEMMA TakenAt ==
  ASSUME NEW ps, NEW a, NEW b, Lies(ps, a, b), NEW h \in 0..Len(ps)
  PROVE  \E p, q \in Seq(Bits) : Takes(ps, a, b, h, p, q)
<1>1. Len(ps) \in Nat /\ ps \in Seq(Bits) /\ Cut(ps, a, 0) = a /\ Cut(ps, a, Len(ps)) = b
  BY CutIs DEF Lies, Cut
<1> DEFINE p == SubSeq(ps, 1, h)
           q == SubSeq(ps, h + 1, Len(ps))
<1>2. p \in Seq(Bits) /\ q \in Seq(Bits) /\ ps = p \o q /\ Len(p) = h /\ Len(q) = Len(ps) - h
  BY ZenonT(60), <1>1, Halves
<1>3. Lies(p, a, Cut(ps, a, h)) /\ \A text : Shows(ps, text) => Shows(p, text)
  <2>1. 0 \in 0..Len(ps) /\ h \in 0..Len(ps) /\ SubSeq(ps, 0 + 1, h) = p
    BY <1>1
  <2> HIDE DEF p
  <2> QED BY <2>1, <1>1, Parted
<1>4. Lies(q, Cut(ps, a, h), b) /\ \A text : Shows(ps, text) => Shows(q, text)
  <2>1. Len(ps) \in h..Len(ps)
    BY <1>1
  <2> QED BY <2>1, <1>1, Parted
<1> HIDE DEF p, q
<1>5. Takes(ps, a, b, h, p, q)
  BY <1>2, <1>3, <1>4 DEF Takes
<1> QED BY <1>2, <1>5

(* Where a position lies in its piece.                                     *)
LEMMA HoldsIn ==
  ASSUME NEW ps, NEW b, Lies(ps, 0, b), NEW at \in 0..b, NEW i, Holds(ps, i, at)
  PROVE  /\ i \in 1..Len(ps) /\ at - ps[i].pos \in 0..ps[i].len
         /\ (at < b <=> at < End(ps[i])) /\ (i = Len(ps) <=> End(ps[i]) = b)
         /\ ps[i].pos \in Nat /\ ps[i].len \in Nat \ {0} /\ End(ps[i]) = ps[i].pos + ps[i].len
         /\ (Meets(ps, 0, at) => at = ps[i].pos \/ (i = Len(ps) /\ at = b))
<1>1. /\ Len(ps) \in Nat /\ b \in Nat
      /\ \A k \in 0..Len(ps) : Cut(ps, 0, k) \in Nat
      /\ \A k \in 1..Len(ps) : /\ ps[k].pos = Cut(ps, 0, k - 1) /\ ps[k].pos \in Nat
                               /\ End(ps[k]) = Cut(ps, 0, k) /\ ps[k].len \in Nat \ {0}
      /\ Cut(ps, 0, Len(ps)) = b
  BY CutIs DEF Lies
<1>2. /\ \A k, j \in 0..Len(ps) : k < j => Cut(ps, 0, k) < Cut(ps, 0, j)
      /\ \A k \in 0..Len(ps) : Cut(ps, 0, k) <= b
  BY Ordered
<1>3. i \in 1..Len(ps) /\ ps[i].pos <= at /\ (at < End(ps[i]) \/ i = Len(ps))
  BY DEF Holds
<1>4. i \in 0..Len(ps) /\ i - 1 \in 0..Len(ps) /\ Len(ps) \in 0..Len(ps)
  BY <1>1, <1>3
<1>5. /\ ps[i].pos \in Nat /\ ps[i].len \in Nat \ {0} /\ End(ps[i]) = ps[i].pos + ps[i].len
      /\ End(ps[i]) = Cut(ps, 0, i) /\ ps[i].pos = Cut(ps, 0, i - 1)
  BY <1>1, <1>3 DEF End
<1>6. i = Len(ps) <=> End(ps[i]) = b
  <2>1. i # Len(ps) => i < Len(ps)
    BY <1>1, <1>3
  <2>2. i # Len(ps) => Cut(ps, 0, i) < b
    BY <2>1, <1>1, <1>2, <1>4
  <2> QED BY <2>2, <1>1, <1>5
<1>7. End(ps[i]) <= b /\ at <= b /\ at \in Nat
  BY <1>1, <1>2, <1>4, <1>5
<1>8. at - ps[i].pos \in 0..ps[i].len
  <2>1. at <= End(ps[i])
    BY <1>1, <1>3, <1>5, <1>6, <1>7
  <2> QED BY <2>1, <1>3, <1>5, <1>7
<1>9. at < b <=> at < End(ps[i])
  BY <1>1, <1>3, <1>5, <1>6, <1>7
<1>10. ASSUME Meets(ps, 0, at) PROVE at = ps[i].pos \/ (i = Len(ps) /\ at = b)
  <2>1. PICK h \in 0..Len(ps) : Cut(ps, 0, h) = at
    BY <1>10 DEF Meets
  <2>2. CASE at < End(ps[i])
    <3>1. ~(i < h) /\ i # h
      <4>1. i < h => Cut(ps, 0, i) < Cut(ps, 0, h)
        BY <1>2, <1>4, <2>1
      <4> QED BY <4>1, <2>1, <2>2, <1>5, <1>7
    <3>2. ~(h < i - 1)
      <4>1. h < i - 1 => Cut(ps, 0, h) < Cut(ps, 0, i - 1)
        BY <1>2, <1>4, <2>1
      <4> QED BY <4>1, <2>1, <1>3, <1>5, <1>7
    <3>3. h = i - 1
      BY <3>1, <3>2, <2>1, <1>1, <1>3
    <3> QED BY <3>3, <2>1, <1>5
  <2>3. CASE ~(at < End(ps[i]))
    BY <2>3, <1>1, <1>3, <1>5, <1>6, <1>7, <1>9
  <2> QED BY <2>2, <2>3
<1> QED BY <1>3, <1>5, <1>6, <1>8, <1>9, <1>10

(* What the code does to open a table at a position: no more than a split. *)
OpenedAt(ps, found, delta) == IF delta = 0 \/ (found = Len(ps) /\ delta = ps[found].len) THEN ps
                              ELSE Split(ps, found, delta)
HereOf(found, delta) == IF delta = 0 THEN found ELSE found + 1

Opens(cut, ps, here, at, b, p, q) ==
  /\ cut = p \o q /\ Len(p) = here - 1 /\ Lies(p, 0, at) /\ Lies(q, at, b)
  /\ \A text : Shows(ps, text) => Shows(p, text) /\ Shows(q, text)
  /\ \A x : Meets(ps, 0, x) => Meets(p, 0, x) \/ Meets(q, at, x)

LEMMA Opened ==
  ASSUME NEW ps, NEW b, Lies(ps, 0, b), NEW at \in 0..b, NEW i, Holds(ps, i, at)
  PROVE  LET delta == at - ps[i].pos IN
         /\ \E p, q \in Seq(Bits) : Opens(OpenedAt(ps, i, delta), ps, HereOf(i, delta), at, b, p, q)
         /\ i = Len(ps) /\ delta = ps[i].len <=> at = b
         /\ (Meets(ps, 0, at) => OpenedAt(ps, i, delta) = ps)
<1> DEFINE delta == at - ps[i].pos
           cut == OpenedAt(ps, i, delta)
           here == HereOf(i, delta)
<1>1. /\ i \in 1..Len(ps) /\ delta \in 0..ps[i].len
      /\ (at < b <=> at < End(ps[i])) /\ (i = Len(ps) <=> End(ps[i]) = b)
      /\ ps[i].pos \in Nat /\ ps[i].len \in Nat \ {0} /\ End(ps[i]) = ps[i].pos + ps[i].len
      /\ (Meets(ps, 0, at) => at = ps[i].pos \/ (i = Len(ps) /\ at = b))
  BY HoldsIn
<1>2. Len(ps) \in Nat /\ b \in Nat /\ at \in Nat /\ at <= b /\ delta \in Nat
  BY <1>1, CutIs
<1>3. i = Len(ps) /\ delta = ps[i].len <=> at = b
  BY <1>1, <1>2
<1>4. Meets(ps, 0, at) => cut = ps
  BY <1>1, <1>2, <1>3 DEF OpenedAt
<1>5. ASSUME NEW h \in 0..Len(ps), Cut(ps, 0, h) = at, here = h + 1, cut = ps
      PROVE  \E p, q \in Seq(Bits) : Opens(cut, ps, here, at, b, p, q)
  <2> HIDE DEF cut, here, delta
  <2>0. PICK p, q \in Seq(Bits) : Takes(ps, 0, b, h, p, q)
    BY TakenAt
  <2>1.
        /\ ps = p \o q /\ Len(p) = h
        /\ Lies(p, 0, at) /\ Lies(q, at, b)
        /\ \A text : Shows(ps, text) => Shows(p, text) /\ Shows(q, text)
    BY <2>0, <1>5 DEF Takes
  <2>2. \A x : Meets(ps, 0, x) => Meets(p, 0, x) \/ Meets(q, at, x)
    BY <2>1, MeetsJoined
  <2>3. Len(p) = here - 1
    <3>1. h \in Nat /\ Len(p) = h /\ here = h + 1
      BY <2>1, <1>5, <1>2
    <3> QED BY <3>1
  <2>4. Opens(cut, ps, here, at, b, p, q)
    BY <2>1, <2>2, <2>3, <1>5 DEF Opens
  <2> QED BY <2>4
<1>6. CASE delta = 0
  <2>1. i - 1 \in 0..Len(ps) /\ Cut(ps, 0, i - 1) = at /\ here = (i - 1) + 1 /\ cut = ps
    <3>1. ps[i].pos = at
      BY <1>1, <1>2, <1>6
    <3>2. ps[i].pos = Cut(ps, 0, i - 1)
      BY <1>1, CutIs
    <3> QED BY <3>1, <3>2, <1>1, <1>2, <1>6 DEF OpenedAt, HereOf
  <2> HIDE DEF cut, here, delta
  <2> QED BY <2>1, <1>3, <1>4, <1>5 DEF cut, here, delta
<1>7. CASE delta # 0 /\ at = b
  <2>1. Len(ps) \in 0..Len(ps) /\ Cut(ps, 0, Len(ps)) = at /\ here = Len(ps) + 1 /\ cut = ps
    BY <1>2, <1>3, <1>7 DEF OpenedAt, HereOf, Lies
  <2> HIDE DEF cut, here, delta
  <2> QED BY <2>1, <1>3, <1>4, <1>5 DEF cut, here, delta
<1>8. CASE delta # 0 /\ at # b
  <2>1. delta \in 1..(ps[i].len - 1) /\ ps[i].pos + delta = at /\ cut = Split(ps, i, delta) /\ here = i + 1
    <3>1. at < End(ps[i])
      BY <1>1, <1>2, <1>8
    <3> DEFINE u == ps[i].pos
               l == ps[i].len
    <3>2. u \in Nat /\ l \in Nat /\ at < u + l /\ delta = at - u /\ delta \in Nat /\ delta # 0
      BY <3>1, <1>1, <1>2, <1>8
    <3>3. cut = Split(ps, i, delta) /\ here = i + 1
      <4> HIDE DEF delta
      <4> QED BY <1>3, <1>8 DEF OpenedAt, HereOf
    <3> HIDE DEF cut, here, delta
    <3>4. delta \in 1..(l - 1) /\ u + delta = at
      <4> HIDE DEF u, l
      <4> QED BY <3>2, <1>2
    <3> QED BY <3>3, <3>4
  <2>2. PICK p, q \in Seq(Bits) : SplitAs(ps, 0, b, i, ps[i].pos + delta, Split(ps, i, delta), p, q)
    <3> HIDE DEF delta
    <3> QED BY <1>1, <2>1, SplitIs
  <2>3. Len(p) = here - 1
    <3>1. Len(p) = i /\ here = i + 1 /\ i \in 1..Len(ps)
      BY <2>1, <2>2, <1>1 DEF SplitAs
    <3> HIDE DEF here
    <3> QED BY <3>1
  <2>4. Opens(cut, ps, here, at, b, p, q)
    <3> HIDE DEF cut, here, delta
    <3> QED BY <2>1, <2>2, <2>3 DEF Opens, SplitAs
  <2> QED BY <2>4, <1>3, <1>4
<1> QED BY <1>6, <1>7, <1>8

(* The same for ps_insert_pieces and undo, which begin with a table that   *)
(* may be empty.                                                           *)
LEMMA OpenedAny ==
  ASSUME NEW ps, NEW b, Lies(ps, 0, b), NEW at \in 0..b
  PROVE  LET found == IF ps = <<>> THEN 1 ELSE Bounding(ps, at)
             delta == IF ps = <<>> THEN 0 ELSE at - ps[found].pos
             atEnd == ps = <<>> \/ (found = Len(ps) /\ delta = ps[found].len)
             cut   == IF delta = 0 \/ atEnd THEN ps ELSE Split(ps, found, delta)
         IN /\ \E p, q \in Seq(Bits) : Opens(cut, ps, HereOf(found, delta), at, b, p, q)
            /\ (Meets(ps, 0, at) => cut = ps)
<1>1. CASE ps = <<>>
  <2>1. b = 0 /\ at = 0 /\ Lies(<<>>, 0, 0) /\ <<>> \in Seq(Bits) /\ \A text : Shows(<<>>, text)
    <3>1. b = 0
      BY <1>1, Ordered
    <3>2. Lies(<<>>, 0, 0) /\ \A text : Shows(<<>>, text)
      BY NoPiece
    <3> QED BY <3>1, <3>2
  <2>2. ps = <<>> \o <<>> /\ Len(<<>>) = 1 - 1
    BY <1>1
  <2>3. Opens(ps, ps, 1, at, b, <<>>, <<>>)
    BY <2>1, <2>2, <1>1 DEF Opens
  <2>4. HereOf(1, 0) = 1
    BY DEF HereOf
  <2> QED BY <2>1, <2>3, <2>4, <1>1
<1>2. CASE ps # <<>>
  <2> DEFINE found == Bounding(ps, at)
             delta == at - ps[found].pos
  <2>1. Holds(ps, found, at)
    <3>1. at \in Nat /\ 0 <= at
      OBVIOUS
    <3> QED BY <3>1, <1>2, BoundingIn
  <2> HIDE DEF found
  <2>2. /\ \E p, q \in Seq(Bits) : Opens(OpenedAt(ps, found, delta), ps, HereOf(found, delta), at, b, p, q)
        /\ (Meets(ps, 0, at) => OpenedAt(ps, found, delta) = ps)
    BY <2>1, Opened
  <2> QED BY <2>2, <1>2 DEF OpenedAt, found
<1> QED BY <1>1, <1>2

(* A table shows what is the same there.                                   *)
LEMMA SameShown ==
  ASSUME NEW ps, NEW a, NEW b, Lies(ps, a, b), NEW old, NEW new, Shows(ps, old),
         \A x \in Nat : a < x /\ x <= b => new[x] = old[x]
  PROVE  Shows(ps, new)
<1>1. ps \in Seq(Rows) /\ a \in Nat
  BY CutIs, BitsAreRows
<1>2. Moved(ps, 1, 0) = ps
  BY <1>1, MovedTwice
<1>3. \A x \in Nat : a < x /\ x <= b => new[x + 0] = old[x]
  OBVIOUS
<1>4. a + 0 >= 0
  BY <1>1
<1>5. Shows(Moved(ps, 1, 0), new)
  BY <1>3, <1>4, Shifted
<1> QED BY <1>2, <1>5

LEMMA ReplacedIs ==
  ASSUME NEW text \in Seq(Char), NEW ins \in Seq(Char), NEW s \in Nat, NEW e \in s..Len(text)
  PROVE  LET new == Replaced(text, s, e, ins)
             d   == Len(ins) - (e - s)
         IN /\ new \in Seq(Char) /\ Len(new) = Len(text) + d /\ Len(ins) \in Nat /\ d \in Int
            /\ \A x \in 1..s : new[x] = text[x]
            /\ \A x \in 1..Len(ins) : new[s + x] = ins[x]
            /\ \A x \in (e + 1)..Len(text) : new[x + d] = text[x]
<1> DEFINE a == SubSeq(text, 1, s)
           b == SubSeq(text, e + 1, Len(text))
           d == Len(ins) - (e - s)
           c == a \o ins
           new == c \o b
<1>1. Len(text) \in Nat /\ Len(ins) \in Nat /\ s <= e /\ e <= Len(text) /\ e \in Nat /\ d \in Int
  BY LenProperties
<1>2. a \in Seq(Char) /\ Len(a) = s /\ \A x \in 1..s : a[x] = text[x]
  <2>1. s \in 0..Len(text)
    BY <1>1
  <2>2. a \in Seq(Char) /\ Len(a) = s /\ text = a \o SubSeq(text, s + 1, Len(text)) /\ SubSeq(text, s + 1, Len(text)) \in Seq(Char)
    BY ZenonT(60), <2>1, Halves
  <2> DEFINE r == SubSeq(text, s + 1, Len(text))
  <2> HIDE DEF a, r
  <2>3. \A x \in 1..(Len(a) + Len(r)) : (a \o r)[x] = IF x <= Len(a) THEN a[x] ELSE r[x - Len(a)]
    BY <2>2, ConcatProperties DEF r
  <2>4. Len(r) \in Nat
    BY <2>2, LenProperties DEF r
  <2>5. \A x \in 1..s : text[x] = a[x]
    BY <2>2, <2>3, <2>4 DEF r
  <2> QED BY <2>2, <2>5
<1>3. b \in Seq(Char) /\ Len(b) = Len(text) - e /\ \A x \in 1..(Len(text) - e) : b[x] = text[e + x]
  <2>1. e \in 0..Len(text)
    BY <1>1
  <2> DEFINE r == SubSeq(text, 1, e)
  <2>2. b \in Seq(Char) /\ Len(b) = Len(text) - e /\ text = r \o b /\ r \in Seq(Char) /\ Len(r) = e
    BY ZenonT(60), <2>1, Halves
  <2> HIDE DEF b, r
  <2>3. \A x \in 1..(Len(r) + Len(b)) : (r \o b)[x] = IF x <= Len(r) THEN r[x] ELSE b[x - Len(r)]
    BY <2>2, ConcatProperties
  <2>4. ASSUME NEW x \in 1..(Len(text) - e) PROVE b[x] = text[e + x]
    <3>1. e + x \in 1..(Len(r) + Len(b)) /\ ~(e + x <= Len(r)) /\ (e + x) - Len(r) = x
      BY <2>2, <1>1
    <3> QED BY <3>1, <2>2, <2>3
  <2> QED BY <2>2, <2>4
<1>4. new = Replaced(text, s, e, ins)
  BY DEF Replaced
<1> HIDE DEF a, b
<1>5. /\ c \in Seq(Char) /\ Len(c) = Len(a) + Len(ins)
      /\ \A x \in 1..(Len(a) + Len(ins)) : c[x] = IF x <= Len(a) THEN a[x] ELSE ins[x - Len(a)]
  BY <1>2, ConcatProperties
<1> HIDE DEF c
<1>6. /\ new \in Seq(Char) /\ Len(new) = Len(c) + Len(b)
      /\ \A x \in 1..(Len(c) + Len(b)) : new[x] = IF x <= Len(c) THEN c[x] ELSE b[x - Len(c)]
  <2>1. PICK z \in Seq(Char) : z = c
    BY <1>5
  <2>2. PICK y \in Seq(Char) : y = b
    BY <1>3
  <2>3. /\ z \o y \in Seq(Char) /\ Len(z \o y) = Len(z) + Len(y)
        /\ \A x \in 1..(Len(z) + Len(y)) : (z \o y)[x] = IF x <= Len(z) THEN z[x] ELSE y[x - Len(z)]
    BY ConcatProperties
  <2> QED BY <2>1, <2>2, <2>3
<1> HIDE DEF new
<1>7. Len(new) = Len(text) + d
  BY <1>1, <1>2, <1>3, <1>5, <1>6
<1>8. ASSUME NEW x \in 1..s PROVE new[x] = text[x]
  <2>1. x \in 1..(Len(c) + Len(b)) /\ x <= Len(c) /\ x \in 1..(Len(a) + Len(ins)) /\ x <= Len(a)
    BY <1>1, <1>2, <1>3, <1>5
  <2> QED BY <2>1, <1>2, <1>5, <1>6
<1>9. ASSUME NEW x \in 1..Len(ins) PROVE new[s + x] = ins[x]
  <2>1. /\ s + x \in 1..(Len(c) + Len(b)) /\ s + x <= Len(c) /\ s + x \in 1..(Len(a) + Len(ins))
        /\ ~(s + x <= Len(a)) /\ (s + x) - Len(a) = x
    BY <1>1, <1>2, <1>3, <1>5
  <2> QED BY <2>1, <1>5, <1>6
<1>10. ASSUME NEW x \in (e + 1)..Len(text) PROVE new[x + d] = text[x]
  <2>1. /\ x + d \in 1..(Len(c) + Len(b)) /\ ~(x + d <= Len(c)) /\ (x + d) - Len(c) = x - e
        /\ x - e \in 1..(Len(text) - e) /\ e + (x - e) = x
    BY <1>1, <1>2, <1>3, <1>5
  <2> QED BY <2>1, <1>3, <1>6
<1> QED BY <1>1, <1>4, <1>6, <1>7, <1>8, <1>9, <1>10

(* A region replaced by other pieces, with what follows moved.             *)
SplicedAs(p, m, q, s, c, e, b, d, r) ==
  /\ Lies(r, 0, b + d) /\ Lies(p \o m, 0, s + c) /\ Lies(Moved(q, 1, d), s + c, b + d)
  /\ \A x : Meets(p, 0, x) \/ Meets(m, s, x) => Meets(r, 0, x)
  /\ \A x : Meets(q, e, x) => Meets(r, 0, x + d)
  /\ \A old, new : /\ Shows(p, old) /\ Shows(q, old) /\ Shows(m, new)
                   /\ \A x \in 1..s : new[x] = old[x]
                   /\ \A x \in Nat : e < x /\ x <= b => new[x + d] = old[x]
                   => Shows(r, new)

LEMMA Spliced ==
  ASSUME NEW p, NEW m, NEW q, NEW s \in Nat, NEW c \in Nat, NEW e \in Nat, NEW b, s <= e,
         Lies(p, 0, s), Lies(m, s, s + c), Lies(q, e, b), NEW d, d = c - (e - s)
  PROVE  SplicedAs(p, m, q, s, c, e, b, d, (p \o m) \o Moved(q, 1, d))
<1> DEFINE w == Moved(q, 1, d)
           pm == p \o m
           r == pm \o w
<1>1. b \in Nat /\ d \in Int /\ e + d = s + c /\ e + d >= 0
  BY CutIs
<1>2. /\ Lies(w, s + c, b + d) /\ Len(w) = Len(q)
      /\ \A k \in 0..Len(q) : Cut(w, s + c, k) = Cut(q, e, k) + d
  <2>1. /\ Lies(w, e + d, b + d) /\ Len(w) = Len(q)
        /\ \A k \in 0..Len(q) : Cut(w, e + d, k) = Cut(q, e, k) + d
    BY <1>1, Shifted
  <2> QED BY <2>1, <1>1
<1>3. Lies(pm, 0, s + c)
  BY JoinedLies
<1> HIDE DEF w, pm
<1>4. Lies(r, 0, b + d)
  BY <1>2, <1>3, JoinedLies
<1>5. ASSUME NEW x, Meets(p, 0, x) \/ Meets(m, s, x) PROVE Meets(r, 0, x)
  <2>1. Meets(pm, 0, x)
    BY <1>5, MeetsJoined DEF pm
  <2> QED BY <2>1, <1>2, <1>3, MeetsJoined
<1>6. ASSUME NEW x, Meets(q, e, x) PROVE Meets(r, 0, x + d)
  <2>1. PICK k \in 0..Len(q) : Cut(q, e, k) = x
    BY <1>6 DEF Meets
  <2>2. Meets(w, s + c, x + d)
    BY <2>1, <1>2 DEF Meets
  <2> QED BY <2>2, <1>2, <1>3, MeetsJoined
<1>7. ASSUME NEW old, NEW new, Shows(p, old), Shows(q, old), Shows(m, new),
             \A x \in 1..s : new[x] = old[x], \A x \in Nat : e < x /\ x <= b => new[x + d] = old[x]
      PROVE  Shows(r, new)
  <2>1. Shows(p, new)
    <3>1. \A x \in Nat : 0 < x /\ x <= s => new[x] = old[x]
      BY <1>7
    <3> QED BY <3>1, <1>7, SameShown
  <2>2. Shows(w, new)
    <3>1. \A x \in Nat : e < x /\ x <= b => new[x + d] = old[x]
      BY <1>7
    <3> QED BY <3>1, <1>1, <1>7, ShiftedShows DEF w
  <2>3. Shows(pm, new)
    BY <2>1, <1>7, JoinedShows DEF pm
  <2> QED BY <2>2, <2>3, <1>2, <1>3, JoinedShows
<1> HIDE DEF r
<1>8. SplicedAs(p, m, q, s, c, e, b, d, r)
  BY <1>2, <1>3, <1>4, <1>5, <1>6, <1>7 DEF SplicedAs, w, pm
<1> QED BY <1>8 DEF w, pm, r

-----------------------------------------------------------------------------
(* A table in three parts, and one of them taken out.                      *)

Parts(ps, s, t, b, p, m, q) ==
  /\ ps = (p \o m) \o q /\ Lies(p, 0, s) /\ Lies(m, s, t) /\ Lies(q, t, b)
  /\ \A text : Shows(ps, text) => Shows(p, text) /\ Shows(m, text) /\ Shows(q, text)
  /\ \A x : Meets(ps, 0, x) => Meets(p, 0, x) \/ Meets(m, s, x) \/ Meets(q, t, x)

LEMMA MeetsIn ==
  ASSUME NEW ps, NEW a, NEW b, Lies(ps, a, b)
  PROVE  Meets(ps, a, a) /\ Meets(ps, a, b) /\ \A x : Meets(ps, a, x) => x \in Nat /\ a <= x /\ x <= b
<1>1. Len(ps) \in Nat /\ a \in Nat /\ b \in Nat /\ \A i \in 0..Len(ps) : Cut(ps, a, i) \in Nat
  BY CutIs
<1>2. \A i \in 0..Len(ps) : a <= Cut(ps, a, i) /\ Cut(ps, a, i) <= b
  BY Ordered
<1>3. Meets(ps, a, a)
  <2>1. 0 \in 0..Len(ps) /\ Cut(ps, a, 0) = a
    BY <1>1 DEF Cut
  <2> QED BY <2>1 DEF Meets
<1>4. Meets(ps, a, b)
  <2>1. Len(ps) \in 0..Len(ps) /\ Cut(ps, a, Len(ps)) = b
    BY <1>1 DEF Lies
  <2> QED BY <2>1 DEF Meets
<1> QED BY <1>1, <1>2, <1>3, <1>4 DEF Meets

(* The second part of an opened table is opened in turn.                   *)
LEMMA InThree ==
  ASSUME NEW ps, NEW here, NEW s, NEW b, NEW p, NEW w, Opens(ps, ps, here, s, b, p, w),
         NEW t \in Nat, s <= t, Meets(ps, 0, t)
  PROVE  \E m, q \in Seq(Bits) : w = m \o q /\ Parts(ps, s, t, b, p, m, q)
<1>1. /\ ps = p \o w /\ Lies(p, 0, s) /\ Lies(w, s, b)
      /\ \A text : Shows(ps, text) => Shows(p, text) /\ Shows(w, text)
      /\ \A x : Meets(ps, 0, x) => Meets(p, 0, x) \/ Meets(w, s, x)
  BY DEF Opens
<1>2. Meets(w, s, t)
  <2>1. CASE Meets(w, s, t)
    BY <2>1
  <2>2. CASE Meets(p, 0, t)
    <3>1. t <= s /\ s \in Nat
      BY <2>2, <1>1, MeetsIn, CutIs
    <3>2. t = s
      BY <3>1
    <3> QED BY <3>2, <1>1, MeetsIn
  <2> QED BY <2>1, <2>2, <1>1
<1>0. PICK m, q \in Seq(Bits) : Apart(w, s, t, b, m, q)
  BY <1>1, <1>2, TakenApart
<1>3. /\ m \in Seq(Bits) /\ q \in Seq(Bits) /\ w = m \o q /\ Lies(m, s, t) /\ Lies(q, t, b)
      /\ \A text : Shows(w, text) => Shows(m, text) /\ Shows(q, text)
  BY <1>0 DEF Apart
<1>4. ps = (p \o m) \o q
  <2>1. p \in Seq(Bits)
    BY <1>1 DEF Lies
  <2>2. \A x, y, z \in Seq(Bits) : (x \o y) \o z = x \o (y \o z)
    BY SMTT(30), ConcatAssociative
  <2>3. (p \o m) \o q = p \o (m \o q)
    BY <2>1, <2>2, <1>3
  <2> QED BY <2>3, <1>1, <1>3
<1>5. \A x : Meets(w, s, x) => Meets(m, s, x) \/ Meets(q, t, x)
  BY <1>3, MeetsJoined
<1>6. Parts(ps, s, t, b, p, m, q)
  BY <1>1, <1>3, <1>4, <1>5 DEF Parts
<1> QED BY <1>3, <1>6

(* How many pieces make up the middle part.                                *)
LEMMA SpannedIs ==
  ASSUME NEW p, NEW m, NEW q, NEW s \in Nat, NEW k \in Nat, NEW b,
         Lies(p, 0, s), Lies(m, s, s + k), Lies(q, s + k, b)
  PROVE  Spanned((p \o m) \o q, Len(p) + 1, k) = Len(m)
<1> DEFINE ps == (p \o m) \o q
           h  == Len(p)
           from == h + 1
           Fit(n) == /\ LengthOf(SubSeq(ps, from, from + n - 1)) = k
                     /\ (n > 0 => ps[from + n - 1].len > 0)
<1>1. Lies(p \o m, 0, s + k) /\ Len(p \o m) = Len(p) + Len(m)
  BY JoinedLies
<1>2. /\ Lies(ps, 0, b) /\ Len(ps) = Len(p \o m) + Len(q)
  <2>1. \A z : Lies(z, 0, s + k) => Lies(z \o q, 0, b) /\ Len(z \o q) = Len(z) + Len(q)
    BY JoinedLies
  <2> QED BY <2>1, <1>1
<1>3. Len(p) \in Nat /\ Len(m) \in Nat /\ Len(q) \in Nat
  BY CutIs
<1>4. Cut(p \o m, 0, h) = s
  <2>1. \A x \in 0..Len(p) : Cut(p \o m, 0, x) = Cut(p, 0, x)
    <3>1. /\ Lies(p \o m, 0, s + k) /\ Len(p \o m) = Len(p) + Len(m)
          /\ \A x \in 0..Len(p) : Cut(p \o m, 0, x) = Cut(p, 0, x)
          /\ \A x \in 0..Len(m) : Cut(p \o m, 0, Len(p) + x) = Cut(m, s, x)
          /\ \A text : Shows(p, text) /\ Shows(m, text) => Shows(p \o m, text)
      BY Joined
    <3> QED BY <3>1
  <2>2. h \in 0..Len(p) /\ Cut(p, 0, h) = s
    BY <1>3 DEF Lies
  <2> QED BY <2>1, <2>2
<1>5. Cut(ps, 0, h) = s /\ Cut(ps, 0, h + Len(m)) = s + k
  <2>1. \A z : Lies(z, 0, s + k) => \A x \in 0..Len(z) : Cut(z \o q, 0, x) = Cut(z, 0, x)
    <3> TAKE z
    <3> HAVE Lies(z, 0, s + k)
    <3>1. /\ Lies(z \o q, 0, b) /\ Len(z \o q) = Len(z) + Len(q)
          /\ \A x \in 0..Len(z) : Cut(z \o q, 0, x) = Cut(z, 0, x)
          /\ \A x \in 0..Len(q) : Cut(z \o q, 0, Len(z) + x) = Cut(q, s + k, x)
          /\ \A text : Shows(z, text) /\ Shows(q, text) => Shows(z \o q, text)
      BY Joined
    <3> QED BY <3>1
  <2>2. \A x \in 0..Len(p \o m) : Cut(ps, 0, x) = Cut(p \o m, 0, x)
    BY <2>1, <1>1
  <2>3. h \in 0..Len(p \o m) /\ h + Len(m) \in 0..Len(p \o m) /\ h + Len(m) = Len(p \o m)
    BY <1>1, <1>3
  <2>4. Cut(p \o m, 0, Len(p \o m)) = s + k
    BY <1>1 DEF Lies
  <2> HIDE DEF ps, h
  <2> QED BY <2>2, <2>3, <2>4, <1>4
<1> HIDE DEF ps
<1>6. Len(ps) = h + Len(m) + Len(q) /\ Len(ps) \in Nat /\ h \in Nat
  BY <1>1, <1>2, <1>3
<1>7. /\ \A i \in 0..Len(ps) : Cut(ps, 0, i) \in Nat
      /\ \A i \in 1..Len(ps) : ps[i].len \in Nat \ {0}
      /\ \A i, j \in 0..Len(ps) : i < j => Cut(ps, 0, i) < Cut(ps, 0, j)
  BY <1>2, CutIs, Ordered
<1> HIDE DEF h
<1>8. ASSUME NEW n \in 0..(Len(ps) - from + 1) PROVE Fit(n) <=> n = Len(m)
  <2>1. h \in 0..Len(ps) /\ h + n \in h..Len(ps) /\ h + n \in 0..Len(ps) /\ from + n - 1 = h + n
    BY <1>6
  <2>2. Lies(SubSeq(ps, h + 1, h + n), Cut(ps, 0, h), Cut(ps, 0, h + n))
    <3>1. \A i \in 0..Len(ps) : \A j \in i..Len(ps) : Lies(SubSeq(ps, i + 1, j), Cut(ps, 0, i), Cut(ps, 0, j))
      BY <1>2, Parted
    <3> QED BY <3>1, <2>1
  <2>3. LengthOf(SubSeq(ps, h + 1, h + n)) = Cut(ps, 0, h + n) - s
    BY <2>2, <1>5, LengthIs
  <2>4. n > 0 => ps[h + n].len > 0
    <3>1. n > 0 => h + n \in 1..Len(ps)
      BY <1>6
    <3> QED BY <3>1, <1>7
  <2>5. Fit(n) <=> Cut(ps, 0, h + n) = s + k
    <3>1. Cut(ps, 0, h + n) \in Nat
      BY <2>1, <1>7
    <3>2. Fit(n) <=> LengthOf(SubSeq(ps, h + 1, h + n)) = k
      BY <2>1, <2>4
    <3> QED BY <3>1, <3>2, <2>3
  <2>6. h + Len(m) \in 0..Len(ps)
    BY <1>3, <1>6
  <2>7. n # Len(m) => Cut(ps, 0, h + n) # s + k
    <3>1. CASE n < Len(m)
      <4>1. h + n < h + Len(m)
        BY <3>1, <1>3, <1>6
      <4>2. Cut(ps, 0, h + n) < Cut(ps, 0, h + Len(m))
        BY <4>1, <2>1, <2>6, <1>7
      <4> QED BY <4>2, <1>5, <1>7, <2>1
    <3>2. CASE Len(m) < n
      <4>1. h + Len(m) < h + n
        BY <3>2, <1>3, <1>6
      <4>2. Cut(ps, 0, h + Len(m)) < Cut(ps, 0, h + n)
        BY <4>1, <2>1, <2>6, <1>7
      <4> QED BY <4>2, <1>5, <1>7, <2>1
    <3> QED BY <3>1, <3>2, <1>3
  <2> QED BY <2>5, <2>7, <1>5
<1>9. Len(m) \in 0..(Len(ps) - from + 1)
  BY <1>3, <1>6
<1>10. Spanned(ps, from, k) = CHOOSE n \in 0..(Len(ps) - from + 1) : Fit(n)
  BY DEF Spanned
<1> HIDE DEF Fit, from
<1>11. Spanned(ps, from, k) = Len(m)
  BY <1>8, <1>9, <1>10
<1> QED BY <1>11 DEF ps, from, h

LEMMA WithoutIs ==
  ASSUME NEW p, NEW m, NEW q, NEW s \in Nat, NEW k \in Nat, NEW b,
         Lies(p, 0, s), Lies(m, s, s + k), Lies(q, s + k, b)
  PROVE  Without((p \o m) \o q, Len(p) + 1, k) = p \o Moved(q, 1, -k)
<1> DEFINE ps == (p \o m) \o q
<1>1. Spanned(ps, Len(p) + 1, k) = Len(m)
  BY SpannedIs
<1>2. p \in Seq(Bits) /\ m \in Seq(Bits) /\ q \in Seq(Bits) /\ p \in Seq(Rows) /\ q \in Seq(Rows)
  BY BitsAreRows DEF Lies
<1>3. CutOut(ps, Len(p) + 1, Len(p) + Len(m) + 1) = p \o q
  BY <1>2, CutOutParts
<1>4. Len(p) + 1 + Len(m) = Len(p) + Len(m) + 1
  BY <1>2, LenProperties
<1>5. Moved(p \o q, Len(p) + 1, -k) = p \o Moved(q, 1, -k)
  <2>1. -k \in Int
    OBVIOUS
  <2> QED BY <2>1, <1>2, MovedParts
<1> HIDE DEF ps
<1>6. Without(ps, Len(p) + 1, k) = p \o Moved(q, 1, -k)
  BY <1>1, <1>3, <1>4, <1>5 DEF Without
<1> QED BY <1>6 DEF ps

LEMMA WithoutThem ==
  ASSUME NEW p, NEW m, NEW q, NEW s \in Nat, NEW t, NEW k \in Nat, NEW b, t = s + k,
         Lies(p, 0, s), Lies(m, s, t), Lies(q, t, b)
  PROVE  Without((p \o m) \o q, Len(p) + 1, k) = p \o Moved(q, 1, -k)
<1>1. Lies(m, s, s + k) /\ Lies(q, s + k, b)
  OBVIOUS
<1> QED BY <1>1, WithoutIs

(* Pieces that already lie end to end are laid where they are.             *)
LEMMA LaidIs ==
  ASSUME NEW ps, NEW a, NEW b, Lies(ps, a, b)
  PROVE  LaidFrom(ps, a) = ps
<1>1. /\ Len(ps) \in Nat /\ ps \in Seq(Bits) /\ a \in Nat
      /\ \A i \in 1..Len(ps) : ps[i] \in Bits
      /\ \A i \in 0..Len(ps) : Cut(ps, a, i) \in Nat
      /\ \A i \in 1..Len(ps) : ps[i].pos = Cut(ps, a, i - 1)
  BY CutIs
<1>2. DOMAIN ps = 1..Len(ps) /\ ps = [i \in 1..Len(ps) |-> ps[i]]
  BY <1>1
<1>3. ASSUME NEW i \in 1..Len(ps) PROVE [ps[i] EXCEPT !.pos = a + LengthOf(SubSeq(ps, 1, i - 1))] = ps[i]
  <2>1. 0 \in 0..Len(ps) /\ i - 1 \in 0..Len(ps)
    BY <1>1
  <2>2. Lies(SubSeq(ps, 0 + 1, i - 1), Cut(ps, a, 0), Cut(ps, a, i - 1))
    <3>1. \A x \in 0..Len(ps) : \A y \in x..Len(ps) : Lies(SubSeq(ps, x + 1, y), Cut(ps, a, x), Cut(ps, a, y))
      BY Parted
    <3> QED BY <3>1, <2>1
  <2>3. Cut(ps, a, 0) = a
    BY DEF Cut
  <2>4. LengthOf(SubSeq(ps, 1, i - 1)) = Cut(ps, a, i - 1) - a
    BY <2>2, <2>3, LengthIs
  <2>5. a + LengthOf(SubSeq(ps, 1, i - 1)) = ps[i].pos
    <3>1. Cut(ps, a, i - 1) \in Nat /\ a \in Nat /\ ps[i].pos = Cut(ps, a, i - 1)
      BY <2>1, <1>1
    <3> DEFINE c == Cut(ps, a, i - 1)
    <3> HIDE DEF c
    <3>2. c \in Nat => a + (c - a) = c
      BY <3>1
    <3> QED BY <3>1, <3>2, <2>4 DEF c
  <2>6. ps[i] \in [pos : Nat, len : Nat, src : Source, off : Nat]
    BY <1>1 DEF Bits
  <2> DEFINE x == ps[i]
             y == a + LengthOf(SubSeq(ps, 1, i - 1))
  <2> HIDE DEF x, y
  <2>7. y = x.pos /\ x \in [pos : Nat, len : Nat, src : Source, off : Nat] => [x EXCEPT !.pos = y] = x
    OBVIOUS
  <2> QED BY <2>5, <2>6, <2>7 DEF x, y
<1> QED BY <1>2, <1>3 DEF LaidFrom
-----------------------------------------------------------------------------
(* One record undone.                                                      *)

(* What an edit put in.                                                    *)
InsertedBy(r, c) == IF IsOfPieces(r) THEN Denotes(r.deleted) ELSE [i \in 1..r.count |-> <<c, i>>]

(* The edit of record r, the c-th of the scratch stream, took one text to  *)
(* another; in the table it left, pieces meet where the edit began, where  *)
(* it ended and, before and after it, where they had met already.          *)
Edit(r, c, old, new, before, after) ==
  LET ins  == InsertedBy(r, c)
      back == r.stop - r.start
  IN
  /\ r \in Record /\ r.start <= r.stop /\ r.stop <= Len(old)
  /\ new = Replaced(old, r.start, r.stop, ins)
  /\ IF IsOfPieces(r) THEN r.count = 0 /\ Lies(r.deleted, r.start, r.start + Len(ins))
     ELSE Lies(r.deleted, r.start, r.stop) /\ Shows(r.deleted, old)
  /\ r.start \in after /\ r.start + Len(ins) \in after
  /\ \A x \in before : /\ x <= r.start => x \in after
                       /\ r.start < x /\ x < r.stop => Meets(r.deleted, r.start, x)
                       /\ x >= r.stop => x + (Len(ins) - back) \in after

(* A table that is a text, with pieces that meet at some places.           *)
Fits(ps, len, text, places) ==
  /\ Lies(ps, 0, len) /\ Shows(ps, text) /\ text \in Seq(Char) /\ Len(text) = len
  /\ \A x \in places : Meets(ps, 0, x)

(* The table that an undo leaves, whichever edit it was.                   *)
LEMMA Restored ==
  ASSUME NEW ps, NEW p, NEW m, NEW q, NEW s \in Nat, NEW e \in Nat, NEW ins \in Seq(Char), s <= e,
         NEW old \in Seq(Char), e <= Len(old), NEW before, NEW after, NEW del,
         Fits(ps, Len(old) + (Len(ins) - (e - s)), Replaced(old, s, e, ins), after),
         Parts(ps, s, s + Len(ins), Len(old) + (Len(ins) - (e - s)), p, m, q),
         Lies(del, s, e), Shows(del, old), before \subseteq Nat,
         \A x \in before : /\ x <= s => x \in after
                           /\ s < x /\ x < e => Meets(del, s, x)
                           /\ x >= e => x + (Len(ins) - (e - s)) \in after
  PROVE  Fits((p \o del) \o Moved(q, 1, (e - s) - Len(ins)), Len(old), old, before)
<1> DEFINE new == Replaced(old, s, e, ins)
           k == Len(ins)
           d == k - (e - s)
           b == Len(old) + d
           c == e - s
           z == c - k
           r == (p \o del) \o Moved(q, 1, z)
<1>1. /\ new \in Seq(Char) /\ Len(new) = b /\ k \in Nat /\ d \in Int
      /\ \A x \in 1..s : new[x] = old[x]
      /\ \A x \in (e + 1)..Len(old) : new[x + d] = old[x]
  <2>1. e \in s..Len(old)
    BY LenProperties
  <2> QED BY ZenonT(60), <2>1, ReplacedIs
<1>2. Len(old) \in Nat /\ c \in Nat /\ z = -d /\ s + c = e /\ z = c - ((s + k) - s) /\ b + z = Len(old) /\ z \in Int
  BY <1>1, LenProperties
<1>3. /\ Lies(p, 0, s) /\ Lies(m, s, s + k) /\ Lies(q, s + k, b)
      /\ Shows(p, new) /\ Shows(q, new)
      /\ \A x : Meets(ps, 0, x) => Meets(p, 0, x) \/ Meets(m, s, x) \/ Meets(q, s + k, x)
      /\ \A x \in after : Meets(ps, 0, x)
  BY DEF Fits, Parts
<1>4. \A x \in 1..s : old[x] = new[x]
  BY <1>1
<1>5. ASSUME NEW x \in Nat, s + k < x, x <= b PROVE old[x + z] = new[x]
  <2>1. x + z \in (e + 1)..Len(old) /\ (x + z) + d = x
    BY <1>1, <1>2, <1>5
  <2> QED BY <2>1, <1>1
<1> HIDE DEF new, d, c, b, z, k
<1>6. /\ Lies(r, 0, b + z)
      /\ \A x : Meets(p, 0, x) \/ Meets(del, s, x) => Meets(r, 0, x)
      /\ \A x : Meets(q, s + k, x) => Meets(r, 0, x + z)
      /\ Shows(r, old)
  <2>1. Lies(del, s, s + c)
    BY <1>2
  <2>2. s + k \in Nat /\ s <= s + k
    BY <1>1
  <2>3. SplicedAs(p, del, q, s, c, s + k, b, z, r)
    BY <2>1, <2>2, <1>2, <1>3, Spliced
  <2>4. Shows(r, old)
    <3>1. \A x \in Nat : s + k < x /\ x <= b => old[x + z] = new[x]
      BY <1>5
    <3> HIDE DEF r
    <3> QED BY <3>1, <2>3, <1>3, <1>4 DEF SplicedAs
  <2> HIDE DEF r
  <2> QED BY <2>3, <2>4 DEF SplicedAs
<1> HIDE DEF r
<1>7. ASSUME NEW x \in before PROVE Meets(r, 0, x)
  <2>1. x \in Nat
    OBVIOUS
  <2>2. CASE x <= s
    <3>1. Meets(p, 0, x) \/ Meets(m, s, x) \/ Meets(q, s + k, x)
      BY <2>2, <1>3
    <3>2. CASE Meets(p, 0, x)
      BY <3>2, <1>6
    <3>3. CASE ~Meets(p, 0, x)
      <4>1. s <= x
        BY <3>1, <3>3, <1>3, <1>1, MeetsIn, <2>1
      <4>2. x = s
        BY <4>1, <2>1, <2>2
      <4>3. Meets(p, 0, s)
        BY <1>3, MeetsIn
      <4> QED BY <4>2, <4>3, <3>3
    <3> QED BY <3>2, <3>3
  <2>3. CASE s < x /\ x < e
    BY <2>3, <1>6
  <2>4. CASE x >= e
    <3>1. x + d \in after /\ x + d >= s + k /\ (x + d) + z = x /\ x + d \in Int
      BY <2>1, <2>4, <1>1, <1>2 DEF d, k, c
    <3>2. Meets(p, 0, x + d) \/ Meets(m, s, x + d) \/ Meets(q, s + k, x + d)
      BY <3>1, <1>3
    <3>3. CASE Meets(q, s + k, x + d)
      BY <3>1, <3>3, <1>6
    <3>4. CASE ~Meets(q, s + k, x + d)
      <4>1. x + d <= s + k
        <5>1. Meets(p, 0, x + d) => x + d <= s
          BY <1>3, MeetsIn
        <5>2. Meets(m, s, x + d) => x + d <= s + k
          BY <1>3, MeetsIn
        <5> QED BY <5>1, <5>2, <3>1, <3>2, <3>4, <1>1
      <4>2. x + d = s + k
        BY <4>1, <3>1, <1>1
      <4>3. Meets(q, s + k, s + k)
        BY <1>3, MeetsIn
      <4> QED BY <4>2, <4>3, <3>4
    <3> QED BY <3>3, <3>4
  <2> QED BY <2>1, <2>2, <2>3, <2>4
<1>8. Fits(r, Len(old), old, before)
  <2>1. Lies(r, 0, Len(old))
    BY <1>2, <1>6
  <2> QED BY <2>1, <1>6, <1>7 DEF Fits
<1> QED BY <1>8 DEF r, z, c, k
-----------------------------------------------------------------------------
(* What the code does to undo a record.                                    *)

FoundAny(ps, at) == IF ps = <<>> THEN 1 ELSE Bounding(ps, at)
DeltaAny(ps, at) == IF ps = <<>> THEN 0 ELSE at - ps[FoundAny(ps, at)].pos
HereAny(ps, at)  == HereOf(FoundAny(ps, at), DeltaAny(ps, at))

LEMMA OpenedMeet ==
  ASSUME NEW ps, NEW b, Lies(ps, 0, b), NEW at, Meets(ps, 0, at)
  PROVE  \E p, q \in Seq(Bits) : Opens(ps, ps, HereAny(ps, at), at, b, p, q)
<1>1. at \in 0..b
  <2>1. at \in Nat /\ 0 <= at /\ at <= b /\ b \in Nat
    BY MeetsIn, CutIs
  <2> QED BY <2>1
<1> DEFINE found == IF ps = <<>> THEN 1 ELSE Bounding(ps, at)
           delta == IF ps = <<>> THEN 0 ELSE at - ps[found].pos
           atEnd == ps = <<>> \/ (found = Len(ps) /\ delta = ps[found].len)
           cut   == IF delta = 0 \/ atEnd THEN ps ELSE Split(ps, found, delta)
<1>2. /\ \E p, q \in Seq(Bits) : Opens(cut, ps, HereOf(found, delta), at, b, p, q)
      /\ (Meets(ps, 0, at) => cut = ps)
  BY <1>1, OpenedAny
<1>3. HereOf(found, delta) = HereAny(ps, at)
  BY DEF HereAny, FoundAny, DeltaAny
<1> HIDE DEF cut, found, delta
<1> QED BY <1>2, <1>3

LEMMA ReplaceUndone ==
  ASSUME NEW st, NEW r, NEW b, Lies(st.ps, 0, b), r.count \in Nat,
         Lies(r.deleted, r.start, r.stop), r.start <= r.stop,
         Meets(st.ps, 0, r.start), Meets(st.ps, 0, r.start + r.count)
  PROVE  \E p, m, q \in Seq(Bits) :
           /\ Parts(st.ps, r.start, r.start + r.count, b, p, m, q)
           /\ UndoReplace(st, r).ps = (p \o r.deleted) \o Moved(q, 1, (r.stop - r.start) - r.count)
<1> DEFINE s == r.start
           e == r.stop
           k == r.count
           del == r.deleted
           back == e - s
           tab == st.ps
           here == HereAny(tab, s)
           ps == PutIn(Moved(tab, here, back), here, LaidFrom(del, s))
           after == here + Len(del)
<1>1. s \in Nat /\ e \in Nat /\ k \in Nat /\ s <= e /\ back \in Nat /\ del \in Seq(Bits) /\ del \in Seq(Rows)
  BY BitsAreRows, CutIs
<1>2. PICK p, w \in Seq(Bits) : Opens(tab, tab, here, s, b, p, w)
  BY OpenedMeet
<1>3. PICK m, q \in Seq(Bits) : w = m \o q /\ Parts(tab, s, s + k, b, p, m, q)
  <2> DEFINE t == s + k
  <2>1. t \in Nat /\ s <= t
    BY <1>1
  <2>2. Meets(tab, 0, t)
    OBVIOUS
  <2> HIDE DEF t, s, tab
  <2>3. \E m, q \in Seq(Bits) : w = m \o q /\ Parts(tab, s, t, b, p, m, q)
    BY ZenonT(60), <2>1, <2>2, <1>2, InThree
  <2> QED BY <2>3 DEF t
<1>4. /\ tab = p \o w /\ Len(p) = here - 1 /\ Lies(p, 0, s) /\ Lies(w, s, b) /\ Lies(m, s, s + k) /\ Lies(q, s + k, b)
  BY <1>2, <1>3 DEF Opens, Parts
<1>5. p \in Seq(Rows) /\ w \in Seq(Rows) /\ m \in Seq(Rows) /\ q \in Seq(Rows) /\ b \in Nat
  BY <1>4, CutIs, BitsAreRows
<1>6. here = Len(p) + 1
  <2>1. HereAny(tab, s) \in Int
    <3>1. FoundAny(tab, s) \in Int
      <4>1. CASE tab = <<>>
        BY <4>1 DEF FoundAny
      <4>2. CASE tab # <<>>
        <5>1. Holds(tab, Bounding(tab, s), s)
          <6>1. 0 <= s
            BY <1>1
          <6> QED BY <6>1, <4>2, <1>1, BoundingIn
        <5>2. Bounding(tab, s) \in 1..Len(tab)
          BY <5>1 DEF Holds
        <5> QED BY <5>2, <4>2 DEF FoundAny
      <4> QED BY <4>1, <4>2
    <3> HIDE DEF tab, s
    <3> QED BY <3>1 DEF HereAny, HereOf
  <2>2. here \in Int
    BY <2>1
  <2> HIDE DEF here
  <2> QED BY <2>2, <1>4
<1> HIDE DEF here
<1> DEFINE mw == Moved(w, 1, back)
           mm == Moved(m, 1, back)
           mq == Moved(q, 1, back)
<1>7. ps = (p \o del) \o mw
  <2>1. Moved(tab, here, back) = p \o mw
    <3>1. back \in Int
      BY <1>1
    <3>2. Moved(p \o w, Len(p) + 1, back) = p \o mw
      BY <3>1, <1>5, MovedParts
    <3> QED BY <3>2, <1>4, <1>6
  <2>2. LaidFrom(del, s) = del
    BY LaidIs
  <2>3. mw \in Seq(Rows)
    BY <1>1, <1>5, MovedIs
  <2>4. PutIn(p \o mw, Len(p) + 1, del) = (p \o del) \o mw
    <3> HIDE DEF mw, del
    <3> QED BY <2>3, <1>1, <1>5, PutInParts
  <2> HIDE DEF mw, del, back, tab
  <2> QED BY <2>1, <2>2, <2>4, <1>6
<1>8. Lies(p \o del, 0, e) /\ Len(p \o del) = Len(p) + Len(del) /\ p \o del \in Seq(Bits)
  BY <1>4, JoinedLies
<1>9. s + back = e /\ s + back >= 0 /\ (s + k) + back = e + k /\ (s + k) + back >= 0 /\ back \in Int
  <2> HIDE DEF s, e, k
  <2> QED BY <1>1
<1>10. Lies(mm, e, e + k) /\ Lies(mq, e + k, b + back) /\ Lies(mw, e, b + back)
  <2>1. Lies(Moved(m, 1, back), s + back, (s + k) + back)
    <3> HIDE DEF back
    <3> QED BY <1>4, <1>9, Shifted
  <2>2. Lies(Moved(q, 1, back), (s + k) + back, b + back)
    <3> HIDE DEF back
    <3> QED BY <1>4, <1>9, Shifted
  <2>3. Lies(Moved(w, 1, back), s + back, b + back)
    <3> HIDE DEF back
    <3> QED BY <1>4, <1>9, Shifted
  <2> QED BY <2>1, <2>2, <2>3, <1>9
<1>11. mw = mm \o mq
  <2>1. Moved(m \o q, 1, back) = Moved(m, 1, back) \o Moved(q, 1, back)
    <3>1. back \in Int
      BY <1>1
    <3> QED BY <3>1, <1>5, MovedParts
  <2> QED BY <2>1, <1>3
<1>12. after = Len(p \o del) + 1
  <2>1. Len(p) \in Nat /\ Len(del) \in Nat
    BY <1>1, <1>5, LenProperties
  <2> HIDE DEF del
  <2> QED BY <2>1, <1>6, <1>8
<1>13. ASSUME k # 0 PROVE Without(ps, after, k) = (p \o del) \o Moved(q, 1, back - k)
  <2> DEFINE pd == p \o del
  <2>1. ps = (pd \o mm) \o mq
    <3>1. pd \in Seq(Bits) /\ mm \in Seq(Bits) /\ mq \in Seq(Bits)
      BY <1>8, <1>10, CutIs
    <3> HIDE DEF pd, mm, mq, ps
    <3>3. (pd \o mm) \o mq = pd \o (mm \o mq)
      <4>1. PICK x \in Seq(Bits) : x = pd
        BY <3>1
      <4>2. PICK y \in Seq(Bits) : y = mm
        BY <3>1
      <4>3. PICK z \in Seq(Bits) : z = mq
        BY <3>1
      <4>4. (x \o y) \o z = x \o (y \o z)
        BY ZenonT(60), SMTT(30), Associate
      <4> QED BY <4>1, <4>2, <4>3, <4>4
    <3>4. ps = pd \o mw
      BY <1>7 DEF pd
    <3> HIDE DEF mw
    <3> QED BY <3>3, <3>4, <1>11
  <2>2. Without((pd \o mm) \o mq, Len(pd) + 1, k) = pd \o Moved(mq, 1, -k)
    <3> HIDE DEF pd, mm, mq
    <3>1. Lies(pd, 0, e)
      BY <1>8 DEF pd
    <3> DEFINE t == e + k
    <3>2. Lies(mm, e, t) /\ Lies(mq, t, b + back) /\ e \in Nat /\ k \in Nat
      BY <1>1, <1>10
    <3>3. t = e + k
      OBVIOUS
    <3> HIDE DEF t, e, k, back
    <3> QED BY <3>1, <3>2, <3>3, WithoutThem
  <2>3. Moved(mq, 1, -k) = Moved(q, 1, back - k)
    <3>1. back \in Int /\ -k \in Int /\ back + (-k) = back - k
      BY <1>1
    <3>2. Moved(Moved(q, 1, back), 1, -k) = Moved(q, 1, back + (-k))
      BY <3>1, <1>5, MovedTwice
    <3> QED BY <3>1, <3>2
  <2> HIDE DEF ps, after, mq
  <2> QED BY <2>1, <2>2, <2>3, <1>12
<1>14. ASSUME k = 0 PROVE ps = (p \o del) \o Moved(q, 1, back - k)
  <2>1. mm = <<>>
    <3>1. Lies(mm, e, e)
      BY <1>10, <1>14, <1>1
    <3> HIDE DEF mm
    <3> QED BY <3>1, Ordered
  <2>2. mq \in Seq(Bits)
    BY <1>10, CutIs
  <2> HIDE DEF mq, mm, mw
  <2>3. mw = mq
    BY <2>1, <2>2, <1>11
  <2>4. back - k = back
    BY <1>14, <1>1
  <2> HIDE DEF ps, back
  <2> QED BY <2>3, <2>4, <1>7 DEF mq
<1>15. UndoReplace(st, r).ps = IF r.count = 0 THEN ps ELSE Without(ps, after, r.count)
  BY DEF UndoReplace, here, HereAny, HereOf, FoundAny, DeltaAny
<1> HIDE DEF ps, after
<1>16. UndoReplace(st, r).ps = (p \o del) \o Moved(q, 1, back - k)
  BY <1>13, <1>14, <1>15
<1> QED BY <1>3, <1>16

LEMMA PiecesUndone ==
  ASSUME NEW st, NEW r, NEW b, Lies(st.ps, 0, b), NEW k \in Nat \ {0},
         Lies(r.deleted, r.start, r.start + k), r.start = r.stop,
         Meets(st.ps, 0, r.start), Meets(st.ps, 0, r.start + k)
  PROVE  /\ LengthOf(r.deleted) = k
         /\ \E p, m, q \in Seq(Bits) :
              /\ Parts(st.ps, r.start, r.start + k, b, p, m, q)
              /\ UndoPieces(st, r).ps = p \o Moved(q, 1, -k)
<1> DEFINE s == r.start
           tab == st.ps
           here == Bounding(tab, s)
<1>1. s \in Nat /\ k \in Nat /\ k # 0 /\ b \in Nat
  BY CutIs
<1>2. LengthOf(r.deleted) = k
  <2>1. LengthOf(r.deleted) = (s + k) - s
    BY LengthIs
  <2> HIDE DEF s
  <2> QED BY <2>1, <1>1
<1>3. s + k <= b /\ s < b
  <2>1. s + k <= b
    BY MeetsIn
  <2> QED BY <2>1, <1>1
<1>4. tab # <<>>
  BY <1>1, <1>3, Ordered
<1>5. Holds(tab, here, s)
  <2>1. 0 <= s
    BY <1>1
  <2> QED BY <2>1, <1>1, <1>4, BoundingIn
<1> HIDE DEF here
<1>6. s = tab[here].pos
  <2>1. s \in 0..b
    BY <1>1, <1>3
  <2>2. Meets(tab, 0, s) => s = tab[here].pos \/ (here = Len(tab) /\ s = b)
    BY <2>1, <1>5, HoldsIn
  <2> QED BY <2>2, <1>1, <1>3
<1>7. PICK p, w \in Seq(Bits) : Opens(tab, tab, here, s, b, p, w)
  <2>1. s \in 0..b
    BY <1>1, <1>3
  <2>2. \E p, w \in Seq(Bits) : Opens(OpenedAt(tab, here, s - tab[here].pos), tab, HereOf(here, s - tab[here].pos), s, b, p, w)
    BY <2>1, <1>5, Opened
  <2>3. s - tab[here].pos = 0
    <3> HIDE DEF s
    <3> QED BY <1>1, <1>6
  <2>4. OpenedAt(tab, here, 0) = tab /\ HereOf(here, 0) = here
    BY DEF OpenedAt, HereOf
  <2> QED BY <2>2, <2>3, <2>4
<1>8. PICK m, q \in Seq(Bits) : w = m \o q /\ Parts(tab, s, s + k, b, p, m, q)
  <2> DEFINE t == s + k
  <2>1. t \in Nat /\ s <= t
    BY <1>1
  <2>2. Meets(tab, 0, t)
    OBVIOUS
  <2> HIDE DEF t, s, tab
  <2>3. \E m, q \in Seq(Bits) : w = m \o q /\ Parts(tab, s, t, b, p, m, q)
    BY ZenonT(60), <2>1, <2>2, <1>7, InThree
  <2> QED BY <2>3 DEF t
<1>9. here = Len(p) + 1
  <2>1. here \in 1..Len(tab)
    BY <1>5 DEF Holds
  <2>2. Len(p) = here - 1
    BY <1>7 DEF Opens
  <2> QED BY <2>1, <2>2
<1>10. Without(tab, here, k) = p \o Moved(q, 1, -k)
  <2>1. tab = (p \o m) \o q /\ Lies(p, 0, s) /\ Lies(m, s, s + k) /\ Lies(q, s + k, b)
    BY <1>8 DEF Parts
  <2>2. Without((p \o m) \o q, Len(p) + 1, k) = p \o Moved(q, 1, -k)
    BY SMTT(30), <2>1, <1>1, WithoutIs
  <2> QED BY <2>1, <2>2, <1>9
<1>11. UndoPieces(st, r).ps = Without(tab, here, k)
  BY <1>2 DEF UndoPieces, here
<1> QED BY <1>2, <1>8, <1>10, <1>11
LEMMA AdjustedIn ==
  ASSUME NEW len \in Nat, NEW at \in 0..len, NEW start \in 0..len, NEW delta \in Int,
         start - delta <= len
  PROVE  Adjusted(at, start, delta) \in 0..(len + delta)
BY DEF Adjusted

LEMMA InsertedIs ==
  ASSUME NEW r \in Record, NEW c \in Source, IsOfPieces(r) => \E x, y : Lies(r.deleted, x, y)
  PROVE  /\ InsertedBy(r, c) \in Seq(Char) /\ Len(InsertedBy(r, c)) \in Nat
         /\ ~IsOfPieces(r) => /\ Len(InsertedBy(r, c)) = r.count
                              /\ \A k \in 1..r.count : InsertedBy(r, c)[k] = <<c, k>>
<1>1. CASE IsOfPieces(r)
  <2>1. Denotes(r.deleted) \in Seq(Char)
    BY <1>1, DenotesIs
  <2>2. Len(Denotes(r.deleted)) \in Nat
    BY <2>1, LenProperties
  <2> QED BY <1>1, <2>1, <2>2 DEF InsertedBy
<1>2. CASE ~IsOfPieces(r)
  <2> DEFINE ins == [k \in 1..r.count |-> <<c, k>>]
  <2>1. r.count \in 0..MaxLength /\ MaxLength \in Nat
    BY PieceAssumption DEF Record
  <2>2. r.count \in Nat /\ \A k \in 1..r.count : <<c, k>> \in Char
    BY <2>1 DEF Char
  <2>3. ins \in Seq(Char) /\ Len(ins) = r.count
    BY <2>2
  <2> QED BY <1>2, <2>2, <2>3 DEF InsertedBy
<1> QED BY <1>1, <1>2

LEMMA EditIs ==
  ASSUME NEW r, NEW c \in Source, NEW old \in Seq(Char), NEW new, NEW before, NEW after,
         Edit(r, c, old, new, before, after)
  PROVE  LET k == Len(InsertedBy(r, c)) IN
         /\ r \in Record /\ r.start \in Nat /\ r.stop \in Nat /\ r.start <= r.stop /\ r.stop <= Len(old)
         /\ k \in Nat /\ InsertedBy(r, c) \in Seq(Char) /\ Len(old) \in Nat
         /\ new \in Seq(Char) /\ Len(new) = Len(old) + (k - (r.stop - r.start))
         /\ (~IsOfPieces(r) => k = r.count) /\ (IsOfPieces(r) => k > 0 /\ r.start = r.stop /\ r.count = 0)
<1> DEFINE ins == InsertedBy(r, c)
           k == Len(ins)
<1>1. /\ r \in Record /\ r.start <= r.stop /\ r.stop <= Len(old) /\ new = Replaced(old, r.start, r.stop, ins)
      /\ IsOfPieces(r) => r.count = 0 /\ Lies(r.deleted, r.start, r.start + k)
  BY DEF Edit
<1>2. r.start \in Nat /\ r.stop \in Nat
  BY <1>1, PieceAssumption DEF Record
<1>3. /\ ins \in Seq(Char) /\ k \in Nat
      /\ ~IsOfPieces(r) => /\ k = r.count
                           /\ \A x \in 1..r.count : ins[x] = <<c, x>>
  BY <1>1, InsertedIs
<1>4. Len(old) \in Nat
  BY LenProperties
<1> HIDE DEF ins
<1>5. new \in Seq(Char) /\ Len(new) = Len(old) + (k - (r.stop - r.start))
  <2>1. r.stop \in r.start..Len(old)
    BY <1>1, <1>2, <1>4
  <2> QED BY ZenonT(60), <2>1, <1>1, <1>2, <1>3, ReplacedIs
<1>6. ASSUME IsOfPieces(r) PROVE k > 0 /\ r.start = r.stop /\ r.count = 0
  <2>1. r.deleted # <<>> /\ r.start = r.stop
    BY <1>6 DEF IsOfPieces
  <2>2. r.start # r.start + k
    BY <2>1, <1>1, <1>6, Ordered
  <2>3. k # 0
    BY <2>2, <1>2
  <2> QED BY <2>1, <2>3, <1>1, <1>3, <1>6
<1> QED BY <1>1, <1>2, <1>3, <1>4, <1>5, <1>6 DEF ins

(* A record undone: the text, its length, its places and the position.     *)
LEMMA RecordUndone ==
  ASSUME NEW st, NEW r, NEW c \in Source, NEW old \in Seq(Char), NEW new, NEW before, NEW after,
         Edit(r, c, old, new, before, after), before \subseteq Nat,
         Fits(st.ps, st.len, new, after), st.pos \in 0..st.len
  PROVE  LET u == UndoRecord(st, r) IN Fits(u.ps, u.len, old, before) /\ u.pos \in 0..u.len
<1> DEFINE ins == InsertedBy(r, c)
           k == Len(ins)
           s == r.start
           e == r.stop
           n == Len(old)
           b == n + (k - (e - s))
<1>1. /\ r \in Record /\ s \in Nat /\ e \in Nat /\ s <= e /\ e <= n
      /\ k \in Nat /\ ins \in Seq(Char) /\ n \in Nat
      /\ new \in Seq(Char) /\ Len(new) = b
      /\ (~IsOfPieces(r) => k = r.count) /\ (IsOfPieces(r) => k > 0 /\ s = e /\ r.count = 0)
  BY EditIs
<1>2. st.len = b /\ b \in Nat
  <2>1. Len(new) \in Nat
    BY <1>1, LenProperties
  <2> QED BY <2>1, <1>1 DEF Fits
<1>3. Lies(st.ps, 0, b) /\ Meets(st.ps, 0, s) /\ Meets(st.ps, 0, s + k) /\ Fits(st.ps, b, Replaced(old, s, e, ins), after)
  BY <1>2 DEF Fits, Edit
<1>4. \A x \in before : /\ x <= s => x \in after
                        /\ s < x /\ x < e => Meets(r.deleted, s, x)
                        /\ x >= e => x + (k - (e - s)) \in after
  BY DEF Edit
<1>5. CASE IsOfPieces(r)
  <2>1. k \in Nat \ {0} /\ Lies(r.deleted, s, s + k) /\ s = e
    BY <1>1, <1>5 DEF Edit
  <2>2. /\ LengthOf(r.deleted) = k
        /\ \E p, m, q \in Seq(Bits) :
              /\ Parts(st.ps, s, s + k, b, p, m, q)
              /\ UndoPieces(st, r).ps = p \o Moved(q, 1, -k)
    <3> HIDE DEF k, b
    <3> QED BY <2>1, <1>3, PiecesUndone
  <2>3. PICK p, m, q \in Seq(Bits) :
              /\ Parts(st.ps, s, s + k, b, p, m, q)
              /\ UndoPieces(st, r).ps = p \o Moved(q, 1, -k)
    BY <2>2
  <2>4. Lies(<<>>, s, e) /\ Shows(<<>>, old)
    BY <2>1, <1>1, NoPiece
  <2>5. \A x \in before : /\ x <= s => x \in after
                          /\ s < x /\ x < e => Meets(<<>>, s, x)
                          /\ x >= e => x + (k - (e - s)) \in after
    <3>1. \A x \in Nat : ~(s < x /\ x < e)
      BY <2>1, <1>1
    <3> QED BY <3>1, <1>4
  <2>6. Fits((p \o <<>>) \o Moved(q, 1, (e - s) - k), n, old, before)
    <3> DEFINE del == <<>>
    <3> HIDE DEF del
    <3>1. Lies(del, s, e) /\ Shows(del, old) 
          /\ \A x \in before : /\ x <= s => x \in after
                               /\ s < x /\ x < e => Meets(del, s, x)
                               /\ x >= e => x + (k - (e - s)) \in after
      BY <2>4, <2>5 DEF del
    <3> HIDE DEF s, e
    <3>2. Fits((p \o del) \o Moved(q, 1, (e - s) - Len(ins)), Len(old), old, before)
      <4> HIDE DEF ins
      <4> QED BY <3>1, <2>3, <1>1, <1>3, Restored
    <3> QED BY <3>2 DEF del
  <2>7. UndoPieces(st, r).ps = (p \o <<>>) \o Moved(q, 1, (e - s) - k)
    <3>1. (e - s) - k = -k
      <4> HIDE DEF s, e, k
      <4> QED BY <2>1, <1>1
    <3>2. p \o <<>> = p
      OBVIOUS
    <3> QED BY <3>1, <3>2, <2>3
  <2>8. UndoPieces(st, r).len = n /\ UndoPieces(st, r).pos = Adjusted(st.pos, s, -k)
    <3>1. UndoPieces(st, r).len = st.len - k
      BY <2>2 DEF UndoPieces
    <3>2. b - k = n
      <4> HIDE DEF s, e, k, n
      <4> QED BY <2>1, <1>1
    <3> QED BY <3>1, <3>2, <1>2, <2>2 DEF UndoPieces
  <2>9. UndoPieces(st, r).pos \in 0..n
    <3>1. s \in 0..b /\ -k \in Int /\ s - (-k) <= b /\ b + (-k) = n
      <4> HIDE DEF s, e, k, n
      <4> QED BY <2>1, <1>1
    <3>2. Adjusted(st.pos, s, -k) \in 0..(b + (-k))
      <4> DEFINE d == -k
      <4>1. d \in Int /\ s - d <= b /\ s \in 0..b
        BY <3>1
      <4>2. st.pos \in 0..b
        BY <1>2
      <4> HIDE DEF s, b, d
      <4>3. Adjusted(st.pos, s, d) \in 0..(b + d)
        BY <4>1, <4>2, <1>2, AdjustedIn
      <4> QED BY <4>3 DEF d
    <3> QED BY <3>1, <3>2, <2>8
  <2> HIDE DEF n, s, e, k
  <2> QED BY <1>5, <2>6, <2>7, <2>8, <2>9 DEF UndoRecord
<1>6. CASE ~IsOfPieces(r)
  <2>1. r.count = k /\ Lies(r.deleted, s, e) /\ Shows(r.deleted, old)
    BY <1>1, <1>6 DEF Edit
  <2>2. PICK p, m, q \in Seq(Bits) :
           /\ Parts(st.ps, s, s + k, b, p, m, q)
           /\ UndoReplace(st, r).ps = (p \o r.deleted) \o Moved(q, 1, (e - s) - k)
    <3>1. r.count \in Nat /\ Meets(st.ps, 0, r.start + r.count)
      BY <2>1, <1>1, <1>3
    <3>2. \E p, m, q \in Seq(Bits) :
           /\ Parts(st.ps, r.start, r.start + r.count, b, p, m, q)
           /\ UndoReplace(st, r).ps = (p \o r.deleted) \o Moved(q, 1, (r.stop - r.start) - r.count)
      <4> HIDE DEF b
      <4> QED BY <3>1, <2>1, <1>1, <1>3, ReplaceUndone
    <3> QED BY <3>2, <2>1
  <2>3. Fits((p \o r.deleted) \o Moved(q, 1, (e - s) - k), n, old, before)
    <3> DEFINE del == r.deleted
    <3>1. Lies(del, s, e) /\ Shows(del, old) 
          /\ \A x \in before : /\ x <= s => x \in after
                               /\ s < x /\ x < e => Meets(del, s, x)
                               /\ x >= e => x + (k - (e - s)) \in after
      BY <2>1, <1>4
    <3> HIDE DEF del, s, e
    <3>2. Fits((p \o del) \o Moved(q, 1, (e - s) - Len(ins)), Len(old), old, before)
      <4> HIDE DEF ins
      <4> QED BY <3>1, <2>2, <1>1, <1>3, Restored
    <3> QED BY <3>2 DEF del
  <2>4. UndoReplace(st, r).len = n
    <3>1. UndoReplace(st, r).len = st.len + (e - s) - r.count
      BY DEF UndoReplace
    <3>2. b + (e - s) - k = n
      <4> HIDE DEF s, e, k, n
      <4> QED BY <1>1
    <3> QED BY <3>1, <3>2, <1>2, <2>1
  <2>5. UndoReplace(st, r).pos \in 0..n
    <3> DEFINE back == e - s
               moved == Adjusted(st.pos, s, back)
    <3>1. UndoReplace(st, r).pos = IF r.count = 0 THEN moved ELSE Adjusted(moved, e, -r.count)
      BY DEF UndoReplace
    <3>2. back \in Int /\ s \in 0..b /\ s - back <= b /\ b + back = n + k /\ e \in 0..(b + back) /\ e - (-k) <= b + back
          /\ b + back + (-k) = n /\ -k \in Int /\ b + back \in Nat
      <4> HIDE DEF s, e, k, n
      <4> QED BY <1>1, <1>2
    <3>3. moved \in 0..(b + back)
      <4>1. st.pos \in 0..b
        BY <1>2
      <4> HIDE DEF s, b, back
      <4> QED BY <4>1, <3>2, <1>2, AdjustedIn
    <3>4. Adjusted(moved, e, -k) \in 0..(b + back + (-k))
      <4> DEFINE d == -k
                 l == b + back
      <4>1. d \in Int /\ e - d <= l /\ e \in 0..l /\ l \in Nat /\ moved \in 0..l
        BY <3>2, <3>3
      <4> HIDE DEF e, l, d, moved
      <4>2. Adjusted(moved, e, d) \in 0..(l + d)
        BY <4>1, AdjustedIn
      <4> QED BY <4>2 DEF d, l
    <3> HIDE DEF moved, n, e, s, b, k
    <3>5. CASE r.count = 0
      <4>1. b + back = n
        <5>1. b + back = n + k /\ k = 0 /\ n \in Nat
          BY <3>5, <3>2, <2>1, <1>1
        <5> HIDE DEF back
        <5> QED BY <5>1
      <4> QED BY <4>1, <3>1, <3>3, <3>5
    <3>6. CASE r.count # 0
      BY <3>1, <3>2, <3>4, <3>6, <2>1
    <3> QED BY <3>5, <3>6
  <2> HIDE DEF n, s, e, k
  <2> QED BY <1>6, <2>2, <2>3, <2>4, <2>5 DEF UndoRecord
<1> QED BY <1>5, <1>6
-----------------------------------------------------------------------------
(* The chain of the records in force.                                      *)

(* The n records in force are C[1], ..., C[n], each with the one before it *)
(* as its predecessor.                                                     *)
Links(sc, n, C) ==
  /\ n \in Nat /\ C \in [Nat -> Nat] /\ C[0] = 0
  /\ \A i \in 1..n : C[i - 1] < C[i] /\ C[i] <= Len(sc) /\ sc[C[i]].prev = C[i - 1]

Backwards(sc) == Len(sc) \in Nat /\ \A r \in 1..Len(sc) : sc[r].prev \in Nat /\ sc[r].prev < r

LEMMA Rising ==
  ASSUME NEW sc, NEW n, NEW C, Links(sc, n, C), Len(sc) \in Nat
  PROVE  /\ \A i, j \in 0..n : i < j => C[i] < C[j]
         /\ \A i \in 0..n : C[i] \in 0..Len(sc)
         /\ \A i \in 1..n : C[i] \in 1..Len(sc)
<1>1. n \in Nat /\ C[0] = 0 /\ \A i \in Nat : C[i] \in Nat
  BY DEF Links
<1>2. \A i \in 1..n : C[i - 1] < C[i] /\ C[i] <= Len(sc)
  BY DEF Links
<1> DEFINE T == {k \in 0..n : \A i \in 0..k : i < k => C[i] < C[k]}
<1>3. 0 \in T
  BY <1>1
<1>4. ASSUME NEW k \in Nat, k < n, k \in T PROVE k + 1 \in T
  <2>1. C[k] < C[k + 1]
    <3>1. k + 1 \in 1..n /\ (k + 1) - 1 = k
      BY <1>1, <1>4
    <3> QED BY <3>1, <1>2
  <2>2. ASSUME NEW i \in 0..(k + 1), i < k + 1 PROVE C[i] < C[k + 1]
    <3>1. CASE i = k
      BY <3>1, <2>1
    <3>2. CASE i # k
      <4>1. i \in 0..k /\ i < k /\ i \in Nat
        BY <2>2, <3>2, <1>4
      <4>2. C[i] < C[k]
        BY <4>1, <1>4
      <4>3. C[i] \in Nat /\ C[k] \in Nat /\ C[k + 1] \in Nat
        BY <4>1, <1>1, <1>4
      <4> QED BY <4>2, <4>3, <2>1
    <3> QED BY <3>1, <3>2
  <2>3. k + 1 \in 0..n
    BY <1>1, <1>4
  <2> QED BY <2>2, <2>3
<1> HIDE DEF T
<1>5. \A k \in 0..n : k \in T
  BY <1>1, <1>3, <1>4, Induct
<1>6. ASSUME NEW i \in 0..n, NEW j \in 0..n, i < j PROVE C[i] < C[j]
  <2>1. j \in T /\ i \in 0..j
    BY <1>1, <1>5, <1>6
  <2> QED BY <2>1, <1>6 DEF T
<1>7. ASSUME NEW i \in 1..n PROVE C[i] \in 1..Len(sc)
  <2>1. i - 1 \in Nat /\ i \in Nat
    BY <1>1
  <2>2. C[i - 1] \in Nat /\ C[i] \in Nat /\ C[i - 1] < C[i] /\ C[i] <= Len(sc)
    BY <2>1, <1>1, <1>2
  <2> QED BY <2>2
<1>8. ASSUME NEW i \in 0..n PROVE C[i] \in 0..Len(sc)
  <2>1. i = 0 \/ i \in 1..n
    BY <1>1
  <2>2. i \in 1..n => C[i] \in 1..Len(sc)
    BY <1>7
  <2> QED BY <2>1, <2>2, <1>1
<1> QED BY <1>6, <1>7, <1>8

BackStep(sc, mark, g, r) == IF r <= mark THEN <<>> ELSE <<r>> \o g[sc[r].prev]
Backs(sc, mark) == CHOOSE g : g = [r \in 0..Len(sc) |-> BackStep(sc, mark, g, r)]

LEMMA BacksAre ==
  ASSUME NEW sc, Backwards(sc), NEW mark \in Nat
  PROVE  Backs(sc, mark) = [r \in 0..Len(sc) |-> BackStep(sc, mark, Backs(sc, mark), r)]
<1> DEFINE L == Len(sc)
           T == {N \in Nat : \E g : g = [r \in 0..N |-> BackStep(sc, mark, g, r)]}
<1>0. L \in Nat /\ \A r \in 1..L : sc[r].prev \in Nat /\ sc[r].prev < r
  BY DEF Backwards
<1>1. 0 \in T
  <2> DEFINE g == [r \in 0..0 |-> <<>>]
  <2>1. g = [r \in 0..0 |-> BackStep(sc, mark, g, r)]
    BY DEF BackStep
  <2> QED BY <2>1
<1>2. ASSUME NEW N \in Nat, N < L, N \in T PROVE N + 1 \in T
  <2>1. PICK g : g = [r \in 0..N |-> BackStep(sc, mark, g, r)]
    BY <1>2
  <2> DEFINE h == [r \in 0..(N + 1) |-> IF r = N + 1 THEN BackStep(sc, mark, g, r) ELSE g[r]]
  <2>2. ASSUME NEW r \in 0..(N + 1) PROVE h[r] = BackStep(sc, mark, h, r)
    <3> DEFINE v == sc[r].prev
    <3>1. ~(r <= mark) => v \in 0..(N + 1) /\ v # N + 1
      <4>1. ~(r <= mark) => r \in 1..L
        BY <1>0, <1>2
      <4>2. ~(r <= mark) => v \in Nat /\ v < r
        BY <4>1, <1>0
      <4> HIDE DEF v
      <4> QED BY <4>2, <1>2
    <3>2. ~(r <= mark) => h[v] = g[v]
      <4> HIDE DEF v
      <4> QED BY <3>1
    <3>3. BackStep(sc, mark, h, r) = BackStep(sc, mark, g, r)
      BY <3>2 DEF BackStep
    <3>4. r # N + 1 => r \in 0..N
      OBVIOUS
    <3>5. r # N + 1 => g[r] = BackStep(sc, mark, g, r)
      BY <3>4, <2>1
    <3> QED BY <3>3, <3>5
  <2>3. h = [r \in 0..(N + 1) |-> BackStep(sc, mark, h, r)]
    BY <2>2
  <2> HIDE DEF h
  <2>4. N + 1 \in Nat /\ \E f : f = [r \in 0..(N + 1) |-> BackStep(sc, mark, f, r)]
    BY <2>3
  <2> QED BY <2>4
<1>3. L \in 0..L
  BY <1>0
<1> HIDE DEF T
<1>4. L \in T
  <2> HIDE DEF L
  <2> QED BY <1>0, <1>1, <1>2, <1>3, Induct
<1> QED BY <1>4 DEF T, Backs

(* The records of a chain but the first k, newest first.                   *)
Newest(todo, n, C, k) ==
  /\ todo \in Seq(Nat) /\ Len(todo) = n - k
  /\ \A j \in 1..(n - k) : todo[j] = C[(n - j) + 1]

(* From the last record in force back to a mark after the k-th.            *)
LEMMA BackIs ==
  ASSUME NEW sc, Backwards(sc), NEW n, NEW C, Links(sc, n, C), NEW mark \in Nat,
         NEW k \in 0..n, C[k] <= mark, k < n => mark < C[k + 1]
  PROVE  Newest(Backs(sc, mark)[C[n]], n, C, k)
<1> DEFINE f == Backs(sc, mark)
           Right(i) == /\ f[C[i]] \in Seq(Nat) /\ Len(f[C[i]]) = i - k
                       /\ \A j \in 1..(i - k) : f[C[i]][j] = C[(i - j) + 1]
           T == {d \in 0..(n - k) : Right(k + d)}
<1>1. n \in Nat /\ k \in Nat /\ k <= n /\ n - k \in Nat /\ Len(sc) \in Nat /\ \A i \in Nat : C[i] \in Nat
  BY SMTT(30), ZenonT(30) DEF Links, Backwards
<1>2. f = [r \in 0..Len(sc) |-> BackStep(sc, mark, f, r)]
  BY BacksAre
<1>3. /\ \A i, j \in 0..n : i < j => C[i] < C[j]
      /\ \A i \in 0..n : C[i] \in 0..Len(sc)
      /\ \A i \in 1..n : C[i] \in 1..Len(sc) /\ sc[C[i]].prev = C[i - 1]
  BY <1>1, Rising DEF Links
<1> HIDE DEF f
<1>4. 0 \in T
  <2>1. f[C[k]] = <<>>
    <3>1. C[k] \in 0..Len(sc)
      BY <1>3
    <3> QED BY <3>1, <1>2 DEF BackStep
  <2>2. k + 0 = k /\ k - k = 0 /\ 1..0 = {}
    BY <1>1
  <2>3. Right(k)
    BY <2>1, <2>2
  <2> HIDE DEF Right
  <2> QED BY <2>2, <2>3, <1>1
<1>5. ASSUME NEW d \in Nat, d < n - k, d \in T PROVE d + 1 \in T
  <2> DEFINE i == k + d
             c == C[i + 1]
             s == f[C[i]]
  <2>1. i \in 0..n /\ i + 1 \in 1..n /\ i + 1 \in 0..n /\ (i + 1) - 1 = i /\ k < n /\ k + 1 \in 0..n /\ i \in Nat
        /\ i - k = d /\ (i + 1) - k = d + 1 /\ k + (d + 1) = i + 1
    BY <1>1, <1>5
  <2>2. s \in Seq(Nat) /\ Len(s) = d /\ \A j \in 1..d : s[j] = C[(i - j) + 1]
    BY <2>1, <1>5
  <2>3. c \in Nat /\ c \in 0..Len(sc) /\ sc[c].prev = C[i]
    BY <2>1, <1>1, <1>3
  <2>4. ~(c <= mark)
    <3>1. mark < C[k + 1] /\ C[k + 1] \in Nat
      BY <2>1, <1>1
    <3>2. k + 1 = i + 1 \/ k + 1 < i + 1
      BY <1>1, <1>5
    <3>3. k + 1 < i + 1 => C[k + 1] < c
      BY <2>1, <1>3
    <3> QED BY <3>1, <3>2, <3>3, <2>3
  <2> HIDE DEF i, c, s
  <2>5. f[c] = <<c>> \o s
    BY <2>3, <2>4, <1>2 DEF BackStep, s
  <2>6. <<c>> \in Seq(Nat) /\ Len(<<c>>) = 1 /\ <<c>>[1] = c
    BY <2>3
  <2> DEFINE o == <<c>>
  <2> HIDE DEF o
  <2>7. /\ o \o s \in Seq(Nat) /\ Len(o \o s) = 1 + d
        /\ \A j \in 1..(1 + d) : (o \o s)[j] = IF j <= 1 THEN o[j] ELSE s[j - 1]
    <3>1. /\ o \o s \in Seq(Nat) /\ Len(o \o s) = Len(o) + Len(s)
          /\ \A j \in 1..(Len(o) + Len(s)) : (o \o s)[j] = IF j <= Len(o) THEN o[j] ELSE s[j - Len(o)]
      <4>1. PICK x \in Seq(Nat) : x = o
        BY <2>6 DEF o
      <4>2. PICK y \in Seq(Nat) : y = s
        BY <2>2
      <4>3. /\ x \o y \in Seq(Nat) /\ Len(x \o y) = Len(x) + Len(y)
            /\ \A j \in 1..(Len(x) + Len(y)) : (x \o y)[j] = IF j <= Len(x) THEN x[j] ELSE y[j - Len(x)]
        BY ConcatProperties
      <4> QED BY <4>1, <4>2, <4>3
    <3> QED BY <3>1, <2>2, <2>6 DEF o
  <2>8. ASSUME NEW j \in 1..(d + 1) PROVE f[c][j] = C[((i + 1) - j) + 1]
    <3>1. CASE j = 1
      <4>1. ((i + 1) - j) + 1 = i + 1
        BY <3>1, <2>1
      <4>2. f[c][1] = c
        <5>1. 1 \in 1..(1 + d)
          BY <1>5
        <5> QED BY <5>1, <2>5, <2>6, <2>7 DEF o
      <4> QED BY <4>1, <4>2, <3>1 DEF c
    <3>2. CASE j # 1
      <4>1. j - 1 \in 1..d /\ j \in 1..(1 + d) /\ ~(j <= 1) /\ ((i + 1) - j) + 1 = (i - (j - 1)) + 1
        BY <3>2, <2>1, <1>5
      <4>2. f[c][j] = s[j - 1]
        BY <4>1, <2>5, <2>7 DEF o
      <4>3. s[j - 1] = C[(i - (j - 1)) + 1]
        BY <4>1, <2>2
      <4> QED BY <4>1, <4>2, <4>3
    <3> QED BY <3>1, <3>2
  <2>9. f[c] \in Seq(Nat) /\ Len(f[c]) = d + 1
    BY <2>5, <2>7, <1>5 DEF o
  <2>10. Right(i + 1)
    BY <2>1, <2>8, <2>9 DEF c
  <2>11. d + 1 \in 0..(n - k)
    BY <1>1, <1>5
  <2> HIDE DEF Right
  <2> QED BY <2>1, <2>10, <2>11
<1> HIDE DEF T
<1>6. n - k \in T
  <2>1. n - k \in 0..(n - k)
    BY <1>1
  <2> QED BY <2>1, <1>1, <1>4, <1>5, Induct
<1>7. k + (n - k) = n
  BY <1>1
<1>8. Right(n)
  <2> HIDE DEF Right
  <2> QED BY <1>6, <1>7 DEF T
<1> QED BY <1>8 DEF f, Newest
-----------------------------------------------------------------------------
(* The records of a chain undone, newest first.                            *)

(* Every text of the chain is the one before it with one edit made.        *)
Chain(sc, n, C, T, B) ==
  /\ Links(sc, n, C)
  /\ T \in [Nat -> Seq(Char)] /\ B \in [Nat -> SUBSET Nat] /\ T[0] = Original
  /\ \A i \in 0..n : Len(T[i]) <= MaxLength
  /\ \A i \in 1..n : Edit(sc[C[i]], C[i], T[i - 1], T[i], B[i - 1], B[i])

Stack(sc) == sc \in Seq(Record) /\ Len(sc) <= MaxWrites /\ Backwards(sc)

UndoStep(sc, todo, st, g, m) == IF m = 0 THEN st ELSE UndoRecord(g[m - 1], sc[todo[m]])
Undones(sc, todo, st) == CHOOSE g : g = [m \in 0..Len(todo) |-> UndoStep(sc, todo, st, g, m)]

LEMMA UndonesAre ==
  ASSUME NEW sc, NEW todo, Len(todo) \in Nat, NEW st
  PROVE  \A m \in 0..Len(todo) : Undones(sc, todo, st)[m] = UndoStep(sc, todo, st, Undones(sc, todo, st), m)
<1> DEFINE T == {N \in Nat : \E g : g = [m \in 0..N |-> UndoStep(sc, todo, st, g, m)]}
<1>1. 0 \in T
  <2> DEFINE g == [m \in 0..0 |-> st]
  <2>1. g = [m \in 0..0 |-> UndoStep(sc, todo, st, g, m)]
    BY DEF UndoStep
  <2> QED BY <2>1
<1>2. ASSUME NEW N \in Nat, N \in T PROVE N + 1 \in T
  <2>1. PICK g : g = [m \in 0..N |-> UndoStep(sc, todo, st, g, m)]
    BY <1>2
  <2> DEFINE h == [m \in 0..(N + 1) |-> IF m = N + 1 THEN UndoStep(sc, todo, st, g, m) ELSE g[m]]
  <2>2. ASSUME NEW m \in 0..(N + 1) PROVE h[m] = UndoStep(sc, todo, st, h, m)
    <3>1. m # 0 => m - 1 \in 0..(N + 1) /\ m - 1 # N + 1 /\ m - 1 \in 0..N
      OBVIOUS
    <3>2. m # 0 => h[m - 1] = g[m - 1]
      BY <3>1
    <3>3. UndoStep(sc, todo, st, h, m) = UndoStep(sc, todo, st, g, m)
      BY <3>2 DEF UndoStep
    <3>4. m # N + 1 => m \in 0..N
      OBVIOUS
    <3>5. m # N + 1 => g[m] = UndoStep(sc, todo, st, g, m)
      BY <3>4, <2>1
    <3> QED BY <3>3, <3>5
  <2>3. h = [m \in 0..(N + 1) |-> UndoStep(sc, todo, st, h, m)]
    BY <2>2
  <2> HIDE DEF h
  <2>4. N + 1 \in Nat /\ \E f : f = [m \in 0..(N + 1) |-> UndoStep(sc, todo, st, f, m)]
    BY <2>3
  <2> QED BY <2>4
<1>3. Len(todo) \in 0..Len(todo)
  OBVIOUS
<1> HIDE DEF T
<1>4. Len(todo) \in T
  BY <1>1, <1>2, <1>3, Induct
<1> DEFINE u == Undones(sc, todo, st)
<1>5. u = [m \in 0..Len(todo) |-> UndoStep(sc, todo, st, u, m)]
  BY <1>4 DEF T, Undones
<1> HIDE DEF u
<1>6. \A m \in 0..Len(todo) : u[m] = UndoStep(sc, todo, st, u, m)
  BY <1>5
<1> QED BY <1>6 DEF u

(* What follows from it at once.                                            *)
Known(sc, n, C, T, B) ==
         /\ n \in Nat /\ Len(sc) \in Nat /\ C[0] = 0 /\ T[0] = Original
         /\ \A i \in Nat : C[i] \in Nat /\ T[i] \in Seq(Char) /\ Len(T[i]) \in Nat /\ B[i] \subseteq Nat
         /\ \A i \in 0..n : C[i] \in 0..Len(sc) /\ C[i] \in Source
         /\ \A i \in 1..n : C[i] \in 1..Len(sc) /\ sc[C[i]].prev = C[i - 1] /\ C[i - 1] < C[i]
         /\ \A i, j \in 0..n : i < j => C[i] < C[j]
         /\ \A i \in 1..n : Edit(sc[C[i]], C[i], T[i - 1], T[i], B[i - 1], B[i])

LEMMA ChainIs ==
  ASSUME NEW sc, Stack(sc), NEW n, NEW C, NEW T, NEW B, Chain(sc, n, C, T, B)
  PROVE  Known(sc, n, C, T, B)
<1>1. Len(sc) \in Nat /\ Len(sc) <= MaxWrites /\ MaxWrites \in Nat
  BY PieceAssumption DEF Stack, Backwards
<1>2. /\ \A i, j \in 0..n : i < j => C[i] < C[j]
      /\ \A i \in 0..n : C[i] \in 0..Len(sc)
      /\ \A i \in 1..n : C[i] \in 1..Len(sc)
  BY <1>1, Rising DEF Chain
<1>3. \A i \in 0..n : C[i] \in Source
  BY <1>1, <1>2 DEF Source
<1>4. \A i \in Nat : C[i] \in Nat
  BY DEF Chain, Links
<1>5. \A i \in Nat : T[i] \in Seq(Char) /\ B[i] \subseteq Nat
  BY DEF Chain
<1>6. \A i \in Nat : Len(T[i]) \in Nat
  BY <1>5, LenProperties
<1>7. n \in Nat /\ C[0] = 0 /\ T[0] = Original
  BY DEF Chain, Links
<1>8. \A i \in 1..n : sc[C[i]].prev = C[i - 1] /\ C[i - 1] < C[i]
  BY DEF Chain, Links
<1>9. \A i \in 1..n : Edit(sc[C[i]], C[i], T[i - 1], T[i], B[i - 1], B[i])
  BY DEF Chain
<1> QED BY <1>1, <1>2, <1>3, <1>4, <1>5, <1>6, <1>7, <1>8, <1>9 DEF Known

LEMMA UndoneIs ==
  ASSUME NEW sc, Stack(sc), NEW n, NEW C, NEW T, NEW B, Chain(sc, n, C, T, B),
         NEW k \in 0..n, NEW todo, Len(todo) = n - k, \A j \in 1..(n - k) : todo[j] = C[(n - j) + 1],
         NEW st, Fits(st.ps, st.len, T[n], B[n]), st.pos \in 0..st.len
  PROVE  LET u == Undones(sc, todo, st)[Len(todo)] IN
         Fits(u.ps, u.len, T[k], B[k]) /\ u.pos \in 0..u.len
<1> DEFINE f == Undones(sc, todo, st)
           Good(d) == Fits(f[d].ps, f[d].len, T[n - d], B[n - d]) /\ f[d].pos \in 0..f[d].len
           G == {d \in 0..(n - k) : Good(d)}
<1>0. Known(sc, n, C, T, B)
  BY ChainIs
<1>1. n \in Nat /\ k \in Nat /\ k <= n /\ n - k \in Nat
  <2>1. n \in Nat
    BY <1>0 DEF Known
  <2> QED BY <2>1
<1>2. \A m \in 0..(n - k) : f[m] = UndoStep(sc, todo, st, f, m)
  BY <1>1, UndonesAre
<1> HIDE DEF f
<1>3. 0 \in G
  <2>1. f[0] = st /\ n - 0 = n /\ 0 \in 0..(n - k)
    BY <1>1, <1>2 DEF UndoStep
  <2> QED BY <2>1
<1>4. ASSUME NEW d \in Nat, d < n - k, d \in G PROVE d + 1 \in G
  <2> DEFINE i == n - d
             r == sc[C[i]]
             z == f[d]
  <2>1. /\ d + 1 \in 0..(n - k) /\ d + 1 \in 1..(n - k) /\ (d + 1) - 1 = d /\ d + 1 # 0
        /\ (n - (d + 1)) + 1 = i /\ n - (d + 1) = i - 1 /\ i \in 1..n /\ i \in 0..n /\ i - 1 \in Nat /\ i \in Nat
    <3>1. d \in Nat /\ d < n - k
      BY <1>4
    <3> HIDE DEF G
    <3> QED BY <3>1, <1>1
  <2>2. Fits(z.ps, z.len, T[i], B[i]) /\ z.pos \in 0..z.len
    BY <1>4
  <2>3. f[d + 1] = UndoRecord(z, r)
    <3>1. todo[d + 1] = C[i]
      BY <2>1
    <3> QED BY <3>1, <2>1, <1>2 DEF UndoStep
  <2> HIDE DEF i, z, r
  <2>4. Edit(r, C[i], T[i - 1], T[i], B[i - 1], B[i]) /\ C[i] \in Source /\ T[i - 1] \in Seq(Char) /\ B[i - 1] \subseteq Nat
    BY <2>1, <1>0 DEF Known, r
  <2> DEFINE u == UndoRecord(z, r)
  <2>5. Fits(u.ps, u.len, T[i - 1], B[i - 1]) /\ u.pos \in 0..u.len
    BY <2>2, <2>4, RecordUndone
  <2> HIDE DEF u
  <2> QED BY <2>1, <2>3, <2>5 DEF u
<1> HIDE DEF G
<1>5. n - k \in G
  <2>1. n - k \in 0..(n - k)
    BY <1>1
  <2> QED BY <2>1, <1>1, <1>3, <1>4, Induct
<1>6. n - (n - k) = k
  BY <1>1
<1> QED BY <1>5, <1>6 DEF G, f
-----------------------------------------------------------------------------
(* The table cut at both ends of a region.                                 *)

CutFrom(ps, found, first, last) ==
  LET delta == first - ps[found].pos
      begun == IF delta = 0 THEN ps ELSE Split(ps, found, delta)
      from  == IF delta = 0 THEN found ELSE found + 1
      upto  == IF last > End(begun[from]) THEN Bounding(begun, last - 1) ELSE from
      done  == IF last < End(begun[upto]) THEN Split(begun, upto, last - begun[upto].pos) ELSE begun
  IN [ps |-> done, from |-> from, upto |-> upto]

CutsAs(ps, first, last, b, c, p, m, q) ==
  /\ Parts(c.ps, first, last, b, p, m, q)
  /\ c.from = Len(p) + 1 /\ c.upto = Len(p) + Len(m) /\ m # <<>>
  /\ \A text : Shows(ps, text) => Shows(c.ps, text)
  /\ \A x : Meets(ps, 0, x) => Meets(c.ps, 0, x)

(* The end of the region: an already opened table is opened there too.     *)
LEMMA CutEnd ==
  ASSUME NEW begun, NEW b, Lies(begun, 0, b), NEW last \in 1..b, NEW upto, Holds(begun, upto, last - 1)
  PROVE  LET done == IF last < End(begun[upto]) THEN Split(begun, upto, last - begun[upto].pos) ELSE begun IN
         \E p, q \in Seq(Bits) : SplitAs(begun, 0, b, upto, last, done, p, q)
<1> DEFINE x == begun[upto]
           u == x.pos
           l == x.len
           done == IF last < End(x) THEN Split(begun, upto, last - u) ELSE begun
<1>1. /\ upto \in 1..Len(begun) /\ (last - 1) - u \in 0..l /\ u \in Nat /\ l \in Nat \ {0} /\ End(x) = u + l
      /\ (last - 1 < b <=> last - 1 < End(x))
  <2>1. last - 1 \in 0..b
    BY CutIs
  <2> QED BY <2>1, HoldsIn
<1>2. b \in Nat /\ Len(begun) \in Nat /\ last \in Nat /\ last <= b /\ last > 0
  BY CutIs
<1>3. last <= u + l /\ u < last
  <2>1. last - 1 < b
    BY <1>2
  <2> HIDE DEF u, l
  <2> QED BY <2>1, <1>1, <1>2
<1>4. CASE last < End(x)
  <2>1. last - u \in 1..(l - 1) /\ u + (last - u) = last
    <3>1. last < u + l /\ u \in Nat /\ l \in Nat
      BY <1>1, <1>4
    <3> HIDE DEF u, l
    <3> QED BY <3>1, <1>2, <1>3
  <2>2. \E p, q \in Seq(Bits) : SplitAs(begun, 0, b, upto, u + (last - u), Split(begun, upto, last - u), p, q)
    <3> DEFINE d == last - u
    <3>1. d \in 1..(begun[upto].len - 1)
      BY <2>1
    <3> HIDE DEF d
    <3>2. \E p, q \in Seq(Bits) : SplitAs(begun, 0, b, upto, begun[upto].pos + d, Split(begun, upto, d), p, q)
      BY <3>1, <1>1, SplitIs
    <3> QED BY <3>2 DEF d
  <2> HIDE DEF u, l
  <2> QED BY <2>1, <2>2, <1>4 DEF x, u
<1>5. CASE ~(last < End(x))
  <2>1. last = End(x)
    <3> HIDE DEF u, l, x
    <3> QED BY <1>1, <1>2, <1>3, <1>5
  <2>2. upto \in 0..Len(begun) /\ Cut(begun, 0, upto) = last
    BY <2>1, <1>1, CutIs DEF Cut
  <2>3. PICK p, q \in Seq(Bits) : Takes(begun, 0, b, upto, p, q)
    BY <2>2, TakenAt
  <2>4. /\ begun = p \o q /\ Len(p) = upto /\ Lies(p, 0, last) /\ Lies(q, last, b)
        /\ \A text : Shows(begun, text) => Shows(p, text) /\ Shows(q, text)
    BY <2>2, <2>3 DEF Takes
  <2>5. \A y : Meets(begun, 0, y) => Meets(p, 0, y) \/ Meets(q, last, y)
    BY <2>4, MeetsJoined
  <2>6. \A j \in 1..(upto - 1) : p[j] = begun[j]
    <3> TAKE j \in 1..(upto - 1)
    <3>1. j \in 1..Len(p)
      BY <2>4, <1>1
    <3>2. (p \o q)[j] = p[j]
      BY <3>1, FirstOf
    <3> QED BY <3>2, <2>4
  <2>7. SplitAs(begun, 0, b, upto, last, begun, p, q)
    BY <2>4, <2>5, <2>6 DEF SplitAs
  <2>8. done = begun
    BY <1>5
  <2> QED BY <2>7, <2>8
<1> QED BY <1>4, <1>5

LEMMA CutFromIs ==
  ASSUME NEW ps, NEW b, Lies(ps, 0, b), NEW first \in Nat, NEW last \in 1..b, first < last,
         NEW found, Holds(ps, found, first)
  PROVE  \E p, m, q \in Seq(Bits) : CutsAs(ps, first, last, b, CutFrom(ps, found, first, last), p, m, q)
<1> DEFINE delta == first - ps[found].pos
           begun == IF delta = 0 THEN ps ELSE Split(ps, found, delta)
           from  == IF delta = 0 THEN found ELSE found + 1
           upto  == IF last > End(begun[from]) THEN Bounding(begun, last - 1) ELSE from
           done  == IF last < End(begun[upto]) THEN Split(begun, upto, last - begun[upto].pos) ELSE begun
<1>1. b \in Nat /\ last \in Nat /\ last <= b /\ last - 1 \in Nat /\ first <= last - 1 /\ first \in 0..b /\ first # b
  BY CutIs
<1>2. PICK p, w \in Seq(Bits) : Opens(begun, ps, from, first, b, p, w)
  <2>1. /\ \E p, w \in Seq(Bits) : Opens(OpenedAt(ps, found, delta), ps, HereOf(found, delta), first, b, p, w)
        /\ found = Len(ps) /\ delta = ps[found].len <=> first = b
    BY <1>1, Opened
  <2>2. OpenedAt(ps, found, delta) = begun /\ HereOf(found, delta) = from
    <3> HIDE DEF delta
    <3> QED BY <2>1, <1>1 DEF OpenedAt, HereOf
  <2> QED BY <2>1, <2>2
<1>3. /\ begun = p \o w /\ Len(p) = from - 1 /\ Lies(p, 0, first) /\ Lies(w, first, b)
      /\ \A text : Shows(ps, text) => Shows(p, text) /\ Shows(w, text)
      /\ \A x : Meets(ps, 0, x) => Meets(p, 0, x) \/ Meets(w, first, x)
  BY <1>2 DEF Opens
<1>4. from \in Nat \ {0} /\ from = Len(p) + 1 /\ Len(p) \in Nat
  <2>1. found \in 1..Len(ps)
    BY DEF Holds
  <2>2. from \in Int /\ Len(p) \in Nat
    BY <2>1, LenProperties
  <2> HIDE DEF from
  <2> QED BY <2>2, <1>3
<1> HIDE DEF begun, from, delta
<1>5. Lies(begun, 0, b) /\ Len(begun) = Len(p) + Len(w)
  BY <1>3, JoinedLies
<1>6. w # <<>> /\ Len(w) \in Nat /\ Len(w) # 0
  <2>1. w # <<>>
    BY <1>1, <1>3, Ordered
  <2> QED BY <2>1, LenProperties, EmptySeq
<1>7. Cut(begun, 0, from - 1) = first /\ from \in 1..Len(begun) /\ Len(begun) \in Nat
  <2>1. from - 1 = Len(p) /\ Len(p) \in 0..Len(p)
    BY <1>4
  <2>2. /\ Lies(p \o w, 0, b) /\ Len(p \o w) = Len(p) + Len(w)
        /\ \A k \in 0..Len(p) : Cut(p \o w, 0, k) = Cut(p, 0, k)
        /\ \A k \in 0..Len(w) : Cut(p \o w, 0, Len(p) + k) = Cut(w, first, k)
        /\ \A text : Shows(p, text) /\ Shows(w, text) => Shows(p \o w, text)
    BY <1>3, Joined
  <2>3. Cut(p, 0, Len(p)) = first
    BY <1>3 DEF Lies
  <2> QED BY <2>1, <2>2, <2>3, <1>3, <1>4, <1>5, <1>6
<1>8. /\ begun[from].pos = first
      /\ \A j \in 1..Len(begun) : begun[j].pos \in Nat /\ begun[j].len \in Nat \ {0} /\ End(begun[j]) = Cut(begun, 0, j)
      /\ \A j \in 1..Len(begun) : begun[j].pos = Cut(begun, 0, j - 1)
      /\ \A j \in 0..Len(begun) : Cut(begun, 0, j) \in Nat
  <2>1. /\ \A j \in 1..Len(begun) : begun[j].pos \in Nat /\ begun[j].len \in Nat \ {0} /\ End(begun[j]) = Cut(begun, 0, j)
        /\ \A j \in 1..Len(begun) : begun[j].pos = Cut(begun, 0, j - 1)
        /\ \A j \in 0..Len(begun) : Cut(begun, 0, j) \in Nat
    BY <1>5, CutIs
  <2> QED BY <2>1, <1>7
<1>9. Holds(begun, upto, last - 1) /\ from <= upto
  <2>1. CASE last > End(begun[from])
    <3>1. Holds(begun, Bounding(begun, last - 1), last - 1)
      <4>1. begun # <<>> /\ 0 <= last - 1
        BY <1>1, <1>4, <1>7
      <4> QED BY <4>1, <1>1, <1>5, BoundingIn
    <3> DEFINE z == Bounding(begun, last - 1)
    <3>2. z \in 1..Len(begun) /\ begun[z].pos <= last - 1 /\ (last - 1 < End(begun[z]) \/ z = Len(begun))
      BY <3>1 DEF Holds
    <3> HIDE DEF z
    <3>3. from <= z
      <4>1. CASE z < from
        <5>1. z \in 0..Len(begun) /\ from - 1 \in 0..Len(begun)
          BY <3>2, <1>7
        <5>2. z = from - 1 \/ z < from - 1
          BY <4>1, <3>2, <1>4
        <5>3. z < from - 1 => Cut(begun, 0, z) < Cut(begun, 0, from - 1)
          BY <5>1, <1>5, Ordered
        <5>4. End(begun[z]) <= first
          BY SMTT(30), ZenonT(30), <5>1, <5>2, <5>3, <3>2, <1>7, <1>8
        <5>5. z = Len(begun)
          BY <5>4, <3>2, <1>1, <1>8, <5>1
        <5> QED BY <5>5, <4>1, <1>7
      <4> QED BY <4>1, <3>2, <1>4
    <3> QED BY <3>1, <3>3, <2>1 DEF z
  <2>2. CASE ~(last > End(begun[from]))
    <3>1. last - 1 < End(begun[from]) /\ begun[from].pos <= last - 1
      <4>1. End(begun[from]) \in Nat
        <5>1. from \in 0..Len(begun)
          BY <1>7
        <5> QED BY <5>1, <1>7, <1>8
      <4> QED BY <4>1, <2>2, <1>1, <1>8
    <3> QED BY <3>1, <2>2, <1>4, <1>7 DEF Holds
  <2> QED BY <2>1, <2>2
<1> HIDE DEF upto
<1>10. upto \in 1..Len(begun)
  BY <1>9 DEF Holds
<1>11. PICK p2, q \in Seq(Bits) : SplitAs(begun, 0, b, upto, last, done, p2, q)
  BY <1>5, <1>9, CutEnd
<1> HIDE DEF done
<1>12. /\ done = p2 \o q /\ Len(p2) = upto /\ Lies(p2, 0, last) /\ Lies(q, last, b)
       /\ \A text : Shows(begun, text) => Shows(p2, text) /\ Shows(q, text)
       /\ \A x : Meets(begun, 0, x) => Meets(p2, 0, x) \/ Meets(q, last, x)
       /\ \A j \in 1..(upto - 1) : p2[j] = begun[j]
  BY <1>11 DEF SplitAs
<1>13. from - 1 \in 0..Len(p2) /\ Cut(p2, 0, from - 1) = first
  <2>1. from - 1 \in 0..Len(p2)
    BY <1>4, <1>9, <1>10, <1>12
  <2>2. from - 1 # 0 => from - 1 \in 1..(upto - 1)
    BY <1>4, <1>9, <1>10
  <2>3. Cut(p2, 0, from - 1) = Cut(begun, 0, from - 1)
    BY <2>2, <1>12 DEF Cut
  <2> QED BY <2>1, <2>3, <1>7
<1>14. PICK p3, m \in Seq(Bits) : Takes(p2, 0, last, from - 1, p3, m)
  BY <1>12, <1>13, TakenAt
<1>15. /\ p2 = p3 \o m /\ Len(p3) = from - 1 /\ Len(m) = upto - (from - 1)
       /\ Lies(p3, 0, first) /\ Lies(m, first, last)
       /\ \A text : Shows(p2, text) => Shows(p3, text) /\ Shows(m, text)
  BY <1>12, <1>13, <1>14 DEF Takes
<1>16. \A x : Meets(p2, 0, x) => Meets(p3, 0, x) \/ Meets(m, first, x)
  BY <1>15, MeetsJoined
<1>17. /\ \A x : Meets(done, 0, x) => Meets(p3, 0, x) \/ Meets(m, first, x) \/ Meets(q, last, x)
       /\ \A x : Meets(ps, 0, x) => Meets(done, 0, x)
  <2>1. \A x : Meets(done, 0, x) <=> Meets(p2, 0, x) \/ Meets(q, last, x)
    BY <1>12, MeetsJoined
  <2>2. \A x : Meets(begun, 0, x) <=> Meets(p, 0, x) \/ Meets(w, first, x)
    BY <1>3, MeetsJoined
  <2> QED BY <2>1, <2>2, <1>3, <1>12, <1>16
<1>18. /\ \A text : Shows(done, text) => Shows(p3, text) /\ Shows(m, text) /\ Shows(q, text)
       /\ \A text : Shows(ps, text) => Shows(done, text)
  <2>1. ASSUME NEW text, Shows(ps, text) PROVE Shows(done, text)
    <3>1. Shows(begun, text)
      BY <2>1, <1>3, JoinedShows
    <3>2. Shows(p2, text) /\ Shows(q, text)
      BY <3>1, <1>12
    <3> QED BY <3>2, <1>12, JoinedShows
  <2>2. ASSUME NEW text, Shows(done, text) PROVE Shows(p3, text) /\ Shows(m, text) /\ Shows(q, text)
    <3>1. Lies(done, 0, b) /\ Len(done) = Len(p2) + Len(q)
      BY <1>12, JoinedLies
    <3>2. ASSUME NEW j \in 1..Len(p2) PROVE done[j] = p2[j] /\ j \in 1..Len(done)
      BY <1>12, FirstOf
    <3>3. ASSUME NEW j \in 1..Len(q) PROVE done[Len(p2) + j] = q[j] /\ Len(p2) + j \in 1..Len(done)
      BY SMTT(30), ZenonT(30), <1>12, SecondOf
    <3>4. Shows(p2, text)
      <4>1. ASSUME NEW j \in 1..Len(p2), NEW k \in 1..p2[j].len
            PROVE  text[p2[j].pos + k] = <<p2[j].src, p2[j].off + k>>
        BY <3>2, <2>2 DEF Shows
      <4> QED BY <4>1 DEF Shows
    <3>5. Shows(q, text)
      <4>1. ASSUME NEW j \in 1..Len(q), NEW k \in 1..q[j].len
            PROVE  text[q[j].pos + k] = <<q[j].src, q[j].off + k>>
        <5>1. PICK i : i = Len(p2) + j
          OBVIOUS
        <5>2. i \in 1..Len(done) /\ done[i] = q[j]
          BY <5>1, <3>3
        <5>3. \A h \in 1..done[i].len : text[done[i].pos + h] = <<done[i].src, done[i].off + h>>
          BY <5>2, <2>2 DEF Shows
        <5> QED BY <5>2, <5>3
      <4> QED BY <4>1 DEF Shows
    <3> QED BY <3>4, <3>5, <1>15
  <2> QED BY <2>1, <2>2
<1>19. done = (p3 \o m) \o q
  BY <1>12, <1>15
<1>20. upto = Len(p3) + Len(m) /\ from = Len(p3) + 1 /\ m # <<>>
  <2>1. upto = Len(p3) + Len(m) /\ from = Len(p3) + 1
    BY <1>4, <1>10, <1>15
  <2>2. first # last
    BY <1>1
  <2>3. m # <<>>
    BY <2>2, <1>15, Ordered
  <2> QED BY <2>1, <2>3
<1> DEFINE c == CutFrom(ps, found, first, last)
<1>21. c.ps = done /\ c.from = from /\ c.upto = upto
  BY DEF CutFrom, done, begun, from, upto, delta
<1>22. Parts(done, first, last, b, p3, m, q)
  BY <1>12, <1>15, <1>17, <1>18, <1>19 DEF Parts
<1> HIDE DEF c
<1>23. CutsAs(ps, first, last, b, c, p3, m, q)
  BY <1>17, <1>18, <1>20, <1>21, <1>22 DEF CutsAs
<1> QED BY <1>23 DEF c
-----------------------------------------------------------------------------
(* A region of the text replaced.                                          *)

(* A table that is the new text, and what became of the places of the old. *)
Landed(tab, old, new, s, e, k, m, places) ==
  LET d == k - (e - s) IN
  /\ Lies(tab, 0, Len(old) + d) /\ Shows(tab, new) /\ new \in Seq(Char) /\ Len(new) = Len(old) + d
  /\ Meets(tab, 0, s) /\ Meets(tab, 0, s + k)
  /\ \A x \in places : /\ x <= s => Meets(tab, 0, x)
                       /\ s < x /\ x < e => Meets(m, s, x)
                       /\ x >= e => Meets(tab, 0, x + d)

(* What was where in a table of three parts.                               *)
LEMMA PlacesOf ==
  ASSUME NEW ps, NEW s, NEW e, NEW b, NEW p, NEW m, NEW q, Parts(ps, s, e, b, p, m, q), NEW x, Meets(ps, 0, x)
  PROVE  /\ x \in Nat
         /\ x <= s => Meets(p, 0, x)
         /\ s < x /\ x < e => Meets(m, s, x)
         /\ x >= e => Meets(q, e, x)
<1>1. /\ Lies(p, 0, s) /\ Lies(m, s, e) /\ Lies(q, e, b)
      /\ Meets(p, 0, x) \/ Meets(m, s, x) \/ Meets(q, e, x)
  BY DEF Parts
<1>2. s \in Nat /\ e \in Nat
  BY <1>1, CutIs
<1>3. /\ Meets(p, 0, x) => x \in Nat /\ x <= s
      /\ Meets(p, 0, s)
  BY <1>1, MeetsIn
<1>4. /\ Meets(m, s, x) => x \in Nat /\ s <= x /\ x <= e
      /\ s <= e
  BY <1>1, MeetsIn
<1>5. /\ Meets(q, e, x) => x \in Nat /\ e <= x
      /\ Meets(q, e, e)
  BY <1>1, MeetsIn
<1>6. x \in Nat
  BY <1>1, <1>3, <1>4, <1>5
<1>7. ASSUME x <= s PROVE Meets(p, 0, x)
  <2>1. ~Meets(p, 0, x) => x = s
    BY <1>1, <1>2, <1>4, <1>5, <1>6, <1>7
  <2> QED BY <2>1, <1>3
<1>8. ASSUME s < x, x < e PROVE Meets(m, s, x)
  <2>1. ~Meets(p, 0, x)
    BY <1>2, <1>3, <1>8, <1>6
  <2>2. ~Meets(q, e, x)
    BY <1>2, <1>5, <1>8, <1>6
  <2> QED BY <2>1, <2>2, <1>1
<1>9. ASSUME x >= e PROVE Meets(q, e, x)
  <2>1. ~Meets(q, e, x) => x = e
    BY <1>1, <1>2, <1>3, <1>4, <1>6, <1>9
  <2> QED BY <2>1, <1>5
<1> QED BY <1>6, <1>7, <1>8, <1>9

LEMMA Edited ==
  ASSUME NEW ps, NEW p, NEW m, NEW q, NEW s \in Nat, NEW e \in Nat, NEW ins \in Seq(Char), s <= e,
         NEW old \in Seq(Char), NEW places, Fits(ps, Len(old), old, places),
         Parts(ps, s, e, Len(old), p, m, q), NEW k, k = Len(ins), NEW d, d = k - (e - s),
         NEW mid, Lies(mid, s, s + k), Shows(mid, Replaced(old, s, e, ins))
  PROVE  Landed((p \o mid) \o Moved(q, 1, d), old, Replaced(old, s, e, ins), s, e, k, m, places)
<1> DEFINE new == Replaced(old, s, e, ins)
           L == Len(old)
           tab == (p \o mid) \o Moved(q, 1, d)
<1>1. /\ Lies(p, 0, s) /\ Lies(m, s, e) /\ Lies(q, e, L) /\ Shows(p, old) /\ Shows(q, old)
      /\ \A x \in places : Meets(ps, 0, x)
  BY DEF Fits, Parts
<1>2. L \in Nat /\ e <= L /\ e \in s..L
  <2>1. Meets(q, e, e) /\ \A x : Meets(q, e, x) => x <= L
    BY <1>1, MeetsIn
  <2>2. L \in Nat
    BY LenProperties
  <2> QED BY <2>1, <2>2
<1>3. /\ new \in Seq(Char) /\ Len(new) = L + d /\ k \in Nat /\ d \in Int
      /\ \A x \in 1..s : new[x] = old[x]
      /\ \A x \in (e + 1)..L : new[x + d] = old[x]
  BY ZenonT(60), <1>2, ReplacedIs
<1> HIDE DEF new, L
<1>4. SplicedAs(p, mid, q, s, k, e, L, d, tab)
  BY <1>1, <1>3, Spliced
<1> HIDE DEF tab
<1>5. /\ Lies(tab, 0, L + d)
      /\ \A x : Meets(p, 0, x) => Meets(tab, 0, x)
      /\ \A x : Meets(q, e, x) => Meets(tab, 0, x + d)
  BY <1>4 DEF SplicedAs
<1>6. Shows(tab, new)
  <2>1. \A x \in Nat : e < x /\ x <= L => new[x + d] = old[x]
    <3>1. \A x \in Nat : e < x /\ x <= L => x \in (e + 1)..L
      BY <1>2
    <3> QED BY <3>1, <1>3
  <2>2. Shows(mid, new)
    BY DEF new
  <2> QED BY SMTT(30), <2>1, <2>2, <1>1, <1>3, <1>4 DEF SplicedAs
<1>7. Meets(p, 0, s) /\ Meets(q, e, e)
  BY <1>1, MeetsIn
<1>8. Meets(tab, 0, s) /\ Meets(tab, 0, s + k)
  <2>1. e + d = s + k
    BY <1>3
  <2> QED BY <2>1, <1>5, <1>7
<1>9. ASSUME NEW x \in places
      PROVE  /\ x <= s => Meets(tab, 0, x)
             /\ s < x /\ x < e => Meets(m, s, x)
             /\ x >= e => Meets(tab, 0, x + d)
  <2>1. Meets(ps, 0, x) /\ Parts(ps, s, e, L, p, m, q)
    BY <1>1 DEF L
  <2>2. /\ x <= s => Meets(p, 0, x)
        /\ s < x /\ x < e => Meets(m, s, x)
        /\ x >= e => Meets(q, e, x)
    BY <2>1, PlacesOf
  <2> QED BY <2>2, <1>5
<1>10. /\ Lies(tab, 0, L + (k - (e - s))) /\ Shows(tab, new) /\ new \in Seq(Char) /\ Len(new) = L + (k - (e - s))
       /\ \A x \in places : /\ x <= s => Meets(tab, 0, x)
                            /\ s < x /\ x < e => Meets(m, s, x)
                            /\ x >= e => Meets(tab, 0, x + (k - (e - s)))
  BY <1>3, <1>5, <1>6, <1>9
<1> QED BY <1>8, <1>10 DEF Landed, L, new, tab

(* The piece that shows what a record inserted.                            *)
LEMMA NewPiece ==
  ASSUME NEW c \in Source, NEW k \in 1..MaxLength, NEW s \in Nat, NEW new,
         \A x \in 1..k : new[s + x] = <<c, x>>
  PROVE  LET y == [pos |-> s, len |-> k, src |-> c, off |-> 0] IN
         y \in Bits /\ Lies(<<y>>, s, s + k) /\ Shows(<<y>>, new) /\ <<y>> \in Seq(Bits)
<1> DEFINE y == [pos |-> s, len |-> k, src |-> c, off |-> 0]
<1>1. y.pos = s /\ y.len = k /\ y.src = c /\ y.off = 0 /\ MaxLength \in Nat /\ k \in Nat /\ k > 0 /\ 0 + k <= MaxLength
  BY PieceAssumption
<1>2. y \in [pos : Nat, len : Nat, src : Source, off : Nat]
  BY <1>1
<1>3. y \in Bits /\ End(y) = s + k
  <2> HIDE DEF y
  <2> QED BY <1>1, <1>2 DEF Bits, End
<1>4. \A x \in 1..k : new[s + x] = <<c, 0 + x>>
  OBVIOUS
<1> HIDE DEF y
<1>5. /\ Lies(<<y>>, y.pos, End(y)) /\ <<y>> \in Seq(Bits)
      /\ \A text : Shows(<<y>>, text) <=> \A x \in 1..y.len : text[y.pos + x] = <<y.src, y.off + x>>
  BY <1>1, <1>3, OnePiece
<1>6. Shows(<<y>>, new)
  BY <1>1, <1>4, <1>5
<1> QED BY <1>1, <1>3, <1>5, <1>6 DEF y

(* A table within the bounds is one of pieces.                             *)
LEMMA LiesArePieces ==
  ASSUME NEW ps, NEW a, NEW b, Lies(ps, a, b), b <= MaxLength
  PROVE  ps \in Seq(Piece)
<1>1. /\ Len(ps) \in Nat /\ ps \in Seq(Bits) /\ a \in Nat /\ b \in Nat
      /\ \A i \in 1..Len(ps) : ps[i] \in Bits /\ ps[i].pos = Cut(ps, a, i - 1)
      /\ \A i \in 0..Len(ps) : Cut(ps, a, i) \in Nat
  BY CutIs
<1>2. \A i \in 0..Len(ps) : Cut(ps, a, i) <= b
  BY Ordered
<1>3. ASSUME NEW i \in 1..Len(ps) PROVE ps[i] \in Piece
  <2>1. i - 1 \in 0..Len(ps)
    BY <1>1
  <2>2. ps[i].pos \in Nat /\ ps[i].pos <= b
    BY <2>1, <1>1, <1>2
  <2>3. MaxLength \in Nat
    BY PieceAssumption
  <2>4. ps[i].pos \in 0..MaxLength
    BY <2>2, <2>3, <1>1
  <2>5. /\ ps[i] \in [pos : Nat, len : Nat, src : Source, off : Nat] /\ ps[i].off + ps[i].len <= MaxLength
    BY <1>1 DEF Bits
  <2> DEFINE x == ps[i]
  <2>6. x.len \in 0..MaxLength /\ x.off \in 0..MaxLength
    <3>1. x.len \in Nat /\ x.off \in Nat /\ x.off + x.len <= MaxLength
      BY <2>5
    <3> HIDE DEF x
    <3> QED BY <3>1, <2>3
  <2>7. x = [pos |-> x.pos, len |-> x.len, src |-> x.src, off |-> x.off] /\ x.src \in Source
    BY <2>5
  <2> QED BY <2>4, <2>6, <2>7 DEF Piece
<1>4. \A i \in DOMAIN ps : ps[i] \in Piece
  <2>1. DOMAIN ps = 1..Len(ps)
    BY <1>1
  <2> QED BY <2>1, <1>3
<1>5. \A S : \A x \in Seq(Bits) : (\A i \in DOMAIN x : x[i] \in S) => x \in Seq(S)
  <2> TAKE S
  <2> TAKE x \in Seq(Bits)
  <2> HAVE \A i \in DOMAIN x : x[i] \in S
  <2>1. Len(x) \in Nat /\ x = [i \in 1..Len(x) |-> x[i]] /\ DOMAIN x = 1..Len(x)
    BY LenProperties
  <2> QED BY <2>1
<1> QED BY <1>1, <1>4, <1>5
-----------------------------------------------------------------------------
(* The state of the stream as a whole.                                     *)

(* A number of records of the scratch stream from which an undo takes back *)
(* all but the first k of the n in force.                                  *)
Leaves(n, C, at, k) == k \in 0..n /\ C[k] <= at /\ (k < n => at < C[k + 1])

(* Every mark, newest first, stands for a text of the chain.               *)
Marks(sc, n, C, T, u) ==
  /\ u \in Seq([at : -1..Len(sc), text : Seq(Char)]) /\ Len(u) = UndoCount
  /\ \A i, j \in 1..Len(u) : i <= j => u[j].at <= u[i].at
  /\ \A i \in 1..Len(u) : IsMark(u[i]) => \E k \in 0..n : Leaves(n, C, u[i].at, k) /\ T[k] = u[i].text

(* What is typed on is the last record, and newer than every mark.         *)
Open(sc, n, C, u, upto) ==
  upto >= 0 => /\ n > 0 /\ C[n] = Len(sc) /\ ~IsOfPieces(sc[C[n]])
               /\ upto = sc[C[n]].start + sc[C[n]].count
               /\ \A i \in 1..Len(u) : u[i].at < Len(sc)

WholeBy(sc, rec, first, u, upto, ps, len, n, C, T, B) ==
  /\ Chain(sc, n, C, T, B) /\ Fits(ps, len, T[n], B[n])
  /\ rec = C[n] /\ first = IF n = 0 THEN 0 ELSE C[1]
  /\ Open(sc, n, C, u, upto) /\ Marks(sc, n, C, T, u)

Whole(sc, rec, first, u, upto, ps, len) ==
  \E n, C, T, B : WholeBy(sc, rec, first, u, upto, ps, len, n, C, T, B)

PlacesIn(ps) == {x \in Nat : Meets(ps, 0, x)}

(* A record appended to the scratch stream.                                *)
LEMMA Logged ==
  ASSUME NEW sc, Stack(sc), Len(sc) < MaxWrites,
         NEW rec, NEW first, NEW u, NEW upto, NEW ps, NEW len, NEW n, NEW C, NEW T, NEW B,
         WholeBy(sc, rec, first, u, upto, ps, len, n, C, T, B),
         NEW r \in Record, r.prev = rec, NEW new, NEW ps2, NEW len2, len2 <= MaxLength,
         Fits(ps2, len2, new, {}), Edit(r, Len(sc) + 1, T[n], new, B[n], PlacesIn(ps2)),
         NEW upto2, upto2 = -1 \/ (upto2 = r.start + r.count /\ ~IsOfPieces(r))
  PROVE  /\ Stack(Append(sc, r))
         /\ Whole(Append(sc, r), Len(sc) + 1, IF first = 0 THEN Len(sc) + 1 ELSE first, u, upto2, ps2, len2)
<1> DEFINE sc2 == Append(sc, r)
           N == n + 1
           c == Len(sc) + 1
           C2 == [C EXCEPT ![N] = c]
           T2 == [T EXCEPT ![N] = new]
           P2 == PlacesIn(ps2)
           B2 == [B EXCEPT ![N] = P2]
<1>1. /\ Chain(sc, n, C, T, B) /\ Fits(ps, len, T[n], B[n])
      /\ rec = C[n] /\ first = IF n = 0 THEN 0 ELSE C[1]
      /\ Open(sc, n, C, u, upto) /\ Marks(sc, n, C, T, u)
  BY DEF WholeBy
<1>2. Known(sc, n, C, T, B)
  BY <1>1, ChainIs
<1>3. /\ n \in Nat /\ Len(sc) \in Nat /\ C[0] = 0 /\ T[0] = Original
      /\ \A i \in Nat : C[i] \in Nat /\ T[i] \in Seq(Char) /\ Len(T[i]) \in Nat /\ B[i] \subseteq Nat
      /\ \A i \in 0..n : C[i] \in 0..Len(sc) /\ C[i] \in Source
      /\ \A i \in 1..n : C[i] \in 1..Len(sc) /\ sc[C[i]].prev = C[i - 1] /\ C[i - 1] < C[i]
      /\ \A i \in 1..n : Edit(sc[C[i]], C[i], T[i - 1], T[i], B[i - 1], B[i])
  BY <1>2 DEF Known
<1>4. /\ C \in [Nat -> Nat] /\ T \in [Nat -> Seq(Char)] /\ B \in [Nat -> SUBSET Nat]
      /\ \A i \in 0..n : Len(T[i]) <= MaxLength
  BY <1>1 DEF Chain, Links
<1>5. /\ sc \in Seq(Record) /\ sc2 \in Seq(Record) /\ Len(sc2) = c
      /\ \A i \in 1..Len(sc) : sc2[i] = sc[i]
      /\ sc2[c] = r
  BY AppendProperties DEF Stack
<1>6. N \in Nat /\ N # 0 /\ c \in Nat /\ N - 1 = n /\ \A i \in 0..n : i # N /\ i \in Nat
  BY <1>3
<1>7. new \in Seq(Char) /\ Len(new) = len2 /\ P2 \in SUBSET Nat
  BY DEF Fits, PlacesIn
<1> HIDE DEF sc2, N, c, P2
<1>8. /\ C2 \in [Nat -> Nat] /\ C2[N] = c /\ \A i \in Nat : i # N => C2[i] = C[i]
      /\ T2 \in [Nat -> Seq(Char)] /\ T2[N] = new /\ \A i \in Nat : i # N => T2[i] = T[i]
      /\ B2 \in [Nat -> SUBSET Nat] /\ B2[N] = P2 /\ \A i \in Nat : i # N => B2[i] = B[i]
  BY <1>4, <1>6, <1>7
<1> HIDE DEF C2, T2, B2
<1>9. \A i \in 0..n : C2[i] = C[i] /\ T2[i] = T[i] /\ B2[i] = B[i]
  BY <1>6, <1>8
<1>10. C2[0] = 0 /\ T2[0] = Original
  <2>1. 0 \in 0..n
    BY <1>3
  <2> QED BY <2>1, <1>3, <1>9
<1>11. ASSUME NEW i \in 1..N
       PROVE  /\ C2[i - 1] < C2[i] /\ C2[i] <= Len(sc2) /\ sc2[C2[i]].prev = C2[i - 1]
              /\ Edit(sc2[C2[i]], C2[i], T2[i - 1], T2[i], B2[i - 1], B2[i])
  <2>1. CASE i = N
    <3>1. n \in 0..n
      BY <1>3
    <3>2. C2[i - 1] = C[n] /\ T2[i - 1] = T[n] /\ B2[i - 1] = B[n]
      BY <3>1, <2>1, <1>6, <1>9
    <3>3. C2[i] = c /\ T2[i] = new /\ B2[i] = P2 /\ sc2[C2[i]] = r
      BY <2>1, <1>5, <1>8
    <3>4. C[n] < c /\ c <= Len(sc2)
      <4>1. C[n] \in 0..Len(sc)
        BY <3>1, <1>3
      <4> QED BY <4>1, <1>3, <1>5 DEF c
    <3>5. Edit(r, c, T[n], new, B[n], P2)
      BY DEF c, P2
    <3> QED BY <3>2, <3>3, <3>4, <3>5, <1>1
  <2>2. CASE i # N
    <3>1. i \in 1..n /\ i \in 0..n /\ i - 1 \in 0..n
      BY <2>2, <1>3 DEF N
    <3>2. C2[i - 1] = C[i - 1] /\ T2[i - 1] = T[i - 1] /\ B2[i - 1] = B[i - 1]
      BY <3>1, <1>9
    <3>3. C2[i] = C[i] /\ T2[i] = T[i] /\ B2[i] = B[i]
      BY <3>1, <1>9
    <3>4. C[i] \in 1..Len(sc) /\ sc[C[i]].prev = C[i - 1] /\ C[i - 1] < C[i]
      BY <3>1, <1>3
    <3>5. sc2[C[i]] = sc[C[i]]
      BY <3>4, <1>5
    <3>6. Edit(sc[C[i]], C[i], T[i - 1], T[i], B[i - 1], B[i])
      BY <3>1, <1>3
    <3>7. C[i] <= Len(sc2)
      BY <3>4, <1>3, <1>5 DEF c
    <3> QED BY <3>2, <3>3, <3>4, <3>5, <3>6, <3>7
  <2> QED BY <2>1, <2>2
<1>12. \A i \in 0..N : Len(T2[i]) <= MaxLength
  <2> TAKE i \in 0..N
  <2>1. CASE i = N
    BY <2>1, <1>7, <1>8
  <2>2. CASE i # N
    <3>1. i \in 0..n
      BY <2>2, <1>3 DEF N
    <3> QED BY <3>1, <1>4, <1>9
  <2> QED BY <2>1, <2>2
<1>13. Chain(sc2, N, C2, T2, B2)
  BY <1>6, <1>8, <1>10, <1>11, <1>12 DEF Chain, Links
<1>14. Fits(ps2, len2, T2[N], B2[N])
  <2>1. \A x \in P2 : Meets(ps2, 0, x)
    BY DEF P2, PlacesIn
  <2> QED BY <2>1, <1>8 DEF Fits
<1>15. Len(sc) + 1 = C2[N] /\ (IF first = 0 THEN Len(sc) + 1 ELSE first) = IF N = 0 THEN 0 ELSE C2[1]
  <2>1. CASE n = 0
    <3>1. first = 0 /\ N = 1
      BY <2>1, <1>1 DEF N
    <3> QED BY <3>1, <1>8 DEF c
  <2>2. CASE n # 0
    <3>1. 1 \in 1..n /\ 1 \in 0..n
      BY <2>2, <1>3
    <3>2. C[1] \in 1..Len(sc) /\ C2[1] = C[1]
      BY <3>1, <1>3, <1>9
    <3>3. C[1] # 0 /\ first = C[1]
      BY <3>2, <2>2, <1>1, <1>3
    <3> QED BY <3>2, <3>3, <1>6, <1>8 DEF c
  <2> QED BY <2>1, <2>2
<1>16. /\ u \in Seq([at : -1..Len(sc), text : Seq(Char)]) /\ Len(u) = UndoCount
       /\ \A i, j \in 1..Len(u) : i <= j => u[j].at <= u[i].at
       /\ \A i \in 1..Len(u) : IsMark(u[i]) => \E k \in 0..n : Leaves(n, C, u[i].at, k) /\ T[k] = u[i].text
  BY <1>1 DEF Marks
<1>17. ASSUME NEW i \in 1..Len(u) PROVE u[i].at \in -1..Len(sc)
  <2>1. u[i] \in [at : -1..Len(sc), text : Seq(Char)]
    BY <1>16, ElementOfSeq
  <2> QED BY <2>1
<1>18. u \in Seq([at : -1..Len(sc2), text : Seq(Char)])
  <2>1. -1..Len(sc) \subseteq -1..Len(sc2)
    BY <1>3, <1>5 DEF c
  <2>2. [at : -1..Len(sc), text : Seq(Char)] \subseteq [at : -1..Len(sc2), text : Seq(Char)]
    BY <2>1
  <2>3. \A X, Y : X \subseteq Y => Seq(X) \subseteq Seq(Y)
    OBVIOUS
  <2> HIDE DEF sc2
  <2> QED BY <2>2, <2>3, <1>16
<1>19. ASSUME NEW i \in 1..Len(u), IsMark(u[i])
       PROVE  \E k \in 0..N : Leaves(N, C2, u[i].at, k) /\ T2[k] = u[i].text
  <2>1. PICK k \in 0..n : Leaves(n, C, u[i].at, k) /\ T[k] = u[i].text
    BY <1>16, <1>19
  <2>2. C[k] <= u[i].at /\ (k < n => u[i].at < C[k + 1])
    BY <2>1 DEF Leaves
  <2>3. k \in 0..N /\ C2[k] = C[k] /\ T2[k] = T[k]
    BY <1>3, <1>9 DEF N
  <2>4. u[i].at < C2[k + 1]
    <3>1. CASE k < n
      <4>1. k + 1 \in 0..n
        BY <3>1, <1>3
      <4> QED BY <4>1, <3>1, <2>2, <1>9
    <3>2. CASE k = n
      <4>1. C2[k + 1] = c
        BY <3>2, <1>8 DEF N
      <4> QED BY <4>1, <1>3, <1>17 DEF c
    <3> QED BY <3>1, <3>2, <1>3
  <2>5. Leaves(N, C2, u[i].at, k)
    BY <2>2, <2>3, <2>4 DEF Leaves
  <2> QED BY <2>1, <2>3, <2>5
<1>20. Marks(sc2, N, C2, T2, u)
  BY <1>16, <1>18, <1>19 DEF Marks
<1>21. Open(sc2, N, C2, u, upto2)
  <2>1. ASSUME upto2 >= 0 PROVE upto2 = r.start + r.count /\ ~IsOfPieces(r)
    BY <2>1
  <2>2. C2[N] = Len(sc2) /\ sc2[C2[N]] = r /\ N > 0
    BY <1>5, <1>6, <1>8
  <2>3. \A i \in 1..Len(u) : u[i].at < Len(sc2)
    <3> TAKE i \in 1..Len(u)
    <3>1. u[i].at \in -1..Len(sc)
      BY <1>17
    <3> QED BY <3>1, <1>3, <1>5 DEF c
  <2> QED BY <2>1, <2>2, <2>3 DEF Open
<1>22. Stack(sc2)
  <2>1. \A i \in 1..Len(sc2) : sc2[i].prev \in Nat /\ sc2[i].prev < i
    <3> TAKE i \in 1..Len(sc2)
    <3>1. CASE i = c
      <4>1. n \in 0..n
        BY <1>3
      <4>2. C[n] \in 0..Len(sc)
        BY <4>1, <1>3
      <4> QED BY <4>2, <3>1, <1>1, <1>3, <1>5 DEF c
    <3>2. CASE i # c
      <4>1. i \in 1..Len(sc)
        BY <3>2, <1>3, <1>5 DEF c
      <4> QED BY <4>1, <1>5 DEF Stack, Backwards
    <3> QED BY <3>1, <3>2
  <2>2. Len(sc2) \in Nat /\ Len(sc2) <= MaxWrites
    BY <1>3, <1>5, PieceAssumption DEF c
  <2> QED BY <2>1, <2>2, <1>5 DEF Stack, Backwards
<1>23. WholeBy(sc2, Len(sc) + 1, IF first = 0 THEN Len(sc) + 1 ELSE first, u, upto2, ps2, len2, N, C2, T2, B2)
  BY <1>13, <1>14, <1>15, <1>20, <1>21 DEF WholeBy
<1> QED BY <1>22, <1>23 DEF Whole, sc2
(* The last record lengthened.                                             *)
LEMMA Lengthened ==
  ASSUME NEW sc, Stack(sc),
         NEW rec, NEW first, NEW u, NEW upto, NEW ps, NEW len, NEW n, NEW C, NEW T, NEW B,
         WholeBy(sc, rec, first, u, upto, ps, len, n, C, T, B), upto >= 0,
         NEW r \in Record, r.prev = sc[rec].prev, NEW new, NEW ps2, NEW len2, len2 <= MaxLength,
         Fits(ps2, len2, new, {}), Edit(r, rec, T[n - 1], new, B[n - 1], PlacesIn(ps2)),
         NEW upto2, upto2 = r.start + r.count, ~IsOfPieces(r)
  PROVE  /\ Stack([sc EXCEPT ![rec] = r])
         /\ Whole([sc EXCEPT ![rec] = r], rec, first, u, upto2, ps2, len2)
<1> DEFINE sc2 == [sc EXCEPT ![rec] = r]
           c == C[n]
           T2 == [T EXCEPT ![n] = new]
           P2 == PlacesIn(ps2)
           B2 == [B EXCEPT ![n] = P2]
<1>1. /\ Chain(sc, n, C, T, B) /\ Fits(ps, len, T[n], B[n])
      /\ rec = c /\ first = IF n = 0 THEN 0 ELSE C[1]
      /\ Open(sc, n, C, u, upto) /\ Marks(sc, n, C, T, u)
  BY DEF WholeBy
<1>2. Known(sc, n, C, T, B)
  BY <1>1, ChainIs
<1>3. /\ n \in Nat /\ Len(sc) \in Nat /\ C[0] = 0 /\ T[0] = Original
      /\ \A i \in Nat : C[i] \in Nat /\ T[i] \in Seq(Char) /\ Len(T[i]) \in Nat /\ B[i] \subseteq Nat
      /\ \A i \in 1..n : C[i] \in 1..Len(sc) /\ sc[C[i]].prev = C[i - 1] /\ C[i - 1] < C[i]
      /\ \A i, j \in 0..n : i < j => C[i] < C[j]
      /\ \A i \in 1..n : Edit(sc[C[i]], C[i], T[i - 1], T[i], B[i - 1], B[i])
  BY <1>2 DEF Known
<1>4. /\ C \in [Nat -> Nat] /\ T \in [Nat -> Seq(Char)] /\ B \in [Nat -> SUBSET Nat]
      /\ \A i \in 0..n : Len(T[i]) <= MaxLength
  BY <1>1 DEF Chain, Links
<1>5. n > 0 /\ c = Len(sc) /\ \A i \in 1..Len(u) : u[i].at < Len(sc)
  BY <1>1 DEF Open
<1>6. n \in 0..n /\ n \in 1..n /\ n # 0 /\ c \in Nat /\ c \in 1..Len(sc) /\ n \in Nat
  BY <1>3, <1>5
<1>7. /\ sc \in Seq(Record) /\ sc2 \in Seq(Record) /\ Len(sc2) = Len(sc)
      /\ \A i \in 1..Len(sc) : sc2[i] = IF i = c THEN r ELSE sc[i]
  BY <1>1, <1>6, ExceptSeq DEF Stack
<1>8. new \in Seq(Char) /\ Len(new) = len2 /\ P2 \in SUBSET Nat
  BY DEF Fits, PlacesIn
<1> HIDE DEF sc2, P2
<1>9. /\ T2 \in [Nat -> Seq(Char)] /\ T2[n] = new /\ \A i \in Nat : i # n => T2[i] = T[i]
      /\ B2 \in [Nat -> SUBSET Nat] /\ B2[n] = P2 /\ \A i \in Nat : i # n => B2[i] = B[i]
  BY <1>4, <1>6, <1>8
<1> HIDE DEF T2, B2
<1>10. \A i \in 1..n : i # n => C[i] < c
  <2>1. \A i \in 1..n : i # n => i \in 0..n /\ i < n
    BY <1>3
  <2> QED BY <2>1, <1>3, <1>6
<1>11. ASSUME NEW i \in 1..n
       PROVE  /\ C[i - 1] < C[i] /\ C[i] <= Len(sc2) /\ sc2[C[i]].prev = C[i - 1]
              /\ Edit(sc2[C[i]], C[i], T2[i - 1], T2[i], B2[i - 1], B2[i])
  <2>1. C[i] \in 1..Len(sc) /\ sc[C[i]].prev = C[i - 1] /\ C[i - 1] < C[i] /\ i - 1 \in Nat /\ i - 1 # n /\ i \in Nat
    BY <1>3
  <2>2. T2[i - 1] = T[i - 1] /\ B2[i - 1] = B[i - 1] /\ C[i] <= Len(sc2)
    <3>1. PICK j \in Nat : j = i - 1 /\ j # n
      BY <2>1
    <3>2. T2[j] = T[j] /\ B2[j] = B[j]
      BY <3>1, <1>9
    <3>3. C[i] <= Len(sc2)
      BY <2>1, <1>7
    <3> QED BY <3>1, <3>2, <3>3
  <2>3. CASE i = n
    <3>1. sc2[C[i]] = r /\ T2[i] = new /\ B2[i] = P2 /\ C[i] = rec
      BY <2>1, <2>3, <1>1, <1>7, <1>9
    <3>2. Edit(r, rec, T[i - 1], new, B[i - 1], P2)
      BY <2>3 DEF P2
    <3> QED BY <2>1, <2>2, <3>1, <3>2
  <2>4. CASE i # n
    <3>1. C[i] # c /\ C[i] \in Nat
      BY <2>4, <1>6, <1>10, <1>3, <2>1
    <3>2. sc2[C[i]] = sc[C[i]] /\ T2[i] = T[i] /\ B2[i] = B[i]
      BY <2>1, <2>4, <3>1, <1>7, <1>9
    <3> QED BY <2>1, <2>2, <3>2, <1>3
  <2> QED BY <2>3, <2>4
<1>12. \A i \in 0..n : Len(T2[i]) <= MaxLength
  <2>1. \A i \in 0..n : i \in Nat
    OBVIOUS
  <2> QED BY <2>1, <1>4, <1>8, <1>9
<1>13. Chain(sc2, n, C, T2, B2)
  <2>1. T2[0] = Original
    BY <1>3, <1>6, <1>9
  <2> QED BY <2>1, <1>3, <1>4, <1>9, <1>11, <1>12 DEF Chain, Links
<1>14. Fits(ps2, len2, T2[n], B2[n])
  <2>1. \A x \in P2 : Meets(ps2, 0, x)
    BY DEF P2, PlacesIn
  <2> QED BY <2>1, <1>9 DEF Fits
<1>15. /\ u \in Seq([at : -1..Len(sc), text : Seq(Char)]) /\ Len(u) = UndoCount
       /\ \A i, j \in 1..Len(u) : i <= j => u[j].at <= u[i].at
       /\ \A i \in 1..Len(u) : IsMark(u[i]) => \E k \in 0..n : Leaves(n, C, u[i].at, k) /\ T[k] = u[i].text
  BY <1>1 DEF Marks
<1>16. ASSUME NEW i \in 1..Len(u), IsMark(u[i])
       PROVE  \E k \in 0..n : Leaves(n, C, u[i].at, k) /\ T2[k] = u[i].text
  <2>1. PICK k \in 0..n : Leaves(n, C, u[i].at, k) /\ T[k] = u[i].text
    BY <1>15, <1>16
  <2>2. k # n
    <3>1. C[k] <= u[i].at /\ u[i].at < Len(sc)
      BY <2>1, <1>5 DEF Leaves
    <3>2. u[i].at \in Int
      <4>1. u[i] \in [at : -1..Len(sc), text : Seq(Char)]
        BY <1>15, ElementOfSeq
      <4> QED BY <4>1
    <3> QED BY <3>1, <3>2, <1>3, <1>5, <1>6
  <2>3. T2[k] = T[k]
    <3>1. k \in Nat
      OBVIOUS
    <3> QED BY <3>1, <2>2, <1>9
  <2> QED BY <2>1, <2>3
<1>17. Marks(sc2, n, C, T2, u)
  BY <1>7, <1>15, <1>16 DEF Marks
<1>18. Open(sc2, n, C, u, upto2)
  <2>1. sc2[c] = r
    BY <1>6, <1>7
  <2> QED BY <2>1, <1>5, <1>7 DEF Open
<1>19. Stack(sc2)
  <2>1. \A i \in 1..Len(sc) : sc[i].prev \in Nat /\ sc[i].prev < i
    BY DEF Stack, Backwards
  <2>2. \A i \in 1..Len(sc2) : sc2[i].prev \in Nat /\ sc2[i].prev < i
    BY <2>1, <1>1, <1>6, <1>7
  <2> QED BY <2>2, <1>3, <1>7 DEF Stack, Backwards
<1>20. WholeBy(sc2, rec, first, u, upto2, ps2, len2, n, C, T2, B2)
  BY <1>1, <1>13, <1>14, <1>17, <1>18 DEF WholeBy
<1> QED BY <1>19, <1>20 DEF Whole, sc2

Lengthens(sc, rec, first, u, upto, ps, len, n, C, T, B, r, new, ps2, len2, upto2) ==
  /\ Stack(sc) /\ WholeBy(sc, rec, first, u, upto, ps, len, n, C, T, B) /\ upto >= 0
  /\ r \in Record /\ r.prev = sc[rec].prev /\ len2 <= MaxLength
  /\ Fits(ps2, len2, new, {}) /\ Edit(r, rec, T[n - 1], new, B[n - 1], PlacesIn(ps2))
  /\ upto2 = r.start + r.count /\ ~IsOfPieces(r)

LEMMA LengthenedTo ==
  ASSUME NEW sc, NEW rec, NEW first, NEW u, NEW upto, NEW ps, NEW len, NEW n, NEW C, NEW T, NEW B,
         NEW r, NEW new, NEW ps2, NEW len2, NEW upto2,
         Lengthens(sc, rec, first, u, upto, ps, len, n, C, T, B, r, new, ps2, len2, upto2)
  PROVE  /\ Stack([sc EXCEPT ![rec] = r])
         /\ Whole([sc EXCEPT ![rec] = r], rec, first, u, upto2, ps2, len2)
  BY Lengthened DEF Lengthens
-----------------------------------------------------------------------------
(* What the edits do to a table.                                           *)

(* The pieces of inserted characters.                                      *)
Filled(c, count, at) == IF count = 0 THEN <<>> ELSE <<[pos |-> at, len |-> count, src |-> c, off |-> 0]>>

LEMMA FilledIs ==
  ASSUME NEW c \in Source, NEW count \in 0..MaxLength, NEW s \in Nat, NEW new,
         \A x \in 1..count : new[s + x] = <<c, x>>
  PROVE  Lies(Filled(c, count, s), s, s + count) /\ Shows(Filled(c, count, s), new) /\ Filled(c, count, s) \in Seq(Bits)
<1>1. CASE count = 0
  <2>1. Lies(<<>>, s, s) /\ \A text : Shows(<<>>, text)
    BY NoPiece
  <2>2. <<>> \in Seq(Bits)
    OBVIOUS
  <2> QED BY <2>1, <2>2, <1>1 DEF Filled
<1>2. CASE count # 0
  <2>1. count \in 1..MaxLength
    BY <1>2
  <2> DEFINE y == [pos |-> s, len |-> count, src |-> c, off |-> 0]
  <2>2. Lies(<<y>>, s, s + count) /\ Shows(<<y>>, new) /\ <<y>> \in Seq(Bits)
    BY <2>1, NewPiece
  <2> HIDE DEF y
  <2> QED BY <2>2, <1>2 DEF Filled, y
<1> QED BY <1>1, <1>2

(* A piece rewritten is the one of the inserted characters.                *)
LEMMA WrittenIs ==
  ASSUME NEW x \in Bits, NEW c \in Source, NEW count \in 0..MaxLength
  PROVE  /\ [x EXCEPT !.len = count, !.src = c, !.off = 0] = [pos |-> x.pos, len |-> count, src |-> c, off |-> 0]
         /\ [pos |-> x.pos, len |-> count, src |-> c, off |-> 0] \in Bits
<1>1. x = [pos |-> x.pos, len |-> x.len, src |-> x.src, off |-> x.off] /\ x.pos \in Nat /\ MaxLength \in Nat
  BY PieceAssumption DEF Bits
<1>2. [x EXCEPT !.len = count, !.src = c, !.off = 0] = [pos |-> x.pos, len |-> count, src |-> c, off |-> 0]
  <2> DEFINE z == [x EXCEPT !.len = count, !.src = c, !.off = 0]
  <2>1. x \in [pos : Nat, len : Nat, src : Source, off : Nat] /\ count \in Nat
    BY <1>1 DEF Bits
  <2>2. z \in [pos : Nat, len : Nat, src : Source, off : Nat]
    BY <2>1
  <2>3. z.pos = x.pos /\ z.len = count /\ z.src = c /\ z.off = 0
    BY <2>1
  <2> HIDE DEF z
  <2>4. z = [pos |-> z.pos, len |-> z.len, src |-> z.src, off |-> z.off]
    BY <2>2
  <2> QED BY <2>3, <2>4 DEF z
<1> DEFINE y == [pos |-> x.pos, len |-> count, src |-> c, off |-> 0]
<1>3. y.pos = x.pos /\ y.len = count /\ y.src = c /\ y.off = 0 /\ count \in Nat /\ 0 + count <= MaxLength
  BY <1>1
<1>4. y \in [pos : Nat, len : Nat, src : Source, off : Nat]
  BY <1>1, <1>3
<1> HIDE DEF y
<1>5. y \in Bits
  BY <1>3, <1>4 DEF Bits
<1> QED BY <1>2, <1>5 DEF y

(* The middle of a table.                                                  *)
LEMMA MidOf ==
  ASSUME NEW p \in Seq(Bits), NEW m \in Seq(Bits), NEW q \in Seq(Bits)
  PROVE  SubSeq((p \o m) \o q, Len(p) + 1, Len(p) + Len(m)) = m
<1> DEFINE r == (p \o m) \o q
           a == SubSeq(r, Len(p) + 1, Len(p) + Len(m))
<1>1. Len(p) \in Nat /\ Len(m) \in Nat /\ Len(q) \in Nat
  BY LenProperties
<1>2. PICK pm \in Seq(Bits) : pm = p \o m
  BY ConcatProperties
<1>3. Len(pm) = Len(p) + Len(m) /\ \A i \in 1..Len(m) : pm[Len(p) + i] = m[i]
  <2>1. /\ Len(p \o m) = Len(p) + Len(m)
    BY ConcatProperties
  <2> QED BY <2>1, <1>2, SecondOf
<1>4. r \in Seq(Bits) /\ Len(r) = Len(pm) + Len(q) /\ \A i \in 1..Len(pm) : r[i] = pm[i]
  <2>1. pm \o q \in Seq(Bits) /\ Len(pm \o q) = Len(pm) + Len(q)
    BY ConcatProperties
  <2>2. \A i \in 1..Len(pm) : (pm \o q)[i] = pm[i]
    BY FirstOf
  <2> QED BY <2>1, <2>2, <1>2
<1> HIDE DEF r
<1>5. /\ a \in Seq(Bits) /\ Len(a) = Len(m) /\ \A i \in 1..Len(m) : a[i] = r[Len(p) + i]
  <2>1. PICK b, c \in Int : b = Len(p) + 1 /\ c = Len(p) + Len(m)
    BY <1>1
  <2>2. \A i \in b..c : r[i] \in Bits
    <3>1. \A i \in b..c : i \in 1..Len(r)
      BY <2>1, <1>1, <1>3, <1>4
    <3> QED BY <3>1, <1>4, ElementOfSeq
  <2>3. /\ SubSeq(r, b, c) \in Seq(Bits) /\ Len(SubSeq(r, b, c)) = IF b <= c THEN c - b + 1 ELSE 0
        /\ \A i \in 1..(c - b + 1) : SubSeq(r, b, c)[i] = r[b + i - 1]
    BY <2>2, SubSeqProperties
  <2>4. a \in Seq(Bits) /\ Len(a) = Len(m) /\ \A i \in 1..Len(m) : a[i] = r[Len(p) + 1 + i - 1]
    <3>1. c - b + 1 = Len(m) /\ (~(b <= c) => Len(m) = 0)
      BY <2>1, <1>1
    <3> QED BY <2>1, <2>3, <3>1
  <2>5. \A i \in 1..Len(m) : Len(p) + 1 + i - 1 = Len(p) + i
    BY <1>1
  <2> HIDE DEF a
  <2> QED BY <2>4, <2>5
<1> HIDE DEF a
<1>6. \A i \in 1..Len(m) : a[i] = m[i]
  <2> TAKE i \in 1..Len(m)
  <2>1. Len(p) + i \in 1..Len(pm)
    BY <1>1, <1>3
  <2> QED BY <2>1, <1>3, <1>4, <1>5
<1>7. a = m
  BY <1>5, <1>6, SeqEqual
<1> QED BY <1>7 DEF a, r

(* A sequence that is not empty has a first entry.                         *)
LEMMA HeadOf ==
  ASSUME NEW q \in Seq(Bits), q # <<>>
  PROVE  \E z \in Seq(Bits) : q = <<q[1]>> \o z /\ q[1] \in Bits
<1>1. Len(q) \in Nat /\ Len(q) # 0
  BY LenProperties, EmptySeq
<1>2. 1 \in 0..Len(q)
  BY <1>1
<1>3. /\ SubSeq(q, 1, 1) \in Seq(Bits) /\ Len(SubSeq(q, 1, 1)) = 1
      /\ SubSeq(q, 1 + 1, Len(q)) \in Seq(Bits)
      /\ q = SubSeq(q, 1, 1) \o SubSeq(q, 1 + 1, Len(q))
  BY <1>2, Halves
<1> DEFINE a == SubSeq(q, 1, 1)
           z == SubSeq(q, 1 + 1, Len(q))
<1> HIDE DEF a, z
<1>4. q[1] = a[1]
  <2>1. 1 \in 1..Len(a)
    BY <1>3 DEF a
  <2>2. (a \o z)[1] = a[1]
    BY <2>1, <1>3, FirstOf DEF a, z
  <2> QED BY <2>2, <1>3 DEF a, z
<1>5. q[1] \in Bits
  <2>1. 1 \in 1..Len(q)
    BY <1>1
  <2> QED BY <2>1, ElementOfSeq
<1>6. a = <<q[1]>>
  <2> DEFINE b == <<q[1]>>
  <2>1. b \in Seq(Bits) /\ Len(b) = 1 /\ b[1] = q[1]
    BY <1>5, OneOf
  <2>2. a \in Seq(Bits) /\ Len(a) = 1
    BY <1>3 DEF a
  <2> HIDE DEF b
  <2>3. \A i \in 1..1 : a[i] = b[i]
    BY <2>1, <1>4
  <2>4. a = b
    BY <2>1, <2>2, <2>3, SeqEqual
  <2> QED BY <2>4 DEF b
<1> QED BY <1>3, <1>5, <1>6 DEF a, z
-----------------------------------------------------------------------------
(* The table that a replaced region leaves (ps_replace).                   *)

RegionTable(t, from, upto, count, c) ==
  LET gone == SubSeq(t, from, upto)
      kept == IF count = 0 THEN from - 1 ELSE from
      left == CutOut(t, kept + 1, upto + 1)
  IN Moved(IF count = 0 THEN left ELSE Written(c, count, from, left), kept + 1, count - LengthOf(gone))

(* All but the first pieces move.                                          *)
LEMMA RestMoved ==
  ASSUME NEW p \in Seq(Bits), NEW q \in Seq(Bits), NEW d \in Int, NEW k, k = Len(p) + 1
  PROVE  Moved(p \o q, k, d) = p \o Moved(q, 1, d)
<1>1. p \in Seq(Rows) /\ q \in Seq(Rows)
  BY BitsAreRows
<1>2. Moved(p \o q, Len(p) + 1, d) = p \o Moved(q, 1, d)
  BY <1>1, MovedParts
<1> QED BY <1>2

(* An entry of a table is another one, or is taken out.                    *)
Swapped(g, h, x, y, p, q) ==
  [g EXCEPT ![h] = y] = (p \o <<y>>) \o q /\ g[h] = x /\ h \in 1..Len(g) /\ g \in Seq(Bits)

PieceAt(ps, a, b, i, p, q) ==
  /\ ps = (p \o <<ps[i]>>) \o q /\ Len(p) = i - 1 /\ Len(q) = Len(ps) - i
  /\ Lies(p, a, ps[i].pos) /\ Lies(q, End(ps[i]), b)
  /\ \A text : Shows(ps, text) => Shows(p, text) /\ Shows(q, text) /\ Shows(<<ps[i]>>, text)

LEMMA PieceTaken ==
  ASSUME NEW ps, NEW a, NEW b, Lies(ps, a, b), NEW i \in 1..Len(ps)
  PROVE  \E p, q \in Seq(Bits) : PieceAt(ps, a, b, i, p, q)
  BY PieceOut DEF PieceAt

LEMMA ExceptIs ==
  ASSUME NEW p \in Seq(Bits), NEW q \in Seq(Bits), NEW x \in Bits, NEW y \in Bits,
         NEW g, g = (p \o <<x>>) \o q, NEW h, h = Len(p) + 1
  PROVE  Swapped(g, h, x, y, p, q)
<1>1. [((p \o <<x>>) \o q) EXCEPT ![Len(p) + 1] = y] = (p \o <<y>>) \o q
  BY SMTT(30), ExceptParts
<1>2. ((p \o <<x>>) \o q)[Len(p) + 1] = x
  BY ExceptParts
<1>3. Len(p) + 1 \in 1..Len((p \o <<x>>) \o q) /\ (p \o <<x>>) \o q \in Seq(Bits)
  BY ExceptParts
<1> QED BY <1>1, <1>2, <1>3 DEF Swapped

RegionAs(t, s, e, p, m, q, c, count) ==
  /\ SubSeq(t, Len(p) + 1, Len(p) + Len(m)) = m /\ LengthOf(m) = e - s
  /\ RegionTable(t, Len(p) + 1, Len(p) + Len(m), count, c)
     = (p \o Filled(c, count, s)) \o Moved(q, 1, count - (e - s))

LEMMA RegionIs ==
  ASSUME NEW t, NEW s, NEW e, NEW b, NEW p \in Seq(Bits), NEW m \in Seq(Bits), NEW q \in Seq(Bits),
         Parts(t, s, e, b, p, m, q), m # <<>>,
         NEW c \in Source, NEW count \in 0..MaxLength
  PROVE  RegionAs(t, s, e, p, m, q, c, count)
<1> DEFINE from == Len(p) + 1
           upto == Len(p) + Len(m)
           d == count - (e - s)
<1>1. t = (p \o m) \o q /\ Lies(p, 0, s) /\ Lies(m, s, e) /\ Lies(q, e, b)
  BY DEF Parts
<1>2. SubSeq(t, from, upto) = m
  BY <1>1, MidOf
<1>3. LengthOf(m) = e - s /\ s \in Nat /\ e \in Nat
  BY <1>1, LengthIs, CutIs
<1>4. Len(p) \in Nat /\ Len(m) \in Nat /\ count \in Nat /\ MaxLength \in Nat /\ d \in Int
  BY <1>3, LenProperties, PieceAssumption
<1> HIDE DEF d
<1>5. CASE count = 0
  <2>1. CutOut((p \o m) \o q, Len(p) + 1, Len(p) + Len(m) + 1) = p \o q
    BY CutOutParts
  <2>2. (from - 1) + 1 = Len(p) + 1 /\ upto + 1 = Len(p) + Len(m) + 1
    BY <1>4
  <2>3. CutOut(t, (from - 1) + 1, upto + 1) = p \o q
    BY <2>1, <2>2, <1>1
  <2>4. Moved(p \o q, (from - 1) + 1, d) = p \o Moved(q, 1, d)
    BY <2>2, <1>4, RestMoved
  <2>5. RegionTable(t, from, upto, count, c) = p \o Moved(q, 1, d)
    <3> HIDE DEF from, upto
    <3> QED BY <2>3, <2>4, <1>2, <1>3, <1>5 DEF RegionTable, d
  <2>6. p \o Filled(c, count, s) = p
    <3>1. p \o <<>> = p
      OBVIOUS
    <3> QED BY <3>1, <1>5 DEF Filled
  <2> QED BY <2>5, <2>6, <1>2, <1>3 DEF d, RegionAs
<1>6. CASE count # 0
  <2>1. PICK z \in Seq(Bits) : m = <<m[1]>> \o z /\ m[1] \in Bits
    BY HeadOf
  <2> DEFINE x == m[1]
             y == [pos |-> x.pos, len |-> count, src |-> c, off |-> 0]
  <2>2. x.pos = s
    <3>1. 1 \in 1..Len(m)
      <4>1. Len(m) # 0
        BY EmptySeq
      <4> QED BY <4>1, <1>4
    <3>2. m[1].pos = Cut(m, s, 1 - 1)
      BY <3>1, <1>1 DEF Lies
    <3> QED BY <3>2 DEF Cut
  <2>3. [x EXCEPT !.len = count, !.src = c, !.off = 0] = y /\ y \in Bits /\ Filled(c, count, s) = <<y>>
    <3>1. [x EXCEPT !.len = count, !.src = c, !.off = 0] = y /\ y \in Bits
      BY <2>1, WrittenIs
    <3> QED BY <3>1, <2>2, <1>6 DEF Filled
  <2> HIDE DEF x, y
  <2>4. x \in Bits /\ <<x>> \in Seq(Bits) /\ Len(<<x>>) = 1 /\ <<y>> \in Seq(Bits) /\ Len(<<y>>) = 1
    BY <2>1, <2>3, OneOf DEF x
  <2> DEFINE X == <<x>>
             Y == <<y>>
  <2> HIDE DEF X, Y
  <2>5. PICK px, py \in Seq(Bits) : px = p \o X /\ py = p \o Y
    BY <2>4, ConcatProperties DEF X, Y
  <2>6. Len(px) = Len(p) + 1 /\ Len(py) = Len(p) + 1
    <3>1. X \in Seq(Bits) /\ Y \in Seq(Bits) /\ Len(X) = 1 /\ Len(Y) = 1
      BY <2>4 DEF X, Y
    <3>2. Len(p \o X) = Len(p) + Len(X) /\ Len(p \o Y) = Len(p) + Len(Y)
      BY <3>1, ConcatProperties
    <3> QED BY <3>1, <3>2, <2>5
  <2>7. t = (px \o z) \o q
    <3>1. (p \o X) \o z = p \o (X \o z)
      BY <2>4, Associate DEF X
    <3> QED BY <3>1, <2>1, <2>5, <1>1 DEF X, x
  <2>8. Len(m) = 1 + Len(z) /\ Len(z) \in Nat
    <3>1. Len(X \o z) = Len(X) + Len(z) /\ Len(z) \in Nat
      BY <2>4, ConcatProperties, LenProperties DEF X
    <3> QED BY <3>1, <2>1, <2>4 DEF X, x
  <2>9. CutOut(t, from + 1, upto + 1) = px \o q
    <3>1. CutOut((px \o z) \o q, Len(px) + 1, Len(px) + Len(z) + 1) = px \o q
      BY ZenonT(60), CutOutParts
    <3>2. from + 1 = Len(px) + 1 /\ upto + 1 = Len(px) + Len(z) + 1
      BY <2>6, <2>8, <1>4
    <3> QED BY <3>1, <3>2, <2>7
  <2>10. Written(c, count, from, px \o q) = py \o q
    <3> DEFINE g == px \o q
    <3> HIDE DEF g, from
    <3>1. g = (p \o <<x>>) \o q /\ from = Len(p) + 1
      BY <2>5 DEF X, g, from
    <3>2. [g EXCEPT ![from] = y] = py \o q /\ g[from] = x
      <4>1. Swapped(g, from, x, y, p, q)
        BY <3>1, <2>3, <2>4, ExceptIs
      <4> QED BY <4>1, <2>5 DEF Y, Swapped
    <3>3. [g EXCEPT ![from] = [@ EXCEPT !.len = count, !.src = c, !.off = 0]] = [g EXCEPT ![from] = y]
      BY <3>2, <2>3
    <3>4. Written(c, count, from, g) = [g EXCEPT ![from] = y]
      BY <3>3 DEF Written
    <3> QED BY <3>2, <3>4 DEF g
  <2>11. Moved(py \o q, from + 1, d) = py \o Moved(q, 1, d)
    <3>1. PICK k : k = from + 1 /\ k = Len(py) + 1
      BY <2>6
    <3>2. \A h : h = Len(py) + 1 => Moved(py \o q, h, d) = py \o Moved(q, 1, d)
      BY <1>4, RestMoved
    <3> QED BY <3>1, <3>2
  <2>12. RegionTable(t, from, upto, count, c) = py \o Moved(q, 1, d)
    <3> HIDE DEF from, upto
    <3> QED BY <2>9, <2>10, <2>11, <1>2, <1>3, <1>6 DEF RegionTable, d
  <2> QED BY <2>3, <2>5, <2>12, <1>2, <1>3 DEF d, Y, RegionAs
<1> QED BY <1>5, <1>6, <1>4

(* A gap in the table for a new piece (ev_insert of a table opened there). *)
GapAt(ps, found, delta) ==
  LET cut == IF delta = 0 THEN ps ELSE Split(ps, found, delta)
  IN IF found = Len(ps) /\ delta = ps[found].len THEN cut ELSE Split(cut, HereOf(found, delta), 0)

GapAs(ps, i, delta, at, b, p, q, z) ==
  /\ Opens(OpenedAt(ps, i, delta), ps, HereOf(i, delta), at, b, p, q)
  /\ GapAt(ps, i, delta) = (p \o <<z>>) \o q /\ z.pos = at
  /\ (at = ps[i].pos => GapAt(ps, i, delta) = Split(ps, i, delta))
  /\ (at = b => GapAt(ps, i, delta) = Split(ps, i, delta))

LEMMA GapIs ==
  ASSUME NEW ps, NEW b, Lies(ps, 0, b), NEW at \in 0..b, NEW i, Holds(ps, i, at), NEW delta, delta = at - ps[i].pos
  PROVE  \E p, q \in Seq(Bits) : \E z \in Bits : GapAs(ps, i, delta, at, b, p, q, z)
<1> DEFINE l == ps[i].len
           here == HereOf(i, delta)
<1>1. /\ i \in 1..Len(ps) /\ delta \in 0..l
      /\ (at < b <=> at < End(ps[i])) /\ (i = Len(ps) <=> End(ps[i]) = b)
      /\ ps[i].pos \in Nat /\ l \in Nat \ {0} /\ End(ps[i]) = ps[i].pos + l
  BY HoldsIn
<1>2. b \in Nat /\ Len(ps) \in Nat /\ at \in Nat /\ ps \in Seq(Bits) /\ ps[i] \in Bits
  BY <1>1, CutIs
<1>3. PICK p, q \in Seq(Bits) : Opens(OpenedAt(ps, i, delta), ps, here, at, b, p, q)
  BY Opened
<1>4. i = Len(ps) /\ delta = l <=> at = b
  BY Opened
<1>5. OpenedAt(ps, i, delta) = p \o q /\ Len(p) = here - 1 /\ Lies(p, 0, at) /\ Lies(q, at, b)
  BY <1>3 DEF Opens
<1>6. CASE at = b
  <2>1. i = Len(ps) /\ delta = l /\ delta # 0
    BY <1>1, <1>4, <1>6
  <2>2. GapAt(ps, i, delta) = Split(ps, i, delta) /\ OpenedAt(ps, i, delta) = ps
    BY <2>1 DEF GapAt, OpenedAt
  <2>3. q = <<>>
    BY <1>5, <1>6, Ordered
  <2>4. PICK p0, q0 \in Seq(Bits) : ps = (p0 \o <<ps[i]>>) \o q0 /\ Len(p0) = i - 1 /\ Len(q0) = Len(ps) - i
    <3>1. PICK p0, q0 \in Seq(Bits) : PieceAt(ps, 0, b, i, p0, q0)
      BY <1>1, PieceTaken
    <3> QED BY <3>1 DEF PieceAt
  <2>5. q0 = <<>>
    <3>1. Len(q0) = 0
      BY <2>1, <2>4, <1>2
    <3> QED BY <3>1, EmptySeq
  <2> DEFINE x == ps[i]
             r == RightOf(x, delta)
  <2>6. /\ LeftOf(x, delta) = x /\ r \in Bits /\ r.pos = x.pos + delta /\ x \in Bits
    BY <2>1, <1>1, <1>2, HalvesAre
  <2>7. Split((p0 \o <<x>>) \o q0, Len(p0) + 1, delta) = ((p0 \o <<LeftOf(x, delta)>>) \o <<RightOf(x, delta)>>) \o q0
    <3> HIDE DEF x
    <3>1. delta \in 0..x.len /\ x \in Bits
      BY <1>1, <1>2 DEF x
    <3> QED BY <3>1, SplitParts
  <2>8. Len(p0) + 1 = i
    BY <2>4, <1>1, <1>2
  <2> HIDE DEF x, r
  <2>9. Split(ps, i, delta) = ((p0 \o <<x>>) \o <<r>>) \o q
    BY <2>3, <2>4, <2>5, <2>6, <2>7, <2>8 DEF x, r
  <2>10. p0 \o <<x>> = p
    <3>1. \A y \in Seq(Bits) : y \o <<>> = y
      OBVIOUS
    <3>2. p0 \o <<x>> \in Seq(Bits)
      <4>1. <<x>> \in Seq(Bits)
        BY <2>6
      <4> QED BY <4>1, ConcatProperties
    <3> QED BY <3>1, <3>2, <2>2, <2>3, <2>4, <2>5, <1>5 DEF x
  <2>11. r.pos = at
    <3> DEFINE u == ps[i].pos
    <3>1. u \in Nat /\ delta = at - u /\ r.pos = u + delta
      BY <2>6, <1>1 DEF x
    <3> HIDE DEF u, r
    <3> QED BY <3>1, <1>2
  <2>12. GapAt(ps, i, delta) = (p \o <<r>>) \o q
    BY <2>2, <2>9, <2>10
  <2> QED BY <2>2, <2>6, <2>11, <2>12, <1>3 DEF GapAs
<1>7. CASE at # b
  <2>1. ~(i = Len(ps) /\ delta = l) /\ at < b
    BY <1>2, <1>4, <1>7
  <2> DEFINE cut == IF delta = 0 THEN ps ELSE Split(ps, i, delta)
  <2>2. cut = p \o q /\ GapAt(ps, i, delta) = Split(cut, here, 0)
    BY <2>1, <1>5 DEF GapAt, OpenedAt
  <2> HIDE DEF cut
  <2>3. q # <<>> /\ Len(q) \in Nat /\ Len(q) # 0
    <3>1. q # <<>>
      BY <1>5, <1>7, Ordered
    <3> QED BY <3>1, LenProperties, EmptySeq
  <2>4. PICK w \in Seq(Bits) : q = <<q[1]>> \o w /\ q[1] \in Bits
    BY <2>3, HeadOf
  <2> DEFINE x == q[1]
             z == LeftOf(x, 0)
  <2>5. x.pos = at
    <3>1. 1 \in 1..Len(q)
      BY <2>3
    <3>2. q[1].pos = Cut(q, at, 1 - 1)
      BY <3>1, <1>5 DEF Lies
    <3> QED BY <3>2 DEF Cut
  <2>6. z \in Bits /\ z.pos = x.pos /\ RightOf(x, 0) = x /\ x \in Bits /\ 0 \in 0..x.len
    <3>1. x \in Bits /\ 0 \in 0..x.len
      BY <2>4 DEF Bits
    <3> HIDE DEF x
    <3> QED BY <3>1, HalvesAre
  <2> HIDE DEF x, z
  <2>7. p \o q = (p \o <<x>>) \o w
    <3>1. <<x>> \in Seq(Bits)
      BY <2>6
    <3>2. (p \o <<x>>) \o w = p \o (<<x>> \o w)
      BY <3>1, Associate
    <3> QED BY <3>2, <2>4 DEF x
  <2>8. Split((p \o <<x>>) \o w, Len(p) + 1, 0) = ((p \o <<LeftOf(x, 0)>>) \o <<RightOf(x, 0)>>) \o w
    BY <2>6, SplitParts
  <2>9. Len(p) + 1 = here
    <3>1. here \in Int
      BY <1>1, <1>2 DEF HereOf
    <3> HIDE DEF here
    <3> QED BY <3>1, <1>5
  <2>10. ((p \o <<z>>) \o <<x>>) \o w = (p \o <<z>>) \o q
    <3>1. <<x>> \in Seq(Bits) /\ <<z>> \in Seq(Bits)
      BY <2>6
    <3>2. PICK pz \in Seq(Bits) : pz = p \o <<z>>
      BY <3>1, ConcatProperties
    <3>3. (pz \o <<x>>) \o w = pz \o (<<x>> \o w)
      BY <3>1, Associate
    <3> QED BY <3>2, <3>3, <2>4 DEF x
  <2>11. GapAt(ps, i, delta) = (p \o <<z>>) \o q
    <3> HIDE DEF here
    <3> QED BY <2>2, <2>6, <2>7, <2>8, <2>9, <2>10 DEF z
  <2>12. at = ps[i].pos => GapAt(ps, i, delta) = Split(ps, i, delta)
    <3>1. at = ps[i].pos => delta = 0
      <4> DEFINE u == ps[i].pos
      <4>1. u \in Nat /\ delta = at - u
        BY <1>1
      <4> HIDE DEF u
      <4>2. at = u => delta = 0
        BY <4>1, <1>2
      <4> QED BY <4>2 DEF u
    <3>2. delta = 0 => cut = ps /\ here = i
      BY DEF cut, HereOf
    <3> HIDE DEF here
    <3> QED BY <3>1, <3>2, <2>2
  <2>13. GapAs(ps, i, delta, at, b, p, q, z)
    BY <2>5, <2>6, <2>11, <2>12, <1>3, <1>7 DEF GapAs
  <2> QED BY <2>6, <2>13
<1> QED BY <1>6, <1>7
-----------------------------------------------------------------------------
(* The last record, and the piece that shows it, made longer.              *)

(* A text with a part of it replaced, character by character.              *)
ReplacesTo(text, s, e, ins, k, d, new) ==
  /\ new \in Seq(Char) /\ Len(new) = Len(text) + d /\ d \in Int
  /\ \A x \in 1..s : new[x] = text[x]
  /\ \A x \in 1..k : new[s + x] = ins[x]
  /\ \A x \in (e + 1)..Len(text) : new[x + d] = text[x]

LEMMA ReplacedTo ==
  ASSUME NEW text \in Seq(Char), NEW ins \in Seq(Char), NEW s \in Nat, NEW e \in s..Len(text),
         NEW k, k = Len(ins), NEW d, d = k - (e - s)
  PROVE  ReplacesTo(text, s, e, ins, k, d, Replaced(text, s, e, ins))
<1> DEFINE new == Replaced(text, s, e, ins)
<1>1. /\ new \in Seq(Char) /\ Len(new) = Len(text) + d /\ Len(ins) \in Nat /\ d \in Int
      /\ \A x \in 1..s : new[x] = text[x]
      /\ \A x \in 1..Len(ins) : new[s + x] = ins[x]
      /\ \A x \in (e + 1)..Len(text) : new[x + d] = text[x]
  BY ZenonT(60), ReplacedIs
<1> HIDE DEF new
<1> QED BY <1>1 DEF ReplacesTo, new

(* More characters inserted are the same as the insertion of more.         *)
MoreAs(old, new, at, count, c, k) ==
  /\ new \in Seq(Char) /\ Len(new) = Len(old) + count
  /\ \A x \in 1..at : new[x] = old[x]
  /\ \A x \in 1..count : new[at + x] = <<c, k + x>>
  /\ \A x \in (at + 1)..Len(old) : new[x + count] = old[x]

MoreOf(prev, s, e, one, two, count, c, k) ==
  /\ MoreAs(Replaced(prev, s, e, one), Replaced(prev, s, e, two), s + k, count, c, k)
  /\ \A x \in 1..k : Replaced(prev, s, e, one)[s + x] = <<c, x>>

LEMMA MoreIs ==
  ASSUME NEW prev \in Seq(Char), NEW one \in Seq(Char), NEW two \in Seq(Char), NEW s \in Nat, NEW e \in s..Len(prev),
         NEW c, NEW k \in Nat, NEW count \in Nat, Len(one) = k, Len(two) = k + count,
         \A x \in 1..k : one[x] = <<c, x>>, \A x \in 1..(k + count) : two[x] = <<c, x>>
  PROVE  MoreOf(prev, s, e, one, two, count, c, k)
<1> DEFINE old == Replaced(prev, s, e, one)
           new == Replaced(prev, s, e, two)
           d == k - (e - s)
           f == (k + count) - (e - s)
           L == Len(prev)
<1>1. L \in Nat /\ e \in Nat /\ s <= e /\ e <= L
  BY LenProperties
<1>2. /\ old \in Seq(Char) /\ Len(old) = L + d /\ d \in Int
      /\ \A x \in 1..s : old[x] = prev[x]
      /\ \A x \in 1..k : old[s + x] = one[x]
      /\ \A x \in (e + 1)..L : old[x + d] = prev[x]
  <2>1. ReplacesTo(prev, s, e, one, k, d, old)
    BY ReplacedTo
  <2> HIDE DEF old, d
  <2> QED BY <2>1 DEF ReplacesTo
<1>3. /\ new \in Seq(Char) /\ Len(new) = L + f
      /\ \A x \in 1..s : new[x] = prev[x]
      /\ \A x \in 1..(k + count) : new[s + x] = two[x]
      /\ \A x \in (e + 1)..L : new[x + f] = prev[x]
  <2>1. ReplacesTo(prev, s, e, two, k + count, f, new)
    BY ReplacedTo
  <2> HIDE DEF new, f
  <2> QED BY <2>1 DEF ReplacesTo
<1>4. f = d + count /\ d = k - (e - s)
  BY <1>1
<1> HIDE DEF old, new, d, L, f
<1>5. Len(new) = Len(old) + count
  BY SMTT(30), <1>1, <1>2, <1>3, <1>4
<1>6. ASSUME NEW x \in 1..(s + k) PROVE new[x] = old[x]
  <2>1. CASE x <= s
    BY <2>1, <1>2, <1>3
  <2>2. CASE x > s
    <3>1. PICK y \in 1..k : x = s + y
      <4>1. x - s \in 1..k /\ x = s + (x - s)
        BY <2>2
      <4> QED BY <4>1
    <3>2. y \in 1..(k + count)
      OBVIOUS
    <3>3. old[s + y] = one[y] /\ one[y] = <<c, y>>
      BY <1>2
    <3>4. new[s + y] = two[y] /\ two[y] = <<c, y>>
      BY <3>2, <1>3
    <3> QED BY <3>1, <3>3, <3>4
  <2> QED BY <2>1, <2>2
<1>7. ASSUME NEW x \in 1..count PROVE new[(s + k) + x] = <<c, k + x>>
  <2>1. k + x \in 1..(k + count) /\ (s + k) + x = s + (k + x)
    OBVIOUS
  <2>2. new[s + (k + x)] = two[k + x] /\ two[k + x] = <<c, k + x>>
    BY <2>1, <1>3
  <2> QED BY <2>1, <2>2
<1>8. ASSUME NEW x \in ((s + k) + 1)..Len(old) PROVE new[x + count] = old[x]
  <2>1. PICK y \in (e + 1)..L : x = y + d
    <3>1. x - d \in (e + 1)..L /\ x = (x - d) + d
      BY <1>1, <1>2, <1>4
    <3> QED BY <3>1
  <2>2. old[y + d] = prev[y] /\ new[y + f] = prev[y]
    BY <1>2, <1>3
  <2>3. y + f = x + count
    <3>1. y \in Int /\ d \in Int /\ f = d + count
      BY <1>1, <1>2, <1>4
    <3>2. \A i, j \in Int : i + (j + count) = (i + j) + count
      OBVIOUS
    <3> QED BY <3>1, <3>2, <2>1
  <2> QED BY <2>1, <2>2, <2>3
<1>9. MoreAs(old, new, s + k, count, c, k)
  BY <1>3, <1>5, <1>6, <1>7, <1>8 DEF MoreAs
<1>10. \A x \in 1..k : old[s + x] = <<c, x>>
  BY <1>2
<1> QED BY <1>9, <1>10 DEF old, new, MoreOf

(* The piece that ends where another one begins.                           *)
LEMMA EndsThere ==
  ASSUME NEW ps, NEW b, Lies(ps, 0, b), NEW at \in 1..b, Meets(ps, 0, at), NEW i, Holds(ps, i, at),
         NEW delta, delta = at - ps[i].pos,
         NEW here, here = IF i = Len(ps) /\ delta = ps[i].len THEN i ELSE i - 1
  PROVE  here \in 1..Len(ps) /\ End(ps[here]) = at
<1>1. /\ i \in 1..Len(ps) /\ (i = Len(ps) <=> End(ps[i]) = b)
      /\ ps[i].pos \in Nat /\ ps[i].len \in Nat \ {0} /\ End(ps[i]) = ps[i].pos + ps[i].len
      /\ (at = ps[i].pos \/ (i = Len(ps) /\ at = b))
  <2>1. at \in 0..b
    OBVIOUS
  <2> QED BY <2>1, HoldsIn
<1>2. /\ Len(ps) \in Nat /\ b \in Nat
      /\ \A j \in 1..Len(ps) : End(ps[j]) = Cut(ps, 0, j) /\ ps[j].pos = Cut(ps, 0, j - 1)
  BY CutIs
<1> DEFINE u == ps[i].pos
           l == ps[i].len
<1>3. u \in Nat /\ l \in Nat \ {0} /\ delta = at - u /\ End(ps[i]) = u + l
  BY <1>1
<1>4. CASE i = Len(ps) /\ delta = l
  <2>1. u + l = at
    <3> HIDE DEF u, l
    <3> QED BY <1>3, <1>4
  <2> QED BY <2>1, <1>1, <1>4
<1>5. CASE ~(i = Len(ps) /\ delta = l)
  <2>1. here = i - 1
    BY <1>5
  <2>2. at = u
    <3>1. ~(i = Len(ps) /\ at = b)
      <4>1. i = Len(ps) /\ at = b => at = u + l
        BY <1>1
      <4> HIDE DEF u, l
      <4> QED BY <4>1, <1>3, <1>5
    <3> QED BY <3>1, <1>1
  <2>3. i # 1
    <3>1. i = 1 => u = Cut(ps, 0, 1 - 1)
      BY <1>1, <1>2
    <3>2. Cut(ps, 0, 1 - 1) = 0
      BY DEF Cut
    <3> HIDE DEF u
    <3> QED BY <3>1, <3>2, <2>2
  <2>4. here \in 1..Len(ps)
    BY <2>1, <2>3, <1>1, <1>2
  <2>5. End(ps[here]) = Cut(ps, 0, i - 1)
    BY <2>1, <2>4, <1>2
  <2> QED BY <2>2, <2>4, <2>5, <1>1, <1>2
<1> QED BY <1>4, <1>5

(* What an insertion at a place does to the places of a table.             *)
Widened(ps, ps2, at, count, len) ==
  /\ Lies(ps2, 0, len + count)
  /\ \A x : Meets(ps, 0, x) => (x < at => Meets(ps2, 0, x)) /\ (x >= at => Meets(ps2, 0, x + count))

LEMMA LongerIs ==
  ASSUME NEW ps, NEW b, Lies(ps, 0, b), NEW h \in 1..Len(ps), NEW at, End(ps[h]) = at, NEW count \in Nat,
         ps[h].off + ps[h].len + count <= MaxLength
  PROVE  LET ps2 == Moved([ps EXCEPT ![h].len = @ + count], h + 1, count) IN
         /\ Widened(ps, ps2, at, count, b)
         /\ \A old, new : /\ Shows(ps, old) /\ MoreAs(old, new, at, count, ps[h].src, ps[h].off + ps[h].len)
                          /\ Len(old) = b
                          => Shows(ps2, new)
<1> DEFINE x == ps[h]
           u == x.pos
           l == x.len
           o == x.off
           y == [x EXCEPT !.len = @ + count]
           ps2 == Moved([ps EXCEPT ![h].len = @ + count], h + 1, count)
<1>1. PICK p, q \in Seq(Bits) : PieceAt(ps, 0, b, h, p, q)
  BY PieceTaken
<1>2. /\ ps = (p \o <<x>>) \o q /\ Len(p) = h - 1 /\ Lies(p, 0, u) /\ Lies(q, at, b)
      /\ \A text : Shows(ps, text) => Shows(p, text) /\ Shows(q, text) /\ Shows(<<x>>, text)
  BY <1>1 DEF PieceAt
<1>3. /\ x \in Bits /\ u \in Nat /\ l \in Nat \ {0} /\ o \in Nat /\ x.src \in Source /\ at = u + l
      /\ b \in Nat /\ Len(ps) \in Nat /\ o + (l + count) <= MaxLength
  <2>1. x \in Bits /\ b \in Nat /\ Len(ps) \in Nat /\ l \in Nat \ {0}
    BY CutIs
  <2>2. u \in Nat /\ o \in Nat /\ x.src \in Source /\ End(x) = u + l /\ l \in Nat
    BY <2>1, BitIs
  <2>3. o + l + count <= MaxLength
    OBVIOUS
  <2> HIDE DEF u, l, o
  <2> QED BY <2>1, <2>2, <2>3 DEF x
<1>4. /\ y \in Bits /\ y.pos = u /\ y.len = l + count /\ y.src = x.src /\ y.off = o /\ End(y) = u + (l + count)
  <2>1. x = [pos |-> u, len |-> l, src |-> x.src, off |-> o]
    BY <1>3 DEF Bits
  <2>2. y = [pos |-> u, len |-> l + count, src |-> x.src, off |-> o]
    BY <2>1
  <2> HIDE DEF x, u, l, o
  <2> DEFINE z == [pos |-> u, len |-> l + count, src |-> x.src, off |-> o]
  <2>3. z \in [pos : Nat, len : Nat, src : Source, off : Nat]
    BY <1>3
  <2>4. z.pos = u /\ z.len = l + count /\ z.src = x.src /\ z.off = o
    OBVIOUS
  <2> HIDE DEF z, y
  <2>5. z \in Bits /\ End(z) = u + (l + count)
    BY <2>3, <2>4, <1>3 DEF Bits, End
  <2> QED BY <2>2, <2>4, <2>5 DEF z
<1>5. ps2 = (p \o <<y>>) \o Moved(q, 1, count)
  <2>1. h = Len(p) + 1
    BY <1>2, <1>3
  <2>2. Swapped(ps, h, x, y, p, q)
    <3> HIDE DEF y, x
    <3> QED BY <2>1, <1>2, <1>3, <1>4, ExceptIs
  <2>3. [ps EXCEPT ![h].len = @ + count] = (p \o <<y>>) \o q
    <3>1. [ps EXCEPT ![h].len = @ + count] = [ps EXCEPT ![h] = y]
      OBVIOUS
    <3> QED BY <3>1, <2>2 DEF Swapped
  <2> DEFINE Y == <<y>>
  <2>4. Y \in Seq(Bits) /\ Len(Y) = 1
    <3> HIDE DEF y
    <3> QED BY <1>4, OneOf
  <2> HIDE DEF Y
  <2>5. PICK py \in Seq(Bits) : py = p \o Y
    BY <2>4, ConcatProperties
  <2>6. Len(py) = h
    <3>1. Len(p \o Y) = Len(p) + Len(Y)
      BY <2>4, ConcatProperties
    <3> QED BY <3>1, <2>1, <2>4, <2>5
  <2>7. \A k : k = Len(py) + 1 => Moved(py \o q, k, count) = py \o Moved(q, 1, count)
    <3>1. count \in Int
      OBVIOUS
    <3> QED BY <3>1, RestMoved
  <2>8. Moved(py \o q, h + 1, count) = py \o Moved(q, 1, count)
    BY <2>6, <2>7
  <2> HIDE DEF y
  <2> QED BY <2>3, <2>5, <2>8 DEF Y
<1> HIDE DEF x, u, l, o, y, ps2
<1> DEFINE Y == <<y>>
           X == <<x>>
<1>6. /\ Lies(Y, u, u + (l + count)) /\ Y \in Seq(Bits)
      /\ \A text : Shows(Y, text) <=> \A k \in 1..(l + count) : text[u + k] = <<x.src, o + k>>
  <2>1. y.len > 0
    BY <1>3, <1>4
  <2>2. /\ Lies(<<y>>, y.pos, End(y)) /\ <<y>> \in Seq(Bits)
        /\ \A text : Shows(<<y>>, text) <=> \A k \in 1..y.len : text[y.pos + k] = <<y.src, y.off + k>>
    BY <2>1, <1>4, OnePiece
  <2> QED BY <2>2, <1>4
<1>7. /\ Lies(X, u, at) /\ X \in Seq(Bits) /\ Len(X) = 1 /\ X[1] = x
      /\ \A text : Shows(X, text) <=> \A k \in 1..l : text[u + k] = <<x.src, o + k>>
  <2>1. x.len > 0 /\ End(x) = at
    BY <1>3 DEF l, x
  <2>2. /\ Lies(<<x>>, x.pos, End(x)) /\ <<x>> \in Seq(Bits) /\ Len(<<x>>) = 1 /\ <<x>>[1] = x
        /\ \A text : Shows(<<x>>, text) <=> \A k \in 1..x.len : text[x.pos + k] = <<x.src, x.off + k>>
    BY <2>1, <1>3, OnePiece
  <2> QED BY <2>1, <2>2 DEF u, l, o
<1> HIDE DEF X, Y
<1>8. SplicedAs(p, Y, q, u, l + count, at, b, count, ps2)
  <2>1. u <= at /\ at \in Nat /\ l + count \in Nat /\ count = (l + count) - (at - u)
    BY <1>3
  <2>2. ps2 = (p \o Y) \o Moved(q, 1, count)
    BY <1>5 DEF Y
  <2> QED BY <2>1, <2>2, <1>2, <1>3, <1>6, Spliced
<1>9. /\ Lies(ps2, 0, b + count)
      /\ \A z : Meets(p, 0, z) => Meets(ps2, 0, z)
      /\ \A z : Meets(q, at, z) => Meets(ps2, 0, z + count)
  BY <1>8 DEF SplicedAs
<1>10. ASSUME NEW z, Meets(ps, 0, z) PROVE (z < at => Meets(ps2, 0, z)) /\ (z >= at => Meets(ps2, 0, z + count))
  <2>1. Meets(p, 0, z) \/ Meets(X, u, z) \/ Meets(q, at, z)
    <3>1. PICK px \in Seq(Bits) : px = p \o X /\ Lies(px, 0, at)
      BY <1>2, <1>7, JoinedLies
    <3>2. Meets(px \o q, 0, z) <=> Meets(px, 0, z) \/ Meets(q, at, z)
      BY <3>1, <1>2, MeetsJoined
    <3>3. Meets(p \o X, 0, z) <=> Meets(p, 0, z) \/ Meets(X, u, z)
      BY <1>2, <1>7, MeetsJoined
    <3> QED BY <3>1, <3>2, <3>3, <1>2, <1>10 DEF X
  <2>2. Meets(X, u, z) => z = u \/ z = at
    <3>1. \A k \in 0..1 : k = 0 \/ k = 1
      OBVIOUS
    <3>2. Cut(X, u, 0) = u
      BY DEF Cut
    <3>3. Cut(X, u, 1) = at
      BY <1>7 DEF Lies
    <3> QED BY <3>1, <3>2, <3>3, <1>7 DEF Meets
  <2>3. /\ Meets(p, 0, u) /\ (Meets(p, 0, z) => z \in Nat /\ z <= u)
    BY <1>2, MeetsIn
  <2>4. /\ Meets(q, at, at) /\ (Meets(q, at, z) => z \in Nat /\ at <= z)
    BY <1>2, MeetsIn
  <2>5. CASE Meets(p, 0, z)
    <3>1. ~(z >= at)
      BY <2>3, <2>5, <1>3
    <3> QED BY <3>1, <2>5, <1>9
  <2>6. CASE Meets(q, at, z)
    <3>1. ~(z < at)
      BY <2>4, <2>6, <1>3
    <3> QED BY <3>1, <2>6, <1>9
  <2>7. CASE Meets(X, u, z)
    <3>1. CASE z = u
      <4>1. ~(z >= at)
        BY <3>1, <1>3
      <4> QED BY <4>1, <3>1, <2>3, <1>9
    <3>2. CASE z = at
      <4>1. ~(z < at)
        BY <3>2, <1>3
      <4> QED BY <4>1, <3>2, <2>4, <1>9
    <3> QED BY <3>1, <3>2, <2>2, <2>7
  <2> QED BY <2>1, <2>5, <2>6, <2>7
<1>11. ASSUME NEW old, NEW new, Shows(ps, old), MoreAs(old, new, at, count, x.src, o + l), Len(old) = b
       PROVE  Shows(ps2, new)
  <2>1. /\ \A z \in 1..at : new[z] = old[z]
        /\ \A z \in 1..count : new[at + z] = <<x.src, (o + l) + z>>
        /\ \A z \in (at + 1)..b : new[z + count] = old[z]
    BY <1>11 DEF MoreAs
  <2>2. Shows(p, old) /\ Shows(q, old) /\ Shows(X, old)
    BY <1>2, <1>11 DEF X
  <2>3. \A z \in 1..u : new[z] = old[z]
    BY <2>1, <1>3
  <2>4. \A z \in Nat : at < z /\ z <= b => new[z + count] = old[z]
    <3>1. \A z \in Nat : at < z /\ z <= b => z \in (at + 1)..b
      BY <1>3
    <3> QED BY <3>1, <2>1
  <2>5. ASSUME NEW k \in 1..(l + count) PROVE new[u + k] = <<x.src, o + k>>
    <3>1. CASE k <= l
      <4>1. k \in 1..l /\ u + k \in 1..at
        BY <3>1, <1>3
      <4>2. old[u + k] = <<x.src, o + k>>
        BY <4>1, <2>2, <1>7
      <4> QED BY <4>1, <4>2, <2>1
    <3>2. CASE k > l
      <4>1. PICK z \in 1..count : k = l + z
        <5>1. k - l \in 1..count /\ k = l + (k - l)
          BY <3>2, <1>3
        <5> QED BY <5>1
      <4>2. u + k = at + z /\ o + k = (o + l) + z
        BY <4>1, <1>3
      <4> QED BY <4>2, <2>1
    <3> QED BY <3>1, <3>2, <1>3
  <2>6. Shows(Y, new)
    BY <2>5, <1>6
  <2> QED BY <2>2, <2>3, <2>4, <2>6, <1>8 DEF SplicedAs
<1>12. Widened(ps, ps2, at, count, b)
  BY <1>9, <1>10 DEF Widened
<1> QED BY <1>11, <1>12 DEF ps2, x, o, l
-----------------------------------------------------------------------------
(* A new piece in a gap.                                                   *)

FillsGap(c, count, at, here, g, p, q) ==
  /\ Moved(Written(c, count, here, g), here + 1, count) = (p \o Filled(c, count, at)) \o Moved(q, 1, count)
  /\ Moved([Written(c, 0, here, g) EXCEPT ![here].len = @ + count], here + 1, count)
     = (p \o Filled(c, count, at)) \o Moved(q, 1, count)
  /\ CutOut(g, here, here + 1) = p \o q

LEMMA GapFilled ==
  ASSUME NEW p \in Seq(Bits), NEW q \in Seq(Bits), NEW z \in Bits, NEW at, z.pos = at, NEW c \in Source,
         NEW count \in 1..MaxLength, NEW here, here = Len(p) + 1, NEW g, g = (p \o <<z>>) \o q
  PROVE  FillsGap(c, count, at, here, g, p, q)
<1> DEFINE y == [pos |-> at, len |-> count, src |-> c, off |-> 0]
           v == [pos |-> at, len |-> 0, src |-> c, off |-> 0]
           Y == <<y>>
<1>1. count \in 0..MaxLength /\ 0 \in 0..MaxLength /\ count \in Nat /\ count # 0 /\ Len(p) \in Nat /\ here \in Nat
  BY PieceAssumption, LenProperties
<1>2. /\ [z EXCEPT !.len = count, !.src = c, !.off = 0] = y /\ y \in Bits
      /\ [z EXCEPT !.len = 0, !.src = c, !.off = 0] = v /\ v \in Bits
  BY <1>1, WrittenIs
<1>3. Filled(c, count, at) = Y
  BY <1>1 DEF Filled
<1>4. [v EXCEPT !.len = @ + count] = y
  BY <1>1
<1> HIDE DEF y, v
<1>5. Y \in Seq(Bits) /\ Len(Y) = 1
  BY <1>2, OneOf
<1>6. /\ [g EXCEPT ![here] = y] = (p \o <<y>>) \o q /\ [g EXCEPT ![here] = v] = (p \o <<v>>) \o q
      /\ g[here] = z
  <2>1. Swapped(g, here, z, y, p, q) /\ Swapped(g, here, z, v, p, q)
    BY <1>2, ExceptIs
  <2> QED BY <2>1 DEF Swapped
<1>7. Written(c, count, here, g) = (p \o <<y>>) \o q /\ Written(c, 0, here, g) = (p \o <<v>>) \o q
  BY <1>2, <1>6 DEF Written
<1>8. [Written(c, 0, here, g) EXCEPT ![here].len = @ + count] = (p \o <<y>>) \o q
  <2> DEFINE h == Written(c, 0, here, g)
  <2> HIDE DEF h
  <2>1. Swapped(h, here, v, y, p, q)
    BY <1>2, <1>7, ExceptIs DEF h
  <2>2. [h EXCEPT ![here].len = @ + count] = [h EXCEPT ![here] = y]
    BY <2>1, <1>4 DEF Swapped
  <2> QED BY <2>1, <2>2 DEF Swapped, h
<1>9. Moved((p \o <<y>>) \o q, here + 1, count) = (p \o Y) \o Moved(q, 1, count)
  <2> HIDE DEF Y
  <2>1. PICK py \in Seq(Bits) : py = p \o Y
    BY <1>5, ConcatProperties
  <2>2. Len(py) = here
    <3>1. Len(p \o Y) = Len(p) + Len(Y)
      BY <1>5, ConcatProperties
    <3> QED BY <3>1, <1>5, <2>1
  <2>3. \A k : k = Len(py) + 1 => Moved(py \o q, k, count) = py \o Moved(q, 1, count)
    <3>1. count \in Int
      BY <1>1
    <3> QED BY <3>1, RestMoved
  <2>4. Moved(py \o q, here + 1, count) = py \o Moved(q, 1, count)
    BY <2>2, <2>3
  <2> QED BY <2>1, <2>4 DEF Y
<1>10. CutOut(g, here, here + 1) = p \o q
  <2> DEFINE Z == <<z>>
  <2>1. Z \in Seq(Bits) /\ Len(Z) = 1
    BY OneOf
  <2> HIDE DEF Z
  <2>2. CutOut((p \o Z) \o q, Len(p) + 1, Len(p) + Len(Z) + 1) = p \o q
    BY <2>1, CutOutParts
  <2>3. Len(p) + Len(Z) + 1 = here + 1
    BY <2>1, <1>1
  <2> QED BY <2>2, <2>3 DEF Z
<1> QED BY <1>3, <1>7, <1>8, <1>9, <1>10 DEF FillsGap

(* It is the new text where the new piece is.                              *)
ShowsMore(ps, ps2, mid, at, count, b) ==
  \A old, new : /\ Shows(ps, old) /\ Shows(mid, new) /\ Len(old) = b
                /\ \A x \in 1..at : new[x] = old[x]
                /\ \A x \in (at + 1)..b : new[x + count] = old[x]
                => Shows(ps2, new)

LEMMA WidenedBy ==
  ASSUME NEW cut, NEW ps, NEW here, NEW at, NEW b, NEW p, NEW q, Opens(cut, ps, here, at, b, p, q),
         NEW count \in Nat, NEW mid, Lies(mid, at, at + count),
         NEW ps2, ps2 = (p \o mid) \o Moved(q, 1, count)
  PROVE  Widened(ps, ps2, at, count, b) /\ Meets(ps2, 0, at) /\ ShowsMore(ps, ps2, mid, at, count, b)
<1>1. /\ Lies(p, 0, at) /\ Lies(q, at, b)
      /\ \A text : Shows(ps, text) => Shows(p, text) /\ Shows(q, text)
      /\ \A x : Meets(ps, 0, x) => Meets(p, 0, x) \/ Meets(q, at, x)
  BY DEF Opens
<1>2. at \in Nat /\ b \in Nat
  BY <1>1, CutIs
<1>3. SplicedAs(p, mid, q, at, count, at, b, count, ps2)
  <2>1. at <= at /\ count = count - (at - at)
    BY <1>2
  <2> QED BY <2>1, <1>1, <1>2, Spliced
<1>4. /\ Lies(ps2, 0, b + count)
      /\ \A x : Meets(p, 0, x) => Meets(ps2, 0, x)
      /\ \A x : Meets(q, at, x) => Meets(ps2, 0, x + count)
  BY <1>3 DEF SplicedAs
<1>5. /\ Meets(p, 0, at) /\ \A x : Meets(p, 0, x) => x \in Nat /\ x <= at
  BY <1>1, MeetsIn
<1>6. /\ Meets(q, at, at) /\ \A x : Meets(q, at, x) => x \in Nat /\ at <= x
  BY <1>1, MeetsIn
<1>7. ASSUME NEW x, Meets(ps, 0, x) PROVE (x < at => Meets(ps2, 0, x)) /\ (x >= at => Meets(ps2, 0, x + count))
  <2>1. Meets(p, 0, x) \/ Meets(q, at, x)
    BY <1>1, <1>7
  <2>2. x \in Nat
    BY <2>1, <1>5, <1>6
  <2>3. x < at => Meets(p, 0, x)
    BY <2>1, <2>2, <1>2, <1>6
  <2>4. x >= at => Meets(q, at, x)
    <3>1. x >= at /\ ~Meets(q, at, x) => x = at
      BY <2>1, <2>2, <1>2, <1>5
    <3> QED BY <3>1, <1>6
  <2> QED BY <2>3, <2>4, <1>4
<1>8. ASSUME NEW old, NEW new, Shows(ps, old), Shows(mid, new), \A x \in 1..at : new[x] = old[x],
             \A x \in (at + 1)..b : new[x + count] = old[x]
      PROVE  Shows(ps2, new)
  <2>1. \A x \in Nat : at < x /\ x <= b => new[x + count] = old[x]
    <3>1. \A x \in Nat : at < x /\ x <= b => x \in (at + 1)..b
      BY <1>2
    <3> QED BY <3>1, <1>8
  <2> QED BY <2>1, <1>1, <1>3, <1>8 DEF SplicedAs
<1>9. Widened(ps, ps2, at, count, b) /\ Meets(ps2, 0, at)
  BY <1>4, <1>5, <1>7 DEF Widened
<1> QED BY <1>8, <1>9 DEF ShowsMore
-----------------------------------------------------------------------------
(* An edit of the document, with its record.                               *)

Rewrote(sc, first, u, r, p, mid, q, d, len, upto2) ==
  /\ Stack(Append(sc, r))
  /\ Whole(Append(sc, r), Len(sc) + 1, IF first = 0 THEN Len(sc) + 1 ELSE first, u, upto2,
           (p \o mid) \o Moved(q, 1, d), len + d)

Rewrites(sc, rec, first, u, upto, ps, len, r, t, p, m, q, ins, mid, k, d, upto2) ==
  /\ Stack(sc) /\ Len(sc) < MaxWrites /\ Whole(sc, rec, first, u, upto, ps, len)
  /\ r \in Record /\ r.prev = rec /\ r.start <= r.stop
  /\ Parts(t, r.start, r.stop, len, p, m, q)
  /\ \A text : Shows(ps, text) => Shows(t, text)
  /\ \A x : Meets(ps, 0, x) => Meets(t, 0, x)
  /\ ins = InsertedBy(r, Len(sc) + 1) /\ k = Len(ins) /\ Lies(mid, r.start, r.start + k)
  /\ \A new : (\A x \in 1..k : new[r.start + x] = ins[x]) => Shows(mid, new)
  /\ IF IsOfPieces(r) THEN r.count = 0 /\ r.deleted = mid ELSE r.deleted = m
  /\ d = k - (r.stop - r.start) /\ len + d <= MaxLength
  /\ upto2 = -1 \/ (upto2 = r.start + r.count /\ ~IsOfPieces(r))

LEMMA Rewritten ==
  ASSUME NEW sc, NEW rec, NEW first, NEW u, NEW upto, NEW ps, NEW len, NEW r, NEW t, NEW p, NEW m, NEW q,
         NEW ins, NEW mid, NEW k, NEW d, NEW upto2,
         Rewrites(sc, rec, first, u, upto, ps, len, r, t, p, m, q, ins, mid, k, d, upto2)
  PROVE  Rewrote(sc, first, u, r, p, mid, q, d, len, upto2)
<1>s. PICK s : s = r.start
  OBVIOUS
<1>e. PICK e : e = r.stop
  OBVIOUS
<1>0. /\ Stack(sc) /\ Len(sc) < MaxWrites /\ Whole(sc, rec, first, u, upto, ps, len)
      /\ r \in Record /\ r.prev = rec /\ s <= e /\ Parts(t, s, e, len, p, m, q)
      /\ \A text : Shows(ps, text) => Shows(t, text)
      /\ \A x : Meets(ps, 0, x) => Meets(t, 0, x)
      /\ ins = InsertedBy(r, Len(sc) + 1) /\ k = Len(ins) /\ Lies(mid, s, s + k)
      /\ \A new : (\A x \in 1..k : new[s + x] = ins[x]) => Shows(mid, new)
      /\ IF IsOfPieces(r) THEN r.count = 0 /\ r.deleted = mid ELSE r.deleted = m
      /\ d = k - (e - s) /\ len + d <= MaxLength
      /\ upto2 = -1 \/ (upto2 = r.start + r.count /\ ~IsOfPieces(r))
  BY <1>s, <1>e DEF Rewrites
<1> USE <1>s, <1>e, <1>0
<1> DEFINE c == Len(sc) + 1
<1>1. PICK n, C, T, B : WholeBy(sc, rec, first, u, upto, ps, len, n, C, T, B)
  BY DEF Whole
<1>2. Chain(sc, n, C, T, B) /\ Fits(ps, len, T[n], B[n])
  BY <1>1 DEF WholeBy
<1>3. Known(sc, n, C, T, B)
  BY <1>2, ChainIs
<1>4. n \in Nat /\ Len(sc) \in Nat /\ T[n] \in Seq(Char) /\ Len(T[n]) \in Nat /\ B[n] \subseteq Nat
  BY <1>3 DEF Known
<1> DEFINE old == T[n]
           new == Replaced(old, s, e, ins)
           tab == (p \o mid) \o Moved(q, 1, d)
<1>5. c \in Source /\ c \in Nat
  BY <1>4, PieceAssumption DEF Source
<1>6. /\ Lies(p, 0, s) /\ Lies(m, s, e) /\ Lies(q, e, len) /\ t = (p \o m) \o q
      /\ \A text : Shows(t, text) => Shows(m, text)
  BY DEF Parts
<1>7. s \in Nat /\ e \in Nat /\ e <= len
  <2>1. s \in Nat /\ e \in Nat
    BY <1>6, CutIs
  <2>2. Meets(q, e, e) /\ \A x : Meets(q, e, x) => x <= len
    BY <1>6, MeetsIn
  <2> QED BY <2>1, <2>2
<1>8. ins \in Seq(Char) /\ k \in Nat
  <2>1. IsOfPieces(r) => Lies(r.deleted, s, s + k)
    OBVIOUS
  <2>2. IsOfPieces(r) => \E x, y : Lies(r.deleted, x, y)
    BY <2>1
  <2>3. /\ InsertedBy(r, c) \in Seq(Char) /\ Len(InsertedBy(r, c)) \in Nat
        /\ ~IsOfPieces(r) => /\ Len(InsertedBy(r, c)) = r.count
                             /\ \A x \in 1..r.count : InsertedBy(r, c)[x] = <<c, x>>
    <3> HIDE DEF c
    <3> QED BY <2>2, <1>5, InsertedIs
  <2> QED BY <2>3
<1>9. len = Len(old) /\ Shows(ps, old) /\ \A x \in B[n] : Meets(ps, 0, x)
  BY <1>2 DEF Fits
<1>10. Fits(t, Len(old), old, B[n])
  <2>1. Lies(t, 0, len)
    <3>1. PICK pm : pm = p \o m /\ Lies(pm, 0, e)
      BY <1>6, JoinedLies
    <3>2. Lies(pm \o q, 0, len)
      BY <3>1, <1>6, JoinedLies
    <3> QED BY <3>1, <3>2, <1>6
  <2> QED BY <2>1, <1>4, <1>9 DEF Fits
<1>11. ReplacesTo(old, s, e, ins, k, d, new)
  <2>1. e \in s..Len(old)
    BY <1>7, <1>9
  <2> HIDE DEF old
  <2> QED BY <2>1, <1>4, <1>7, <1>8, ReplacedTo DEF old
<1>12. Shows(mid, new)
  BY <1>11 DEF ReplacesTo
<1>13. Landed(tab, old, new, s, e, k, m, B[n])
  <2>1. Parts(t, s, e, Len(old), p, m, q)
    BY <1>9
  <2> HIDE DEF old
  <2> QED BY <2>1, <1>4, <1>7, <1>8, <1>10, <1>12, Edited DEF old
<1> HIDE DEF c, old, new, tab
<1>14. /\ Lies(tab, 0, Len(old) + d) /\ Shows(tab, new) /\ new \in Seq(Char) /\ Len(new) = Len(old) + d
       /\ Meets(tab, 0, s) /\ Meets(tab, 0, s + k)
       /\ \A x \in B[n] : /\ x <= s => Meets(tab, 0, x)
                          /\ s < x /\ x < e => Meets(m, s, x)
                          /\ x >= e => Meets(tab, 0, x + d)
  BY <1>13 DEF Landed
<1>15. Fits(tab, len + d, new, {})
  BY <1>9, <1>14 DEF Fits
<1>16. Edit(r, c, old, new, B[n], PlacesIn(tab))
  <2>1. \A x : Meets(tab, 0, x) => x \in PlacesIn(tab)
    <3>1. \A x : Meets(tab, 0, x) => x \in Nat
      BY <1>14, MeetsIn
    <3> QED BY <3>1 DEF PlacesIn
  <2>2. InsertedBy(r, c) = ins
    BY DEF c
  <2>3. Shows(m, old)
    BY <1>6, <1>10 DEF Fits
  <2>4. IF IsOfPieces(r) THEN r.count = 0 /\ Lies(r.deleted, s, s + k) ELSE Lies(r.deleted, s, e) /\ Shows(r.deleted, old)
    BY <2>3, <1>6
  <2>5. ASSUME NEW x \in B[n]
        PROVE  /\ x <= s => x \in PlacesIn(tab)
               /\ s < x /\ x < e => Meets(r.deleted, s, x)
               /\ x >= e => x + d \in PlacesIn(tab)
    <3>1. s < x /\ x < e => r.deleted = m
      <4>1. x \in Nat
        BY <1>4
      <4>2. IsOfPieces(r) => s = e
        BY DEF IsOfPieces
      <4>3. ~(s < x /\ x < s)
        BY <4>1, <1>7
      <4> QED BY <4>2, <4>3
    <3> QED BY <3>1, <2>1, <1>14
  <2>6. s \in PlacesIn(tab) /\ s + k \in PlacesIn(tab)
    BY <2>1, <1>14
  <2>7. e <= Len(old) /\ new = Replaced(old, s, e, ins)
    BY <1>7, <1>9 DEF new
  <2> QED BY <2>2, <2>4, <2>5, <2>6, <2>7 DEF Edit
<1>17. Stack(Append(sc, r)) /\ Whole(Append(sc, r), c, IF first = 0 THEN c ELSE first, u, upto2, tab, len + d)
  BY <1>1, <1>15, <1>16, Logged DEF c, old
<1> QED BY <1>17 DEF c, tab, Rewrote

(* The table when what is typed continues the last record.                 *)
ExtendedTo(ps, tab, b, at, k, c, count, old) ==
  /\ Widened(ps, tab, at, count, b)
  /\ k = 0 => Meets(tab, 0, at)
  /\ \A new : MoreAs(old, new, at, count, c, k) => Shows(tab, new)

LEMMA ExtendsTo ==
  ASSUME NEW ps, NEW b, Lies(ps, 0, b), NEW at \in 0..b, Meets(ps, 0, at), NEW i, Holds(ps, i, at),
         NEW delta, delta = at - ps[i].pos, NEW c \in Source, NEW k \in Nat, NEW count \in 1..MaxLength,
         k + count <= MaxLength, NEW old, Shows(ps, old), Len(old) = b,
         k > 0 => at > 0 /\ old[at] = <<c, k>>,
         NEW here, here = IF k > 0 THEN IF i = Len(ps) /\ delta = ps[i].len THEN i ELSE i - 1
                          ELSE HereOf(i, delta),
         NEW ps1, ps1 = IF k > 0 THEN ps ELSE Written(c, 0, here, Split(ps, i, delta)),
         NEW tab, tab = Moved([ps1 EXCEPT ![here].len = @ + count], here + 1, count)
  PROVE  ExtendedTo(ps, tab, b, at, k, c, count, old)
<1>0. b \in Nat /\ at \in Nat /\ count \in Nat /\ MaxLength \in Nat
  BY CutIs, PieceAssumption
<1>1. CASE k > 0
  <2>1. ps1 = ps /\ here = IF i = Len(ps) /\ delta = ps[i].len THEN i ELSE i - 1
    BY <1>1
  <2>2. here \in 1..Len(ps) /\ End(ps[here]) = at
    <3>1. at \in 1..b
      BY <1>0, <1>1
    <3> QED BY SMTT(30), <3>1, <2>1, EndsThere
  <2> DEFINE x == ps[here]
  <2>3. x.src = c /\ x.off + x.len = k
    <3>1. x \in Bits /\ x.len \in Nat \ {0}
      BY <2>2, CutIs
    <3>2. x.pos + x.len = at /\ x.pos \in Nat /\ x.off \in Nat
      BY <3>1, <2>2, BitIs
    <3>3. x.len \in 1..x.len
      <4> DEFINE l == x.len
      <4>1. l \in Nat \ {0}
        BY <3>1
      <4> HIDE DEF l
      <4>2. l \in 1..l
        BY <4>1
      <4> QED BY <4>2 DEF l
    <3>4. old[x.pos + x.len] = <<x.src, x.off + x.len>>
      BY <3>3, <2>2 DEF Shows
    <3>5. old[at] = <<x.src, x.off + x.len>>
      BY <3>2, <3>4
    <3>6. \A v, w : <<v, w>> = <<c, k>> => v = c /\ w = k
      OBVIOUS
    <3> HIDE DEF x
    <3> QED BY <3>5, <3>6, <1>1
  <2>4. ps[here].off + ps[here].len + count <= MaxLength
    BY <2>3
  <2> DEFINE ps2 == Moved([ps EXCEPT ![here].len = @ + count], here + 1, count)
  <2>5. /\ Widened(ps, ps2, at, count, b)
        /\ \A o, new : /\ Shows(ps, o) /\ MoreAs(o, new, at, count, ps[here].src, ps[here].off + ps[here].len)
                       /\ Len(o) = b
                       => Shows(ps2, new)
    BY <2>2, <2>4, <1>0, LongerIs
  <2> HIDE DEF ps2
  <2>6. \A new : MoreAs(old, new, at, count, c, k) => Shows(ps2, new)
    BY <2>3, <2>5
  <2>7. Moved([ps1 EXCEPT ![here].len = @ + count], here + 1, count) = ps2
    BY <2>1 DEF ps2
  <2> DEFINE ps3 == Moved([ps1 EXCEPT ![here].len = @ + count], here + 1, count)
  <2> HIDE DEF ps3
  <2>8. ps3 = ps2
    BY <2>7 DEF ps3
  <2>9. /\ Widened(ps, ps3, at, count, b)
        /\ (k = 0 => Meets(ps3, 0, at))
        /\ \A new : MoreAs(old, new, at, count, c, k) => Shows(ps3, new)
    BY SMTT(30), <2>5, <2>6, <2>8, <1>1
  <2> QED BY <2>9 DEF ps3, ExtendedTo
<1>2. CASE ~(k > 0)
  <2>1. k = 0 /\ here = HereOf(i, delta) /\ ps1 = Written(c, 0, here, Split(ps, i, delta))
    BY <1>2
  <2>2. PICK p, q \in Seq(Bits) : \E z \in Bits : GapAs(ps, i, delta, at, b, p, q, z)
    BY GapIs
  <2>3. PICK z \in Bits :
          /\ Opens(OpenedAt(ps, i, delta), ps, here, at, b, p, q)
          /\ GapAt(ps, i, delta) = (p \o <<z>>) \o q /\ z.pos = at
          /\ (at = ps[i].pos => GapAt(ps, i, delta) = Split(ps, i, delta))
          /\ (at = b => GapAt(ps, i, delta) = Split(ps, i, delta))
    BY <2>1, <2>2 DEF GapAs
  <2>4. at = ps[i].pos \/ at = b
    BY SMTT(30), HoldsIn
  <2> DEFINE g == Split(ps, i, delta)
             mid == Filled(c, count, at)
             ps2 == Moved([ps1 EXCEPT ![here].len = @ + count], here + 1, count)
  <2>5. g = (p \o <<z>>) \o q
    BY <2>3, <2>4
  <2>6. here = Len(p) + 1
    <3>1. Len(p) = here - 1 /\ Len(p) \in Nat
      BY <2>3, LenProperties DEF Opens
    <3>2. here \in Int
      <4>1. i \in 1..Len(ps) /\ Len(ps) \in Nat
        BY HoldsIn, CutIs
      <4> QED BY <4>1, <2>1 DEF HereOf
    <3> QED BY <3>1, <3>2
  <2> HIDE DEF g
  <2>7. FillsGap(c, count, at, here, g, p, q)
    BY <2>3, <2>5, <2>6, GapFilled
  <2>8. ps2 = (p \o mid) \o Moved(q, 1, count)
    BY <2>1, <2>7 DEF FillsGap, g
  <2>9. count \in 0..MaxLength
    BY <1>0
  <2>10. Lies(mid, at, at + count)
    <3>1. \A new : (\A y \in 1..count : new[at + y] = <<c, y>>) => Lies(mid, at, at + count)
      BY <2>9, <1>0, FilledIs
    <3> DEFINE f == [y \in 1..(at + count) |-> <<c, y - at>>]
    <3>2. \A y \in 1..count : f[at + y] = <<c, y>>
      <4> TAKE y \in 1..count
      <4>1. at + y \in 1..(at + count) /\ (at + y) - at = y
        BY <1>0
      <4> QED BY <4>1
    <3> HIDE DEF f, mid
    <3> QED BY <3>1, <3>2
  <2>11. \A new : (\A y \in 1..count : new[at + y] = <<c, y>>) => Shows(mid, new)
    BY <2>9, <1>0, FilledIs
  <2> HIDE DEF mid, ps2
  <2>12. Widened(ps, ps2, at, count, b) /\ Meets(ps2, 0, at) /\ ShowsMore(ps, ps2, mid, at, count, b)
    BY <2>3, <2>8, <2>10, <1>0, WidenedBy
  <2>13. ASSUME NEW new, MoreAs(old, new, at, count, c, k) PROVE Shows(ps2, new)
    <3>1. /\ \A x \in 1..at : new[x] = old[x]
          /\ \A x \in 1..count : new[at + x] = <<c, k + x>>
          /\ \A x \in (at + 1)..b : new[x + count] = old[x]
      BY <2>13 DEF MoreAs
    <3>2. \A x \in 1..count : new[at + x] = <<c, x>>
      <4>1. \A x \in 1..count : k + x = x
        BY <2>1
      <4> QED BY <4>1, <3>1
    <3>3. Shows(mid, new)
      BY <3>2, <2>11
    <3> QED BY <3>1, <3>3, <2>12 DEF ShowsMore
  <2> QED BY <2>1, <2>12, <2>13 DEF ps2, ExtendedTo
<1> QED BY <1>1, <1>2

(* The same, of what is known of a place to type on at.                    *)
TypesOn(ps, b, at, i, delta, c, k, count, old, here, ps1, tab) ==
  /\ Lies(ps, 0, b) /\ at \in 0..b /\ Meets(ps, 0, at) /\ Holds(ps, i, at) /\ delta = at - ps[i].pos
  /\ c \in Source /\ k \in Nat /\ count \in 1..MaxLength /\ k + count <= MaxLength
  /\ Shows(ps, old) /\ Len(old) = b /\ (k > 0 => at > 0 /\ old[at] = <<c, k>>)
  /\ here = IF k > 0 THEN IF i = Len(ps) /\ delta = ps[i].len THEN i ELSE i - 1 ELSE HereOf(i, delta)
  /\ ps1 = IF k > 0 THEN ps ELSE Written(c, 0, here, Split(ps, i, delta))
  /\ tab = Moved([ps1 EXCEPT ![here].len = @ + count], here + 1, count)

LEMMA TypedOn ==
  ASSUME NEW ps, NEW b, NEW at, NEW i, NEW delta, NEW c, NEW k, NEW count, NEW old, NEW here, NEW ps1, NEW tab,
         TypesOn(ps, b, at, i, delta, c, k, count, old, here, ps1, tab)
  PROVE  ExtendedTo(ps, tab, b, at, k, c, count, old)
  BY ExtendsTo DEF TypesOn
(* The last record goes on: it and the piece that shows it grow by as much. *)
Types(sc, rec, first, u, upto, ps, len, count, i, delta, here, ps1, ps2) ==
  /\ Stack(sc) /\ Whole(sc, rec, first, u, upto, ps, len) /\ upto >= 0
  /\ count \in 1..MaxLength /\ len + count <= MaxLength
  /\ Holds(ps, i, upto) /\ delta = upto - ps[i].pos
  /\ here = IF sc[rec].count > 0 THEN IF i = Len(ps) /\ delta = ps[i].len THEN i ELSE i - 1 ELSE HereOf(i, delta)
  /\ ps1 = IF sc[rec].count > 0 THEN ps ELSE Written(rec, 0, here, Split(ps, i, delta))
  /\ ps2 = Moved([ps1 EXCEPT ![here].len = @ + count], here + 1, count)
Typed(sc, rec, first, u, upto, len, count, ps2) ==
  /\ Stack([sc EXCEPT ![rec].count = @ + count])
  /\ Whole([sc EXCEPT ![rec].count = @ + count], rec, first, u, upto + count, ps2, len + count)

LEMMA Continues ==
  ASSUME NEW sc, NEW rec, NEW first, NEW u, NEW upto, NEW ps, NEW len, NEW count, NEW i, NEW delta, NEW here, NEW ps1,
         NEW ps2, Types(sc, rec, first, u, upto, ps, len, count, i, delta, here, ps1, ps2)
  PROVE  Typed(sc, rec, first, u, upto, len, count, ps2)
<1>0. /\ Stack(sc) /\ Whole(sc, rec, first, u, upto, ps, len) /\ upto >= 0
      /\ Holds(ps, i, upto) /\ delta = upto - ps[i].pos
      /\ here = IF sc[rec].count > 0 THEN IF i = Len(ps) /\ delta = ps[i].len THEN i ELSE i - 1 ELSE HereOf(i, delta)
      /\ ps1 = IF sc[rec].count > 0 THEN ps ELSE Written(rec, 0, here, Split(ps, i, delta))
      /\ ps2 = Moved([ps1 EXCEPT ![here].len = @ + count], here + 1, count)
  BY DEF Types
<1>max. count \in 1..MaxLength /\ len + count <= MaxLength
  BY DEF Types
<1>1. PICK n, C, T, B : WholeBy(sc, rec, first, u, upto, ps, len, n, C, T, B)
  BY <1>0 DEF Whole
<1>2. /\ Chain(sc, n, C, T, B) /\ Fits(ps, len, T[n], B[n]) /\ rec = C[n]
      /\ n > 0 /\ ~IsOfPieces(sc[rec]) /\ upto = sc[rec].start + sc[rec].count
  BY <1>0, <1>1 DEF WholeBy, Open
<1>3. Known(sc, n, C, T, B)
  BY <1>0, <1>2, ChainIs
<1> DEFINE z == sc[rec]
           old == T[n]
           prev == T[n - 1]
           s == z.start
           e == z.stop
           k == z.count
           r == [z EXCEPT !.count = @ + count]
           one == InsertedBy(z, rec)
           two == InsertedBy(r, rec)
           new == Replaced(prev, s, e, two)
           before == B[n - 1]
           places == PlacesIn(ps2)
<1> HIDE DEF z, old, prev, s, e, k, r, one, two, new, before, places
<1>4. /\ n \in Nat /\ n \in 1..n /\ n \in 0..n /\ n - 1 \in Nat
      /\ rec \in 1..Len(sc) /\ rec \in Source /\ prev \in Seq(Char) /\ old \in Seq(Char)
      /\ before \subseteq Nat /\ B[n] \subseteq Nat
      /\ Edit(z, rec, prev, old, before, B[n])
  <2>1. n \in Nat /\ n \in 1..n /\ n \in 0..n /\ n - 1 \in Nat
    <3>1. n \in Nat
      BY <1>3 DEF Known
    <3>2. \A j \in Nat : j > 0 => j \in 1..j /\ j \in 0..j /\ j - 1 \in Nat
      OBVIOUS
    <3>3. n > 0
      BY <1>2
    <3> QED BY <3>1, <3>2, <3>3
  <2> QED BY <2>1, <1>2, <1>3 DEF Known, z, old, prev, before
<1>5. z \in Record
  BY <1>0, <1>4, ElementOfSeq DEF Stack, z
<1>6. /\ s \in Nat /\ e \in Nat /\ k \in Nat /\ count \in Nat /\ r \in [prev : Source, start : 0..MaxLength, stop : 0..MaxLength, deleted : Seq(Piece), count : Nat]
      /\ r.start = s /\ r.stop = e /\ r.deleted = z.deleted /\ r.prev = z.prev /\ r.count = k + count
  <2>1. /\ z = [z EXCEPT !.count = z.count] /\ z.prev \in Source /\ z.start \in 0..MaxLength
        /\ z.stop \in 0..MaxLength /\ z.deleted \in Seq(Piece) /\ z.count \in 0..MaxLength
    BY <1>5 DEF Record
  <2>2. z.start \in Nat /\ z.stop \in Nat /\ z.count \in Nat /\ count \in Nat /\ z.count + count \in Nat
    <3>1. \A y \in 0..MaxLength : y \in Nat
      OBVIOUS
    <3>2. \A x, y \in Nat : x + y \in Nat
      OBVIOUS
    <3>3. count \in Nat
      BY <1>max, PieceAssumption
    <3> QED BY <2>1, <3>1, <3>2, <3>3
  <2>3. r = [prev |-> z.prev, start |-> z.start, stop |-> z.stop, deleted |-> z.deleted, count |-> z.count + count]
    BY <1>5 DEF Record, r
  <2> QED BY <2>1, <2>2, <2>3 DEF s, e, k
<1>nat. s \in Nat /\ e \in Nat /\ k \in Nat /\ count \in Nat
  BY <1>6
<1>7. ~IsOfPieces(r)
  BY <1>2, <1>6 DEF IsOfPieces, s, e, z
<1>8. /\ s <= e /\ e <= Len(prev) /\ Len(prev) \in Nat /\ Len(one) = k
      /\ Len(old) = Len(prev) + (k - (e - s))
  <2>1. ~IsOfPieces(z)
    BY <1>2 DEF z
  <2>2. /\ z.start <= z.stop /\ z.stop <= Len(prev) /\ Len(prev) \in Nat
        /\ Len(old) = Len(prev) + (Len(InsertedBy(z, rec)) - (z.stop - z.start))
        /\ Len(InsertedBy(z, rec)) = z.count
    BY <2>1, <1>4, EditIs
  <2> QED BY <2>2 DEF s, e, k, one
<1>9. /\ old = Replaced(prev, s, e, one) /\ Lies(z.deleted, s, e) /\ Shows(z.deleted, prev)
      /\ s \in B[n] /\ s + k \in B[n]
      /\ \A x \in before : /\ x <= s => x \in B[n]
                           /\ s < x /\ x < e => Meets(z.deleted, s, x)
                           /\ x >= e => x + (k - (e - s)) \in B[n]
  <2>1. ~IsOfPieces(z) /\ Len(InsertedBy(z, rec)) = k
    BY <1>2, <1>8 DEF z, one
  <2> QED BY <2>1, <1>4 DEF Edit, s, e, one
<1>10. /\ Lies(ps, 0, len) /\ Shows(ps, old) /\ Len(old) = len /\ \A x \in B[n] : Meets(ps, 0, x)
  BY <1>2 DEF Fits, old
<1>11. upto = s + k /\ Meets(ps, 0, upto) /\ upto \in 0..len /\ len \in Nat
  <2>1. Meets(ps, 0, s + k)
    BY <1>9, <1>10
  <2>2. s + k <= len /\ s + k \in Nat
    BY <2>1, <1>10, MeetsIn
  <2>3. len \in Nat
    BY <1>10, CutIs
  <2>4. upto = s + k
    BY <1>2 DEF s, k, z
  <2> QED BY <2>1, <2>2, <2>3, <2>4
<1>12. k + count <= MaxLength
  BY SMTT(30), <1>max, <1>6, <1>11, PieceAssumption
<1>13. r \in Record
  <2>1. r.count \in 0..MaxLength
    BY SMTT(30), <1>6, <1>12
  <2> QED BY <2>1, <1>6 DEF Record
<1>14. /\ one \in Seq(Char) /\ \A x \in 1..k : one[x] = <<rec, x>>
  <2>1. ~IsOfPieces(z)
    BY <1>2 DEF z
  <2>2. /\ InsertedBy(z, rec) \in Seq(Char)
        /\ \A x \in 1..z.count : InsertedBy(z, rec)[x] = <<rec, x>>
    BY <2>1, <1>4, <1>5, InsertedIs
  <2> QED BY <2>2 DEF one, k
<1>15. /\ two \in Seq(Char) /\ Len(two) = k + count /\ \A x \in 1..(k + count) : two[x] = <<rec, x>>
  <2>1. /\ InsertedBy(r, rec) \in Seq(Char) /\ Len(InsertedBy(r, rec)) = r.count
        /\ \A x \in 1..r.count : InsertedBy(r, rec)[x] = <<rec, x>>
    BY <1>4, <1>7, <1>13, InsertedIs
  <2> QED BY <2>1, <1>6 DEF two
<1>16. MoreAs(old, new, s + k, count, rec, k) /\ \A x \in 1..k : old[s + x] = <<rec, x>>
  <2>1. e \in s..Len(prev)
    BY SMTT(30), <1>6, <1>8
  <2>2. MoreOf(prev, s, e, one, two, count, rec, k)
    BY <2>1, <1>4, <1>6, <1>8, <1>14, <1>15, MoreIs
  <2> QED BY <2>2, <1>9 DEF MoreOf, new
<1>17. /\ Widened(ps, ps2, upto, count, len)
       /\ (k = 0 => Meets(ps2, 0, upto))
       /\ \A f : MoreAs(old, f, upto, count, rec, k) => Shows(ps2, f)
  <2>1. k > 0 => upto > 0 /\ old[upto] = <<rec, k>>
    <3>1. k > 0 => k \in 1..k
      BY SMTT(30), <1>6
    <3> QED BY SMTT(30), <3>1, <1>6, <1>11, <1>16
  <2>2. here = IF k > 0 THEN IF i = Len(ps) /\ delta = ps[i].len THEN i ELSE i - 1 ELSE HereOf(i, delta)
    BY <1>0 DEF k, z
  <2>3. ps1 = IF k > 0 THEN ps ELSE Written(rec, 0, here, Split(ps, i, delta))
    BY <1>0 DEF k, z
  <2>4. ExtendedTo(ps, ps2, len, upto, k, rec, count, old)
    <3>1. TypesOn(ps, len, upto, i, delta, rec, k, count, old, here, ps1, ps2)
      BY <1>0, <1>max, <2>1, <2>2, <2>3, <1>4, <1>6, <1>10, <1>11, <1>12 DEF TypesOn
    <3> QED BY ZenonT(60), <3>1, TypedOn
  <2> QED BY <2>4 DEF ExtendedTo
<1>18. /\ Lies(ps2, 0, len + count)
       /\ \A x : Meets(ps, 0, x) => (x < upto => Meets(ps2, 0, x)) /\ (x >= upto => Meets(ps2, 0, x + count))
  BY <1>17 DEF Widened
<1>19. new \in Seq(Char) /\ Len(new) = len + count
  BY <1>10, <1>16 DEF MoreAs
<1>20. Fits(ps2, len + count, new, {})
  <2>1. Shows(ps2, new)
    BY <1>11, <1>16, <1>17
  <2> QED BY <2>1, <1>18, <1>19 DEF Fits
<1>21. \A x : Meets(ps2, 0, x) => x \in places
  <2>1. \A x : Meets(ps2, 0, x) => x \in Nat
    BY <1>18, MeetsIn
  <2> QED BY <2>1 DEF PlacesIn, places
<1>22. ASSUME NEW x \in B[n], x <= s PROVE x \in places
  <2>1. x \in Nat /\ Meets(ps, 0, x)
    BY <1>4, <1>10
  <2>2. CASE x < upto
    BY <2>1, <2>2, <1>18, <1>21
  <2>3. CASE ~(x < upto)
    <3>1. k = 0 /\ x = upto
      BY SMTT(30), <2>1, <2>3, <1>6, <1>11, <1>22
    <3> QED BY <3>1, <1>17, <1>21
  <2> QED BY <2>2, <2>3
<1>23. ASSUME NEW x \in B[n], x >= upto PROVE x + count \in places
  BY <1>10, <1>18, <1>21, <1>23
<1>24. Edit(r, rec, prev, new, before, places)
  <2>1. two = InsertedBy(r, rec)
    BY DEF two
  <2>2. s \in places /\ s + (k + count) \in places
    <3>1. s <= s /\ s + k >= upto /\ s + (k + count) = (s + k) + count
      BY SMTT(30), <1>nat, <1>11
    <3> QED BY <3>1, <1>9, <1>22, <1>23
  <2>3. ASSUME NEW x \in before
        PROVE  /\ x <= s => x \in places
               /\ s < x /\ x < e => Meets(z.deleted, s, x)
               /\ x >= e => x + ((k + count) - (e - s)) \in places
    <3>1. x \in Nat
      BY <1>4
    <3>2. ASSUME x >= e PROVE x + ((k + count) - (e - s)) \in places
      <4>1. PICK y \in B[n] : y = x + (k - (e - s))
        BY <3>2, <1>9
      <4>2. y >= upto
        BY SMTT(30), <4>1, <3>1, <3>2, <1>nat, <1>11
      <4>3. x + ((k + count) - (e - s)) = y + count
        BY SMTT(30), <4>1, <3>1, <1>nat
      <4> QED BY <4>2, <4>3, <1>23
    <3> QED BY <3>2, <1>9, <1>22
  <2>4. new = Replaced(prev, s, e, two)
    BY DEF new
  <2> QED BY <2>1, <2>2, <2>3, <2>4, <1>6, <1>7, <1>8, <1>9, <1>13, <1>15 DEF Edit
<1>25. r.prev = sc[rec].prev /\ upto + count = r.start + r.count
  BY SMTT(30), <1>6, <1>11 DEF z
<1>26. /\ Stack([sc EXCEPT ![rec] = r])
       /\ Whole([sc EXCEPT ![rec] = r], rec, first, u, upto + count, ps2, len + count)
  <2> DEFINE len2 == len + count
             upto2 == upto + count
  <2>1. len2 <= MaxLength /\ Fits(ps2, len2, new, {}) /\ upto2 = r.start + r.count
    BY <1>max, <1>20, <1>25
  <2>2. Edit(r, rec, T[n - 1], new, B[n - 1], PlacesIn(ps2))
    BY <1>24 DEF prev, before, places
  <2> HIDE DEF len2, upto2
  <2>3. /\ Stack([sc EXCEPT ![rec] = r])
        /\ Whole([sc EXCEPT ![rec] = r], rec, first, u, upto2, ps2, len2)
    <3>1. Lengthens(sc, rec, first, u, upto, ps, len, n, C, T, B, r, new, ps2, len2, upto2)
      BY <1>0, <2>1, <2>2, <1>1, <1>7, <1>13, <1>25 DEF Lengthens
    <3> QED BY ZenonT(60), <3>1, LengthenedTo
  <2> QED BY <2>3 DEF len2, upto2
<1> QED BY <1>26 DEF r, z, Typed
-----------------------------------------------------------------------------
(* Each edit, of the stream as a whole.                                    *)

Stands(sc, rec, first, u, upto, ps, len) ==
  Stack(sc) /\ Whole(sc, rec, first, u, upto, ps, len) /\ len <= MaxLength

Oldest(sc, first) == IF first = 0 THEN Len(sc) + 1 ELSE first

LEMMA StandsIs ==
  ASSUME NEW sc, NEW rec, NEW first, NEW u, NEW upto, NEW ps, NEW len, Stands(sc, rec, first, u, upto, ps, len)
  PROVE  Lies(ps, 0, len) /\ len \in Nat /\ (ps = <<>> <=> len = 0)
<1>1. PICK n, C, T, B : WholeBy(sc, rec, first, u, upto, ps, len, n, C, T, B)
  BY DEF Stands, Whole
<1>2. Lies(ps, 0, len)
  BY <1>1 DEF WholeBy, Fits
<1>3. len \in Nat /\ (ps = <<>> <=> 0 = len)
  BY <1>2, CutIs, Ordered
<1> QED BY <1>2, <1>3

(* The table cut in other places, with nothing said otherwise.             *)
LEMMA Recut ==
  ASSUME NEW sc, NEW rec, NEW first, NEW u, NEW upto, NEW ps, NEW len, Stands(sc, rec, first, u, upto, ps, len),
         NEW ps2, Lies(ps2, 0, len), \A text : Shows(ps, text) => Shows(ps2, text),
         \A x : Meets(ps, 0, x) => Meets(ps2, 0, x)
  PROVE  Stands(sc, rec, first, u, upto, ps2, len)
<1>1. PICK n, C, T, B : WholeBy(sc, rec, first, u, upto, ps, len, n, C, T, B)
  BY DEF Stands, Whole
<1>2. Fits(ps2, len, T[n], B[n])
  BY <1>1 DEF WholeBy, Fits
<1>3. WholeBy(sc, rec, first, u, upto, ps2, len, n, C, T, B)
  BY <1>1, <1>2 DEF WholeBy
<1> QED BY <1>3 DEF Stands, Whole

(* The last record closed.                                                 *)
LEMMA Closed ==
  ASSUME NEW sc, NEW rec, NEW first, NEW u, NEW upto, NEW ps, NEW len, Stands(sc, rec, first, u, upto, ps, len)
  PROVE  Stands(sc, rec, first, u, -1, ps, len)
<1>1. PICK n, C, T, B : WholeBy(sc, rec, first, u, upto, ps, len, n, C, T, B)
  BY DEF Stands, Whole
<1>2. Open(sc, n, C, u, -1)
  BY DEF Open
<1>3. WholeBy(sc, rec, first, u, -1, ps, len, n, C, T, B)
  BY <1>1, <1>2 DEF WholeBy
<1> QED BY <1>3 DEF Stands, Whole

(* What both halves of a cut say, the table says, and the other way round. *)
LEMMA BothShow ==
  ASSUME NEW p, NEW q, NEW a, NEW b, NEW c, Lies(p, a, b), Lies(q, b, c), NEW text
  PROVE  Shows(p \o q, text) <=> Shows(p, text) /\ Shows(q, text)
<1>1. p \in Seq(Bits) /\ q \in Seq(Bits)
  BY CutIs
<1>2. PICK j \in Seq(Bits) : j = p \o q /\ Lies(j, a, c) /\ Len(j) = Len(p) + Len(q)
  BY JoinedLies
<1>3. Len(p) \in Nat /\ Len(q) \in Nat
  BY <1>1, LenProperties
<1>4. SubSeq(j, 1, Len(p)) = p /\ SubSeq(j, Len(p) + 1, Len(j)) = q
  BY <1>1, <1>2, PartsOf
<1>5. Shows(j, text) => Shows(SubSeq(j, 0 + 1, Len(p)), text)
  <2>1. 0 \in 0..Len(j) /\ Len(p) \in 0..Len(j)
    BY <1>2, <1>3
  <2> QED BY <2>1, <1>2, Parted
<1>6. Shows(j, text) => Shows(SubSeq(j, Len(p) + 1, Len(j)), text)
  <2>1. Len(p) \in 0..Len(j) /\ Len(j) \in Len(p)..Len(j)
    BY <1>2, <1>3
  <2> QED BY <2>1, <1>2, Parted
<1>7. Shows(j, text) => Shows(p, text) /\ Shows(q, text)
  <2>1. \A x : Shows(j, text) /\ SubSeq(j, Len(p) + 1, Len(j)) = x => Shows(x, text)
    BY <1>6
  <2>2. \A x : Shows(j, text) /\ SubSeq(j, 1, Len(p)) = x => Shows(x, text)
    <3>1. 0 + 1 = 1
      OBVIOUS
    <3> QED BY <3>1, <1>5
  <2> QED BY <2>1, <2>2, <1>4
<1>8. Shows(p, text) /\ Shows(q, text) => Shows(p \o q, text)
  BY JoinedShows
<1> QED BY <1>2, <1>7, <1>8

(* A cut at a place leaves nothing between its halves.                     *)
KeepsAll(ps, cut) == /\ \A text : Shows(ps, text) => Shows(cut, text)
                     /\ \A x : Meets(ps, 0, x) => Meets(cut, 0, x)

LEMMA OpensParts ==
  ASSUME NEW cut, NEW ps, NEW here, NEW at, NEW b, NEW p, NEW q, Opens(cut, ps, here, at, b, p, q)
  PROVE  Parts(cut, at, at, b, p, <<>>, q) /\ KeepsAll(ps, cut) /\ Lies(cut, 0, b)
<1>1. /\ cut = p \o q /\ Lies(p, 0, at) /\ Lies(q, at, b)
      /\ \A text : Shows(ps, text) => Shows(p, text) /\ Shows(q, text)
      /\ \A x : Meets(ps, 0, x) => Meets(p, 0, x) \/ Meets(q, at, x)
  BY DEF Opens
<1>2. at \in Nat /\ p \in Seq(Bits)
  BY <1>1, CutIs
<1>3. Lies(<<>>, at, at) /\ \A text : Shows(<<>>, text)
  BY <1>2, NoPiece
<1>4. p \o <<>> = p
  BY <1>2
<1>5. \A text : Shows(cut, text) <=> Shows(p, text) /\ Shows(q, text)
  BY <1>1, BothShow
<1>6. \A x : Meets(cut, 0, x) <=> Meets(p, 0, x) \/ Meets(q, at, x)
  BY <1>1, MeetsJoined
<1>7. Lies(cut, 0, b)
  BY <1>1, JoinedLies
<1> QED BY <1>1, <1>3, <1>4, <1>5, <1>6, <1>7 DEF Parts, KeepsAll

(* A region replaced (ps_replace), whether the write succeeds or fails.    *)
Region(sc, rec, first, u, upto, ps, len, found, s, e, count, cut, r, tab) ==
  /\ Stands(sc, rec, first, u, upto, ps, len) /\ Len(sc) < MaxWrites
  /\ s \in Nat /\ e \in 1..len /\ s < e /\ count \in Nat /\ len + count <= MaxLength
  /\ Holds(ps, found, s) /\ cut = CutFrom(ps, found, s, e)
  /\ r = [prev |-> rec, start |-> s, stop |-> e, deleted |-> SubSeq(cut.ps, cut.from, cut.upto), count |-> count]
  /\ tab = RegionTable(cut.ps, cut.from, cut.upto, count, Len(sc) + 1)

RegionDone(sc, rec, first, u, upto, ps, len, s, e, count, cut, r, tab) ==
  /\ Stands(Append(sc, r), Len(sc) + 1, Oldest(sc, first), u, s + count, tab, len + (count - (e - s)))
  /\ Stands(sc, rec, first, u, upto, cut.ps, len)
  /\ LengthOf(SubSeq(cut.ps, cut.from, cut.upto)) = e - s

LEMMA RegionReplaced ==
  ASSUME NEW sc, NEW rec, NEW first, NEW u, NEW upto, NEW ps, NEW len, NEW found, NEW s, NEW e, NEW count,
         NEW cut, NEW r, NEW tab, Region(sc, rec, first, u, upto, ps, len, found, s, e, count, cut, r, tab)
  PROVE  RegionDone(sc, rec, first, u, upto, ps, len, s, e, count, cut, r, tab)
<1> DEFINE c == Len(sc) + 1
           d == count - (e - s)
           mid == Filled(c, count, s)
<1>1. /\ Stack(sc) /\ Len(sc) < MaxWrites /\ Whole(sc, rec, first, u, upto, ps, len) /\ len <= MaxLength
      /\ s \in Nat /\ e \in 1..len /\ s < e /\ count \in Nat /\ len + count <= MaxLength
      /\ Holds(ps, found, s) /\ cut = CutFrom(ps, found, s, e)
      /\ r = [prev |-> rec, start |-> s, stop |-> e, deleted |-> SubSeq(cut.ps, cut.from, cut.upto), count |-> count]
      /\ tab = RegionTable(cut.ps, cut.from, cut.upto, count, c)
      /\ Stands(sc, rec, first, u, upto, ps, len)
  BY DEF Region, Stands
<1> HIDE DEF c, d, mid
<1>2. Lies(ps, 0, len) /\ len \in Nat
  BY <1>1, StandsIs
<1>3. PICK p, m, q \in Seq(Bits) : CutsAs(ps, s, e, len, cut, p, m, q)
  BY <1>1, <1>2, CutFromIs
<1>4. /\ Parts(cut.ps, s, e, len, p, m, q)
      /\ cut.from = Len(p) + 1 /\ cut.upto = Len(p) + Len(m) /\ m # <<>>
      /\ \A text : Shows(ps, text) => Shows(cut.ps, text)
      /\ \A x : Meets(ps, 0, x) => Meets(cut.ps, 0, x)
  BY <1>3 DEF CutsAs
<1>5. c \in Source /\ count \in 0..MaxLength /\ e \in Nat /\ d \in Int /\ len + d <= MaxLength /\ s <= MaxLength /\ e <= MaxLength
  <2>1. Len(sc) \in Nat
    BY <1>1 DEF Stack
  <2> QED BY <2>1, <1>1, <1>2, PieceAssumption DEF c, d, Source
<1>6. /\ SubSeq(cut.ps, cut.from, cut.upto) = m /\ LengthOf(m) = e - s
      /\ tab = (p \o mid) \o Moved(q, 1, d)
  <2> DEFINE t == cut.ps
  <2>1. Parts(t, s, e, len, p, m, q) /\ m # <<>>
    BY <1>4
  <2> HIDE DEF t
  <2>2. RegionAs(t, s, e, p, m, q, c, count)
    BY <2>1, <1>5, RegionIs
  <2> QED BY <2>2, <1>1, <1>4 DEF RegionAs, t, mid, d
<1>7. m \in Seq(Piece) /\ Lies(m, s, e)
  <2>1. Lies(m, s, e)
    BY <1>4 DEF Parts
  <2> QED BY <2>1, <1>5, LiesArePieces
<1>8. rec \in Source
  <2>1. PICK n, C, T, B : WholeBy(sc, rec, first, u, upto, ps, len, n, C, T, B)
    BY <1>1 DEF Whole
  <2>2. Chain(sc, n, C, T, B) /\ rec = C[n]
    BY <2>1 DEF WholeBy
  <2>3. Known(sc, n, C, T, B)
    BY <2>2, <1>1, ChainIs
  <2>4. n \in 0..n
    BY <2>3 DEF Known
  <2> QED BY <2>2, <2>3, <2>4 DEF Known
<1>9. /\ r \in Record /\ r.prev = rec /\ r.start = s /\ r.stop = e /\ r.deleted = m /\ r.count = count
  <2>1. r = [prev |-> rec, start |-> s, stop |-> e, deleted |-> m, count |-> count]
    BY <1>1, <1>6
  <2> QED BY <2>1, <1>1, <1>5, <1>7, <1>8 DEF Record
<1>10. ~IsOfPieces(r)
  BY <1>1, <1>5, <1>9 DEF IsOfPieces
<1> DEFINE ins == InsertedBy(r, Len(sc) + 1)
<1>11. Len(ins) = count /\ \A x \in 1..count : ins[x] = <<c, x>>
  <2>1. Len(InsertedBy(r, c)) = r.count /\ \A x \in 1..r.count : InsertedBy(r, c)[x] = <<c, x>>
    BY <1>5, <1>9, <1>10, InsertedIs
  <2> QED BY <2>1, <1>9 DEF c
<1> HIDE DEF ins
<1>12. Lies(mid, s, s + count)
  <2> DEFINE f == [y \in 1..(s + count) |-> <<c, y - s>>]
  <2>1. \A y \in 1..count : f[s + y] = <<c, y>>
    <3> TAKE y \in 1..count
    <3>1. s + y \in 1..(s + count) /\ (s + y) - s = y
      BY <1>1
    <3> QED BY <3>1
  <2> HIDE DEF f
  <2> QED BY <2>1, <1>1, <1>5, FilledIs DEF mid
<1>13. ASSUME NEW new, \A x \in 1..count : new[s + x] = ins[x] PROVE Shows(mid, new)
  <2>1. \A x \in 1..count : new[s + x] = <<c, x>>
    BY <1>11, <1>13
  <2> QED BY <2>1, <1>1, <1>5, FilledIs DEF mid
<1>14. Rewrote(sc, first, u, r, p, mid, q, d, len, s + count)
  <2>1. s <= e /\ s = r.start /\ e = r.stop
    BY <1>1, <1>5, <1>9
  <2>2. d = count - (e - s)
    BY DEF d
  <2>3. IF IsOfPieces(r) THEN r.count = 0 /\ r.deleted = mid ELSE r.deleted = m
    BY <1>9, <1>10
  <2>4. s + count = r.start + r.count
    BY <1>9
  <2>5. ins = InsertedBy(r, Len(sc) + 1)
    BY DEF ins
  <2>6. Rewrites(sc, rec, first, u, upto, ps, len, r, cut.ps, p, m, q, ins, mid, count, d, s + count)
    BY <2>1, <2>2, <2>3, <2>4, <2>5, <1>1, <1>4, <1>5, <1>9, <1>10, <1>11, <1>12, <1>13 DEF Rewrites
  <2> QED BY <2>6, Rewritten
<1>15. Stands(sc, rec, first, u, upto, cut.ps, len)
  <2>1. Lies(cut.ps, 0, len)
    <3>1. /\ cut.ps = (p \o m) \o q /\ Lies(p, 0, s) /\ Lies(m, s, e) /\ Lies(q, e, len)
      BY <1>4 DEF Parts
    <3>2. PICK pm : pm = p \o m /\ Lies(pm, 0, e)
      BY <3>1, JoinedLies
    <3> QED BY <3>1, <3>2, JoinedLies
  <2> QED BY <2>1, <1>1, <1>4, Recut
<1> QED BY <1>5, <1>6, <1>14, <1>15 DEF RegionDone, Stands, Oldest, Rewrote, d
(* New text put in at a place of the table.                                *)
LEMMA RecordIs ==
  ASSUME NEW sc, NEW rec, NEW first, NEW u, NEW upto, NEW ps, NEW len, Stands(sc, rec, first, u, upto, ps, len)
  PROVE  rec \in Source /\ rec \in 0..Len(sc) /\ first \in 0..Len(sc) /\ Len(sc) \in Nat
<1>1. PICK n, C, T, B : WholeBy(sc, rec, first, u, upto, ps, len, n, C, T, B)
  BY DEF Stands, Whole
<1>2. Chain(sc, n, C, T, B) /\ rec = C[n] /\ first = IF n = 0 THEN 0 ELSE C[1]
  BY <1>1 DEF WholeBy
<1>3. Known(sc, n, C, T, B)
  BY <1>2, ChainIs DEF Stands
<1>4. n \in Nat /\ Len(sc) \in Nat /\ \A i \in 0..n : C[i] \in 0..Len(sc) /\ C[i] \in Source
  BY <1>3 DEF Known
<1>5. n \in 0..n /\ (n # 0 => 1 \in 0..n)
  BY <1>4
<1> QED BY <1>2, <1>4, <1>5

LEMMA FilledLies ==
  ASSUME NEW c \in Source, NEW count \in 0..MaxLength, NEW s \in Nat
  PROVE  Lies(Filled(c, count, s), s, s + count)
<1> DEFINE f == [y \in 1..(s + count) |-> <<c, y - s>>]
<1>1. \A y \in 1..count : f[s + y] = <<c, y>>
  <2> TAKE y \in 1..count
  <2>1. count \in Nat
    BY PieceAssumption
  <2>2. s + y \in 1..(s + count) /\ (s + y) - s = y
    BY <2>1
  <2> QED BY <2>2
<1> HIDE DEF f
<1> QED BY <1>1, FilledIs

Puts(sc, rec, first, u, upto, ps, len, at, count, r, t, p, q, tab) ==
  /\ Stands(sc, rec, first, u, upto, ps, len) /\ Len(sc) < MaxWrites
  /\ at \in 0..len /\ count \in Nat \ {0} /\ len + count <= MaxLength
  /\ r = [prev |-> rec, start |-> at, stop |-> at, deleted |-> <<>>, count |-> count]
  /\ Parts(t, at, at, len, p, <<>>, q) /\ KeepsAll(ps, t)
  /\ tab = (p \o Filled(Len(sc) + 1, count, at)) \o Moved(q, 1, count)

LEMMA TextPut ==
  ASSUME NEW sc, NEW rec, NEW first, NEW u, NEW upto, NEW ps, NEW len, NEW at, NEW count, NEW r, NEW t, NEW p, NEW q,
         NEW tab, Puts(sc, rec, first, u, upto, ps, len, at, count, r, t, p, q, tab)
  PROVE  Stands(Append(sc, r), Len(sc) + 1, Oldest(sc, first), u, at + count, tab, len + count)
<1> DEFINE c == Len(sc) + 1
           mid == Filled(c, count, at)
           ins == InsertedBy(r, Len(sc) + 1)
<1> HIDE DEF c, mid, ins
<1>1. /\ Stack(sc) /\ Len(sc) < MaxWrites /\ Whole(sc, rec, first, u, upto, ps, len) /\ len <= MaxLength
      /\ at \in 0..len /\ count \in Nat \ {0} /\ len + count <= MaxLength
      /\ r = [prev |-> rec, start |-> at, stop |-> at, deleted |-> <<>>, count |-> count]
      /\ Parts(t, at, at, len, p, <<>>, q)
      /\ \A text : Shows(ps, text) => Shows(t, text)
      /\ \A x : Meets(ps, 0, x) => Meets(t, 0, x)
      /\ tab = (p \o mid) \o Moved(q, 1, count)
      /\ Stands(sc, rec, first, u, upto, ps, len)
  BY DEF Puts, Stands, KeepsAll, mid, c
<1>2. len \in Nat /\ rec \in Source /\ Len(sc) \in Nat
  BY <1>1, StandsIs, RecordIs
<1>3. c \in Source /\ count \in 0..MaxLength /\ at \in Nat /\ at \in 0..MaxLength
  BY <1>1, <1>2, PieceAssumption DEF c, Source
<1>4. /\ r \in Record /\ r.prev = rec /\ r.start = at /\ r.stop = at /\ r.deleted = <<>> /\ r.count = count
  <2>1. <<>> \in Seq(Piece)
    OBVIOUS
  <2> QED BY <2>1, <1>1, <1>2, <1>3 DEF Record
<1>5. ~IsOfPieces(r)
  BY <1>4 DEF IsOfPieces
<1>6. Len(ins) = count /\ \A x \in 1..count : ins[x] = <<c, x>>
  <2>1. Len(InsertedBy(r, c)) = r.count /\ \A x \in 1..r.count : InsertedBy(r, c)[x] = <<c, x>>
    BY <1>3, <1>4, <1>5, InsertedIs
  <2> QED BY <2>1, <1>4 DEF c, ins
<1>7. Lies(mid, at, at + count)
  BY <1>3, FilledLies DEF mid
<1>8. ASSUME NEW new, \A x \in 1..count : new[at + x] = ins[x] PROVE Shows(mid, new)
  <2>1. \A x \in 1..count : new[at + x] = <<c, x>>
    BY <1>6, <1>8
  <2> QED BY <2>1, <1>3, FilledIs DEF mid
<1>9. Rewrites(sc, rec, first, u, upto, ps, len, r, t, p, <<>>, q, ins, mid, count, count, at + count)
  <2>1. at <= at /\ count = count - (at - at)
    BY <1>1, <1>3
  <2>2. ins = InsertedBy(r, Len(sc) + 1)
    BY DEF ins
  <2>3. \A new : (\A x \in 1..count : new[r.start + x] = ins[x]) => Shows(mid, new)
    BY <1>4, <1>8
  <2>4. IF IsOfPieces(r) THEN r.count = 0 /\ r.deleted = mid ELSE r.deleted = <<>>
    BY <1>4, <1>5
  <2> QED BY <2>1, <2>2, <2>3, <2>4, <1>1, <1>4, <1>5, <1>6, <1>7 DEF Rewrites
<1>10. Rewrote(sc, first, u, r, p, mid, q, count, len, at + count)
  BY <1>9, Rewritten
<1> QED BY <1>1, <1>10 DEF Rewrote, Stands, Oldest

Inserts(sc, rec, first, u, upto, ps, len, found, at, count, delta, here, g, r, tab) ==
  /\ Stands(sc, rec, first, u, upto, ps, len) /\ Len(sc) < MaxWrites
  /\ at \in 0..len /\ count \in Nat \ {0} /\ len + count <= MaxLength
  /\ Holds(ps, found, at) /\ delta = at - ps[found].pos /\ here = HereOf(found, delta) /\ g = GapAt(ps, found, delta)
  /\ r = [prev |-> rec, start |-> at, stop |-> at, deleted |-> <<>>, count |-> count]
  /\ tab = Moved(Written(Len(sc) + 1, count, here, g), here + 1, count)

LEMMA TextInserted ==
  ASSUME NEW sc, NEW rec, NEW first, NEW u, NEW upto, NEW ps, NEW len, NEW found, NEW at, NEW count, NEW delta,
         NEW here, NEW g, NEW r, NEW tab,
         Inserts(sc, rec, first, u, upto, ps, len, found, at, count, delta, here, g, r, tab)
  PROVE  /\ Stands(Append(sc, r), Len(sc) + 1, Oldest(sc, first), u, at + count, tab, len + count)
         /\ Stands(sc, rec, first, u, upto, CutOut(g, here, here + 1), len)
<1> DEFINE c == Len(sc) + 1
           t == OpenedAt(ps, found, delta)
<1> HIDE DEF c, t
<1>1. /\ Stands(sc, rec, first, u, upto, ps, len) /\ Len(sc) < MaxWrites
      /\ at \in 0..len /\ count \in Nat \ {0} /\ len + count <= MaxLength
      /\ Holds(ps, found, at) /\ delta = at - ps[found].pos /\ here = HereOf(found, delta) /\ g = GapAt(ps, found, delta)
      /\ r = [prev |-> rec, start |-> at, stop |-> at, deleted |-> <<>>, count |-> count]
      /\ tab = Moved(Written(c, count, here, g), here + 1, count)
  BY DEF Inserts, c
<1>2. Lies(ps, 0, len) /\ len \in Nat /\ Len(sc) \in Nat
  BY <1>1, StandsIs, RecordIs
<1>3. PICK p, q \in Seq(Bits) : \E z \in Bits : GapAs(ps, found, delta, at, len, p, q, z)
  BY <1>1, <1>2, GapIs
<1>4. PICK z \in Bits : GapAs(ps, found, delta, at, len, p, q, z)
  BY <1>3
<1>5. Opens(t, ps, here, at, len, p, q) /\ g = (p \o <<z>>) \o q /\ z.pos = at
  BY <1>1, <1>4 DEF GapAs, t
<1>6. Parts(t, at, at, len, p, <<>>, q) /\ KeepsAll(ps, t) /\ Lies(t, 0, len) /\ t = p \o q
  <2>1. t = p \o q
    BY <1>5 DEF Opens
  <2> QED BY <2>1, <1>5, OpensParts
<1>7. here = Len(p) + 1
  <2>1. Len(p) = here - 1 /\ Len(p) \in Nat
    BY <1>5, LenProperties DEF Opens
  <2>2. here \in Int
    <3>1. found \in 1..Len(ps) /\ Len(ps) \in Nat
      BY <1>1, <1>2, CutIs DEF Holds
    <3> QED BY <3>1, <1>1 DEF HereOf
  <2> QED BY <2>1, <2>2
<1>8. c \in Source /\ count \in 1..MaxLength
  BY <1>1, <1>2, PieceAssumption DEF c, Source
<1>9. FillsGap(c, count, at, here, g, p, q)
  BY <1>5, <1>7, <1>8, GapFilled
<1>10. /\ tab = (p \o Filled(c, count, at)) \o Moved(q, 1, count)
       /\ CutOut(g, here, here + 1) = t
  BY <1>1, <1>6, <1>9 DEF FillsGap
<1>11. Puts(sc, rec, first, u, upto, ps, len, at, count, r, t, p, q, tab)
  BY <1>1, <1>6, <1>10 DEF Puts, c
<1>12. Stands(Append(sc, r), Len(sc) + 1, Oldest(sc, first), u, at + count, tab, len + count)
  BY <1>11, TextPut
<1>13. Stands(sc, rec, first, u, upto, t, len)
  BY <1>1, <1>6, Recut DEF KeepsAll
<1> QED BY <1>10, <1>12, <1>13

(* Into a document without text.                                           *)
LEMMA FirstInserted ==
  ASSUME NEW sc, NEW rec, NEW first, NEW u, NEW upto, Stands(sc, rec, first, u, upto, <<>>, 0), Len(sc) < MaxWrites,
         NEW count \in Nat \ {0}, count <= MaxLength,
         NEW r, r = [prev |-> rec, start |-> 0, stop |-> 0, deleted |-> <<>>, count |-> count],
         NEW tab, tab = Moved(<<[pos |-> 0, len |-> count, src |-> Len(sc) + 1, off |-> 0]>>, 2, count)
  PROVE  Stands(Append(sc, r), Len(sc) + 1, Oldest(sc, first), u, count, tab, count)
<1> DEFINE none == <<>>
           c == Len(sc) + 1
           mid == Filled(c, count, 0)
<1>1. none \in Seq(Bits) /\ none \in Seq(Rows) /\ Len(none) = 0
  OBVIOUS
<1>2. c \in Source /\ count \in 0..MaxLength /\ 0 \in Nat
  <2>1. Len(sc) \in Nat
    BY RecordIs
  <2> QED BY <2>1, PieceAssumption DEF Source
<1>3. Lies(mid, 0, 0 + count)
  <2> HIDE DEF mid, c
  <2> QED BY <1>2, FilledLies DEF mid
<1>4. mid \in Seq(Bits) /\ Len(mid) = 1 /\ mid \in Seq(Rows) /\ mid = <<[pos |-> 0, len |-> count, src |-> c, off |-> 0]>>
  <2>1. mid \in Seq(Bits)
    BY <1>3, CutIs
  <2>2. mid = <<[pos |-> 0, len |-> count, src |-> c, off |-> 0]>>
    BY DEF Filled
  <2>3. Len(mid) = 1
    BY <2>2
  <2> HIDE DEF mid
  <2> QED BY <2>1, <2>2, <2>3, BitsAreRows
<1> HIDE DEF mid, c, none
<1>5. Lies(none, 0, 0) /\ \A text : Shows(none, text)
  BY NoPiece DEF none
<1>6. none \o none = none /\ (none \o none) \o none = none /\ none \o mid = mid
  <2>1. \A x \in Seq(Bits) : <<>> \o x = x /\ x \o <<>> = x
    OBVIOUS
  <2> QED BY <2>1, <1>1, <1>4 DEF none
<1>7. Parts(none, 0, 0, 0, none, none, none)
  BY <1>5, <1>6 DEF Parts
<1>8. KeepsAll(<<>>, none)
  BY DEF KeepsAll, none
<1>9. tab = (none \o mid) \o Moved(none, 1, count)
  <2>1. Moved(mid \o none, 2, count) = mid \o Moved(none, 1, count)
    <3>1. count \in Int
      OBVIOUS
    <3>2. \A x, y \in Seq(Bits) : \A k : k = Len(x) + 1 => Moved(x \o y, k, count) = x \o Moved(y, 1, count)
      BY <3>1, RestMoved
    <3>3. PICK k : k = 2 /\ k = Len(mid) + 1
      <4>1. 2 = Len(mid) + 1
        BY <1>4
      <4> QED BY <4>1
    <3>4. mid \in Seq(Bits) /\ none \in Seq(Bits)
      BY <1>1, <1>4
    <3>5. Moved(mid \o none, k, count) = mid \o Moved(none, 1, count)
      BY <3>2, <3>3, <3>4
    <3> QED BY <3>3, <3>5
  <2>2. mid \o none = mid
    <3>1. \A x \in Seq(Bits) : x \o <<>> = x
      OBVIOUS
    <3> QED BY <3>1, <1>4 DEF none
  <2>3. tab = Moved(mid, 2, count)
    BY <1>4 DEF c
  <2> QED BY <2>1, <2>2, <2>3, <1>6
<1>10. Puts(sc, rec, first, u, upto, <<>>, 0, 0, count, r, none, none, none, tab)
  <2>1. 0 \in 0..0 /\ 0 + count <= MaxLength
    BY <1>2
  <2> QED BY <2>1, <1>7, <1>8, <1>9 DEF Puts, mid, none, c
<1>11. Stands(Append(sc, r), Len(sc) + 1, Oldest(sc, first), u, 0 + count, tab, 0 + count)
  BY <1>10, TextPut
<1>12. 0 + count = count
  BY <1>2
<1> QED BY <1>11, <1>12
(* Pieces put in at a place of the table (ps_insert_pieces).               *)
CutAny(ps, at) == IF \/ DeltaAny(ps, at) = 0
                     \/ ps = <<>>
                     \/ FoundAny(ps, at) = Len(ps) /\ DeltaAny(ps, at) = ps[FoundAny(ps, at)].len
                  THEN ps ELSE Split(ps, FoundAny(ps, at), DeltaAny(ps, at))

LEMMA CutAnyIs ==
  ASSUME NEW ps, NEW b, Lies(ps, 0, b), NEW at \in 0..b
  PROVE  \E p, q \in Seq(Bits) : Opens(CutAny(ps, at), ps, HereAny(ps, at), at, b, p, q)
<1> DEFINE found == IF ps = <<>> THEN 1 ELSE Bounding(ps, at)
           delta == IF ps = <<>> THEN 0 ELSE at - ps[found].pos
           atEnd == ps = <<>> \/ (found = Len(ps) /\ delta = ps[found].len)
           cut   == IF delta = 0 \/ atEnd THEN ps ELSE Split(ps, found, delta)
<1>1. /\ \E p, q \in Seq(Bits) : Opens(cut, ps, HereOf(found, delta), at, b, p, q)
      /\ (Meets(ps, 0, at) => cut = ps)
  BY OpenedAny
<1>2. found = FoundAny(ps, at) /\ delta = DeltaAny(ps, at)
  BY DEF FoundAny, DeltaAny
<1>3. HereOf(found, delta) = HereAny(ps, at)
  BY <1>2 DEF HereAny
<1> HIDE DEF found, delta
<1>4. cut = CutAny(ps, at)
  BY <1>2 DEF CutAny
<1> HIDE DEF cut
<1> QED BY <1>1, <1>3, <1>4

PutsPieces(sc, rec, first, u, upto, ps, len, sp, x, y, at, k, new, r, tab) ==
  /\ Stands(sc, rec, first, u, upto, ps, len) /\ Len(sc) < MaxWrites
  /\ at \in 0..len /\ Lies(sp, x, y) /\ sp # <<>> /\ k = LengthOf(sp) /\ len + k <= MaxLength
  /\ new = Moved(sp, 1, at - sp[1].pos)
  /\ r = [prev |-> rec, start |-> at, stop |-> at, deleted |-> new, count |-> 0]
  /\ tab = Moved(PutIn(CutAny(ps, at), HereAny(ps, at), new), HereAny(ps, at) + Len(new), k)

LEMMA PiecesInserted ==
  ASSUME NEW sc, NEW rec, NEW first, NEW u, NEW upto, NEW ps, NEW len, NEW sp, NEW x, NEW y, NEW at, NEW k, NEW new,
         NEW r, NEW tab, PutsPieces(sc, rec, first, u, upto, ps, len, sp, x, y, at, k, new, r, tab)
  PROVE  Stands(Append(sc, r), Len(sc) + 1, Oldest(sc, first), u, -1, tab, len + k) /\ k \in Nat
<1> DEFINE c == Len(sc) + 1
           t == CutAny(ps, at)
           here == HereAny(ps, at)
           ins == InsertedBy(r, Len(sc) + 1)
<1> HIDE DEF c, t, here, ins
<1>1. /\ Stack(sc) /\ Len(sc) < MaxWrites /\ Whole(sc, rec, first, u, upto, ps, len) /\ len <= MaxLength
      /\ at \in 0..len /\ Lies(sp, x, y) /\ sp # <<>> /\ k = LengthOf(sp) /\ len + k <= MaxLength
      /\ new = Moved(sp, 1, at - sp[1].pos)
      /\ r = [prev |-> rec, start |-> at, stop |-> at, deleted |-> new, count |-> 0]
      /\ tab = Moved(PutIn(t, here, new), here + Len(new), k)
      /\ Stands(sc, rec, first, u, upto, ps, len)
  BY DEF PutsPieces, Stands, t, here
<1>2. Lies(ps, 0, len) /\ len \in Nat /\ rec \in Source /\ Len(sc) \in Nat
  BY <1>1, StandsIs, RecordIs
<1>3. /\ sp[1].pos = x /\ x \in Nat /\ y \in Nat /\ k = y - x /\ k \in Nat \ {0} /\ Len(sp) \in Nat \ {0}
  <2>1. Len(sp) \in Nat /\ x \in Nat /\ y \in Nat /\ sp \in Seq(Bits)
        /\ \A i \in 1..Len(sp) : sp[i].pos = Cut(sp, x, i - 1)
    BY <1>1, CutIs
  <2>2. Len(sp) # 0
    BY <2>1, <1>1, EmptySeq
  <2>3. 1 \in 1..Len(sp)
    BY <2>1, <2>2
  <2>4. sp[1].pos = Cut(sp, x, 1 - 1)
    BY <2>1, <2>3
  <2>5. Cut(sp, x, 1 - 1) = x
    BY DEF Cut
  <2>6. k = y - x
    BY <1>1, LengthIs
  <2>7. x <= y /\ x # y
    <3>1. 0 \in 0..Len(sp) /\ Cut(sp, x, 0) = x
      BY <2>1 DEF Cut
    <3> QED BY <3>1, <1>1, Ordered
  <2> QED BY <2>1, <2>2, <2>4, <2>5, <2>6, <2>7
<1>4. at \in Nat /\ at + k <= MaxLength /\ at \in 0..MaxLength /\ c \in Source
  BY SMTT(30), <1>1, <1>2, <1>3, PieceAssumption DEF c, Source
<1>5. Lies(new, at, at + k) /\ Len(new) = Len(sp)
  <2> DEFINE d == at - x
  <2>1. d \in Int /\ x + d = at /\ y + d = at + k /\ x + d >= 0
    BY <1>3, <1>4
  <2>2. new = Moved(sp, 1, d)
    BY <1>1, <1>3
  <2> HIDE DEF d
  <2>3. Lies(Moved(sp, 1, d), x + d, y + d) /\ Len(Moved(sp, 1, d)) = Len(sp)
    BY <2>1, <1>1, Shifted
  <2> QED BY <2>1, <2>2, <2>3
<1>6. new \in Seq(Bits) /\ new \in Seq(Piece) /\ new # <<>>
  <2>1. new \in Seq(Bits) /\ new \in Seq(Piece)
    BY <1>4, <1>5, CutIs, LiesArePieces
  <2>2. Len(<<>>) = 0
    OBVIOUS
  <2> QED BY <2>1, <2>2, <1>3, <1>5
<1>7. PICK p, q \in Seq(Bits) : Opens(t, ps, here, at, len, p, q)
  BY <1>1, <1>2, CutAnyIs DEF t, here
<1>8. t = p \o q /\ here = Len(p) + 1 /\ Lies(p, 0, at) /\ Lies(q, at, len)
  <2>1. t = p \o q /\ Len(p) = here - 1 /\ Len(p) \in Nat /\ Lies(p, 0, at) /\ Lies(q, at, len)
    BY <1>7, LenProperties DEF Opens
  <2>2. here \in Int
    <3>1. FoundAny(ps, at) \in Int
      <4>1. CASE ps = <<>>
        BY <4>1 DEF FoundAny
      <4>2. CASE ps # <<>>
        <5>1. Holds(ps, Bounding(ps, at), at)
          BY <4>2, <1>2, <1>4, BoundingIn
        <5>2. Bounding(ps, at) \in 1..Len(ps) /\ Len(ps) \in Nat
          BY <5>1, <1>2, CutIs DEF Holds
        <5> QED BY <5>2, <4>2 DEF FoundAny
      <4> QED BY <4>1, <4>2
    <3> QED BY <3>1 DEF here, HereAny, HereOf
  <2> QED BY <2>1, <2>2
<1>9. Parts(t, at, at, len, p, <<>>, q) /\ KeepsAll(ps, t)
  BY <1>7, OpensParts
<1>10. tab = (p \o new) \o Moved(q, 1, k)
  <2>1. PutIn(p \o q, Len(p) + 1, new) = (p \o new) \o q
    BY <1>6, PutInParts
  <2>2. PICK pn \in Seq(Bits) : pn = p \o new
    BY <1>6, ConcatProperties
  <2>3. Len(pn) = Len(p) + Len(new) /\ Len(p) \in Nat
    <3>1. Len(p \o new) = Len(p) + Len(new)
      BY <1>6, ConcatProperties
    <3> QED BY <3>1, <2>2, LenProperties
  <2>4. PICK h : h = here + Len(new) /\ h = Len(pn) + 1
    <3>1. here + Len(new) = Len(pn) + 1
      BY <2>3, <1>3, <1>5, <1>8
    <3> QED BY <3>1
  <2>5. \A a, b \in Seq(Bits) : \A i : i = Len(a) + 1 => Moved(a \o b, i, k) = a \o Moved(b, 1, k)
    <3>1. k \in Int
      BY <1>3
    <3> QED BY <3>1, RestMoved
  <2>6. Moved(pn \o q, h, k) = pn \o Moved(q, 1, k)
    BY <2>4, <2>5
  <2> QED BY <2>1, <2>2, <2>4, <2>6, <1>1, <1>8
<1>11. /\ r \in Record /\ r.prev = rec /\ r.start = at /\ r.stop = at /\ r.deleted = new /\ r.count = 0
  BY <1>1, <1>2, <1>4, <1>6, PieceAssumption DEF Record
<1>12. IsOfPieces(r)
  BY <1>6, <1>11 DEF IsOfPieces
<1>13. ins = Denotes(new)
  BY <1>11, <1>12 DEF ins, InsertedBy
<1>14. /\ ins \in Seq(Char) /\ Len(ins) = k
       /\ \A i \in 1..Len(new) : \A j \in 1..new[i].len : ins[(new[i].pos - at) + j] = <<new[i].src, new[i].off + j>>
  <2>1. /\ Denotes(new) \in Seq(Char) /\ Len(Denotes(new)) = (at + k) - at
        /\ \A i \in 1..Len(new) : \A j \in 1..new[i].len :
              Denotes(new)[(new[i].pos - at) + j] = <<new[i].src, new[i].off + j>>
    BY <1>5, DenotesIs
  <2>2. (at + k) - at = k
    BY <1>3, <1>4
  <2> QED BY <2>1, <2>2, <1>13
<1>15. ASSUME NEW text, \A i \in 1..k : text[at + i] = ins[i] PROVE Shows(new, text)
  <2> SUFFICES ASSUME NEW i \in 1..Len(new), NEW j \in 1..new[i].len
               PROVE  text[new[i].pos + j] = <<new[i].src, new[i].off + j>>
    BY DEF Shows
  <2>1. PICK z \in 1..k : z = (new[i].pos - at) + j /\ at + z = new[i].pos + j
    <3>1. /\ Len(new) \in Nat /\ i \in 0..Len(new) /\ i - 1 \in 0..Len(new) /\ Cut(new, at, i) \in Nat
          /\ new[i].pos = Cut(new, at, i - 1) /\ Cut(new, at, i) = Cut(new, at, i - 1) + new[i].len
          /\ new[i].pos \in Nat /\ new[i].len \in Nat
      BY SMTT(30), <1>5, CutIs
    <3>2. at <= Cut(new, at, i - 1) /\ Cut(new, at, i) <= at + k
      BY <3>1, <1>5, Ordered
    <3> DEFINE a == new[i].pos
               b == new[i].len
    <3>3. a \in Nat /\ b \in Nat /\ at <= a /\ a + b <= at + k /\ j \in 1..b
      BY <3>1, <3>2
    <3> HIDE DEF a, b
    <3>4. (a - at) + j \in 1..k /\ at + ((a - at) + j) = a + j
      <4>1. k \in Nat /\ at \in Nat
        BY <1>3, <1>4
      <4>2. j \in Nat /\ 1 <= j /\ j <= b
        BY <3>3
      <4> QED BY <4>1, <4>2, <3>3
    <3> QED BY <3>4 DEF a
  <2>2. text[at + z] = ins[z]
    BY <1>15
  <2> QED BY <2>1, <2>2, <1>14
<1>16. Rewrites(sc, rec, first, u, upto, ps, len, r, t, p, <<>>, q, ins, new, k, k, -1)
  <2>1. at <= at /\ k = k - (at - at)
    BY <1>3, <1>4
  <2>2. ins = InsertedBy(r, Len(sc) + 1)
    BY DEF ins
  <2>3. \A text : (\A i \in 1..k : text[r.start + i] = ins[i]) => Shows(new, text)
    BY <1>11, <1>15
  <2>4. IF IsOfPieces(r) THEN r.count = 0 /\ r.deleted = new ELSE r.deleted = <<>>
    BY <1>11, <1>12
  <2>5. Lies(new, r.start, r.start + k) /\ k = Len(ins)
    BY <1>5, <1>11, <1>14
  <2>6. Parts(t, r.start, r.stop, len, p, <<>>, q) /\ r.start <= r.stop /\ k = k - (r.stop - r.start)
    BY <2>1, <1>9, <1>11
  <2> QED BY <2>2, <2>3, <2>4, <2>5, <2>6, <1>1, <1>9, <1>11 DEF Rewrites, KeepsAll
<1>17. Rewrote(sc, first, u, r, p, new, q, k, len, -1)
  BY <1>16, Rewritten
<1> QED BY <1>1, <1>3, <1>10, <1>17 DEF Rewrote, Stands, Oldest
-----------------------------------------------------------------------------
(* The marks, and the undo to one of them.                                 *)

MarkIn(sc) == [at : -1..Len(sc), text : Seq(Char)]

(* What an entry of the marks has to be.                                   *)
MarkStands(sc, n, C, T, w) ==
  w \in MarkIn(sc) /\ (IsMark(w) => \E k \in 0..n : Leaves(n, C, w.at, k) /\ T[k] = w.text)

LEMMA MarksAre ==
  ASSUME NEW sc, Len(sc) \in Nat, NEW n, NEW C, NEW T, NEW u, Marks(sc, n, C, T, u)
  PROVE  /\ UndoCount \in Nat \ {0, 1} /\ Len(u) = UndoCount /\ DOMAIN u = 1..UndoCount
         /\ \A i \in 1..UndoCount : MarkStands(sc, n, C, T, u[i]) /\ u[i].at \in -1..Len(sc)
         /\ \A i, j \in 1..UndoCount : i <= j => u[j].at <= u[i].at
<1>1. /\ u \in Seq(MarkIn(sc)) /\ Len(u) = UndoCount
      /\ \A i, j \in 1..Len(u) : i <= j => u[j].at <= u[i].at
      /\ \A i \in 1..Len(u) : IsMark(u[i]) => \E k \in 0..n : Leaves(n, C, u[i].at, k) /\ T[k] = u[i].text
  BY DEF Marks, MarkIn
<1>2. \A i \in 1..Len(u) : u[i] \in MarkIn(sc)
  BY <1>1, ElementOfSeq
<1>3. \A w \in MarkIn(sc) : w.at \in -1..Len(sc)
  BY DEF MarkIn
<1>4. DOMAIN u = 1..Len(u)
  BY <1>1, LenProperties
<1> QED BY <1>1, <1>2, <1>3, <1>4, PieceAssumption DEF MarkStands

LEMMA MarksFrom ==
  ASSUME NEW sc, Len(sc) \in Nat, NEW n, NEW C, NEW T, NEW u, u \in [1..UndoCount -> MarkIn(sc)],
         \A i \in 1..UndoCount : MarkStands(sc, n, C, T, u[i]),
         \A i, j \in 1..UndoCount : i <= j => u[j].at <= u[i].at
  PROVE  Marks(sc, n, C, T, u)
<1>1. UndoCount \in Nat
  BY PieceAssumption
<1>2. u \in Seq(MarkIn(sc)) /\ Len(u) = UndoCount
  BY <1>1
<1>3. \A i \in 1..UndoCount : IsMark(u[i]) => \E k \in 0..n : Leaves(n, C, u[i].at, k) /\ T[k] = u[i].text
  BY DEF MarkStands
<1> QED BY <1>2, <1>3 DEF Marks, MarkIn

(* The marks that move up when the newest is the present.                  *)
UpFrom(u, i) == CASE i <= UndoCount - 2 -> u[i + 1]
                  [] i = UndoCount - 1  -> u[i]
                  [] i = UndoCount      -> NoMark

LEMMA MarksUp ==
  ASSUME NEW sc, Len(sc) \in Nat, NEW n, NEW C, NEW T, NEW u, Marks(sc, n, C, T, u),
         NEW v, v = [i \in DOMAIN u |-> UpFrom(u, i)]
  PROVE  Marks(sc, n, C, T, v)
<1>1. /\ UndoCount \in Nat \ {0, 1} /\ Len(u) = UndoCount /\ DOMAIN u = 1..UndoCount
      /\ \A i \in 1..UndoCount : MarkStands(sc, n, C, T, u[i]) /\ u[i].at \in -1..Len(sc)
      /\ \A i, j \in 1..UndoCount : i <= j => u[j].at <= u[i].at
  BY MarksAre
<1>2. NoMark.at = -1 /\ NoMark \in MarkIn(sc) /\ MarkStands(sc, n, C, T, NoMark)
  <2>1. NoMark.at = -1 /\ NoMark \in MarkIn(sc)
    BY DEF NoMark, MarkIn
  <2>2. ~IsMark(NoMark)
    BY <2>1 DEF IsMark
  <2> QED BY <2>1, <2>2 DEF MarkStands
<1>3. ASSUME NEW i \in 1..UndoCount
      PROVE  \/ i = UndoCount /\ v[i] = NoMark
             \/ i # UndoCount /\ \E j \in 1..UndoCount : /\ v[i] = u[j] /\ (i <= UndoCount - 2 => j = i + 1)
                                                         /\ (i = UndoCount - 1 => j = i)
  <2>1. v[i] = UpFrom(u, i)
    BY <1>1
  <2>2. i <= UndoCount - 2 \/ i = UndoCount - 1 \/ i = UndoCount
    BY <1>1
  <2>3. CASE i <= UndoCount - 2
    <3>1. i + 1 \in 1..UndoCount /\ i # UndoCount /\ i # UndoCount - 1
      BY <2>3, <1>1
    <3>2. v[i] = u[i + 1]
      BY <2>1, <2>3, <3>1 DEF UpFrom
    <3> QED BY <3>1, <3>2
  <2>4. CASE i = UndoCount - 1
    <3>1. ~(i <= UndoCount - 2) /\ i # UndoCount
      BY <2>4, <1>1
    <3>2. v[i] = u[i]
      BY <2>1, <2>4, <3>1 DEF UpFrom
    <3> QED BY <3>1, <3>2
  <2>5. CASE i = UndoCount
    <3>1. ~(i <= UndoCount - 2) /\ i # UndoCount - 1
      BY <2>5, <1>1
    <3>2. v[i] = NoMark
      BY <2>1, <2>5, <3>1 DEF UpFrom
    <3> QED BY <3>2, <2>5
  <2> QED BY <2>2, <2>3, <2>4, <2>5
<1>4. \A i \in 1..UndoCount : MarkStands(sc, n, C, T, v[i]) /\ v[i] \in MarkIn(sc)
  <2>1. \A i \in 1..UndoCount : MarkStands(sc, n, C, T, v[i])
    BY <1>1, <1>2, <1>3
  <2> QED BY <2>1 DEF MarkStands
<1>5. ASSUME NEW i \in 1..UndoCount, NEW j \in 1..UndoCount, i <= j PROVE v[j].at <= v[i].at
  <2>1. CASE j = UndoCount
    <3>1. v[j].at = -1
      BY <2>1, <1>2, <1>3
    <3>2. v[i].at \in -1..Len(sc)
      BY <1>4 DEF MarkIn
    <3> QED BY <3>1, <3>2
  <2>2. CASE j # UndoCount
    <3>1. i # UndoCount
      BY <2>2, <1>1, <1>5
    <3>2. PICK a \in 1..UndoCount : /\ v[i] = u[a] /\ (i <= UndoCount - 2 => a = i + 1)
                                    /\ (i = UndoCount - 1 => a = i)
      BY <3>1, <1>3
    <3>3. PICK b \in 1..UndoCount : /\ v[j] = u[b] /\ (j <= UndoCount - 2 => b = j + 1)
                                    /\ (j = UndoCount - 1 => b = j)
      BY <2>2, <1>3
    <3>4. a <= b
      BY <3>1, <3>2, <3>3, <2>2, <1>1, <1>5
    <3> QED BY <3>2, <3>3, <3>4, <1>1
  <2> QED BY <2>1, <2>2
<1>6. v \in [1..UndoCount -> MarkIn(sc)]
  <2>1. DOMAIN v = 1..UndoCount /\ v = [i \in DOMAIN v |-> v[i]]
    BY <1>1
  <2> QED BY <2>1, <1>4
<1> QED BY <1>4, <1>5, <1>6, MarksFrom

(* The marks after textsw_checkpoint_undo.                                 *)
LEMMA MarksMore ==
  ASSUME NEW sc, Len(sc) \in Nat, NEW n, NEW C, NEW T, NEW u, Marks(sc, n, C, T, u),
         n \in Nat, C[n] \in Nat, C[n] <= Len(sc), T[n] \in Seq(Char),
         NEW w, w = [at |-> Len(sc), text |-> T[n]], NEW v, v = <<w>> \o SubSeq(u, 1, UndoCount - 1)
  PROVE  Marks(sc, n, C, T, v)
<1>1. /\ UndoCount \in Nat \ {0, 1} /\ Len(u) = UndoCount /\ DOMAIN u = 1..UndoCount
      /\ \A i \in 1..UndoCount : MarkStands(sc, n, C, T, u[i]) /\ u[i].at \in -1..Len(sc)
      /\ \A i, j \in 1..UndoCount : i <= j => u[j].at <= u[i].at
  BY MarksAre
<1>2. w \in MarkIn(sc) /\ w.at = Len(sc) /\ MarkStands(sc, n, C, T, w)
  <2>1. w \in MarkIn(sc) /\ w.at = Len(sc) /\ w.text = T[n]
    BY DEF MarkIn
  <2>2. Leaves(n, C, w.at, n) /\ n \in 0..n
    BY <2>1 DEF Leaves
  <2> QED BY <2>1, <2>2 DEF MarkStands
<1>3. u \in Seq(MarkIn(sc))
  BY DEF Marks, MarkIn
<1>4. /\ Len(v) = UndoCount /\ v \in Seq(MarkIn(sc)) /\ v[1] = w
      /\ \A i \in 2..UndoCount : v[i] = u[i - 1]
  <2>1. PICK h : h = UndoCount - 1 /\ h \in 0..Len(u)
    <3>1. UndoCount - 1 \in 0..Len(u)
      BY <1>1
    <3> QED BY <3>1
  <2>2. PICK s \in Seq(MarkIn(sc)) : s = SubSeq(u, 1, h) /\ Len(s) = h /\ \A i \in 1..h : s[i] = u[i]
    <3>1. SubSeq(u, 1, h) \in Seq(MarkIn(sc)) /\ Len(SubSeq(u, 1, h)) = h
      BY <2>1, <1>3, Halves
    <3>2. \A i \in 1..h : SubSeq(u, 1, h)[i] = u[i]
      BY <2>1, <1>1, <1>3
    <3> QED BY <3>1, <3>2
  <2>3. PICK o \in Seq(MarkIn(sc)) : o = <<w>> /\ Len(o) = 1 /\ o[1] = w
    BY <1>2, OneOf
  <2>4. v = o \o s
    BY <2>1, <2>2, <2>3
  <2>5. /\ o \o s \in Seq(MarkIn(sc)) /\ Len(o \o s) = Len(o) + Len(s)
        /\ \A i \in 1..(Len(o) + Len(s)) : (o \o s)[i] = IF i <= Len(o) THEN o[i] ELSE s[i - Len(o)]
    BY ConcatProperties
  <2>6. v \in Seq(MarkIn(sc)) /\ Len(v) = 1 + h /\ \A i \in 1..(1 + h) : v[i] = IF i <= 1 THEN o[i] ELSE s[i - 1]
    BY <2>2, <2>3, <2>4, <2>5
  <2>7. h \in Nat /\ 1 + h = UndoCount /\ 1 \in 1..(1 + h)
    BY <2>1, <1>1
  <2>8. v[1] = w
    BY <2>3, <2>6, <2>7
  <2>9. ASSUME NEW i \in 2..UndoCount PROVE v[i] = u[i - 1]
    <3>1. i \in 1..(1 + h) /\ ~(i <= 1) /\ i - 1 \in 1..h
      BY <2>7, <1>1
    <3> QED BY <3>1, <2>2, <2>6
  <2> QED BY <2>6, <2>7, <2>8, <2>9
<1>5. ASSUME NEW i \in 1..UndoCount
      PROVE  i = 1 \/ (i # 1 /\ i \in 2..UndoCount /\ \E j \in 1..UndoCount : j = i - 1 /\ v[i] = u[j])
  <2>1. CASE i # 1
    <3>1. i \in 2..UndoCount /\ i - 1 \in 1..UndoCount
      BY <2>1, <1>1
    <3> QED BY <3>1, <2>1, <1>4
  <2> QED BY <2>1
<1>6. \A i \in 1..UndoCount : MarkStands(sc, n, C, T, v[i])
  BY <1>1, <1>2, <1>4, <1>5
<1>7. ASSUME NEW i \in 1..UndoCount, NEW j \in 1..UndoCount, i <= j PROVE v[j].at <= v[i].at
  <2>1. CASE i = 1
    <3>1. v[j].at \in -1..Len(sc)
      BY <1>6 DEF MarkStands, MarkIn
    <3>2. v[i].at = Len(sc)
      BY <2>1, <1>2, <1>4
    <3>3. \A x \in -1..Len(sc) : x <= Len(sc)
      OBVIOUS
    <3> QED BY <3>1, <3>2, <3>3
  <2>2. CASE i # 1
    <3>1. j # 1
      BY <2>2, <1>1, <1>7
    <3>2. PICK a \in 1..UndoCount : a = i - 1 /\ v[i] = u[a]
      BY <2>2, <1>5
    <3>3. PICK b \in 1..UndoCount : b = j - 1 /\ v[j] = u[b]
      BY <3>1, <1>5
    <3>4. a <= b
      BY <3>2, <3>3, <1>1, <1>7
    <3> QED BY <3>2, <3>3, <3>4, <1>1
  <2> QED BY <2>1, <2>2
<1>8. v \in [1..UndoCount -> MarkIn(sc)]
  <2>1. DOMAIN v = 1..UndoCount /\ v = [i \in DOMAIN v |-> v[i]] /\ \A i \in 1..UndoCount : v[i] \in MarkIn(sc)
    BY <1>4, <1>6, LenProperties DEF MarkStands
  <2> QED BY <2>1
<1> QED BY <1>6, <1>7, <1>8, MarksFrom

(* The undo to a mark (ps_undo_to_mark), and the mark that is left of it.  *)
UndoesTo(sc, rec, first, u, upto, ps, len, pos, todo, un, rec2, first2, u2) ==
  /\ Stands(sc, rec, first, u, upto, ps, len) /\ IsMark(u[1]) /\ pos \in 0..len
  /\ todo = Backs(sc, u[1].at)[rec]
  /\ un = Undones(sc, todo, [ps |-> ps, len |-> len, pos |-> pos])[Len(todo)]
  /\ rec2 = IF todo = <<>> THEN rec ELSE sc[Last(todo)].prev
  /\ first2 = IF Contains(todo, first) THEN 0 ELSE first
  /\ u2 = [u EXCEPT ![1] = [at |-> Len(sc), text |-> Denotes(un.ps)]]

UndoneTo(sc, u, un, rec2, first2, u2) ==
  Stands(sc, rec2, first2, u2, -1, un.ps, un.len) /\ un.pos \in 0..un.len /\ Denotes(un.ps) = u[1].text

LEMMA UndoneToMark ==
  ASSUME NEW sc, NEW rec, NEW first, NEW u, NEW upto, NEW ps, NEW len, NEW pos, NEW todo, NEW un, NEW rec2,
         NEW first2, NEW u2, UndoesTo(sc, rec, first, u, upto, ps, len, pos, todo, un, rec2, first2, u2)
  PROVE  UndoneTo(sc, u, un, rec2, first2, u2)
<1> DEFINE mark == u[1].at
           st == [ps |-> ps, len |-> len, pos |-> pos]
<1>1. /\ Stack(sc) /\ IsMark(u[1]) /\ pos \in 0..len /\ todo = Backs(sc, mark)[rec]
      /\ un = Undones(sc, todo, st)[Len(todo)]
      /\ rec2 = IF todo = <<>> THEN rec ELSE sc[Last(todo)].prev
      /\ first2 = IF Contains(todo, first) THEN 0 ELSE first
      /\ u2 = [u EXCEPT ![1] = [at |-> Len(sc), text |-> Denotes(un.ps)]]
      /\ Whole(sc, rec, first, u, upto, ps, len)
  BY DEF UndoesTo, Stands
<1>2. PICK n, C, T, B : WholeBy(sc, rec, first, u, upto, ps, len, n, C, T, B)
  BY <1>1 DEF Whole
<1>3. /\ Chain(sc, n, C, T, B) /\ Fits(ps, len, T[n], B[n])
      /\ rec = C[n] /\ first = (IF n = 0 THEN 0 ELSE C[1]) /\ Marks(sc, n, C, T, u)
  BY <1>2 DEF WholeBy
<1>4. Known(sc, n, C, T, B)
  BY <1>1, <1>3, ChainIs
<1>5. /\ n \in Nat /\ Len(sc) \in Nat /\ C[0] = 0
      /\ \A i \in 0..n : C[i] \in 0..Len(sc)
      /\ \A i \in 1..n : C[i] \in 1..Len(sc) /\ sc[C[i]].prev = C[i - 1]
      /\ \A i, j \in 0..n : i < j => C[i] < C[j]
      /\ Links(sc, n, C)
  BY <1>3, <1>4 DEF Known, Chain
<1>6. /\ UndoCount \in Nat \ {0, 1} /\ Len(u) = UndoCount /\ DOMAIN u = 1..UndoCount
      /\ \A i \in 1..UndoCount : MarkStands(sc, n, C, T, u[i]) /\ u[i].at \in -1..Len(sc)
      /\ \A i, j \in 1..UndoCount : i <= j => u[j].at <= u[i].at
  BY <1>3, <1>5, MarksAre
<1>7. 1 \in 1..UndoCount
  BY <1>6
<1>8. mark \in 0..Len(sc)
  <2>1. mark \in -1..Len(sc) /\ mark >= 0
    BY <1>1, <1>6, <1>7 DEF IsMark
  <2> HIDE DEF mark
  <2> QED BY <2>1, <1>5
<1>9. PICK k \in 0..n : Leaves(n, C, mark, k) /\ T[k] = u[1].text
  BY <1>1, <1>6, <1>7 DEF MarkStands
<1>10. k \in Nat /\ C[k] <= mark /\ (k < n => mark < C[k + 1])
  BY <1>5, <1>9 DEF Leaves
<1> HIDE DEF mark, st
<1>11. /\ todo \in Seq(Nat) /\ Len(todo) = n - k
       /\ \A j \in 1..(n - k) : todo[j] = C[(n - j) + 1]
  <2>1. Backwards(sc) /\ mark \in Nat
    BY <1>1, <1>8 DEF Stack
  <2>2. Newest(Backs(sc, mark)[C[n]], n, C, k)
    BY <2>1, <1>5, <1>10, BackIs
  <2> QED BY <2>2, <1>1, <1>3 DEF Newest
<1>12. Fits(un.ps, un.len, T[k], B[k]) /\ un.pos \in 0..un.len
  <2>1. Fits(st.ps, st.len, T[n], B[n]) /\ st.pos \in 0..st.len
    BY <1>1, <1>3 DEF st
  <2>2. /\ Fits(Undones(sc, todo, st)[Len(todo)].ps, Undones(sc, todo, st)[Len(todo)].len, T[k], B[k])
        /\ Undones(sc, todo, st)[Len(todo)].pos \in 0..Undones(sc, todo, st)[Len(todo)].len
    <3>1. Stack(sc) /\ Chain(sc, n, C, T, B) /\ k \in 0..n
      BY <1>1, <1>3
    <3> QED BY ZenonT(60), SMTT(30), <3>1, <2>1, <1>11, UndoneIs
  <2> QED BY <2>2, <1>1
<1>13. un.len <= MaxLength
  <2>1. Len(T[k]) <= MaxLength
    BY <1>3, <1>5 DEF Chain
  <2> QED BY <2>1, <1>12 DEF Fits
<1>14. Chain(sc, k, C, T, B)
  <2>1. 1..k \subseteq 1..n /\ 0..k \subseteq 0..n
    BY <1>5
  <2> QED BY <2>1, <1>3, <1>10 DEF Chain, Links
<1>15. todo = <<>> <=> k = n
  <2>1. todo = <<>> <=> Len(todo) = 0
    BY <1>11, EmptySeq
  <2> QED BY <2>1, <1>5, <1>10, <1>11
<1>16. rec2 = C[k]
  <2>1. CASE k = n
    BY <2>1, <1>1, <1>3, <1>15
  <2>2. CASE k # n
    <3>1. n - k \in 1..(n - k) /\ (n - (n - k)) + 1 = k + 1 /\ k + 1 \in 1..n /\ (k + 1) - 1 = k
      <4>1. n \in Nat /\ k \in Nat /\ k # n /\ k <= n
        BY <2>2, <1>5, <1>10
      <4> QED BY <4>1
    <3>2. Last(todo) = C[k + 1]
      BY <3>1, <1>11 DEF Last
    <3>3. sc[C[k + 1]].prev = C[(k + 1) - 1]
      BY <3>1, <1>5
    <3> QED BY <3>1, <3>2, <3>3, <2>2, <1>1, <1>15
  <2> QED BY <2>1, <2>2
<1>17. first2 = IF k = 0 THEN 0 ELSE C[1]
  <2>1. CASE n = 0
    <3>1. k = 0 /\ first = 0
      BY <2>1, <1>3, <1>10
    <3> QED BY <3>1, <1>1
  <2>2. CASE n # 0 /\ k = 0
    <3>1. n \in 1..(n - k) /\ (n - n) + 1 = 1 /\ n \in 1..Len(todo)
      BY <2>2, <1>5, <1>11
    <3>2. todo[n] = C[1]
      BY <3>1, <1>11
    <3>3. Contains(todo, first)
      BY <3>1, <3>2, <2>2, <1>3 DEF Contains
    <3> QED BY <3>3, <2>2, <1>1
  <2>3. CASE n # 0 /\ k # 0
    <3>1. ASSUME NEW j \in 1..Len(todo) PROVE todo[j] # first
      <4>1. PICK i : i = (n - j) + 1 /\ i \in 0..n /\ 1 < i /\ 1 \in 0..n
        <5>1. (n - j) + 1 \in 0..n /\ 1 < (n - j) + 1 /\ 1 \in 0..n
          BY <2>3, <1>5, <1>10, <1>11
        <5> QED BY <5>1
      <4>2. todo[j] = C[i] /\ C[1] < C[i] /\ C[1] \in 0..Len(sc) /\ C[i] \in 0..Len(sc)
        BY <4>1, <1>5, <1>11
      <4>3. C[1] # C[i]
        BY <4>2, <1>5
      <4> QED BY <4>2, <4>3, <2>3, <1>3
    <3>2. ~Contains(todo, first)
      BY <3>1 DEF Contains
    <3> QED BY <3>2, <2>3, <1>1, <1>3
  <2> QED BY <2>1, <2>2, <2>3
<1>18. Denotes(un.ps) = T[k] /\ T[k] \in Seq(Char)
  <2>1. Lies(un.ps, 0, un.len) /\ Shows(un.ps, T[k]) /\ T[k] \in Seq(Char) /\ Len(T[k]) = un.len
    BY <1>12 DEF Fits
  <2>2. Lies(un.ps, 0, Len(T[k]))
    BY <2>1
  <2> QED BY <2>1, <2>2, ShownIsSaid
<1> DEFINE w == [at |-> Len(sc), text |-> T[k]]
<1>19. /\ u2 = [u EXCEPT ![1] = w] /\ DOMAIN u2 = 1..UndoCount /\ u2[1] = w
       /\ \A i \in 1..UndoCount : i # 1 => u2[i] = u[i]
  BY <1>1, <1>6, <1>7, <1>18
<1>20. w.at = Len(sc) /\ MarkStands(sc, k, C, T, w)
  <2>1. w \in MarkIn(sc) /\ w.at = Len(sc) /\ w.text = T[k]
    BY <1>5, <1>18 DEF MarkIn
  <2>2. C[k] <= Len(sc) /\ k \in 0..k
    BY <1>5, <1>9, <1>10
  <2>3. Leaves(k, C, w.at, k)
    BY <2>1, <2>2, <1>10 DEF Leaves
  <2> HIDE DEF w
  <2> QED BY <2>1, <2>2, <2>3 DEF MarkStands
<1> HIDE DEF w
<1>21. ASSUME NEW i \in 1..UndoCount PROVE MarkStands(sc, k, C, T, u[i])
  <2>1. MarkStands(sc, n, C, T, u[i]) /\ u[i].at \in -1..Len(sc)
    BY <1>6
  <2>2. u[i].at <= mark
    <3>1. 1 <= i
      OBVIOUS
    <3> QED BY <3>1, <1>6, <1>7 DEF mark
  <2>3. ASSUME IsMark(u[i]) PROVE \E j \in 0..k : Leaves(k, C, u[i].at, j) /\ T[j] = u[i].text
    <3>1. PICK j \in 0..n : Leaves(n, C, u[i].at, j) /\ T[j] = u[i].text
      BY <2>1, <2>3 DEF MarkStands
    <3>2. C[j] <= u[i].at /\ (j < n => u[i].at < C[j + 1])
      BY <3>1 DEF Leaves
    <3>3. j <= k
      <4>1. SUFFICES ASSUME j > k PROVE FALSE
        BY <1>10
      <4>2. k + 1 \in 0..n /\ k < n /\ (k + 1 = j \/ k + 1 < j)
        BY <4>1, <1>5, <1>10
      <4>3. C[k + 1] <= C[j] /\ C[k + 1] \in Nat /\ C[j] \in Nat
        BY <4>2, <1>5
      <4>4. mark < C[k + 1]
        BY <4>2, <1>10
      <4>5. u[i].at \in Int /\ mark \in Int
        BY <2>1, <1>8
      <4> QED BY <4>3, <4>4, <4>5, <3>2, <2>2
    <3>4. j \in 0..k /\ (j < k => j < n)
      BY <3>3, <1>5, <1>10
    <3>5. Leaves(k, C, u[i].at, j)
      BY <3>2, <3>4 DEF Leaves
    <3> QED BY <3>1, <3>4, <3>5
  <2> QED BY <2>1, <2>3 DEF MarkStands
<1>22. \A i \in 1..UndoCount : MarkStands(sc, k, C, T, u2[i])
  BY <1>19, <1>20, <1>21
<1>23. ASSUME NEW i \in 1..UndoCount, NEW j \in 1..UndoCount, i <= j PROVE u2[j].at <= u2[i].at
  <2>1. CASE i = 1
    <3>1. u2[j].at \in -1..Len(sc)
      BY <1>22 DEF MarkStands, MarkIn
    <3>2. u2[i].at = Len(sc)
      BY <2>1, <1>19, <1>20
    <3>3. \A x \in -1..Len(sc) : x <= Len(sc)
      BY <1>5
    <3> QED BY <3>1, <3>2, <3>3
  <2>2. CASE i # 1
    <3>1. j # 1
      BY <2>2, <1>6, <1>23
    <3> QED BY <3>1, <2>2, <1>6, <1>19, <1>23
  <2> QED BY <2>1, <2>2
<1>24. Marks(sc, k, C, T, u2)
  <2>1. \A i \in 1..UndoCount : u2[i] \in MarkIn(sc)
    BY <1>22 DEF MarkStands
  <2>2. u2 = [i \in DOMAIN u2 |-> u2[i]]
    BY <1>6, <1>19
  <2>3. u2 \in [1..UndoCount -> MarkIn(sc)]
    BY <2>1, <2>2, <1>19
  <2> QED BY <2>3, <1>5, <1>22, <1>23, MarksFrom
<1>25. Open(sc, k, C, u2, -1)
  BY DEF Open
<1>26. WholeBy(sc, rec2, first2, u2, -1, un.ps, un.len, k, C, T, B)
  BY <1>12, <1>14, <1>16, <1>17, <1>24, <1>25 DEF WholeBy
<1> QED BY <1>1, <1>9, <1>12, <1>13, <1>18, <1>26 DEF UndoneTo, Stands, Whole
-----------------------------------------------------------------------------
(* The inductive invariant, and the initial state.                         *)

Cached(ps, pos, cur) ==
  cur \in 0..Len(ps) /\ (cur # 0 => ps[cur].pos <= pos /\ pos < End(ps[cur]))

SpanLies(sp) == sp = <<>> \/ \E x, y : Lies(sp, x, y) /\ y <= MaxLength

Holding(sc, rec, first, u, upto, ps, len, pos, cur, sp, w) ==
  /\ Stands(sc, rec, first, u, upto, ps, len)
  /\ Len(sc) <= w /\ w \in 0..MaxWrites
  /\ pos \in 0..len /\ upto \in -1..len
  /\ Cached(ps, pos, cur) /\ SpanLies(sp)

IInv == Holding(scratch, recStart, oldest, undo, lastWrite, pieces, length, position, current, span, writes)

LEMMA HoldingIs ==
  ASSUME NEW sc, NEW rec, NEW first, NEW u, NEW upto, NEW ps, NEW len, NEW pos, NEW cur, NEW sp, NEW w,
         Stands(sc, rec, first, u, upto, ps, len), Len(sc) <= w, w \in 0..MaxWrites,
         pos \in 0..len, upto \in -1..len, cur = 0, SpanLies(sp)
  PROVE  Holding(sc, rec, first, u, upto, ps, len, pos, cur, sp, w)
<1>1. Len(ps) \in Nat
  BY StandsIs, CutIs
<1> QED BY <1>1 DEF Holding, Cached

LEMMA OriginalIs ==
  /\ Original \in Seq(Char) /\ Len(Original) = OriginalLength
  /\ \A x \in 1..OriginalLength : Original[x] = <<0, x>>
<1>1. OriginalLength \in Nat /\ OriginalLength <= MaxLength /\ MaxLength \in Nat /\ MaxWrites \in Nat
  BY PieceAssumption
<1>2. \A x \in 1..OriginalLength : <<0, x>> \in Char
  BY <1>1 DEF Char, Source
<1>3. Original \in [1..OriginalLength -> Char]
  BY <1>2 DEF Original
<1>4. \A x \in 1..OriginalLength : Original[x] = <<0, x>>
  BY DEF Original
<1> HIDE DEF Original
<1> QED BY <1>1, <1>3, <1>4

LEMMA Begun == Init => IInv
<1> SUFFICES ASSUME Init PROVE IInv
  OBVIOUS
<1> DEFINE C == [i \in Nat |-> 0]
           T == [i \in Nat |-> Original]
           B == [i \in Nat |-> {}]
           u0 == [i \in 1..UndoCount |-> NoMark]
           w == [at |-> Len(scratch), text |-> T[0]]
<1>1. /\ OriginalLength \in 0..MaxLength /\ 0 \in Source /\ UndoCount \in Nat \ {0, 1} /\ MaxWrites \in Nat
      /\ MaxLength \in Nat
  BY PieceAssumption DEF Source
<1>2. /\ Original \in Seq(Char) /\ Len(Original) = OriginalLength
      /\ \A x \in 1..OriginalLength : Original[x] = <<0, x>>
  BY OriginalIs
<1>3. /\ pieces = Filled(0, OriginalLength, 0) /\ length = OriginalLength
      /\ position = 0 /\ current = 0 /\ lastWrite = -1 /\ scratch = <<>> /\ recStart = 0 /\ oldest = 0
      /\ undo = <<Now(Text)>> \o [i \in 1..(UndoCount - 1) |-> NoMark]
      /\ span = <<>> /\ writes = 0
  BY DEF Init, Filled
<1>4. Lies(pieces, 0, OriginalLength) /\ Shows(pieces, Original)
  <2>1. \A x \in 1..OriginalLength : Original[0 + x] = <<0, x>>
    BY <1>2
  <2>2. Lies(Filled(0, OriginalLength, 0), 0, 0 + OriginalLength) /\ Shows(Filled(0, OriginalLength, 0), Original)
    BY <2>1, <1>1, FilledIs
  <2>3. 0 + OriginalLength = OriginalLength
    BY <1>1
  <2> QED BY <2>2, <2>3, <1>3
<1>5. Text = Original
  <2>1. Lies(pieces, 0, Len(Original))
    BY <1>2, <1>4
  <2> QED BY <2>1, <1>2, <1>4, ShownIsSaid DEF Text
<1>6. /\ C \in [Nat -> Nat] /\ C[0] = 0 /\ T \in [Nat -> Seq(Char)] /\ T[0] = Original
      /\ B \in [Nat -> SUBSET Nat] /\ B[0] = {} /\ \A i \in Nat : T[i] = Original
  BY <1>2
<1> HIDE DEF C, T, B
<1>7. Len(scratch) = 0 /\ scratch \in Seq(Record) /\ 1..0 = {}
  BY <1>3
<1>8. Stack(scratch)
  BY <1>1, <1>7 DEF Stack, Backwards
<1>9. Chain(scratch, 0, C, T, B)
  BY SMTT(30), <1>1, <1>2, <1>6, <1>7 DEF Chain, Links
<1>10. Fits(pieces, length, T[0], B[0])
  BY <1>2, <1>3, <1>4, <1>6 DEF Fits
<1>11. Open(scratch, 0, C, undo, lastWrite)
  BY <1>3 DEF Open
<1>12. Marks(scratch, 0, C, T, u0)
  <2>1. NoMark.at = -1 /\ NoMark \in MarkIn(scratch) /\ ~IsMark(NoMark)
    BY <1>7 DEF NoMark, MarkIn, IsMark
  <2>2. \A i \in 1..UndoCount : u0[i] = NoMark
    OBVIOUS
  <2>3. u0 \in [1..UndoCount -> MarkIn(scratch)]
    BY <2>1
  <2> HIDE DEF u0
  <2>4. \A i \in 1..UndoCount : MarkStands(scratch, 0, C, T, u0[i])
    BY <2>1, <2>2 DEF MarkStands
  <2>5. \A i, j \in 1..UndoCount : i <= j => u0[j].at <= u0[i].at
    BY <2>1, <2>2
  <2>6. Len(scratch) \in Nat
    BY <1>7
  <2> QED BY <2>3, <2>4, <2>5, <2>6, MarksFrom
<1>13. undo = <<w>> \o SubSeq(u0, 1, UndoCount - 1)
  <2>1. [i \in 1..(UndoCount - 1) |-> NoMark] = SubSeq(u0, 1, UndoCount - 1)
    BY <1>1
  <2>2. Now(Text) = w
    BY <1>5, <1>6 DEF Now
  <2> QED BY <2>1, <2>2, <1>3
<1>14. Marks(scratch, 0, C, T, undo)
  <2>1. PICK v, z : v = undo /\ z = w
    OBVIOUS
  <2>2. v = <<z>> \o SubSeq(u0, 1, UndoCount - 1) /\ z = [at |-> Len(scratch), text |-> T[0]]
    BY <2>1, <1>13
  <2>3. T[0] \in Seq(Char) /\ 0 \in Nat /\ C[0] \in Nat /\ C[0] <= Len(scratch) /\ Len(scratch) \in Nat
    BY <1>2, <1>6, <1>7
  <2> HIDE DEF u0, w
  <2>4. Marks(scratch, 0, C, T, v)
    BY <2>2, <2>3, <1>12, MarksMore
  <2> QED BY <2>1, <2>4
<1>15. WholeBy(scratch, recStart, oldest, undo, lastWrite, pieces, length, 0, C, T, B)
  BY <1>3, <1>6, <1>9, <1>10, <1>11, <1>14 DEF WholeBy
<1>16. Stands(scratch, recStart, oldest, undo, lastWrite, pieces, length)
  <2>1. length <= MaxLength
    BY <1>1, <1>3
  <2> QED BY <2>1, <1>8, <1>15 DEF Stands, Whole
<1>17. /\ Len(scratch) <= writes /\ writes \in 0..MaxWrites /\ position \in 0..length /\ lastWrite \in -1..length
       /\ current = 0 /\ SpanLies(span)
  BY <1>1, <1>3, <1>7 DEF SpanLies
<1> QED BY <1>16, <1>17, HoldingIs DEF IInv

(* The piece of a position, from the cache or not.                         *)
LEMMA Located ==
  ASSUME IInv, pieces # <<>>, NEW at \in 0..length
  PROVE  Holds(pieces, Found(at, Kept(at)), at)
<1>1. Lies(pieces, 0, length) /\ length \in Nat /\ Cached(pieces, position, current)
  BY StandsIs DEF IInv, Holding
<1>2. Holds(pieces, Bounding(pieces, at), at)
  BY <1>1, BoundingIn
<1>3. CASE Kept(at) = 0
  BY <1>2, <1>3 DEF Found
<1>4. CASE Kept(at) # 0
  <2>1. /\ Kept(at) = current /\ current # 0
        /\ (at = position \/ (pieces[current].pos <= at /\ at < End(pieces[current])))
    BY <1>4 DEF Kept
  <2>2. /\ current \in 1..Len(pieces) /\ pieces[current].pos <= at /\ at < End(pieces[current])
    BY <2>1, <1>1 DEF Cached
  <2> QED BY <2>1, <2>2 DEF Found, Holds
<1> QED BY <1>3, <1>4
-----------------------------------------------------------------------------
(* Every step keeps the invariant.                                         *)

LEMMA SetPositionKept ==
  ASSUME IInv, NEW at \in 0..length, SetPosition(at)
  PROVE  IInv'
<1>1. /\ position' = at /\ current' = Kept(at) /\ pieces' = pieces /\ length' = length /\ lastWrite' = lastWrite
      /\ scratch' = scratch /\ recStart' = recStart /\ oldest' = oldest /\ undo' = undo /\ span' = span /\ writes' = writes
  BY DEF SetPosition, table
<1>2. Holding(scratch, recStart, oldest, undo, lastWrite, pieces, length, position, current, span, writes)
  BY DEF IInv
<1>3. Cached(pieces, position, current) /\ Len(pieces) \in Nat
  <2>1. Lies(pieces, 0, length)
    BY <1>2, StandsIs DEF Holding
  <2> QED BY <2>1, <1>2, CutIs DEF Holding
<1>4. Cached(pieces, at, Kept(at))
  <2>1. Kept(at) = 0 \/ (/\ Kept(at) = current /\ current # 0
                         /\ (at = position \/ (pieces[current].pos <= at /\ at < End(pieces[current]))))
    BY DEF Kept
  <2> QED BY <2>1, <1>3 DEF Cached
<1>5. Holding(scratch, recStart, oldest, undo, lastWrite, pieces, length, at, Kept(at), span, writes)
  BY <1>2, <1>4 DEF Holding
<1> QED BY <1>1, <1>5 DEF IInv

LEMMA ReadKept ==
  ASSUME IInv, NEW len \in 1..(length - position), Read(len)
  PROVE  IInv'
<1> DEFINE upto == position + len
<1>1. /\ position' = upto /\ current' = AfterRead(upto) /\ pieces' = pieces /\ length' = length /\ lastWrite' = lastWrite
      /\ scratch' = scratch /\ recStart' = recStart /\ oldest' = oldest /\ undo' = undo /\ span' = span /\ writes' = writes
  BY DEF Read, table
<1>2. Holding(scratch, recStart, oldest, undo, lastWrite, pieces, length, position, current, span, writes)
  BY DEF IInv
<1>3. Lies(pieces, 0, length) /\ length \in Nat /\ (pieces = <<>> <=> length = 0)
  BY <1>2, StandsIs DEF Holding
<1>4. upto \in 0..length /\ upto - 1 \in Nat /\ upto \in Nat /\ pieces # <<>>
  BY <1>2, <1>3 DEF Holding
<1> HIDE DEF upto
<1> DEFINE found == Bounding(pieces, upto - 1)
           next == found + 1
<1>5. Holds(pieces, found, upto - 1)
  BY <1>3, <1>4, BoundingIn
<1> HIDE DEF found
<1>6. /\ Len(pieces) \in Nat /\ found \in 1..Len(pieces) /\ pieces[found].pos <= upto - 1 /\ pieces[found].pos \in Nat
      /\ (upto - 1 < End(pieces[found]) \/ found = Len(pieces))
      /\ \A i \in 1..Len(pieces) : /\ pieces[i].pos = Cut(pieces, 0, i - 1) /\ End(pieces[i]) = Cut(pieces, 0, i)
                                   /\ Cut(pieces, 0, i) = Cut(pieces, 0, i - 1) + pieces[i].len
                                   /\ pieces[i].len \in Nat \ {0} /\ Cut(pieces, 0, i) \in Nat /\ Cut(pieces, 0, i - 1) \in Nat
  <2>1. found \in 1..Len(pieces) /\ pieces[found].pos <= upto - 1 /\ (upto - 1 < End(pieces[found]) \/ found = Len(pieces))
    BY <1>5 DEF Holds
  <2>2. Len(pieces) \in Nat
    BY <1>3, CutIs
  <2>3. \A i \in 1..Len(pieces) : /\ pieces[i].pos = Cut(pieces, 0, i - 1) /\ End(pieces[i]) = Cut(pieces, 0, i)
                                  /\ Cut(pieces, 0, i) = Cut(pieces, 0, i - 1) + pieces[i].len
                                  /\ pieces[i].len \in Nat \ {0} /\ pieces[i].pos \in Nat
    BY <1>3, CutIs
  <2>4. \A i \in 1..Len(pieces) : Cut(pieces, 0, i) \in Nat /\ Cut(pieces, 0, i - 1) \in Nat
    <3>1. \A i \in 0..Len(pieces) : Cut(pieces, 0, i) \in Nat
      BY <1>3, CutIs
    <3>2. \A i \in 1..Len(pieces) : i \in 0..Len(pieces) /\ i - 1 \in 0..Len(pieces)
      BY <2>2
    <3> QED BY <3>1, <3>2
  <2> QED BY <2>1, <2>2, <2>3, <2>4
<1>7. Cached(pieces, upto, AfterRead(upto))
  <2>1. CASE next > Len(pieces)
    <3>1. AfterRead(upto) = 0
      <4>1. ~(next <= Len(pieces))
        BY <2>1, <1>6
      <4> QED BY <4>1, <2>1 DEF AfterRead, found
    <3> QED BY <3>1, <1>6 DEF Cached
  <2>2. CASE next <= Len(pieces)
    <3>1. PICK n \in 1..Len(pieces) : n = next /\ n - 1 = found
      <4>1. next \in 1..Len(pieces) /\ next - 1 = found
        BY <2>2, <1>6
      <4> QED BY <4>1
    <3>2. /\ pieces[n].pos = Cut(pieces, 0, found) /\ End(pieces[found]) = Cut(pieces, 0, found)
          /\ End(pieces[n]) = Cut(pieces, 0, n) /\ Cut(pieces, 0, n) = pieces[n].pos + pieces[n].len
          /\ pieces[n].len \in Nat \ {0} /\ pieces[n].pos \in Nat
      BY <3>1, <1>6
    <3> DEFINE a == pieces[n].pos
               l == pieces[n].len
    <3>3. a \in Nat /\ l \in Nat \ {0} /\ End(pieces[n]) = a + l /\ End(pieces[found]) = a /\ upto - 1 < a
      <4>1. found # Len(pieces)
        BY <2>2, <1>6
      <4> QED BY <4>1, <3>2, <1>6
    <3> HIDE DEF a, l
    <3>4. CASE a > upto
      <4>1. AfterRead(upto) = found
        <5>1. ~(next > Len(pieces)) /\ ~(pieces[next].pos <= upto) /\ pieces[next].pos > upto /\ next - 1 = found
          BY SMTT(30), ZenonT(30), <3>1, <3>3, <3>4, <2>2, <1>4, <1>6 DEF a
        <5> QED BY <5>1, <2>2 DEF AfterRead, found
      <4>2. pieces[found].pos <= upto /\ upto < End(pieces[found])
        BY SMTT(30), <3>3, <3>4, <1>4, <1>6
      <4> QED BY <4>1, <4>2, <1>6 DEF Cached
    <3>5. CASE a <= upto
      <4>1. AfterRead(upto) = n
        <5>1. ~(next > Len(pieces)) /\ ~(pieces[next].pos > upto) /\ pieces[next].pos <= upto
          BY <3>1, <3>3, <3>5, <2>2, <1>4, <1>6 DEF a
        <5> QED BY <5>1, <2>2, <3>1 DEF AfterRead, found
      <4>2. pieces[n].pos <= upto /\ upto < End(pieces[n])
        BY <3>3, <3>5, <1>4 DEF a
      <4> QED BY <4>1, <4>2, <1>6 DEF Cached
    <3> QED BY <3>3, <3>4, <3>5, <1>4
  <2> QED BY <2>1, <2>2, <1>6
<1>8. Holding(scratch, recStart, oldest, undo, lastWrite, pieces, length, upto, AfterRead(upto), span, writes)
  BY <1>2, <1>4, <1>7 DEF Holding
<1> QED BY <1>1, <1>8 DEF IInv

(* What a successful edit and a failed one leave.                          *)
LEMMA EditKept ==
  ASSUME IInv, Stands(scratch', recStart', oldest', undo', lastWrite', pieces', length'),
         Len(scratch') <= writes', writes' \in 0..MaxWrites, position' \in 0..length', lastWrite' \in -1..length',
         current' = 0, span' = span
  PROVE  IInv'
<1>1. PICK sc, rec, first, u, upto, ps, len, pos, cur, sp, w :
        /\ sc = scratch' /\ rec = recStart' /\ first = oldest' /\ u = undo' /\ upto = lastWrite' /\ ps = pieces'
        /\ len = length' /\ pos = position' /\ cur = current' /\ sp = span' /\ w = writes'
  OBVIOUS
<1>2. SpanLies(sp)
  BY <1>1 DEF IInv, Holding
<1>3. Holding(sc, rec, first, u, upto, ps, len, pos, cur, sp, w)
  BY <1>1, <1>2, HoldingIs
<1> QED BY <1>1, <1>3 DEF IInv

LEMMA FailKept ==
  ASSUME IInv, writes < MaxWrites, NEW at \in 0..length, NEW ps, Fails(at, ps),
         Stands(scratch, recStart, oldest, undo, lastWrite, ps, length)
  PROVE  IInv'
<1>1. /\ pieces' = ps /\ position' = at /\ current' = 0 /\ writes' = writes + 1 /\ length' = length /\ lastWrite' = lastWrite
      /\ scratch' = scratch /\ recStart' = recStart /\ oldest' = oldest /\ undo' = undo /\ span' = span
  BY DEF Fails
<1>2. /\ Len(scratch) <= writes /\ writes \in 0..MaxWrites /\ lastWrite \in -1..length /\ Len(scratch) \in Nat /\ MaxWrites \in Nat
  BY PieceAssumption DEF IInv, Holding, Stands, Stack
<1>3. Stands(scratch', recStart', oldest', undo', lastWrite', pieces', length')
  BY <1>1
<1>4. Len(scratch') <= writes' /\ writes' \in 0..MaxWrites /\ position' \in 0..length' /\ lastWrite' \in -1..length'
  BY <1>1, <1>2
<1> QED BY <1>1, <1>3, <1>4, EditKept
(* What every edit may rely on.                                            *)
LEMMA MayWriteIs ==
  ASSUME IInv, NEW count \in Nat, MayWrite(count)
  PROVE  /\ Stands(scratch, recStart, oldest, undo, lastWrite, pieces, length)
         /\ Lies(pieces, 0, length) /\ length \in Nat /\ (pieces = <<>> <=> length = 0)
         /\ Len(scratch) \in Nat /\ Len(scratch) <= writes /\ writes \in Nat /\ writes < MaxWrites
         /\ Len(scratch) < MaxWrites /\ length + count <= MaxLength /\ MaxLength \in Nat /\ MaxWrites \in Nat
<1>1. /\ Stands(scratch, recStart, oldest, undo, lastWrite, pieces, length)
      /\ Len(scratch) <= writes /\ writes \in 0..MaxWrites
  BY DEF IInv, Holding
<1>2. Lies(pieces, 0, length) /\ length \in Nat /\ (pieces = <<>> <=> length = 0) /\ Len(scratch) \in Nat
  BY <1>1, StandsIs, RecordIs
<1> QED BY <1>1, <1>2, PieceAssumption DEF MayWrite

(* A record is logged, and the edit settled.                               *)
LEMMA LoggedKept ==
  ASSUME IInv, writes < MaxWrites, NEW start, NEW stop, NEW deleted, NEW count, Log(start, stop, deleted, count),
         NEW ps, NEW after, NEW delta, NEW upto, Settle(ps, after, delta, upto),
         NEW r, r = [prev |-> recStart, start |-> start, stop |-> stop, deleted |-> deleted, count |-> count],
         NEW tab, tab = Moved(ps, after + 1, delta), NEW len, len = length + delta,
         Stands(Append(scratch, r), Len(scratch) + 1, Oldest(scratch, oldest), undo, upto, tab, len),
         upto \in 0..len
  PROVE  IInv'
<1>1. /\ scratch' = Append(scratch, r) /\ recStart' = Len(scratch) + 1 /\ oldest' = Oldest(scratch, oldest)
      /\ pieces' = tab /\ length' = len /\ position' = upto /\ current' = 0 /\ lastWrite' = upto
      /\ writes' = writes + 1 /\ undo' = undo /\ span' = span
  BY DEF Log, Settle, NewRecord, Oldest
<1>2. Stands(scratch', recStart', oldest', undo', lastWrite', pieces', length')
  BY <1>1
<1>3. Len(scratch) \in Nat /\ scratch \in Seq(Record) /\ Len(scratch) <= writes /\ writes \in 0..MaxWrites /\ MaxWrites \in Nat
  BY PieceAssumption DEF IInv, Holding, Stands, Stack, Backwards
<1>4. Len(Append(scratch, r)) = Len(scratch) + 1
  BY <1>3
<1>5. /\ Len(scratch') <= writes' /\ writes' \in 0..MaxWrites /\ position' \in 0..length' /\ lastWrite' \in -1..length'
  <2>1. upto \in -1..len
    OBVIOUS
  <2> QED BY <2>1, <1>1, <1>3, <1>4
<1> QED BY <1>1, <1>2, <1>5, EditKept

LEMMA ReplaceRegionKept ==
  ASSUME IInv, NEW first \in 0..length, NEW last \in 0..length, NEW count \in 0..MaxInsert,
         ReplaceRegion(first, last, count)
  PROVE  IInv'
<1> DEFINE found == Found(first, Kept(first))
           cut  == CutAt(first, last)
           gone == SubSeq(cut.ps, cut.from, cut.upto)
           kept == IF count = 0 THEN cut.from - 1 ELSE cut.from
           left == CutOut(cut.ps, kept + 1, cut.upto + 1)
           ps   == IF count = 0 THEN left ELSE Written(NewRecord, count, cut.from, left)
           r == [prev |-> recStart, start |-> first, stop |-> last, deleted |-> gone, count |-> count]
           tab == RegionTable(cut.ps, cut.from, cut.upto, count, Len(scratch) + 1)
<1>1. /\ MayWrite(count) /\ first < last
      /\ \/ Log(first, last, gone, count) /\ Settle(ps, kept, count - LengthOf(gone), first + count)
         \/ Fails(first, cut.ps)
  BY DEF ReplaceRegion
<1>2. cut = CutFrom(pieces, found, first, last)
  BY DEF CutAt, CutFrom
<1>3. tab = Moved(ps, kept + 1, count - LengthOf(gone))
  BY DEF RegionTable, NewRecord
<1>4. count \in Nat
  BY PieceAssumption
<1> HIDE DEF cut, gone, kept, ps, r, tab, found
<1>5. /\ Stands(scratch, recStart, oldest, undo, lastWrite, pieces, length)
      /\ Lies(pieces, 0, length) /\ length \in Nat /\ (pieces = <<>> <=> length = 0)
      /\ Len(scratch) \in Nat /\ Len(scratch) <= writes /\ writes \in Nat /\ writes < MaxWrites
      /\ Len(scratch) < MaxWrites /\ length + count <= MaxLength /\ MaxLength \in Nat
  BY <1>1, <1>4, MayWriteIs
<1>6. first \in Nat /\ last \in 1..length /\ pieces # <<>>
  BY <1>1, <1>5
<1>7. Holds(pieces, found, first)
  BY <1>6, Located DEF found
<1>8. Region(scratch, recStart, oldest, undo, lastWrite, pieces, length, found, first, last, count, cut, r, tab)
  BY <1>1, <1>2, <1>4, <1>5, <1>6, <1>7 DEF Region, r, gone, tab
<1>9. RegionDone(scratch, recStart, oldest, undo, lastWrite, pieces, length, first, last, count, cut, r, tab)
  BY <1>8, RegionReplaced
<1>10. /\ Stands(Append(scratch, r), Len(scratch) + 1, Oldest(scratch, oldest), undo, first + count, tab, length + (count - (last - first)))
       /\ Stands(scratch, recStart, oldest, undo, lastWrite, cut.ps, length)
       /\ LengthOf(gone) = last - first
  BY <1>9 DEF RegionDone, gone
<1>11. CASE Log(first, last, gone, count) /\ Settle(ps, kept, count - LengthOf(gone), first + count)
  <2> DEFINE delta == count - (last - first)
             upto == first + count
             len == length + delta
  <2>1. upto \in 0..len
    BY <1>1, <1>4, <1>5, <1>6
  <2>2. /\ tab = Moved(ps, kept + 1, delta) /\ Settle(ps, kept, delta, upto)
        /\ Stands(Append(scratch, r), Len(scratch) + 1, Oldest(scratch, oldest), undo, upto, tab, len)
    BY <1>3, <1>10, <1>11
  <2>3. len = length + delta
    OBVIOUS
  <2> HIDE DEF len, upto, delta
  <2> QED BY <2>1, <2>2, <2>3, <1>5, <1>11, LoggedKept DEF r
<1>12. CASE Fails(first, cut.ps)
  BY <1>5, <1>10, <1>12, FailKept
<1> QED BY <1>1, <1>11, <1>12

LEMMA InsertKept ==
  ASSUME IInv, NEW at \in 0..length, NEW count \in 1..MaxInsert, Insert(at, count)
  PROVE  IInv'
<1> DEFINE found == Found(at, Kept(at))
           delta == at - pieces[found].pos
           here  == IF delta = 0 THEN found ELSE found + 1
           cut   == IF delta = 0 THEN pieces ELSE Split(pieces, found, delta)
           ps    == IF AtEnd(found, delta) THEN cut ELSE Split(cut, here, 0)
           w     == Written(NewRecord, count, here, ps)
           r == [prev |-> recStart, start |-> at, stop |-> at, deleted |-> <<>>, count |-> count]
           tab == Moved(Written(Len(scratch) + 1, count, here, ps), here + 1, count)
<1>1. /\ MayWrite(count) /\ length > 0 /\ count > 0
      /\ \/ Log(at, at, <<>>, count) /\ Settle(w, here, count, at + count)
         \/ Fails(at, CutOut(ps, here, here + 1))
  BY DEF Insert
<1>2. here = HereOf(found, delta) /\ ps = GapAt(pieces, found, delta)
  BY DEF HereOf, GapAt, AtEnd
<1>3. tab = Moved(w, here + 1, count)
  BY DEF NewRecord
<1>4. count \in Nat \ {0}
  BY PieceAssumption
<1> HIDE DEF found, delta, here, cut, ps, w, r, tab
<1>5. /\ Stands(scratch, recStart, oldest, undo, lastWrite, pieces, length)
      /\ Lies(pieces, 0, length) /\ length \in Nat /\ (pieces = <<>> <=> length = 0)
      /\ Len(scratch) \in Nat /\ Len(scratch) <= writes /\ writes \in Nat /\ writes < MaxWrites
      /\ Len(scratch) < MaxWrites /\ length + count <= MaxLength /\ MaxLength \in Nat
  BY <1>1, <1>4, MayWriteIs
<1>6. Holds(pieces, found, at)
  <2>1. pieces # <<>>
    BY <1>1, <1>5
  <2> QED BY <2>1, Located DEF found
<1>7. Inserts(scratch, recStart, oldest, undo, lastWrite, pieces, length, found, at, count, delta, here, ps, r, tab)
  BY <1>2, <1>4, <1>5, <1>6 DEF Inserts, r, tab, delta
<1>8. /\ Stands(Append(scratch, r), Len(scratch) + 1, Oldest(scratch, oldest), undo, at + count, tab, length + count)
      /\ Stands(scratch, recStart, oldest, undo, lastWrite, CutOut(ps, here, here + 1), length)
  BY <1>7, TextInserted
<1>9. CASE Log(at, at, <<>>, count) /\ Settle(w, here, count, at + count)
  <2> DEFINE upto == at + count
             len == length + count
  <2>1. upto \in 0..len /\ len = length + count
    BY <1>4, <1>5
  <2>2. Settle(w, here, count, upto) /\ Stands(Append(scratch, r), Len(scratch) + 1, Oldest(scratch, oldest), undo, upto, tab, len)
    BY <1>8, <1>9
  <2> HIDE DEF len, upto
  <2> QED BY <2>1, <2>2, <1>3, <1>5, <1>9, LoggedKept DEF r
<1>10. CASE Fails(at, CutOut(ps, here, here + 1))
  BY <1>5, <1>8, <1>10, FailKept
<1> QED BY <1>1, <1>9, <1>10

LEMMA InsertFirstKept ==
  ASSUME IInv, NEW count \in 1..MaxInsert, InsertFirst(count)
  PROVE  IInv'
<1> DEFINE w == <<[pos |-> 0, len |-> count, src |-> NewRecord, off |-> 0]>>
           r == [prev |-> recStart, start |-> 0, stop |-> 0, deleted |-> <<>>, count |-> count]
           tab == Moved(w, 2, count)
<1>1. /\ MayWrite(count) /\ length = 0 /\ count > 0
      /\ \/ Log(0, 0, <<>>, count) /\ Settle(w, 1, count, count)
         \/ Fails(0, <<>>)
  BY DEF InsertFirst
<1>2. count \in Nat \ {0}
  BY PieceAssumption
<1>3. tab = Moved(<<[pos |-> 0, len |-> count, src |-> Len(scratch) + 1, off |-> 0]>>, 2, count)
  BY DEF NewRecord
<1> HIDE DEF w, r, tab
<1>5. /\ Stands(scratch, recStart, oldest, undo, lastWrite, pieces, length)
      /\ Lies(pieces, 0, length) /\ length \in Nat /\ (pieces = <<>> <=> length = 0)
      /\ Len(scratch) \in Nat /\ Len(scratch) <= writes /\ writes \in Nat /\ writes < MaxWrites
      /\ Len(scratch) < MaxWrites /\ length + count <= MaxLength /\ MaxLength \in Nat
  BY <1>1, <1>2, MayWriteIs
<1>6. Stands(scratch, recStart, oldest, undo, lastWrite, <<>>, 0)
  BY <1>1, <1>5
<1>7. Stands(Append(scratch, r), Len(scratch) + 1, Oldest(scratch, oldest), undo, count, tab, count)
  <2>1. count <= MaxLength
    BY <1>1, <1>2, <1>5
  <2>2. r = [prev |-> recStart, start |-> 0, stop |-> 0, deleted |-> <<>>, count |-> count]
    BY DEF r
  <2> QED BY <2>1, <2>2, <1>2, <1>3, <1>5, <1>6, FirstInserted
<1>8. CASE Log(0, 0, <<>>, count) /\ Settle(w, 1, count, count)
  <2> DEFINE len == length + count
  <2>1. len = count /\ len = length + count /\ count \in 0..len
    BY <1>1, <1>2
  <2>2. Stands(Append(scratch, r), Len(scratch) + 1, Oldest(scratch, oldest), undo, count, tab, len)
    BY <2>1, <1>7
  <2>3. tab = Moved(w, 1 + 1, count)
    <3>1. 1 + 1 = 2
      OBVIOUS
    <3> QED BY <3>1 DEF tab
  <2> HIDE DEF len
  <2> QED BY <2>1, <2>2, <2>3, <1>5, <1>8, LoggedKept DEF r
<1>9. CASE Fails(0, <<>>)
  <2>1. 0 \in 0..length /\ Stands(scratch, recStart, oldest, undo, lastWrite, <<>>, length)
    BY <1>1, <1>6
  <2> QED BY <2>1, <1>5, <1>9, FailKept
<1> QED BY <1>1, <1>8, <1>9

LEMMA ExtendKept ==
  ASSUME IInv, NEW at \in 0..length, NEW count \in 1..MaxInsert, Extend(at, count)
  PROVE  IInv'
<1> DEFINE found == Found(at, Kept(at))
           delta == at - pieces[found].pos
           here  == IF scratch[recStart].count > 0
                    THEN IF AtEnd(found, delta) THEN found ELSE found - 1
                    ELSE IF delta = 0 THEN found ELSE found + 1
           ps    == IF scratch[recStart].count > 0 THEN pieces
                    ELSE Written(recStart, 0, here, Split(pieces, found, delta))
           longer == [ps EXCEPT ![here].len = @ + count]
           tab == Moved(longer, here + 1, count)
           sc2 == [scratch EXCEPT ![recStart].count = @ + count]
<1>1. /\ MayWrite(count) /\ length > 0 /\ count > 0 /\ at = lastWrite
      /\ \/ /\ scratch' = sc2
            /\ Settle(longer, here, count, at + count)
            /\ UNCHANGED <<recStart, oldest>>
         \/ Fails(at, pieces)
  BY DEF Extend
<1>2. here = IF scratch[recStart].count > 0 THEN IF found = Len(pieces) /\ delta = pieces[found].len THEN found ELSE found - 1
             ELSE HereOf(found, delta)
  BY DEF HereOf, AtEnd
<1>3. /\ ps = IF scratch[recStart].count > 0 THEN pieces ELSE Written(recStart, 0, here, Split(pieces, found, delta))
      /\ tab = Moved([ps EXCEPT ![here].len = @ + count], here + 1, count)
      /\ delta = at - pieces[found].pos
  OBVIOUS
<1>4. count \in Nat \ {0}
  BY PieceAssumption
<1> HIDE DEF found, delta, here, ps
<1>5. /\ Stands(scratch, recStart, oldest, undo, lastWrite, pieces, length)
      /\ Lies(pieces, 0, length) /\ length \in Nat /\ (pieces = <<>> <=> length = 0)
      /\ Len(scratch) \in Nat /\ Len(scratch) <= writes /\ writes \in Nat /\ writes < MaxWrites
      /\ length + count <= MaxLength /\ MaxLength \in Nat /\ MaxWrites \in Nat
  BY <1>1, <1>4, MayWriteIs
<1>6. Holds(pieces, found, at)
  <2>1. pieces # <<>>
    BY <1>1, <1>5
  <2> QED BY <2>1, Located DEF found
<1>7. Types(scratch, recStart, oldest, undo, at, pieces, length, count, found, delta, here, ps, tab)
  <2>1. at >= 0 /\ count \in 1..MaxLength
    BY <1>4, <1>5
  <2>2. Stands(scratch, recStart, oldest, undo, at, pieces, length)
    BY <1>1, <1>5
  <2> HIDE DEF tab, longer
  <2> QED BY <2>1, <2>2, <1>2, <1>3, <1>5, <1>6 DEF Types, Stands
<1>8. Typed(scratch, recStart, oldest, undo, at, length, count, tab)
  BY <1>7, Continues
<1>9. Stands(sc2, recStart, oldest, undo, at + count, tab, length + count)
  BY <1>5, <1>8 DEF Typed, Stands
<1>10. Len(sc2) = Len(scratch)
  <2>1. scratch \in Seq(Record)
    BY <1>5 DEF Stands, Stack
  <2>2. DOMAIN sc2 = 1..Len(scratch)
    BY <2>1
  <2> QED BY <2>2, <1>9, <1>5 DEF Stands, Stack
<1> HIDE DEF tab, sc2, longer
<1>11. CASE /\ scratch' = sc2 /\ Settle(longer, here, count, at + count) /\ UNCHANGED <<recStart, oldest>>
  <2>1. /\ scratch' = sc2 /\ recStart' = recStart /\ oldest' = oldest /\ pieces' = tab /\ length' = length + count
        /\ position' = at + count /\ current' = 0 /\ lastWrite' = at + count
        /\ writes' = writes + 1 /\ undo' = undo /\ span' = span
    BY <1>11 DEF Settle, tab
  <2>2. Stands(scratch', recStart', oldest', undo', lastWrite', pieces', length')
    BY <2>1, <1>9
  <2>3. /\ Len(scratch') <= writes' /\ writes' \in 0..MaxWrites /\ position' \in 0..length' /\ lastWrite' \in -1..length'
    BY <2>1, <1>4, <1>5, <1>10
  <2> QED BY <2>1, <2>2, <2>3, EditKept
<1>12. CASE Fails(at, pieces)
  BY <1>5, <1>12, FailKept
<1> QED BY <1>1, <1>11, <1>12

(* A held span is pieces laid end to end.                                  *)
LEMMA HeadCut ==
  ASSUME NEW ps, NEW a, NEW b, Lies(ps, a, b), NEW n, n = Len(ps), n > 0, NEW d \in 1..ps[n].len
  PROVE  Lies([ps EXCEPT ![n].len = d], a, ps[n].pos + d) /\ Len([ps EXCEPT ![n].len = d]) = n
<1>1. /\ n \in 1..Len(ps) /\ ps \in Seq(Bits) /\ ps[n] \in Bits /\ ps[n].len \in Nat \ {0} /\ ps[n].pos \in Nat /\ n \in Nat
  BY CutIs
<1>2. PICK p, q \in Seq(Bits) : PieceAt(ps, a, b, n, p, q)
  BY <1>1, PieceTaken
<1>3. PICK x, y : x = ps[n] /\ y = LeftOf(x, d)
  OBVIOUS
<1>4. /\ ps = (p \o <<x>>) \o q /\ Len(p) = n - 1 /\ Len(q) = 0 /\ Lies(p, a, x.pos)
  BY <1>1, <1>2, <1>3 DEF PieceAt
<1>5. x \in Bits /\ y \in Bits /\ y.pos = x.pos /\ y.len = d /\ End(y) = x.pos + d /\ d \in Nat \ {0}
  BY <1>1, <1>3, HalvesAre
<1>6. Swapped(ps, n, x, y, p, q)
  <2>1. n = Len(p) + 1
    BY <1>1, <1>4
  <2> QED BY <2>1, <1>4, <1>5, ExceptIs
<1>7. [ps EXCEPT ![n].len = d] = (p \o <<y>>) \o q
  <2>1. [ps EXCEPT ![n].len = d] = [ps EXCEPT ![n] = y]
    BY <1>3 DEF LeftOf
  <2> QED BY <2>1, <1>6 DEF Swapped
<1>8. q = <<>>
  BY <1>4
<1>9. Lies(<<y>>, x.pos, x.pos + d) /\ Len(<<y>>) = 1
  BY <1>5, OnePiece
<1>10. Lies(p \o <<y>>, a, x.pos + d) /\ Len(p \o <<y>>) = Len(p) + 1
  BY <1>4, <1>9, JoinedLies
<1>11. Lies(q, x.pos + d, x.pos + d)
  <2>1. x.pos + d \in Nat
    BY <1>1, <1>3, <1>5
  <2> QED BY <2>1, <1>8, NoPiece
<1>12. Lies((p \o <<y>>) \o q, a, x.pos + d) /\ Len((p \o <<y>>) \o q) = n
  <2>1. Lies((p \o <<y>>) \o q, a, x.pos + d) /\ Len((p \o <<y>>) \o q) = Len(p \o <<y>>) + Len(q)
    BY <1>10, <1>11, JoinedLies
  <2> QED BY <2>1, <1>1, <1>4, <1>10
<1> QED BY <1>3, <1>7, <1>12

LEMMA TailCut ==
  ASSUME NEW ps, NEW a, NEW b, Lies(ps, a, b), Len(ps) > 0, NEW d \in 0..(ps[1].len - 1)
  PROVE  Lies([ps EXCEPT ![1] = RightOf(ps[1], d)], a + d, b)
<1>1. /\ 1 \in 1..Len(ps) /\ ps \in Seq(Bits) /\ ps[1] \in Bits /\ ps[1].len \in Nat \ {0} /\ ps[1].pos \in Nat
      /\ ps[1].pos = a /\ a \in Nat
  <2>1. Len(ps) \in Nat /\ a \in Nat
    BY CutIs
  <2>2. 1 \in 1..Len(ps)
    BY <2>1
  <2>3. ps[1].pos = Cut(ps, a, 1 - 1) /\ Cut(ps, a, 0) = a
    BY <2>2, CutIs DEF Cut
  <2> QED BY <2>1, <2>2, <2>3, CutIs
<1>2. PICK p, q \in Seq(Bits) : PieceAt(ps, a, b, 1, p, q)
  BY <1>1, PieceTaken
<1>3. PICK x, y : x = ps[1] /\ y = RightOf(x, d)
  OBVIOUS
<1>4. /\ ps = (p \o <<x>>) \o q /\ Len(p) = 0 /\ Lies(q, End(x), b)
  BY <1>1, <1>2, <1>3 DEF PieceAt
<1>5. x \in Bits /\ y \in Bits /\ y.pos = a + d /\ y.len > 0 /\ End(y) = End(x)
  <2>1. d \in 0..x.len
    BY <1>1, <1>3
  <2>2. y \in Bits /\ y.pos = x.pos + d /\ y.len = x.len - d /\ End(y) = End(x)
    BY <2>1, <1>1, <1>3, HalvesAre
  <2> QED BY <2>2, <1>1, <1>3
<1>6. Swapped(ps, 1, x, y, p, q)
  <2>1. 1 = Len(p) + 1
    BY <1>4
  <2> QED BY <2>1, <1>4, <1>5, ExceptIs
<1>7. [ps EXCEPT ![1] = RightOf(ps[1], d)] = (p \o <<y>>) \o q
  BY <1>3, <1>6 DEF Swapped
<1>8. p = <<>> /\ a + d \in Nat
  BY <1>1, <1>3, <1>4
<1>9. Lies(<<y>>, a + d, End(x))
  BY <1>5, OnePiece
<1>10. Lies(p \o <<y>>, a + d, End(x))
  <2>1. Lies(p, a + d, a + d)
    BY <1>8, NoPiece
  <2> QED BY <2>1, <1>9, JoinedLies
<1>11. Lies((p \o <<y>>) \o q, a + d, b)
  BY <1>4, <1>10, JoinedLies
<1> QED BY <1>7, <1>11

SpanCut(ps, first, last) ==
  LET from == Bounding(ps, first)
      upto == Bounding(ps, last - 1)
      copy == SubSeq(ps, from, upto)
      cut  == [copy EXCEPT ![Len(copy)].len = last - Last(copy).pos]
      skip == first - copy[1].pos
      head == [cut[1] EXCEPT !.pos = first, !.len = @ - skip, !.off = @ + skip]
  IN [cut EXCEPT ![1] = head]

LEMMA SpanCutLies ==
  ASSUME NEW ps, NEW b, Lies(ps, 0, b), NEW first \in Nat, NEW last \in 1..b, first < last
  PROVE  Lies(SpanCut(ps, first, last), first, last)
<1> DEFINE from == Bounding(ps, first)
           upto == Bounding(ps, last - 1)
           copy == SubSeq(ps, from, upto)
           n    == Len(copy)
           d    == last - copy[n].pos
           cut  == [copy EXCEPT ![n].len = d]
           skip == first - copy[1].pos
           head == [cut[1] EXCEPT !.pos = first, !.len = @ - skip, !.off = @ + skip]
<1>1. SpanCut(ps, first, last) = [cut EXCEPT ![1] = head]
  BY DEF SpanCut, Last
<1>2. Len(ps) \in Nat /\ ps # <<>> /\ b \in Nat /\ first \in 0..b /\ last - 1 \in 0..b /\ last \in Nat
  <2>1. Len(ps) \in Nat /\ b \in Nat /\ (ps = <<>> <=> 0 = b)
    BY CutIs, Ordered
  <2> QED BY <2>1
<1>3. Holds(ps, from, first) /\ Holds(ps, upto, last - 1)
  BY <1>2, BoundingIn
<1> HIDE DEF from, upto, copy, n, d, cut, skip, head
<1>4. /\ from \in 1..Len(ps) /\ ps[from].pos <= first /\ first < End(ps[from]) /\ ps[from].pos \in Nat
      /\ End(ps[from]) = ps[from].pos + ps[from].len /\ ps[from].len \in Nat
  <2>1. first < b
    BY <1>2
  <2> QED BY <2>1, <1>2, <1>3, HoldsIn DEF Holds
<1>5. /\ upto \in 1..Len(ps) /\ ps[upto].pos <= last - 1 /\ last - 1 < End(ps[upto]) /\ ps[upto].pos \in Nat
      /\ End(ps[upto]) = ps[upto].pos + ps[upto].len /\ ps[upto].len \in Nat
  <2>1. last - 1 < b
    BY <1>2
  <2>2. PICK x : x = last - 1
    OBVIOUS
  <2>3. /\ upto \in 1..Len(ps) /\ (x < b <=> x < End(ps[upto])) /\ ps[upto].pos \in Nat /\ ps[upto].len \in Nat \ {0}
        /\ End(ps[upto]) = ps[upto].pos + ps[upto].len
    BY <2>2, <1>2, <1>3, HoldsIn
  <2>4. ps[upto].pos <= x
    BY <2>2, <1>3 DEF Holds
  <2> QED BY <2>1, <2>2, <2>3, <2>4
<1>6. from <= upto
  <2> SUFFICES ASSUME upto < from PROVE FALSE
    BY <1>2, <1>4, <1>5
  <2>1. from - 1 \in 0..Len(ps) /\ upto \in 0..Len(ps) /\ (upto < from - 1 \/ upto = from - 1)
    BY <1>2, <1>4, <1>5
  <2>2. Cut(ps, 0, upto) < Cut(ps, 0, from - 1) \/ upto = from - 1
    BY <2>1, Ordered
  <2>3. Cut(ps, 0, upto) = End(ps[upto]) /\ Cut(ps, 0, from - 1) = ps[from].pos
    BY <1>4, <1>5, CutIs
  <2> QED BY SMTT(30), <2>2, <2>3, <1>2, <1>4, <1>5
<1>7. /\ Lies(copy, ps[from].pos, End(ps[upto])) /\ n = (upto - from) + 1
      /\ copy[1] = ps[from] /\ copy[n] = ps[upto]
  <2>1. PICK i, j : i = from - 1 /\ j = upto
    OBVIOUS
  <2>2. i \in 0..Len(ps) /\ j \in i..Len(ps) /\ i + 1 = from
    <3>1. \A l \in Nat : \A x, y \in 1..l : x <= y => x - 1 \in 0..l /\ y \in (x - 1)..l /\ (x - 1) + 1 = x
      OBVIOUS
    <3>2. Len(ps) \in Nat /\ from \in 1..Len(ps) /\ upto \in 1..Len(ps)
      BY <1>2, <1>4, <1>5
    <3> QED BY <2>1, <3>1, <3>2, <1>6
  <2>3. copy = SubSeq(ps, i + 1, j)
    BY <2>1, <2>2 DEF copy
  <2>4. /\ Lies(copy, Cut(ps, 0, i), Cut(ps, 0, j)) /\ Len(copy) = j - i
        /\ \A k \in 1..(j - i) : copy[k] = ps[i + k]
    BY <2>2, <2>3, Parted
  <2>5. Cut(ps, 0, j) = End(ps[upto]) /\ Cut(ps, 0, i) = ps[from].pos
    BY <2>1, <1>4, <1>5, CutIs
  <2>6. 1 \in 1..(j - i) /\ j - i \in 1..(j - i) /\ i + 1 = from /\ i + (j - i) = upto /\ j - i = (upto - from) + 1
    <3>1. \A l \in Nat : \A x, y \in 1..l : x <= y =>
             LET f == x - 1 IN /\ 1 \in 1..(y - f) /\ y - f \in 1..(y - f) /\ f + 1 = x /\ f + (y - f) = y
                               /\ y - f = (y - x) + 1
      OBVIOUS
    <3>2. Len(ps) \in Nat /\ from \in 1..Len(ps) /\ upto \in 1..Len(ps)
      BY <1>2, <1>4, <1>5
    <3> QED BY <2>1, <3>1, <3>2, <1>6
  <2>7. copy[1] = ps[i + 1] /\ copy[j - i] = ps[i + (j - i)]
    BY <2>4, <2>6
  <2> QED BY <2>4, <2>5, <2>6, <2>7 DEF n
<1>8. n > 0 /\ n \in Nat /\ d \in 1..copy[n].len /\ copy[n].pos + d = last
  <2>1. PICK c, l : c = ps[upto].pos /\ l = ps[upto].len
    OBVIOUS
  <2>2. c \in Nat /\ l \in Nat /\ c <= last - 1 /\ last - 1 < c + l /\ last \in Nat
    BY <2>1, <1>2, <1>5
  <2>3. last - c \in 1..l /\ c + (last - c) = last
    BY <2>2
  <2>4. copy[n].pos = c /\ copy[n].len = l /\ d = last - c
    BY <2>1, <1>7 DEF d
  <2>5. n > 0 /\ n \in Nat
    <3>1. \A x, y \in Nat : x <= y => (y - x) + 1 > 0 /\ (y - x) + 1 \in Nat
      OBVIOUS
    <3>2. from \in Nat /\ upto \in Nat
      BY <1>2, <1>4, <1>5
    <3> QED BY <3>1, <3>2, <1>6, <1>7
  <2> QED BY <2>3, <2>4, <2>5
<1>9. Lies(cut, ps[from].pos, last) /\ Len(cut) = n
  <2>1. n = Len(copy)
    BY DEF n
  <2>2. Lies([copy EXCEPT ![n].len = d], ps[from].pos, copy[n].pos + d) /\ Len([copy EXCEPT ![n].len = d]) = n
    BY ZenonT(60), <2>1, <1>7, <1>8, HeadCut
  <2> QED BY <2>2, <1>8 DEF cut
<1>10. /\ cut[1] \in Bits /\ cut[1].pos = ps[from].pos /\ skip \in 0..(cut[1].len - 1) /\ skip = first - ps[from].pos
  <2>1. skip = first - ps[from].pos /\ skip \in Nat
    BY <1>4, <1>7 DEF skip
  <2>2. 1 \in 1..Len(cut)
    BY <1>8, <1>9
  <2>3. cut[1] \in Bits /\ cut[1].len \in Nat \ {0} /\ cut[1].pos = Cut(cut, ps[from].pos, 1 - 1)
    BY <2>2, <1>9, CutIs
  <2>4. cut[1].pos = ps[from].pos
    BY <2>3 DEF Cut
  <2>5. skip < cut[1].len
    <3>1. copy \in Seq(Bits) /\ Len(copy) = n
      BY <1>7 DEF Lies, n
    <3>2. CASE n = 1
      <4>1. cut[1].len = d
        <5>1. cut = [copy EXCEPT ![1].len = d] /\ copy[1] \in Bits
          BY <3>1, <3>2 DEF cut
        <5> QED BY <5>1, <3>1, <3>2 DEF Bits
      <4>2. copy[n].pos = ps[from].pos
        BY <3>2, <1>7
      <4> QED BY <4>1, <4>2, <2>1, <1>2, <1>4, <1>5, <1>7, <1>8
    <3>3. CASE n # 1
      <4>1. cut[1] = copy[1]
        BY <3>1, <3>3, <1>8 DEF cut
      <4> QED BY SMTT(30), <4>1, <2>1, <1>4, <1>7
    <3> QED BY <3>2, <3>3
  <2> QED BY <2>1, <2>3, <2>4, <2>5
<1>11. Lies([cut EXCEPT ![1] = RightOf(cut[1], skip)], ps[from].pos + skip, last)
  BY <1>8, <1>9, <1>10, TailCut
<1>12. ps[from].pos + skip = first
  BY <1>4, <1>10
<1>13. head = RightOf(cut[1], skip)
  <2>1. cut[1].pos + skip = first
    BY <1>10, <1>12
  <2> QED BY <2>1, <1>10 DEF RightOf, Bits, head
<1> QED BY <1>1, <1>11, <1>12, <1>13

LEMMA HoldSpanKept ==
  ASSUME IInv, NEW first \in 0..length, NEW last \in 0..length, HoldSpan(first, last)
  PROVE  IInv'
<1>1. /\ first < last /\ last <= length /\ span' = SpanCut(pieces, first, last)
      /\ pieces' = pieces /\ length' = length /\ position' = position /\ current' = current /\ lastWrite' = lastWrite
      /\ scratch' = scratch /\ recStart' = recStart /\ oldest' = oldest /\ undo' = undo /\ writes' = writes
  BY DEF HoldSpan, table, PiecesForSpan, SpanCut
<1>2. Holding(scratch, recStart, oldest, undo, lastWrite, pieces, length, position, current, span, writes)
  BY DEF IInv
<1>3. Lies(pieces, 0, length) /\ length \in Nat /\ length <= MaxLength /\ MaxLength \in Nat
  BY <1>2, StandsIs, PieceAssumption DEF Holding, Stands
<1>4. first \in Nat /\ last \in 1..length /\ last <= MaxLength
  BY <1>1, <1>3
<1>5. SpanLies(SpanCut(pieces, first, last))
  <2>1. Lies(SpanCut(pieces, first, last), first, last)
    BY <1>1, <1>3, <1>4, SpanCutLies
  <2> QED BY <2>1, <1>4 DEF SpanLies
<1>6. Holding(scratch, recStart, oldest, undo, lastWrite, pieces, length, position, current, SpanCut(pieces, first, last), writes)
  BY <1>2, <1>5 DEF Holding
<1> QED BY <1>1, <1>6 DEF IInv

LEMMA InsertPiecesKept ==
  ASSUME IInv, NEW at \in 0..length, InsertPieces(at)
  PROVE  IInv'
<1> DEFINE k   == LengthOf(span)
           new == Moved(span, 1, at - span[1].pos)
           r   == [prev |-> recStart, start |-> at, stop |-> at, deleted |-> new, count |-> 0]
           tab == Moved(PutIn(CutAny(pieces, at), HereAny(pieces, at), new), HereAny(pieces, at) + Len(new), k)
<1>1. /\ span # <<>> /\ MayWrite(k) /\ Log(at, at, new, 0)
      /\ pieces' = tab /\ length' = length + k /\ position' = at + k /\ current' = 0 /\ lastWrite' = -1
      /\ writes' = writes + 1 /\ undo' = undo /\ span' = span
  BY DEF InsertPieces, CutAny, HereAny, HereOf, FoundAny, DeltaAny, AtEnd
<1>2. /\ scratch' = Append(scratch, r) /\ recStart' = Len(scratch) + 1 /\ oldest' = Oldest(scratch, oldest)
  BY <1>1 DEF Log, NewRecord, Oldest
<1>3. PICK x, y : Lies(span, x, y)
  BY <1>1 DEF IInv, Holding, SpanLies
<1>4. k \in Nat
  <2>1. k = y - x /\ x \in Nat /\ y \in Nat
    BY <1>3, LengthIs, CutIs
  <2>2. Len(span) \in 0..Len(span)
    BY <1>3, CutIs
  <2>3. x <= Cut(span, x, Len(span)) /\ Cut(span, x, Len(span)) = y
    BY <2>2, <1>3, Ordered DEF Lies
  <2> QED BY <2>1, <2>3
<1> HIDE DEF k, new, r, tab
<1>5. /\ Stands(scratch, recStart, oldest, undo, lastWrite, pieces, length)
      /\ length \in Nat /\ Len(scratch) \in Nat /\ Len(scratch) <= writes /\ writes \in Nat /\ writes < MaxWrites
      /\ Len(scratch) < MaxWrites /\ length + k <= MaxLength /\ MaxLength \in Nat /\ MaxWrites \in Nat
  BY <1>1, <1>4, MayWriteIs
<1>6. PutsPieces(scratch, recStart, oldest, undo, lastWrite, pieces, length, span, x, y, at, k, new, r, tab)
  BY <1>1, <1>3, <1>5 DEF PutsPieces, k, new, r, tab
<1>7. Stands(Append(scratch, r), Len(scratch) + 1, Oldest(scratch, oldest), undo, -1, tab, length + k)
  BY <1>6, PiecesInserted
<1>8. Stands(scratch', recStart', oldest', undo', lastWrite', pieces', length')
  BY <1>1, <1>2, <1>7
<1>9. Len(scratch') <= writes' /\ writes' \in 0..MaxWrites /\ position' \in 0..length' /\ lastWrite' \in -1..length'
  <2>1. Len(Append(scratch, r)) = Len(scratch) + 1
    <3>1. scratch \in Seq(Record)
      BY <1>5 DEF Stands, Stack
    <3> QED BY <3>1
  <2> QED BY <2>1, <1>1, <1>2, <1>4, <1>5
<1> QED BY <1>1, <1>8, <1>9, EditKept

(* Marks taken and moved.                                                  *)
LEMMA MarkTaken ==
  ASSUME NEW sc, NEW rec, NEW first, NEW u, NEW upto, NEW ps, NEW len, Stands(sc, rec, first, u, upto, ps, len),
         NEW v, v = <<[at |-> Len(sc), text |-> Denotes(ps)]>> \o SubSeq(u, 1, UndoCount - 1)
  PROVE  Stands(sc, rec, first, v, -1, ps, len)
<1>1. Stack(sc) /\ len <= MaxLength /\ Whole(sc, rec, first, u, upto, ps, len) /\ Len(sc) \in Nat
  BY RecordIs DEF Stands
<1>2. PICK n, C, T, B : WholeBy(sc, rec, first, u, upto, ps, len, n, C, T, B)
  BY <1>1 DEF Whole
<1>3. /\ Chain(sc, n, C, T, B) /\ Fits(ps, len, T[n], B[n])
      /\ rec = C[n] /\ first = (IF n = 0 THEN 0 ELSE C[1]) /\ Marks(sc, n, C, T, u)
  BY <1>2 DEF WholeBy
<1>4. n \in Nat /\ C[n] \in Nat /\ C[n] <= Len(sc) /\ T[n] \in Seq(Char)
  <2>1. Known(sc, n, C, T, B)
    BY <1>1, <1>3, ChainIs
  <2>2. n \in 0..n
    BY <2>1 DEF Known
  <2> QED BY <2>1, <2>2 DEF Known
<1>5. Denotes(ps) = T[n]
  BY <1>3, ShownIsSaid DEF Fits
<1>6. PICK w : w = [at |-> Len(sc), text |-> T[n]]
  OBVIOUS
<1>7. v = <<w>> \o SubSeq(u, 1, UndoCount - 1)
  BY <1>5, <1>6
<1>8. Marks(sc, n, C, T, v)
  BY <1>1, <1>3, <1>4, <1>6, <1>7, MarksMore
<1>9. Open(sc, n, C, v, -1)
  BY DEF Open
<1>10. WholeBy(sc, rec, first, v, -1, ps, len, n, C, T, B)
  BY <1>3, <1>8, <1>9 DEF WholeBy
<1> QED BY <1>1, <1>10 DEF Stands, Whole

LEMMA MarksMoved ==
  ASSUME NEW sc, NEW rec, NEW first, NEW u, NEW upto, NEW ps, NEW len, Stands(sc, rec, first, u, upto, ps, len),
         NEW v, v = [i \in DOMAIN u |-> UpFrom(u, i)]
  PROVE  Stands(sc, rec, first, v, -1, ps, len)
<1>1. Stack(sc) /\ len <= MaxLength /\ Whole(sc, rec, first, u, upto, ps, len) /\ Len(sc) \in Nat
  BY RecordIs DEF Stands
<1>2. PICK n, C, T, B : WholeBy(sc, rec, first, u, upto, ps, len, n, C, T, B)
  BY <1>1 DEF Whole
<1>3. /\ Chain(sc, n, C, T, B) /\ Fits(ps, len, T[n], B[n])
      /\ rec = C[n] /\ first = (IF n = 0 THEN 0 ELSE C[1]) /\ Marks(sc, n, C, T, u)
  BY <1>2 DEF WholeBy
<1>4. Marks(sc, n, C, T, v)
  BY <1>1, <1>3, MarksUp
<1>5. Open(sc, n, C, v, -1)
  BY DEF Open
<1>6. WholeBy(sc, rec, first, v, -1, ps, len, n, C, T, B)
  BY <1>3, <1>4, <1>5 DEF WholeBy
<1> QED BY <1>1, <1>6 DEF Stands, Whole

LEMMA CheckpointKept ==
  ASSUME IInv, Checkpoint
  PROVE  IInv'
<1> DEFINE v == <<[at |-> Len(scratch), text |-> Denotes(pieces)]>> \o SubSeq(undo, 1, UndoCount - 1)
<1>1. /\ (undo' = undo \/ undo' = v) /\ lastWrite' = -1
      /\ pieces' = pieces /\ length' = length /\ position' = position /\ current' = current
      /\ scratch' = scratch /\ recStart' = recStart /\ oldest' = oldest /\ span' = span /\ writes' = writes
  BY DEF Checkpoint, table, Now, Text
<1>2. Holding(scratch, recStart, oldest, undo, lastWrite, pieces, length, position, current, span, writes)
  BY DEF IInv
<1>3. Stands(scratch, recStart, oldest, undo, lastWrite, pieces, length)
  BY <1>2 DEF Holding
<1>4. Stands(scratch, recStart, oldest, undo, -1, pieces, length) /\ Stands(scratch, recStart, oldest, v, -1, pieces, length)
  BY <1>3, Closed, MarkTaken
<1> HIDE DEF v
<1>5. PICK u : u = undo'
  OBVIOUS
<1>6. Stands(scratch, recStart, oldest, u, -1, pieces, length)
  BY <1>1, <1>4, <1>5
<1>7. -1 \in -1..length
  <2>1. length \in Nat
    BY <1>3, StandsIs
  <2> QED BY <2>1
<1>8. Holding(scratch, recStart, oldest, u, -1, pieces, length, position, current, span, writes)
  BY <1>2, <1>6, <1>7 DEF Holding
<1> QED BY <1>1, <1>5, <1>8 DEF IInv

(* What undo starts from.                                                  *)
LEMMA CandidatesStand ==
  ASSUME IInv
  PROVE  Stands(scratch, recStart, oldest, Candidates, -1, pieces, length)
<1>1. Stands(scratch, recStart, oldest, undo, lastWrite, pieces, length)
  BY DEF IInv, Holding
<1>2. Stands(scratch, recStart, oldest, undo, -1, pieces, length)
  BY <1>1, Closed
<1>3. MovedUp = [i \in DOMAIN undo |-> UpFrom(undo, i)]
  BY DEF MovedUp, UpFrom
<1>4. Stands(scratch, recStart, oldest, MovedUp, -1, pieces, length)
  BY <1>1, <1>3, MarksMoved
<1> QED BY <1>2, <1>4 DEF Candidates

LEMMA UndoneIn ==
  ASSUME IInv, Undo, IsMark(Candidates[1]),
         NEW todo, todo = Since(Candidates[1].at), NEW un, un = Undone(todo)
  PROVE  /\ UndoneTo(scratch, Candidates, un, recStart', oldest', undo')
         /\ pieces' = un.ps /\ length' = un.len /\ position' = un.pos
<1>1. /\ UndoTo(Candidates[1].at) /\ undo' = [Candidates EXCEPT ![1] = Now(Denotes(pieces'))]
  BY DEF Undo
<1>2. /\ pieces' = un.ps /\ length' = un.len /\ position' = un.pos
      /\ recStart' = IF todo = <<>> THEN recStart ELSE scratch[Last(todo)].prev
      /\ oldest' = IF Contains(todo, oldest) THEN 0 ELSE oldest
  BY <1>1 DEF UndoTo
<1>3. PICK cs, rec2, first2, u2 : cs = Candidates /\ rec2 = recStart' /\ first2 = oldest' /\ u2 = undo'
  OBVIOUS
<1>4. todo = Backs(scratch, cs[1].at)[recStart]
  BY <1>3 DEF Since, Backs, BackStep
<1>5. un = Undones(scratch, todo, [ps |-> pieces, len |-> length, pos |-> position])[Len(todo)]
  BY DEF Undone, Undones, UndoStep
<1>6. u2 = [cs EXCEPT ![1] = [at |-> Len(scratch), text |-> Denotes(un.ps)]]
  BY <1>1, <1>2, <1>3 DEF Now
<1>7. Stands(scratch, recStart, oldest, cs, -1, pieces, length) /\ IsMark(cs[1]) /\ position \in 0..length
  BY <1>3, CandidatesStand DEF IInv, Holding
<1>8. UndoesTo(scratch, recStart, oldest, cs, -1, pieces, length, position, todo, un, rec2, first2, u2)
  BY <1>2, <1>3, <1>4, <1>5, <1>6, <1>7 DEF UndoesTo
<1>9. UndoneTo(scratch, cs, un, rec2, first2, u2)
  BY <1>8, UndoneToMark
<1> QED BY <1>2, <1>3, <1>9

LEMMA UndoKept ==
  ASSUME IInv, Undo
  PROVE  IInv'
<1>1. lastWrite' = -1 /\ span' = span /\ writes' = writes
  BY DEF Undo
<1>2. Holding(scratch, recStart, oldest, undo, lastWrite, pieces, length, position, current, span, writes)
  BY DEF IInv
<1>3. CASE IsMark(Candidates[1])
  <2>1. scratch' = scratch /\ current' = 0
    BY <1>3 DEF Undo, UndoTo
  <2>2. PICK todo, un : todo = Since(Candidates[1].at) /\ un = Undone(todo)
    OBVIOUS
  <2>3. /\ UndoneTo(scratch, Candidates, un, recStart', oldest', undo')
        /\ pieces' = un.ps /\ length' = un.len /\ position' = un.pos
    BY <2>2, <1>3, UndoneIn
  <2>4. Stands(scratch', recStart', oldest', undo', lastWrite', pieces', length') /\ position' \in 0..length'
    BY <2>1, <2>3, <1>1 DEF UndoneTo
  <2>5. lastWrite' \in -1..length'
    <3>1. PICK b, p : b = length' /\ p = position' /\ p \in 0..b
      BY <2>4
    <3>2. un.len \in Nat
      BY <2>3, StandsIs DEF UndoneTo
    <3>3. -1 \in -1..un.len
      BY <3>2
    <3> QED BY <3>3, <2>3, <1>1
  <2>6. Len(scratch') <= writes' /\ writes' \in 0..MaxWrites
    BY <2>1, <1>1, <1>2 DEF Holding
  <2> QED BY <2>1, <2>4, <2>5, <2>6, <1>1, EditKept
<1>4. CASE ~IsMark(Candidates[1])
  <2>1. /\ undo' = Candidates /\ pieces' = pieces /\ length' = length /\ position' = position /\ current' = current
        /\ scratch' = scratch /\ recStart' = recStart /\ oldest' = oldest
    BY <1>4 DEF Undo, table
  <2>2. Stands(scratch, recStart, oldest, Candidates, -1, pieces, length)
    BY CandidatesStand
  <2>3. -1 \in -1..length
    <3>1. length \in Nat
      BY <2>2, StandsIs
    <3> QED BY <3>1
  <2>4. Holding(scratch, recStart, oldest, Candidates, -1, pieces, length, position, current, span, writes)
    BY <2>2, <2>3, <1>2 DEF Holding
  <2> QED BY <2>1, <2>4, <1>1 DEF IInv
<1> QED BY <1>3, <1>4

LEMMA Inductive ==
  ASSUME IInv, [Next]_vars
  PROVE  IInv'
<1>1. CASE UNCHANGED vars
  BY <1>1 DEF vars, table, IInv
<1>2. ASSUME NEW at \in 0..length, SetPosition(at) PROVE IInv'
  BY <1>2, SetPositionKept
<1>3. ASSUME NEW at \in 0..length, InsertPieces(at) PROVE IInv'
  BY <1>3, InsertPiecesKept
<1>4. ASSUME NEW at \in 0..length, NEW count \in 1..MaxInsert, Extend(at, count) PROVE IInv'
  BY <1>4, ExtendKept
<1>5. ASSUME NEW at \in 0..length, NEW count \in 1..MaxInsert, Insert(at, count) PROVE IInv'
  BY <1>5, InsertKept
<1>6. ASSUME NEW len \in 1..(length - position), Read(len) PROVE IInv'
  BY <1>6, ReadKept
<1>7. ASSUME NEW count \in 1..MaxInsert, InsertFirst(count) PROVE IInv'
  BY <1>7, InsertFirstKept
<1>8. ASSUME NEW first \in 0..length, NEW last \in 0..length, NEW count \in 0..MaxInsert,
             ReplaceRegion(first, last, count)
      PROVE  IInv'
  BY <1>8, ReplaceRegionKept
<1>9. ASSUME NEW first \in 0..length, NEW last \in 0..length, HoldSpan(first, last) PROVE IInv'
  BY <1>9, HoldSpanKept
<1>10. CASE Checkpoint
  BY <1>10, CheckpointKept
<1>11. CASE Undo
  BY <1>11, UndoKept
<1> QED BY <1>1, <1>2, <1>3, <1>4, <1>5, <1>6, <1>7, <1>8, <1>9, <1>10, <1>11 DEF Next

-----------------------------------------------------------------------------
(* What the invariant says of the document.                                *)

Says(sc, rec, first, ps, len, n, C, T, B) ==
  /\ Chain(sc, n, C, T, B) /\ Stack(sc) /\ rec = C[n] /\ first = (IF n = 0 THEN 0 ELSE C[1])
  /\ Lies(ps, 0, len) /\ len \in Nat /\ T[n] \in Seq(Char) /\ Len(T[n]) = len
  /\ Denotes(ps) = T[n] /\ Shows(ps, T[n])

LEMMA Saying ==
  ASSUME IInv
  PROVE  \E n, C, T, B : Says(scratch, recStart, oldest, pieces, length, n, C, T, B)
<1>1. Stack(scratch) /\ Whole(scratch, recStart, oldest, undo, lastWrite, pieces, length)
  BY DEF IInv, Holding, Stands
<1>2. PICK n, C, T, B : WholeBy(scratch, recStart, oldest, undo, lastWrite, pieces, length, n, C, T, B)
  BY <1>1 DEF Whole
<1>3. /\ Chain(scratch, n, C, T, B) /\ Fits(pieces, length, T[n], B[n])
      /\ recStart = C[n] /\ oldest = (IF n = 0 THEN 0 ELSE C[1])
  BY <1>2 DEF WholeBy
<1>4. /\ Lies(pieces, 0, length) /\ Shows(pieces, T[n]) /\ T[n] \in Seq(Char) /\ Len(T[n]) = length
  BY <1>3 DEF Fits
<1>5. Denotes(pieces) = T[n]
  BY <1>4, ShownIsSaid
<1>6. length \in Nat
  BY <1>4, CutIs
<1>7. Says(scratch, recStart, oldest, pieces, length, n, C, T, B)
  BY <1>1, <1>3, <1>4, <1>5, <1>6 DEF Says
<1> QED BY <1>7

LEMMA IsConsistent ==
  ASSUME IInv
  PROVE  Consistent
<1>1. Holding(scratch, recStart, oldest, undo, lastWrite, pieces, length, position, current, span, writes)
  BY DEF IInv
<1>2. /\ Stands(scratch, recStart, oldest, undo, lastWrite, pieces, length)
      /\ writes \in 0..MaxWrites /\ position \in 0..length /\ lastWrite \in -1..length
      /\ current \in 0..Len(pieces) /\ SpanLies(span)
  BY <1>1 DEF Holding, Cached
<1>3. Lies(pieces, 0, length) /\ length \in Nat /\ length <= MaxLength /\ MaxLength \in Nat /\ scratch \in Seq(Record)
  BY <1>2, StandsIs, PieceAssumption DEF Stands, Stack
<1>4. recStart \in 0..Len(scratch) /\ oldest \in 0..Len(scratch)
  BY <1>2, RecordIs
<1>5. undo \in Seq([at : -1..Len(scratch), text : Seq(Char)])
  <2>1. PICK n, C, T, B : WholeBy(scratch, recStart, oldest, undo, lastWrite, pieces, length, n, C, T, B)
    BY <1>2 DEF Stands, Whole
  <2> QED BY <2>1 DEF WholeBy, Marks
<1>6. pieces \in Seq(Piece)
  BY <1>3, LiesArePieces
<1>7. span \in Seq(Piece)
  <2>1. CASE span = <<>>
    BY <2>1
  <2>2. CASE span # <<>>
    <3>1. PICK x, y : Lies(span, x, y) /\ y <= MaxLength
      BY <2>2, <1>2 DEF SpanLies
    <3> QED BY <3>1, LiesArePieces
  <2> QED BY <2>1, <2>2
<1>8. TypeOK
  <2>1. length \in 0..MaxLength
    BY <1>3
  <2> QED BY <2>1, <1>2, <1>3, <1>4, <1>5, <1>6, <1>7 DEF TypeOK
<1>9. pieces = LaidFrom(pieces, 0)
  BY <1>3, LaidIs
<1>10. length = LengthOf(pieces)
  <2>1. LengthOf(pieces) = length - 0
    BY <1>3, LengthIs
  <2> QED BY <2>1, <1>3
<1>11. \A i \in DOMAIN pieces : pieces[i].len > 0
  <2>1. DOMAIN pieces = 1..Len(pieces)
    BY <1>6
  <2>2. \A i \in 1..Len(pieces) : pieces[i].len \in Nat \ {0}
    BY <1>3, CutIs
  <2> QED BY <2>1, <2>2
<1> QED BY <1>8, <1>9, <1>10, <1>11 DEF Consistent

(* The edits in force, oldest first, are the links of the chain.           *)
ReplayStep(sc, edits, g, m) ==
  IF m = 0 THEN Original
  ELSE Replaced(g[m - 1], sc[edits[m]].start, sc[edits[m]].stop, InsertedBy(sc[edits[m]], edits[m]))
Replays(sc, edits) == CHOOSE g : g = [m \in 0..Len(edits) |-> ReplayStep(sc, edits, g, m)]

LEMMA ReplaysAre ==
  ASSUME NEW sc, NEW edits, Len(edits) \in Nat
  PROVE  \A m \in 0..Len(edits) : Replays(sc, edits)[m] = ReplayStep(sc, edits, Replays(sc, edits), m)
<1> DEFINE T == {N \in Nat : \E g : g = [m \in 0..N |-> ReplayStep(sc, edits, g, m)]}
<1>1. 0 \in T
  <2> DEFINE g == [m \in 0..0 |-> Original]
  <2>1. g = [m \in 0..0 |-> ReplayStep(sc, edits, g, m)]
    BY DEF ReplayStep
  <2> QED BY <2>1
<1>2. ASSUME NEW N \in Nat, N \in T PROVE N + 1 \in T
  <2>1. PICK g : g = [m \in 0..N |-> ReplayStep(sc, edits, g, m)]
    BY <1>2
  <2> DEFINE h == [m \in 0..(N + 1) |-> IF m = N + 1 THEN ReplayStep(sc, edits, g, m) ELSE g[m]]
  <2>2. ASSUME NEW m \in 0..(N + 1) PROVE h[m] = ReplayStep(sc, edits, h, m)
    <3>1. m # 0 => m - 1 \in 0..(N + 1) /\ m - 1 # N + 1 /\ m - 1 \in 0..N
      OBVIOUS
    <3>2. m # 0 => h[m - 1] = g[m - 1]
      BY <3>1
    <3>3. ReplayStep(sc, edits, h, m) = ReplayStep(sc, edits, g, m)
      BY <3>2 DEF ReplayStep
    <3>4. m # N + 1 => m \in 0..N
      OBVIOUS
    <3>5. m # N + 1 => g[m] = ReplayStep(sc, edits, g, m)
      BY <3>4, <2>1
    <3> QED BY <3>3, <3>5
  <2>3. h = [m \in 0..(N + 1) |-> ReplayStep(sc, edits, h, m)]
    BY <2>2
  <2> HIDE DEF h
  <2>4. N + 1 \in Nat /\ \E f : f = [m \in 0..(N + 1) |-> ReplayStep(sc, edits, f, m)]
    BY <2>3
  <2> QED BY <2>4
<1>3. Len(edits) \in 0..Len(edits)
  OBVIOUS
<1> HIDE DEF T
<1>4. Len(edits) \in T
  BY <1>1, <1>2, <1>3, Induct
<1> DEFINE u == Replays(sc, edits)
<1>5. u = [m \in 0..Len(edits) |-> ReplayStep(sc, edits, u, m)]
  BY <1>4 DEF T, Replays
<1> HIDE DEF u
<1>6. \A m \in 0..Len(edits) : u[m] = ReplayStep(sc, edits, u, m)
  BY <1>5
<1> QED BY <1>6 DEF u

LEMMA Replayed ==
  ASSUME NEW sc, Stack(sc), NEW n, NEW C, NEW T, NEW B, Chain(sc, n, C, T, B)
  PROVE  LET edits == Reverse(Backs(sc, 0)[C[n]]) IN Replays(sc, edits)[Len(edits)] = T[n]
<1> DEFINE todo == Backs(sc, 0)[C[n]]
           edits == Reverse(todo)
           g == Replays(sc, edits)
<1>1. Known(sc, n, C, T, B) /\ Links(sc, n, C) /\ Backwards(sc)
  BY ChainIs DEF Chain, Stack
<1>2. n \in Nat /\ C[0] = 0 /\ T[0] = Original /\ \A i, j \in 0..n : i < j => C[i] < C[j]
  BY <1>1 DEF Known
<1>3. Newest(todo, n, C, 0)
  <2>1. 0 \in 0..n /\ 0 \in Nat /\ C[0] <= 0 /\ (0 < n => 0 < C[0 + 1])
    <3>1. 0 \in 0..n /\ (0 < n => 0 + 1 \in 0..n)
      BY <1>2
    <3> QED BY <3>1, <1>2
  <2> HIDE DEF todo
  <2> QED BY <2>1, <1>1, BackIs DEF todo
<1> HIDE DEF todo
<1>4. todo \in Seq(Nat) /\ Len(todo) = n /\ \A j \in 1..n : todo[j] = C[(n - j) + 1]
  <2>1. n - 0 = n
    BY <1>2
  <2> QED BY <2>1, <1>3 DEF Newest
<1>5. Len(edits) = n /\ \A j \in 1..n : edits[j] = C[j]
  <2>1. edits = [i \in 1..n |-> todo[(n - i) + 1]]
    BY <1>4 DEF Reverse
  <2>2. ASSUME NEW j \in 1..n PROVE todo[(n - j) + 1] = C[j]
    <3>1. \A k \in Nat : \A i \in 1..k : (k - i) + 1 \in 1..k /\ (k - ((k - i) + 1)) + 1 = i
      OBVIOUS
    <3>2. PICK i \in 1..n : i = (n - j) + 1 /\ (n - i) + 1 = j
      BY <3>1, <1>2
    <3> QED BY <3>2, <1>4
  <2>3. edits \in Seq(Nat) /\ Len(edits) = n
    BY <1>2, <1>4, <2>1
  <2> HIDE DEF edits
  <2> QED BY <2>1, <2>2, <2>3
<1> HIDE DEF edits, g
<1>6. \A m \in 0..n : g[m] = ReplayStep(sc, edits, g, m)
  BY <1>2, <1>5, ReplaysAre DEF g
<1> DEFINE R == {m \in Nat : m <= n => g[m] = T[m]}
<1>7. 0 \in R
  <2>1. 0 \in 0..n
    BY <1>2
  <2>2. g[0] = Original
    BY <2>1, <1>6 DEF ReplayStep
  <2> QED BY <2>2, <1>2
<1>8. ASSUME NEW m \in Nat, m < n, m \in R PROVE m + 1 \in R
  <2>1. PICK i \in 1..n : i = m + 1 /\ i - 1 = m /\ i \in 0..n /\ i # 0
    <3>1. m + 1 \in 1..n /\ (m + 1) - 1 = m /\ m + 1 \in 0..n /\ m + 1 # 0
      BY <1>2, <1>8
    <3> QED BY <3>1
  <2>2. g[m] = T[m]
    BY <1>2, <1>8
  <2>3. edits[i] = C[i]
    BY <1>5
  <2>4. g[i] = Replaced(g[i - 1], sc[C[i]].start, sc[C[i]].stop, InsertedBy(sc[C[i]], C[i]))
    BY <2>1, <2>3, <1>6 DEF ReplayStep
  <2>5. Edit(sc[C[i]], C[i], T[i - 1], T[i], B[i - 1], B[i])
    BY <1>1 DEF Known
  <2>6. T[i] = Replaced(T[i - 1], sc[C[i]].start, sc[C[i]].stop, InsertedBy(sc[C[i]], C[i]))
    BY <2>5 DEF Edit
  <2>7. g[i] = T[i]
    BY <2>1, <2>2, <2>4, <2>6
  <2> QED BY <2>1, <2>7
<1> HIDE DEF R
<1>9. \A m \in 0..n : m \in R
  BY <1>2, <1>7, <1>8, Induct
<1>10. n \in 0..n
  BY <1>2
<1>11. g[n] = T[n]
  BY <1>2, <1>9, <1>10 DEF R
<1> QED BY <1>5, <1>11 DEF g, edits, todo

LEMMA IsReplay ==
  ASSUME IInv
  PROVE  TextIsReplay
<1>1. PICK n, C, T, B : Says(scratch, recStart, oldest, pieces, length, n, C, T, B)
  BY Saying
<1>2. Chain(scratch, n, C, T, B) /\ Stack(scratch) /\ recStart = C[n] /\ Denotes(pieces) = T[n]
  BY <1>1 DEF Says
<1> DEFINE edits == Reverse(Since(0))
<1>3. edits = Reverse(Backs(scratch, 0)[C[n]])
  BY <1>2 DEF Since, Backs, BackStep
<1>4. Replay = Replays(scratch, edits)[Len(edits)]
  BY DEF Replay, Replays, ReplayStep, Inserted, InsertedBy
<1>5. Replays(scratch, edits)[Len(edits)] = T[n]
  BY <1>2, <1>3, Replayed
<1> QED BY <1>2, <1>4, <1>5 DEF TextIsReplay, Text

LEMMA IsReadRight ==
  ASSUME IInv
  PROVE  ReadsText
<1> SUFFICES ASSUME pieces # <<>>
             PROVE  LET from == Found(position, current)
                        skip == position - pieces[from].pos
                        seen == Denotes(SubSeq(pieces, from, Len(pieces)))
                    IN skip >= 0 /\ SubSeq(seen, skip + 1, Len(seen)) = SubSeq(Text, position + 1, length)
  BY DEF ReadsText
<1> DEFINE from == Found(position, current)
           a    == pieces[from].pos
           skip == position - a
           part == SubSeq(pieces, from, Len(pieces))
           seen == Denotes(part)
<1>1. PICK n, C, T, B : Says(scratch, recStart, oldest, pieces, length, n, C, T, B)
  BY Saying
<1>2. /\ Lies(pieces, 0, length) /\ length \in Nat /\ Text \in Seq(Char) /\ Len(Text) = length /\ Shows(pieces, Text)
  BY <1>1 DEF Says, Text
<1>3. position \in 0..length
  BY DEF IInv, Holding
<1>4. Holds(pieces, from, position)
  <2>1. Kept(position) = current
    BY DEF Kept
  <2> QED BY <2>1, <1>3, Located
<1> HIDE DEF from, a, skip, part, seen
<1>5. /\ Len(pieces) \in Nat /\ from \in 1..Len(pieces) /\ a \in Nat /\ a <= position /\ a = Cut(pieces, 0, from - 1)
      /\ Cut(pieces, 0, Len(pieces)) = length
  <2>1. from \in 1..Len(pieces) /\ a <= position
    BY <1>4 DEF Holds, a
  <2>2. Len(pieces) \in Nat /\ pieces[from].pos \in Nat /\ pieces[from].pos = Cut(pieces, 0, from - 1)
    BY <2>1, <1>2, CutIs
  <2> QED BY <2>1, <2>2, <1>2 DEF a, Lies
<1>6. Lies(part, a, length) /\ Shows(part, Text)
  <2>1. PICK i, j : i = from - 1 /\ j = Len(pieces)
    OBVIOUS
  <2>2. i \in 0..Len(pieces) /\ j \in i..Len(pieces) /\ i + 1 = from
    BY <2>1, <1>5
  <2>3. part = SubSeq(pieces, i + 1, j)
    BY <2>1, <2>2 DEF part
  <2>4. Lies(part, Cut(pieces, 0, i), Cut(pieces, 0, j)) /\ \A text : Shows(pieces, text) => Shows(part, text)
    BY <2>2, <2>3, <1>2, Parted
  <2> QED BY <2>1, <2>4, <1>2, <1>5
<1>7. /\ seen \in Seq(Char) /\ Len(seen) = length - a
      /\ \A x \in 1..(length - a) : seen[x] = Text[a + x]
  BY <1>6, DenotesIs, DenotesShown DEF seen
<1>8. skip \in Nat /\ skip + a = position /\ skip <= length - a /\ length - a \in Nat
  BY <1>2, <1>3, <1>5 DEF skip
<1>9. SubSeq(seen, skip + 1, Len(seen)) = SubSeq(Text, position + 1, length)
  <2> DEFINE l == SubSeq(seen, skip + 1, Len(seen))
             r == SubSeq(Text, position + 1, length)
             k == length - position
  <2>1. k \in Nat
    BY <1>2, <1>3
  <2>2. l \in Seq(Char) /\ Len(l) = k /\ \A i \in 1..k : l[i] = seen[skip + i]
    <3>1. PICK m : m = length - a
      OBVIOUS
    <3>2. m \in Nat /\ skip \in 0..m /\ m - skip = k
      <4>1. \A h, b, p, s \in Nat : b <= p /\ p <= h /\ s + b = p
                                   => h - b \in Nat /\ s \in 0..(h - b) /\ (h - b) - s = h - p
        OBVIOUS
      <4>2. position \in Nat /\ position <= length
        BY <1>2, <1>3
      <4> QED BY SMTT(30), <3>1, <4>1, <4>2, <1>2, <1>5, <1>8
    <3>3. SubSeq(seen, skip + 1, m) \in Seq(Char) /\ Len(SubSeq(seen, skip + 1, m)) = m - skip
      BY <3>1, <3>2, <1>7, Halves
    <3>4. \A i \in 1..(m - skip) : SubSeq(seen, skip + 1, m)[i] = seen[skip + i]
      BY <3>1, <3>2, <1>7
    <3> QED BY <3>1, <3>2, <3>3, <3>4, <1>7
  <2>3. r \in Seq(Char) /\ Len(r) = k /\ \A i \in 1..k : r[i] = Text[position + i]
    <3>1. SubSeq(Text, position + 1, Len(Text)) \in Seq(Char) /\ Len(SubSeq(Text, position + 1, Len(Text))) = Len(Text) - position
      BY <1>2, <1>3, Halves
    <3>2. \A i \in 1..k : SubSeq(Text, position + 1, length)[i] = Text[position + i]
      BY <1>2, <1>3
    <3> QED BY <3>1, <3>2, <1>2
  <2>4. \A i \in 1..k : seen[skip + i] = Text[position + i]
    <3> SUFFICES ASSUME NEW i \in 1..k PROVE seen[skip + i] = Text[position + i]
      OBVIOUS
    <3>1. PICK x : x = skip + i
      OBVIOUS
    <3>2. x \in 1..(length - a) /\ a + x = position + i
      BY SMTT(30), <3>1, <1>2, <1>3, <1>5, <1>8
    <3> QED BY <3>1, <3>2, <1>7
  <2> HIDE DEF l, r, k
  <2>5. l = r
    <3>1. \A i \in 1..k : l[i] = r[i]
      BY <2>2, <2>3, <2>4
    <3> QED BY <3>1, <2>1, <2>2, <2>3
  <2> QED BY <2>5 DEF l, r
<1>10. skip >= 0
  BY <1>8
<1> QED BY <1>9, <1>10 DEF from, a, skip, part, seen

LEMMA IsOriginal ==
  ASSUME IInv
  PROVE  UnmodifiedIsOriginal
<1>1. PICK n, C, T, B : Says(scratch, recStart, oldest, pieces, length, n, C, T, B)
  BY Saying
<1>2. /\ Chain(scratch, n, C, T, B) /\ Stack(scratch) /\ oldest = (IF n = 0 THEN 0 ELSE C[1]) /\ Text = T[n]
  BY <1>1 DEF Says, Text
<1>3. Known(scratch, n, C, T, B)
  BY <1>2, ChainIs
<1>4. n \in Nat /\ T[0] = Original /\ \A i \in 1..n : C[i] \in 1..Len(scratch)
  BY <1>3 DEF Known
<1>5. n # 0 => 1 \in 1..n
  BY <1>4
<1>6. n # 0 => C[1] # 0
  <2>1. Len(scratch) \in Nat
    BY <1>3 DEF Known
  <2> QED BY <2>1, <1>4, <1>5
<1> QED BY <1>2, <1>4, <1>6 DEF UnmodifiedIsOriginal

-----------------------------------------------------------------------------
(* The theorems.                                                           *)

(* The strengthened invariant: the scratch stream holds a chain of records *)
(* whose replay is the text of the table, whose ends of edits the table    *)
(* meets, and on whose texts the marks stand.                              *)
THEOREM Invariance == Spec => []IInv
<1>1. IInv /\ [Next]_vars => IInv'
  BY Inductive
<1> QED BY <1>1, Begun, PTL DEF Spec

(* Consistent: everything keeps its type, and the table of pieces has no   *)
(* gap, no overlap and no empty piece and is as long as the document       *)
(* (ps_pieces_are_consistent), whichever edits, undos and failing writes   *)
(* there have been.                                                        *)
THEOREM AlwaysConsistent == Spec => []Consistent
<1>1. IInv => Consistent
  BY IsConsistent
<1> QED BY <1>1, Invariance, PTL

(* TextIsReplay: the document is the original with the edits in force made *)
(* to it one after another (the records from rec_start back), whichever    *)
(* write to a scratch stream in memory failed.                             *)
THEOREM AlwaysReplay == Spec => []TextIsReplay
<1>1. IInv => TextIsReplay
  BY IsReplay
<1> QED BY <1>1, Invariance, PTL

(* ReadsText: a read from the position finds the text that is there, also  *)
(* through the piece that is cached (get_current_offset).                  *)
THEOREM AlwaysReadRight == Spec => []ReadsText
<1>1. IInv => ReadsText
  BY IsReadRight
<1> QED BY <1>1, Invariance, PTL

(* UnmodifiedIsOriginal: a document without edits (ES_HAS_EDITS) has the   *)
(* text of the original.                                                   *)
THEOREM AlwaysOriginal == Spec => []UnmodifiedIsOriginal
<1>1. IInv => UnmodifiedIsOriginal
  BY IsOriginal
<1> QED BY <1>1, Invariance, PTL

(* UndoRestores: undo brings back the text that the newest mark that is    *)
(* not the present stands for (ps_undo_to_mark, textsw_do_undo).           *)
THEOREM UndoAlwaysRestores == Spec => UndoRestores
<1>1. IInv /\ [Next]_vars => [Undo /\ IsMark(Candidates[1]) => Denotes(pieces') = Candidates[1].text]_vars
  <2> SUFFICES ASSUME IInv, Undo, IsMark(Candidates[1]) PROVE Denotes(pieces') = Candidates[1].text
    OBVIOUS
  <2>1. PICK todo, un : todo = Since(Candidates[1].at) /\ un = Undone(todo)
    OBVIOUS
  <2>2. UndoneTo(scratch, Candidates, un, recStart', oldest', undo') /\ pieces' = un.ps
    BY <2>1, UndoneIn
  <2> QED BY <2>2 DEF UndoneTo
<1> QED BY <1>1, Invariance, PTL DEF UndoRestores, Spec
====
