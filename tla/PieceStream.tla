------------------------------ MODULE PieceStream ------------------------------
(***************************************************************************)
(* The piece stream of the text subwindow (libxview/textsw, ps_impl.c over *)
(* finger_tbl.c) with the undo marks its client keeps (textsw_do_undo in   *)
(* txt_input.c, textsw_checkpoint_undo in txt_sel.c).                      *)
(*                                                                         *)
(* A document is a table of pieces: runs of the original stream, which     *)
(* never changes, or of the scratch stream, to which every edit appends a  *)
(* record with the pieces it removed and the text it inserted.  Typing     *)
(* lengthens the last record in place; undo walks the records back.  The   *)
(* table, its length, the cached piece of the current position, the place  *)
(* of the last write and the chain of records are all kept by increments.  *)
(*                                                                         *)
(* The scratch stream is its sequence of records, and a place in it is a   *)
(* record and an offset; a mark (ES_UNDO_MARK) is a number of records.     *)
(* It can be cut back when a write fails: it is a stream in memory, or a   *)
(* file to which every write succeeds.  What becomes of a file when writes *)
(* fail is in ScratchFile.                                                 *)
(***************************************************************************)
EXTENDS Integers, Sequences, SequencesExt

CONSTANTS
  OriginalLength, \* of the original stream
  UndoCount,      \* the marks textsw keeps (priv->undo_count)
  MayFail,        \* a write to the scratch stream, in memory (es_mem), may fail
  MaxLength,      \* bound: length of the document
  MaxInsert,      \* bound: characters inserted by one call
  MaxWrites       \* bound: edits that write to the scratch stream

ASSUME PieceAssumption ==
  /\ OriginalLength \in Nat /\ UndoCount \in Nat \ {0, 1} /\ MayFail \in BOOLEAN
  /\ MaxLength \in Nat /\ OriginalLength <= MaxLength /\ MaxInsert \in Nat /\ MaxWrites \in Nat

VARIABLES
  pieces,    \* private->pieces, up to the first entry at ES_INFINITY
  length,    \* private->length
  position,  \* private->position
  current,   \* private->current; 0: CURRENT_NULL
  lastWrite, \* private->last_write_plus_one; -1: ES_INFINITY
  scratch,   \* the records of the scratch stream
  recStart,  \* private->rec_start; 0: ES_INFINITY
  oldest,    \* private->oldest_not_undone_mark; 0: ES_INFINITY
  undo,      \* priv->undo, with the text each mark stands for
  span,      \* the pieces of a deleted span, held for a later insertion
  writes

table == <<pieces, length>>
vars == <<table, position, current, lastWrite, scratch, recStart, oldest, undo, span, writes>>

(* A character is named by its place: in the original, or in a record.     *)
Source  == 0..MaxWrites
Char    == Source \X (1..MaxLength)
Piece   == [pos : 0..MaxLength, len : 0..MaxLength, src : Source, off : 0..MaxLength]
Record  == [prev : Source, start : 0..MaxLength, stop : 0..MaxLength,
            deleted : Seq(Piece), count : 0..MaxLength]
NoMark  == [at |-> -1, text |-> <<>>]
IsMark(m) == m.at >= 0

-----------------------------------------------------------------------------
(* Tables of pieces.                                                       *)

End(p) == p.pos + p.len

CharsOf(p) == [i \in 1..p.len |-> <<p.src, p.off + i>>]
Denotes(ps) ==
  LET Chars[n \in 0..Len(ps)] == IF n = 0 THEN <<>> ELSE Chars[n - 1] \o CharsOf(ps[n])
  IN Chars[Len(ps)]

LengthOf(ps) ==
  LET Sum[n \in 0..Len(ps)] == IF n = 0 THEN 0 ELSE Sum[n - 1] + ps[n].len
  IN Sum[Len(ps)]

(* What the document says.                                                 *)
Text == Denotes(pieces)

(* The entry at or before a position (ft_bounding_index).                  *)
Bounding(ps, at) ==
  CHOOSE i \in DOMAIN ps : ps[i].pos <= at /\ \A j \in DOMAIN ps : j > i => at < ps[j].pos

(* ft_add_delta.                                                           *)
Moved(ps, from, delta) ==
  [i \in DOMAIN ps |-> IF i < from THEN ps[i] ELSE [ps[i] EXCEPT !.pos = @ + delta]]

(* ft_shift_out.                                                           *)
CutOut(ps, first, lastPlusOne) == SubSeq(ps, 1, first - 1) \o SubSeq(ps, lastPlusOne, Len(ps))

(* ft_shift_up, and the entries that fill the gap.                         *)
PutIn(ps, at, new) == SubSeq(ps, 1, at - 1) \o new \o SubSeq(ps, at, Len(ps))

(* Mutant: the second half starts where the first one does in its source.  *)
Split_SameSource(ps, i, delta) ==
  PutIn([ps EXCEPT ![i].len = delta], i + 1,
        <<[ps[i] EXCEPT !.pos = @ + delta, !.len = @ - delta]>>)

(* One piece becomes two (split_piece).                                    *)
Split(ps, i, delta) ==
  PutIn([ps EXCEPT ![i].len = delta], i + 1,
        <<[ps[i] EXCEPT !.pos = @ + delta, !.len = @ - delta, !.off = @ + delta]>>)

(* Pieces laid end to end from a position.                                 *)
LaidFrom(ps, at) == [i \in DOMAIN ps |-> [ps[i] EXCEPT !.pos = at + LengthOf(SubSeq(ps, 1, i - 1))]]

-----------------------------------------------------------------------------
(* The position and the cached piece.                                      *)

(* Mutant: the cached piece is kept whatever the position.                 *)
Kept_Always(at) == current

(* The piece that es_set_position leaves cached.                           *)
Kept(at) ==
  IF \/ at = position
     \/ current # 0 /\ pieces[current].pos <= at /\ at < End(pieces[current])
  THEN current ELSE 0

(* get_current_offset: the piece of a position, from the cache if there is one. *)
Found(at, cached) == IF cached = 0 THEN Bounding(pieces, at) ELSE cached

(* The piece cached after a read that ends before a position: the next one, *)
(* unless the read stopped inside a piece.  Past the last one there is none. *)
AfterRead(upto) ==
  LET next == Bounding(pieces, upto - 1) + 1
  IN CASE next > Len(pieces)                            -> 0
       [] next <= Len(pieces) /\ pieces[next].pos > upto -> next - 1
       [] next <= Len(pieces) /\ pieces[next].pos <= upto-> next

SetPosition(at) ==
  /\ position' = at /\ current' = Kept(at)
  /\ UNCHANGED <<table, lastWrite, scratch, recStart, oldest, undo, span, writes>>

(* A read from the current position.                                       *)
Read(len) ==
  /\ position' = position + len
  /\ current' = AfterRead(position + len)
  /\ UNCHANGED <<table, lastWrite, scratch, recStart, oldest, undo, span, writes>>

-----------------------------------------------------------------------------
(* Edits.  Each first positions the stream (ev_input_partial and           *)
(* ev_delete_span do) and then replaces [first, last) by new characters.   *)

NewRecord == Len(scratch) + 1
Written(n, count, at, ps) == [ps EXCEPT ![at] = [@ EXCEPT !.len = count, !.src = n, !.off = 0]]

(* write_header_etc, and the fields that track the record.                 *)
Log(start, stop, deleted, count) ==
  /\ scratch' = Append(scratch, [prev |-> recStart, start |-> start, stop |-> stop,
                                 deleted |-> deleted, count |-> count])
  /\ recStart' = NewRecord
  /\ oldest' = IF oldest = 0 THEN NewRecord ELSE oldest

(* The end of every successful edit: all that follows moves.               *)
Settle(ps, after, delta, upto) ==
  /\ pieces' = Moved(ps, after + 1, delta)
  /\ length' = length + delta
  /\ position' = upto /\ current' = 0
  /\ lastWrite' = upto
  /\ writes' = writes + 1
  /\ UNCHANGED <<undo, span>>

(* The write to the scratch stream failed, and it is cut back to its old   *)
(* length, which a stream in memory never refuses (es_mem_replace).        *)
Fails(at, ps) ==
  /\ MayFail
  /\ pieces' = ps /\ position' = at /\ current' = 0
  /\ writes' = writes + 1
  /\ UNCHANGED <<length, lastWrite, scratch, recStart, oldest, undo, span>>

MayWrite(count) == writes < MaxWrites /\ length + count <= MaxLength

(* The table cut so that [first, last) is a number of whole pieces.        *)
CutAt(first, last) ==
  LET found == Found(first, Kept(first))
      delta == first - pieces[found].pos
      begun == IF delta = 0 THEN pieces ELSE Split(pieces, found, delta)
      from  == IF delta = 0 THEN found ELSE found + 1
      upto  == IF last > End(begun[from]) THEN Bounding(begun, last - 1) ELSE from
      done  == IF last < End(begun[upto]) THEN Split(begun, upto, last - begun[upto].pos) ELSE begun
  IN [ps |-> done, from |-> from, upto |-> upto]

(* ps_replace of a region that is not empty: its first piece is recycled   *)
(* for the new text.                                                       *)
ReplaceRegion(first, last, count) ==
  LET cut  == CutAt(first, last)
      gone == SubSeq(cut.ps, cut.from, cut.upto)
      kept == IF count = 0 THEN cut.from - 1 ELSE cut.from
      left == CutOut(cut.ps, kept + 1, cut.upto + 1)
  IN
  /\ MayWrite(count) /\ first < last
  /\ \/ /\ Log(first, last, gone, count)
        /\ Settle(IF count = 0 THEN left ELSE Written(NewRecord, count, cut.from, left),
                  kept, count - LengthOf(gone), first + count)
     \/ Fails(first, cut.ps)

AtEnd(i, delta) == i = Len(pieces) /\ delta = pieces[i].len

(* An insertion that continues the last edit lengthens its record, and the *)
(* piece that shows it.  After a deletion there is no such piece yet.      *)
Extend(at, count) ==
  LET found == Found(at, Kept(at))
      delta == at - pieces[found].pos
      here  == IF scratch[recStart].count > 0
               THEN IF AtEnd(found, delta) THEN found ELSE found - 1
               ELSE IF delta = 0 THEN found ELSE found + 1
      ps    == IF scratch[recStart].count > 0 THEN pieces
               ELSE Written(recStart, 0, here, Split(pieces, found, delta))
  IN
  /\ MayWrite(count) /\ length > 0 /\ count > 0 /\ at = lastWrite
  /\ \/ /\ scratch' = [scratch EXCEPT ![recStart].count = @ + count]
        /\ Settle([ps EXCEPT ![here].len = @ + count], here, count, at + count)
        /\ UNCHANGED <<recStart, oldest>>
     \/ Fails(at, pieces)

(* An insertion elsewhere: the piece is split, unless at its beginning or  *)
(* at the end of the stream, and a new one put in between.                 *)
Insert(at, count) ==
  LET found == Found(at, Kept(at))
      delta == at - pieces[found].pos
      here  == IF delta = 0 THEN found ELSE found + 1
      cut   == IF delta = 0 THEN pieces ELSE Split(pieces, found, delta)
      ps    == IF AtEnd(found, delta) THEN cut ELSE Split(cut, here, 0)
  IN
  /\ MayWrite(count) /\ length > 0 /\ count > 0 /\ at # lastWrite
  /\ \/ /\ Log(at, at, <<>>, count)
        /\ Settle(Written(NewRecord, count, here, ps), here, count, at + count)
     \/ Fails(at, CutOut(ps, here, here + 1))

(* Into a document without text.                                           *)
InsertFirst(count) ==
  /\ MayWrite(count) /\ length = 0 /\ count > 0
  /\ \/ /\ Log(0, 0, <<>>, count)
        /\ Settle(<<[pos |-> 0, len |-> count, src |-> NewRecord, off |-> 0]>>, 1, count, count)
     \/ Fails(0, <<>>)

-----------------------------------------------------------------------------
(* Pieces as text: a span is held by its pieces, and put in again elsewhere. *)

(* ps_pieces_for_span.  Bound: one span is held.                           *)
PiecesForSpan(first, last) ==
  LET from == Bounding(pieces, first)
      upto == Bounding(pieces, last - 1)
      copy == SubSeq(pieces, from, upto)
      cut  == [copy EXCEPT ![Len(copy)].len = last - Last(copy).pos]
      skip == first - copy[1].pos
      head == [cut[1] EXCEPT !.pos = first, !.len = @ - skip, !.off = @ + skip]
  IN [cut EXCEPT ![1] = head]

HoldSpan(first, last) ==
  /\ span = <<>> /\ first < last /\ last <= length
  /\ span' = PiecesForSpan(first, last)
  /\ UNCHANGED <<table, position, current, lastWrite, scratch, recStart, oldest, undo, writes>>

(* ps_insert_pieces: the record has the pieces where a deletion has those  *)
(* it removed, and no place to type on at.                                 *)
InsertPieces(at) ==
  LET found == IF pieces = <<>> THEN 1 ELSE Bounding(pieces, at)
      delta == IF pieces = <<>> THEN 0 ELSE at - pieces[found].pos
      here  == IF delta = 0 THEN found ELSE found + 1
      atEnd == pieces = <<>> \/ AtEnd(found, delta)
      ps    == IF delta = 0 \/ atEnd THEN pieces ELSE Split(pieces, found, delta)
      new   == Moved(span, 1, at - span[1].pos)
  IN
  /\ span # <<>> /\ MayWrite(LengthOf(span))
  /\ Log(at, at, new, 0)
  /\ pieces' = Moved(PutIn(ps, here, new), here + Len(new), LengthOf(span))
  /\ length' = length + LengthOf(span)
  /\ position' = at + LengthOf(span) /\ current' = 0 /\ lastWrite' = -1
  /\ writes' = writes + 1
  /\ UNCHANGED <<undo, span>>

-----------------------------------------------------------------------------
(* Undo.                                                                   *)

(* The records after a mark that are in force, newest first.               *)
Since(mark) ==
  LET Back[r \in 0..Len(scratch)] ==
        IF r <= mark THEN <<>> ELSE <<r>> \o Back[scratch[r].prev]
  IN Back[recStart]

IsOfPieces(r) == r.start = r.stop /\ r.deleted # <<>>

(* Mutant: one piece is taken to hold it all.                              *)
Spanned_One(ps, from, len) == 1

(* The pieces from one on that make up a length.                           *)
Spanned(ps, from, len) ==
  CHOOSE n \in 0..(Len(ps) - from + 1) :
    LengthOf(SubSeq(ps, from, from + n - 1)) = len /\ (n > 0 => ps[from + n - 1].len > 0)

Without(ps, from, len) == Moved(CutOut(ps, from, from + Spanned(ps, from, len)), from, -len)

(* adjust_pos_after_edit.                                                  *)
Adjusted(at, start, delta) ==
  IF delta > 0 THEN IF start <= at THEN at + delta ELSE at
  ELSE IF start >= at THEN at ELSE IF start - delta < at THEN at + delta ELSE start

(* The deleted pieces are put back, and the inserted text is taken out;    *)
(* other edits may have left it in more pieces than one.                   *)
UndoReplace(st, r) ==
  LET found == IF st.ps = <<>> THEN 1 ELSE Bounding(st.ps, r.start)
      delta == IF st.ps = <<>> THEN 0 ELSE r.start - st.ps[found].pos
      here  == IF delta = 0 THEN found ELSE found + 1
      back  == r.stop - r.start
      ps    == PutIn(Moved(st.ps, here, back), here, LaidFrom(r.deleted, r.start))
      after == here + Len(r.deleted)
      moved == Adjusted(st.pos, r.start, back)
  IN [ps  |-> IF r.count = 0 THEN ps ELSE Without(ps, after, r.count),
      len |-> st.len + back - r.count,
      pos |-> IF r.count = 0 THEN moved ELSE Adjusted(moved, r.stop, -r.count)]

(* Inserted pieces are taken out again.                                    *)
UndoPieces(st, r) ==
  LET n == LengthOf(r.deleted) IN
  [ps  |-> Without(st.ps, Bounding(st.ps, r.start), n),
   len |-> st.len - n,
   pos |-> Adjusted(st.pos, r.start, -n)]

UndoRecord(st, r) == IF IsOfPieces(r) THEN UndoPieces(st, r) ELSE UndoReplace(st, r)

(* The table, its length and the position when records have been undone.   *)
Undone(todo) ==
  LET After[n \in 0..Len(todo)] ==
        IF n = 0 THEN [ps |-> pieces, len |-> length, pos |-> position]
        ELSE UndoRecord(After[n - 1], scratch[todo[n]])
  IN After[Len(todo)]

(* Mutant: whatever is undone, no edit is left.                            *)
UndoTo_Clears(mark) ==
  LET todo == Since(mark)
      st   == Undone(todo)
  IN
  /\ pieces' = st.ps /\ length' = st.len /\ position' = st.pos
  /\ current' = 0
  /\ UNCHANGED scratch
  /\ recStart' = IF todo = <<>> THEN recStart ELSE scratch[Last(todo)].prev
  /\ oldest' = IF todo = <<>> THEN oldest ELSE 0

(* ps_undo_to_mark.                                                        *)
UndoTo(mark) ==
  LET todo == Since(mark)
      st   == Undone(todo)
  IN
  /\ pieces' = st.ps /\ length' = st.len /\ position' = st.pos
  /\ current' = 0
  /\ UNCHANGED scratch
  /\ recStart' = IF todo = <<>> THEN recStart ELSE scratch[Last(todo)].prev
  /\ oldest' = IF Contains(todo, oldest) THEN 0 ELSE oldest

Now(text) == [at |-> Len(scratch), text |-> text]

(* The marks that are left when the newest one is where the stream is now: *)
(* undo_count - 2 of them move up, and the last place is cleared.          *)
MovedUp == [i \in DOMAIN undo |-> CASE i <= UndoCount - 2 -> undo[i + 1]
                                    [] i = UndoCount - 1  -> undo[i]
                                    [] i = UndoCount      -> NoMark]
Candidates == IF undo[1].at = Len(scratch) THEN MovedUp ELSE undo

(* Mutant: the last edit can still be typed on at.                         *)
Checkpoint_Open ==
  /\ undo' = IF undo[1].at = Len(scratch) THEN undo
             ELSE <<Now(Text)>> \o SubSeq(undo, 1, UndoCount - 1)
  /\ UNCHANGED <<table, position, current, lastWrite, scratch, recStart, oldest, span, writes>>

(* textsw_checkpoint_undo: asking for the mark ends the record.            *)
Checkpoint ==
  /\ undo' = IF undo[1].at = Len(scratch) THEN undo
             ELSE <<Now(Text)>> \o SubSeq(undo, 1, UndoCount - 1)
  /\ lastWrite' = -1
  /\ UNCHANGED <<table, position, current, scratch, recStart, oldest, span, writes>>

(* textsw_do_undo.                                                         *)
Undo ==
  /\ lastWrite' = -1
  /\ IF IsMark(Candidates[1])
     THEN /\ UndoTo(Candidates[1].at)
          /\ undo' = [Candidates EXCEPT ![1] = Now(Denotes(pieces'))]
     ELSE /\ undo' = Candidates
          /\ UNCHANGED <<table, position, current, scratch, recStart, oldest>>
  /\ UNCHANGED <<span, writes>>

-----------------------------------------------------------------------------
(* ps_create, and textsw_init_undo.                                        *)
Init ==
  /\ pieces = IF OriginalLength = 0 THEN <<>>
              ELSE <<[pos |-> 0, len |-> OriginalLength, src |-> 0, off |-> 0]>>
  /\ length = OriginalLength
  /\ position = 0 /\ current = 0 /\ lastWrite = -1
  /\ scratch = <<>> /\ recStart = 0 /\ oldest = 0
  /\ undo = <<Now(Text)>> \o [i \in 1..(UndoCount - 1) |-> NoMark]
  /\ span = <<>> /\ writes = 0

Next ==
  \/ \E at \in 0..length : \/ SetPosition(at)
                           \/ InsertPieces(at)
                           \/ \E count \in 1..MaxInsert : Extend(at, count) \/ Insert(at, count)
  \/ \E len \in 1..(length - position) : Read(len)
  \/ \E count \in 1..MaxInsert : InsertFirst(count)
  \/ \E first \in 0..length, last \in 0..length :
       \/ \E count \in 0..MaxInsert : ReplaceRegion(first, last, count)
       \/ HoldSpan(first, last)
  \/ Checkpoint \/ Undo

Spec == Init /\ [][Next]_vars

-----------------------------------------------------------------------------
TypeOK ==
  /\ pieces \in Seq(Piece) /\ length \in 0..MaxLength
  /\ position \in 0..length /\ current \in 0..Len(pieces)
  /\ lastWrite \in -1..length
  /\ scratch \in Seq(Record) /\ recStart \in 0..Len(scratch) /\ oldest \in 0..Len(scratch)
  /\ undo \in Seq([at : -1..Len(scratch), text : Seq(Char)])
  /\ span \in Seq(Piece)
  /\ writes \in 0..MaxWrites

(* Everything keeps its type, and the table of pieces has no gap, no       *)
(* overlap and no empty piece, and its length is the document's            *)
(* (ps_pieces_are_consistent).                                             *)
Consistent ==
  /\ TypeOK
  /\ pieces = LaidFrom(pieces, 0)
  /\ length = LengthOf(pieces)
  /\ \A i \in DOMAIN pieces : pieces[i].len > 0

(* The document is the original with the edits in force made to it, one    *)
(* after another: whatever was typed on, deleted in parts, put in as       *)
(* pieces or undone in between, and whichever write to a scratch stream in *)
(* memory failed.                                                          *)
Inserted(n) == IF IsOfPieces(scratch[n]) THEN Denotes(scratch[n].deleted)
               ELSE [i \in 1..scratch[n].count |-> <<n, i>>]
Original == [i \in 1..OriginalLength |-> <<0, i>>]
Replaced(text, first, last, new) == SubSeq(text, 1, first) \o new \o SubSeq(text, last + 1, Len(text))
Replay ==
  LET edits == Reverse(Since(0))
      Upto[n \in 0..Len(edits)] ==
        IF n = 0 THEN Original
        ELSE LET r == scratch[edits[n]]
             IN Replaced(Upto[n - 1], r.start, r.stop, Inserted(edits[n]))
  IN Upto[Len(edits)]
TextIsReplay == Text = Replay

(* A read from the position finds the text that is there, also through a   *)
(* cached piece.                                                           *)
ReadsText ==
  pieces # <<>> =>
    LET from == Found(position, current)
        skip == position - pieces[from].pos
        seen == Denotes(SubSeq(pieces, from, Len(pieces)))
    IN skip >= 0 /\ SubSeq(seen, skip + 1, Len(seen)) = SubSeq(Text, position + 1, length)

(* A document without edits (ES_HAS_EDITS), which textsw does not offer to *)
(* save, has the original text.                                            *)
UnmodifiedIsOriginal == oldest = 0 => Text = Original

(* Undo brings back the text as it was at the newest mark that is not the  *)
(* present, whatever edits came after it.                                  *)
UndoRestores == [][Undo /\ IsMark(Candidates[1]) => Denotes(pieces') = Candidates[1].text]_vars
===============================================================================
