------------------------------ MODULE ScratchFile ------------------------------
(***************************************************************************)
(* The scratch stream of a text that was loaded from a file (textsw,       *)
(* es_file.c), as ps_impl.c uses it: a file in /tmp behind a buffer for    *)
(* writes and a buffer for reads.  An edit appends several parts to it,    *)
(* and when one of them cannot be written the stream is to be cut back to  *)
(* where it was.  Counts and flags of older records are overwritten in     *)
(* place; pieces are read from anywhere.                                   *)
(*                                                                         *)
(* The unit is a cell: a field that is written as a whole.  Positions are  *)
(* counted from 0.  The value of a cell is the number of its write.        *)
(***************************************************************************)
EXTENDS Integers, Sequences

CONSTANTS
  BufLen,     \* ES_WRITE_BUF_LEN
  ReadLen,    \* ES_READ_BUF_LEN
  MaxPart,    \* bound: cells written or read by one call
  MaxLength,  \* bound: cells in the stream
  MaxWrites   \* bound: writes

ASSUME ScratchAssumption ==
  /\ {BufLen, ReadLen} \subseteq Nat \ {0}
  /\ {MaxPart, MaxLength, MaxWrites} \subseteq Nat

VARIABLES
  file,      \* the file, and length_on_disk
  writeBuf,  \* private->write_buf
  readBuf,   \* private->read_buf
  wrote,     \* the cells as they were written; its length is private->length
  lost,      \* the cells whose last write failed or was taken back
  edit,      \* the length when the edit under way began; NoEdit: none
  end,       \* the end of the last edit that succeeded
  reading,   \* es_file_read: the position it is at and what is still needed
  writes

stream == <<file, writeBuf, readBuf, wrote, lost>>
vars   == <<stream, edit, end, reading, writes>>

NoEdit   == -1
Position == 0..MaxLength
Cells    == Seq(0..MaxWrites)
Length   == Len(wrote)
Last(buf) == buf.start + Len(buf.chars)
Contains(buf, pos) == buf.start <= pos /\ pos < Last(buf)
Smaller(m, n) == IF m < n THEN m ELSE n
Larger(m, n)  == IF m < n THEN n ELSE m
Empty(buf) == [buf EXCEPT !.chars = <<>>]

Init ==
  /\ file = [chars |-> <<>>, length |-> 0]
  /\ writeBuf = [start |-> 0, chars |-> <<>>] /\ readBuf = [start |-> 0, chars |-> <<>>]
  /\ wrote = <<>> /\ lost = {}
  /\ edit = NoEdit /\ end = 0 /\ reading = [at |-> 0, need |-> 0] /\ writes = 0

-----------------------------------------------------------------------------
(* The file and its buffers.                                               *)

(* write(2) at a position; a hole is read as zeros.                        *)
Put(chars, start, new) ==
  IF new = <<>> THEN chars
  ELSE [i \in 1..Larger(Len(chars), start + Len(new)) |->
          IF start < i /\ i <= start + Len(new) THEN new[i - start]
          ELSE IF i <= Len(chars) THEN chars[i] ELSE 0]

(* es_file_fill_buf.                                                       *)
Filled(f, first, upto) ==
  [start |-> first, chars |-> IF first < upto THEN SubSeq(f.chars, first + 1, upto) ELSE <<>>]

(* es_file_flush_write_buf, also of the faked buffer of a direct write; a  *)
(* short write leaves the first k cells.                                   *)
Flushed(f, buf) ==
  IF buf.chars = <<>> THEN f
  ELSE [chars |-> Put(f.chars, buf.start, buf.chars), length |-> Larger(f.length, Last(buf))]
Short(f, buf, k) == [f EXCEPT !.chars = Put(@, buf.start, SubSeq(buf.chars, 1, k))]

(* "Buffer must contain include and also_include."                         *)
MustMove(include, also) ==
  \/ include < writeBuf.start \/ include > Last(writeBuf)
  \/ include = Last(writeBuf) /\ include >= writeBuf.start + BufLen
  \/ /\ also >= Last(writeBuf)
     /\ Last(writeBuf) < Length \/ also >= writeBuf.start + BufLen
Flushes(include, also) == writeBuf.chars # <<>> /\ MustMove(include, also)

(* es_file_move_write_buf.                                                 *)
MovedTo(include, also) ==
  LET f == IF Flushes(include, also) THEN Flushed(file, writeBuf) ELSE file IN
  [file |-> f,
   buf  |-> IF writeBuf.chars # <<>> /\ ~MustMove(include, also) THEN writeBuf
            ELSE Filled(f, include, Smaller(f.length, include + BufLen))]

(* Mutant: what has been read stays when it is written over.               *)
Uncached_Not(first, upto) == readBuf

(* update_read_buf.                                                        *)
Uncached(first, upto) ==
  IF first < Last(readBuf) /\ readBuf.start < upto THEN Empty(readBuf) ELSE readBuf

-----------------------------------------------------------------------------
(* ps_impl.c: edits.                                                       *)

AtRest == edit = NoEdit /\ reading.need = 0

(* ps_replace: scratch_length = es_set_position(scratch, ES_INFINITY).     *)
Begin ==
  /\ AtRest /\ writes < MaxWrites
  /\ edit' = Length /\ UNCHANGED <<stream, end, reading, writes>>

(* A part of the record, or text that lengthens the last one, is written.  *)
Write(n) ==
  LET new == [i \in 1..n |-> writes + 1]
      m   == MovedTo(Length, Length + n)
  IN
  /\ edit # NoEdit /\ writes < MaxWrites /\ Length + n <= MaxLength
  /\ IF n <= BufLen
     THEN file' = m.file /\ writeBuf' = [m.buf EXCEPT !.chars = @ \o new]
     ELSE /\ file' = Flushed(Flushed(file, writeBuf), [start |-> Length, chars |-> new])
          /\ writeBuf' = Empty(writeBuf)
  /\ readBuf' = Uncached(Length, Length + n) /\ wrote' = wrote \o new
  /\ writes' = writes + 1
  /\ UNCHANGED <<lost, edit, end, reading>>

(* What a failing write leaves in the file and in the buffer.              *)
Failing(n) ==
  LET new == [start |-> Length, chars |-> [i \in 1..n |-> writes + 1]] IN
  {<<Short(file, writeBuf, k), writeBuf>> : k \in
     {j \in 0..(Len(writeBuf.chars) - 1) : n > BufLen \/ Flushes(Length, Length + n)}}
  \cup {<<Short(Flushed(file, writeBuf), new, k), Empty(writeBuf)>> :
          k \in {j \in 0..(n - 1) : n > BufLen}}

(* Error_Return: the stream is cut back, and the result not looked at.     *)
(* That is refused for what has been written to disk (es_file_replace,     *)
(* esfr_truncate), and else empties the buffers.  With nothing to cut off  *)
(* nothing is inserted, for which the buffer may be moved.                 *)
BackOut(f, buf) ==
  \/ /\ edit = Length
     /\ \/ buf.chars # <<>> /\ file' = f /\ writeBuf' = buf
        \/ /\ buf.chars = <<>> \/ MustMove(Length, Length)
           /\ file' = Flushed(f, buf)
           /\ writeBuf' = [start |-> Length, chars |-> <<>>]
     /\ UNCHANGED <<readBuf, wrote, lost>>
  \/ /\ edit < Length /\ edit < f.length
     /\ file' = f /\ writeBuf' = buf /\ UNCHANGED <<readBuf, wrote, lost>>
  \/ /\ edit < Length /\ edit >= f.length
     /\ file' = f /\ writeBuf' = Empty(buf) /\ readBuf' = Empty(readBuf)
     /\ wrote' = SubSeq(wrote, 1, edit)
     /\ lost' = (lost \cup {pos \in Position : Contains(buf, pos)}) \cap (0..(edit - 1))

WriteFails(n) ==
  /\ edit # NoEdit /\ writes < MaxWrites /\ Length + n <= MaxLength
  /\ \E after \in Failing(n) : BackOut(after[1], after[2])
  /\ edit' = NoEdit /\ writes' = writes + 1
  /\ UNCHANGED <<end, reading>>

Done ==
  /\ edit # NoEdit /\ edit < Length
  /\ edit' = NoEdit /\ end' = Length
  /\ UNCHANGED <<stream, reading, writes>>

(* "overwrite directly": fewer than five bytes that are not in the buffer. *)
Direct(pos, small) == small /\ (pos + 1 < writeBuf.start \/ pos >= Last(writeBuf))

(* The count of a record that was lengthened, or its flag when it is       *)
(* undone, is overwritten; nobody looks whether that succeeded.            *)
Overwrite(pos, small) ==
  LET new == [start |-> pos, chars |-> <<writes + 1>>]
      m   == MovedTo(pos, pos + 1)
      buf == m.buf
  IN
  /\ AtRest /\ pos < Length /\ writes < MaxWrites /\ writes' = writes + 1
  /\ \/ /\ Direct(pos, small)
        /\ file' = Flushed(file, new) /\ readBuf' = Uncached(pos, pos + 1)
        /\ wrote' = [wrote EXCEPT ![pos + 1] = writes + 1] /\ UNCHANGED <<writeBuf, lost>>
     \/ /\ ~Direct(pos, small)
        /\ file' = m.file /\ readBuf' = Uncached(pos, pos + 1)
        /\ writeBuf' = IF Contains(buf, pos)
                       THEN [buf EXCEPT !.chars[pos - buf.start + 1] = writes + 1] ELSE buf
        /\ wrote' = [wrote EXCEPT ![pos + 1] = writes + 1] /\ UNCHANGED lost
     \/ /\ Direct(pos, small)
        /\ lost' = lost \cup {pos} /\ UNCHANGED <<file, writeBuf, readBuf, wrote>>
     \/ /\ ~Direct(pos, small) /\ Flushes(pos, pos + 1)
        /\ \E k \in 0..(Len(writeBuf.chars) - 1) : file' = Short(file, writeBuf, k)
        /\ lost' = lost \cup {pos} /\ UNCHANGED <<writeBuf, readBuf, wrote>>
  /\ UNCHANGED <<edit, end, reading>>

-----------------------------------------------------------------------------
(* es_file_read: each step is a turn of its loop.                          *)

Read(pos, n) ==
  /\ AtRest /\ pos + n <= Length
  /\ reading' = [at |-> pos, need |-> n]
  /\ UNCHANGED <<stream, edit, end, writes>>

(* "the write_buf has precedence over the read_buf"                        *)
Take ==
  LET from == IF Contains(writeBuf, reading.at) THEN writeBuf ELSE readBuf
      n    == Smaller(reading.need, Last(from) - reading.at)
  IN
  /\ reading.need > 0 /\ Contains(from, reading.at)
  /\ reading' = [at |-> reading.at + n, need |-> reading.need - n]
  /\ UNCHANGED <<stream, edit, end, writes>>

NotBuffered ==
  /\ reading.need > 0
  /\ ~Contains(writeBuf, reading.at) /\ ~Contains(readBuf, reading.at)

(* Mutant: what is before the position is avoided, too.                    *)
ReadUpTo_Any(upto, ahead) ==
  LET onDisk == Smaller(upto, file.length) IN
  IF writeBuf.chars # <<>> /\ onDisk > writeBuf.start THEN writeBuf.start ELSE onDisk

(* Of the file, and before what is in the write buffer: a read into the    *)
(* buffer asks whether that lies ahead, a direct one does not.             *)
ReadUpTo(upto, ahead) ==
  LET onDisk == Smaller(upto, file.length) IN
  IF writeBuf.chars # <<>> /\ onDisk > writeBuf.start /\ ahead THEN writeBuf.start ELSE onDisk

(* "might as well get as many characters as possible"                      *)
Fill ==
  /\ NotBuffered /\ reading.need <= ReadLen
  /\ readBuf' = Filled(file, reading.at,
                       ReadUpTo(reading.at + ReadLen, reading.at < writeBuf.start))
  /\ UNCHANGED <<file, writeBuf, wrote, lost, edit, end, reading, writes>>

(* Directly; a read of nothing leaves the loop.                            *)
ReadDirect ==
  LET upto == ReadUpTo(reading.at + reading.need, TRUE) IN
  /\ NotBuffered /\ reading.need > ReadLen
  /\ reading' = IF upto <= reading.at THEN [reading EXCEPT !.need = 0]
                ELSE [at |-> upto, need |-> reading.need - (upto - reading.at)]
  /\ UNCHANGED <<stream, edit, end, writes>>

Reading == Take \/ Fill \/ ReadDirect

Next ==
  \/ Begin \/ Done \/ Reading
  \/ \E n \in 1..MaxPart : Write(n) \/ WriteFails(n)
  \/ \E pos \in Position, small \in BOOLEAN : Overwrite(pos, small)
  \/ \E pos \in Position, n \in 1..MaxPart : Read(pos, n)

Spec == Init /\ [][Next]_vars

(* es_file_read is a loop of one thread.                                   *)
FairSpec == Spec /\ WF_vars(Reading)

-----------------------------------------------------------------------------
(* Properties.                                                             *)

TypeOK ==
  /\ file \in [chars : Cells, length : Position] /\ file.length <= Len(file.chars)
  /\ \A buf \in {writeBuf, readBuf} : buf \in [start : Position, chars : Cells]
  /\ Len(writeBuf.chars) <= BufLen /\ Len(readBuf.chars) <= Larger(ReadLen, BufLen)
  /\ wrote \in Cells /\ lost \subseteq 0..(Length - 1)
  /\ edit \in {NoEdit} \cup 0..Length /\ end \in Position /\ writes \in 0..MaxWrites
  /\ reading \in [at : Position, need : 0..MaxPart]

(* Where a read would find the cell, in the order in which it looks.       *)
InBuffer(buf, pos) == Contains(buf, pos) /\ buf.chars[pos - buf.start + 1] = wrote[pos + 1]
ReadsBack(pos) ==
  IF Contains(writeBuf, pos) THEN InBuffer(writeBuf, pos)
  ELSE /\ pos < file.length /\ file.chars[pos + 1] = wrote[pos + 1]
       /\ Contains(readBuf, pos) => InBuffer(readBuf, pos)

(* Of the write buffer, the read buffer and the file a reader finds what   *)
(* was written last, also after writes that failed and edits that were     *)
(* backed out, but for the cells to which that happened.                   *)
KeepsTheRest == TypeOK /\ \A pos \in 0..(Length - 1) : pos \in lost \/ ReadsBack(pos)

(* "read's must retrieve from the write_buf first, to ensure that the      *)
(* client reads what it wrote" (es_file.c:172): of every cell, also when an*)
(* edit was backed out.                                                    *)
ReadsWhatItWrote == \A pos \in 0..(Length - 1) : ReadsBack(pos)

(* "attempt to "back out" failed es_replace's" (ps_impl.c:981): after an   *)
(* edit that failed the stream ends with the last one that succeeded.      *)
BackedOut == edit = NoEdit => Length = end

(* The loop of es_file_read ends, if what it is to read was not lost.      *)
ReadsEnd ==
  (reading.need > 0 /\ \A i \in 0..(reading.need - 1) : reading.at + i \notin lost)
    ~> reading.need = 0

(* "assert(to_read != 0)" (es_file.c:818): a read that goes to the file    *)
(* gets something; it has told its caller how much.                        *)
ReadGetsSomething == [][ReadDirect /\ lost = {} => reading'.at # reading.at]_vars
===============================================================================
