---------------------------- MODULE LargeFileBuffer ----------------------------
(***************************************************************************)
(* The piece table of the large-file mode (large_file_buffer.cpp).  A      *)
(* buffer is a record; each operator returns the buffer a member function  *)
(* leaves.  The mapped source (mapped_file.cpp) is a parameter: the bytes  *)
(* its handle reads.  Offsets count from 0, as in the code.                *)
(***************************************************************************)
EXTENDS Integers, Sequences, SequencesExt

(* Where the pieces end in the text; piece i begins where the last ended.  *)
Ends(pieces) ==
  LET end[i \in 0 .. Len(pieces)] ==
        IF i = 0 THEN 0 ELSE end[i - 1] + pieces[i].length
  IN  end

Start(pieces, i) == Ends(pieces)[i - 1]

Length(pieces) == Ends(pieces)[Len(pieces)]

Original(length) == [storage |-> "original", offset |-> 0, length |-> length]

(* Open, and SaveAs at its end: one piece over the whole source.           *)
Opened(length) == [pieces |-> IF length = 0 THEN <<>> ELSE <<Original(length)>>,
                   added |-> <<>>, size |-> length, modified |-> FALSE]

-----------------------------------------------------------------------------
(* A piece cut at a distance from its beginning.                           *)
Left(piece, n)  == [piece EXCEPT !.length = n]
Right(piece, n) == [piece EXCEPT !.offset = @ + n, !.length = @ - n]

(* SplitAt: the index of the piece that begins at the offset, which may    *)
(* have to be cut out of another, and the pieces with that cut.            *)
Cut(pieces, offset) ==
  LET inside(i) == /\ Start(pieces, i) < offset
                   /\ offset < Start(pieces, i) + pieces[i].length
  IN  IF \E i \in DOMAIN pieces : inside(i)
      THEN LET i == CHOOSE i \in DOMAIN pieces : inside(i)
               n == offset - Start(pieces, i)
           IN  SubSeq(pieces, 1, i - 1) \o <<Left(pieces[i], n), Right(pieces[i], n)>>
                 \o SubSeq(pieces, i + 1, Len(pieces))
      ELSE pieces

IndexAt(pieces, offset) ==
  IF offset = Length(pieces) THEN Len(pieces) + 1
  ELSE CHOOSE i \in DOMAIN pieces :
         /\ Start(pieces, i) = offset
         /\ \A j \in 1 .. i - 1 : Start(pieces, j) # offset

(* A mutant: neighbours of one storage are joined wherever they lie.       *)
MutantJoins(left, right) == left.storage = right.storage

Joins(left, right) == /\ left.storage = right.storage
                      /\ left.offset + left.length = right.offset

(* Normalize: an empty piece is dropped, and one that continues the piece  *)
(* before it is joined to that.                                            *)
AddPiece(pieces, piece) ==
  IF piece.length = 0 THEN pieces
  ELSE IF pieces # <<>> /\ Joins(Last(pieces), piece)
       THEN Append(Front(pieces), [Last(pieces) EXCEPT !.length = @ + piece.length])
       ELSE Append(pieces, piece)

Normalize(pieces) ==
  LET joined[i \in 0 .. Len(pieces)] ==
        IF i = 0 THEN <<>> ELSE AddPiece(joined[i - 1], pieces[i])
  IN  joined[Len(pieces)]

CanInsert(b, offset) == offset <= b.size

Insert(b, offset, bytes) ==
  LET cut   == Cut(b.pieces, offset)
      index == IndexAt(cut, offset)
      piece == [storage |-> "added", offset |-> Len(b.added), length |-> Len(bytes)]
  IN  IF bytes = <<>> THEN b
      ELSE [pieces |-> Normalize(InsertAt(cut, index, piece)),
            added |-> b.added \o bytes, size |-> b.size + Len(bytes),
            modified |-> TRUE]

CanErase(b, offset, length) == offset + length <= b.size

Erase(b, offset, length) ==
  LET cut   == Cut(Cut(b.pieces, offset), offset + length)
      begin == IndexAt(cut, offset)
      end   == IndexAt(cut, offset + length)
  IN  IF length = 0 THEN b
      ELSE [b EXCEPT !.pieces = Normalize(SubSeq(cut, 1, begin - 1)
                                            \o SubSeq(cut, end, Len(cut))),
                     !.size = @ - length, !.modified = TRUE]

-----------------------------------------------------------------------------
(* Reading.  A piece that reaches beyond what its storage holds cannot be  *)
(* read (MappedFile::Read returns less), and then nothing is.              *)

Gap == "gap"  \* a byte that cannot be read

PieceBytes(added, source, piece) ==
  LET storage == IF piece.storage = "original" THEN source ELSE added
  IN  [k \in 1 .. piece.length |->
         IF piece.offset + k <= Len(storage) THEN storage[piece.offset + k] ELSE Gap]

TextOf(pieces, added, source) ==
  LET text[i \in 0 .. Len(pieces)] ==
        IF i = 0 THEN <<>> ELSE text[i - 1] \o PieceBytes(added, source, pieces[i])
  IN  text[Len(pieces)]

Text(b, source) == TextOf(b.pieces, b.added, source)

Readable(bytes) == Gap \notin Range(bytes)

Least(m, n) == IF m < n THEN m ELSE n

Read(b, source, offset, length) ==
  LET n == Least(b.size - offset, length)
      bytes == SubSeq(Text(b, source), offset + 1, offset + n)
  IN  IF offset < b.size /\ Readable(bytes) THEN bytes ELSE <<>>

NotFound == -1

(* std::search.                                                            *)
Occurs(needle, text) ==
  {k \in 0 .. Len(text) - Len(needle) :
     SubSeq(text, k + 1, k + Len(needle)) = needle}

First(set) == CHOOSE k \in set : \A other \in set : k <= other

(* A mutant: the end of a chunk is not kept for the next.                  *)
MutantOverlap(needle) == 0

(* How many bytes of a chunk are searched again with the next one.         *)
Overlap(needle) == Len(needle) - 1

LastBytes(bytes, n) ==
  LET keep == Least(n, Len(bytes))
  IN  SubSeq(bytes, Len(bytes) - keep + 1, Len(bytes))

(* Find: the range is read in chunks, each searched behind what is carried *)
(* over from the ones before.                                              *)
Find(b, source, needle, start, stop, chunk) ==
  LET end      == Least(stop, b.size)
      chunks   == (end - start + chunk - 1) \div chunk
      cursor(i) == start + (i - 1) * chunk
      bytes(i) == Read(b, source, cursor(i), Least(chunk, end - cursor(i)))
      carry[i \in 0 .. chunks] ==
        IF i = 0 THEN <<>> ELSE LastBytes(carry[i - 1] \o bytes(i), Overlap(needle))
      found(i) == Occurs(needle, carry[i - 1] \o bytes(i))
      hits     == {i \in 1 .. chunks : /\ found(i) # {}
                                      /\ \A j \in 1 .. i : bytes(j) # <<>>}
  IN  IF needle = <<>> \/ start >= b.size \/ end <= start
           \/ Len(needle) > end - start \/ hits = {}
      THEN NotFound
      ELSE LET i == First(hits)
           IN  cursor(i) - Len(carry[i - 1]) + First(found(i))
=============================================================================
