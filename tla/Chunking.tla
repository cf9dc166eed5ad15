------------------------------ MODULE Chunking ------------------------------
(***************************************************************************)
(* Chunk boundaries (ingestion.py): a paragraph longer than a chunk is     *)
(* split between words, with an overlap; a word longer than a chunk is cut.*)
(*                                                                         *)
(* A paragraph is where its words end: paragraph[i] - 1 characters, words  *)
(* separated by one blank, up to the end of word i.                        *)
(***************************************************************************)
EXTENDS Integers, Sequences

CONSTANTS
  Paragraphs,    \* the paragraphs an instance splits
  MaxChars,      \* ChunkingConfig.max_chars
  OverlapChars   \* ChunkingConfig.overlap_chars

ASSUME ChunkingAssumption ==
  /\ MaxChars \in Nat \ {0} /\ OverlapChars \in Nat /\ OverlapChars < MaxChars
  /\ \A p \in Paragraphs :
       /\ p \in Seq(Nat) /\ p # <<>>
       /\ \A i \in 1..Len(p) : p[i] >= 2 /\ \A j \in 1..(i - 1) : p[i] >= p[j] + 2

VARIABLES
  paragraph,
  position,       \* words read
  first,          \* the first word of "current"; position + 1 when it is empty
  currentLength,  \* current_length
  cut,            \* characters already cut off a word longer than a chunk
  pieces          \* chunks so far: first and last word, length, and for a
                  \* part of a cut word where it starts in the word

chunkVars == <<paragraph, position, first, currentLength, cut, pieces>>

End(i) == IF i = 0 THEN 0 ELSE paragraph[i]
\* Length of words i to j, joined.
Width(i, j) == End(j) - End(i - 1) - 1
WordLength(i) == Width(i, i)
Empty == first = position + 1
Piece(i, j, length) == [from |-> i, to |-> j, start |-> 0, length |-> length]
Flushed == IF Empty THEN pieces ELSE Append(pieces, Piece(first, position, currentLength))

ChunkInit ==
  /\ paragraph \in Paragraphs
  /\ position = 0 /\ first = 1 /\ currentLength = 0 /\ cut = 0
  /\ pieces = <<>>

\* _overlap_tail: the room for an overlap, and the first word of the longest
\* suffix of the finished piece that fits.
Room(next) ==
  IF OverlapChars < MaxChars - next - 1 THEN OverlapChars ELSE MaxChars - next - 1
IsOverlap(i, next) ==
  IF OverlapChars = 0 \/ next >= MaxChars \/ Room(next) <= 0 THEN i = position + 1
  ELSE /\ i = position + 1 \/ Width(i, position) <= Room(next)
       /\ \A j \in first..(i - 1) : Width(j, position) > Room(next)

\* A word longer than a chunk ends the current piece and is cut, part by part.
LongWord ==
  LET i == position + 1
      rest == WordLength(i) - cut
      part == [from |-> i, to |-> i, start |-> cut,
               length |-> IF rest < MaxChars THEN rest ELSE MaxChars]
      done == rest <= MaxChars
  IN  /\ position < Len(paragraph) /\ WordLength(i) > MaxChars
      /\ pieces' = Append(Flushed, part)
      /\ position' = IF done THEN i ELSE position
      /\ cut' = IF done THEN 0 ELSE cut + MaxChars
      /\ first' = position' + 1 /\ currentLength' = 0
      /\ UNCHANGED paragraph

\* Mutant: the blank before a word is not counted.
ProposedBug == currentLength + WordLength(position + 1)
Proposed == currentLength + WordLength(position + 1) + (IF Empty THEN 0 ELSE 1)
HasRoom == Empty \/ Proposed <= MaxChars

\* A word that fits joins the current piece ...
Joins ==
  /\ position < Len(paragraph) /\ WordLength(position + 1) <= MaxChars
  /\ HasRoom
  /\ currentLength' = Proposed
  /\ position' = position + 1
  /\ UNCHANGED <<paragraph, first, cut, pieces>>

\* ... and one that does not starts the next, after the overlap if there is room.
Starts ==
  LET word == WordLength(position + 1)
  IN  /\ position < Len(paragraph) /\ word <= MaxChars
      /\ ~HasRoom
      /\ pieces' = Flushed
      /\ \E tail \in first..(position + 1) :
           LET overlap == IF tail = position + 1 THEN 0 ELSE Width(tail, position)
               fits == tail # position + 1 /\ overlap + 1 + word <= MaxChars
           IN  /\ IsOverlap(tail, word)
               /\ first' = IF fits THEN tail ELSE position + 1
               /\ currentLength' = IF fits THEN overlap + 1 + word ELSE word
      /\ position' = position + 1
      /\ UNCHANGED <<paragraph, cut>>

\* The last piece.
LastPiece ==
  /\ position = Len(paragraph) /\ ~Empty
  /\ pieces' = Flushed
  /\ first' = position + 1 /\ currentLength' = 0
  /\ UNCHANGED <<paragraph, position, cut>>

ChunkNext == LongWord \/ Joins \/ Starts \/ LastPiece
ChunkSpec == ChunkInit /\ [][ChunkNext]_chunkVars

---------------------------------------------------------------------------
\* A piece has the length of its words, or is a part of one word.
PieceHonest(p) ==
  /\ 1 <= p.from /\ p.from <= p.to /\ p.to <= Len(paragraph)
  /\ 1 <= p.length /\ p.length <= MaxChars
  /\ \/ p.start = 0 /\ p.length = Width(p.from, p.to)
     \/ p.from = p.to /\ p.start + p.length <= WordLength(p.from)
Whole(p) == p.start + p.length = Width(p.from, p.to)
\* A piece goes on where the one before ended, or repeats whole words of it,
\* of at most OverlapChars.
Follows(p, q) ==
  \/ Whole(p) /\ q.from = p.to + 1 /\ q.start = 0
  \/ p.from = p.to /\ q.from = p.to /\ q.to = p.to /\ q.start = p.start + p.length
  \/ /\ Whole(p) /\ q.start = 0
     /\ p.from < q.from /\ q.from <= p.to /\ p.to < q.to
     /\ Width(q.from, p.to) <= OverlapChars

\* However the words fall, no chunk exceeds the limit and no character of the
\* paragraph is lost: the pieces follow each other from its first word on, and
\* at the end the last one ends with its last word (_split_by_size).
ChunksHoldTheText ==
  /\ \A k \in DOMAIN pieces : PieceHonest(pieces[k])
  /\ \A k \in 1..(Len(pieces) - 1) : Follows(pieces[k], pieces[k + 1])
  /\ pieces # <<>> => pieces[1].from = 1 /\ pieces[1].start = 0
  /\ position = Len(paragraph) /\ Empty =>
       /\ pieces # <<>>
       /\ Whole(pieces[Len(pieces)]) /\ pieces[Len(pieces)].to = position
=============================================================================
