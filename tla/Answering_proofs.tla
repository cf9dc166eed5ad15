-------------------------- MODULE Answering_proofs --------------------------
(***************************************************************************)
(* A replayed request, for every corpus, provider and bound.               *)
(*                                                                         *)
(* Chunking: no character of a paragraph is lost and no chunk is too long, *)
(* whatever the paragraph, the limit and the overlap.  The inductive       *)
(* invariant says what the piece being built holds and how it follows the  *)
(* last chunk.                                                             *)
(*                                                                         *)
(* The index: its path always holds nothing or a whole index, and a query  *)
(* that names its source is served as it asked, for any number of          *)
(* commands, corpora and settings.                                         *)
(*                                                                         *)
(* The transcript: whatever events a source lists, what an accepted replay *)
(* yields is what the set of its events says.  The inductive invariant     *)
(* says what the marks of the records mean and what was said so far.       *)
(*                                                                         *)
(* The evidence: no intent is passed over while something of its own fits, *)
(* for any rankings and bounds.  Fused lists hold every hit in a place of  *)
(* its own, and the room a passed over intent lacked is never given back.  *)
(*                                                                         *)
(* The answer: every provider call is accounted for and bounded by the     *)
(* budget of retries and repairs, only verified claims that stand are      *)
(* published, and the session that keeps the answers loses nothing in use. *)
(***************************************************************************)
EXTENDS Answering, AnswerHistory_proofs


-----------------------------------------------------------------------------
(* Chunking.                                                               *)

PieceRecord == [from : Nat, to : Nat, start : Nat, length : Nat]
Newest == pieces[Len(pieces)]

TypesHold ==
  /\ paragraph \in Paragraphs
  /\ position \in 0..Len(paragraph) /\ first \in 1..(position + 1)
  /\ currentLength \in Nat /\ cut \in Nat
  /\ pieces \in Seq(PieceRecord)

\* The piece being built holds the words from "first" on, and goes on where
\* the last chunk ended or repeats its end.
CurrentFollows ==
  /\ cut = 0
  /\ currentLength = Width(first, position) /\ 1 <= currentLength /\ currentLength <= MaxChars
  /\ pieces = <<>> => first = 1
  /\ pieces # <<>> =>
       /\ Whole(Newest) /\ Newest.from <= Newest.to /\ Newest.to < position
       /\ \/ first = Newest.to + 1
          \/ Newest.from < first /\ first <= Newest.to /\ Width(first, Newest.to) <= OverlapChars

\* Between pieces everything read is in the chunks ...
AllFlushed ==
  /\ cut = 0 /\ currentLength = 0
  /\ IF position = 0 THEN pieces = <<>>
     ELSE pieces # <<>> /\ Whole(Newest) /\ Newest.to = position

\* ... and so is the part of a long word that was cut off.
PartFlushed ==
  /\ cut > 0 /\ currentLength = 0
  /\ position < Len(paragraph) /\ cut < WordLength(position + 1)
  /\ MaxChars < WordLength(position + 1)
  /\ pieces # <<>>
  /\ Newest.from = position + 1 /\ Newest.to = position + 1 /\ Newest.start + Newest.length = cut

Hold(s) ==
  /\ \A k \in DOMAIN s : PieceHonest(s[k])
  /\ \A k \in 1..(Len(s) - 1) : Follows(s[k], s[k + 1])
  /\ s # <<>> => s[1].from = 1 /\ s[1].start = 0

ChunkInv ==
  /\ TypesHold /\ Hold(pieces)
  /\ IF Empty THEN AllFlushed \/ PartFlushed ELSE CurrentFollows

-----------------------------------------------------------------------------
(* The lengths of words.                                                   *)

LEMMA ParagraphShape ==
  ASSUME paragraph \in Paragraphs
  PROVE  /\ Len(paragraph) \in Nat \ {0}
         /\ \A i \in 0..Len(paragraph) : End(i) \in Nat
         /\ \A i \in 1..Len(paragraph), j \in 0..Len(paragraph) : j < i => End(i) >= End(j) + 2
  <1>1. /\ paragraph \in Seq(Nat) /\ paragraph # <<>>
        /\ \A i \in 1..Len(paragraph) :
             /\ paragraph[i] >= 2
             /\ \A j \in 1..(i - 1) : paragraph[i] >= paragraph[j] + 2
    BY ChunkingAssumption
  <1>2. Len(paragraph) \in Nat \ {0}
    BY <1>1
  <1>3. \A i \in 1..Len(paragraph) : paragraph[i] \in Nat /\ End(i) = paragraph[i]
    BY <1>1, <1>2 DEF End
  <1>4. End(0) = 0
    BY DEF End
  <1>5. \A i \in 0..Len(paragraph) : End(i) \in Nat
    BY <1>2, <1>3, <1>4
  <1>6. ASSUME NEW i \in 1..Len(paragraph), NEW j \in 0..Len(paragraph), j < i
        PROVE  End(i) >= End(j) + 2
    <2>1. CASE j = 0
      BY <1>1, <1>3, <1>4, <2>1, SMTT(30)
    <2>2. CASE j # 0
      <3>1. j \in 1..(i - 1) /\ j \in 1..Len(paragraph)
        BY <1>2, <1>6, <2>2
      <3> QED BY <1>1, <1>3, <3>1
    <2> QED BY <2>1, <2>2
  <1> QED BY <1>2, <1>5, <1>6

\* Words, and so pieces, have at least one character.
LEMMA PiecesAreNotEmpty ==
  ASSUME paragraph \in Paragraphs, NEW j \in 1..Len(paragraph), NEW i \in 1..j
  PROVE  Width(i, j) \in Nat \ {0}
  <1>1. i - 1 \in 0..Len(paragraph) /\ j \in 0..Len(paragraph) /\ i - 1 < j
    BY ParagraphShape
  <1>2. End(j) >= End(i - 1) + 2 /\ End(j) \in Nat /\ End(i - 1) \in Nat
    BY <1>1, ParagraphShape
  <1> QED BY <1>2 DEF Width

LEMMA WordsAreNotEmpty ==
  ASSUME paragraph \in Paragraphs, NEW i \in 1..Len(paragraph)
  PROVE  WordLength(i) \in Nat \ {0}
  <1>1. i \in 1..i
    OBVIOUS
  <1> QED BY <1>1, PiecesAreNotEmpty DEF WordLength

LEMMA WidthIsInt ==
  ASSUME paragraph \in Paragraphs, NEW i \in 1..(Len(paragraph) + 1), NEW j \in 0..Len(paragraph)
  PROVE  Width(i, j) \in Int
  <1>1. i - 1 \in 0..Len(paragraph)
    BY ParagraphShape
  <1>2. End(i - 1) \in Nat /\ End(j) \in Nat
    BY <1>1, ParagraphShape
  <1> QED BY <1>2 DEF Width

\* A word more makes the piece longer by the word and the blank before it.
LEMMA WidthGrows ==
  ASSUME paragraph \in Paragraphs, NEW i \in 1..Len(paragraph), NEW j \in 0..(Len(paragraph) - 1)
  PROVE  Width(i, j + 1) = Width(i, j) + 1 + WordLength(j + 1)
  <1>1. i - 1 \in 0..Len(paragraph) /\ j \in 0..Len(paragraph) /\ j + 1 \in 0..Len(paragraph)
        /\ (j + 1) - 1 = j
    BY ParagraphShape
  <1>2. End(i - 1) \in Nat /\ End(j) \in Nat /\ End(j + 1) \in Nat
    BY <1>1, ParagraphShape
  <1> QED BY <1>1, <1>2, SMTT(30) DEF Width, WordLength

-----------------------------------------------------------------------------
(* The overlap.                                                            *)

\* It is nothing, or the end of the piece from some word on, no longer than
\* configured.
LEMMA OverlapFits ==
  ASSUME TypesHold, NEW next \in Nat, NEW i \in first..(position + 1), IsOverlap(i, next),
         i # position + 1
  PROVE  Width(i, position) <= OverlapChars
  <1>1. Width(i, position) <= Room(next)
    BY DEF IsOverlap
  <1>2. Room(next) \in Int /\ Room(next) <= OverlapChars /\ OverlapChars \in Nat
    BY ChunkingAssumption DEF Room
  <1>3. position \in 0..Len(paragraph) /\ i \in 1..(Len(paragraph) + 1)
    BY ParagraphShape DEF TypesHold
  <1>4. Width(i, position) \in Int
    BY <1>3, WidthIsInt DEF TypesHold
  <1> QED BY <1>1, <1>2, <1>4

-----------------------------------------------------------------------------
(* Finished pieces.                                                        *)

\* A piece that is honest and follows the last one can be appended.
LEMMA PieceAppended ==
  ASSUME NEW s \in Seq(PieceRecord), Hold(s), NEW q \in PieceRecord, PieceHonest(q),
         s = <<>> => q.from = 1 /\ q.start = 0,
         s # <<>> => Follows(s[Len(s)], q)
  PROVE  LET t == Append(s, q)
         IN  /\ Hold(t) /\ t \in Seq(PieceRecord)
             /\ t # <<>> /\ t[Len(t)] = q
  <1> DEFINE t == Append(s, q)
  <1>1. Len(s) \in Nat
    OBVIOUS
  <1>2. /\ t \in Seq(PieceRecord) /\ Len(t) = Len(s) + 1
        /\ t[Len(s) + 1] = q /\ DOMAIN t = 1..(Len(s) + 1)
        /\ \A k \in 1..Len(s) : t[k] = s[k]
    BY <1>1
  <1> HIDE DEF t
  <1>3. t # <<>> /\ t[Len(t)] = q
    BY <1>1, <1>2
  <1>4. ASSUME NEW k \in DOMAIN t
        PROVE  PieceHonest(t[k])
    <2>1. k \in 1..Len(s) \/ k = Len(s) + 1
      BY <1>1, <1>2
    <2>2. k \in 1..Len(s) => k \in DOMAIN s
      BY <1>1
    <2> QED BY <1>2, <2>1, <2>2 DEF Hold
  <1>5. ASSUME NEW k \in 1..(Len(t) - 1)
        PROVE  Follows(t[k], t[k + 1])
    <2>1. CASE k = Len(s)
      <3>1. s # <<>> /\ k \in 1..Len(s)
        BY <1>1, <1>2, <2>1
      <3> QED BY <1>2, <2>1, <3>1
    <2>2. CASE k # Len(s)
      <3>1. k \in 1..(Len(s) - 1) /\ k \in 1..Len(s) /\ k + 1 \in 1..Len(s)
        BY <1>1, <1>2, <2>2
      <3>2. Follows(s[k], s[k + 1])
        BY <3>1 DEF Hold
      <3> QED BY <1>2, <3>1, <3>2
    <2> QED BY <2>1, <2>2
  <1>6. t[1].from = 1 /\ t[1].start = 0
    <2>1. CASE s = <<>>
      BY <1>1, <1>2, <2>1
    <2>2. CASE s # <<>>
      <3>1. 1 \in 1..Len(s)
        BY <1>1, <2>2
      <3> QED BY <1>2, <2>2, <3>1 DEF Hold
    <2> QED BY <2>1, <2>2
  <1>7. Hold(t)
    BY <1>4, <1>5, <1>6 DEF Hold
  <1> QED BY <1>2, <1>3, <1>7 DEF t

\* What holds of pieces does not depend on how far the paragraph is read.
LEMMA SameParagraph ==
  ASSUME paragraph' = paragraph
  PROVE  /\ \A s : Hold(s)' <=> Hold(s)
         /\ \A p : Whole(p)' <=> Whole(p)
         /\ \A i, j : Width(i, j)' = Width(i, j)
         /\ \A i : WordLength(i)' = WordLength(i)
  <1>1. \A r : PieceHonest(r)' <=> PieceHonest(r)
    BY DEF PieceHonest, Width, WordLength, End
  <1>2. \A r, t : Follows(r, t)' <=> Follows(r, t)
    BY DEF Follows, Whole, Width, End
  <1>3. \A i, j : Width(i, j)' = Width(i, j)
    BY DEF Width, End
  <1> QED BY <1>1, <1>2, <1>3 DEF Hold, Whole, WordLength, Width, End

\* The piece being built can be appended.
LEMMA CurrentIsHonest ==
  ASSUME ChunkInv, ~Empty
  PROVE  LET q == Piece(first, position, currentLength)
         IN  /\ q \in PieceRecord /\ PieceHonest(q) /\ Whole(q)
             /\ q.from = first /\ q.to = position /\ q.start = 0 /\ q.length = currentLength
             /\ first <= position /\ cut = 0 /\ currentLength = Width(first, position)
             /\ Flushed = Append(pieces, q)
             /\ Hold(Flushed) /\ Flushed \in Seq(PieceRecord)
             /\ Flushed # <<>> /\ Flushed[Len(Flushed)] = q
  <1> DEFINE q == Piece(first, position, currentLength)
  <1>1. /\ q.from = first /\ q.to = position /\ q.start = 0 /\ q.length = currentLength
        /\ q = [from |-> first, to |-> position, start |-> 0, length |-> currentLength]
    BY DEF Piece
  <1>2. /\ TypesHold /\ Hold(pieces) /\ CurrentFollows
    BY DEF ChunkInv
  <1>3. first \in Nat /\ position \in Nat /\ 1 <= first /\ first <= position /\ position <= Len(paragraph)
    BY <1>2, ParagraphShape DEF TypesHold, Empty
  <1>4. q \in PieceRecord
    BY <1>1, <1>2, <1>3 DEF TypesHold, PieceRecord
  <1> HIDE DEF q
  <1>5. Whole(q)
    BY <1>1, <1>2 DEF Whole, CurrentFollows, TypesHold
  <1>6. PieceHonest(q)
    BY <1>1, <1>2, <1>3 DEF PieceHonest, CurrentFollows
  <1>7. pieces = <<>> => q.from = 1 /\ q.start = 0
    BY <1>1, <1>2 DEF CurrentFollows
  <1>8. pieces # <<>> => Follows(Newest, q)
    BY <1>1, <1>2 DEF CurrentFollows, Follows
  <1>9. Flushed = Append(pieces, q)
    BY DEF Flushed, q
  <1>10. pieces \in Seq(PieceRecord)
    BY <1>2 DEF TypesHold
  <1>11. /\ Hold(Flushed) /\ Flushed \in Seq(PieceRecord)
         /\ Flushed # <<>> /\ Flushed[Len(Flushed)] = q
    BY <1>2, <1>4, <1>6, <1>7, <1>8, <1>9, <1>10, PieceAppended DEF Newest
  <1> QED BY <1>1, <1>2, <1>3, <1>4, <1>5, <1>6, <1>9, <1>11 DEF q, CurrentFollows

-----------------------------------------------------------------------------
(* Each action preserves the invariant.                                    *)

LEMMA LongWordKeepsInv ==
  ASSUME ChunkInv, LongWord
  PROVE  ChunkInv'
  <1> DEFINE i == position + 1
             rest == WordLength(i) - cut
             part == [from |-> i, to |-> i, start |-> cut,
                      length |-> IF rest < MaxChars THEN rest ELSE MaxChars]
             done == rest <= MaxChars
  <1>1. /\ position < Len(paragraph) /\ MaxChars < WordLength(i)
        /\ pieces' = Append(Flushed, part)
        /\ position' = IF done THEN i ELSE position
        /\ cut' = IF done THEN 0 ELSE cut + MaxChars
        /\ first' = position' + 1 /\ currentLength' = 0
        /\ paragraph' = paragraph
    BY DEF LongWord, TypesHold, ChunkInv
  <1>2. TypesHold /\ Hold(pieces)
    BY DEF ChunkInv
  <1>3. /\ position \in Nat /\ Len(paragraph) \in Nat /\ i \in 1..Len(paragraph) /\ MaxChars \in Nat \ {0}
        /\ WordLength(i) \in Nat \ {0} /\ cut \in Nat /\ paragraph \in Paragraphs
    BY <1>1, <1>2, ParagraphShape, WordsAreNotEmpty, ChunkingAssumption DEF TypesHold
  <1>4. cut < WordLength(i)
    <2>1. cut = 0 \/ PartFlushed
      BY DEF ChunkInv, AllFlushed, CurrentFollows
    <2> QED BY <1>3, <2>1 DEF PartFlushed
  <1>5. rest \in Nat \ {0}
    BY <1>3, <1>4
  <1>6. part \in PieceRecord /\ part.from = i /\ part.to = i /\ part.start = cut
        /\ part.length = IF rest < MaxChars THEN rest ELSE MaxChars
    BY <1>3, <1>5 DEF PieceRecord
  <1>7. PieceHonest(part)
    BY <1>3, <1>5, <1>6 DEF PieceHonest
  <1>8. /\ Flushed \in Seq(PieceRecord) /\ Hold(Flushed)
        /\ Flushed = <<>> => i = 1 /\ cut = 0
        /\ Flushed # <<>> => Follows(Flushed[Len(Flushed)], part)
    <2>1. CASE Empty /\ AllFlushed
      <3>1. Flushed = pieces
        BY <2>1 DEF Flushed
      <3>2. pieces = <<>> => position = 0
        BY <2>1 DEF AllFlushed
      <3>3. pieces # <<>> => Follows(Newest, part)
        BY <1>3, <1>6, <2>1 DEF AllFlushed, Follows
      <3> QED BY <1>2, <1>3, <2>1, <3>1, <3>2, <3>3 DEF TypesHold, AllFlushed, Newest
    <2>2. CASE Empty /\ PartFlushed
      <3>1. Flushed = pieces
        BY <2>2 DEF Flushed
      <3>2. Follows(Newest, part) /\ pieces # <<>>
        BY <1>3, <1>6, <2>2 DEF PartFlushed, Follows
      <3> QED BY <1>2, <3>1, <3>2 DEF TypesHold, Newest
    <2>3. CASE ~Empty
      <3>1. LET q == Piece(first, position, currentLength)
            IN  Whole(q) /\ q.to = position /\ cut = 0 /\ Flushed[Len(Flushed)] = q
        BY <2>3, CurrentIsHonest
      <3>2. Follows(Flushed[Len(Flushed)], part)
        BY <1>6, <3>1 DEF Follows
      <3> QED BY <2>3, <3>2, CurrentIsHonest
    <2> QED BY <2>1, <2>2, <2>3 DEF ChunkInv
  <1> HIDE DEF part
  <1>9. Hold(pieces') /\ pieces' \in Seq(PieceRecord) /\ pieces' # <<>> /\ pieces'[Len(pieces')] = part
    BY <1>1, <1>6, <1>7, <1>8, PieceAppended
  <1>10. Hold(pieces)' /\ Newest' = part
    BY <1>1, <1>9, SameParagraph DEF Newest
  <1>11. TypesHold'
    BY <1>1, <1>2, <1>3, <1>9 DEF TypesHold
  <1>12. Empty'
    BY <1>1 DEF Empty
  <1>13. AllFlushed' \/ PartFlushed'
    <2>1. CASE done
      <3>1. position' = i /\ cut' = 0 /\ currentLength' = 0 /\ position' # 0
        BY <1>1, <1>3, <2>1
      <3>2. Whole(part)
        <4>1. WordLength(i) = Width(i, i)
          BY DEF WordLength
        <4>2. part.start + part.length = WordLength(i)
          <5>1. \A r \in Nat : r <= MaxChars => (IF r < MaxChars THEN r ELSE MaxChars) = r
            BY <1>3
          <5>2. part.length = rest
            <6> HIDE DEF rest
            <6> QED BY <1>5, <1>6, <2>1, <5>1
          <5> QED BY <1>3, <1>6, <5>2
        <4>3. Width(part.from, part.to) = Width(i, i)
          BY <1>6
        <4> QED BY <4>1, <4>2, <4>3 DEF Whole
      <3>3. Whole(Newest)'
        BY <1>1, <1>10, <3>2, SameParagraph
      <3> QED BY <1>6, <1>9, <1>10, <3>1, <3>3 DEF AllFlushed
    <2>2. CASE ~done
      <3>1. position' = position /\ cut' = cut + MaxChars /\ currentLength' = 0
            /\ cut + MaxChars < WordLength(i) /\ cut + MaxChars > 0
        BY <1>1, <1>3, <1>5, <2>2
      <3>2. part.start + part.length = cut + MaxChars
        BY <1>3, <1>5, <1>6, <2>2
      <3>3. WordLength(position + 1)' = WordLength(i)
        BY <1>1, <3>1, SameParagraph DEF WordLength, Width, End
      <3> QED BY <1>1, <1>6, <1>9, <1>10, <3>1, <3>2, <3>3 DEF PartFlushed
    <2> QED BY <2>1, <2>2
  <1> QED BY <1>10, <1>11, <1>12, <1>13 DEF ChunkInv

LEMMA JoinsKeepsInv ==
  ASSUME ChunkInv, Joins
  PROVE  ChunkInv'
  <1>1. /\ position < Len(paragraph) /\ WordLength(position + 1) <= MaxChars
        /\ Empty \/ Proposed <= MaxChars
        /\ currentLength' = Proposed /\ position' = position + 1
        /\ paragraph' = paragraph /\ first' = first /\ cut' = cut /\ pieces' = pieces
    BY DEF Joins, HasRoom
  <1>2. TypesHold /\ Hold(pieces)
    BY DEF ChunkInv
  <1>3. /\ position \in Nat /\ Len(paragraph) \in Nat /\ position + 1 \in 1..Len(paragraph)
        /\ MaxChars \in Nat \ {0} /\ WordLength(position + 1) \in Nat \ {0}
        /\ first \in 1..(position + 1) /\ currentLength \in Nat /\ paragraph \in Paragraphs
    BY <1>1, <1>2, ParagraphShape, WordsAreNotEmpty, ChunkingAssumption DEF TypesHold
  <1>4. ~PartFlushed
    BY <1>1, <1>3 DEF PartFlushed
  <1>5. Newest' = Newest /\ (Whole(Newest)' <=> Whole(Newest)) /\ Hold(pieces)'
    BY <1>1, <1>2, SameParagraph DEF Newest
  <1>6. ~Empty'
    BY <1>1, <1>3 DEF Empty
  <1>7. /\ Width(first, position)' = Width(first, position + 1)
        /\ first <= Newest.to => Width(first, Newest.to)' = Width(first, Newest.to)
    BY <1>1, SameParagraph, <1>5 DEF Width, End
  <1>8. CASE Empty
    <2>1. AllFlushed /\ first = position + 1
      BY <1>4, <1>8 DEF ChunkInv, Empty
    <2>2. Proposed = WordLength(position + 1) /\ Width(first, position + 1) = WordLength(position + 1)
      BY <1>3, <1>8, <2>1 DEF Proposed, AllFlushed, WordLength
    <2>3. pieces # <<>> => Newest.from <= Newest.to /\ Newest.to = position
      <3> SUFFICES ASSUME pieces # <<>>
                   PROVE  Newest.from <= Newest.to /\ Newest.to = position
        OBVIOUS
      <3>1. Len(pieces) \in DOMAIN pieces
        BY <1>2 DEF TypesHold
      <3>2. PieceHonest(Newest)
        BY <1>2, <3>1 DEF Hold, Newest
      <3> QED BY <2>1, <3>2 DEF PieceHonest, AllFlushed
    <2>4. CurrentFollows'
      BY <1>1, <1>3, <1>5, <1>7, <2>1, <2>2, <2>3 DEF AllFlushed, CurrentFollows
    <2>5. TypesHold'
      BY <1>1, <1>2, <1>3, <2>2 DEF TypesHold
    <2> QED BY <1>5, <1>6, <2>4, <2>5 DEF ChunkInv
  <1>9. CASE ~Empty
    <2>1. CurrentFollows /\ first \in 1..Len(paragraph) /\ position \in 0..(Len(paragraph) - 1)
      BY <1>3, <1>9, <1>1 DEF ChunkInv, Empty
    <2>2. Proposed = currentLength + WordLength(position + 1) + 1 /\ Proposed <= MaxChars
      BY <1>1, <1>9 DEF Proposed
    <2>3. Width(first, position + 1) = Width(first, position) + 1 + WordLength(position + 1)
      BY <1>3, <2>1, WidthGrows
    <2>4. CurrentFollows'
      <3>1. currentLength' = Width(first, position)' /\ 1 <= currentLength' /\ currentLength' <= MaxChars
        BY <1>1, <1>3, <1>7, <2>1, <2>2, <2>3, SMTT(30) DEF CurrentFollows
      <3>2. cut' = 0 /\ (pieces' = <<>> => first' = 1)
        BY <1>1, <2>1 DEF CurrentFollows
      <3>3. pieces # <<>> => \E k \in Nat : Newest.to = k
        <4> SUFFICES ASSUME pieces # <<>> PROVE Newest.to \in Nat
          OBVIOUS
        <4>1. Newest \in PieceRecord
          BY <1>2 DEF TypesHold, Newest
        <4> QED BY <4>1 DEF PieceRecord
      <3>4. pieces' # <<>> =>
              /\ Whole(Newest)' /\ Newest'.from <= Newest'.to /\ Newest'.to < position'
              /\ \/ first' = Newest'.to + 1
                 \/ Newest'.from < first' /\ first' <= Newest'.to /\ Width(first, Newest.to)' <= OverlapChars
        BY <1>1, <1>3, <1>5, <1>7, <2>1, <3>3 DEF CurrentFollows
      <3> QED BY <3>1, <3>2, <3>4 DEF CurrentFollows
    <2>5. TypesHold'
      BY <1>1, <1>2, <1>3, <2>2 DEF TypesHold
    <2> QED BY <1>5, <1>6, <2>4, <2>5 DEF ChunkInv
  <1> QED BY <1>8, <1>9

LEMMA StartsKeepsInv ==
  ASSUME ChunkInv, Starts
  PROVE  ChunkInv'
  <1> DEFINE word == WordLength(position + 1)
             q == Piece(first, position, currentLength)
             Overlap(tail) == IF tail = position + 1 THEN 0 ELSE Width(tail, position)
             Fit(tail) == tail # position + 1 /\ Overlap(tail) + 1 + word <= MaxChars
  <1>1. PICK tail \in first..(position + 1) :
          /\ IsOverlap(tail, word)
          /\ first' = IF Fit(tail) THEN tail ELSE position + 1
          /\ currentLength' = IF Fit(tail) THEN Overlap(tail) + 1 + word ELSE word
    BY DEF Starts
  <1>2. /\ position < Len(paragraph) /\ word <= MaxChars
        /\ ~Empty /\ ~(Proposed <= MaxChars)
        /\ pieces' = Flushed /\ position' = position + 1 /\ paragraph' = paragraph /\ cut' = cut
    BY DEF Starts, HasRoom
  <1>3. TypesHold /\ CurrentFollows
    BY <1>2 DEF ChunkInv
  <1>4. /\ position \in Nat /\ Len(paragraph) \in Nat /\ position + 1 \in 1..Len(paragraph)
        /\ MaxChars \in Nat \ {0} /\ word \in Nat \ {0} /\ OverlapChars \in Nat
        /\ first \in 1..(position + 1) /\ currentLength \in Nat /\ paragraph \in Paragraphs
    BY <1>2, <1>3, ParagraphShape, WordsAreNotEmpty, ChunkingAssumption DEF TypesHold
  <1>5. /\ Whole(q) /\ q.from = first /\ q.to = position /\ first <= position /\ cut = 0
        /\ currentLength = Width(first, position)
        /\ Hold(Flushed) /\ Flushed \in Seq(PieceRecord)
        /\ Flushed # <<>> /\ Flushed[Len(Flushed)] = q
    BY <1>2, CurrentIsHonest
  <1> HIDE DEF q, word
  <1>6. Newest' = q /\ Whole(Newest)' /\ Hold(pieces)' /\ pieces' # <<>>
    <2>1. Newest' = q
      BY <1>2, <1>5 DEF Newest
    <2> QED BY <1>2, <1>5, <2>1, SameParagraph
  <1>7. CASE Fit(tail)
    <2>1. tail \in first..position /\ tail # position + 1
      BY <1>4, <1>7
    <2>2. Width(tail, position) <= OverlapChars
      BY <1>1, <1>3, <1>4, <2>1, OverlapFits
    <2>3. /\ tail \in 1..Len(paragraph) /\ position \in 0..(Len(paragraph) - 1)
          /\ tail \in 1..(Len(paragraph) + 1) /\ position \in 0..Len(paragraph)
      BY <1>4, <2>1
    <2>4. Width(tail, position + 1) = Width(tail, position) + 1 + word /\ Width(tail, position) \in Int
      BY <1>4, <2>3, WidthGrows, WidthIsInt DEF word
    <2>5. first' = tail /\ currentLength' = Width(tail, position + 1) /\ currentLength' <= MaxChars
      BY <1>1, <1>7, <2>1, <2>4
    <2>6. tail # first
      <3> SUFFICES ASSUME tail = first
                   PROVE  FALSE
        OBVIOUS
      <3>1. Proposed = currentLength + word + 1
        BY <1>2 DEF Proposed, word
      <3> QED BY <1>2, <1>4, <1>5, <2>4, <2>5, <3>1
    <2>7. currentLength' \in Nat /\ 1 <= currentLength'
      <3>1. Width(tail, position) >= 1
        <4>1. tail \in 1..position
          BY <1>4, <2>1
        <4> QED BY <1>4, <2>3, <4>1, PiecesAreNotEmpty, SMTT(30)
      <3> QED BY <1>4, <2>4, <2>5, <3>1
    <2>8. Width(first, position)' = Width(tail, position + 1)
      BY <1>2, <2>5 DEF Width, End
    <2>9. CurrentFollows'
      <3>1. first' \in Nat /\ q.from < first' /\ first' <= q.to /\ q.from <= q.to /\ q.to < position'
        BY <1>2, <1>4, <1>5, <2>1, <2>5, <2>6
      <3>2. Width(first, Newest.to)' <= OverlapChars
        <4>1. Width(first, Newest.to)' = Width(tail, position)
          BY <1>2, <1>5, <1>6, <2>5 DEF Width, End
        <4> QED BY <2>2, <4>1
      <3> QED BY <1>2, <1>5, <1>6, <2>5, <2>7, <2>8, <3>1, <3>2 DEF CurrentFollows
    <2>10. TypesHold'
      BY <1>2, <1>3, <1>4, <1>5, <2>1, <2>5, <2>7, SMTT(30) DEF TypesHold
    <2>11. ~Empty'
      BY <1>2, <1>4, <2>1, <2>5 DEF Empty
    <2> QED BY <1>6, <2>9, <2>10, <2>11 DEF ChunkInv
  <1>8. CASE ~Fit(tail)
    <2>1. first' = position + 1 /\ currentLength' = word
      BY <1>1, <1>8
    <2>2. Width(first, position)' = word
      BY <1>2, <2>1 DEF word, WordLength, Width, End
    <2>3. CurrentFollows'
      BY <1>2, <1>4, <1>5, <1>6, <2>1, <2>2 DEF CurrentFollows
    <2>4. TypesHold'
      BY <1>2, <1>3, <1>4, <1>5, <2>1 DEF TypesHold
    <2>5. ~Empty'
      BY <1>2, <1>4, <2>1 DEF Empty
    <2> QED BY <1>6, <2>3, <2>4, <2>5 DEF ChunkInv
  <1> QED BY <1>7, <1>8

LEMMA LastPieceKeepsInv ==
  ASSUME ChunkInv, LastPiece
  PROVE  ChunkInv'
  <1> DEFINE q == Piece(first, position, currentLength)
  <1>1. /\ position = Len(paragraph) /\ ~Empty /\ pieces' = Flushed
        /\ first' = position + 1 /\ currentLength' = 0
        /\ paragraph' = paragraph /\ position' = position /\ cut' = cut
    BY DEF LastPiece
  <1>2. /\ Whole(q) /\ q.to = position /\ cut = 0
        /\ Hold(Flushed) /\ Flushed \in Seq(PieceRecord)
        /\ Flushed # <<>> /\ Flushed[Len(Flushed)] = q
    BY <1>1, CurrentIsHonest
  <1> HIDE DEF q
  <1>3. TypesHold /\ position \in Nat /\ position # 0
    BY <1>1, ParagraphShape DEF ChunkInv, TypesHold
  <1>4. Newest' = q
    BY <1>1, <1>2 DEF Newest
  <1>5. Whole(Newest)' /\ Hold(pieces)'
    BY <1>1, <1>2, <1>4, SameParagraph
  <1>6. TypesHold'
    BY <1>1, <1>2, <1>3 DEF TypesHold
  <1>7. AllFlushed' /\ Empty'
    BY <1>1, <1>2, <1>3, <1>4, <1>5 DEF AllFlushed, Empty
  <1> QED BY <1>5, <1>6, <1>7 DEF ChunkInv

-----------------------------------------------------------------------------

LEMMA ChunkInitInv ==
  ASSUME ChunkInit
  PROVE  ChunkInv
  <1>1. /\ paragraph \in Paragraphs
        /\ position = 0 /\ first = 1 /\ currentLength = 0 /\ cut = 0 /\ pieces = <<>>
    BY DEF ChunkInit
  <1>2. TypesHold
    BY <1>1, ParagraphShape DEF TypesHold
  <1>3. Hold(pieces)
    BY <1>1 DEF Hold
  <1>4. Empty /\ AllFlushed
    BY <1>1 DEF Empty, AllFlushed
  <1> QED BY <1>2, <1>3, <1>4 DEF ChunkInv

LEMMA ChunkStepKeepsInv ==
  ASSUME ChunkInv, [ChunkNext]_chunkVars
  PROVE  ChunkInv'
  <1>1. CASE UNCHANGED chunkVars
    BY <1>1 DEF chunkVars, ChunkInv, TypesHold, Hold, PieceHonest, Follows, Whole, Newest, Empty,
                AllFlushed, PartFlushed, CurrentFollows, WordLength, Width, End
  <1> QED BY <1>1, LongWordKeepsInv, JoinsKeepsInv, StartsKeepsInv, LastPieceKeepsInv DEF ChunkNext

LEMMA ChunkInvImplies ==
  ASSUME ChunkInv
  PROVE  ChunksHoldTheText
  <1>1. Hold(pieces) /\ TypesHold
    BY DEF ChunkInv
  <1>2. ASSUME position = Len(paragraph), Empty
        PROVE  pieces # <<>> /\ Whole(Newest) /\ Newest.to = position
    <2>1. position # 0 /\ ~PartFlushed
      BY <1>1, <1>2, ParagraphShape DEF TypesHold, PartFlushed
    <2> QED BY <1>2, <2>1 DEF ChunkInv, AllFlushed
  <1> QED BY <1>1, <1>2 DEF ChunksHoldTheText, Hold, Newest

\* No chunk of any paragraph exceeds the limit and no character is lost.
THEOREM ChunksAlwaysHoldTheText == ChunkSpec => []ChunksHoldTheText
  <1>1. ChunkInit => ChunkInv
    BY ChunkInitInv
  <1>2. ChunkInv /\ [ChunkNext]_chunkVars => ChunkInv'
    BY ChunkStepKeepsInv
  <1>3. ChunkInv => ChunksHoldTheText
    BY ChunkInvImplies
  <1> QED BY <1>1, <1>2, <1>3, PTL DEF ChunkSpec

-----------------------------------------------------------------------------
(* The index.                                                              *)

Building == [at : {"read", "write", "writing"}, forced : BOOLEAN, has : Built]
Querying == [at : {"loaded", "matched", "served"}, sourced : BOOLEAN, has : Built, setting : Setting]

IndexTypeOK ==
  /\ corpus \in Corpus
  /\ index \in Built \cup {Absent}
  /\ command \in [Command -> {Idle} \cup Building \cup Querying]
  /\ seen \in [Command -> SUBSET Corpus]

\* A query that is not served yet has seen what the corpus holds now ...
SeesCorpus ==
  \A c \in Command : command[c].at \in {"loaded", "matched"} => corpus \in seen[c]

\* ... so that what it was matched with is among what it has seen.
MatchedAsSeen ==
  \A c \in Command :
    command[c].at \in {"matched", "served"} /\ command[c].sourced =>
      /\ command[c].has.corpus \in seen[c]
      /\ command[c].has.setting.chunking = command[c].setting.chunking

ServedReadable == \A c \in Command : At(c, "served") => Readable(c)

IndexInv == IndexTypeOK /\ SeesCorpus /\ MatchedAsSeen /\ ServedReadable

\* The invariant is enough.
LEMMA IndexInvImplies == IndexInv => ServedAsAsked
  BY DEF IndexInv, IndexTypeOK, MatchedAsSeen, ServedReadable, ServedAsAsked, At

LEMMA IndexInitInv == IndexInit => IndexInv
  BY IndexAssumption
     DEF IndexInit, IndexInv, IndexTypeOK, SeesCorpus, MatchedAsSeen, ServedReadable, At, Idle

LEMMA EditKeepsInv == IndexInv /\ Edit => IndexInv'
  <1> SUFFICES ASSUME IndexInv, Edit
               PROVE  IndexInv'
    OBVIOUS
  <1>1. /\ corpus' \in Corpus /\ UNCHANGED <<index, command>>
        /\ seen' \in [Command -> SUBSET Corpus]
        /\ \A c \in Command : seen[c] \subseteq seen'[c]
        /\ \A c \in Command : command[c].at \in {"loaded", "matched"} => corpus' \in seen'[c]
    BY DEF Edit, IndexInv, IndexTypeOK
  <1>2. IndexTypeOK' /\ SeesCorpus'
    BY <1>1 DEF IndexInv, IndexTypeOK, SeesCorpus
  <1>3. MatchedAsSeen'
    BY <1>1 DEF IndexInv, MatchedAsSeen
  <1>4. ServedReadable'
    BY <1>1 DEF IndexInv, ServedReadable, At, Readable
  <1> QED BY <1>2, <1>3, <1>4 DEF IndexInv

\* A step of one command that ends it or takes it to the next point.
LEMMA CommandMoves ==
  ASSUME IndexInv, NEW c \in Command, corpus' = corpus, index' \in Built \cup {Absent},
         NEW process \in {Idle} \cup Building \cup Querying,
         command' = [command EXCEPT ![c] = process],
         NEW known \in SUBSET Corpus,
         seen' = [seen EXCEPT ![c] = known],
         process.at \in {"loaded", "matched"} => corpus \in known,
         process.at \in {"matched", "served"} /\ process.sourced =>
           /\ process.has.corpus \in known
           /\ process.has.setting.chunking = process.setting.chunking,
         process.at = "served" =>
           process.setting.backend \in {"lexical", process.has.setting.backend}
  PROVE  IndexInv'
  <1>1. \A d \in Command \ {c} : command'[d] = command[d] /\ seen'[d] = seen[d]
    BY DEF IndexInv, IndexTypeOK
  <1>2. command'[c] = process /\ seen'[c] = known
    BY DEF IndexInv, IndexTypeOK
  <1>3. IndexTypeOK'
    BY DEF IndexInv, IndexTypeOK
  <1>4. SeesCorpus'
    BY <1>1, <1>2 DEF IndexInv, SeesCorpus
  <1>5. MatchedAsSeen'
    BY <1>1, <1>2 DEF IndexInv, MatchedAsSeen
  <1>6. ServedReadable'
    BY <1>1, <1>2 DEF IndexInv, ServedReadable, At, Readable
  <1> QED BY <1>3, <1>4, <1>5, <1>6 DEF IndexInv

LEMMA CommandEnds ==
  ASSUME IndexInv, NEW c \in Command, Ends(c), corpus' = corpus, index' \in Built \cup {Absent}
  PROVE  IndexInv'
  <1>1. /\ Idle \in {Idle} \cup Building \cup Querying /\ Idle.at = "idle"
        /\ {} \in SUBSET Corpus
    BY DEF Idle
  <1>2. command' = [command EXCEPT ![c] = Idle] /\ seen' = [seen EXCEPT ![c] = {}]
    BY DEF Ends
  <1> QED BY <1>1, <1>2, CommandMoves

\* A build goes on to its next point.
LEMMA BuildGoes ==
  ASSUME IndexInv, NEW c \in Command, NEW point \in {"write", "writing"},
         command[c].at \in {"read", "write"}, Goes(c, point), UNCHANGED <<corpus, index>>
  PROVE  IndexInv'
  <1>1. command[c] \in Building
    BY DEF IndexInv, IndexTypeOK, Idle, Querying
  <1>2. [command[c] EXCEPT !.at = point] \in Building
    BY <1>1 DEF Building
  <1>3. command' = [command EXCEPT ![c] = [command[c] EXCEPT !.at = point]]
    BY DEF Goes
  <1>4. seen' = [seen EXCEPT ![c] = seen[c]] /\ seen[c] \in SUBSET Corpus
    BY DEF Goes, IndexInv, IndexTypeOK
  <1>5. [command[c] EXCEPT !.at = point].at = point
    BY <1>1 DEF Building
  <1>6. index' \in Built \cup {Absent}
    BY DEF IndexInv, IndexTypeOK
  <1> QED BY <1>2, <1>3, <1>4, <1>5, <1>6, CommandMoves

\* A query is matched or served.
LEMMA QueryGoes ==
  ASSUME IndexInv, NEW c \in Command, UNCHANGED <<corpus, index>>,
         \/ At(c, "loaded") /\ (command[c].sourced => Matches(c)) /\ Goes(c, "matched")
         \/ At(c, "matched") /\ Readable(c) /\ Goes(c, "served")
  PROVE  IndexInv'
  <1>1. PICK point \in {"matched", "served"} :
          /\ Goes(c, point)
          /\ \/ point = "matched" /\ command[c].at = "loaded" /\ (command[c].sourced => Matches(c))
             \/ point = "served" /\ command[c].at = "matched" /\ Readable(c)
    BY DEF At
  <1> DEFINE next == [command[c] EXCEPT !.at = point]
  <1>2. command[c] \in Querying
    BY <1>1 DEF IndexInv, IndexTypeOK, Idle, Building
  <1>3. /\ next \in Querying /\ next.at = point
        /\ next.sourced = command[c].sourced /\ next.has = command[c].has
        /\ next.setting = command[c].setting
    BY <1>2 DEF Querying
  <1>4. command' = [command EXCEPT ![c] = next]
    BY <1>1 DEF Goes
  <1>5. seen' = [seen EXCEPT ![c] = seen[c]] /\ seen[c] \in SUBSET Corpus
    BY <1>1 DEF Goes, IndexInv, IndexTypeOK
  <1>6. corpus \in seen[c]
    BY <1>1 DEF IndexInv, SeesCorpus
  <1>7. command[c].sourced =>
          /\ command[c].has.corpus \in seen[c]
          /\ command[c].has.setting.chunking = command[c].setting.chunking
    BY <1>1, <1>6 DEF IndexInv, MatchedAsSeen, Matches
  <1>8. point = "served" => command[c].setting.backend \in {"lexical", command[c].has.setting.backend}
    BY <1>1 DEF Readable
  <1>9. index' \in Built \cup {Absent}
    BY DEF IndexInv, IndexTypeOK
  <1> HIDE DEF next
  <1> QED BY <1>3, <1>4, <1>5, <1>6, <1>7, <1>8, <1>9, CommandMoves

LEMMA StartsKeepInv ==
  ASSUME IndexInv, NEW c \in Command, NEW setting \in Setting, NEW given \in BOOLEAN,
         StartBuild(c, setting, given) \/ StartQuery(c, setting, given)
  PROVE  IndexInv'
  <1>1. CASE StartBuild(c, setting, given)
    <2> DEFINE build == [at |-> "read", forced |-> given,
                         has |-> [corpus |-> corpus, setting |-> setting]]
    <2>1. build \in Building /\ build.at = "read"
      BY DEF Building, Built, IndexInv, IndexTypeOK
    <2>2. command' = [command EXCEPT ![c] = build] /\ UNCHANGED <<corpus, index>>
      BY <1>1 DEF StartBuild, Begins
    <2>3. seen' = [seen EXCEPT ![c] = seen[c]] /\ seen[c] \in SUBSET Corpus
      BY <1>1 DEF StartBuild, IndexInv, IndexTypeOK
    <2>4. index' \in Built \cup {Absent}
      BY <2>2 DEF IndexInv, IndexTypeOK
    <2> HIDE DEF build
    <2> QED BY <2>1, <2>2, <2>3, <2>4, CommandMoves
  <1>2. CASE StartQuery(c, setting, given)
    <2> DEFINE asks == [at |-> "loaded", sourced |-> given, has |-> index, setting |-> setting]
    <2>1. asks \in Querying /\ asks.at = "loaded"
      BY <1>2 DEF StartQuery, Querying
    <2>2. command' = [command EXCEPT ![c] = asks] /\ UNCHANGED <<corpus, index>>
      BY <1>2 DEF StartQuery, Begins
    <2>3. seen' = [seen EXCEPT ![c] = {corpus}] /\ {corpus} \in SUBSET Corpus
      BY <1>2 DEF StartQuery, IndexInv, IndexTypeOK
    <2>4. index' \in Built \cup {Absent}
      BY <2>2 DEF IndexInv, IndexTypeOK
    <2> HIDE DEF asks
    <2> QED BY <2>1, <2>2, <2>3, <2>4, CommandMoves
  <1> QED BY <1>1, <1>2

LEMMA IndexStepKeepsInv ==
  ASSUME IndexInv, IndexNext \/ UNCHANGED indexVars
  PROVE  IndexInv'
  <1>1. CASE UNCHANGED indexVars
    BY <1>1 DEF indexVars, IndexInv, IndexTypeOK, SeesCorpus, MatchedAsSeen, ServedReadable, At, Readable
  <1>2. CASE Edit
    BY <1>2, EditKeepsInv
  <1>3. ASSUME NEW c \in Command, NEW setting \in Setting, NEW given \in BOOLEAN,
               StartBuild(c, setting, given) \/ StartQuery(c, setting, given)
        PROVE  IndexInv'
    BY <1>3, StartsKeepInv
  <1>4. ASSUME NEW c \in Command,
               CheckExisting(c) \/ Open(c) \/ Replace(c) \/ WriteFails(c)
        PROVE  IndexInv'
    <2>1. corpus' = corpus /\ index \in Built \cup {Absent}
      BY <1>4 DEF CheckExisting, Open, Replace, WriteFails, IndexInv, IndexTypeOK
    <2>2. CASE CheckExisting(c)
      BY <2>1, <2>2, BuildGoes, CommandEnds DEF CheckExisting, At
    <2>3. CASE Open(c)
      BY <2>1, <2>3, BuildGoes DEF Open, At
    <2>4. CASE Replace(c)
      <3>1. command[c] \in Building
        BY <2>4 DEF Replace, At, IndexInv, IndexTypeOK, Idle, Querying
      <3>2. index' \in Built
        BY <2>4, <3>1 DEF Replace, Building
      <3> QED BY <2>1, <2>4, <3>2, CommandEnds DEF Replace
    <2>5. CASE WriteFails(c)
      BY <2>1, <2>5, CommandEnds DEF WriteFails
    <2> QED BY <1>4, <2>2, <2>3, <2>4, <2>5
  <1>5. ASSUME NEW c \in Command, MatchSource(c) \/ Serve(c) \/ Killed(c)
        PROVE  IndexInv'
    <2>1. UNCHANGED <<corpus, index>> /\ index \in Built \cup {Absent}
      BY <1>5 DEF MatchSource, Serve, Killed, IndexInv, IndexTypeOK
    <2>2. Ends(c) \/ ( \/ At(c, "loaded") /\ (command[c].sourced => Matches(c)) /\ Goes(c, "matched")
                       \/ At(c, "matched") /\ Readable(c) /\ Goes(c, "served") )
      BY <1>5 DEF MatchSource, Serve, Killed
    <2> QED BY <2>1, <2>2, CommandEnds, QueryGoes
  <1> QED BY <1>1, <1>2, <1>3, <1>4, <1>5 DEF IndexNext

-----------------------------------------------------------------------------
(* The answer.                                                             *)


Phases == {"off", "entry", "ready", "calling", "backoff", "verify", "done"}
\* Calls of one round: the first and its retries.
PerRound == MaxRetries + 1

\* What an answer at the end of a request may say.
Reported ==
  /\ \/ outcome.status = "failed"
     \/ outcome.status = "stale_rejected" /\ mode = "unified"
     \/ outcome.attempts = calls
  /\ outcome.claims # {} => outcome.from = calls
  /\ outcome.repairs <= MaxRepairs

\* Calls not counted yet are those of the round that is running.
CallsInv ==
  /\ mode \in {"unified", "grounded"} /\ phase \in Phases
  /\ round \in 0..MaxRepairs /\ attempt \in 0..PerRound
  /\ calls \in Nat /\ counted \in Nat
  /\ calls <= (round + 1) * PerRound
  /\ phase = "done" => Reported
  /\ phase # "done" => calls = counted + attempt
  /\ phase \in {"off", "entry"} => calls = 0 /\ counted = 0 /\ attempt = 0
  /\ phase \in {"ready", "calling", "backoff"} => counted <= round * PerRound
  /\ phase \in {"ready", "backoff"} => attempt < PerRound
  /\ phase = "verify" => attempt = 0 /\ reply.kind = "draft"
  /\ reply.kind # "none" => reply.call = calls

\* A draft waiting for its verification is valid, and was not overtaken before.
DraftInv ==
  /\ reply.kind = "draft" => reply.draft \in Drafts
  /\ phase = "verify" =>
       draft \in Drafts /\ Valid(draft) /\ overtaken \in {"no", "verify"} /\ mode = "unified"
  /\ phase # "done" => outcome = NoOutcome

\* Before the request is handed over nothing is generated.
Waiting ==
  stage # "answer" =>
    /\ phase = "off" /\ outcome = NoOutcome /\ overtaken = "no"
    /\ round = 0 /\ attempt = 0 /\ calls = 0 /\ counted = 0 /\ reply = NoReply

AnsweringInv ==
  /\ stage \in {"index", "store", "listen", "search", "answer", "session"}
  /\ stage = "index" => ChunkInv
  /\ CallsInv /\ DraftInv /\ OnlyVerifiedClaims /\ Waiting

LEMMA Budget ==
  /\ PerRound \in Nat \ {0} /\ MaxRepairs \in Nat
  /\ \A r \in Nat : r * PerRound \in Nat /\ (r + 1) * PerRound = r * PerRound + PerRound
  /\ \A r \in 0..MaxRepairs : (r + 1) * PerRound <= (MaxRepairs + 1) * PerRound
  <1>1. PerRound \in Nat \ {0} /\ MaxRepairs \in Nat
    BY SynthesisAssumption DEF PerRound
  <1>2. ASSUME NEW k \in Nat, NEW r \in Nat
        PROVE  r * k \in Nat /\ (r + 1) * k = r * k + k
    OBVIOUS
  <1>3. ASSUME NEW k \in Nat, NEW n \in Nat, NEW r \in 0..n
        PROVE  (r + 1) * k <= (n + 1) * k
    OBVIOUS
  <1> QED BY <1>1, <1>2, <1>3

-----------------------------------------------------------------------------
(* Calls.                                                                  *)

LEMMA EnterKeepsCalls ==
  ASSUME CallsInv, Enter
  PROVE  CallsInv'
  <1>1. /\ phase = "entry" /\ UNCHANGED <<mode, round, attempt, calls, counted, threads, reply>>
        /\ \/ phase' = "done" /\ outcome' = StaleAnswer(0)
           \/ phase' = "done" /\ outcome' = [NoOutcome EXCEPT !.status = "skipped"]
           \/ phase' = "ready"
    BY DEF Enter, Returns, loopVars
  <1>2. /\ outcome' = StaleAnswer(0) => Reported'
        /\ outcome' = [NoOutcome EXCEPT !.status = "skipped"] => Reported'
    <2>1. calls' = 0 /\ mode' = mode /\ mode \in {"unified", "grounded"}
          /\ round <= MaxRepairs /\ 0 <= MaxRepairs
      BY <1>1, Budget DEF CallsInv
    <2>2. CASE mode = "unified"
      BY <2>1, <2>2 DEF Reported, StaleAnswer, NoOutcome
    <2>3. CASE mode = "grounded"
      BY <2>1, <2>3 DEF Reported, StaleAnswer, Stale, NoOutcome
    <2> QED BY <2>1, <2>2, <2>3
  <1> QED BY <1>1, <1>2, Budget DEF CallsInv, Phases

LEMMA CallKeepsCalls ==
  ASSUME CallsInv, Call
  PROVE  CallsInv'
  <1>1. /\ phase = "ready" /\ phase' = "calling" /\ attempt' = attempt + 1 /\ calls' = calls + 1
        /\ reply' = NoReply /\ UNCHANGED <<mode, round, counted>>
    BY DEF Call
  <1>2. /\ counted <= round * PerRound /\ attempt < PerRound /\ calls = counted + attempt
        /\ round \in Nat
    BY <1>1, Budget DEF CallsInv
  <1>3. calls' <= (round + 1) * PerRound
    BY <1>1, <1>2, Budget DEF CallsInv
  <1> QED BY <1>1, <1>2, <1>3, Budget DEF CallsInv, Phases, NoReply

LEMMA ThreadKeepsCalls ==
  ASSUME CallsInv, NEW n \in threads, ThreadEnds(n)
  PROVE  CallsInv'
  <1>1. /\ UNCHANGED <<mode, phase, round, attempt, calls, counted, outcome>>
        /\ \/ reply' = reply
           \/ phase = "calling" /\ reply'.call = calls
    BY DEF ThreadEnds
  <1> QED BY <1>1 DEF CallsInv, Reported

LEMMA RetryKeepsCalls ==
  ASSUME CallsInv, phase = "calling", Retry \/ GiveUp
  PROVE  CallsInv'
  <1>1. CASE attempt <= MaxRetries /\ Backoff
    <2>1. /\ phase' = "backoff"
          /\ UNCHANGED <<mode, round, attempt, calls, counted, reply, outcome>>
      BY <1>1 DEF Backoff, loopVars
    <2>2. attempt < PerRound
      BY <1>1, SynthesisAssumption DEF PerRound, CallsInv
    <2> QED BY <2>1, <2>2 DEF CallsInv, Phases
  <1>2. CASE GiveUp
    <2>1. /\ phase' = "done" /\ counted' = counted + attempt
          /\ outcome' = [NoOutcome EXCEPT !.status = "abstained", !.attempts = counted + attempt,
                                          !.repairs = round]
          /\ UNCHANGED <<mode, round, attempt, calls, reply>>
      BY <1>2 DEF GiveUp, Returns
    <2>2. outcome'.attempts = calls /\ outcome'.claims = {} /\ outcome'.repairs = round
      BY <2>1 DEF CallsInv, NoOutcome
    <2>3. Reported'
      BY <2>1, <2>2, Budget DEF CallsInv, Reported
    <2> QED BY <2>1, <2>3, Budget DEF CallsInv, Phases
  <1> QED BY <1>1, <1>2 DEF Retry

LEMMA JudgeKeepsCalls ==
  ASSUME CallsInv, Judge
  PROVE  CallsInv'
  <1>1. /\ phase = "calling" /\ reply.kind \in {"draft", "malformed"}
        /\ counted' = counted + attempt /\ attempt' = 0 /\ UNCHANGED <<mode, calls, reply>>
    BY DEF Judge
  <1>2. /\ counted' = calls /\ reply.call = calls /\ round \in 0..MaxRepairs
        /\ calls <= (round + 1) * PerRound
    BY <1>1 DEF CallsInv
  <1>3. CASE phase' = "done" /\ round' = round /\ Reported'
    BY <1>1, <1>2, <1>3, Budget DEF CallsInv, Phases
  <1>4. CASE phase' = "verify" /\ round' = round /\ reply.kind = "draft"
    BY <1>1, <1>2, <1>4, Budget DEF CallsInv, Phases
  <1>5. CASE phase' = "ready" /\ round' = round + 1 /\ round < MaxRepairs
    <2>1. /\ round' \in 0..MaxRepairs
          /\ (round' + 1) * PerRound = (round + 1) * PerRound + PerRound
          /\ counted' <= round' * PerRound
      BY <1>2, <1>5, Budget
    <2> QED BY <1>1, <1>2, <1>5, <2>1, Budget DEF CallsInv, Phases
  <1>6. outcome' = StaleAnswer(counted') => Reported' \/ round' # round
    BY <1>1, <1>2, Budget DEF Reported, StaleAnswer, Stale, NoOutcome, CallsInv
  <1>7. Answer(reply.draft) => phase' = "done" /\ (Reported' \/ round' # round)
    BY <1>1, <1>2, Budget DEF Reported, Answer, Returns, NoOutcome
  <1>8. outcome' = [NoOutcome EXCEPT !.status = "abstained", !.attempts = counted', !.repairs = round]
          => Reported'
    BY <1>1, <1>2, Budget DEF Reported, NoOutcome
  <1>9. \/ phase' = "done" /\ outcome' = StaleAnswer(counted') /\ round' = round
        \/ Answer(reply.draft) /\ round' = round
        \/ phase' = "verify" /\ round' = round /\ reply.kind = "draft"
        \/ phase' = "ready" /\ round' = round + 1 /\ round < MaxRepairs
        \/ /\ phase' = "done" /\ round' = round
           /\ outcome' = [NoOutcome EXCEPT !.status = "abstained", !.attempts = counted',
                                           !.repairs = round]
    BY DEF Judge, Repair, Returns
  <1> QED BY <1>3, <1>4, <1>5, <1>6, <1>7, <1>8, <1>9

LEMMA VerifyKeepsCalls ==
  ASSUME CallsInv, Publish \/ VerifierFails
  PROVE  CallsInv'
  <1>1. phase = "verify" /\ phase' = "done" /\ UNCHANGED <<mode, round, attempt, calls, counted, reply>>
    BY DEF Publish, VerifierFails, Returns, loopVars
  <1>2. reply.call = calls /\ counted = calls /\ round <= MaxRepairs
    BY <1>1, Budget DEF CallsInv
  <1>3. CASE Publish
    <2>1. outcome'.attempts = counted /\ outcome'.repairs = round /\ outcome'.from = reply.call
      BY <1>3 DEF Publish, Returns
    <2>2. Reported'
      BY <1>1, <1>2, <2>1 DEF Reported
    <2> QED BY <1>1, <2>2 DEF CallsInv, Phases
  <1>4. CASE VerifierFails
    <2>1. outcome' = [NoOutcome EXCEPT !.status = "failed"]
      BY <1>4 DEF VerifierFails, Returns
    <2>2. Reported'
      BY <2>1, Budget DEF Reported, NoOutcome
    <2> QED BY <1>1, <2>2 DEF CallsInv, Phases
  <1> QED BY <1>3, <1>4

LEMMA GenerationKeepsCalls ==
  ASSUME CallsInv, SynthesisNext
  PROVE  CallsInv'
  <1>1. CASE TimesOut \/ Fails
    BY <1>1, RetryKeepsCalls DEF TimesOut, Fails
  <1>2. CASE BackoffEnds
    BY <1>2 DEF BackoffEnds, CallsInv, loopVars, Phases
  <1>3. CASE Overtake
    BY <1>3 DEF Overtake, CallsInv, loopVars, Reported
  <1>4. CASE \E n \in threads : ThreadEnds(n)
    BY <1>4, ThreadKeepsCalls
  <1> QED BY <1>1, <1>2, <1>3, <1>4, EnterKeepsCalls, CallKeepsCalls, JudgeKeepsCalls, VerifyKeepsCalls
          DEF SynthesisNext, LoopStep

-----------------------------------------------------------------------------
(* Claims.                                                                 *)

\* Where IDs are distinct, the supported claims are those without a flaw.
LEMMA SupportedOf ==
  ASSUME DistinctIds, draft \in Seq(Claim)
  PROVE  Supported(draft) = {c \in Claims(draft) : c.flaws = {}}
  <1>1. ASSUME NEW j \in DOMAIN draft
        PROVE  Max({h \in DOMAIN draft : draft[h].id = draft[j].id}) = j
    <2>1. {h \in DOMAIN draft : draft[h].id = draft[j].id} = {j}
      BY DEF DistinctIds
    <2>2. j \in Nat
      OBVIOUS
    <2> QED BY <2>1, <2>2 DEF Max
  <1>2. Supported(draft) = {draft[k] : k \in {j \in DOMAIN draft : draft[j].flaws = {}}}
    BY <1>1 DEF Supported
  <1> QED BY <1>2 DEF Claims

\* A claim retained for one of its questions is not superseded, and one that
\* is not superseded is retained.
LEMMA RetainedStands ==
  ASSUME NEW claims, NEW c \in claims, c.about # {}
  PROVE  (\E q \in c.about : c \in Retained(claims, q)) <=> ~Superseded(c)
  <1>1. ASSUME NEW q \in c.about
        PROVE  c \in Retained(claims, q) <=>
                 ~(/\ Standing(EvidenceFor(q)) # {}
                   /\ \E p \in c.cites \cap EvidenceFor(q) : p \notin Standing(EvidenceFor(q)))
    <2>1. c \in ClaimsAbout(claims, q)
      BY DEF ClaimsAbout
    <2>2. IsAsked(claims, q) <=> EvidenceFor(q) # {}
      BY <2>1 DEF IsAsked
    <2> QED BY <2>1, <2>2 DEF Retained, Resolved
  <1> QED BY <1>1 DEF Superseded

LEMMA FinalClaimsStand ==
  ASSUME NEW claims
  PROVE  /\ FinalClaims(claims) \subseteq claims
         /\ (\E c \in claims : c.about # {} /\ ~Superseded(c)) =>
              ~\E c \in FinalClaims(claims) : Superseded(c)
  <1> DEFINE kept == {c \in claims : \E q \in c.about : c \in Retained(claims, q)}
  <1>1. FinalClaims(claims) = IF kept = {} THEN claims ELSE kept
    BY DEF FinalClaims
  <1>2. \A c \in kept : ~Superseded(c)
    BY RetainedStands
  <1>3. (\E c \in claims : c.about # {} /\ ~Superseded(c)) => kept # {}
    BY RetainedStands
  <1> QED BY <1>1, <1>2, <1>3

LEMMA PublishedClaimsStand ==
  ASSUME DraftInv, Publish
  PROVE  OnlyVerifiedClaims'
  <1>1. /\ phase = "verify" /\ outcome'.claims = FinalClaims(Supported(draft))
        /\ UNCHANGED <<mode, supplied, draft, overtaken>>
    BY DEF Publish, Returns
  <1>2. Valid(draft) /\ overtaken \in {"no", "verify"} /\ draft \in Seq(Claim)
    BY <1>1, SynthesisAssumption DEF DraftInv
  <1>3. Supported(draft) \subseteq Claims(draft)
    BY DEF Supported, Claims
  <1>4. FinalClaims(Supported(draft)) \subseteq Supported(draft)
    BY FinalClaimsStand
  <1>5. \A c \in Claims(draft) : c.cites \subseteq DOMAIN supplied
    BY <1>2 DEF Valid, Claims
  <1>6. ASSUME DistinctIds
        PROVE  /\ \A c \in outcome'.claims : c.flaws = {}
               /\ (\E c \in Claims(draft) : c.flaws = {} /\ c.about # {} /\ ~Superseded(c)) =>
                    ~\E c \in outcome'.claims : Superseded(c)
    <2>1. Supported(draft) = {c \in Claims(draft) : c.flaws = {}}
      BY <1>2, <1>6, SupportedOf
    <2> HIDE DEF Claims
    <2> QED BY <1>1, <1>4, <2>1, FinalClaimsStand
  <1>7. /\ DistinctIds' <=> DistinctIds
        /\ Claims(draft)' = Claims(draft)
        /\ \A c : Superseded(c)' <=> Superseded(c)
    BY <1>1 DEF DistinctIds, Claims, Superseded, EvidenceFor
  <1>8. \A c \in outcome'.claims : c.cites \subseteq DOMAIN supplied'
    BY <1>1, <1>3, <1>4, <1>5
  <1>9. overtaken' \in {"no", "verify"}
    BY <1>1, <1>2
  <1> QED BY <1>1, <1>6, <1>7, <1>8, <1>9 DEF OnlyVerifiedClaims

LEMMA NoClaimsNothingToShow ==
  ASSUME outcome.claims = {}
  PROVE  OnlyVerifiedClaims
  BY DEF OnlyVerifiedClaims

LEMMA NoOutcomeHasNoClaims ==
  /\ NoOutcome.claims = {}
  /\ \A status, attempts, repairs :
       [NoOutcome EXCEPT !.status = status, !.attempts = attempts, !.repairs = repairs].claims = {}
  /\ \A status : [NoOutcome EXCEPT !.status = status].claims = {}
  /\ \A attempts : StaleAnswer(attempts).claims = {}
  BY DEF NoOutcome, StaleAnswer, Stale

LEMMA SameAnswer ==
  ASSUME OnlyVerifiedClaims, UNCHANGED <<mode, supplied, draft, overtaken, outcome>>
  PROVE  OnlyVerifiedClaims'
  <1>1. /\ DistinctIds' <=> DistinctIds
        /\ Claims(draft)' = Claims(draft)
        /\ \A c : Superseded(c)' <=> Superseded(c)
    BY DEF DistinctIds, Claims, Superseded, EvidenceFor
  <1> QED BY <1>1 DEF OnlyVerifiedClaims

LEMMA GenerationKeepsDraft ==
  ASSUME CallsInv, DraftInv, OnlyVerifiedClaims, SynthesisNext
  PROVE  DraftInv' /\ OnlyVerifiedClaims'
  <1>1. CASE Enter
    <2>1. /\ phase = "entry" /\ phase' \in {"done", "ready"} /\ reply' = reply
          /\ \/ phase' = "done" /\ outcome' = StaleAnswer(0)
             \/ phase' = "done" /\ outcome' = [NoOutcome EXCEPT !.status = "skipped"]
             \/ phase' = "ready" /\ outcome' = outcome
      BY <1>1 DEF Enter, Returns, loopVars
    <2>2. outcome'.claims = {}
      BY <2>1, NoOutcomeHasNoClaims DEF DraftInv
    <2> QED BY <2>1, <2>2 DEF DraftInv, OnlyVerifiedClaims
  <1>2. CASE Call
    <2>1. /\ phase = "ready" /\ phase' = "calling" /\ reply' = NoReply /\ outcome' = outcome
      BY <1>2 DEF Call
    <2>2. outcome'.claims = {}
      BY <2>1, NoOutcomeHasNoClaims DEF DraftInv
    <2> QED BY <2>1, <2>2 DEF DraftInv, OnlyVerifiedClaims, NoReply
  <1>3. CASE \E n \in threads : ThreadEnds(n)
    <2>1. /\ UNCHANGED <<mode, phase, supplied, draft, overtaken, outcome>>
          /\ reply' = reply \/ (reply'.kind = "draft" => reply'.draft \in Drafts)
      BY <1>3 DEF ThreadEnds
    <2>2. DraftInv'
      BY <2>1 DEF DraftInv, Valid
    <2>3. OnlyVerifiedClaims'
      BY <2>1, SameAnswer
    <2> QED BY <2>2, <2>3
  <1>4. CASE phase = "calling" /\ (Backoff \/ GiveUp)
    <2>1. /\ reply' = reply /\ phase' \in {"backoff", "done"}
          /\ phase' = "backoff" => outcome' = outcome
      BY <1>4 DEF Backoff, GiveUp, Returns, loopVars
    <2>2. outcome'.claims = {}
      <3>1. CASE Backoff
        BY <1>4, <3>1, NoOutcomeHasNoClaims DEF Backoff, DraftInv
      <3>2. CASE GiveUp
        BY <3>2 DEF GiveUp, Returns, NoOutcome
      <3> QED BY <1>4, <3>1, <3>2
    <2> QED BY <1>4, <2>1, <2>2 DEF DraftInv, OnlyVerifiedClaims
  <1>5. CASE BackoffEnds
    <2>1. /\ phase = "backoff" /\ phase' = "ready" /\ reply' = reply /\ outcome' = outcome
      BY <1>5 DEF BackoffEnds, loopVars
    <2>2. outcome'.claims = {}
      BY <2>1, NoOutcomeHasNoClaims DEF DraftInv
    <2> QED BY <2>1, <2>2 DEF DraftInv, OnlyVerifiedClaims
  <1>6. CASE Judge
    <2>1. /\ phase = "calling" /\ reply' = reply /\ UNCHANGED <<mode, supplied, overtaken>>
          /\ outcome = NoOutcome
      BY <1>6 DEF Judge, DraftInv
    <2>2. CASE overtaken # "no"
      <3>1. phase' = "done" /\ outcome'.claims = {}
        BY <1>6, <2>2, NoOutcomeHasNoClaims DEF Judge, Returns
      <3> QED BY <2>1, <3>1 DEF DraftInv, OnlyVerifiedClaims
    <2>3. CASE overtaken = "no" /\ reply.kind = "draft" /\ Valid(reply.draft) /\ mode = "grounded"
      <3>1. phase' = "done" /\ draft' = reply.draft /\ outcome'.claims = Claims(reply.draft)
        BY <1>6, <2>3 DEF Judge, Answer, Returns, NoOutcome
      <3>2. \A c \in Claims(reply.draft) : c.cites \subseteq DOMAIN supplied
        BY <2>3 DEF Valid, Claims
      <3>3. OnlyVerifiedClaims'
        BY <2>1, <2>3, <3>1, <3>2 DEF OnlyVerifiedClaims
      <3> QED BY <2>1, <3>1, <3>3 DEF DraftInv
    <2>4. CASE overtaken = "no" /\ reply.kind = "draft" /\ Valid(reply.draft) /\ mode = "unified"
      <3>1. phase' = "verify" /\ draft' = reply.draft /\ outcome' = outcome
        BY <1>6, <2>4 DEF Judge
      <3>2. reply.draft \in Drafts
        BY <2>4 DEF DraftInv
      <3>3. DraftInv'
        BY <2>1, <2>4, <3>1, <3>2 DEF DraftInv, Valid
      <3> QED BY <2>1, <3>1, <3>3, NoOutcomeHasNoClaims DEF OnlyVerifiedClaims
    <2>5. CASE overtaken = "no" /\ ~(reply.kind = "draft" /\ Valid(reply.draft))
      <3>1. Repair
        BY <1>6, <2>5 DEF Judge
      <3>2. phase' \in {"ready", "done"} /\ outcome'.claims = {} /\ (phase' = "ready" => outcome' = outcome)
        <4>1. NoOutcome.claims = {}
          BY NoOutcomeHasNoClaims
        <4>2. CASE round < MaxRepairs
          BY <2>1, <3>1, <4>1, <4>2 DEF Repair
        <4>3. CASE ~(round < MaxRepairs)
          BY <3>1, <4>3 DEF Repair, Returns, NoOutcome
        <4> QED BY <4>2, <4>3
      <3> QED BY <2>1, <3>2 DEF DraftInv, OnlyVerifiedClaims
    <2> QED BY <2>2, <2>3, <2>4, <2>5 DEF CallsInv
  <1>7. CASE Publish
    <2>1. phase' = "done" /\ reply' = reply
      BY <1>7 DEF Publish, Returns, loopVars
    <2> QED BY <1>7, <2>1, PublishedClaimsStand DEF DraftInv
  <1>8. CASE VerifierFails
    <2>1. phase' = "done" /\ reply' = reply /\ outcome'.claims = {}
      BY <1>8, NoOutcomeHasNoClaims DEF VerifierFails, Returns, loopVars
    <2> QED BY <2>1 DEF DraftInv, OnlyVerifiedClaims
  <1>9. CASE Overtake
    <2>1. /\ phase \notin {"off", "done"} /\ overtaken = "no" /\ overtaken' = phase
          /\ UNCHANGED <<mode, phase, supplied, draft, outcome, reply>>
      BY <1>9 DEF Overtake, loopVars
    <2>2. outcome'.claims = {}
      BY <2>1, NoOutcomeHasNoClaims DEF DraftInv
    <2>3. DraftInv'
      BY <2>1 DEF DraftInv, Valid
    <2> QED BY <2>2, <2>3 DEF OnlyVerifiedClaims
  <1> QED BY <1>1, <1>2, <1>3, <1>4, <1>5, <1>6, <1>7, <1>8, <1>9
          DEF SynthesisNext, LoopStep, TimesOut, Fails, Retry

-----------------------------------------------------------------------------

LEMMA AnsweringInitInv ==
  ASSUME AnsweringInit
  PROVE  AnsweringInv
  <1>1. stage = "index" /\ ChunkInit /\ SynthesisInit
    BY DEF AnsweringInit
  <1>2. ChunkInv
    BY <1>1, ChunkInitInv
  <1>3. CallsInv
    BY <1>1, Budget DEF SynthesisInit, CallsInv, Phases, NoReply, Reported
  <1>4. DraftInv /\ OnlyVerifiedClaims
    BY <1>1, NoOutcomeHasNoClaims DEF SynthesisInit, DraftInv, OnlyVerifiedClaims, NoReply
  <1>5. Waiting
    BY <1>1 DEF Waiting, SynthesisInit
  <1> QED BY <1>1, <1>2, <1>3, <1>4, <1>5 DEF AnsweringInv

\* The steps of the other stages leave the generator alone.
LEMMA OthersKeepGeneration ==
  ASSUME CallsInv, DraftInv, OnlyVerifiedClaims, UNCHANGED synthesisVars
  PROVE  CallsInv' /\ DraftInv' /\ OnlyVerifiedClaims'
  <1>1. CallsInv'
    BY DEF synthesisVars, CallsInv, Reported
  <1>2. DraftInv'
    BY DEF synthesisVars, DraftInv, Valid
  <1>3. OnlyVerifiedClaims'
    BY SameAnswer DEF synthesisVars
  <1> QED BY <1>1, <1>2, <1>3

LEMMA AnsweringStepKeepsInv ==
  ASSUME AnsweringInv, [AnsweringNext]_answeringVars
  PROVE  AnsweringInv'
  <1>1. CASE Index
    <2>1. stage = "index" /\ stage' = stage /\ ChunkNext /\ UNCHANGED synthesisVars
      BY <1>1 DEF Index, InStage
    <2>2. ChunkInv'
      BY <2>1, ChunkStepKeepsInv DEF AnsweringInv
    <2> QED BY <2>1, <2>2, OthersKeepGeneration DEF AnsweringInv, Waiting, synthesisVars
  <1>2. CASE Indexed \/ Store \/ Stored \/ Listen \/ Heard \/ Search \/ Remember
    <2>1. /\ stage' \in {"store", "listen", "search", "session"} /\ stage # "answer"
          /\ UNCHANGED synthesisVars
      BY <1>2 DEF Indexed, Store, Stored, Listen, Heard, Search, Remember, InStage, AnsweringInv
    <2> QED BY <2>1, OthersKeepGeneration DEF AnsweringInv, Waiting, synthesisVars
  <1>3. CASE HandedOver
    <2>1. /\ stage = "search" /\ stage' = "answer" /\ phase' = "entry"
          /\ mode' \in {"unified", "grounded"}
          /\ UNCHANGED <<round, attempt, calls, counted, threads, reply, draft, overtaken, outcome>>
      BY <1>3 DEF HandedOver, loopVars
    <2>2. /\ outcome = NoOutcome /\ overtaken = "no" /\ phase = "off"
          /\ round = 0 /\ attempt = 0 /\ calls = 0 /\ counted = 0 /\ reply = NoReply
      BY <2>1 DEF AnsweringInv, Waiting
    <2>3. CallsInv'
      BY <2>1, <2>2, Budget DEF AnsweringInv, CallsInv, Phases, NoReply
    <2>4. DraftInv' /\ OnlyVerifiedClaims'
      BY <2>1, <2>2, NoOutcomeHasNoClaims DEF DraftInv, OnlyVerifiedClaims, NoReply
    <2> QED BY <2>1, <2>3, <2>4 DEF AnsweringInv, Waiting
  <1>4. CASE Generate
    <2>1. stage = "answer" /\ stage' = stage /\ SynthesisNext
      BY <1>4 DEF Generate, InStage
    <2> QED BY <2>1, GenerationKeepsCalls, GenerationKeepsDraft DEF AnsweringInv, Waiting
  <1>5. CASE Remembered
    <2>1. /\ stage' = "session" /\ phase' = "off" /\ mode' = "unified"
          /\ round' = 0 /\ attempt' = 0 /\ calls' = 0 /\ counted' = 0
          /\ threads' = {} /\ reply' = NoReply /\ draft' = <<>>
          /\ overtaken' = "no" /\ outcome' = NoOutcome
      BY <1>5 DEF Remembered
    <2>2. CallsInv'
      BY <2>1, Budget DEF CallsInv, Phases, NoReply, Reported
    <2>3. DraftInv' /\ OnlyVerifiedClaims'
      BY <2>1, NoOutcomeHasNoClaims DEF DraftInv, OnlyVerifiedClaims, NoReply
    <2> QED BY <2>1, <2>2, <2>3 DEF AnsweringInv, Waiting
  <1>6. CASE UNCHANGED answeringVars
    <2>1. stage' = stage /\ UNCHANGED chunkVars /\ UNCHANGED synthesisVars
      BY <1>6 DEF answeringVars
    <2>2. stage = "index" => ChunkInv'
      BY <2>1, ChunkStepKeepsInv DEF AnsweringInv
    <2> QED BY <2>1, <2>2, OthersKeepGeneration DEF AnsweringInv, Waiting, synthesisVars
  <1> QED BY <1>1, <1>2, <1>3, <1>4, <1>5, <1>6 DEF AnsweringNext

THEOREM AnsweringInvariance == AnsweringSpec => []AnsweringInv
  <1>1. AnsweringInit => AnsweringInv
    BY AnsweringInitInv
  <1>2. AnsweringInv /\ [AnsweringNext]_answeringVars => AnsweringInv'
    BY AnsweringStepKeepsInv
  <1> QED BY <1>1, <1>2, PTL DEF AnsweringSpec

\* No chunk of a corpus exceeds the limit and no character of it is lost.
THEOREM ChunksAlwaysSound == AnsweringSpec => []ChunksAreSound
  <1>1. AnsweringInv => ChunksAreSound
    BY ChunkInvImplies DEF AnsweringInv, ChunksAreSound
  <1> QED BY <1>1, AnsweringInvariance, PTL

\* The provider is called within the budget, and every call is reported.
THEOREM CallsAlwaysAccounted == AnsweringSpec => []EveryCallAccounted
  <1>1. AnsweringInv => EveryCallAccounted
    <2> SUFFICES ASSUME CallsInv
                 PROVE  EveryCallAccounted
      BY DEF AnsweringInv
    <2>1. calls <= (round + 1) * PerRound /\ (round + 1) * PerRound <= (MaxRepairs + 1) * PerRound
          /\ round \in 0..MaxRepairs /\ calls \in Nat
      BY Budget DEF CallsInv
    <2>2. (MaxRepairs + 1) * PerRound = (MaxRetries + 1) * (MaxRepairs + 1)
          /\ (MaxRepairs + 1) * PerRound \in Nat /\ (round + 1) * PerRound \in Nat
      <3>1. MaxRetries \in Nat /\ MaxRepairs \in Nat /\ round \in Nat
        BY <2>1, SynthesisAssumption
      <3>2. \A r, k \in Nat : (r + 1) * (k + 1) = (k + 1) * (r + 1) /\ (r + 1) * (k + 1) \in Nat
        OBVIOUS
      <3> QED BY <3>1, <3>2 DEF PerRound
    <2>3. calls <= (MaxRetries + 1) * (MaxRepairs + 1)
      BY <2>1, <2>2
    <2> QED BY <2>3 DEF EveryCallAccounted, CallsInv, Reported
  <1> QED BY <1>1, AnsweringInvariance, PTL

\* What is published was verified and stands.
THEOREM OnlyVerifiedPublished == AnsweringSpec => []OnlyVerifiedClaims
  <1>1. AnsweringInv => OnlyVerifiedClaims
    BY DEF AnsweringInv
  <1> QED BY <1>1, AnsweringInvariance, PTL

-----------------------------------------------------------------------------
(* The index.                                                              *)

\* Only commands touch the index, and it is as at first when they are done.
LEMMA AnsweringKeepsIndex ==
  ASSUME IndexInv, [AnsweringNext]_answeringVars
  PROVE  IndexInv'
  <1>1. CASE Store
    BY <1>1, IndexStepKeepsInv DEF Store
  <1>2. CASE Stored
    <2>1. /\ corpus' = Original /\ index' = Absent
          /\ command' = [c \in Command |-> Idle] /\ seen' = [c \in Command |-> {}]
      BY <1>2 DEF Stored
    <2> QED BY <2>1, IndexAssumption
            DEF IndexInv, IndexTypeOK, SeesCorpus, MatchedAsSeen, ServedReadable, At, Idle
  <1>3. CASE \/ Index \/ Indexed \/ Listen \/ Heard \/ Search \/ HandedOver
             \/ Generate \/ Remembered \/ Remember \/ UNCHANGED answeringVars
    <2>1. UNCHANGED indexVars
      BY <1>3 DEF Index, Indexed, Listen, Heard, Search, HandedOver, Generate, Remembered,
                  Remember, answeringVars
    <2> QED BY <2>1, IndexStepKeepsInv
  <1> QED BY <1>1, <1>2, <1>3 DEF AnsweringNext

\* No command leaves a torn index, and a query that names its source is only
\* served from an index of what the source held, built as it asked.
THEOREM QueriesServedAsAsked == AnsweringSpec => []ServedAsAsked
  <1>1. AnsweringInit => IndexInv
    BY IndexInitInv DEF AnsweringInit
  <1>2. IndexInv /\ [AnsweringNext]_answeringVars => IndexInv'
    BY AnsweringKeepsIndex
  <1>3. IndexInv => ServedAsAsked
    BY IndexInvImplies
  <1> QED BY <1>1, <1>2, <1>3, PTL DEF AnsweringSpec

\* Lists one after the other, as a run from the first to the last.
LEMMA FlattenRuns ==
  ASSUME NEW lists, NEW n \in Nat \ {0}, DOMAIN lists = 1..n, Len(lists) = n
  PROVE  \E flat : /\ flat[n] = FlattenSeq(lists)
                   /\ \A i \in 1..n : flat[i] = FlatStep(lists, flat, i)
<1> DEFINE D == 1..n
           flat == FlatR!Chosen(lists, D)
<1>1. FlattenSeq(lists) = flat[n]
  BY DEF FlattenSeq, FlatR!Chosen, FlatStep
<1>2. \E g : g = [i \in D |-> FlatStep(lists, g, i)]
  <2>1. PICK size : size = [i \in D |-> i]
    OBVIOUS
  <2>2. size \in [D -> Nat] /\ n + 1 \in Nat /\ \A i \in D : size[i] < n + 1
    BY <2>1
  <2>3. FlatR!LooksDown(lists, D, size)
    <3> SUFFICES ASSUME NEW g, NEW h, NEW i \in D, \A j \in D : size[j] < size[i] => g[j] = h[j]
                 PROVE  FlatStep(lists, g, i) = FlatStep(lists, h, i)
      BY DEF FlatR!LooksDown
    <3>1. CASE i = 1
      BY <3>1 DEF FlatStep
    <3>2. CASE i # 1
      <4>1. i - 1 \in D /\ size[i - 1] < size[i]
        BY <2>1, <3>2
      <4> QED
        BY <3>2, <4>1 DEF FlatStep
    <3> QED
      BY <3>1, <3>2
  <2> HIDE DEF D
  <2> QED
    BY <2>2, <2>3, FlatR!ExistsBySize
<1>3. \A i \in D : flat[i] = FlatStep(lists, flat, i)
  <2> HIDE DEF D
  <2> QED
    BY <1>2, FlatR!ChosenIs
<1> QED
  BY <1>1, <1>3

\* One step of such a run.
LEMMA FlatSteps ==
  ASSUME NEW lists, NEW flat, NEW i \in Nat, NEW j, j = i + 1, i # 0
  PROVE  FlatStep(lists, flat, j) = flat[i] \o lists[j]
<1>1. j # 1 /\ j - 1 = i
  OBVIOUS
<1> QED
  BY <1>1, Zenon DEF FlatStep

\* One list more at the end.
LEMMA FlattenGrows ==
  ASSUME NEW S, NEW n \in Nat, NEW longer \in [1..(n + 1) -> Seq(S)], NEW shorter \in [1..n -> Seq(S)],
         \A k \in 1..n : shorter[k] = longer[k]
  PROVE  /\ FlattenSeq(longer) = FlattenSeq(shorter) \o longer[n + 1]
         /\ FlattenSeq(shorter) \in Seq(S)
<1>1. /\ DOMAIN longer = 1..(n + 1) /\ Len(longer) = n + 1
      /\ DOMAIN shorter = 1..n /\ Len(shorter) = n
  OBVIOUS
<1>2. PICK long : /\ long[n + 1] = FlattenSeq(longer)
                  /\ \A i \in 1..(n + 1) : long[i] = FlatStep(longer, long, i)
  <2>1. n + 1 \in Nat \ {0}
    OBVIOUS
  <2> QED
    BY <1>1, <2>1, FlattenRuns
<1>3. CASE n = 0
  <2>1. shorter = <<>> /\ FlattenSeq(shorter) = <<>>
    <3>1. shorter = <<>>
      BY <1>3
    <3> QED
      BY <1>1, <1>3, <3>1 DEF FlattenSeq
  <2>2. longer[1] \in Seq(S) /\ FlattenSeq(longer) = longer[1]
    BY <1>2, <1>3 DEF FlatStep
  <2>3. PICK a \in Seq(S) : a = longer[1]
    BY <2>2
  <2>4. <<>> \o a = a /\ <<>> \in Seq(S)
    OBVIOUS
  <2>5. longer[n + 1] = a /\ FlattenSeq(longer) = a
    BY <1>3, <2>2, <2>3
  <2> QED
    BY <2>1, <2>4, <2>5
<1>4. CASE n # 0
  <2>1. PICK short : /\ short[n] = FlattenSeq(shorter)
                     /\ \A i \in 1..n : short[i] = FlatStep(shorter, short, i)
    <3>1. n \in Nat \ {0}
      BY <1>4
    <3> QED
      BY <1>1, <3>1, FlattenRuns
  <2> DEFINE Same(i) == short[i] = long[i] /\ short[i] \in Seq(S)
             G == {i \in Nat : i + 1 \in 1..n => Same(i + 1)}
  <2>2. 0 \in G
    <3>1. 1 \in 1..n /\ 1 \in 1..(n + 1) /\ shorter[1] = longer[1] /\ shorter[1] \in Seq(S)
      BY <1>4
    <3>2. short[1] = shorter[1] /\ long[1] = longer[1]
      BY <1>2, <2>1, <3>1 DEF FlatStep
    <3> QED
      BY <3>1, <3>2
  <2>3. ASSUME NEW i \in Nat, i \in G PROVE i + 1 \in G
    <3> SUFFICES ASSUME i + 2 \in 1..n PROVE Same(i + 2)
      OBVIOUS
    <3>1. PICK j, k \in Nat : j = i + 1 /\ k = j + 1 /\ j # 0
      BY SMTT(30)
    <3>0. k # 1 /\ k - 1 = j
      BY <3>1
    <3>2. Same(j) /\ k \in 1..n /\ k \in 1..(n + 1) /\ shorter[k] = longer[k]
      BY <2>3, <3>1
    <3>3. PICK a, b \in Seq(S) : a = short[j] /\ b = shorter[k]
      BY <3>2
    <3>4. short[k] = short[j] \o shorter[k]
      <4>1. short[k] = FlatStep(shorter, short, k)
        BY <2>1, <3>2, Zenon
      <4>2. FlatStep(shorter, short, k) = short[j] \o shorter[k]
        BY <3>0, Zenon DEF FlatStep
      <4> QED BY <4>1, <4>2, Zenon
    <3>5. long[k] = long[j] \o longer[k]
      <4>1. long[k] = FlatStep(longer, long, k)
        BY <1>2, <3>2, Zenon
      <4>2. FlatStep(longer, long, k) = long[j] \o longer[k]
        BY <3>0, Zenon DEF FlatStep
      <4> QED BY <4>1, <4>2, Zenon
    <3>6. short[k] = a \o b /\ long[k] = a \o b
      BY <3>2, <3>3, <3>4, <3>5, Zenon
    <3>7. a \o b \in Seq(S)
      OBVIOUS
    <3>8. i + 2 = k
      BY <3>1
    <3> QED
      BY <3>6, <3>7, <3>8, Zenon
  <2>4. Nat \subseteq G
    <3> HIDE DEF G
    <3> QED
      BY <2>2, <2>3, FlatR!NumberInduction
  <2>5. Same(n)
    <3>1. n - 1 \in Nat /\ n - 1 + 1 = n /\ n \in 1..n
      BY <1>4
    <3> QED
      BY <2>4, <3>1
  <2>6. long[n + 1] = long[n] \o longer[n + 1]
    <3>1. n + 1 \in 1..(n + 1)
      OBVIOUS
    <3> QED
      BY <1>2, <1>4, <3>1, FlatSteps, ZenonT(60)
  <2> QED
    BY <1>2, <2>1, <2>5, <2>6, Zenon
<1> QED
  BY <1>3, <1>4

-----------------------------------------------------------------------------
(* The transcript: what is accepted.                                       *)

Marks == {"none", "repeated_final", "identical_event_replay"}
RecordsTyped == records \in Seq([event : Offered, mark : Marks])

\* Events come in the order of their numbers, and what has the number or the
\* ID of another is that event again.
InLine(j, k) ==
  /\ j <= k => /\ records[j].event.number <= records[k].event.number
               /\ records[j].event.stamp <= records[k].event.stamp
  /\ records[j].event.id = records[k].event.id => records[j].event = records[k].event
  /\ records[j].event.number = records[k].event.number => records[j].event = records[k].event
RecordsOrdered == \A j, k \in DOMAIN records : InLine(j, k)

\* The final event among those before place k.
Ended(j) == records[j].mark = "none" /\ records[j].event.final
EndedBefore(k) == \E j \in 1..(k - 1) : Ended(j)
KnownBefore(k) == \E j \in 1..(k - 1) : records[j].event.id = records[k].event.id
SaysAgain(k, j) ==
  /\ records[k].event.final /\ records[k].event.text = records[j].event.text
  /\ records[k].event.mode = records[j].event.mode
MarkedRight(k) ==
  /\ records[k].mark = IF EndedBefore(k) THEN "repeated_final"
                       ELSE IF KnownBefore(k) THEN "identical_event_replay" ELSE "none"
  /\ \A j \in 1..(k - 1) : Ended(j) => SaysAgain(k, j)
  /\ records[k].mark = "identical_event_replay" =>
       \E j \in 1..(k - 1) : records[j].mark = "none" /\ records[j].event = records[k].event
RecordsMarked == \A k \in DOMAIN records : MarkedRight(k)

RecordsInv == RecordsTyped /\ RecordsOrdered /\ RecordsMarked

-----------------------------------------------------------------------------
(* The transcript: what the controller makes of it.                        *)

Spoken(n) == {records[k].event : k \in {k \in 1..n : records[k].mark = "none"}}
IsLast(heard, m) == \/ heard = {} /\ m = -1
                    \/ m \in {e.number : e \in heard} /\ \A e \in heard : e.number <= m

ControllerFields == [seen : SUBSET Offered, number : Int, stamp : Int, closed : BOOLEAN,
                  finalText : Seq(Fragment), finalMode : {"none", "incremental", "cumulative"},
                  text : Seq(Fragment), revision : Int, raised : {"no", "order", "empty"}]

\* As long as it did not raise, it has seen what was delivered and is closed by
\* the final event.
Following ==
  session.raised = "no" =>
    /\ session.seen = {records[k].event : k \in 1..delivered}
    /\ session.number = IF delivered = 0 THEN -1 ELSE records[delivered].event.number
    /\ session.stamp = IF delivered = 0 THEN -1 ELSE records[delivered].event.stamp
    /\ session.text = assembled
    /\ session.closed <=> \E j \in 1..delivered : Ended(j)
    /\ \A j \in 1..delivered : Ended(j) => session.finalMode = records[j].event.mode
Raised ==
  /\ session.raised = "order" => delivered # 0 /\ Renamed(delivered) /\ Fragmentary(delivered)
  /\ session.raised = "empty" => session.text = <<>>
  /\ session.closed => session.finalText = assembled
DeliveryInv ==
  /\ session \in ControllerFields /\ assembled \in Seq(Fragment)
  /\ verdict \in {"reading", "refused", "accepted"}
  /\ delivered \in 0..Len(records)
  /\ verdict # "accepted" => delivered = 0 /\ session.raised = "no"
  /\ verdict = "accepted" => Finals # {}
  /\ Following /\ Raised
  /\ \E m \in Int : IsLast(Spoken(delivered), m) /\ assembled = SaidUpTo(Spoken(delivered), m)

TranscriptInv == RecordsInv /\ DeliveryInv

-----------------------------------------------------------------------------
(* The transcript: what a set of events says.                              *)

\* A bounded set of numbers that is not empty has Max as its greatest element.
LEMMA MaxExists ==
  ASSUME NEW S \in SUBSET Int, NEW a \in Int, NEW b \in Int, S # {}, \A x \in S : a <= x /\ x <= b
  PROVE  Max(S) \in S /\ \A y \in S : y <= Max(S)
<1>1. PICK T : T = {b - x : x \in S}
  OBVIOUS
<1>2. T \in SUBSET Nat /\ T # {}
  <2>1. \A x \in S : b - x \in Nat
    OBVIOUS
  <2>2. \A t \in T : t \in Nat
    BY <1>1, <2>1
  <2>3. PICK x \in S : TRUE
    OBVIOUS
  <2>4. b - x \in T
    BY <1>1
  <2> QED
    BY <2>2, <2>4
<1>3. PICK t \in T : \A u \in T : t <= u
  BY <1>2, FlatR!LeastNumber
<1>4. PICK x \in S : t = b - x
  BY <1>1, <1>3
<1>5. x \in S /\ \A y \in S : x >= y
  BY <1>1, <1>3, <1>4
<1>6. Max(S) \in S /\ \A y \in S : Max(S) >= y
  BY <1>5 DEF Max
<1> QED
  BY <1>6

\* What events are assumed to be.
Numbered(heard) ==
  /\ heard \subseteq Offered
  /\ \A d, e \in heard : d.number = e.number => d = e

\* What an offered event is.
LEMMA EventIs ==
  ASSUME NEW e \in Offered
  PROVE  /\ e.text \in Seq(Fragment) /\ e.number \in Nat /\ e.stamp \in Nat
         /\ e.mode \in {"incremental", "cumulative"} /\ e.final \in BOOLEAN
  BY TranscriptAssumption

StartsOf(heard) == {0} \cup {e.number : e \in {d \in heard : d.mode = "cumulative"}}

\* What is said begins where a cumulative text stands, or at zero.
LEMMA FromIs ==
  ASSUME NEW heard, NEW m \in Int, heard \subseteq Offered, \A e \in heard : e.number <= m
  PROVE  /\ SaidFrom(heard) \in StartsOf(heard) /\ SaidFrom(heard) \in Nat
         /\ \A e \in heard : e.mode = "cumulative" => e.number <= SaidFrom(heard)
<1>1. PICK S : S = StartsOf(heard)
  OBVIOUS
<1>2. SaidFrom(heard) = Max(S)
  BY <1>1 DEF SaidFrom, StartsOf
<1>3. S \in SUBSET Nat /\ 0 \in S
  BY <1>1, EventIs DEF StartsOf
<1>4. PICK b \in Int : m <= b /\ 0 <= b
  OBVIOUS
<1>5. \A x \in S : 0 <= x /\ x <= b
  BY <1>1, <1>4, EventIs DEF StartsOf
<1>6. Max(S) \in S /\ \A y \in S : y <= Max(S)
  <2>1. S \in SUBSET Int /\ S # {} /\ 0 \in Int
    BY <1>3
  <2> QED
    BY <1>5, <2>1, MaxExists
<1> QED
  BY <1>1, <1>2, <1>3, <1>6 DEF StartsOf

\* What is said at a number is a text.
LEMMA SaidAtIs ==
  ASSUME NEW heard, heard \subseteq Offered, NEW n
  PROVE  SaidAt(heard, n) \in Seq(Fragment)
<1>1. CASE \E e \in heard : e.number = n
  <2>1. PICK e : e = CHOOSE d \in heard : d.number = n
    OBVIOUS
  <2>2. e \in Offered /\ SaidAt(heard, n) = e.text
    BY <1>1, <2>1 DEF SaidAt
  <2> QED
    BY <2>2, EventIs
<1>2. CASE ~ \E e \in heard : e.number = n
  <2>1. SaidAt(heard, n) = <<>>
    BY <1>2 DEF SaidAt
  <2> QED
    BY <2>1
<1> QED
  BY <1>1, <1>2

\* What is said at the number of an event is its text.
LEMMA SaidAtEvent ==
  ASSUME NEW heard, NEW e \in heard, \A d \in heard : d.number = e.number => d = e
  PROVE  SaidAt(heard, e.number) = e.text
<1>1. PICK d : d = CHOOSE c \in heard : c.number = e.number
  OBVIOUS
<1>2. d \in heard /\ d.number = e.number /\ SaidAt(heard, e.number) = d.text
  BY <1>1 DEF SaidAt
<1> QED
  BY <1>2

\* One number further.
LEMMA SaidGrows ==
  ASSUME NEW heard, heard \subseteq Offered, NEW n \in Int, SaidFrom(heard) \in Nat, n >= SaidFrom(heard) - 1
  PROVE  /\ SaidUpTo(heard, n + 1) = SaidUpTo(heard, n) \o SaidAt(heard, n + 1)
         /\ SaidUpTo(heard, n) \in Seq(Fragment)
         /\ n = SaidFrom(heard) - 1 => SaidUpTo(heard, n) = <<>>
<1>1. PICK from \in Nat : from = SaidFrom(heard)
  OBVIOUS
<1>2. PICK k \in Nat : k = n - from + 1
  BY <1>1
<1>3. PICK shorter : shorter = [i \in 1..k |-> SaidAt(heard, from + i - 1)]
  OBVIOUS
<1>4. PICK longer : longer = [i \in 1..(k + 1) |-> SaidAt(heard, from + i - 1)]
  OBVIOUS
<1>5. shorter \in [1..k -> Seq(Fragment)] /\ longer \in [1..(k + 1) -> Seq(Fragment)]
  BY <1>3, <1>4, SaidAtIs
<1>6. \A i \in 1..k : shorter[i] = longer[i]
  BY <1>3, <1>4
<1>7. SaidUpTo(heard, n) = FlattenSeq(shorter)
  BY <1>1, <1>2, <1>3 DEF SaidUpTo
<1>8. SaidUpTo(heard, n + 1) = FlattenSeq(longer)
  <2>1. (n + 1) - from + 1 = k + 1
    BY <1>2
  <2> QED
    BY <1>1, <1>4, <2>1 DEF SaidUpTo
<1>9. longer[k + 1] = SaidAt(heard, n + 1)
  <2>1. k + 1 \in 1..(k + 1) /\ from + (k + 1) - 1 = n + 1
    BY <1>2
  <2> QED
    BY <1>4, <2>1
<1>10. FlattenSeq(longer) = FlattenSeq(shorter) \o longer[k + 1] /\ FlattenSeq(shorter) \in Seq(Fragment)
  BY <1>5, <1>6, FlattenGrows
<1>11. ASSUME n = from - 1 PROVE FlattenSeq(shorter) = <<>>
  <2>1. k = 0
    BY <1>2, <1>11
  <2>2. shorter = <<>> /\ Len(shorter) = 0
    BY <1>5, <2>1
  <2> QED
    BY <2>2 DEF FlattenSeq
<1> QED
  BY <1>1, <1>7, <1>8, <1>9, <1>10, <1>11, Zenon

\* Nothing is said by numbers that were not heard.
LEMMA SilenceAdds ==
  ASSUME NEW heard, heard \subseteq Offered, NEW m \in Int, NEW n \in Int, m <= n,
         SaidFrom(heard) \in Nat, m >= SaidFrom(heard) - 1, \A e \in heard : e.number <= m
  PROVE  SaidUpTo(heard, n) = SaidUpTo(heard, m)
<1> DEFINE G == {k \in Nat : SaidUpTo(heard, m + k) = SaidUpTo(heard, m)}
<1>1. 0 \in G
  <2>1. m + 0 = m
    OBVIOUS
  <2> QED
    BY <2>1
<1>2. ASSUME NEW k \in Nat, k \in G PROVE k + 1 \in G
  <2>1. PICK j \in Int : j = m + k
    OBVIOUS
  <2>2. SaidUpTo(heard, j + 1) = SaidUpTo(heard, j) \o SaidAt(heard, j + 1) /\ SaidUpTo(heard, j) \in Seq(Fragment)
    <3>1. j >= SaidFrom(heard) - 1
      BY <2>1
    <3> QED
      BY <3>1, SaidGrows
  <2>3. SaidAt(heard, j + 1) = <<>>
    <3>1. ~ \E e \in heard : e.number = j + 1
      BY <2>1
    <3> QED
      BY <3>1, Zenon DEF SaidAt
  <2>4. PICK a \in Seq(Fragment) : a = SaidUpTo(heard, j)
    BY <2>2
  <2>5. a \o <<>> = a
    OBVIOUS
  <2>6. SaidUpTo(heard, j + 1) = SaidUpTo(heard, j)
    BY <2>2, <2>3, <2>4, <2>5, Zenon
  <2>7. m + (k + 1) = j + 1
    BY <2>1
  <2>8. SaidUpTo(heard, j) = SaidUpTo(heard, m)
    BY <1>2, <2>1
  <2>9. SaidUpTo(heard, m + (k + 1)) = SaidUpTo(heard, m)
    BY <2>6, <2>7, <2>8, Zenon
  <2> QED
    BY <2>9
<1>3. Nat \subseteq G
  <2> HIDE DEF G
  <2> QED
    BY <1>1, <1>2, FlatR!NumberInduction
<1>4. PICK k \in Nat : m + k = n
  <2>1. n - m \in Nat /\ m + (n - m) = n
    OBVIOUS
  <2> QED
    BY <2>1
<1>5. SaidUpTo(heard, m + k) = SaidUpTo(heard, m)
  BY <1>3
<1> QED
  BY <1>4, <1>5

\* What is said by lower numbers does not depend on an event of a higher one.
LEMMA SaidBefore ==
  ASSUME NEW heard, Numbered(heard), NEW e \in Offered, \A d \in heard : d.number < e.number,
         NEW n \in Int, n < e.number, SaidFrom(heard \cup {e}) = SaidFrom(heard), SaidFrom(heard) \in Nat
  PROVE  SaidUpTo(heard \cup {e}, n) = SaidUpTo(heard, n)
<1>1. PICK more : more = heard \cup {e}
  OBVIOUS
<1>2. PICK from \in Nat : from = SaidFrom(heard) /\ from = SaidFrom(more)
  BY <1>1
<1>3. ASSUME NEW k \in Int, k <= n PROVE SaidAt(more, k) = SaidAt(heard, k)
  <2>1. e.number # k /\ e.number \in Nat
    BY <1>3, EventIs
  <2>2. CASE \E d \in heard : d.number = k
    <3>1. PICK d \in heard : d.number = k
      BY <2>2
    <3>2. \A c \in more : c.number = d.number => c = d
      BY <1>1, <2>1, <3>1 DEF Numbered
    <3>3. d \in more /\ \A c \in heard : c.number = d.number => c = d
      BY <1>1 DEF Numbered
    <3> QED
      BY <3>1, <3>2, <3>3, SaidAtEvent
  <2>3. CASE ~ \E d \in heard : d.number = k
    <3>1. ~ \E d \in more : d.number = k
      BY <1>1, <2>1, <2>3
    <3> QED
      BY <2>3, <3>1 DEF SaidAt
  <2> QED
    BY <2>2, <2>3
<1>4. PICK D : D = 1..(n - from + 1)
  OBVIOUS
<1>5. \A i \in D : SaidAt(more, from + i - 1) = SaidAt(heard, from + i - 1)
  BY <1>3, <1>4
<1>6. [i \in D |-> SaidAt(more, from + i - 1)] = [i \in D |-> SaidAt(heard, from + i - 1)]
  BY <1>5
<1> QED
  BY <1>1, <1>2, <1>4, <1>6 DEF SaidUpTo

\* A later event is appended or, cumulative, replaces what was said.
LEMMA NewEvent ==
  ASSUME NEW heard, Numbered(heard), NEW m \in Int, IsLast(heard, m), NEW e \in Offered, e.number > m
  PROVE  /\ SaidUpTo(heard \cup {e}, e.number) = Assemble(SaidUpTo(heard, m), e)
         /\ IsLast(heard \cup {e}, e.number) /\ Numbered(heard \cup {e})
<1>1. PICK more : more = heard \cup {e}
  OBVIOUS
<1>2. PICK n \in Nat : n = e.number
  BY EventIs
<1>3. heard \subseteq Offered /\ more \subseteq Offered /\ \A d \in heard : d.number \in Nat
  BY <1>1, EventIs DEF Numbered
<1>4. \A d \in heard : d.number <= m /\ d.number < n
  BY <1>2, <1>3 DEF IsLast
<1>5. IsLast(more, n) /\ Numbered(more)
  <2>1. \A d \in more : d.number <= n
    BY <1>1, <1>2, <1>4, <1>3
  <2>2. e \in more
    BY <1>1
  <2>3. IsLast(more, n)
    BY <1>2, <2>1, <2>2 DEF IsLast
  <2>4. ASSUME NEW c \in more, NEW d \in more, c.number = d.number PROVE c = d
    <3>1. CASE c = e \/ d = e
      BY <1>1, <1>2, <1>3, <1>4, <2>4, <3>1
    <3>2. CASE c # e /\ d # e
      BY <1>1, <2>4, <3>2 DEF Numbered
    <3> QED
      BY <3>1, <3>2
  <2> QED
    BY <1>3, <2>3, <2>4 DEF Numbered
<1>6. /\ SaidFrom(more) \in Nat /\ SaidFrom(more) \in StartsOf(more)
      /\ \A d \in more : d.mode = "cumulative" => d.number <= SaidFrom(more)
  <2>1. \A d \in more : d.number <= n
    BY <1>1, <1>2, <1>4, <1>3
  <2> QED
    BY <1>3, <2>1, FromIs
<1>7. /\ SaidFrom(heard) \in Nat /\ SaidFrom(heard) \in StartsOf(heard)
  BY <1>3, <1>4, FromIs
<1>8. SaidAt(more, n) = e.text
  BY <1>1, <1>2, <1>5, SaidAtEvent DEF Numbered
<1>9. e.text \in Seq(Fragment)
  BY EventIs
<1>10. n - 1 \in Int /\ (n - 1) + 1 = n
  OBVIOUS
<1>11. CASE e.mode = "cumulative"
  <2>1. SaidFrom(more) = n
    <3>1. \A s \in StartsOf(more) : s <= n
      BY <1>1, <1>2, <1>3, <1>4 DEF StartsOf
    <3>2. n <= SaidFrom(more)
      BY <1>1, <1>2, <1>6, <1>11
    <3> QED
      BY <1>6, <3>1, <3>2
  <2>2. SaidUpTo(more, (n - 1) + 1) = SaidUpTo(more, n - 1) \o SaidAt(more, (n - 1) + 1) /\ SaidUpTo(more, n - 1) = <<>>
    <3>1. n - 1 >= SaidFrom(more) - 1 /\ n - 1 = SaidFrom(more) - 1
      BY <2>1
    <3> QED
      BY <1>3, <1>6, <1>10, <3>1, SaidGrows
  <2>3. PICK a \in Seq(Fragment) : a = e.text
    BY <1>9
  <2>4. <<>> \o a = a
    OBVIOUS
  <2>5. SaidUpTo(more, n) = a
    BY <1>8, <1>10, <2>2, <2>3, <2>4, Zenon
  <2>6. Assemble(SaidUpTo(heard, m), e) = a
    BY <1>11, <2>3 DEF Assemble
  <2> QED
    BY <1>1, <1>2, <1>5, <2>5, <2>6, Zenon
<1>12. CASE e.mode # "cumulative"
  <2>1. SaidFrom(more) = SaidFrom(heard)
    <3>1. {d \in more : d.mode = "cumulative"} = {d \in heard : d.mode = "cumulative"}
      BY <1>1, <1>12
    <3> QED
      BY <3>1, Zenon DEF SaidFrom
  <2>2. m >= SaidFrom(heard) - 1
    BY <1>4, <1>7, <1>3 DEF StartsOf, IsLast
  <2>3. SaidUpTo(heard, n - 1) = SaidUpTo(heard, m)
    <3>1. m <= n - 1
      BY <1>2
    <3> QED
      BY <1>3, <1>4, <1>7, <2>2, <3>1, SilenceAdds
  <2>4. SaidUpTo(more, n - 1) = SaidUpTo(heard, n - 1)
    <3>1. n - 1 < e.number
      BY <1>2
    <3>2. \A d \in heard : d.number < e.number
      BY <1>2, <1>4
    <3> QED
      BY <1>1, <1>7, <1>10, <2>1, <3>1, <3>2, SaidBefore
  <2>5. SaidUpTo(more, (n - 1) + 1) = SaidUpTo(more, n - 1) \o SaidAt(more, (n - 1) + 1)
    <3>1. n - 1 >= SaidFrom(more) - 1
      BY <1>2, <1>7, <2>1, <2>2
    <3> QED
      BY <1>3, <1>6, <1>10, <3>1, SaidGrows
  <2>6. SaidUpTo(more, n) = SaidUpTo(heard, m) \o e.text
    BY <1>8, <1>10, <2>3, <2>4, <2>5, Zenon
  <2>7. Assemble(SaidUpTo(heard, m), e) = SaidUpTo(heard, m) \o e.text
    BY <1>12, Zenon DEF Assemble
  <2> QED
    BY <1>1, <1>2, <1>5, <2>6, <2>7, Zenon
<1> QED
  BY <1>11, <1>12

\* Without events nothing is said.
LEMMA NothingSaid == SaidUpTo({}, -1) = <<>> /\ IsLast({}, -1)
<1>1. PICK none : none = {}
  OBVIOUS
<1>2. none \subseteq Offered /\ \A e \in none : e.number <= -1
  BY <1>1
<1>3. SaidFrom(none) \in StartsOf(none) /\ SaidFrom(none) \in Nat
  BY <1>2, FromIs
<1>4. SaidFrom(none) = 0
  BY <1>1, <1>3 DEF StartsOf
<1>5. -1 \in Int /\ -1 >= SaidFrom(none) - 1 /\ -1 = SaidFrom(none) - 1
  BY <1>4
<1> QED
  BY <1>1, <1>2, <1>3, <1>5, SaidGrows DEF IsLast

-----------------------------------------------------------------------------
(* The transcript: reading it.                                             *)

\* At first nothing is read and nothing delivered.
LEMMA TranscriptStarts == TranscriptInit => TranscriptInv
<1> SUFFICES ASSUME TranscriptInit PROVE TranscriptInv
  OBVIOUS
<1>1. records = <<>> /\ Len(records) = 0 /\ DOMAIN records = {}
  BY DEF TranscriptInit
<1>2. RecordsInv
  BY <1>1 DEF RecordsInv, RecordsTyped, RecordsOrdered, RecordsMarked
<1>3. /\ session = SessionInit /\ assembled = <<>> /\ verdict = "reading" /\ delivered = 0
  BY DEF TranscriptInit
<1>4. Following
  BY <1>1, <1>3 DEF Following, SessionInit
<1>5. session \in ControllerFields /\ Raised
  BY <1>3 DEF ControllerFields, SessionInit, Raised
<1>6. Spoken(delivered) = {}
  BY <1>3 DEF Spoken
<1>7. \E m \in Int : IsLast(Spoken(delivered), m) /\ assembled = SaidUpTo(Spoken(delivered), m)
  <2>1. -1 \in Int
    OBVIOUS
  <2>2. IsLast(Spoken(delivered), -1) /\ assembled = SaidUpTo(Spoken(delivered), -1)
    BY <1>3, <1>6, NothingSaid, Zenon
  <2> QED
    BY <2>1, <2>2, Zenon
<1>8. /\ assembled \in Seq(Fragment) /\ delivered \in 0..Len(records)
      /\ verdict # "accepted" /\ verdict \in {"reading", "refused", "accepted"}
      /\ delivered = 0 /\ session.raised = "no"
  BY <1>1, <1>3 DEF SessionInit
<1> QED
  BY <1>2, <1>4, <1>5, <1>7, <1>8, Zenon DEF TranscriptInv, DeliveryInv

\* The same after a step that starts again.
LEMMA TranscriptStartsAgain ==
  TranscriptInit' => TranscriptInv'
  BY TranscriptStarts, PTL

\* What a record is.
LEMMA RecordIs ==
  ASSUME RecordsInv, NEW k \in DOMAIN records
  PROVE  /\ DOMAIN records = 1..Len(records) /\ Len(records) \in Nat /\ k \in Nat
         /\ records[k].event \in Offered /\ records[k].mark \in Marks
         /\ records[k].event.number \in Nat /\ records[k].event.stamp \in Nat
<1>1. PICK T : T = [event : Offered, mark : Marks]
  OBVIOUS
<1>2. records \in Seq(T)
  BY <1>1 DEF RecordsInv, RecordsTyped
<1>3. DOMAIN records = 1..Len(records) /\ Len(records) \in Nat /\ k \in Nat /\ records[k] \in T
  BY <1>2
<1>4. records[k].event \in Offered /\ records[k].mark \in Marks
  BY <1>1, <1>3
<1> QED
  BY <1>3, <1>4, EventIs

\* A record more.
LEMMA ReadKeepsRecords ==
  ASSUME RecordsInv, NEW e \in Offered, Accepts(e),
         records' = Append(records, [event |-> e, mark |-> Duplicate(e)])
  PROVE  RecordsInv' /\ Len(records') = Len(records) + 1
<1> DEFINE new == [event |-> e, mark |-> Duplicate(e)]
<1>1. PICK n \in Nat : n = Len(records)
  BY DEF RecordsInv, RecordsTyped
<1>2. records \in Seq([event : Offered, mark : Marks]) /\ DOMAIN records = 1..n
  BY <1>1 DEF RecordsInv, RecordsTyped
<1>3. new \in [event : Offered, mark : Marks]
  BY DEF Duplicate, Marks
<1>4. /\ records' \in Seq([event : Offered, mark : Marks]) /\ Len(records') = n + 1
      /\ DOMAIN records' = 1..(n + 1)
      /\ \A k \in 1..n : records'[k] = records[k]
      /\ records'[n + 1] = new
  BY <1>1, <1>2, <1>3
<1>n. \A k \in 1..(n + 1) : k \in 1..n \/ k = n + 1
  OBVIOUS
<1>5. /\ records'[n + 1].event = e /\ records'[n + 1].mark = Duplicate(e)
  BY <1>4
<1>6. \A k \in 1..n : /\ records[k].event \in Offered /\ records[k].event.number \in Nat
                      /\ records[k].event.stamp \in Nat
  <2>1. \A k \in 1..n : k \in DOMAIN records
    BY <1>2
  <2> QED
    BY <2>1, RecordIs
<1>7. e.number \in Nat /\ e.stamp \in Nat
  BY EventIs
<1>8. \A j \in 1..n : /\ records[j].event.number <= e.number /\ records[j].event.stamp <= e.stamp
                      /\ ~Known(e) => records[j].event.number < e.number
  <2> SUFFICES ASSUME NEW j \in 1..n
               PROVE  /\ records[j].event.number <= e.number /\ records[j].event.stamp <= e.stamp
                      /\ ~Known(e) => records[j].event.number < e.number
    OBVIOUS
  <2>1. n \in 1..n /\ j <= n /\ records # <<>> /\ Latest = records[n].event
    BY <1>1, <1>2 DEF Latest
  <2>2. /\ records[j].event.number <= Latest.number /\ records[j].event.stamp <= Latest.stamp
    BY <1>2, <2>1 DEF RecordsInv, RecordsOrdered, InLine
  <2>3. e.stamp >= Latest.stamp /\ e.number >= Latest.number /\ (~Known(e) => e.number > Latest.number)
    BY <2>1 DEF Accepts, InOrder, Increases
  <2> QED
    <3>1. /\ Latest.number \in Nat /\ Latest.stamp \in Nat
          /\ records[j].event.number \in Nat /\ records[j].event.stamp \in Nat
      BY <1>6, <2>1
    <3>2. PICK a, b, c \in Nat : a = records[j].event.number /\ b = Latest.number /\ c = e.number
      BY <1>7, <3>1
    <3>3. PICK p, q, s \in Nat : p = records[j].event.stamp /\ q = Latest.stamp /\ s = e.stamp
      BY <1>7, <3>1
    <3>4. a <= b /\ b <= c /\ p <= q /\ q <= s /\ (~Known(e) => b < c)
      BY <2>2, <2>3, <3>2, <3>3
    <3>5. a <= c /\ p <= s /\ (~Known(e) => a < c)
      BY <3>4
    <3> QED
      BY <3>2, <3>3, <3>5
<1>9. ASSUME NEW j \in 1..n, records[j].event.id = e.id \/ records[j].event.number = e.number
      PROVE  records[j].event = e
  <2>1. Known(e)
    <3>1. CASE records[j].event.id = e.id
      BY <1>2, <3>1 DEF Known
    <3>2. CASE records[j].event.number = e.number
      BY <1>7, <1>8, <3>2
    <3> QED
      BY <1>9, <3>1, <3>2
  <2>2. PICK k \in 1..n : records[k].event = e
    BY <1>2, <2>1 DEF Accepts, Repeated
  <2> QED
    BY <1>2, <1>9, <2>2 DEF RecordsInv, RecordsOrdered, InLine
<1>10. RecordsOrdered'
  <2> SUFFICES ASSUME NEW j \in 1..(n + 1), NEW k \in 1..(n + 1) PROVE InLine(j, k)'
    BY <1>4 DEF RecordsOrdered
  <2>1. CASE j \in 1..n /\ k \in 1..n
    BY <1>2, <1>4, <2>1 DEF RecordsInv, RecordsOrdered, InLine
  <2>2. CASE j \in 1..n /\ k = n + 1
    BY <1>4, <1>5, <1>8, <1>9, <2>2 DEF InLine
  <2>3. CASE j = n + 1 /\ k \in 1..n
    <3>1. ~(j <= k)
      BY <2>3
    <3> QED
      BY <1>4, <1>5, <1>9, <2>3, <3>1 DEF InLine
  <2>4. CASE j = n + 1 /\ k = n + 1
    <3>1. records'[j].event = e /\ records'[k].event = e
      BY <1>5, <2>4
    <3>2. e.number <= e.number /\ e.stamp <= e.stamp
      BY <1>7
    <3> QED
      BY <3>1, <3>2, Zenon DEF InLine
  <2> QED
    BY <1>n, <2>1, <2>2, <2>3, <2>4, Zenon
<1>11. \A k \in 1..(n + 1) : (EndedBefore(k) <=> EndedBefore(k)') /\ (KnownBefore(k)' <=> \E j \in 1..(k - 1) : records[j].event.id = records'[k].event.id)
  BY <1>4 DEF EndedBefore, Ended, KnownBefore
<1>12. EndedBefore(n + 1) <=> Finals # {}
  BY <1>2 DEF EndedBefore, Ended, Finals, Kept
<1>13. KnownBefore(n + 1)' <=> Known(e)
  BY <1>2, <1>5, <1>11 DEF Known
<1>14. RecordsMarked'
  <2> SUFFICES ASSUME NEW k \in 1..(n + 1) PROVE MarkedRight(k)'
    BY <1>4 DEF RecordsMarked
  <2>1. CASE k \in 1..n
    <3>1. KnownBefore(k)' <=> KnownBefore(k)
      BY <1>4, <2>1 DEF KnownBefore
    <3>2. EndedBefore(k)' <=> EndedBefore(k)
      BY <1>11
    <3>3. records'[k] = records[k] /\ \A j \in 1..(k - 1) : records'[j] = records[j]
      BY <1>4, <2>1
    <3>4. \A j \in 1..(k - 1) : (Ended(j)' <=> Ended(j)) /\ (SaysAgain(k, j)' <=> SaysAgain(k, j))
      BY <3>3 DEF Ended, SaysAgain
    <3> QED
      BY <1>2, <2>1, <3>1, <3>2, <3>3, <3>4 DEF RecordsInv, RecordsMarked, MarkedRight
  <2>2. CASE k = n + 1
    <3>1. records'[k].mark = IF EndedBefore(k)' THEN "repeated_final"
                             ELSE IF KnownBefore(k)' THEN "identical_event_replay" ELSE "none"
      BY <1>5, <1>11, <1>12, <1>13, <2>2 DEF Duplicate
    <3>2. ASSUME NEW j \in 1..(k - 1), Ended(j)' PROVE SaysAgain(k, j)'
      <4>1. j \in 1..n /\ Ended(j)
        BY <1>4, <2>2, <3>2 DEF Ended
      <4>2. j \in Finals
        BY <1>2, <4>1 DEF Ended, Finals, Kept
      <4>3. e.final /\ e.text = records[j].event.text /\ e.mode = records[j].event.mode
        BY <4>2 DEF Accepts, Repeats
      <4> QED
        BY <1>4, <1>5, <2>2, <4>1, <4>3 DEF SaysAgain
    <3>3. ASSUME records'[k].mark = "identical_event_replay"
          PROVE  \E j \in 1..(k - 1) : records'[j].mark = "none" /\ records'[j].event = records'[k].event
      <4>1. Finals = {} /\ Known(e)
        BY <1>5, <2>2, <3>3 DEF Duplicate
      <4>2. PICK j \in 1..n : records[j].event = e
        BY <1>2, <4>1 DEF Accepts, Repeated
      <4>3. ~EndedBefore(j)
        BY <1>12, <4>1 DEF EndedBefore
      <4>4. records[j].mark \in {"none", "identical_event_replay"}
        BY <1>2, <4>3 DEF RecordsInv, RecordsMarked, MarkedRight
      <4>5. PICK i \in 1..n : records[i].mark = "none" /\ records[i].event = e
        <5>1. CASE records[j].mark = "none"
          BY <4>2, <5>1
        <5>2. CASE records[j].mark = "identical_event_replay"
          <6>1. PICK i \in 1..(j - 1) : records[i].mark = "none" /\ records[i].event = records[j].event
            BY <1>2, <5>2 DEF RecordsInv, RecordsMarked, MarkedRight
          <6> QED
            BY <4>2, <6>1
        <5> QED
          BY <4>4, <5>1, <5>2
      <4> QED
        BY <1>4, <1>5, <2>2, <4>5
    <3> QED
      BY <3>1, <3>2, <3>3 DEF MarkedRight
  <2> QED
    BY <1>n, <2>1, <2>2, Zenon
<1> QED
  BY <1>1, <1>4, <1>10, <1>14 DEF RecordsInv, RecordsTyped

\* Nothing is delivered while the list is read.
LEMMA NothingDelivered ==
  ASSUME DeliveryInv, verdict # "accepted", UNCHANGED <<delivered, session, assembled>>,
         Len(records') \in Nat, verdict' \in {"reading", "refused", "accepted"},
         verdict' = "accepted" => Finals' # {}
  PROVE  DeliveryInv'
<1>1. delivered = 0 /\ session.raised = "no"
  BY DEF DeliveryInv
<1>2. Following' /\ Raised'
  BY <1>1 DEF DeliveryInv, Following, Raised
<1>3. Spoken(delivered)' = Spoken(delivered)
  BY <1>1 DEF Spoken
<1>4. \E m \in Int : IsLast(Spoken(delivered)', m) /\ assembled' = SaidUpTo(Spoken(delivered)', m)
  BY <1>3 DEF DeliveryInv
<1>5. (\E m \in Int : IsLast(Spoken(delivered), m) /\ assembled = SaidUpTo(Spoken(delivered), m))'
  BY <1>4
<1> QED
  BY <1>1, <1>2, <1>5 DEF DeliveryInv

\* Reading an event keeps the invariant.
LEMMA ReadKeepsInv ==
  ASSUME TranscriptInv, NEW e \in Offered, Read(e)
  PROVE  TranscriptInv'
<1>1. CASE Accepts(e)
  <2>1. RecordsInv' /\ Len(records') = Len(records) + 1
    BY <1>1, ReadKeepsRecords DEF TranscriptInv, Read
  <2>2. Len(records') \in Nat /\ verdict' = "reading" /\ verdict # "accepted"
    BY <1>1, <2>1 DEF TranscriptInv, RecordsInv, RecordsTyped, Read
  <2>3. DeliveryInv'
    BY <2>2, NothingDelivered DEF TranscriptInv, Read
  <2> QED
    BY <2>1, <2>3 DEF TranscriptInv
<1>2. CASE ~Accepts(e)
  <2>1. RecordsInv'
    BY <1>2 DEF Read, TranscriptInv, RecordsInv, RecordsTyped, RecordsOrdered, RecordsMarked, InLine,
                MarkedRight, EndedBefore, Ended, KnownBefore, SaysAgain
  <2>2. Len(records') \in Nat /\ verdict' = "refused" /\ verdict # "accepted"
    BY <1>2, <2>1 DEF TranscriptInv, RecordsInv, RecordsTyped, Read
  <2>3. DeliveryInv'
    BY <2>2, NothingDelivered DEF TranscriptInv, Read
  <2> QED
    BY <2>1, <2>3 DEF TranscriptInv
<1> QED
  BY <1>1, <1>2

\* The end of the list keeps the invariant.
LEMMA ListEndsKeepsInv ==
  ASSUME TranscriptInv, ListEnds
  PROVE  TranscriptInv'
<1>1. RecordsInv'
  BY DEF ListEnds, TranscriptInv, RecordsInv, RecordsTyped, RecordsOrdered, RecordsMarked, InLine,
         MarkedRight, EndedBefore, Ended, KnownBefore, SaysAgain
<1>2. Len(records') \in Nat
  BY <1>1 DEF RecordsInv, RecordsTyped
<1>3. verdict # "accepted" /\ verdict' = IF Finals = {} THEN "refused" ELSE "accepted"
  BY DEF ListEnds
<1>4. Finals' = Finals
  BY DEF ListEnds, Finals, Kept
<1>5. DeliveryInv'
  BY <1>2, <1>3, <1>4, NothingDelivered DEF TranscriptInv, ListEnds
<1> QED
  BY <1>1, <1>5 DEF TranscriptInv

-----------------------------------------------------------------------------
(* The transcript: delivering it.                                          *)

\* What is in a set of records' events.
LEMMA SpokenIs ==
  ASSUME RecordsInv, NEW n \in 0..Len(records)
  PROVE  /\ Numbered(Spoken(n))
         /\ \A m \in Int : IsLast(Spoken(n), m) =>
              m <= IF n = 0 THEN -1 ELSE records[n].event.number
<1>0. DOMAIN records = 1..Len(records) /\ Len(records) \in Nat
  BY DEF RecordsInv, RecordsTyped
<1>1. \A e \in Spoken(n) : \E k \in 1..n : k \in DOMAIN records /\ e = records[k].event
  BY <1>0 DEF Spoken
<1>2. Numbered(Spoken(n))
  BY <1>1, RecordIs DEF Numbered, RecordsInv, RecordsOrdered, InLine
<1>3. ASSUME NEW m \in Int, IsLast(Spoken(n), m), m \in {e.number : e \in Spoken(n)}
      PROVE  n # 0 /\ m <= records[n].event.number
  <2>1. PICK k \in 1..n : k \in DOMAIN records /\ m = records[k].event.number
    BY <1>1, <1>3
  <2>2. n # 0 /\ n \in DOMAIN records /\ k <= n
    BY <1>0, <2>1
  <2> QED
    BY <2>1, <2>2 DEF RecordsInv, RecordsOrdered, InLine
<1>4. ASSUME NEW m \in Int, IsLast(Spoken(n), m), m = -1
      PROVE  m <= IF n = 0 THEN -1 ELSE records[n].event.number
  <2>1. n # 0 => n \in DOMAIN records
    BY <1>0
  <2> QED
    BY <1>4, <2>1, RecordIs
<1>5. ASSUME NEW m \in Int, IsLast(Spoken(n), m)
      PROVE  m <= IF n = 0 THEN -1 ELSE records[n].event.number
  <2>1. m = -1 \/ m \in {e.number : e \in Spoken(n)}
    BY <1>5 DEF IsLast
  <2> QED
    BY <1>3, <1>4, <1>5, <2>1
<1> QED
  BY <1>2, <1>5


\* The controller takes a repeated ID for the last event delivered, refuses a
\* later final with another text than the closed transcript, and accepts the rest.
LEMMA OrderIs ==
  ASSUME TranscriptInv, Deliver, NEW k, k = delivered + 1, NEW e, e = records[k].event
  PROVE  /\ k \in DOMAIN records /\ e \in Offered
         /\ KnownBefore(k) => /\ Order(session, e) = "identical_event_replay"
                              /\ e \in session.seen /\ e.number = session.number /\ e.stamp = session.stamp
         /\ ~KnownBefore(k) => /\ e \notin session.seen /\ e.number > session.number
                               /\ EndedBefore(k) => \/ Order(session, e) = "repeated_final"
                                                    \/ Order(session, e) = "error" /\ e.text # session.finalText
                               /\ ~EndedBefore(k) => Order(session, e) = "none"
<1>1. /\ RecordsInv /\ session.raised = "no" /\ delivered \in 0..Len(records) /\ delivered < Len(records)
      /\ DOMAIN records = 1..Len(records) /\ Len(records) \in Nat
  BY DEF TranscriptInv, DeliveryInv, Deliver, RecordsInv, RecordsTyped
<1>2. k \in DOMAIN records /\ \A j \in 1..delivered : j \in DOMAIN records /\ j <= k
  BY <1>1
<1>3. /\ session.seen = {records[j].event : j \in 1..delivered}
      /\ session.number = IF delivered = 0 THEN -1 ELSE records[delivered].event.number
      /\ session.stamp = IF delivered = 0 THEN -1 ELSE records[delivered].event.stamp
      /\ session.closed <=> \E j \in 1..delivered : Ended(j)
      /\ \A j \in 1..delivered : Ended(j) => session.finalMode = records[j].event.mode
  BY <1>1 DEF TranscriptInv, DeliveryInv, Following
<1>4. e \in Offered /\ e.number \in Nat /\ e.stamp \in Nat /\ 1..(k - 1) = 1..delivered
  BY <1>1, <1>2, RecordIs, SMTT(30)
<1>5. \A j \in 1..delivered : /\ records[j].event.number \in Nat /\ records[j].event.stamp \in Nat
                              /\ records[j].event.number <= e.number /\ records[j].event.stamp <= e.stamp
                              /\ records[j].event.id = e.id => records[j].event = e
                              /\ records[j].event.number = e.number => records[j].event = e
  BY <1>1, <1>2, RecordIs DEF RecordsInv, RecordsOrdered, InLine
<1>6. KnownBefore(k) <=> \E d \in session.seen : d.id = e.id
  BY <1>3, <1>4 DEF KnownBefore
<1>7. ASSUME KnownBefore(k)
      PROVE  /\ Order(session, e) = "identical_event_replay"
             /\ e \in session.seen /\ e.number = session.number /\ e.stamp = session.stamp
  <2>1. PICK j \in 1..delivered : records[j].event.id = e.id
    BY <1>4, <1>7 DEF KnownBefore
  <2>2. records[j].event = e /\ e \in session.seen
    BY <1>3, <1>5, <2>1
  <2>3. Order(session, e) = "identical_event_replay"
    BY <1>6, <1>7, <2>2 DEF Order
  <2>4. delivered # 0 /\ delivered \in 1..delivered /\ j <= delivered /\ delivered \in DOMAIN records
    BY <1>1, <2>1
  <2>5. /\ e.number <= records[delivered].event.number /\ e.stamp <= records[delivered].event.stamp
    BY <1>1, <1>2, <2>2, <2>4 DEF RecordsInv, RecordsOrdered, InLine
  <2>6. PICK a, b \in Nat : a = records[delivered].event.number /\ b = records[delivered].event.stamp
    BY <1>5, <2>4
  <2>7. PICK c, d \in Nat : c = e.number /\ d = e.stamp
    BY <1>4
  <2>8. a <= c /\ c <= a /\ b <= d /\ d <= b
    BY <1>5, <2>4, <2>5, <2>6, <2>7
  <2>9. a = e.number /\ b = e.stamp
    BY <2>7, <2>8
  <2> QED
    BY <1>3, <2>2, <2>3, <2>4, <2>6, <2>9
<1>8. ASSUME ~KnownBefore(k)
      PROVE  /\ e \notin session.seen /\ e.number > session.number
             /\ EndedBefore(k) => \/ Order(session, e) = "repeated_final"
                                  \/ Order(session, e) = "error" /\ e.text # session.finalText
             /\ ~EndedBefore(k) => Order(session, e) = "none"
  <2>1. \A d \in session.seen : d.id # e.id
    BY <1>6, <1>8
  <2>2. e \notin session.seen
    BY <2>1
  <2>3. e.number > session.number /\ e.stamp >= session.stamp /\ session.number \in Int /\ session.stamp \in Int
    <3>1. CASE delivered = 0
      BY <1>3, <1>4, <3>1
    <3>2. CASE delivered # 0
      <4>1. delivered \in 1..delivered
        BY <1>1, <3>2
      <4>2. records[delivered].event \in session.seen
        BY <1>3, <4>1
      <4>3. PICK a, b \in Nat : a = records[delivered].event.number /\ b = records[delivered].event.stamp
        BY <1>5, <4>1
      <4>4. a <= e.number /\ b <= e.stamp /\ a # e.number
        BY <1>5, <2>2, <4>1, <4>2, <4>3
      <4>5. a < e.number /\ b <= e.stamp
        BY <1>4, <4>4
      <4> QED
        BY <1>3, <1>4, <3>2, <4>3, <4>5
    <3> QED
      BY <3>1, <3>2
  <2>4. ~(e.stamp < session.stamp) /\ ~(e.number <= session.number)
    <3>1. PICK a, b \in Nat : a = e.number /\ b = e.stamp
      BY <1>4
    <3>2. PICK c, d \in Int : c = session.number /\ d = session.stamp
      BY <2>3
    <3>3. a > c /\ b >= d
      BY <2>3, <3>1, <3>2
    <3>4. ~(b < d) /\ ~(a <= c)
      BY <3>3
    <3> QED
      BY <3>1, <3>2, <3>4
  <2>5. session.closed <=> EndedBefore(k)
    BY <1>3, <1>4 DEF EndedBefore
  <2>6. ASSUME EndedBefore(k) PROVE e.final /\ e.mode = session.finalMode
    <3>1. PICK j \in 1..delivered : Ended(j)
      BY <1>4, <2>6 DEF EndedBefore
    <3>2. SaysAgain(k, j)
      BY <1>1, <1>2, <1>4, <3>1 DEF RecordsInv, RecordsMarked, MarkedRight
    <3> QED
      BY <1>3, <3>1, <3>2 DEF SaysAgain
  <2> QED
    BY <2>1, <2>2, <2>3, <2>4, <2>5, <2>6 DEF Order
<1> QED
  BY <1>2, <1>4, <1>7, <1>8, Zenon

\* The next record, to what was said.
LEMMA DeliverSays ==
  ASSUME TranscriptInv, Deliver
  PROVE  /\ \E m \in Int : IsLast(Spoken(delivered'), m) /\ assembled' = SaidUpTo(Spoken(delivered'), m)
         /\ assembled' \in Seq(Fragment)
<1>1. PICK k : k = delivered + 1 /\ delivered' = k
  BY DEF Deliver
<1>2. PICK e : e = records[k].event
  OBVIOUS
<1>3. /\ RecordsInv /\ delivered \in 0..Len(records) /\ delivered \in Nat
      /\ assembled \in Seq(Fragment) /\ session.raised = "no"
  BY DEF TranscriptInv, DeliveryInv, Deliver, RecordsInv, RecordsTyped
<1>4. k \in DOMAIN records /\ e \in Offered
  BY <1>1, <1>2, OrderIs
<1>5. PICK m \in Int : IsLast(Spoken(delivered), m) /\ assembled = SaidUpTo(Spoken(delivered), m)
  BY DEF TranscriptInv, DeliveryInv
<1>6. 1..k = 1..delivered \cup {k}
  BY <1>1, <1>3
<1>7. CASE records[k].mark = "none"
  <2>1. Spoken(k) = Spoken(delivered) \cup {e}
    BY <1>2, <1>6, <1>7 DEF Spoken
  <2>2. ~EndedBefore(k) /\ ~KnownBefore(k)
    BY <1>3, <1>4, <1>7 DEF RecordsInv, RecordsMarked, MarkedRight
  <2>3. e.number > session.number
    BY <1>1, <1>2, <2>2, OrderIs
  <2>4. Numbered(Spoken(delivered)) /\ m <= session.number
    BY <1>3, <1>5, SpokenIs DEF TranscriptInv, DeliveryInv, Following
  <2>5. e.number > m
    <3>1. session.number \in Int
      BY DEF TranscriptInv, DeliveryInv, ControllerFields
    <3>2. PICK a \in Nat : a = e.number
      BY <1>4, EventIs
    <3>3. PICK b \in Int : b = session.number
      BY <3>1
    <3>4. a > b /\ m <= b
      BY <2>3, <2>4, <3>2, <3>3
    <3>5. a > m
      BY <3>4
    <3> QED
      BY <3>2, <3>5
  <2>6. assembled' = Assemble(assembled, e)
    BY <1>1, <1>2, <1>7 DEF Deliver
  <2>7. SaidUpTo(Spoken(delivered) \cup {e}, e.number) = Assemble(SaidUpTo(Spoken(delivered), m), e)
        /\ IsLast(Spoken(delivered) \cup {e}, e.number)
    BY <1>4, <1>5, <2>4, <2>5, NewEvent
  <2>8. assembled' = SaidUpTo(Spoken(k), e.number) /\ IsLast(Spoken(k), e.number)
    BY <1>5, <2>1, <2>6, <2>7, Zenon
  <2>9. e.number \in Int /\ e.text \in Seq(Fragment)
    BY <1>4, EventIs
  <2>10. Assemble(assembled, e) \in Seq(Fragment)
    <3>1. PICK a, b \in Seq(Fragment) : a = assembled /\ b = e.text
      BY <1>3, <2>9
    <3>2. a \o b \in Seq(Fragment)
      OBVIOUS
    <3> QED
      BY <3>1, <3>2, Zenon DEF Assemble
  <2> QED
    BY <1>1, <2>6, <2>8, <2>9, <2>10, Zenon
<1>8. CASE records[k].mark # "none"
  <2>1. Spoken(k) = Spoken(delivered)
    BY <1>6, <1>8 DEF Spoken
  <2>2. assembled' = assembled
    BY <1>1, <1>8 DEF Deliver
  <2> QED
    BY <1>1, <1>3, <1>5, <2>1, <2>2, Zenon
<1> QED
  BY <1>7, <1>8

\* ... and to the controller.
LEMMA DeliverFollows ==
  ASSUME TranscriptInv, Deliver
  PROVE  session' \in ControllerFields /\ Following' /\ Raised'
<1>1. PICK k : k = delivered + 1 /\ delivered' = k
  BY DEF Deliver
<1>2. PICK e : e = records[k].event
  OBVIOUS
<1>3. /\ RecordsInv /\ delivered \in 0..Len(records) /\ delivered \in Nat /\ k \in Nat /\ k # 0
      /\ session \in ControllerFields /\ session.raised = "no" /\ UNCHANGED records
      /\ k - 1 = delivered
  BY <1>1 DEF TranscriptInv, DeliveryInv, Deliver, RecordsInv, RecordsTyped
<1>4. /\ k \in DOMAIN records /\ e \in Offered
      /\ KnownBefore(k) => /\ Order(session, e) = "identical_event_replay"
                           /\ e \in session.seen /\ e.number = session.number /\ e.stamp = session.stamp
      /\ ~KnownBefore(k) => /\ e \notin session.seen /\ e.number > session.number
                            /\ EndedBefore(k) => \/ Order(session, e) = "repeated_final"
                                                 \/ Order(session, e) = "error" /\ e.text # session.finalText
                            /\ ~EndedBefore(k) => Order(session, e) = "none"
  BY <1>1, <1>2, OrderIs
<1>5. /\ e.number \in Nat /\ e.stamp \in Nat /\ e.text \in Seq(Fragment) /\ e.final \in BOOLEAN
      /\ e.mode \in {"incremental", "cumulative"}
  BY <1>4, EventIs
<1>6. /\ session.seen = {records[j].event : j \in 1..delivered}
      /\ session.text = assembled
      /\ session.closed <=> \E j \in 1..delivered : Ended(j)
      /\ \A j \in 1..delivered : Ended(j) => session.finalMode = records[j].event.mode
      /\ session.closed => session.finalText = assembled
      /\ assembled \in Seq(Fragment)
  BY <1>3 DEF TranscriptInv, DeliveryInv, Following, Raised
<1>7. 1..k = 1..delivered \cup {k}
  BY <1>1, <1>3
<1>8. {records[j].event : j \in 1..k} = session.seen \cup {e}
  BY <1>2, <1>6, <1>7
<1>9. session' = Processed(session, records[k])
  BY <1>1 DEF Deliver
<1>10. /\ records[k].mark = IF EndedBefore(k) THEN "repeated_final"
                            ELSE IF KnownBefore(k) THEN "identical_event_replay" ELSE "none"
       /\ EndedBefore(k) <=> session.closed
  BY <1>3, <1>4, <1>6 DEF RecordsInv, RecordsMarked, MarkedRight, EndedBefore
<1>11. \A j : Ended(j)' <=> Ended(j)
  BY <1>3 DEF Ended
<1>12. session.number \in Int /\ session.stamp \in Int
  BY <1>3 DEF ControllerFields
<1>13. CASE records[k].mark # "none"
  <2>1. assembled' = assembled
    BY <1>1, <1>13 DEF Deliver
  <2>2. ~Ended(k)
    BY <1>13 DEF Ended
  <2>3. (\E j \in 1..k : Ended(j)) <=> session.closed
    BY <1>6, <1>7, <2>2
  <2>4. \A j \in 1..k : Ended(j) => session.finalMode = records[j].event.mode
    BY <1>6, <1>7, <2>2
  <2>5. CASE Order(session, e) \in {"identical_event_replay", "repeated_final"}
    <3>1. session' = Skipped(session, e)
      BY <1>2, <1>9, <1>13, <2>5 DEF Processed
    <3>2. session'.number = e.number /\ session'.stamp = e.stamp
      <4>1. CASE KnownBefore(k)
        <5>1. ~(e.number > session.number) /\ e.number = session.number /\ e.stamp = session.stamp
          <6>1. PICK a \in Nat : a = e.number /\ a = session.number
            BY <1>4, <1>5, <4>1
          <6>2. ~(a > a)
            OBVIOUS
          <6> QED
            BY <1>4, <4>1, <6>1, <6>2
        <5> QED
          BY <1>3, <3>1, <5>1 DEF Skipped, ControllerFields
      <4>2. CASE ~KnownBefore(k)
        BY <1>3, <1>4, <3>1, <4>2 DEF Skipped, ControllerFields
      <4> QED
        BY <4>1, <4>2
    <3>3. /\ session'.seen = session.seen \cup {e} /\ session'.closed = session.closed
          /\ session'.text = session.text /\ session'.finalText = session.finalText
          /\ session'.finalMode = session.finalMode /\ session'.raised = "no"
      BY <1>3, <3>1 DEF Skipped, ControllerFields
    <3>4. session' \in ControllerFields
      <4>1. session' = [seen |-> session.seen \cup {e}, number |-> e.number, stamp |-> e.stamp,
                        closed |-> session.closed, finalText |-> session.finalText, finalMode |-> session.finalMode,
                        text |-> session.text, revision |-> session.revision, raised |-> session.raised]
        BY <1>3, <3>1, <3>2 DEF Skipped, ControllerFields
      <4> QED
        BY <1>3, <1>4, <1>5, <4>1 DEF ControllerFields
    <3>5. Following'
      BY <1>1, <1>2, <1>3, <1>6, <1>8, <1>11, <2>1, <2>3, <2>4, <3>2, <3>3 DEF Following
    <3>6. Raised'
      BY <1>6, <2>1, <3>3 DEF Raised
    <3> QED
      BY <3>4, <3>5, <3>6
  <2>6. CASE Order(session, e) = "error"
    <3>1. session' = [session EXCEPT !.raised = "order"]
      BY <1>2, <1>9, <2>6 DEF Processed
    <3>2. /\ session'.seen = session.seen /\ session'.closed = session.closed
          /\ session'.text = session.text /\ session'.finalText = session.finalText
          /\ session'.raised = "order" /\ session' \in ControllerFields
      BY <1>3, <3>1 DEF ControllerFields
    <3>3. ~KnownBefore(k) /\ EndedBefore(k) /\ e.text # session.finalText /\ e \notin session.seen
      BY <1>4, <2>6
    <3>4. Renamed(delivered)' /\ Fragmentary(delivered)'
      BY <1>1, <1>2, <1>3, <1>10, <3>2, <3>3 DEF Renamed, Fragmentary
    <3>5. Following'
      BY <3>2 DEF Following
    <3>6. Raised'
      BY <1>1, <1>3, <1>6, <2>1, <3>2, <3>4 DEF Raised
    <3> QED
      BY <3>2, <3>5, <3>6
  <2>7. Order(session, e) # "none"
    BY <1>4, <1>10, <1>13
  <2> QED
    BY <1>4, <1>10, <1>13, <2>5, <2>6
<1>14. CASE records[k].mark = "none"
  <2>1. ~EndedBefore(k) /\ ~KnownBefore(k) /\ ~session.closed /\ Order(session, e) = "none"
    BY <1>4, <1>10, <1>14
  <2>2. session' = Consumed(session, e)
    BY <1>2, <1>9, <1>14, <2>1 DEF Processed
  <2>3. PICK text : text = Assemble(assembled, e)
    OBVIOUS
  <2>4. assembled' = text /\ text \in Seq(Fragment)
    BY <1>1, <1>2, <1>14, <2>3, DeliverSays DEF Deliver
  <2>5. PICK empty \in BOOLEAN : empty <=> (e.final /\ text = <<>>)
    BY <1>5
  <2>6. session' = [seen |-> session.seen \cup {e}, number |-> e.number, stamp |-> e.stamp,
                    closed |-> (session.closed \/ (e.final /\ ~empty)),
                    finalText |-> IF e.final /\ ~empty THEN text ELSE session.finalText,
                    finalMode |-> IF e.final /\ ~empty THEN e.mode ELSE session.finalMode,
                    text |-> text, revision |-> session.revision + 1,
                    raised |-> IF empty THEN "empty" ELSE session.raised]
    BY <1>3, <1>6, <2>2, <2>3, <2>5 DEF Consumed, ControllerFields
  <2>7. session' \in ControllerFields
    BY <1>3, <1>4, <1>5, <2>4, <2>6, SMTT(30) DEF ControllerFields
  <2>8. /\ session'.seen = session.seen \cup {e} /\ session'.text = text
        /\ session'.number = e.number /\ session'.stamp = e.stamp
        /\ session'.closed <=> (e.final /\ ~empty)
        /\ e.final /\ ~empty => session'.finalText = text /\ session'.finalMode = e.mode
        /\ session'.raised = IF empty THEN "empty" ELSE "no"
    BY <1>3, <2>1, <2>6
  <2>9. Ended(k) <=> e.final
    BY <1>2, <1>14 DEF Ended
  <2>10. \A j \in 1..delivered : ~Ended(j)
    BY <1>6, <2>1
  <2>11. Following'
    <3> SUFFICES ASSUME ~empty PROVE Following'
      BY <2>8 DEF Following
    <3>1. (\E j \in 1..k : Ended(j)) <=> e.final
      BY <1>7, <2>9, <2>10
    <3>2. \A j \in 1..k : Ended(j) => session'.finalMode = records[j].event.mode
      BY <1>2, <1>7, <2>8, <2>9, <2>10
    <3>3. session'.closed <=> \E j \in 1..k : Ended(j)
      BY <2>8, <3>1
    <3> QED
      BY <1>1, <1>2, <1>3, <1>8, <1>11, <2>4, <2>8, <3>2, <3>3 DEF Following
  <2>12. Raised'
    BY <2>4, <2>5, <2>8 DEF Raised
  <2> QED
    BY <2>7, <2>11, <2>12
<1> QED
  BY <1>13, <1>14

\* A delivery keeps the invariant.
LEMMA DeliverKeepsInv ==
  ASSUME TranscriptInv, Deliver
  PROVE  TranscriptInv'
<1>1. /\ UNCHANGED <<records, verdict>> /\ delivered' = delivered + 1 /\ delivered < Len(records)
      /\ verdict = "accepted"
  BY DEF Deliver
<1>2. RecordsInv'
  BY <1>1 DEF TranscriptInv, RecordsInv, RecordsTyped, RecordsOrdered, RecordsMarked, InLine,
              MarkedRight, EndedBefore, Ended, KnownBefore, SaysAgain
<1>3. delivered' \in 0..Len(records')
  BY <1>1 DEF TranscriptInv, DeliveryInv, RecordsInv, RecordsTyped
<1>4. Finals' # {}
  BY <1>1 DEF TranscriptInv, DeliveryInv, Finals, Kept
<1>5. session' \in ControllerFields /\ Following' /\ Raised'
  BY DeliverFollows
<1>6. PICK n \in Int : IsLast(Spoken(delivered'), n) /\ assembled' = SaidUpTo(Spoken(delivered'), n)
  BY DeliverSays
<1>7. Spoken(delivered)' = Spoken(delivered')
  BY <1>1 DEF Spoken
<1>8. (\E m \in Int : IsLast(Spoken(delivered), m) /\ assembled = SaidUpTo(Spoken(delivered), m))'
  BY <1>6, <1>7
<1>9. assembled' \in Seq(Fragment)
  BY DeliverSays
<1>10. verdict' = "accepted"
  BY <1>1
<1> QED
  BY <1>2, <1>3, <1>4, <1>5, <1>8, <1>9, <1>10, Zenon DEF TranscriptInv, DeliveryInv

\* Every step of the replay keeps the invariant.
LEMMA TranscriptStepKeepsInv ==
  ASSUME TranscriptInv, [TranscriptNext]_transcriptVars
  PROVE  TranscriptInv'
<1>1. CASE UNCHANGED transcriptVars
  <2>1. RecordsInv'
    BY <1>1 DEF transcriptVars, TranscriptInv, RecordsInv, RecordsTyped, RecordsOrdered, RecordsMarked,
                InLine, MarkedRight, EndedBefore, Ended, KnownBefore, SaysAgain
  <2>2. Following' /\ Raised'
    BY <1>1 DEF transcriptVars, TranscriptInv, DeliveryInv, Following, Raised, Ended, Renamed, Fragmentary
  <2>3. Spoken(delivered)' = Spoken(delivered) /\ Finals' = Finals
    BY <1>1 DEF transcriptVars, Spoken, Finals, Kept
  <2>4. PICK n \in Int : IsLast(Spoken(delivered), n) /\ assembled = SaidUpTo(Spoken(delivered), n)
    BY DEF TranscriptInv, DeliveryInv
  <2>5. (\E m \in Int : IsLast(Spoken(delivered), m) /\ assembled = SaidUpTo(Spoken(delivered), m))'
    BY <1>1, <2>3, <2>4 DEF transcriptVars
  <2>6. /\ session' \in ControllerFields /\ assembled' \in Seq(Fragment)
        /\ verdict' \in {"reading", "refused", "accepted"} /\ delivered' \in 0..Len(records')
        /\ verdict' # "accepted" => delivered' = 0 /\ session'.raised = "no"
        /\ verdict' = "accepted" => Finals' # {}
    BY <1>1, <2>3 DEF transcriptVars, TranscriptInv, DeliveryInv
  <2> QED
    BY <2>1, <2>2, <2>5, <2>6 DEF TranscriptInv, DeliveryInv
<1> QED
  BY <1>1, ReadKeepsInv, ListEndsKeepsInv, DeliverKeepsInv DEF TranscriptNext

\* The least element of a set is its Min.
LEMMA MinIs ==
  ASSUME NEW S, NEW m \in S, S \subseteq Int, \A y \in S : m <= y
  PROVE  Min(S) = m
<1>1. PICK x : x = Min(S)
  OBVIOUS
<1>2. x \in S /\ \A y \in S : x <= y
  BY <1>1 DEF Min
<1>3. x <= m /\ m <= x /\ x \in Int /\ m \in Int
  BY <1>2
<1> QED
  BY <1>1, <1>3

\* When all is delivered, what was assembled is what the events say.
LEMMA AllIsSaid ==
  ASSUME TranscriptInv, verdict = "accepted", delivered = Len(records)
  PROVE  assembled = Said({records[k].event : k \in DOMAIN records})
<1>1. PICK n : n = Len(records)
  OBVIOUS
<1>2. /\ RecordsInv /\ n \in Nat /\ DOMAIN records = 1..n
  BY <1>1 DEF TranscriptInv, RecordsInv, RecordsTyped
<1>3. PICK all : all = {records[k].event : k \in 1..n}
  OBVIOUS
<1>4. \A k \in 1..n : /\ records[k].event \in Offered /\ records[k].mark \in Marks
                      /\ records[k].event.number \in Nat
  BY <1>2, RecordIs
<1>5. PICK end \in 1..n : Ended(end)
  BY <1>2 DEF TranscriptInv, DeliveryInv, Finals, Kept, Ended
<1>6. PICK last \in Nat : last = records[end].event.number
  BY <1>4
<1>7. \A j, k \in 1..n : /\ j <= k => records[j].event.number <= records[k].event.number
                         /\ records[j].event.number = records[k].event.number => records[j].event = records[k].event
  BY <1>2 DEF RecordsInv, RecordsOrdered, InLine
<1>8. \A k \in 1..n : MarkedRight(k)
  BY <1>2 DEF RecordsInv, RecordsMarked
<1>9. ASSUME NEW k \in 1..n, k < end
      PROVE  /\ ~records[k].event.final
             /\ \E j \in 1..n : j <= k /\ records[j].mark = "none" /\ records[j].event = records[k].event
  <2>1. ~EndedBefore(end)
    BY <1>5, <1>8 DEF Ended, MarkedRight
  <2>2. \A j \in 1..k : ~Ended(j)
    BY <1>9, <2>1 DEF EndedBefore
  <2>3. ~EndedBefore(k)
    BY <1>9, <2>1 DEF EndedBefore
  <2>4. CASE records[k].mark = "none"
    BY <2>2, <2>4 DEF Ended
  <2>5. CASE records[k].mark # "none"
    <3>1. records[k].mark = "identical_event_replay"
      BY <1>8, <2>3, <2>5 DEF MarkedRight
    <3>2. PICK j \in 1..(k - 1) : records[j].mark = "none" /\ records[j].event = records[k].event
      BY <1>8, <3>1 DEF MarkedRight
    <3>3. ~Ended(j) /\ j \in 1..n /\ j <= k
      BY <1>2, <2>2, <3>2
    <3> QED
      BY <3>2, <3>3 DEF Ended
  <2> QED
    BY <2>4, <2>5
<1>10. ASSUME NEW k \in 1..n, k > end PROVE records[k].mark # "none"
  BY <1>5, <1>8, <1>10 DEF MarkedRight, EndedBefore
<1>11. ASSUME NEW k \in 1..n, records[k].event.final PROVE last <= records[k].event.number
  <2>1. end <= k
    BY <1>9, <1>11
  <2> QED
    BY <1>6, <1>7, <2>1
<1>12. Min({e.number : e \in {d \in all : d.final}}) = last
  <2>1. PICK S : S = {e.number : e \in {d \in all : d.final}}
    OBVIOUS
  <2>2. last \in S
    <3>1. records[end].event \in all /\ records[end].event.final
      BY <1>3, <1>5 DEF Ended
    <3> QED
      BY <1>6, <2>1, <3>1
  <2>3. \A y \in S : y \in Nat /\ last <= y
    BY <1>3, <1>4, <1>11, <2>1
  <2>4. S \subseteq Int
    BY <2>3
  <2> QED
    BY <2>1, <2>2, <2>3, <2>4, MinIs
<1>13. {e \in all : e.number <= last} = Spoken(n)
  <2>1. ASSUME NEW e \in all, e.number <= last PROVE e \in Spoken(n)
    <3>1. PICK k \in 1..n : e = records[k].event
      BY <1>3
    <3>2. CASE k < end
      BY <1>9, <3>1, <3>2 DEF Spoken
    <3>3. CASE ~(k < end)
      <4>1. PICK a \in Nat : a = e.number
        BY <1>4, <3>1
      <4>2. last <= a /\ a <= last
        BY <1>6, <1>7, <2>1, <3>1, <3>3, <4>1
      <4>3. e.number = records[end].event.number
        BY <1>6, <4>1, <4>2
      <4>4. e = records[end].event
        BY <1>7, <3>1, <4>3
      <4> QED
        BY <1>5, <4>4 DEF Ended, Spoken
    <3> QED
      BY <3>2, <3>3
  <2>2. ASSUME NEW e \in Spoken(n) PROVE e \in all /\ e.number <= last
    <3>1. PICK k \in 1..n : e = records[k].event /\ records[k].mark = "none"
      BY DEF Spoken
    <3>2. k <= end
      BY <1>10, <3>1
    <3> QED
      BY <1>3, <1>6, <1>7, <3>1, <3>2
  <2> QED
    BY <2>1, <2>2
<1>14. PICK m \in Int : IsLast(Spoken(n), m) /\ assembled = SaidUpTo(Spoken(n), m)
  BY <1>1 DEF TranscriptInv, DeliveryInv
<1>15. m = last
  <2>1. records[end].event \in Spoken(n)
    BY <1>5 DEF Ended, Spoken
  <2>2. last <= m /\ m \in {e.number : e \in Spoken(n)}
    BY <1>6, <1>14, <2>1 DEF IsLast
  <2>3. m <= last
    BY <1>13, <2>2
  <2> QED
    BY <2>2, <2>3
<1> QED
  BY <1>2, <1>3, <1>12, <1>13, <1>14, <1>15 DEF Said

\* The invariant says that the replay is faithful.
LEMMA TranscriptInvImplies == TranscriptInv => ReplayIsFaithful
<1> SUFFICES ASSUME TranscriptInv, verdict = "accepted" PROVE ReplayIsFaithful
  BY DEF ReplayIsFaithful
<1>1. session.raised = "no" => session.text = assembled
  BY DEF TranscriptInv, DeliveryInv, Following
<1> QED
  BY <1>1, AllIsSaid DEF TranscriptInv, DeliveryInv, Raised, ReplayIsFaithful

-----------------------------------------------------------------------------
(* The transcript of a replayed request.                                   *)

\* Only the replay touches the transcript, and it is as at first when it is heard.
LEMMA AnsweringKeepsTranscript ==
  ASSUME TranscriptInv, [AnsweringNext]_answeringVars
  PROVE  TranscriptInv'
<1>1. CASE Listen
  BY <1>1, TranscriptStepKeepsInv DEF Listen
<1>2. CASE Heard
  BY <1>2, TranscriptStartsAgain DEF Heard, TranscriptInit
<1>3. CASE \/ Index \/ Indexed \/ Store \/ Stored \/ Search \/ HandedOver
           \/ Generate \/ Remembered \/ Remember \/ UNCHANGED answeringVars
  <2>1. UNCHANGED transcriptVars
    BY <1>3 DEF Index, Indexed, Store, Stored, Search, HandedOver, Generate, Remembered,
                Remember, answeringVars
  <2> QED
    BY <2>1, TranscriptStepKeepsInv
<1> QED
  BY <1>1, <1>2, <1>3 DEF AnsweringNext

\* Whatever events a source lists, in whatever order and number of copies, an
\* accepted replay yields what its events say, in the baseline and in the
\* controller alike; the controller refuses only an empty query and a final
\* repeated under a new ID whose text is a fragment.
THEOREM ReplayAlwaysFaithful == AnsweringSpec => []ReplayIsFaithful
<1>1. AnsweringInit => TranscriptInv
  BY TranscriptStarts DEF AnsweringInit
<1>2. TranscriptInv /\ [AnsweringNext]_answeringVars => TranscriptInv'
  BY AnsweringKeepsTranscript
<1>3. TranscriptInv => ReplayIsFaithful
  BY TranscriptInvImplies
<1> QED
  BY <1>1, <1>2, <1>3, PTL DEF AnsweringSpec

(* Evidence.                                                               *)

\* Nothing is selected twice, and what is selected covers its owners.
SelectionHolds ==
  /\ selected \in Seq(Chunk)
  /\ \A j, k \in DOMAIN selected : selected[j] = selected[k] => j = k
  /\ \A k \in DOMAIN selected : Owners(selected[k]) \subseteq covered
  /\ Len(selected) <= TopK
  /\ used \in Nat /\ used <= budget /\ used = SumFunctionOnSet(Cost, ToSet(selected))

\* Before an intent has had its turn, those before it took one passage each at
\* most, and no more than their share.
SharesKept ==
  /\ turn = 0 => selected = <<>>
  /\ turn \in 1..(Intents + 1) => Len(selected) <= turn - 1
  /\ AmpleShare => used * Intents <= Len(selected) * budget

\* What an intent that was passed over does not get.
PassedOver ==
  \A i \in Intent :
    turn > i /\ hits[i] # <<>> /\ i \notin covered =>
      ~AmpleShare /\ \A k \in DOMAIN hits[i] : ~Fits(hits[i][k])

AssemblyInv ==
  /\ budget \in Nat \ {0} /\ turn \in Nat
  /\ hits \in Seq(Seq(Chunk))
  /\ IF turn = 0 THEN Len(hits) < Intents ELSE Len(hits) = Intents
  /\ SelectionHolds /\ SharesKept /\ PassedOver

-----------------------------------------------------------------------------
(* Sums and products.                                                      *)

One(t) == CHOOSE x \in t : TRUE
SumStep(f, sum, t) == IF t = {} THEN 0 ELSE f[One(t)] + sum[t \ {One(t)}]
ProductStep(f, product, t) == IF t = {} THEN 1 ELSE f[One(t)] * product[t \ {One(t)}]
SumR == INSTANCE Recursion WITH Value <- SumStep
ProductR == INSTANCE Recursion WITH Value <- ProductStep

\* A set without one of its elements.
LEMMA OneLess ==
  ASSUME NEW A, IsFiniteSet(A), NEW t \in SUBSET A
  PROVE  /\ IsFiniteSet(t) /\ Cardinality(t) \in Nat /\ Cardinality(t) <= Cardinality(A)
         /\ t # {} => One(t) \in t
         /\ \A x \in t : t \ {x} \in SUBSET A /\ Cardinality(t \ {x}) = Cardinality(t) - 1
<1>1. IsFiniteSet(t) /\ Cardinality(t) \in Nat /\ Cardinality(t) <= Cardinality(A)
  BY FS_Subset, FS_CardinalityType
<1>2. t # {} => One(t) \in t
  BY DEF One
<1>3. \A x \in t : Cardinality(t \ {x}) = Cardinality(t) - 1
  BY <1>1, FS_RemoveElement
<1> QED
  BY <1>1, <1>2, <1>3

\* Sums over the subsets of a set are numbers and grow by what is added.
LEMMA SumRuns ==
  ASSUME NEW f, NEW A, IsFiniteSet(A), \A x \in A : f[x] \in Int
  PROVE  \E sum : /\ sum = SumR!Chosen(f, SUBSET A) /\ sum[{}] = 0
                  /\ \A t \in SUBSET A : sum[t] \in Int
                  /\ \A t \in SUBSET A : \A x \in A \ t : sum[t \cup {x}] = f[x] + sum[t]
<1> DEFINE D == SUBSET A
<1>1. PICK size : size = [t \in D |-> Cardinality(t)]
  OBVIOUS
<1>2. PICK n \in Nat : n = Cardinality(A) + 1
  BY FS_CardinalityType
<1>3. size \in [D -> Nat] /\ \A t \in D : size[t] < n
  <2>1. \A t \in D : Cardinality(t) \in Nat /\ Cardinality(t) < n
    <3>1. Cardinality(A) \in Nat
      BY FS_CardinalityType
    <3> QED
      BY <1>2, <3>1, OneLess
  <2> QED
    BY <1>1, <2>1
<1>4. SumR!LooksDown(f, D, size)
  <2> SUFFICES ASSUME NEW g, NEW h, NEW t \in D, \A u \in D : size[u] < size[t] => g[u] = h[u]
               PROVE  SumStep(f, g, t) = SumStep(f, h, t)
    BY DEF SumR!LooksDown
  <2>1. CASE t = {}
    BY <2>1 DEF SumStep
  <2>2. CASE t # {}
    <3>1. PICK u : u = t \ {One(t)}
      OBVIOUS
    <3>2. u \in D /\ Cardinality(u) = Cardinality(t) - 1 /\ Cardinality(t) \in Nat
      BY <2>2, <3>1, OneLess
    <3>3. PICK a, b \in Int : a = Cardinality(u) /\ b = Cardinality(t) /\ a < b
      BY <3>2
    <3>4. size[u] = a /\ size[t] = b
      BY <1>1, <3>2, <3>3
    <3>5. g[u] = h[u]
      BY <3>2, <3>3, <3>4
    <3> QED
      BY <2>2, <3>1, <3>5 DEF SumStep
  <2> QED
    BY <2>1, <2>2
<1>5. \E g : g = [t \in D |-> SumStep(f, g, t)]
  <2> HIDE DEF D
  <2> QED
    BY <1>3, <1>4, SumR!ExistsBySize
<1>6. PICK sum : sum = SumR!Chosen(f, D)
  OBVIOUS
<1>7. \A t \in D : sum[t] = SumStep(f, sum, t)
  <2> HIDE DEF D
  <2> QED
    BY <1>5, <1>6, SumR!ChosenIs
<1>8. {} \in D /\ sum[{}] = 0
  BY <1>7 DEF SumStep
<1>9. \A t \in D : Cardinality(t) \in Nat /\ IsFiniteSet(t) /\ (t = {} <=> Cardinality(t) = 0)
  BY OneLess, FS_EmptySet
<1> DEFINE Number(m) == \A t \in D : Cardinality(t) = m => sum[t] \in Int
           N == {m \in Nat : Number(m)}
<1>10. \A t \in D : sum[t] \in Int
  <2>1. Number(0)
    BY <1>8, <1>9
  <2>2. ASSUME NEW m \in Nat, Number(m) PROVE Number(m + 1)
    <3> SUFFICES ASSUME NEW t \in D, Cardinality(t) = m + 1 PROVE sum[t] \in Int
      OBVIOUS
    <3>1. m + 1 # 0 /\ m + 1 - 1 = m
      OBVIOUS
    <3>2. t # {}
      BY <1>9, <3>1
    <3>3. PICK y, u : y = One(t) /\ u = t \ {y}
      OBVIOUS
    <3>0. y \in t
      BY <3>2, <3>3, OneLess
    <3>4. u \in D /\ Cardinality(u) = m
      <4>1. u \in D /\ Cardinality(u) = Cardinality(t) - 1
        BY <3>0, <3>3, OneLess, Zenon
      <4> QED
        BY <3>1, <4>1
    <3>5. sum[t] = f[y] + sum[u]
      BY <1>7, <3>2, <3>3 DEF SumStep
    <3>6. PICK a, b \in Int : a = f[y] /\ b = sum[u]
      <4>1. f[y] \in Int
        BY <3>0
      <4>2. sum[u] \in Int
        BY <2>2, <3>4, Zenon
      <4> QED
        BY <4>1, <4>2
    <3> QED
      BY <3>5, <3>6
  <2>3. Nat \subseteq N
    <3>1. 0 \in N /\ \A m \in Nat : m \in N => m + 1 \in N
      BY <2>1, <2>2
    <3> HIDE DEF N
    <3> QED
      BY <3>1, SumR!NumberInduction
  <2> QED
    BY <1>9, <2>3
<1> HIDE DEF Number, N
<1> DEFINE Grows(m) == \A t \in D : Cardinality(t) = m => \A x \in t : sum[t] = f[x] + sum[t \ {x}]
           G == {m \in Nat : Grows(m)}
<1>11. Grows(0)
  BY <1>9
<1>12. ASSUME NEW m \in Nat, Grows(m) PROVE Grows(m + 1)
  <2> SUFFICES ASSUME NEW t \in D, Cardinality(t) = m + 1, NEW x \in t PROVE sum[t] = f[x] + sum[t \ {x}]
    OBVIOUS
  <2>1. m + 1 - 1 = m
    OBVIOUS
  <2>2. PICK y, u, v : y = One(t) /\ u = t \ {y} /\ v = t \ {x}
    OBVIOUS
  <2>3. y \in t /\ u \in D /\ v \in D /\ Cardinality(u) = m /\ Cardinality(v) = m
    BY <2>1, <2>2, OneLess
  <2>4. sum[t] = f[y] + sum[u]
    BY <1>7, <2>2 DEF SumStep
  <2>5. CASE x = y
    BY <2>2, <2>4, <2>5
  <2>6. CASE x # y
    <3>1. PICK s : s = u \ {x}
      OBVIOUS
    <3>2. s = v \ {y} /\ s \in D /\ x \in u /\ y \in v
      BY <2>2, <2>3, <2>6, <3>1
    <3>3. sum[u] = f[x] + sum[s] /\ sum[v] = f[y] + sum[s]
      BY <1>12, <2>3, <3>1, <3>2
    <3>4. PICK a, b, c \in Int : a = f[x] /\ b = f[y] /\ c = sum[s]
      BY <1>10, <2>3, <3>2
    <3>5. b + (a + c) = a + (b + c)
      OBVIOUS
    <3>6. sum[t] = b + (a + c) /\ f[x] + sum[v] = a + (b + c)
      BY <2>4, <3>3, <3>4, Zenon
    <3> QED
      BY <2>2, <3>5, <3>6, Zenon
  <2> QED
    BY <2>5, <2>6
<1>13. \A t \in D : \A x \in t : sum[t] = f[x] + sum[t \ {x}]
  <2>1. 0 \in G /\ \A m \in Nat : m \in G => m + 1 \in G
    <3> HIDE DEF Grows
    <3> QED
      BY <1>11, <1>12
  <2>2. Nat \subseteq G
    <3> HIDE DEF G
    <3> QED
      BY <2>1, SumR!NumberInduction
  <2>3. \A m \in Nat : Grows(m)
    <3> HIDE DEF Grows
    <3> QED
      BY <2>2
  <2>4. ASSUME NEW t \in D PROVE \A x \in t : sum[t] = f[x] + sum[t \ {x}]
    <3>1. Grows(Cardinality(t))
      <4>1. Cardinality(t) \in Nat
        BY <1>9
      <4> HIDE DEF Grows
      <4> QED
        BY <2>3, <4>1
    <3> QED
      BY <3>1, Zenon
  <2> QED
    BY <2>4, Zenon
<1> HIDE DEF Grows, G
<1>14. ASSUME NEW t \in D, NEW x \in A, x \notin t PROVE sum[t \cup {x}] = f[x] + sum[t]
  <2>1. t \cup {x} \in D /\ x \in t \cup {x} /\ (t \cup {x}) \ {x} = t
    BY <1>14
  <2> QED
    BY <1>13, <2>1
<1>15. \A t \in D : \A x \in A \ t : sum[t \cup {x}] = f[x] + sum[t]
  <2>1. \A t \in D : \A x \in A : x \notin t => sum[t \cup {x}] = f[x] + sum[t]
    <3> HIDE DEF D
    <3> QED
      BY <1>14
  <2> QED
    BY <2>1, Zenon
<1> QED
  BY <1>6, <1>8, <1>10, <1>15, Zenon

\* Products over a set are numbers.
LEMMA ProductRuns ==
  ASSUME NEW f, NEW A, IsFiniteSet(A), \A x \in A : f[x] \in Int
  PROVE  ProductR!Chosen(f, SUBSET A)[A] \in Int
<1> DEFINE D == SUBSET A
<1>1. PICK size : size = [t \in D |-> Cardinality(t)]
  OBVIOUS
<1>2. PICK n \in Nat : n = Cardinality(A) + 1
  BY FS_CardinalityType
<1>3. size \in [D -> Nat] /\ \A t \in D : size[t] < n
  <2>1. \A t \in D : Cardinality(t) \in Nat /\ Cardinality(t) < n
    <3>1. Cardinality(A) \in Nat
      BY FS_CardinalityType
    <3> QED
      BY <1>2, <3>1, OneLess
  <2> QED
    BY <1>1, <2>1
<1>4. ProductR!LooksDown(f, D, size)
  <2> SUFFICES ASSUME NEW g, NEW h, NEW t \in D, \A u \in D : size[u] < size[t] => g[u] = h[u]
               PROVE  ProductStep(f, g, t) = ProductStep(f, h, t)
    BY DEF ProductR!LooksDown
  <2>1. CASE t = {}
    BY <2>1 DEF ProductStep
  <2>2. CASE t # {}
    <3>1. PICK u : u = t \ {One(t)}
      OBVIOUS
    <3>2. u \in D /\ Cardinality(u) = Cardinality(t) - 1 /\ Cardinality(t) \in Nat
      BY <2>2, <3>1, OneLess
    <3>3. PICK a, b \in Int : a = Cardinality(u) /\ b = Cardinality(t) /\ a < b
      BY <3>2
    <3>4. size[u] = a /\ size[t] = b
      BY <1>1, <3>2, <3>3
    <3>5. g[u] = h[u]
      BY <3>2, <3>3, <3>4
    <3> QED
      BY <2>2, <3>1, <3>5 DEF ProductStep
  <2> QED
    BY <2>1, <2>2
<1>5. \E g : g = [t \in D |-> ProductStep(f, g, t)]
  <2> HIDE DEF D
  <2> QED
    BY <1>3, <1>4, ProductR!ExistsBySize
<1>6. PICK product : product = ProductR!Chosen(f, D)
  OBVIOUS
<1>7. \A t \in D : product[t] = ProductStep(f, product, t)
  <2> HIDE DEF D
  <2> QED
    BY <1>5, <1>6, ProductR!ChosenIs
<1> DEFINE Number(m) == \A t \in D : Cardinality(t) = m => product[t] \in Int
           N == {m \in Nat : Number(m)}
<1>8. \A t \in D : Cardinality(t) \in Nat /\ IsFiniteSet(t) /\ (t = {} <=> Cardinality(t) = 0)
  BY OneLess, FS_EmptySet
<1>9. Number(0)
  <2>1. ASSUME NEW t \in D, t = {} PROVE product[t] \in Int
    <3>1. product[t] = ProductStep(f, product, t)
      BY <1>7, Zenon
    <3>2. ProductStep(f, product, t) = 1
      BY <2>1 DEF ProductStep
    <3> QED
      BY <3>1, <3>2
  <2> QED
    BY <1>8, <2>1
<1>10. ASSUME NEW m \in Nat, Number(m) PROVE Number(m + 1)
  <2> SUFFICES ASSUME NEW t \in D, Cardinality(t) = m + 1 PROVE product[t] \in Int
    OBVIOUS
  <2>1. m + 1 # 0 /\ m + 1 - 1 = m
    OBVIOUS
  <2>2. t # {}
    BY <1>8, <2>1
  <2>3. PICK y, u : y = One(t) /\ u = t \ {y}
    OBVIOUS
  <2>4. y \in t
    BY <2>2, <2>3, OneLess
  <2>5. u \in D /\ Cardinality(u) = m
    <3>1. u \in D /\ Cardinality(u) = Cardinality(t) - 1
      BY <2>3, <2>4, OneLess, Zenon
    <3> QED
      BY <2>1, <3>1
  <2>6. product[t] = f[y] * product[u]
    BY <1>7, <2>2, <2>3 DEF ProductStep
  <2>7. f[y] \in Int
    BY <2>4
  <2>8. product[u] \in Int
    BY <1>10, <2>5, Zenon
  <2>9. PICK a, b \in Int : a = f[y] /\ b = product[u]
    BY <2>7, <2>8
  <2>10. a * b \in Int
    OBVIOUS
  <2> QED
    BY <2>6, <2>9, <2>10
<1>11. Nat \subseteq N
  <2>1. 0 \in N /\ \A m \in Nat : m \in N => m + 1 \in N
    <3> HIDE DEF Number
    <3> QED
      BY <1>9, <1>10
  <2> HIDE DEF N
  <2> QED
    BY <2>1, ProductR!NumberInduction
<1>12. Number(Cardinality(A)) /\ A \in D
  <2>1. A \in D
    OBVIOUS
  <2>2. Cardinality(A) \in Nat
    BY <1>8, <2>1
  <2> HIDE DEF Number
  <2> QED
    BY <1>11, <2>1, <2>2
<1> QED
  BY <1>6, <1>12, Zenon

\* What a sum over a set is.
LEMMA SumIs ==
  ASSUME NEW f, NEW S
  PROVE  SumFunctionOnSet(f, S) = SumR!Chosen(f, SUBSET S)[S]
  BY DEF SumFunctionOnSet, FoldFunctionOnSet, MapThenFoldSet, SumR!Chosen, SumStep, One

\* A sum over nothing is zero.
LEMMA SumOfNone ==
  ASSUME NEW f
  PROVE  SumFunctionOnSet(f, {}) = 0
<1>1. PICK none : none = {}
  OBVIOUS
<1>2. IsFiniteSet(none) /\ \A x \in none : f[x] \in Int
  BY <1>1, FS_EmptySet
<1>3. PICK sum : sum = SumR!Chosen(f, SUBSET none) /\ sum[{}] = 0
  BY <1>2, SumRuns
<1>4. SumFunctionOnSet(f, none) = sum[none]
  BY <1>3, SumIs
<1> QED
  BY <1>1, <1>3, <1>4

\* Sums over finite sets are numbers and grow by what is added.
LEMMA SumGrows ==
  ASSUME NEW f, NEW S, IsFiniteSet(S), NEW y, y \notin S, \A x \in S \cup {y} : f[x] \in Int
  PROVE  /\ SumFunctionOnSet(f, S) \in Int
         /\ SumFunctionOnSet(f, S \cup {y}) = SumFunctionOnSet(f, S) + f[y]
         /\ SumFunctionOnSet(f, {}) = 0
<1>1. PICK T : T = S \cup {y}
  OBVIOUS
<1>2. IsFiniteSet(T) /\ S \in SUBSET T /\ {} \in SUBSET S /\ y \in T
  BY <1>1, FS_AddElement
<1>3. PICK small : /\ small = SumR!Chosen(f, SUBSET S) /\ small[{}] = 0
                   /\ \A t \in SUBSET S : small[t] \in Int
                   /\ \A t \in SUBSET S : \A x \in S \ t : small[t \cup {x}] = f[x] + small[t]
  BY SumRuns
<1>4. PICK large : /\ large = SumR!Chosen(f, SUBSET T) /\ large[{}] = 0
                   /\ \A t \in SUBSET T : large[t] \in Int
                   /\ \A t \in SUBSET T : \A x \in T \ t : large[t \cup {x}] = f[x] + large[t]
  <2>1. \A x \in T : f[x] \in Int
    BY <1>1
  <2> QED
    BY <1>2, <2>1, SumRuns
<1> DEFINE F == {t \in SUBSET S : small[t] = large[t]}
<1>5. \A t \in SUBSET S : t \in F
  <2>1. {} \in F
    BY <1>3, <1>4
  <2>2. ASSUME NEW t \in SUBSET S, NEW x \in S \ t, t \in F PROVE t \cup {x} \in F
    <3>1. small[t \cup {x}] = f[x] + small[t]
      BY <1>3, <2>2
    <3>2. large[t \cup {x}] = f[x] + large[t]
      <4>1. t \in SUBSET T /\ x \in T \ t
        BY <1>1, <2>2
      <4> QED
        BY <1>4, <4>1
    <3>3. small[t] = large[t] /\ t \cup {x} \in SUBSET S
      BY <2>2
    <3> QED
      BY <3>1, <3>2, <3>3
  <2>3. SumR!IsFiniteSet(S)
    BY DEF IsFiniteSet, SumR!IsFiniteSet
  <2> HIDE DEF F
  <2> QED
    BY <2>1, <2>2, <2>3, SumR!SubsetInduction
<1>6. small[S] = large[S]
  BY <1>5
<1>7. large[T] = f[y] + large[S]
  <2>1. S \in SUBSET T /\ y \in T \ S
    BY <1>1
  <2>2. large[S \cup {y}] = f[y] + large[S]
    BY <1>4, <2>1
  <2> QED
    BY <1>1, <2>2
<1>8. SumFunctionOnSet(f, S) = small[S] /\ small[S] \in Int
  BY <1>3, SumIs
<1>9. SumFunctionOnSet(f, T) = large[T]
  BY <1>4, SumIs
<1>10. SumFunctionOnSet(f, {}) = 0
  BY SumOfNone
<1>11. PICK a, b \in Int : a = f[y] /\ b = large[S]
  <2>1. f[y] \in Int /\ large[S] \in Int
    BY <1>1, <1>2, <1>4
  <2> QED
    BY <2>1
<1>12. a + b = b + a
  OBVIOUS
<1> QED
  BY <1>1, <1>6, <1>7, <1>8, <1>9, <1>10, <1>11, <1>12, Zenon

\* The sum of a function of numbers is a number.
LEMMA SumIsNumber ==
  ASSUME NEW S, IsFiniteSet(S), NEW f, DOMAIN f = S, \A x \in S : f[x] \in Int
  PROVE  SumFunction(f) \in Int
<1>1. PICK sum : sum = SumR!Chosen(f, SUBSET S) /\ \A t \in SUBSET S : sum[t] \in Int
  BY SumRuns
<1>2. SumFunctionOnSet(f, S) = sum[S]
  BY <1>1, SumIs
<1>3. SumFunction(f) = SumFunctionOnSet(f, S)
  BY Zenon DEF SumFunction
<1>4. S \in SUBSET S
  OBVIOUS
<1> QED
  BY <1>1, <1>2, <1>3, <1>4, Zenon

-----------------------------------------------------------------------------
(* Places.                                                                 *)

\* before[c]: what precedes c.
Precedence(S, before) ==
  /\ \A c \in S : before[c] \subseteq S /\ c \notin before[c]
  /\ \A c, d \in S : d \in before[c] => before[d] \subseteq before[c]
  /\ \A c, d \in S : c # d => c \in before[d] \/ d \in before[c]

\* Where what precedes what is told by sets, each member has a place of its own.
LEMMA Placed ==
  ASSUME NEW S, IsFiniteSet(S), NEW before, Precedence(S, before),
         NEW place, place = [c \in S |-> 1 + Cardinality(before[c])]
  PROVE  /\ \A c \in S : place[c] \in 1..Cardinality(S)
         /\ \A c, d \in S : place[c] = place[d] => c = d
         /\ \A k \in 1..Cardinality(S) : \E c \in S : place[c] = k
<1> USE DEF Precedence
<1>1. PICK n \in Nat : n = Cardinality(S)
  BY FS_CardinalityType
<1>2. \A c \in S : /\ IsFiniteSet(before[c]) /\ Cardinality(before[c]) \in Nat
                   /\ place[c] = 1 + Cardinality(before[c])
  BY FS_Subset, FS_CardinalityType
<1>3. \A c \in S : place[c] \in 1..n
  <2> SUFFICES ASSUME NEW c \in S PROVE place[c] \in 1..n
    OBVIOUS
  <2>1. IsFiniteSet(S \ {c}) /\ Cardinality(S \ {c}) = n - 1
    BY <1>1, FS_RemoveElement
  <2>2. before[c] \in SUBSET (S \ {c})
    OBVIOUS
  <2>3. Cardinality(before[c]) <= n - 1
    BY <2>1, <2>2, FS_Subset
  <2> QED
    BY <1>1, <1>2, <2>3
<1>4. ASSUME NEW c \in S, NEW d \in S, c \in before[d] PROVE place[c] # place[d]
  <2>1. PICK T : T = before[c] \cup {c}
    OBVIOUS
  <2>2. T \in SUBSET before[d] /\ IsFiniteSet(before[d])
    BY <1>2, <1>4, <2>1
  <2>3. Cardinality(T) <= Cardinality(before[d])
    BY <2>2, FS_Subset
  <2>4. Cardinality(T) = Cardinality(before[c]) + 1
    BY <1>2, <2>1, FS_AddElement
  <2> QED
    BY <1>2, <2>3, <2>4
<1>5. \A c, d \in S : place[c] = place[d] => c = d
  BY <1>4
<1>6. IsFiniteSet(1..n) /\ Cardinality(1..n) = n
  <2>1. 1 \in Int /\ n \in Int
    OBVIOUS
  <2>2. IsFiniteSet(1..n) /\ Cardinality(1..n) = IF 1 > n THEN 0 ELSE n - 1 + 1
    BY <2>1, FS_Interval
  <2> QED
    BY <2>2
<1>7. place \in Injection(S, 1..n)
  <2>1. place \in [S -> 1..n]
    BY <1>3
  <2> QED
    BY <1>5, <2>1 DEF Injection, IsInjective
<1>8. place \in Surjection(S, 1..n)
  BY <1>1, <1>6, <1>7, FS_Injection
<1>9. \A k \in 1..n : \E c \in S : place[c] = k
  BY <1>8 DEF Surjection
<1> QED
  BY <1>1, <1>3, <1>5, <1>9

-----------------------------------------------------------------------------
(* Fusing lists.                                                           *)

\* A set of numbers that is not empty has Min as its least element.
LEMMA LeastIs ==
  ASSUME NEW S \in SUBSET Nat, S # {}
  PROVE  Min(S) \in S /\ \A y \in S : Min(S) <= y
<1>1. PICK m \in S : \A y \in S : m <= y
  BY SumR!LeastNumber
<1> QED
  BY <1>1 DEF Min

\* What lists of chunks are.
LEMMA ListsAre ==
  ASSUME NEW lists \in Seq(Seq(Chunk))
  PROVE  /\ Chunk \in SUBSET Nat /\ IsFiniteSet(Chunk)
         /\ DOMAIN lists = 1..Len(lists) /\ Len(lists) \in Nat
         /\ \A b \in DOMAIN lists : /\ lists[b] \in Seq(Chunk) /\ b \in Nat
                                    /\ DOMAIN lists[b] \in SUBSET (Nat \ {0})
                                    /\ ToSet(lists[b]) \in SUBSET Chunk
         /\ Members(lists) \in SUBSET Chunk /\ IsFiniteSet(Members(lists))
         /\ Cardinality(Members(lists)) \in Nat
<1>1. PICK n \in Nat : Chunk = 1..n
  <2>1. Cost \in Seq(Nat \ {0})
    BY AssemblyAssumption
  <2>2. DOMAIN Cost = 1..Len(Cost) /\ Len(Cost) \in Nat
    BY <2>1
  <2>3. Chunk = 1..Len(Cost)
    BY <2>2 DEF Chunk
  <2> QED
    BY <2>2, <2>3, Zenon
<1>2. Chunk \in SUBSET Nat /\ IsFiniteSet(Chunk)
  <2>1. 1 \in Int /\ n \in Int
    OBVIOUS
  <2>2. IsFiniteSet(1..n)
    BY <2>1, FS_Interval
  <2> QED
    BY <1>1, <2>2
<1>3. DOMAIN lists = 1..Len(lists) /\ Len(lists) \in Nat
  OBVIOUS
<1>4. ASSUME NEW b \in DOMAIN lists
      PROVE  /\ lists[b] \in Seq(Chunk) /\ b \in Nat /\ DOMAIN lists[b] \in SUBSET (Nat \ {0})
             /\ ToSet(lists[b]) \in SUBSET Chunk
  <2>1. PICK list \in Seq(Chunk) : list = lists[b]
    BY <1>3
  <2>2. DOMAIN list \in SUBSET (Nat \ {0}) /\ ToSet(list) \in SUBSET Chunk
    BY DEF ToSet
  <2> QED
    BY <1>3, <2>1, <2>2
<1>5. Members(lists) \in SUBSET Chunk
  BY <1>4 DEF Members
<1> QED
  BY <1>2, <1>3, <1>4, <1>5, FS_Subset, FS_CardinalityType

\* The parts of a key.
LEMMA KeyParts ==
  ASSUME NEW lists \in Seq(Seq(Chunk)), NEW fused, NEW c \in Members(lists)
  PROVE  \E a, h, r \in Int : c \in Int /\ Key(lists, fused, c) = <<a, h, r, c>>
<1>1. c \in Chunk /\ c \in Int
  BY ListsAre
<1>2. Holding(lists, c) \in SUBSET Nat /\ Holding(lists, c) # {} /\ IsFiniteSet(Holding(lists, c))
  <2>1. Holding(lists, c) \in SUBSET (DOMAIN lists) /\ Holding(lists, c) # {}
    BY DEF Holding, Members
  <2>2. DOMAIN lists \in SUBSET Nat /\ IsFiniteSet(DOMAIN lists)
    <3>1. DOMAIN lists = 1..Len(lists) /\ Len(lists) \in Nat
      BY ListsAre
    <3>2. 1 \in Int /\ Len(lists) \in Int
      BY <3>1
    <3>3. IsFiniteSet(1..Len(lists))
      BY <3>2, FS_Interval
    <3> QED
      BY <3>1, <3>3
  <2> QED
    BY <2>1, <2>2, FS_Subset
<1>3. Min(Holding(lists, c)) \in Int
  BY <1>2, LeastIs
<1>4. \A b \in Holding(lists, c) : RankOf(lists[b], c) \in Nat \ {0}
  <2> SUFFICES ASSUME NEW b \in Holding(lists, c) PROVE RankOf(lists[b], c) \in Nat \ {0}
    OBVIOUS
  <2>1. b \in DOMAIN lists /\ c \in ToSet(lists[b])
    BY DEF Holding
  <2>2. \E k \in DOMAIN lists[b] : lists[b][k] = c
    BY <2>1 DEF ToSet
  <2>3. RankOf(lists[b], c) \in DOMAIN lists[b]
    BY <2>2 DEF RankOf
  <2> QED
    BY <2>1, <2>3, ListsAre
<1>5. Min(Ranks(lists, c)) \in Int
  <2>1. Ranks(lists, c) \in SUBSET Nat /\ Ranks(lists, c) # {}
    BY <1>2, <1>4 DEF Ranks
  <2> QED
    BY <2>1, LeastIs
<1>6. Denominator \in Int
  <2> DEFINE f == [k \in 1..TopK |-> RrfK + k]
  <2>1. Denominator = ProductR!Chosen(f, SUBSET (DOMAIN f))[DOMAIN f]
    BY DEF Denominator, FoldFunction, FoldFunctionOnSet, MapThenFoldSet, ProductR!Chosen, ProductStep, One
  <2>2. DOMAIN f = 1..TopK /\ \A k \in 1..TopK : f[k] \in Int
    BY AssemblyAssumption
  <2>3. IsFiniteSet(1..TopK)
    <3>1. 1 \in Int /\ TopK \in Int
      BY AssemblyAssumption
    <3> QED
      BY <3>1, FS_Interval
  <2> HIDE DEF f
  <2> QED
    BY <2>1, <2>2, <2>3, ProductRuns
<1>7. Rrf(lists, c) \in Int
  <2>1. PICK f : f = [b \in Holding(lists, c) |-> Reciprocal(RankOf(lists[b], c))]
    OBVIOUS
  <2>2. \A b \in Holding(lists, c) : f[b] \in Int
    <3> SUFFICES ASSUME NEW b \in Holding(lists, c) PROVE f[b] \in Int
      OBVIOUS
    <3>1. PICK d \in Int : d = Denominator
      BY <1>6
    <3>2. PICK m \in Nat \ {0} : m = RrfK + RankOf(lists[b], c)
      BY <1>4, AssemblyAssumption
    <3>3. d \div m \in Int
      OBVIOUS
    <3> QED
      BY <2>1, <3>1, <3>2, <3>3 DEF Reciprocal
  <2>3. SumFunction(f) \in Int
    BY <1>2, <2>1, <2>2, SumIsNumber
  <2> QED
    BY <2>1, <2>3 DEF Rrf
<1>8. PICK a \in Int : a = IF fused THEN 0 - Rrf(lists, c) ELSE 0
  <2>1. PICK x \in Int : x = Rrf(lists, c)
    BY <1>7
  <2>2. 0 - x \in Int /\ 0 \in Int
    OBVIOUS
  <2> QED
    BY <2>1, <2>2
<1>9. Key(lists, fused, c) = <<a, Min(Holding(lists, c)), Min(Ranks(lists, c)), c>>
  BY <1>8, Zenon DEF Key
<1> QED
  BY <1>1, <1>3, <1>5, <1>9

Earlier(a, b, c, d, e, f, g, h) ==
  \/ a < e
  \/ a = e /\ b < f
  \/ a = e /\ b = f /\ c < g
  \/ a = e /\ b = f /\ c = g /\ d < h

\* Keys are compared part by part.
LEMMA SmallerIs ==
  ASSUME NEW a \in Int, NEW b \in Int, NEW c \in Int, NEW d \in Int,
         NEW e \in Int, NEW f \in Int, NEW g \in Int, NEW h \in Int
  PROVE  Smaller(<<a, b, c, d>>, <<e, f, g, h>>) <=>
           Earlier(a, b, c, d, e, f, g, h)
<1>1. PICK s, t : s = <<a, b, c, d>> /\ t = <<e, f, g, h>>
  OBVIOUS
<1>2. /\ DOMAIN s = 1..4 /\ s[1] = a /\ s[2] = b /\ s[3] = c /\ s[4] = d
      /\ t[1] = e /\ t[2] = f /\ t[3] = g /\ t[4] = h
  BY <1>1
<1>3. 1..4 = {1, 2, 3, 4} /\ 1..0 = {} /\ 1..1 = {1} /\ 1..2 = {1, 2} /\ 1..3 = {1, 2, 3}
  OBVIOUS
<1>4. Smaller(s, t) <=> \E k \in {1, 2, 3, 4} : s[k] < t[k] /\ \A j \in 1..(k - 1) : s[j] = t[j]
  BY <1>2, <1>3 DEF Smaller
<1>5. /\ 1 - 1 = 0 /\ 2 - 1 = 1 /\ 3 - 1 = 2 /\ 4 - 1 = 3
  OBVIOUS
<1>6. Smaller(s, t) <=> \/ s[1] < t[1]
                        \/ s[2] < t[2] /\ s[1] = t[1]
                        \/ s[3] < t[3] /\ s[1] = t[1] /\ s[2] = t[2]
                        \/ s[4] < t[4] /\ s[1] = t[1] /\ s[2] = t[2] /\ s[3] = t[3]
  BY <1>3, <1>4, <1>5
<1> QED
  BY <1>1, <1>2, <1>6 DEF Earlier

\* What is earlier than something earlier is earlier.
LEMMA EarlierRuns ==
  ASSUME NEW a \in Int, NEW b \in Int, NEW c \in Int, NEW d \in Int,
         NEW e \in Int, NEW f \in Int, NEW g \in Int, NEW h \in Int,
         NEW i \in Int, NEW j \in Int, NEW k \in Int, NEW l \in Int,
         Earlier(a, b, c, d, e, f, g, h), Earlier(e, f, g, h, i, j, k, l)
  PROVE  Earlier(a, b, c, d, i, j, k, l)
<1>1. CASE a < e
  BY <1>1 DEF Earlier
<1>2. CASE a = e /\ b < f
  BY <1>2 DEF Earlier
<1>3. CASE a = e /\ b = f /\ c < g
  BY <1>3 DEF Earlier
<1>4. CASE a = e /\ b = f /\ c = g /\ d < h
  BY <1>4 DEF Earlier
<1> QED
  BY <1>1, <1>2, <1>3, <1>4 DEF Earlier

\* Fused lists hold every member in a place of its own.
LEMMA SortedHolds ==
  ASSUME NEW lists \in Seq(Seq(Chunk)), NEW fused
  PROVE  Sorted(lists, fused) \in Seq(Chunk) /\ ToSet(Sorted(lists, fused)) = Members(lists)
<1>1. PICK M : M = Members(lists)
  OBVIOUS
<1>2. M \in SUBSET Chunk /\ IsFiniteSet(M) /\ Cardinality(M) \in Nat
  BY <1>1, ListsAre
<1>3. PICK key : key = [c \in M |-> Key(lists, fused, c)]
  OBVIOUS
<1>4. PICK before : before = [c \in M |-> {d \in M : Smaller(key[d], key[c])}]
  OBVIOUS
<1>5. PICK place : place = [c \in M |-> 1 + Cardinality(before[c])]
  OBVIOUS
<1>6. \A c \in M : \E a, h, r \in Int : c \in Int /\ key[c] = <<a, h, r, c>>
  BY <1>1, <1>3, KeyParts
<1>7. \A c \in M : before[c] \subseteq M /\ c \notin before[c]
  <2> SUFFICES ASSUME NEW c \in M PROVE ~Smaller(key[c], key[c])
    BY <1>4
  <2>1. PICK a, h, r \in Int : c \in Int /\ key[c] = <<a, h, r, c>>
    BY <1>6
  <2>2. ~Earlier(a, h, r, c, a, h, r, c)
    BY <2>1 DEF Earlier
  <2>3. Smaller(<<a, h, r, c>>, <<a, h, r, c>>) <=> Earlier(a, h, r, c, a, h, r, c)
    BY <2>1, SmallerIs
  <2> QED
    BY <2>1, <2>2, <2>3, Zenon
<1>8. ASSUME NEW c \in M, NEW d \in M, NEW e \in M, Smaller(key[d], key[c]), Smaller(key[e], key[d])
      PROVE  Smaller(key[e], key[c])
  <2>1. PICK a, h, r \in Int : c \in Int /\ key[c] = <<a, h, r, c>>
    BY <1>6
  <2>2. PICK a2, h2, r2 \in Int : d \in Int /\ key[d] = <<a2, h2, r2, d>>
    BY <1>6
  <2>3. PICK a3, h3, r3 \in Int : e \in Int /\ key[e] = <<a3, h3, r3, e>>
    BY <1>6
  <2>4. Earlier(a2, h2, r2, d, a, h, r, c)
    BY <1>8, <2>1, <2>2, SmallerIs
  <2>5. Earlier(a3, h3, r3, e, a2, h2, r2, d)
    BY <1>8, <2>2, <2>3, SmallerIs
  <2>6. Earlier(a3, h3, r3, e, a, h, r, c)
    BY <2>1, <2>2, <2>3, <2>4, <2>5, EarlierRuns
  <2>7. Smaller(<<a3, h3, r3, e>>, <<a, h, r, c>>)
    BY <2>1, <2>3, <2>6, SmallerIs
  <2> QED
    BY <2>1, <2>3, <2>7
<1>9. ASSUME NEW c \in M, NEW d \in M, c # d PROVE Smaller(key[d], key[c]) \/ Smaller(key[c], key[d])
  <2>1. PICK a, h, r \in Int : c \in Int /\ key[c] = <<a, h, r, c>>
    BY <1>6
  <2>2. PICK a2, h2, r2 \in Int : d \in Int /\ key[d] = <<a2, h2, r2, d>>
    BY <1>6
  <2>3. Earlier(a2, h2, r2, d, a, h, r, c) \/ Earlier(a, h, r, c, a2, h2, r2, d)
    BY <1>9, <2>1, <2>2 DEF Earlier
  <2>4. Smaller(<<a2, h2, r2, d>>, <<a, h, r, c>>) \/ Smaller(<<a, h, r, c>>, <<a2, h2, r2, d>>)
    BY <2>1, <2>2, <2>3, SmallerIs
  <2> QED
    BY <2>1, <2>2, <2>4
<1>10. \A c, d \in M : d \in before[c] => before[d] \subseteq before[c]
  BY <1>4, <1>8
<1>11. \A c, d \in M : c # d => c \in before[d] \/ d \in before[c]
  BY <1>4, <1>9
<1>12. /\ \A c \in M : place[c] \in 1..Cardinality(M)
       /\ \A c, d \in M : place[c] = place[d] => c = d
       /\ \A k \in 1..Cardinality(M) : \E c \in M : place[c] = k
  <2>1. Precedence(M, before)
    BY <1>7, <1>10, <1>11 DEF Precedence
  <2> QED
    BY <1>2, <1>5, <2>1, Placed
<1>13. place = [c \in M |-> 1 + Cardinality({d \in M : Smaller(key[d], key[c])})]
  BY <1>4, <1>5
<1>14. PICK sorted : sorted = [k \in 1..Cardinality(M) |-> CHOOSE c \in M : place[c] = k]
  OBVIOUS
<1>15. Sorted(lists, fused) = sorted
  BY <1>1, <1>3, <1>13, <1>14 DEF Sorted
<1>16. \A k \in 1..Cardinality(M) : sorted[k] \in M
  BY <1>12, <1>14
<1>17. sorted \in Seq(Chunk) /\ DOMAIN sorted = 1..Cardinality(M)
  <2>1. PICK n \in Nat : n = Cardinality(M)
    BY <1>2
  <2>2. DOMAIN sorted = 1..n /\ \A k \in 1..n : sorted[k] \in Chunk
    BY <1>2, <1>14, <1>16, <2>1
  <2>3. sorted = [k \in 1..n |-> sorted[k]]
    BY <1>14, <2>1
  <2>4. sorted \in [1..n -> Chunk]
    BY <2>2, <2>3
  <2> QED
    BY <2>1, <2>2, <2>4
<1>18. \A c \in M : \E k \in DOMAIN sorted : sorted[k] = c
  <2> SUFFICES ASSUME NEW c \in M PROVE \E k \in DOMAIN sorted : sorted[k] = c
    OBVIOUS
  <2>1. PICK k \in 1..Cardinality(M) : k = place[c]
    BY <1>12
  <2>2. sorted[k] = CHOOSE d \in M : place[d] = k
    BY <1>14
  <2>3. sorted[k] \in M /\ place[sorted[k]] = k
    BY <2>1, <2>2
  <2>4. sorted[k] = c
    BY <1>12, <2>1, <2>3
  <2> QED
    BY <1>17, <2>4
<1>19. ToSet(sorted) = M
  BY <1>16, <1>17, <1>18 DEF ToSet
<1> QED
  BY <1>1, <1>15, <1>17, <1>19, Zenon

-----------------------------------------------------------------------------
(* From what the backends answer to the buckets.                           *)

SeenStep(none, taken, c) == IF c \in ToSet(taken) THEN taken ELSE Append(taken, c)
SeenR == INSTANCE Recursion WITH Value <- SeenStep

\* Without its duplicates a list is a list.
LEMMA DistinctIs ==
  ASSUME NEW S, NEW s \in Seq(S)
  PROVE  Distinct(s) \in Seq(S)
<1>1. PICK n \in Nat : n = Len(s)
  OBVIOUS
<1>2. DOMAIN s = 1..n /\ \A i \in 1..n : s[i] \in S
  BY <1>1
<1>3. Distinct(s) = SeenR!Fold(0, <<>>, s)
  BY DEF Distinct, SeenR!Fold, SeenR!Largest, SeenStep, FoldLeft, MapThenFoldSet, Max
<1>4. PICK run : /\ run[0] = <<>> /\ run[n] = Distinct(s)
                 /\ \A i \in 1..n : run[i] = SeenStep(0, run[i - 1], s[i])
  BY <1>1, <1>2, <1>3, SeenR!FoldRuns, SMTT(30)
<1> DEFINE G == {i \in Nat : i <= n => run[i] \in Seq(S)}
<1>5. 0 \in G
  <2>1. run[0] \in Seq(S)
    BY <1>4
  <2> QED
    BY <2>1
<1>6. ASSUME NEW i \in Nat, i \in G PROVE i + 1 \in G
  <2> SUFFICES ASSUME i + 1 <= n PROVE run[i + 1] \in Seq(S)
    OBVIOUS
  <2>1. run[i] \in Seq(S) /\ i + 1 \in 1..n /\ i + 1 - 1 = i
    BY <1>6
  <2>2. run[i + 1] = SeenStep(0, run[i], s[i + 1]) /\ s[i + 1] \in S
    BY <1>2, <1>4, <2>1
  <2> QED
    BY <2>1, <2>2 DEF SeenStep
<1>7. Nat \subseteq G
  <2> HIDE DEF G
  <2> QED
    BY <1>5, <1>6, SeenR!NumberInduction
<1> QED
  BY <1>4, <1>7

\* What is cut off is a list still.
LEMMA CutoffIs ==
  ASSUME NEW S, NEW s \in Seq(S)
  PROVE  Cutoff(s) \in Seq(S)
<1>1. PICK n, k \in Nat : n = Len(s) /\ k = (IF n < TopK THEN n ELSE TopK) /\ k <= n
  <2>1. Len(s) \in Nat /\ TopK \in Nat
    BY AssemblyAssumption
  <2> QED
    BY <2>1
<1>2. Cutoff(s) = SubSeq(s, 1, k)
  BY <1>1 DEF Cutoff
<1>3. \A i \in 1..k : s[i] \in S
  BY <1>1
<1> QED
  BY <1>1, <1>2, <1>3

\* What a search of an intent finds is a list of chunks.
LEMMA FoundIs ==
  ASSUME NEW lists \in Seq(Seq(Chunk))
  PROVE  Found(lists) \in Seq(Chunk)
<1>1. PICK n \in Nat : n = Len(lists)
  OBVIOUS
<1>2. \A b \in 1..n : Cutoff(Distinct(lists[b])) \in Seq(Chunk)
  BY <1>1, DistinctIs, CutoffIs
<1>3. Normal(lists) \in Seq(Seq(Chunk))
  <2>1. Normal(lists) = [b \in 1..n |-> Cutoff(Distinct(lists[b]))]
    BY <1>1 DEF Normal
  <2>2. Normal(lists) \in [1..n -> Seq(Chunk)]
    BY <1>2, <2>1
  <2> QED
    BY <2>2
<1>4. PICK normal : normal = Normal(lists)
  OBVIOUS
<1>5. PICK fused : fused = (Cardinality({b \in DOMAIN normal : normal[b] # <<>>}) > 1)
  OBVIOUS
<1>6. Sorted(normal, fused) \in Seq(Chunk)
  BY <1>3, <1>4, SortedHolds
<1>7. Found(lists) = Cutoff(Sorted(normal, fused))
  BY <1>4, <1>5 DEF Found, FuseBackends
<1> QED
  BY <1>6, <1>7, CutoffIs

-----------------------------------------------------------------------------
(* Selection.                                                              *)

\* Every chunk has a cost, and every search answers lists of chunks.
LEMMA CostsAre ==
  /\ Chunk \in SUBSET Nat /\ \A c \in Chunk : Cost[c] \in Nat \ {0}
  /\ Intents \in Nat \ {0} /\ TopK \in Nat \ {0} /\ Intent = 1..Intents
<1>1. Cost \in Seq(Nat \ {0})
  BY AssemblyAssumption
<1>2. Chunk = DOMAIN Cost
  BY DEF Chunk
<1>3. \A c \in Chunk : Cost[c] \in Nat \ {0} /\ c \in Nat
  BY <1>1, <1>2
<1> QED
  BY <1>3, AssemblyAssumption DEF Intent

\* The buckets hold every hit of every intent, as one of its own.
LEMMA BucketsAre ==
  ASSUME hits \in Seq(Seq(Chunk))
  PROVE  /\ Buckets \in Seq(Chunk)
         /\ \A i \in DOMAIN hits : \A k \in DOMAIN hits[i] :
              \E j \in Candidates(i) : Buckets[j] = hits[i][k]
<1>1. PICK buckets : buckets = Buckets
  OBVIOUS
<1>2. buckets \in Seq(Chunk) /\ ToSet(buckets) = Members(hits)
  BY <1>1, SortedHolds DEF Buckets
<1>3. ASSUME NEW i \in DOMAIN hits, NEW k \in DOMAIN hits[i]
      PROVE  \E j \in Candidates(i) : Buckets[j] = hits[i][k]
  <2>1. PICK c : c = hits[i][k]
    OBVIOUS
  <2>2. c \in ToSet(hits[i])
    BY <2>1 DEF ToSet
  <2>3. c \in Members(hits) /\ i \in Owners(c)
    BY <2>2 DEF Members, Owners, Holding
  <2>4. PICK j \in DOMAIN buckets : buckets[j] = c
    BY <1>2, <2>3 DEF ToSet
  <2> QED
    BY <1>1, <2>1, <2>3, <2>4 DEF Candidates
<1> QED
  BY <1>1, <1>2, <1>3

\* What is taken is selected once more, within the bounds.
LEMMA TakeHolds ==
  ASSUME AssemblyInv, NEW c \in Chunk, c \notin ToSet(selected), Fits(c), Take(c), UNCHANGED <<budget, hits>>
  PROVE  /\ SelectionHolds' /\ Len(selected') = Len(selected) + 1 /\ used' >= used
         /\ covered \subseteq covered' /\ Owners(c) \subseteq covered'
         /\ AmpleShare => used' * Intents <= Len(selected') * budget
<1>1. PICK n, u, w, b \in Nat :
        /\ n = Len(selected) /\ u = used /\ w = Cost[c] /\ b = budget
        /\ n < TopK /\ u + w <= b
  BY CostsAre DEF AssemblyInv, SelectionHolds, Fits
<1>2. PICK s : s = selected'
  OBVIOUS
<1>3. /\ s \in Seq(Chunk) /\ Len(s) = n + 1 /\ s[n + 1] = c
      /\ \A k \in 1..n : s[k] = selected[k]
      /\ DOMAIN s = 1..(n + 1) /\ DOMAIN selected = 1..n
  <2>1. selected \in Seq(Chunk) /\ s = Append(selected, c)
    BY <1>2 DEF AssemblyInv, SelectionHolds, Take
  <2> QED
    BY <1>1, <2>1
<1>4. \A k \in 1..n : selected[k] # c
  BY <1>3 DEF ToSet
<1>5. \A j, k \in DOMAIN s : s[j] = s[k] => j = k
  <2>1. \A j, k \in 1..n : selected[j] = selected[k] => j = k
    BY <1>3 DEF AssemblyInv, SelectionHolds
  <2> SUFFICES ASSUME NEW j \in 1..(n + 1), NEW k \in 1..(n + 1), s[j] = s[k] PROVE j = k
    BY <1>3
  <2>2. CASE j \in 1..n /\ k \in 1..n
    BY <1>3, <2>1, <2>2
  <2>3. CASE j = n + 1 \/ k = n + 1
    BY <1>3, <1>4, <2>3
  <2> QED
    BY <2>2, <2>3
<1>6. covered' = covered \cup Owners(c)
  BY DEF Take
<1>7. \A k \in DOMAIN s : Owners(s[k])' \subseteq covered'
  <2> SUFFICES ASSUME NEW k \in 1..(n + 1) PROVE Owners(s[k])' \subseteq covered'
    BY <1>3
  <2>1. Owners(s[k])' = Owners(s[k])
    BY DEF Owners, Holding
  <2>2. CASE k = n + 1
    BY <1>3, <1>6, <2>1, <2>2
  <2>3. CASE k \in 1..n
    <3>1. Owners(selected[k]) \subseteq covered
      BY <1>3, <2>3 DEF AssemblyInv, SelectionHolds
    <3> QED
      BY <1>3, <1>6, <2>1, <2>3, <3>1
  <2> QED
    BY <2>2, <2>3
<1>8. ToSet(s) = ToSet(selected) \cup {c} /\ ToSet(selected) \in SUBSET Chunk
  BY <1>3 DEF ToSet
<1>9. IsFiniteSet(ToSet(selected))
  <2>1. IsFiniteSet(Chunk)
    BY ListsAre DEF AssemblyInv
  <2> QED
    BY <1>8, <2>1, FS_Subset
<1>10. SumFunctionOnSet(Cost, ToSet(s)) = SumFunctionOnSet(Cost, ToSet(selected)) + Cost[c]
  <2>0. \A x \in Chunk : Cost[x] \in Int
    BY CostsAre
  <2>1. \A x \in ToSet(selected) \cup {c} : Cost[x] \in Int
    BY <1>8, <2>0, Zenon
  <2> QED
    BY <1>8, <1>9, <2>1, SumGrows
<1>11. used' = u + w /\ used' = SumFunctionOnSet(Cost, ToSet(s))
  BY <1>1, <1>10 DEF Take, AssemblyInv, SelectionHolds
<1>12. SelectionHolds'
  <2>1. n + 1 <= TopK /\ u + w \in Nat
    BY <1>1, CostsAre
  <2> QED
    BY <1>1, <1>2, <1>3, <1>5, <1>7, <1>11, <2>1 DEF SelectionHolds
<1>13. ASSUME AmpleShare PROVE used' * Intents <= Len(selected') * budget
  <2>1. PICK m \in Nat : m = Intents /\ w * m <= b /\ u * m <= n * b
    BY <1>1, <1>13, CostsAre DEF AmpleShare, AssemblyInv, SharesKept
  <2>2. (u + w) * m <= (n + 1) * b
    <3>1. (u + w) * m = u * m + w * m
      OBVIOUS
    <3>2. (n + 1) * b = n * b + b
      OBVIOUS
    <3> QED
      BY <2>1, <3>1, <3>2
  <2> QED
    BY <1>1, <1>2, <1>3, <1>11, <2>1, <2>2
<1> QED
  BY <1>1, <1>2, <1>3, <1>6, <1>11, <1>12, <1>13

\* Room is only taken.
LEMMA RoomTaken ==
  ASSUME NEW n \in Nat, NEW m \in Nat, NEW u \in Nat, NEW v \in Nat, NEW w \in Nat,
         NEW b \in Nat, NEW top \in Nat, n <= m, u <= v, ~(n < top /\ u + w <= b)
  PROVE  ~(m < top /\ v + w <= b)
  OBVIOUS

\* An intent that was passed over stays so: room is only taken.
LEMMA PassedOverStays ==
  ASSUME AssemblyInv, UNCHANGED <<budget, hits>>, Len(selected') \in Nat, used' \in Nat,
         Len(selected') >= Len(selected), used' >= used, covered \subseteq covered',
         NEW i \in Intent, turn > i, hits'[i] # <<>>, i \notin covered', i \in DOMAIN hits
  PROVE  ~AmpleShare' /\ \A k \in DOMAIN hits[i] : ~Fits(hits[i][k])'
<1>1. ~AmpleShare /\ \A k \in DOMAIN hits[i] : ~Fits(hits[i][k])
  BY DEF AssemblyInv, PassedOver
<1>2. ~AmpleShare'
  BY <1>1 DEF AmpleShare
<1>3. ASSUME NEW k \in DOMAIN hits[i] PROVE ~Fits(hits[i][k])'
  <2>1. PICK list \in Seq(Chunk) : list = hits[i]
    BY DEF AssemblyInv
  <2>2. PICK c \in Chunk : c = hits[i][k]
    BY <2>1
  <2>3. PICK n, m \in Nat : n = Len(selected) /\ m = Len(selected') /\ n <= m
    <3>1. Len(selected) \in Nat
      BY DEF AssemblyInv, SelectionHolds
    <3> QED
      BY <3>1
  <2>4. PICK u, v, w, b, top \in Nat :
          u = used /\ v = used' /\ w = Cost[c] /\ b = budget /\ top = TopK /\ u <= v
    <3>1. used \in Nat /\ budget \in Nat
      BY DEF AssemblyInv, SelectionHolds
    <3>2. Cost[c] \in Nat /\ TopK \in Nat
      BY CostsAre
    <3> QED
      BY <3>1, <3>2
  <2>5. ~(n < top /\ u + w <= b)
    BY <1>1, <2>2, <2>3, <2>4 DEF Fits
  <2>6. ~(m < top /\ v + w <= b)
    BY <2>3, <2>4, <2>5, RoomTaken
  <2> QED
    BY <2>2, <2>3, <2>4, <2>6 DEF Fits
<1> QED
  BY <1>2, <1>3

\* Shares of a budget that were not all taken leave room for one more.
LEMMA RoomLeft ==
  ASSUME NEW n \in Nat, NEW u \in Nat, NEW w \in Nat, NEW b \in Nat, NEW m \in Nat,
         w * m <= b, u * m <= n * b, n + 1 <= m
  PROVE  u + w <= b
<1>1. PICK d \in Nat : m = (n + 1) + d
  <2>1. m - (n + 1) \in Nat /\ m = (n + 1) + (m - (n + 1))
    OBVIOUS
  <2> QED
    BY <2>1
<1>2. PICK um, wm, nb, db, bm \in Nat : um = u * m /\ wm = w * m /\ nb = n * b /\ db = d * b /\ bm = b * m
  <2>1. u * m \in Nat /\ w * m \in Nat /\ n * b \in Nat /\ d * b \in Nat /\ b * m \in Nat
    OBVIOUS
  <2> QED
    BY <2>1
<1>3. bm = nb + b + db
  <2>1. b * ((n + 1) + d) = n * b + b + d * b
    OBVIOUS
  <2> QED
    BY <1>1, <1>2, <2>1
<1>4. um + wm <= bm
  BY <1>2, <1>3
<1>5. ASSUME NEW e \in Nat, u + w = b + 1 + e PROVE FALSE
  <2>1. (u + w) * m = u * m + w * m
    OBVIOUS
  <2>2. PICK em \in Nat : em = e * m
    <3>1. e * m \in Nat
      OBVIOUS
    <3> QED
      BY <3>1
  <2>3. (b + 1 + e) * m = b * m + m + e * m
    OBVIOUS
  <2>4. um + wm = bm + m + em
    BY <1>2, <1>5, <2>1, <2>2, <2>3
  <2>5. m > 0
    OBVIOUS
  <2> QED
    BY <1>4, <2>4, <2>5
<1> SUFFICES ASSUME u + w > b PROVE FALSE
  OBVIOUS
<1>6. u + w - (b + 1) \in Nat /\ u + w = b + 1 + (u + w - (b + 1))
  OBVIOUS
<1> QED
  BY <1>5, <1>6

\* With an ample share there is room at an intent's turn.
LEMMA ShareFits ==
  ASSUME AssemblyInv, AmpleShare, turn \in Intent, NEW c \in Chunk
  PROVE  Fits(c)
<1>1. PICK n, u, b, i \in Nat : n = Len(selected) /\ u = used /\ b = budget /\ i = turn
  <2>1. Len(selected) \in Nat
    BY DEF AssemblyInv, SelectionHolds
  <2>2. used \in Nat /\ budget \in Nat /\ turn \in Nat
    BY DEF AssemblyInv, SelectionHolds
  <2> QED
    BY <2>1, <2>2
<1>2. PICK m, w, top \in Nat : m = Intents /\ w = Cost[c] /\ top = TopK
  <2>1. Intents \in Nat /\ TopK \in Nat /\ Cost[c] \in Nat
    BY CostsAre
  <2> QED
    BY <2>1
<1>3. m <= top /\ w * m <= b
  BY <1>1, <1>2 DEF AmpleShare
<1>4. u * m <= n * b
  BY <1>1, <1>2 DEF AssemblyInv, SharesKept
<1>5. i \in 1..m
  BY <1>1, <1>2 DEF Intent
<1>6. n <= i - 1
  <2>1. i \in 1..(m + 1)
    BY <1>5
  <2>2. i \in 1..(m + 1) => n <= i - 1
    BY <1>1, <1>2, Zenon DEF AssemblyInv, SharesKept
  <2> QED
    BY <2>1, <2>2
<1>7. n + 1 <= m
  BY <1>5, <1>6
<1>8. u + w <= b
  BY <1>3, <1>4, <1>7, RoomLeft
<1>9. n < top
  BY <1>3, <1>7
<1> QED
  BY <1>1, <1>2, <1>8, <1>9 DEF Fits

\* Nothing is selected at first.
LEMMA AssemblyStarts ==
  AssemblyInit => AssemblyInv
<1> SUFFICES ASSUME AssemblyInit PROVE AssemblyInv
  OBVIOUS
<1>1. /\ budget \in Nat \ {0} /\ hits = <<>> /\ selected = <<>> /\ covered = {} /\ used = 0 /\ turn = 0
  BY AssemblyAssumption DEF AssemblyInit
<1>2. SumFunctionOnSet(Cost, {}) = 0
  BY SumOfNone
<1>3. SelectionHolds
  <2>1. ToSet(selected) = {} /\ selected \in Seq(Chunk) /\ Len(selected) = 0 /\ DOMAIN selected = {}
    BY <1>1 DEF ToSet
  <2>2. 0 <= TopK /\ 0 <= budget
    BY <1>1, CostsAre
  <2> QED
    BY <1>1, <1>2, <2>1, <2>2 DEF SelectionHolds
<1>4. SharesKept
  <2>1. Len(selected) = 0
    BY <1>1
  <2>2. PICK m, b \in Nat : m = Intents /\ b = budget
    BY <1>1, CostsAre
  <2>3. 0 * m <= 0 * b
    OBVIOUS
  <2>4. turn \notin 1..(Intents + 1)
    BY <1>1
  <2> QED
    BY <1>1, <2>1, <2>2, <2>3, <2>4 DEF SharesKept
<1>5. PassedOver
  BY <1>1, CostsAre DEF PassedOver
<1>6. hits \in Seq(Seq(Chunk)) /\ Len(hits) < Intents
  BY <1>1, CostsAre
<1> QED
  BY <1>1, <1>3, <1>4, <1>5, <1>6 DEF AssemblyInv

\* A search adds a list of chunks; the turns begin when every intent has one.
LEMMA SearchedKeepsInv ==
  AssemblyInv /\ Searched => AssemblyInv'
<1> SUFFICES ASSUME AssemblyInv, Searched PROVE AssemblyInv'
  OBVIOUS
<1>1. PICK lists : lists \in Rankings[Len(hits) + 1] /\ hits' = Append(hits, Found(lists))
  BY DEF Searched
<1>2. PICK n, m \in Nat : n = Len(hits) /\ m = Intents /\ n < m
  BY CostsAre DEF Searched, AssemblyInv
<1>3. Found(lists) \in Seq(Chunk)
  <2>1. n + 1 \in Intent
    BY <1>2 DEF Intent
  <2> QED
    BY <1>1, <1>2, <2>1, AssemblyAssumption, FoundIs
<1>4. hits' \in Seq(Seq(Chunk)) /\ Len(hits') = n + 1
  BY <1>1, <1>2, <1>3 DEF AssemblyInv
<1>5. /\ turn = 0 /\ turn' = IF n + 1 = m THEN 1 ELSE 0
      /\ selected = <<>> /\ UNCHANGED <<budget, selected, covered, used>>
  BY <1>2 DEF Searched, AssemblyInv, SharesKept
<1>6. SelectionHolds'
  <2>1. DOMAIN selected' = {}
    BY <1>5
  <2> QED
    BY <1>5, <2>1 DEF AssemblyInv, SelectionHolds
<1>7. SharesKept'
  <2>1. Len(selected') = 0 /\ (turn' \in 1..(Intents + 1) => turn' = 1)
    BY <1>5
  <2>2. AmpleShare' => AmpleShare
    BY <1>5 DEF AmpleShare
  <2>3. AmpleShare' => used' * Intents <= Len(selected') * budget'
    BY <1>5, <2>2 DEF AssemblyInv, SharesKept
  <2>4. turn' \in 1..(Intents + 1) => Len(selected') <= turn' - 1
    BY <2>1
  <2> QED
    BY <1>5, <2>3, <2>4 DEF SharesKept
<1>8. PassedOver'
  <2>1. \A i \in Intent : ~(turn' > i)
    BY <1>5, CostsAre
  <2> QED
    BY <2>1 DEF PassedOver
<1>9. turn' \in Nat /\ budget' \in Nat \ {0}
  BY <1>5 DEF AssemblyInv
<1>10. IF turn' = 0 THEN Len(hits') < Intents ELSE Len(hits') = Intents
  BY <1>2, <1>4, <1>5
<1> QED
  BY <1>4, <1>6, <1>7, <1>8, <1>9, <1>10 DEF AssemblyInv

\* An intent at its turn takes a passage of its own that fits, if there is one.
LEMMA CoverKeepsInv ==
  AssemblyInv /\ Cover => AssemblyInv'
<1> SUFFICES ASSUME AssemblyInv, Cover PROVE AssemblyInv'
  OBVIOUS
<1>1. PICK i, m \in Nat : i = turn /\ m = Intents /\ i >= 1 /\ i <= m /\ i \in Intent
  BY CostsAre DEF Cover
<1>2. turn' = i + 1 /\ UNCHANGED <<budget, hits>>
  BY <1>1 DEF Cover
<1>3. hits \in Seq(Seq(Chunk)) /\ DOMAIN hits = 1..m
  BY <1>1 DEF AssemblyInv
<1>4. PICK buckets \in Seq(Chunk) : buckets = Buckets
  BY <1>3, BucketsAre
<1>5. /\ SelectionHolds' /\ used' >= used /\ covered \subseteq covered'
      /\ Len(selected') >= Len(selected) /\ Len(selected') <= Len(selected) + 1
      /\ AmpleShare => used' * Intents <= Len(selected') * budget
      /\ \/ i \in covered'
         \/ UNCHANGED <<selected, used>> /\ Reach(i) = {}
  <2>1. CASE i \in covered \/ Reach(i) = {}
    <3>1. UNCHANGED <<selected, covered, used>>
      BY <1>1, <2>1 DEF Cover
    <3>2. SelectionHolds'
      <4>1. \A c : Owners(c)' = Owners(c)
        BY <1>2 DEF Owners, Holding
      <4> QED
        BY <1>2, <3>1, <4>1 DEF AssemblyInv, SelectionHolds
    <3>3. AmpleShare => used' * Intents <= Len(selected') * budget
      BY <3>1 DEF AssemblyInv, SharesKept
    <3>4. used \in Nat /\ Len(selected) \in Nat
      BY DEF AssemblyInv, SelectionHolds
    <3> QED
      BY <2>1, <3>1, <3>2, <3>3, <3>4
  <2>2. CASE ~(i \in covered \/ Reach(i) = {})
    <3>1. PICK j : j = Min(Reach(i)) /\ j \in Reach(i)
      <4>1. Reach(i) \in SUBSET Nat
        BY <1>4 DEF Reach, Candidates
      <4> QED
        BY <2>2, <4>1, LeastIs
    <3>2. PICK c \in Chunk : c = Buckets[j]
      <4>1. j \in DOMAIN buckets
        BY <1>4, <3>1 DEF Reach, Candidates
      <4> QED
        BY <1>4, <4>1
    <3>3. Fits(c) /\ i \in Owners(c)
      BY <3>1, <3>2 DEF Reach, Candidates
    <3>4. Take(c)
      BY <1>1, <2>2, <3>1, <3>2 DEF Cover
    <3>5. c \notin ToSet(selected)
      <4> SUFFICES ASSUME c \in ToSet(selected) PROVE FALSE
        OBVIOUS
      <4>1. Owners(c) \subseteq covered
        BY DEF ToSet, AssemblyInv, SelectionHolds
      <4> QED
        BY <2>2, <3>3, <4>1
    <3>6. /\ SelectionHolds' /\ Len(selected') = Len(selected) + 1 /\ used' >= used
          /\ covered \subseteq covered' /\ Owners(c) \subseteq covered'
          /\ AmpleShare => used' * Intents <= Len(selected') * budget
      BY <1>2, <3>3, <3>4, <3>5, TakeHolds
    <3>7. Len(selected) \in Nat
      BY DEF AssemblyInv, SelectionHolds
    <3>8. i \in covered'
      BY <3>3, <3>6
    <3> QED
      BY <3>6, <3>7, <3>8
  <2> QED
    BY <2>1, <2>2
<1>6. SharesKept'
  <2>1. PICK n, k \in Nat : n = Len(selected) /\ k = Len(selected') /\ k <= n + 1
    BY <1>5 DEF AssemblyInv, SelectionHolds
  <2>2. n <= i - 1
    <3>1. turn \in 1..(Intents + 1)
      BY <1>1
    <3> QED
      BY <1>1, <2>1, <3>1, Zenon DEF AssemblyInv, SharesKept
  <2>3. Len(selected') <= turn' - 1 /\ turn' # 0
    BY <1>2, <2>1, <2>2
  <2>4. AmpleShare' = AmpleShare
    BY <1>2 DEF AmpleShare
  <2> QED
    BY <1>2, <1>5, <2>3, <2>4 DEF SharesKept
<1>7. ASSUME NEW h \in Intent, turn' > h, hits'[h] # <<>>, h \notin covered'
      PROVE  ~AmpleShare' /\ \A k \in DOMAIN hits[h] : ~Fits(hits[h][k])'
  <2>1. h \in DOMAIN hits /\ h \in Nat
    BY <1>1, <1>3 DEF Intent
  <2>2. CASE turn > h
    <3>1. Len(selected') \in Nat /\ used' \in Nat
      BY <1>5 DEF SelectionHolds
    <3> QED
      BY <1>2, <1>5, <1>7, <2>1, <2>2, <3>1, PassedOverStays
  <2>3. CASE ~(turn > h)
    <3>1. h = i
      BY <1>1, <1>2, <1>7, <2>1, <2>3
    <3>2. UNCHANGED <<selected, used>> /\ Reach(i) = {}
      BY <1>5, <1>7, <3>1
    <3>3. \A k \in DOMAIN hits[i] : ~Fits(hits[i][k])
      BY <1>3, <2>1, <3>1, <3>2, BucketsAre DEF Reach
    <3>4. ~AmpleShare
      <4>1. PICK list \in Seq(Chunk) : list = hits[i] /\ list # <<>>
        BY <1>2, <1>3, <1>7, <2>1, <3>1
      <4>2. 1 \in DOMAIN list /\ list[1] \in Chunk
        BY <4>1
      <4> QED
        BY <1>1, <3>3, <4>1, <4>2, ShareFits
    <3>5. ~AmpleShare'
      BY <1>2, <3>4 DEF AmpleShare
    <3>6. \A k \in DOMAIN hits[i] : ~Fits(hits[i][k])'
      BY <1>2, <3>2, <3>3 DEF Fits
    <3> QED
      BY <3>1, <3>5, <3>6
  <2> QED
    BY <2>2, <2>3
<1>8. PassedOver'
  BY <1>2, <1>7 DEF PassedOver
<1>9. turn' \in Nat /\ turn' # 0 /\ budget' \in Nat \ {0}
  BY <1>2 DEF AssemblyInv
<1>10. hits' \in Seq(Seq(Chunk)) /\ Len(hits') = Intents
  BY <1>1, <1>2 DEF AssemblyInv
<1> QED
  BY <1>5, <1>6, <1>8, <1>9, <1>10 DEF AssemblyInv

\* The global fill takes what is not selected yet and fits.
LEMMA FillKeepsInv ==
  AssemblyInv /\ Fill => AssemblyInv'
<1> SUFFICES ASSUME AssemblyInv, Fill PROVE AssemblyInv'
  OBVIOUS
<1>1. PICK t, m \in Nat : t = turn /\ m = Intents /\ t > m /\ m # 0
  BY CostsAre DEF Fill, AssemblyInv
<1>2. turn' = t + 1 /\ UNCHANGED <<budget, hits>>
  BY <1>1 DEF Fill
<1>3. hits \in Seq(Seq(Chunk)) /\ DOMAIN hits = 1..m
  BY <1>1 DEF AssemblyInv
<1>4. PICK c \in Chunk : c = Buckets[turn - Intents]
  <2>1. PICK buckets \in Seq(Chunk) : buckets = Buckets
    BY <1>3, BucketsAre
  <2>2. PICK l \in Nat : l = Len(buckets)
    BY <2>1
  <2>3. t <= m + l
    BY <1>1, <2>1, <2>2 DEF Fill
  <2>4. t - m \in 1..l
    BY <1>1, <2>3
  <2>5. buckets[t - m] \in Chunk
    BY <2>1, <2>2, <2>4
  <2> QED
    BY <1>1, <2>1, <2>5
<1>5. /\ SelectionHolds' /\ used' >= used /\ covered \subseteq covered'
      /\ Len(selected') >= Len(selected)
      /\ AmpleShare => used' * Intents <= Len(selected') * budget
  <2>1. CASE c \notin ToSet(selected) /\ Fits(c)
    <3>1. Take(c)
      BY <1>4, <2>1 DEF Fill
    <3>2. /\ SelectionHolds' /\ Len(selected') = Len(selected) + 1 /\ used' >= used
          /\ covered \subseteq covered'
          /\ AmpleShare => used' * Intents <= Len(selected') * budget
      BY <1>2, <2>1, <3>1, TakeHolds
    <3>3. Len(selected) \in Nat
      BY DEF AssemblyInv, SelectionHolds
    <3> QED
      BY <3>2, <3>3
  <2>2. CASE ~(c \notin ToSet(selected) /\ Fits(c))
    <3>1. UNCHANGED <<selected, covered, used>>
      BY <1>4, <2>2 DEF Fill
    <3>2. SelectionHolds'
      <4>1. \A d : Owners(d)' = Owners(d)
        BY <1>2 DEF Owners, Holding
      <4> QED
        BY <1>2, <3>1, <4>1 DEF AssemblyInv, SelectionHolds
    <3>3. AmpleShare => used' * Intents <= Len(selected') * budget
      BY <3>1 DEF AssemblyInv, SharesKept
    <3>4. used \in Nat /\ Len(selected) \in Nat
      BY DEF AssemblyInv, SelectionHolds
    <3> QED
      BY <3>1, <3>2, <3>3, <3>4
  <2> QED
    BY <2>1, <2>2
<1>6. SharesKept'
  <2>1. turn' # 0 /\ turn' \notin 1..(Intents + 1)
    BY <1>1, <1>2
  <2>2. AmpleShare' => AmpleShare
    BY <1>2 DEF AmpleShare
  <2> QED
    BY <1>2, <1>5, <2>1, <2>2 DEF SharesKept
<1>7. PassedOver'
  <2>1. Len(selected') \in Nat /\ used' \in Nat
    BY <1>5 DEF SelectionHolds
  <2>2. ASSUME NEW h \in Intent, hits'[h] # <<>>, h \notin covered'
        PROVE  ~AmpleShare' /\ \A k \in DOMAIN hits[h] : ~Fits(hits[h][k])'
    <3>1. h \in DOMAIN hits /\ turn > h
      BY <1>1, <1>3 DEF Intent
    <3> QED
      BY <1>2, <1>5, <2>1, <2>2, <3>1, PassedOverStays
  <2> QED
    BY <1>2, <2>2 DEF PassedOver
<1>8. turn' \in Nat /\ turn' # 0 /\ budget' \in Nat \ {0}
  BY <1>2 DEF AssemblyInv
<1>9. hits' \in Seq(Seq(Chunk)) /\ Len(hits') = Intents
  BY <1>1, <1>2 DEF AssemblyInv
<1> QED
  BY <1>5, <1>6, <1>7, <1>8, <1>9 DEF AssemblyInv

\* The alignment leaves the selection alone.
LEMMA QualifyKeepsInv ==
  AssemblyInv /\ Qualify => AssemblyInv'
<1> SUFFICES ASSUME AssemblyInv, Qualify PROVE AssemblyInv'
  OBVIOUS
<1>1. PICK t, m \in Nat : t = turn /\ m = Intents /\ t > m /\ m # 0
  <2>1. PICK buckets \in Seq(Chunk) : buckets = Buckets
    BY BucketsAre DEF AssemblyInv
  <2>2. PICK l, p \in Nat : l = Len(buckets) /\ p = Intents /\ p # 0
    BY <2>1, CostsAre
  <2>3. turn = p + l + 1
    BY <2>1, <2>2 DEF Qualify, Assembled
  <2>4. p + l + 1 \in Nat /\ p + l + 1 > p
    BY <2>2
  <2> QED
    BY <2>2, <2>3, <2>4
<1>2. turn' = t + 1 /\ UNCHANGED <<budget, hits, selected, covered, used>>
  BY <1>1 DEF Qualify
<1>3. SelectionHolds'
  <2>1. \A d : Owners(d)' = Owners(d)
    BY <1>2 DEF Owners, Holding
  <2> QED
    BY <1>2, <2>1 DEF AssemblyInv, SelectionHolds
<1>4. SharesKept'
  <2>1. turn' # 0 /\ turn' \notin 1..(Intents + 1)
    BY <1>1, <1>2
  <2>2. AmpleShare' => AmpleShare
    BY <1>2 DEF AmpleShare
  <2> QED
    BY <1>2, <2>1, <2>2 DEF AssemblyInv, SharesKept
<1>5. PassedOver'
  <2>1. \A h \in Intent : turn > h
    BY <1>1 DEF Intent
  <2>2. AmpleShare' = AmpleShare
    BY <1>2 DEF AmpleShare
  <2> QED
    BY <1>2, <2>1, <2>2 DEF AssemblyInv, PassedOver, Fits
<1>6. turn' \in Nat /\ turn' # 0 /\ budget' \in Nat \ {0}
  BY <1>2 DEF AssemblyInv
<1>7. hits' \in Seq(Seq(Chunk)) /\ Len(hits') = Intents
  BY <1>1, <1>2 DEF AssemblyInv
<1> QED
  BY <1>3, <1>4, <1>5, <1>6, <1>7 DEF AssemblyInv

\* Every step of the search and of the assembly keeps the invariant.
LEMMA AssemblyStepKeepsInv ==
  AssemblyInv /\ [AssemblyNext]_assemblyVars => AssemblyInv'
<1> SUFFICES ASSUME AssemblyInv, [AssemblyNext]_assemblyVars PROVE AssemblyInv'
  OBVIOUS
<1>1. CASE UNCHANGED assemblyVars
  BY <1>1 DEF assemblyVars, AssemblyInv, SelectionHolds, SharesKept, PassedOver, Owners, Holding, Fits, AmpleShare
<1> QED
  BY <1>1, SearchedKeepsInv, CoverKeepsInv, FillKeepsInv, QualifyKeepsInv DEF AssemblyNext

\* The invariant is what the assembly promises.
LEMMA AssemblyInvImplies ==
  AssemblyInv => EveryIntentHasItsTurn
<1> SUFFICES ASSUME AssemblyInv PROVE EveryIntentHasItsTurn
  OBVIOUS
<1>1. PICK l \in Nat : l = Len(selected)
  BY DEF AssemblyInv, SelectionHolds
<1>2. DOMAIN selected = 1..l
  BY <1>1 DEF AssemblyInv, SelectionHolds
<1>3. PICK f : f = [k \in 1..l |-> selected[k]]
  OBVIOUS
<1>4. f \in Injection(1..l, ToSet(selected)) /\ f \in Surjection(1..l, ToSet(selected))
  BY <1>2, <1>3 DEF Injection, IsInjective, Surjection, ToSet, AssemblyInv, SelectionHolds
<1>5. IsFiniteSet(1..l) /\ Cardinality(1..l) = l
  <2>1. 1 \in Int /\ l \in Int
    OBVIOUS
  <2>2. IsFiniteSet(1..l) /\ Cardinality(1..l) = IF 1 > l THEN 0 ELSE l - 1 + 1
    BY <2>1, FS_Interval
  <2> QED
    BY <2>2
<1>6. Cardinality(ToSet(selected)) = Cardinality(1..l)
  BY <1>4, <1>5, FS_Surjection
<1> QED
  BY <1>1, <1>5, <1>6 DEF AssemblyInv, SelectionHolds, PassedOver, EveryIntentHasItsTurn

-----------------------------------------------------------------------------
(* The evidence of a replayed request.                                     *)

\* The evidence is of no use once it was handed over.
EvidenceInv == stage \in {"index", "store", "listen", "search"} => AssemblyInv

\* Only a search touches the evidence, until it is handed over.
LEMMA AnsweringKeepsEvidence ==
  ASSUME EvidenceInv, [AnsweringNext]_answeringVars
  PROVE  EvidenceInv'
<1>1. CASE Search
  <2>1. AssemblyInv /\ AssemblyNext
    BY <1>1 DEF Search, InStage, EvidenceInv
  <2>2. AssemblyInv'
    BY <2>1, AssemblyStepKeepsInv
  <2> QED
    BY <2>2 DEF EvidenceInv
<1>2. CASE HandedOver
  <2>1. stage' = "answer"
    BY <1>2 DEF HandedOver
  <2> QED
    BY <2>1 DEF EvidenceInv
<1>3. CASE \/ Index \/ Indexed \/ Store \/ Stored \/ Listen \/ Heard
           \/ Generate \/ Remembered \/ Remember \/ UNCHANGED answeringVars
  <2>1. UNCHANGED assemblyVars
    BY <1>3 DEF Index, Indexed, Store, Stored, Listen, Heard, Generate, Remembered,
                Remember, answeringVars
  <2>2. stage' \in {"index", "store", "listen", "search"} => stage \in {"index", "store", "listen", "search"}
    BY <1>3 DEF Index, Indexed, Store, Stored, Listen, Heard, Generate, Remembered,
                Remember, InStage, answeringVars
  <2>3. AssemblyInv => AssemblyInv'
    BY <2>1, AssemblyStepKeepsInv
  <2> QED
    BY <2>2, <2>3 DEF EvidenceInv
<1> QED
  BY <1>1, <1>2, <1>3 DEF AnsweringNext

\* Whatever the backends rank, for any number of intents and any bounds: the
\* selected passages keep the bounds, none is selected twice, and an intent is
\* only passed over when nothing it found still fits, never when each intent's
\* share of the bounds holds any passage.
THEOREM AssemblyAlwaysFair == AnsweringSpec => []AssemblyIsFair
<1>1. AnsweringInit => EvidenceInv
  BY AssemblyStarts DEF AnsweringInit, EvidenceInv
<1>2. EvidenceInv /\ [AnsweringNext]_answeringVars => EvidenceInv'
  BY AnsweringKeepsEvidence
<1>3. EvidenceInv => AssemblyIsFair
  BY AssemblyInvImplies DEF EvidenceInv, AssemblyIsFair
<1> QED
  BY <1>1, <1>2, <1>3, PTL DEF AnsweringSpec

-----------------------------------------------------------------------------
(* The session that keeps the answers.                                     *)

\* The other stages leave the session alone.
LEMMA OnlyRememberWrites ==
  ASSUME [AnsweringNext]_answeringVars
  PROVE  [HistoryNext]_historyVars
  <1>1. CASE Remember
    BY <1>1 DEF Remember
  <1>2. CASE \/ Index \/ Indexed \/ Store \/ Stored \/ Listen \/ Heard
             \/ Search \/ HandedOver \/ Generate \/ Remembered \/ UNCHANGED answeringVars
    <2>1. UNCHANGED historyVars
      BY <1>2 DEF Index, Indexed, Store, Stored, Listen, Heard, Search, HandedOver, Generate,
                  Remembered, answeringVars
    <2> QED BY <2>1
  <1> QED BY <1>1, <1>2 DEF AnsweringNext

\* What the history promises, it promises in a replayed request.
LEMMA AnsweringKeepsHistory == AnsweringSpec => []HistoryInv
  <1>1. AnsweringInit => HistoryInv
    BY HistoryStarts DEF AnsweringInit
  <1>2. HistoryInv /\ [AnsweringNext]_answeringVars => HistoryInv'
    BY OnlyRememberWrites, HistoryStepKeeps
  <1> QED BY <1>1, <1>2, PTL DEF AnsweringSpec

\* However small the lists of a session, eviction never takes what is in use: a
\* write that fits is not refused, the current answer keeps its version, and
\* unless more was in use than may be kept, its claims and their evidence.
THEOREM AnswerAlwaysKept == AnsweringSpec => []AnswerIsKept
  <1>1. HistoryInv => AnswerIsKept
    BY RecordsKeepAnswer
  <1> QED BY <1>1, AnsweringKeepsHistory, PTL

\* Every version accounts for its parent, claim by claim, whatever providers
\* return and whatever was evicted.
THEOREM VersionsAlwaysExplained == AnsweringSpec => []VersionsExplained
  <1>1. HistoryInv => VersionsExplained
    BY RecordsExplain
  <1> QED BY <1>1, AnsweringKeepsHistory, PTL
=============================================================================
