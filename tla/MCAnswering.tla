---------------------------- MODULE MCAnswering ----------------------------
(* An instance of Answering.  Words of one to nine characters are split     *)
(* into chunks of four.  The source may list a final event again under a    *)
(* new ID, as a fragment or as the whole text, and change it.  Passages 1   *)
(* and 2 contradict each other and are dated, 3 contradicts 1 and is not.   *)
(* In a session two claims that cite one passage and answer one intent come *)
(* and go under two IDs, and patches rename the intent or leave it.         *)
EXTENDS Answering

CONSTANTS hot, dog, bun, MaxWords

WordLengths == UNION {[1..n -> {1, 2, 3, 5, 9}] : n \in 1..MaxWords}
EndsOf(lengths) ==
  LET end[i \in 0..Len(lengths)] == IF i = 0 THEN 0 ELSE end[i - 1] + lengths[i] + 1
  IN  [i \in 1..Len(lengths) |-> end[i]]
Texts == {EndsOf(lengths) : lengths \in WordLengths}

Event(id, number, stamp, text, how, final) ==
  [id |-> id, number |-> number, stamp |-> stamp, text |-> text, mode |-> how, final |-> final]
Source ==
  {Event("e0", 0, 0, <<>>, "cumulative", TRUE),
   Event("e1", 1, 0, <<hot>>, "incremental", FALSE),
   Event("e2", 2, 1, <<hot, dog>>, "cumulative", FALSE),
   Event("e3", 3, 1, <<bun>>, "incremental", TRUE),
   Event("e4", 4, 2, <<bun>>, "incremental", TRUE),
   Event("e3", 3, 2, <<hot, bun>>, "cumulative", TRUE),
   Event("e5", 4, 2, <<hot, bun>>, "cumulative", TRUE)}

ShortLists(n) == {<<>>} \cup {<<c>> : c \in 1..n} \cup {<<c, d>> : c, d \in 1..n}
Answers ==
  <<{<<l, m>> : l \in ShortLists(3), m \in {<<>>, <<1>>, <<3, 2>>}},
    {<<l>> : l \in ShortLists(2)} \cup {<<>>},
    {<<<<2, 2, 3>>>>, <<<<3>>>>, <<>>}>>
Tokens == <<1, 2, 3>>

Contradicting == {<<1, 2>>, <<2, 1>>, <<1, 3>>, <<3, 1>>}
Dates == <<1, 2, 0>>
Ranking == <<1, 2, 2>>
Says(id, cites, about, flaws) == [id |-> id, cites |-> cites, about |-> about, flaws |-> flaws]
Old == Says("c1", {1}, {1}, {})
New == Says("c2", {2}, {1}, {})
Both == Says("c3", {1, 2}, {1, 2}, {})
Third == Says("c4", {3}, {3}, {})
Weak == Says("c5", {2}, {1}, {"no overlap"})
Copied == Says("c1", {2}, {1}, {"contradiction"})
Outputs ==
  {<<>>, <<Old, New>>, <<Both, New>>, <<Third, Both>>, <<Old, Weak>>, <<Copied, Old>>}

Settings ==
  {[chunking |-> "short", backend |-> "lexical"], [chunking |-> "long", backend |-> "dense"]}

SamePassage == <<{1}, {1}>>
States(id, says) == [id |-> <<id>>, says |-> says, about |-> {1}]
Returned ==
  {<<>>, <<States(1, 1)>>, <<States(1, 2)>>,
   <<States(1, 1), States(2, 2)>>, <<States(1, 2), States(2, 1)>>}
=============================================================================
