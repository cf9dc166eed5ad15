------------------------------ MODULE Assembly ------------------------------
(***************************************************************************)
(* Evidence of a multi-intent request (multi_intent.py): the ranked lists  *)
(* of the backends are fused per intent, the intents' lists are fused into *)
(* buckets, and passages are selected under a size and a token budget:     *)
(* first one for every intent, then in the order of the buckets.  What is  *)
(* selected and aligned with an intent is its evidence.                    *)
(*                                                                         *)
(* Chunks are numbered in the order of their IDs, backends and intents in  *)
(* the order of the configuration and of the plan.                         *)
(***************************************************************************)
EXTENDS Integers, Sequences, SequencesExt, FiniteSetsExt, Functions

CONSTANTS
  Intents,    \* how many intents the plan has
  Cost,       \* Cost[c]: tokens of chunk c
  Budgets,    \* context_budget_tokens of an instance
  TopK, RrfK,
  Rankings    \* Rankings[i]: what the backends may answer for intent i; one
              \* that raised is not in the sequence

Intent == 1..Intents
Chunk == DOMAIN Cost

ASSUME AssemblyAssumption ==
  /\ Intents \in Nat \ {0} /\ TopK \in Nat \ {0} /\ RrfK \in Nat \ {0}
  /\ Budgets \subseteq Nat \ {0}
  /\ Cost \in Seq(Nat \ {0})
  /\ DOMAIN Rankings = Intent
  /\ \A i \in Intent : \A lists \in Rankings[i] : lists \in Seq(Seq(Chunk))

VARIABLES
  budget,
  hits,       \* hits[i]: the fused list of intent i, empty if it failed
  selected,   \* chunks in the order of their selection
  covered,    \* selected_intents
  used,       \* used_tokens
  turn,       \* the intent, then the bucket, to consider
  evidence    \* answer_evidence_hits: the intents a chunk is evidence for

assemblyVars == <<budget, hits, selected, covered, used, turn, evidence>>
NoEvidence == [c \in {} |-> {}]

---------------------------------------------------------------------------
\* Reciprocal ranks, over a common denominator.
Denominator == FoldFunction(LAMBDA x, y : x * y, 1, [k \in 1..TopK |-> RrfK + k])
Reciprocal(rank) == Denominator \div (RrfK + rank)

Smaller(s, t) ==
  \E k \in DOMAIN s : s[k] < t[k] /\ \A j \in 1..(k - 1) : s[j] = t[j]
RankOf(list, c) == CHOOSE k \in DOMAIN list : list[k] = c
Holding(lists, c) == {b \in DOMAIN lists : c \in ToSet(lists[b])}
Ranks(lists, c) == {RankOf(lists[b], c) : b \in Holding(lists, c)}
Rrf(lists, c) == SumFunction([b \in Holding(lists, c) |-> Reciprocal(RankOf(lists[b], c))])
Members(lists) == UNION {ToSet(lists[b]) : b \in DOMAIN lists}
Key(lists, fused, c) ==
  <<IF fused THEN 0 - Rrf(lists, c) ELSE 0, Min(Holding(lists, c)), Min(Ranks(lists, c)), c>>
\* In the order of their keys: the k-th is the one that k - 1 others precede.
Sorted(lists, fused) ==
  LET key == [c \in Members(lists) |-> Key(lists, fused, c)]
      place == [c \in Members(lists) |-> 1 + Cardinality({d \in Members(lists) : Smaller(key[d], key[c])})]
  IN  [k \in 1..Cardinality(Members(lists)) |-> CHOOSE c \in Members(lists) : place[c] = k]
Cutoff(list) == SubSeq(list, 1, IF Len(list) < TopK THEN Len(list) ELSE TopK)

\* _normalise_backend_hits: a backend's duplicates are dropped.
Distinct(list) ==
  FoldLeft(LAMBDA seen, c : IF c \in ToSet(seen) THEN seen ELSE Append(seen, c), <<>>, list)
Normal(lists) == [b \in DOMAIN lists |-> Cutoff(Distinct(lists[b]))]
\* _fuse_backend_hits: by reciprocal rank when two backends or more found any.
FuseBackends(lists) ==
  Cutoff(Sorted(lists, Cardinality({b \in DOMAIN lists : lists[b] # <<>>}) > 1))
\* run_intent: what it found; nothing when every backend raised.
Found(lists) == FuseBackends(Normal(lists))
\* _global_fusion_buckets: over the intents' lists.
Buckets == Sorted(hits, TRUE)
Owners(c) == Holding(hits, c)

---------------------------------------------------------------------------
AssemblyInit ==
  /\ budget \in Budgets
  /\ hits = <<>> /\ selected = <<>> /\ covered = {} /\ used = 0
  /\ turn = 0 /\ evidence = NoEvidence

Searched ==
  /\ turn = 0 /\ Len(hits) < Intents
  /\ \E lists \in Rankings[Len(hits) + 1] : hits' = Append(hits, Found(lists))
  /\ turn' = IF Len(hits) + 1 = Intents THEN 1 ELSE 0
  /\ UNCHANGED <<budget, selected, covered, used, evidence>>

\* _assemble_evidence, consider: a chunk is taken if there is room.
Fits(c) == Len(selected) < TopK /\ used + Cost[c] <= budget
Take(c) ==
  /\ selected' = Append(selected, c)
  /\ covered' = covered \cup Owners(c)
  /\ used' = used + Cost[c]

\* Coverage pass: the next intent gets its best candidate that fits.
Candidates(i) == {k \in DOMAIN Buckets : i \in Owners(Buckets[k])}
\* Mutant: only the best candidate is tried.
ReachBug(i) == {k \in Candidates(i) : k = Min(Candidates(i)) /\ Fits(Buckets[k])}
Reach(i) == {k \in Candidates(i) : Fits(Buckets[k])}
Cover ==
  /\ turn \in Intent
  /\ IF turn \in covered \/ Reach(turn) = {} THEN UNCHANGED <<selected, covered, used>>
     ELSE Take(Buckets[Min(Reach(turn))])
  /\ turn' = turn + 1
  /\ UNCHANGED <<budget, hits, evidence>>

\* Global fill, in the order of the buckets.
Fill ==
  LET c == Buckets[turn - Intents]
  IN  /\ turn > Intents /\ turn <= Intents + Len(Buckets)
      /\ IF c \notin ToSet(selected) /\ Fits(c) THEN Take(c) ELSE UNCHANGED <<selected, covered, used>>
      /\ turn' = turn + 1
      /\ UNCHANGED <<budget, hits, evidence>>

Assembled == turn = Intents + Len(Buckets) + 1

\* _qualify_assembled_evidence: only for the intents whose terms the passage
\* has (intent_evidence_alignment; which they are is not modelled).
Qualify ==
  /\ Assembled
  /\ \E aligned \in SUBSET {pair \in Intent \X ToSet(selected) : pair[1] \in Owners(pair[2])} :
       evidence' = [c \in {pair[2] : pair \in aligned} |-> {pair[1] : pair \in {q \in aligned : q[2] = c}}]
  /\ turn' = turn + 1
  /\ UNCHANGED <<budget, hits, selected, covered, used>>

AssemblyNext == Searched \/ Cover \/ Fill \/ Qualify
AssemblySpec == AssemblyInit /\ [][AssemblyNext]_assemblyVars

---------------------------------------------------------------------------
\* Whatever the backends rank, the selected passages keep the bounds, none is
\* selected twice, and an intent stays without a passage only if no candidate
\* of its own would still fit: never when every intent's share of the bounds
\* holds any passage, because no passage is taken to fill up before each
\* intent has had its turn (_assemble_evidence).
AmpleShare ==
  TopK >= Intents /\ \A c \in Chunk : Cost[c] * Intents <= budget
EveryIntentHasItsTurn ==
  /\ Len(selected) <= TopK /\ used <= budget
  /\ used = SumFunctionOnSet(Cost, ToSet(selected))
  /\ Cardinality(ToSet(selected)) = Len(selected)
  /\ \A i \in Intent :
       turn > i /\ hits[i] # <<>> /\ i \notin covered =>
         /\ ~AmpleShare
         /\ \A k \in DOMAIN hits[i] : ~Fits(hits[i][k])
=============================================================================
