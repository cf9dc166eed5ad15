----------------------------- MODULE IntentPlan -----------------------------
(***************************************************************************)
(* Plans of a multi-intent request (multi_intent.py): a validated plan is  *)
(* built from a provider's response, compared with the previous plan, and  *)
(* searched in waves along its dependencies.                               *)
(*                                                                         *)
(* A question stands for its canonical words, which are also the intent's  *)
(* ID (_intent_id hashes them).  A constraint is a member of a small set.  *)
(***************************************************************************)
EXTENDS Integers, Sequences, FiniteSets

CONSTANTS
  Question,    \* canonical questions, and so intent IDs
  Constraint,  \* values copied from the transcript
  Overlaps,    \* <<q, r>>: near-identical wording (_semantically_overlaps)
  MaxIntents   \* max_intents of the decomposer

ASSUME PlanAssumption ==
  /\ Overlaps \subseteq Question \X Question
  /\ \A q \in Question : <<q, q>> \in Overlaps
  /\ MaxIntents \in Nat \ {0}

\* A response: whether it is for this revision and transcript, local intents
\* in order, shared constraints, and which local intent is a prerequisite
\* (depends_on, refines) of which other.
LocalIntent == [question : Question, own : SUBSET Constraint, dependent : BOOLEAN]

\* An order: nothing in a set of questions waits only for others of the set.
Acyclic(nodes, edges) ==
  \A S \in SUBSET nodes :
    S = {} \/ \E n \in S : \A k \in S : <<k, n>> \notin edges

\* What _validate_provider_plan and the contract ask of a response: it is for
\* this revision, bounded, ordered and drops no value of the transcript.
Provided(raw) == raw.shared \cup UNION {raw.intents[i].own : i \in DOMAIN raw.intents}
WellFormed(raw, stated) ==
  /\ raw.current
  /\ Len(raw.intents) \in 1..MaxIntents
  /\ Acyclic(DOMAIN raw.intents, raw.edges)
  /\ stated \subseteq Provided(raw)

\* The earlier local intent an intent is merged into, itself if none overlaps.
Home(raw) ==
  LET asks(i) == raw.intents[i].question
      home[i \in DOMAIN raw.intents] ==
        LET same == {j \in 1..(i - 1) : home[j] = j /\ <<asks(i), asks(j)>> \in Overlaps}
        IN  IF same = {} THEN i ELSE CHOOSE j \in same : \A k \in same : j <= k
  IN  home

\* The plan a response is normalised into: overlapping intents are one, with
\* the constraints of all of them, and dependencies follow the merge.
MergeHomes(raw) == {Home(raw)[i] : i \in DOMAIN raw.intents}
\* Mutant: the constraints of a merged intent are dropped.
MergedOwnBug(raw, h) == raw.intents[h].own
MergedOwn(raw, h) == UNION {raw.intents[i].own : i \in {j \in DOMAIN raw.intents : Home(raw)[j] = h}}
MergedEdges(raw) ==
  {e \in {<<Home(raw)[d[1]], Home(raw)[d[2]]>> : d \in raw.edges} : e[1] # e[2]}
\* Constraints and dependencies get their IDs from what they say, except that
\* the constraints of an intent that is merged into another keep the distinct
\* IDs of the response; the contract refuses a plan that holds an ID twice.
IdsDistinct(raw) ==
  /\ \A h, k \in MergeHomes(raw) : h # k => raw.intents[h].own \cap raw.intents[k].own = {}
  /\ \A h \in MergeHomes(raw) : raw.intents[h].own \cap raw.shared = {}
  /\ Cardinality(MergedEdges(raw)) =
       Cardinality({d \in raw.edges : Home(raw)[d[1]] # Home(raw)[d[2]]})

Name(raw, h) == raw.intents[h].question
Fingerprint(own, shared, dependent) == [own |-> own, shared |-> shared, dependent |-> dependent]
Normalised(raw) ==
  [print |-> [q \in {Name(raw, h) : h \in MergeHomes(raw)} |->
                LET h == CHOOSE k \in MergeHomes(raw) : Name(raw, k) = q
                IN  Fingerprint(MergedOwn(raw, h), raw.shared, raw.intents[h].dependent)],
   edges |-> {<<Name(raw, e[1]), Name(raw, e[2])>> : e \in MergedEdges(raw)}]

Usable(raw, stated) ==
  /\ WellFormed(raw, stated)
  /\ IdsDistinct(raw)
  /\ Acyclic(MergeHomes(raw), MergedEdges(raw))

---------------------------------------------------------------------------
\* A plan: the fingerprint of every intent, the prerequisites, whether it is
\* the fallback, and what it keeps of the plan before it (base, a history of
\* which plan that was).
Intents(plan) == DOMAIN plan.print
Prerequisites(plan, q) == {p \in Intents(plan) : <<p, q>> \in plan.edges}

\* Mutant: an intent is recognised by its question alone.
PreservedBug(plan, previous) == Intents(plan) \cap Intents(previous)
\* _revision_metadata: intents whose fingerprint did not change.
Preserved(plan, previous) ==
  {q \in Intents(plan) \cap Intents(previous) : plan.print[q] = previous.print[q]}

\* _reusable_results: the results of preserved intents, less those whose
\* prerequisite is among the previous intents that were not preserved, and
\* what depends on these in turn.
Affected(plan, old) ==
  LET grow[k \in 0..Cardinality(Intents(plan))] ==
        IF k = 0 THEN old \ plan.preserved
        ELSE grow[k - 1] \cup {q \in Intents(plan) : Prerequisites(plan, q) \cap grow[k - 1] # {}}
  IN  grow[Cardinality(Intents(plan))]
Reusable(plan, items) ==
  IF plan.fallback THEN {}
  ELSE {q \in (plan.preserved \cap DOMAIN items) \ Affected(plan, DOMAIN items) :
          items[q].status = "completed"}

\* run_intent: an intent whose prerequisites lack evidence is not searched;
\* a supported result is reused; otherwise its backends are asked.  "from" is
\* the retrieval that searched, "context" the prerequisite searches it used
\* (a history; the code recomputes its context on reuse).
Blank(plan, q, r) ==
  [status |-> "failed", supported |-> FALSE, reused |-> FALSE, from |-> r, context |-> {}]
Searched(plan, q, done, found, r) ==
  [Blank(plan, q, r) EXCEPT
     !.status = IF found[q] = "error" THEN "failed" ELSE "completed",
     !.supported = found[q] = "support",
     !.context = {<<p, done[p].from>> : p \in Prerequisites(plan, q)}]
\* Mutant: a prerequisite that was searched without support is good enough.
ItemWeakBug(plan, q, done, kept, found, r) ==
  IF \E p \in Prerequisites(plan, q) : done[p].status # "completed"
  THEN Blank(plan, q, r)
  ELSE IF q \in DOMAIN kept /\ kept[q].supported THEN [kept[q] EXCEPT !.reused = TRUE]
  ELSE Searched(plan, q, done, found, r)
Item(plan, q, done, kept, found, r) ==
  IF \E p \in Prerequisites(plan, q) : ~(done[p].status = "completed" /\ done[p].supported)
  THEN Blank(plan, q, r)
  ELSE IF q \in DOMAIN kept /\ kept[q].supported THEN [kept[q] EXCEPT !.reused = TRUE]
  ELSE Searched(plan, q, done, found, r)

\* retrieve_multi_intent: waves of the intents whose prerequisites are done.
Waves(plan, kept, found, r) ==
  LET n == Cardinality(Intents(plan))
      ready(done) == {q \in Intents(plan) \ DOMAIN done : Prerequisites(plan, q) \subseteq DOMAIN done}
      wave[k \in 0..n] ==
        IF k = 0 THEN [q \in {} |-> {}]
        ELSE LET done == wave[k - 1]
             IN  [q \in DOMAIN done \cup ready(done) |->
                    IF q \in DOMAIN done THEN done[q] ELSE Item(plan, q, done, kept, found, r)]
  IN  wave[n]
=============================================================================
