---------------------------- MODULE MultiIntent ----------------------------
(***************************************************************************)
(* MultiIntentRetriever (multi_intent.py): searches run in the scheduler's *)
(* threads and the session's final decomposition in its event loop; they   *)
(* share the decomposition cache, the latest plan and the results of       *)
(* earlier retrievals under one lock, which a decomposition holds across   *)
(* its provider calls.  Between decomposing and reading the previous       *)
(* result, and between that and publishing, the lock is free.              *)
(***************************************************************************)
EXTENDS IntentPlan

CONSTANTS
  Text,         \* canonical queries
  Stated,       \* Stated[t]: the constraint values _extract_constraints finds in t
  Responses,    \* Responses[t]: what a provider may answer about t
  Sole,         \* Sole[t]: t taken as one question, the fallback's only intent
  MaxRepairs,   \* max_repair_attempts
  MaxJobs       \* bound on the calls of a session

ASSUME RetrieverAssumption ==
  /\ Stated \in [Text -> SUBSET Constraint]
  /\ Sole \in [Text -> Question]
  /\ DOMAIN Responses = Text
  /\ \A t \in Text : \A raw \in Responses[t] :
       /\ raw.shared \subseteq Constraint
       /\ raw.intents \in Seq(LocalIntent)
       /\ raw.edges \subseteq (DOMAIN raw.intents) \X (DOMAIN raw.intents)
  /\ MaxRepairs \in 0..2 /\ MaxJobs \in Nat

VARIABLES
  job,          \* the calls so far: what each asks and where it is
  owner,        \* the job that holds the lock across a provider call, 0 if none
  attempt,      \* provider attempts of the owner
  cache,        \* _decomposition_by_query
  latest,       \* the key of _latest_plan, NoKey before the first
  lastDecomposition,  \* its key
  results,      \* _result_by_revision
  lastResult    \* key of last_result: retrieval and parent revision

multiVars == <<job, owner, attempt, cache, latest, lastDecomposition, results, lastResult>>

Job == 1..MaxJobs
Jobs == DOMAIN job
NoKey == <<0>>
NoPlan == [print |-> [q \in {} |-> {}], edges |-> {}, fallback |-> TRUE, preserved |-> {}, base |-> NoKey]
NoItems == [q \in {} |-> {}]
NoResult == [key |-> NoKey, source |-> NoKey, items |-> NoItems]
Key(j) == <<job[j].parent, job[j].text>>
PlanOf(key) == IF key = NoKey THEN NoPlan ELSE cache[key]
Searches == {j \in Jobs : job[j].retrieval # 0}
ResultOf(r) == IF r \in DOMAIN results THEN results[r] ELSE NoResult
LastParent == IF Jobs = {} THEN 0 ELSE job[Len(job)].parent
Final == Jobs \ Searches
Busy(j) == job[j].at \notin {"done", "raised"}

MultiInit ==
  /\ job = <<>> /\ owner = 0 /\ attempt = 0
  /\ cache = [k \in {} |-> NoPlan]
  /\ latest = NoKey /\ lastDecomposition = NoKey
  /\ results = [r \in {} |-> NoResult] /\ lastResult = <<0, 0>>

---------------------------------------------------------------------------
Called(p, t, r) ==
  [at |-> "decompose", parent |-> p, text |-> t, retrieval |-> r,
   kept |-> NoItems, source |-> NoKey]
Call(p, t, r) ==
  /\ Len(job) < MaxJobs
  /\ job' = Append(job, Called(p, t, r))
  /\ UNCHANGED <<owner, attempt, cache, latest, lastDecomposition, results, lastResult>>
NextRetrieval == Cardinality(Searches) + 1

\* An event's request runs in a worker thread.  Revisions without a call are
\* not numbered: only the order of revisions counts.
Ask(t) == Final = {} /\ Call(LastParent + 1, t, NextRetrieval)

\* After the final event the event loop decomposes the final query itself
\* (decompose_for_query), which may be the query of the last request ...
Finalise ==
  /\ Final = {}
  /\ \/ Jobs # {} /\ Call(LastParent, job[Len(job)].text, 0)
     \/ \E t \in Text : Call(LastParent + 1, t, 0)

\* ... and finish may schedule a search for it.
Recover == \E f \in Final : ~Busy(f) /\ Call(job[f].parent, job[f].text, NextRetrieval)

Decomposed(j) == IF j \in Searches THEN "read" ELSE "done"

\* _decompose: the cached plan, or the lock is kept for the provider.
Lookup(j) ==
  /\ job[j].at = "decompose" /\ owner = 0
  /\ IF Key(j) \in DOMAIN cache
     THEN /\ job' = [job EXCEPT ![j].at = Decomposed(j)]
          /\ UNCHANGED <<owner, attempt>>
     ELSE /\ job' = [job EXCEPT ![j].at = "provider"]
          /\ owner' = j /\ attempt' = 1
  /\ UNCHANGED <<cache, latest, lastDecomposition, results, lastResult>>

\* The plan preserved intents are computed against.
Previous(j) ==
  IF latest # NoKey /\ job[j].parent > latest[1] THEN latest ELSE NoKey

Commit(j, plan) ==
  LET newer == latest = NoKey \/ job[j].parent > latest[1]
      current == latest = NoKey \/ job[j].parent >= latest[1]
  IN  /\ cache' = [k \in DOMAIN cache \cup {Key(j)} |-> IF k = Key(j) THEN plan ELSE cache[k]]
      /\ lastDecomposition' = IF current THEN Key(j) ELSE lastDecomposition
      /\ latest' = IF newer THEN Key(j) ELSE latest
      /\ job' = [job EXCEPT ![j].at = Decomposed(j)]
      /\ owner' = 0 /\ attempt' = 0
      /\ UNCHANGED <<results, lastResult>>

\* The explicit fallback: the query as one question, never "success".
Fallback(t) ==
  [print |-> [q \in {Sole[t]} |-> Fingerprint(Stated[t], {}, FALSE)],
   edges |-> {}, fallback |-> TRUE, preserved |-> {}, base |-> NoKey]

\* A valid response: normalised and compared with the previous plan.
Readings ==
  [t \in Text |-> {Normalised(raw) : raw \in {r \in Responses[t] : Usable(r, Stated[t])}}]
Accepted(j, plan) ==
  [print |-> plan.print, edges |-> plan.edges, fallback |-> FALSE,
   preserved |-> IF Previous(j) = NoKey THEN {} ELSE Preserved(plan, PlanOf(Previous(j))),
   base |-> Previous(j)]

\* Mutant: the count of attempts starts again.
RepairResetBug(j) ==
  /\ attempt' = IF attempt <= MaxRepairs THEN attempt + 1 ELSE 1
  /\ UNCHANGED <<job, owner, cache, latest, lastDecomposition, results, lastResult>>
\* An invalid answer or a timeout is tried again with feedback, up to a bound.
Repair(j) ==
  IF attempt <= MaxRepairs
  THEN /\ attempt' = attempt + 1
       /\ UNCHANGED <<job, owner, cache, latest, lastDecomposition, results, lastResult>>
  ELSE Commit(j, Fallback(job[j].text))

Respond(j) ==
  /\ owner = j
  /\ \/ \E plan \in Readings[job[j].text] : Commit(j, Accepted(j, plan))
     \/ /\ \E raw \in Responses[job[j].text] : ~Usable(raw, Stated[job[j].text])
        /\ Repair(j)

TimesOut(j) == owner = j /\ Repair(j)

\* A provider error is not repaired.
Breaks(j) == owner = j /\ Commit(j, Fallback(job[j].text))

---------------------------------------------------------------------------
\* search_with_revision takes the lock again to read the previous result ...
ReadPrevious(j) ==
  LET r == job[j].retrieval
      previous == ResultOf(r - 1)
      keep == Reusable(cache[Key(j)], previous.items)
  IN  /\ job[j].at = "read" /\ owner = 0
      /\ job' = [job EXCEPT ![j].at = "search", ![j].source = previous.key,
                            ![j].kept = [q \in keep |-> previous.items[q]]]
      /\ UNCHANGED <<owner, attempt, cache, latest, lastDecomposition, results, lastResult>>

\* Mutant: whoever publishes last wins.
NewestBug(r, p) == TRUE
Newest(r, p) == r > lastResult[1] \/ (r = lastResult[1] /\ p >= lastResult[2])

\* ... and once more to publish what the waves found; if every intent failed
\* it raises.  What a call used is forgotten when it returns.
Returned(call, failed) ==
  [call EXCEPT !.at = IF failed THEN "raised" ELSE "done", !.kept = NoItems, !.source = NoKey]
Search(j) ==
  LET r == job[j].retrieval
      plan == cache[Key(j)]
  IN  /\ job[j].at = "search" /\ owner = 0
      /\ \E found \in [Intents(plan) -> {"support", "weak", "error"}] :
           LET items == Waves(plan, job[j].kept, found, r)
           IN  /\ results' = [k \in DOMAIN results \cup {r} |->
                                IF k = r THEN [key |-> Key(j), source |-> job[j].source, items |-> items]
                                ELSE results[k]]
               /\ job' = [job EXCEPT ![j] = Returned(@, \A q \in DOMAIN items : items[q].status = "failed")]
      /\ lastResult' = IF Newest(r, job[j].parent) THEN <<r, job[j].parent>> ELSE lastResult
      /\ UNCHANGED <<owner, attempt, cache, latest, lastDecomposition>>

JobStep(j) ==
  Lookup(j) \/ Respond(j) \/ TimesOut(j) \/ Breaks(j) \/ ReadPrevious(j) \/ Search(j)

MultiNext ==
  \/ \E t \in Text : Ask(t)
  \/ Finalise
  \/ Recover
  \/ \E j \in Jobs : JobStep(j)

MultiSpec == MultiInit /\ [][MultiNext]_multiVars

\* Some thread that can go on does, and wait_for ends a provider call in time.
MultiFairSpec == MultiSpec /\ WF_multiVars(\E j \in Jobs : JobStep(j))

---------------------------------------------------------------------------
\* However a response words its intents, the accepted plan holds every value
\* the transcript states and an order to search in (_normalise_provider_plan).
PlansKeepTheRequest ==
  \A key \in DOMAIN cache :
    LET plan == cache[key]
    IN  /\ Stated[key[2]] \subseteq
             UNION {plan.print[q].own \cup plan.print[q].shared : q \in Intents(plan)}
        /\ plan.edges \subseteq Intents(plan) \X Intents(plan)
        /\ Acyclic(Intents(plan), plan.edges)

\* A late worker never brings an older result or plan back as the last one.
LastNeverGoesBack ==
  [][/\ lastResult'[1] >= lastResult[1]
     /\ lastResult'[1] = lastResult[1] => lastResult'[2] >= lastResult[2]
     /\ lastDecomposition # NoKey => lastDecomposition'[1] >= lastDecomposition[1]]_multiVars

\* Every intent of a searched plan gets an outcome, and none is completed
\* without the evidence of what it depends on, searched or reused.
OutcomesFollowDependencies ==
  \A r \in DOMAIN results :
    LET plan == cache[results[r].key]
        items == results[r].items
    IN  /\ DOMAIN items = Intents(plan)
        /\ \A q \in {i \in DOMAIN items : items[i].status = "completed"} :
             \A p \in Prerequisites(plan, q) : items[p].status = "completed" /\ items[p].supported

\* In whatever order calls decompose, read and publish, an outcome is of one
\* search, which every retrieval since has reused for a plan that keeps the
\* intent.  It was found for the intent as this plan has it, constraints and
\* relationship too, unless one of these retrievals was compared with a plan of
\* an older revision than the result it read: its predecessor had been overtaken
\* (_reusable_results takes the intent's ID, which is its question, for both).
IntentIn(r, q) == cache[results[r].key].print[q]
Overtook(r) == cache[results[r].key].base[1] < results[r].source[1]
ReuseIsTraced ==
  \A r \in DOMAIN results : \A q \in DOMAIN results[r].items :
    LET from == results[r].items[q].from
        since == (from + 1)..r
    IN  /\ from \in DOMAIN results /\ q \in DOMAIN results[from].items
        /\ ~results[from].items[q].reused
        /\ \A k \in since :
             /\ k \in DOMAIN results /\ q \in cache[results[k].key].preserved
             /\ results[k].items[q] = [results[from].items[q] EXCEPT !.reused = TRUE]
        /\ IntentIn(from, q) = IntentIn(r, q) \/ \E k \in since : Overtook(k)

\* Each retrieval read the result of the plan its own plan was compared with.
InOrder ==
  \A r \in DOMAIN results :
    results[r].source # NoKey => cache[results[r].key].base = results[r].source

\* A dependent question is affected when its prerequisite changed, even if its
\* own wording is identical: what is reused was found with the evidence of the
\* prerequisites it has now.
DependentsFollow ==
  InOrder =>
    \A r \in DOMAIN results : \A q \in DOMAIN results[r].items :
      LET items == results[r].items
      IN  items[q].reused =>
            items[q].context =
              {<<p, items[p].from>> : p \in Prerequisites(cache[results[r].key], q)}

\* Whatever the provider does, the calls end: no worker keeps the lock.
EveryCallEnds == []<>(\A j \in Jobs : ~Busy(j))
=============================================================================
