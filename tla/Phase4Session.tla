---------------------------- MODULE Phase4Session ----------------------------
(***************************************************************************)
(* One session of Phase 4 (phase4.py): follow-up patches applied to the    *)
(* Phase4SessionStore, targeted retrieval run by the coordinator for what  *)
(* a patch left without evidence, and answers that the publisher generates *)
(* from one revision and publishes only into that revision.                *)
(*                                                                         *)
(* An intent of the session is a slot and the revision that gave it its    *)
(* present identity: a patch that revises an intent replaces it by one     *)
(* with a fresh ID.  Evidence and claims are the intents they serve; which *)
(* passage supports which text is left out.  What the dependency analysis  *)
(* keeps is a choice between the limits the analysis respects.             *)
(*                                                                         *)
(* A plan is the candidate revision of the patch that made it.  A task is  *)
(* a plan and an intent.  The scheduler is reduced to what it promises     *)
(* (module Scheduler): a request gets a result, or none when its scheduler *)
(* is closed, and completed results are accepted or not by the bridge.     *)
(***************************************************************************)
EXTENDS Integers, FiniteSets

CONSTANTS
  Intent,      \* slots for the active intents
  Generation,  \* generations and presentations that can be under way
  MaxRevision, \* bound on state_revision
  MaxPlans,    \* bound on the semantic patches of a session
  MaxRuntimes  \* bound on the scheduler runtimes a session goes through

ASSUME Phase4Assumption ==
  /\ IsFiniteSet(Intent) /\ Intent # {}
  /\ MaxRevision \in Nat
  /\ MaxPlans \in Nat
  /\ MaxRuntimes \in Nat

Revision == 0..MaxRevision
Plan == 1..MaxRevision

VARIABLES
  rev,        \* state_revision
  active,     \* slots of active_intents
  born,       \* the revision that gave the slot's intent its ID
  evidence,   \* <<slot, born>> of current_evidence
  claims,     \* <<slot, born>> of current_claims
  pending,    \* pending_update: requested_kind, "blocked", or "none"
  answer,     \* answer_status
  qualified,  \* the current version has unresolved intents
  plan,       \* status of the selective update plans
  task,       \* status of their tasks
  runtimes,   \* runtimes created so far
  candidate,  \* _candidate_state_revision of the bridge, 0 without a runtime
  bound,      \* request_by_task of the present runtime
  consumers,  \* live _consume_task_result tasks, with their request's result
  work,       \* what a generation request is for, "idle" when free
  base,       \* its expected_revision
  seen        \* the evidence in the state it was started from

storeVars == <<rev, active, born, evidence, claims, pending, answer, qualified, plan, task>>
coordinatorVars == <<runtimes, candidate, bound, consumers>>
publisherVars == <<work, base, seen>>
phase4Vars == <<storeVars, coordinatorVars, publisherVars>>

Identity == Intent \X Revision
Pending == {"none", "semantic", "reformat", "blocked"}
AnswerStatus == {"unavailable", "current", "partial", "failed", "stale", "presentation_pending"}
PlanStatus == {"none", "pending", "running", "completed", "blocked", "superseded"}
TaskStatus == {"none", "queued", "running", "completed", "failed", "discarded", "superseded"}
Consumer == [plan : Plan, intent : Intent,
             result : {"searching", "closed", "accepted", "rejected"}]

Phase4TypeOK ==
  /\ rev \in Revision
  /\ active \in SUBSET Intent
  /\ born \in [Intent -> Revision]
  /\ evidence \in SUBSET Identity
  /\ claims \in SUBSET Identity
  /\ pending \in Pending
  /\ answer \in AnswerStatus
  /\ qualified \in BOOLEAN
  /\ plan \in [Plan -> PlanStatus]
  /\ task \in [Plan -> [Intent -> TaskStatus]]
  /\ runtimes \in 0..MaxRuntimes
  /\ candidate \in Revision
  /\ bound \in SUBSET (Plan \X Intent)
  /\ consumers \in SUBSET Consumer
  /\ work \in [Generation -> {"idle", "answer", "presentation"}]
  /\ base \in [Generation -> Revision]
  /\ seen \in [Generation -> SUBSET Identity]

\* create_session, with any nonempty set of initial intents.
Phase4Init ==
  /\ rev = 0
  /\ active \in (SUBSET Intent) \ {{}}
  /\ born = [i \in Intent |-> 0]
  /\ evidence = {} /\ claims = {}
  /\ pending = "none"
  /\ answer = "unavailable"
  /\ qualified = FALSE
  /\ plan = [c \in Plan |-> "none"]
  /\ task = [c \in Plan |-> [i \in Intent |-> "none"]]
  /\ runtimes = 0 /\ candidate = 0
  /\ bound = {} /\ consumers = {}
  /\ work = [g \in Generation |-> "idle"]
  /\ base = [g \in Generation |-> 0]
  /\ seen = [g \in Generation |-> {}]

-----------------------------------------------------------------------------
(* Helpers.                                                                *)

Outstanding == {"queued", "running"}
Usable == answer \in {"current", "partial", "presentation_pending"}

\* The intents in S with their present identity.
Known(S) == {<<i, born[i]>> : i \in S}

Tasks(c) == {i \in Intent : task[c][i] # "none"}

\* Bug: a late result revives a superseded plan.
UpdatedRevivedBug(c, t) ==
  IF \E i \in Intent : t[i] \in Outstanding THEN "running"
  ELSE IF \E i \in Intent : t[i] \in {"failed", "discarded"} THEN "blocked"
  ELSE "completed"

\* _updated_plan_status of plan c when its tasks are t.
UpdatedPlanStatus(c, t) ==
  IF plan[c] = "superseded" THEN "superseded"
  ELSE IF \E i \in Intent : t[i] \in Outstanding THEN "running"
  ELSE IF \E i \in Intent : t[i] \in {"failed", "discarded"} THEN "blocked"
  ELSE "completed"

\* record_selective_task_result and record_discarded_selective_result.
RecordTask(c, i, status) ==
  LET t == [task[c] EXCEPT ![i] = status]
  IN  /\ task' = [task EXCEPT ![c] = t]
      /\ plan' = [plan EXCEPT ![c] = UpdatedPlanStatus(c, t)]

\* The tasks of plan c once it is superseded.
Withdrawn(c) == [i \in Intent |-> IF task[c][i] \in Outstanding THEN "superseded" ELSE task[c][i]]

\* _supersede_outstanding_selective_plans
Obsolete == {c \in Plan : plan[c] \in {"pending", "running"}}

\* The plan pending_update refers to: the newest one.
PendingPlans == {c \in Plan : /\ pending = "semantic" /\ plan[c] # "none"
                              /\ \A d \in Plan : plan[d] # "none" => d <= c}

-----------------------------------------------------------------------------
(* apply_patch: the store's transition, and with it the coordinator's when *)
(* the patch goes through the coordinator and not directly to the store.   *)

Supersede(S) ==
  /\ plan' = [c \in Plan |-> IF c \in S THEN "superseded" ELSE plan[c]]
  /\ task' = [c \in Plan |-> IF c \in S THEN Withdrawn(c) ELSE task[c]]

\* The bridge is advanced before the old work is superseded; whatever is still
\* searching can only be rejected from here on.
AdvanceCandidate ==
  \/ UNCHANGED coordinatorVars
  \/ /\ candidate # 0
     /\ candidate' = rev + 1
     /\ UNCHANGED <<runtimes, bound, consumers>>

\* Bug: the pending update survives its withdrawn plan.
ClarifyBug ==
  /\ rev < MaxRevision
  /\ rev' = rev + 1
  /\ Supersede(Obsolete)
  /\ AdvanceCandidate
  /\ UNCHANGED <<active, born, evidence, claims, pending, answer, qualified, publisherVars>>

\* A patch that asks a question back: the semantic state is kept, work is not.
Clarify ==
  /\ rev < MaxRevision
  /\ rev' = rev + 1
  /\ pending' = "none"
  /\ Supersede(Obsolete)
  /\ AdvanceCandidate
  /\ UNCHANGED <<active, born, evidence, claims, answer, qualified, publisherVars>>

\* Formatting needs an answer to format; without one it is kept as blocked.
Format ==
  /\ rev < MaxRevision
  /\ rev' = rev + 1
  /\ pending' = IF Usable THEN "reformat" ELSE "blocked"
  /\ answer' = IF Usable THEN "presentation_pending" ELSE answer
  /\ Supersede(Obsolete)
  /\ AdvanceCandidate
  /\ UNCHANGED <<active, born, evidence, claims, qualified, publisherVars>>

\* Bug: evidence of intents that are no longer asked is rebound too.
CarriedBug(kept, fresh, kind) == {i \in Intent : <<i, born[i]>> \in evidence}
\* Slots whose evidence _analyze_invalidation may rebind: unchanged intents and
\* revised ones, never those of another topic.
Carried(kept, fresh, kind) ==
  {i \in Intent : <<i, born[i]>> \in evidence} \cap
    (kept \cup IF kind = "revise" THEN fresh ELSE {})

\* What the analysis may decide: which evidence is reused, which claims are
\* preserved, and which intents are retrieved for.  A new intent always is, an
\* unchanged one exactly when it lost a claim.
Analysis(kept, fresh, kind, reused, preserved, targeted) ==
  LET claimed == {i \in kept : <<i, born[i]>> \in claims}
  IN  /\ reused \subseteq Carried(kept, fresh, kind)
      /\ preserved \subseteq {i \in reused : <<i, born[i]>> \in claims}
      /\ targeted \subseteq kept \cup fresh
      /\ kind # "revise" => fresh \subseteq targeted
      /\ claimed \ preserved \subseteq targeted
      /\ targeted \cap kept \subseteq claimed

\* _dispatch_plan of the tasks `asked' of plan c: the scheduler takes some and
\* raises for the others (request limit, full queue).
Taken(c, taken) ==
  /\ bound' = (IF candidate = 0 THEN {} ELSE bound) \cup ({c} \X taken)
  /\ consumers' = consumers \cup
       {[plan |-> c, intent |-> i, result |-> "searching"] : i \in taken}

\* _runtime_for, and advance_candidate.
Runtime(c) ==
  /\ candidate = 0 => runtimes < MaxRuntimes
  /\ runtimes' = IF candidate = 0 THEN runtimes + 1 ELSE runtimes
  /\ candidate' = c

\* The tasks of a new plan, and its status.
NewTasks(targeted, taken, dispatched) ==
  [i \in Intent |-> IF i \notin targeted THEN "none"
                    ELSE IF ~dispatched THEN "queued"
                    ELSE IF i \in taken THEN "running" ELSE "failed"]
NewStatus(targeted, taken, dispatched) ==
  IF targeted = {} THEN "completed"
  ELSE IF ~dispatched THEN "pending"
  ELSE IF taken # {} THEN "running" ELSE "blocked"

\* fresh are the slots that get an intent with a new ID: intents revised by a
\* change of constraints, questions added, or the intents of a new topic.
SemanticPatch(kind, fresh) ==
  LET c    == rev + 1
      kept == IF kind = "topic" THEN {} ELSE active \ fresh
  IN  /\ rev < MaxRevision
      /\ Cardinality({d \in Plan : plan[d] # "none"}) < MaxPlans
      /\ kind = "revise" => fresh \subseteq active
      /\ kind = "add" => fresh \cap active = {}
      /\ rev' = c
      /\ active' = kept \cup fresh
      /\ born' = [i \in Intent |-> IF i \in fresh THEN c ELSE born[i]]
      /\ pending' = "semantic"
      /\ answer' = IF answer = "unavailable" THEN "unavailable" ELSE "stale"
      /\ \E reused, preserved, targeted \in SUBSET Intent, taken \in SUBSET Intent,
            dispatched \in BOOLEAN :
           /\ Analysis(kept, fresh, kind, reused, preserved, targeted)
           /\ evidence' = {<<i, born'[i]>> : i \in reused}
           /\ claims' = {<<i, born'[i]>> : i \in preserved}
           /\ taken \subseteq targeted /\ (~dispatched => taken = {})
           /\ plan' = [d \in Plan |-> IF d = c THEN NewStatus(targeted, taken, dispatched)
                                      ELSE IF d \in PendingPlans THEN "superseded" ELSE plan[d]]
           /\ task' = [d \in Plan |-> IF d = c THEN NewTasks(targeted, taken, dispatched)
                                      ELSE IF d \in PendingPlans THEN Withdrawn(d) ELSE task[d]]
           /\ IF dispatched THEN Runtime(c) /\ Taken(c, taken) ELSE UNCHANGED coordinatorVars
      /\ UNCHANGED <<qualified, publisherVars>>

-----------------------------------------------------------------------------
(* The coordinator: execute_plan, the scheduler, and the result consumers. *)

\* Bug: the candidate is not compared with the session's revision.
ExecutableBug(c) == plan[c] # "none"
Executable(c) == plan[c] # "none" /\ rev = c

\* execute_plan dispatches every task the runtime has no request for.
Execute(c) ==
  /\ Executable(c)
  /\ Runtime(c)
  /\ \E taken \in SUBSET Intent :
       LET asked == {i \in Tasks(c) : candidate = 0 \/ <<c, i>> \notin bound}
           t == [i \in Intent |-> IF i \in taken THEN "running"
                                  ELSE IF i \in asked THEN "failed" ELSE task[c][i]]
       IN  /\ taken \subseteq asked
           /\ Taken(c, taken)
           /\ task' = [task EXCEPT ![c] = t]
           /\ plan' = IF asked = {} THEN plan ELSE [plan EXCEPT ![c] = UpdatedPlanStatus(c, t)]
  /\ UNCHANGED <<rev, active, born, evidence, claims, pending, answer, qualified, publisherVars>>

\* execute_plan of a plan that is no longer the candidate records a discarded
\* result, which recomputes the plan's status.
ExecuteObsolete(c) ==
  /\ plan[c] # "none" /\ ~Executable(c)
  /\ plan' = [plan EXCEPT ![c] = UpdatedPlanStatus(c, task[c])]
  /\ UNCHANGED <<rev, active, born, evidence, claims, pending, answer, qualified, task,
                 coordinatorVars, publisherVars>>

Become(w, result) == consumers' = (consumers \ {w}) \cup {[w EXCEPT !.result = result]}

\* complete_retrieval of the bridge.
StaleCandidate(w) == w.plan # candidate

\* A request gets its result: accepted, or stale, cancelled, timed out, failed.
Search(w) ==
  /\ w.result = "searching"
  /\ \/ ~StaleCandidate(w) /\ Become(w, "accepted")
     \/ Become(w, "rejected")
  /\ UNCHANGED <<storeVars, runtimes, candidate, bound, publisherVars>>

\* Is the intent the task was made for still active?  (An intent ID that was
\* given after the plan belongs to another intent.)
StillAsked(w) == w.intent \in active /\ born[w.intent] <= w.plan

\* Bug: evidence is admitted whatever the revision.
AdmissibleBug(w) == TRUE
\* The checks of record_selective_evidence.
Admissible(w) == rev = w.plan /\ plan[w.plan] # "superseded"

\* _consume_task_result after an accepted result: evidence is recorded and the
\* task is completed; without an aligned hit the store is not asked.
Consume(w) ==
  /\ w.result = "accepted" /\ StillAsked(w)
  /\ consumers' = consumers \ {w}
  /\ \/ /\ Admissible(w)
        /\ evidence' = evidence \cup Known({w.intent})
        /\ RecordTask(w.plan, w.intent, "completed")
     \/ ~Admissible(w) /\ RecordTask(w.plan, w.intent, "discarded") /\ UNCHANGED evidence
     \/ RecordTask(w.plan, w.intent, "completed") /\ UNCHANGED evidence
  /\ UNCHANGED <<rev, active, born, claims, pending, answer, qualified,
                 runtimes, candidate, bound, publisherVars>>

\* The intent is gone: next() finds none, and the consumer dies of
\* StopIteration without recording anything.
ConsumerDies(w) ==
  /\ w.result = "accepted" /\ ~StillAsked(w)
  /\ consumers' = consumers \ {w}
  /\ UNCHANGED <<storeVars, runtimes, candidate, bound, publisherVars>>

\* Bug: the wait bound passes and nothing is recorded.
RecordRejectedBug(w) == UNCHANGED <<plan, task>>
\* A result that was not accepted is discarded; without a result the task failed.
RecordRejected(w) ==
  \/ w.result \in {"rejected", "closed"} /\ RecordTask(w.plan, w.intent, "discarded")
  \/ w.result \in {"searching", "closed"} /\ RecordTask(w.plan, w.intent, "failed")

\* The consumer's other ends: a rejected result, a closed scheduler, and the
\* bound on the wait, which passes whatever the request does later.
ConsumeRejected(w) ==
  /\ w.result # "accepted"
  /\ consumers' = consumers \ {w}
  /\ RecordRejected(w)
  /\ UNCHANGED <<rev, active, born, evidence, claims, pending, answer, qualified,
                 runtimes, candidate, bound, publisherVars>>

\* close_session without clearing, or the eviction of a runtime: open requests
\* end without a published result.
CloseRuntime ==
  /\ candidate # 0
  /\ candidate' = 0
  /\ bound' = {}
  /\ consumers' = {IF w.result = "searching" THEN [w EXCEPT !.result = "closed"] ELSE w :
                     w \in consumers}
  /\ UNCHANGED <<storeVars, runtimes, publisherVars>>

-----------------------------------------------------------------------------
(* record_evidence by the caller, and the publisher.                       *)

\* Evidence found outside a plan, at the same retrieval revision or a newer
\* one; the current claims were not drawn from it.
RecordEvidence ==
  /\ rev < MaxRevision
  /\ rev' = rev + 1
  /\ \E S \in (SUBSET active) \ {{}}, old \in {evidence, {}} : evidence' = old \cup Known(S)
  /\ claims' = {}
  /\ UNCHANGED <<active, born, pending, answer, qualified, plan, task,
                 coordinatorVars, publisherVars>>

\* generate_and_publish up to its await: the request is bound to the revision.
BeginAnswer(g) ==
  /\ work[g] = "idle"
  /\ work' = [work EXCEPT ![g] = "answer"]
  /\ base' = [base EXCEPT ![g] = rev]
  /\ seen' = [seen EXCEPT ![g] = evidence]
  /\ UNCHANGED <<storeVars, coordinatorVars>>

\* present_and_publish up to its await (a translation).
BeginPresentation(g) ==
  /\ work[g] = "idle"
  /\ pending = "reformat" /\ Usable /\ claims # {}
  /\ work' = [work EXCEPT ![g] = "presentation"]
  /\ base' = [base EXCEPT ![g] = rev]
  /\ UNCHANGED <<seen, storeVars, coordinatorVars>>

Release(g) ==
  /\ work' = [work EXCEPT ![g] = "idle"]
  /\ base' = [base EXCEPT ![g] = 0]
  /\ seen' = [seen EXCEPT ![g] = {}]

\* Bug: expected_revision is not compared.
StillCurrentBug(g) == TRUE
StillCurrent(g) == base[g] = rev

\* publish_answer: new claims are of active intents and cite passages that are
\* still current, whatever intents those serve; current claims are carried
\* along.  An intent without a claim is unresolved, and an intent of the
\* pending update may be.  A failed generation publishes no new claims.
PublishAnswer(g) ==
  /\ rev < MaxRevision
  /\ work[g] = "answer" /\ StillCurrent(g)
  /\ \E new \in SUBSET Known(IF seen[g] \cap evidence = {} THEN {} ELSE active) :
       LET all     == claims \cup new
           missing == \E i \in active : <<i, born[i]>> \notin all
       IN  /\ claims' = all
           /\ \E unresolved \in BOOLEAN :
                /\ missing => unresolved
                /\ unresolved => missing \/ pending # "none"
                /\ qualified' = unresolved
                /\ answer' = IF ~unresolved THEN "current"
                             ELSE IF all # {} THEN "partial" ELSE "failed"
  /\ rev' = rev + 1
  /\ pending' = "none"
  /\ Release(g)
  /\ UNCHANGED <<active, born, evidence, plan, task, coordinatorVars>>

\* publish_presentation publishes with status "completed", and keeps the
\* unresolved intents of the version it formats.
PublishPresentation(g) ==
  /\ rev < MaxRevision
  /\ work[g] = "presentation" /\ StillCurrent(g)
  /\ pending = "reformat" /\ Usable /\ claims # {}
  /\ rev' = rev + 1
  /\ pending' = "none"
  /\ answer' = "current"
  /\ qualified' = (qualified \/ \E i \in active : <<i, born[i]>> \notin claims)
  /\ Release(g)
  /\ UNCHANGED <<active, born, evidence, claims, plan, task, coordinatorVars>>

\* A result of another revision is discarded, as is one the store rejects.
Discard(g) ==
  /\ work[g] # "idle"
  /\ Release(g)
  /\ UNCHANGED <<storeVars, coordinatorVars>>

-----------------------------------------------------------------------------
CoordinatorStep ==
  \/ \E c \in Plan : Execute(c) \/ ExecuteObsolete(c)
  \/ \E w \in consumers : Search(w)
  \/ CloseRuntime

ConsumerStep == \E w \in consumers : Consume(w) \/ ConsumerDies(w) \/ ConsumeRejected(w)

PublisherStep(g) == PublishAnswer(g) \/ PublishPresentation(g) \/ Discard(g)

Phase4Next ==
  \/ Clarify \/ Format \/ RecordEvidence
  \/ \E kind \in {"revise", "add", "topic"}, fresh \in (SUBSET Intent) \ {{}} :
       SemanticPatch(kind, fresh)
  \/ CoordinatorStep
  \/ ConsumerStep
  \/ \E g \in Generation : BeginAnswer(g) \/ BeginPresentation(g) \/ PublisherStep(g)

Phase4Spec == Phase4Init /\ [][Phase4Next]_phase4Vars

\* The event loop wakes a consumer whose result is there, and one whose wait
\* is over: final_wait_timeout_s bounds it.
Phase4FairSpec == Phase4Spec /\ WF_phase4Vars(ConsumerStep)

-----------------------------------------------------------------------------
(* Safety.                                                                 *)

\* The state passes the contract's validators (state_references_are_valid,
\* contracts.py 2795): evidence and claims are of active intents, there are
\* claims only if there is current evidence for them to cite and an answer they
\* belong to.  A transition that broke this would raise out of the store.
ReferencesValid ==
  /\ evidence \subseteq Known(active)
  /\ claims \subseteq Known(active)
  /\ claims # {} => evidence # {}
  /\ claims # {} => answer # "unavailable"
  /\ pending = "reformat" => answer = "presentation_pending"

\* A superseded plan has no work left to do, and no plan that has a task to do
\* or being done passes for completed or blocked.
PlanHonest ==
  \A c \in Plan, i \in Intent :
    task[c][i] \in Outstanding => plan[c] \in {"pending", "running"}

\* While its plan is the candidate, a running task has a consumer that will
\* record its end: an update cannot wait for ever.
RunningIsObserved ==
  \A c \in Plan, i \in Intent :
    task[c][i] = "running" /\ rev = c => \E w \in consumers : w.plan = c /\ w.intent = i

\* The pending update's plan and the session agree on what is asked: an intent
\* to retrieve for is one of the active intents.
PendingPlanCurrent ==
  \A c \in PendingPlans : Tasks(c) \subseteq active /\ plan[c] # "superseded"

\* A version is called current only if it leaves nothing unresolved.
QualifiedIsMarked == answer = "current" => ~qualified

-----------------------------------------------------------------------------
(* Action properties.                                                      *)

\* Evidence is added without a new revision only for the newest plan, and the
\* intent it is added for is one that plan asks about: no late result of an
\* older candidate becomes current evidence.
AdmittedFromCandidate ==
  [][rev' = rev =>
       \A e \in evidence' \ evidence :
         /\ plan[rev] # "superseded" /\ e[1] \in Tasks(rev)
         /\ evidence \subseteq evidence']_phase4Vars

\* A published answer was generated from the newest accepted update and from
\* evidence that is still current.
AnswerIsTheNewest ==
  [][\A g \in Generation :
       work[g] = "answer" /\ work'[g] = "idle" /\ rev' # rev =>
         /\ \A c \in Plan : plan[c] # "none" => c <= base[g]
         /\ seen[g] \subseteq evidence
         /\ claims \subseteq claims']_phase4Vars

\* Once superseded, a plan stays so, whatever its late results report.
SupersededIsFinal ==
  [][\A c \in Plan : plan[c] = "superseded" => plan'[c] = "superseded"]_phase4Vars

\* Every consumer records how its task ended (a late result is recorded as
\* discarded).
ConsumerRecords ==
  [][\A w \in consumers :
       \/ \E v \in consumers' : v.plan = w.plan /\ v.intent = w.intent
       \/ task'[w.plan][w.intent] \in {"completed", "failed", "discarded"}]_phase4Vars

-----------------------------------------------------------------------------
\* The session keeps its records as module SessionRecords promises, through
\* every interleaving of patches, consumers and generations.
Records == INSTANCE SessionRecords WITH
  Slot    <- Intent,
  asked   <- Known(active),
  found   <- evidence,
  claimed <- claims,
  sought  <- {<<i, born[i]>> : i \in {i \in Intent : rev \in Plan /\ i \in Tasks(rev)}}

ImplementsRecords == Records!RecordsSpec

-----------------------------------------------------------------------------
(* Liveness.                                                               *)

\* The plan of the candidate comes to an end unless the candidate changes.
PlanSettles ==
  \A c \in Plan : plan[c] = "running" /\ rev = c ~> plan[c] # "running" \/ rev # c
=============================================================================
