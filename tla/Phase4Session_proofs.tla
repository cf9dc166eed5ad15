------------------------- MODULE Phase4Session_proofs -------------------------
(***************************************************************************)
(* Invariants of a Phase 4 session, proved for every value of the          *)
(* constants.  A step changes the plans of the session in one of few ways: *)
(* it withdraws some of them, makes a new one, records the end of one      *)
(* task, or dispatches the tasks of one.  There is a lemma for each, and   *)
(* what a step does to evidence and answers is proved apart from it.       *)
(***************************************************************************)
EXTENDS Phase4Session, TLAPS

\* Plans are not made ahead of their revision, and only old ones are superseded.
PlanAge ==
  \A c \in Plan : /\ plan[c] # "none" => c <= rev
                  /\ plan[c] = "superseded" => c < rev
TasksPlanned == \A c \in Plan, i \in Intent : task[c][i] # "none" => plan[c] # "none"
\* What the candidate's plan asks about is asked by the session.
CandidateAsked ==
  /\ \A c \in Plan : rev = c => Tasks(c) \subseteq active
  /\ \A i \in Intent : born[i] <= rev
ConsumersTasked == \A w \in consumers : task[w.plan][w.intent] # "none"
GenerationInv ==
  \A g \in Generation : /\ base[g] <= rev
                        /\ work[g] = "answer" /\ base[g] = rev => seen[g] \subseteq evidence

PlanInv == PlanAge /\ TasksPlanned /\ PlanHonest /\ CandidateAsked /\ PendingPlanCurrent
WorkInv == ConsumersTasked /\ RunningIsObserved
Phase4Inv == Phase4TypeOK /\ ReferencesValid /\ PlanInv /\ WorkInv /\ GenerationInv

-----------------------------------------------------------------------------
(* What the steps do to plans and tasks.                                   *)

\* A plan's recomputed status is one a plan can have, superseded only if it
\* was so, and never hides outstanding work of a plan that is not superseded.
LEMMA UpdatedStatus ==
  ASSUME NEW c \in Plan, NEW t \in [Intent -> TaskStatus]
  PROVE  /\ UpdatedPlanStatus(c, t) \in PlanStatus \ {"none", "pending"}
         /\ UpdatedPlanStatus(c, t) = "superseded" <=> plan[c] = "superseded"
         /\ plan[c] # "superseded" /\ (\E i \in Intent : t[i] \in Outstanding) =>
              UpdatedPlanStatus(c, t) = "running"
BY DEF UpdatedPlanStatus, PlanStatus

\* Withdrawing plans S withdraws their outstanding tasks and nothing else.
LEMMA SupersedeEffect ==
  ASSUME Phase4TypeOK, NEW S \in SUBSET Plan, Supersede(S)
  PROVE  /\ plan' \in [Plan -> PlanStatus] /\ task' \in [Plan -> [Intent -> TaskStatus]]
         /\ \A c \in Plan : plan'[c] = IF c \in S THEN "superseded" ELSE plan[c]
         /\ \A c \in Plan, i \in Intent :
              /\ task'[c][i] = "none" <=> task[c][i] = "none"
              /\ c \notin S => task'[c][i] = task[c][i]
              /\ c \in S => task'[c][i] \notin Outstanding
<1>1. plan' \in [Plan -> PlanStatus]
  BY DEF Supersede, Phase4TypeOK, PlanStatus
<1>2. \A c \in Plan : Withdrawn(c) \in [Intent -> TaskStatus]
  BY DEF Withdrawn, Phase4TypeOK, TaskStatus
<1>3. task' \in [Plan -> [Intent -> TaskStatus]]
  BY <1>2 DEF Supersede, Phase4TypeOK
<1>4. \A c \in Plan : plan'[c] = IF c \in S THEN "superseded" ELSE plan[c]
  BY DEF Supersede
<1>5. ASSUME NEW c \in Plan, NEW i \in Intent
      PROVE  /\ task'[c][i] = "none" <=> task[c][i] = "none"
             /\ c \notin S => task'[c][i] = task[c][i]
             /\ c \in S => task'[c][i] \notin Outstanding
  BY DEF Supersede, Withdrawn, Outstanding
<1> QED
  BY <1>1, <1>3, <1>4, <1>5

\* Recording the end of a task changes that task and its plan's status.
LEMMA RecordEffect ==
  ASSUME Phase4TypeOK, NEW c \in Plan, NEW i \in Intent,
         NEW s \in {"completed", "failed", "discarded"}, RecordTask(c, i, s)
  PROVE  /\ plan' \in [Plan -> PlanStatus] /\ task' \in [Plan -> [Intent -> TaskStatus]]
         /\ \A d \in Plan, j \in Intent :
              task'[d][j] = IF d = c /\ j = i THEN s ELSE task[d][j]
         /\ \A d \in Plan : d # c => plan'[d] = plan[d]
         /\ plan'[c] \notin {"none", "pending"}
         /\ plan'[c] = "superseded" <=> plan[c] = "superseded"
         /\ plan[c] # "superseded" /\ (\E j \in Intent : task'[c][j] \in Outstanding) =>
              plan'[c] = "running"
<1> DEFINE t == [task[c] EXCEPT ![i] = s]
<1>1. t \in [Intent -> TaskStatus] /\ \A j \in Intent : t[j] = IF j = i THEN s ELSE task[c][j]
  BY DEF Phase4TypeOK, TaskStatus
<1>2. task' = [task EXCEPT ![c] = t] /\ plan' = [plan EXCEPT ![c] = UpdatedPlanStatus(c, t)]
  BY DEF RecordTask
<1> HIDE DEF t
<1>3. UpdatedPlanStatus(c, t) \in PlanStatus
  BY <1>1, UpdatedStatus
<1>4. task' \in [Plan -> [Intent -> TaskStatus]] /\ plan' \in [Plan -> PlanStatus]
  BY <1>1, <1>2, <1>3 DEF Phase4TypeOK
<1>5. /\ task'[c] = t /\ plan'[c] = UpdatedPlanStatus(c, t)
      /\ \A d \in Plan : d # c => task'[d] = task[d] /\ plan'[d] = plan[d]
  BY <1>2 DEF Phase4TypeOK
<1> QED
  BY <1>1, <1>4, <1>5, UpdatedStatus

\* A new plan c: its tasks are the targeted intents, running if dispatched, and
\* its status agrees with them.
LEMMA NewPlanEffect ==
  ASSUME NEW targeted \in SUBSET Intent, NEW taken \in SUBSET targeted,
         NEW dispatched \in BOOLEAN, ~dispatched => taken = {}
  PROVE  /\ NewStatus(targeted, taken, dispatched) \in PlanStatus \ {"none", "superseded"}
         /\ NewTasks(targeted, taken, dispatched) \in [Intent -> TaskStatus]
         /\ \A i \in Intent :
              LET s == NewTasks(targeted, taken, dispatched)[i]
              IN  /\ s = "none" <=> i \notin targeted
                  /\ s = "running" <=> i \in taken
                  /\ s \in Outstanding =>
                       NewStatus(targeted, taken, dispatched) \in {"pending", "running"}
BY DEF NewStatus, NewTasks, PlanStatus, TaskStatus, Outstanding

\* Dispatching a set of consumers for the tasks taken of plan c.
LEMMA TakenEffect ==
  ASSUME Phase4TypeOK, NEW c \in Plan, NEW taken \in SUBSET Intent, Taken(c, taken)
  PROVE  /\ bound' \in SUBSET (Plan \X Intent) /\ consumers' \in SUBSET Consumer
         /\ consumers \subseteq consumers'
         /\ \A i \in taken : \E w \in consumers' : w.plan = c /\ w.intent = i
         /\ \A w \in consumers' : w \in consumers \/ (w.plan = c /\ w.intent \in taken)
<1> DEFINE new == {[plan |-> c, intent |-> i, result |-> "searching"] : i \in taken}
<1>1. new \in SUBSET Consumer
  BY DEF Consumer
<1>2. consumers' = consumers \cup new
  BY DEF Taken
<1>3. bound' \in SUBSET (Plan \X Intent)
  BY DEF Taken, Phase4TypeOK
<1>4. \A i \in taken : [plan |-> c, intent |-> i, result |-> "searching"] \in new
  OBVIOUS
<1>5. \A w \in new : w.plan = c /\ w.intent \in taken
  OBVIOUS
<1>6. consumers' \in SUBSET Consumer /\ consumers \subseteq consumers'
  BY <1>1, <1>2 DEF Phase4TypeOK
<1>7. ASSUME NEW i \in taken PROVE \E w \in consumers' : w.plan = c /\ w.intent = i
  <2>1. [plan |-> c, intent |-> i, result |-> "searching"] \in consumers'
    BY <1>2, <1>4
  <2> QED
    BY <2>1
<1> QED
  BY <1>2, <1>3, <1>5, <1>6, <1>7

\* A runtime is created or advanced within the bounds.
LEMMA RuntimeEffect ==
  ASSUME Phase4TypeOK, NEW c \in Plan, Runtime(c)
  PROVE  runtimes' \in 0..MaxRuntimes /\ candidate' \in Revision
BY Phase4Assumption DEF Runtime, Phase4TypeOK, Plan, Revision

-----------------------------------------------------------------------------
(* Types.                                                                  *)

\* A patch that asks back or formats keeps the types.
LEMMA WithdrawType ==
  ASSUME Phase4TypeOK, Clarify \/ Format
  PROVE  Phase4TypeOK'
<1>1. rev' \in Revision /\ pending' \in Pending /\ answer' \in AnswerStatus
  BY Phase4Assumption DEF Clarify, Format, Phase4TypeOK, Revision, Pending, AnswerStatus
<1>2. Obsolete \in SUBSET Plan
  BY DEF Obsolete
<1>3. plan' \in [Plan -> PlanStatus] /\ task' \in [Plan -> [Intent -> TaskStatus]]
  BY <1>2, SupersedeEffect DEF Clarify, Format
<1>4. candidate' \in Revision /\ UNCHANGED <<runtimes, bound, consumers>>
  BY <1>1 DEF Clarify, Format, AdvanceCandidate, coordinatorVars, Phase4TypeOK
<1> QED
  BY <1>1, <1>3, <1>4 DEF Clarify, Format, publisherVars, Phase4TypeOK

\* A semantic patch makes plan rev + 1 out of intents the session now asks,
\* withdraws the pending update's plan, and leaves the other plans alone.
LEMMA SemanticEffect ==
  ASSUME Phase4TypeOK, NEW kind \in {"revise", "add", "topic"}, NEW fresh \in SUBSET Intent,
         SemanticPatch(kind, fresh)
  PROVE  LET c == rev + 1
         IN  /\ c \in Plan /\ c \in Revision /\ rev' = c
             /\ plan' \in [Plan -> PlanStatus] /\ task' \in [Plan -> [Intent -> TaskStatus]]
             /\ runtimes' \in 0..MaxRuntimes /\ candidate' \in Revision
             /\ bound' \in SUBSET (Plan \X Intent) /\ consumers' \in SUBSET Consumer
             /\ plan'[c] \notin {"none", "superseded"}
             /\ \A d \in Plan \ {c} : plan'[d] = IF d \in PendingPlans THEN "superseded" ELSE plan[d]
             /\ \A d \in Plan \ {c}, i \in Intent :
                  /\ task'[d][i] = "none" <=> task[d][i] = "none"
                  /\ d \notin PendingPlans => task'[d][i] = task[d][i]
                  /\ d \in PendingPlans => task'[d][i] \notin Outstanding
             /\ \A i \in Intent :
                  /\ task'[c][i] # "none" => i \in active'
                  /\ task'[c][i] \in Outstanding => plan'[c] \in {"pending", "running"}
                  /\ task'[c][i] = "running" => \E w \in consumers' : w.plan = c /\ w.intent = i
             /\ consumers \subseteq consumers'
             /\ \A w \in consumers' \ consumers : w.plan = c /\ task'[c][w.intent] # "none"
<1> DEFINE c == rev + 1
<1>1. c \in Plan /\ c \in Revision /\ rev' = c
  BY Phase4Assumption DEF SemanticPatch, Phase4TypeOK, Revision, Plan
<1>2. active' = (IF kind = "topic" THEN {} ELSE active \ fresh) \cup fresh
  BY DEF SemanticPatch
<1> HIDE DEF c
<1>3. PICK reused, preserved, targeted, taken \in SUBSET Intent, dispatched \in BOOLEAN :
        /\ Analysis(IF kind = "topic" THEN {} ELSE active \ fresh, fresh, kind,
                    reused, preserved, targeted)
        /\ evidence' = {<<i, born'[i]>> : i \in reused}
        /\ claims' = {<<i, born'[i]>> : i \in preserved}
        /\ taken \subseteq targeted /\ (~dispatched => taken = {})
        /\ plan' = [d \in Plan |-> IF d = c THEN NewStatus(targeted, taken, dispatched)
                                   ELSE IF d \in PendingPlans THEN "superseded" ELSE plan[d]]
        /\ task' = [d \in Plan |-> IF d = c THEN NewTasks(targeted, taken, dispatched)
                                   ELSE IF d \in PendingPlans THEN Withdrawn(d) ELSE task[d]]
        /\ IF dispatched THEN Runtime(c) /\ Taken(c, taken) ELSE UNCHANGED coordinatorVars
  BY DEF SemanticPatch, c
<1>4. targeted \subseteq active'
  BY <1>2, <1>3 DEF Analysis
<1> DEFINE st == NewStatus(targeted, taken, dispatched)
           ts == NewTasks(targeted, taken, dispatched)
<1>5. /\ st \in PlanStatus \ {"none", "superseded"} /\ ts \in [Intent -> TaskStatus]
      /\ \A i \in Intent : /\ ts[i] = "none" <=> i \notin targeted
                           /\ ts[i] = "running" <=> i \in taken
                           /\ ts[i] \in Outstanding => st \in {"pending", "running"}
  BY <1>3, NewPlanEffect
<1>6. \A d \in Plan : Withdrawn(d) \in [Intent -> TaskStatus]
  BY DEF Withdrawn, Phase4TypeOK, TaskStatus
<1> HIDE DEF st, ts
<1>7. /\ plan' = [d \in Plan |-> IF d = c THEN st
                                 ELSE IF d \in PendingPlans THEN "superseded" ELSE plan[d]]
      /\ task' = [d \in Plan |-> IF d = c THEN ts
                                 ELSE IF d \in PendingPlans THEN Withdrawn(d) ELSE task[d]]
  BY <1>3 DEF st, ts
<1>8. plan' \in [Plan -> PlanStatus]
  BY <1>5, <1>7 DEF Phase4TypeOK, PlanStatus
<1>9. task' \in [Plan -> [Intent -> TaskStatus]]
  <2> DEFINE new(d) == IF d = c THEN ts ELSE IF d \in PendingPlans THEN Withdrawn(d) ELSE task[d]
  <2>1. \A d \in Plan : new(d) \in [Intent -> TaskStatus]
    BY <1>5, <1>6 DEF Phase4TypeOK
  <2>2. task' = [d \in Plan |-> new(d)]
    BY <1>7
  <2> HIDE DEF new
  <2> QED
    BY <2>1, <2>2
<1>10. /\ runtimes' \in 0..MaxRuntimes /\ candidate' \in Revision
       /\ bound' \in SUBSET (Plan \X Intent) /\ consumers' \in SUBSET Consumer
       /\ consumers \subseteq consumers'
       /\ \A i \in taken : \E w \in consumers' : w.plan = c /\ w.intent = i
       /\ \A w \in consumers' : w \in consumers \/ (w.plan = c /\ w.intent \in taken)
  <2>1. CASE dispatched
    BY <1>1, <1>3, <2>1, RuntimeEffect, TakenEffect
  <2>2. CASE ~dispatched
    BY <1>3, <2>2 DEF coordinatorVars, Phase4TypeOK
  <2> QED
    BY <2>1, <2>2
<1>11. plan'[c] = st /\ task'[c] = ts
  BY <1>1, <1>7
<1>12. ASSUME NEW d \in Plan \ {c}
       PROVE  /\ plan'[d] = IF d \in PendingPlans THEN "superseded" ELSE plan[d]
              /\ task'[d] = IF d \in PendingPlans THEN Withdrawn(d) ELSE task[d]
  BY <1>7
<1>13. ASSUME NEW d \in Plan \ {c}, NEW i \in Intent
       PROVE  /\ task'[d][i] = "none" <=> task[d][i] = "none"
              /\ d \notin PendingPlans => task'[d][i] = task[d][i]
              /\ d \in PendingPlans => task'[d][i] \notin Outstanding
  BY <1>12 DEF Withdrawn, Outstanding
<1>14. ASSUME NEW i \in Intent
       PROVE  /\ task'[c][i] # "none" => i \in active'
              /\ task'[c][i] \in Outstanding => plan'[c] \in {"pending", "running"}
              /\ task'[c][i] = "running" => \E w \in consumers' : w.plan = c /\ w.intent = i
  BY <1>4, <1>5, <1>10, <1>11
<1>15. ASSUME NEW w \in consumers' \ consumers
       PROVE  w.plan = c /\ task'[c][w.intent] # "none"
  BY <1>3, <1>5, <1>10, <1>11
<1>16. plan'[c] \notin {"none", "superseded"}
  BY <1>5, <1>11
<1> QED
  BY <1>1, <1>8, <1>9, <1>10, <1>12, <1>13, <1>14, <1>15, <1>16 DEF c

\* A semantic patch keeps the types.
LEMMA SemanticType ==
  ASSUME Phase4TypeOK, NEW kind \in {"revise", "add", "topic"}, NEW fresh \in SUBSET Intent,
         SemanticPatch(kind, fresh)
  PROVE  Phase4TypeOK'
<1>1. /\ rev' \in Revision
      /\ plan' \in [Plan -> PlanStatus] /\ task' \in [Plan -> [Intent -> TaskStatus]]
      /\ runtimes' \in 0..MaxRuntimes /\ candidate' \in Revision
      /\ bound' \in SUBSET (Plan \X Intent) /\ consumers' \in SUBSET Consumer
  BY SemanticEffect
<1>2. active' \in SUBSET Intent /\ born' \in [Intent -> Revision]
  BY <1>1 DEF SemanticPatch, Phase4TypeOK
<1>3. pending' \in Pending /\ answer' \in AnswerStatus /\ UNCHANGED <<qualified, work, base, seen>>
  BY DEF SemanticPatch, Phase4TypeOK, Pending, AnswerStatus, publisherVars
<1>4. evidence' \in SUBSET Identity /\ claims' \in SUBSET Identity
  <2>1. PICK reused, preserved \in SUBSET Intent :
          /\ evidence' = {<<i, born'[i]>> : i \in reused}
          /\ claims' = {<<i, born'[i]>> : i \in preserved}
    BY ZenonT(60) DEF SemanticPatch
  <2> QED
    BY <1>2, <2>1 DEF Identity
<1> QED
  BY <1>1, <1>2, <1>3, <1>4 DEF Phase4TypeOK

\* Executing a plan keeps the types.
LEMMA ExecuteType ==
  ASSUME Phase4TypeOK, NEW c \in Plan, Execute(c) \/ ExecuteObsolete(c)
  PROVE  Phase4TypeOK'
<1>1. CASE Execute(c)
  <2> DEFINE asked == {i \in Tasks(c) : candidate = 0 \/ <<c, i>> \notin bound}
             t(taken) == [i \in Intent |-> IF i \in taken THEN "running"
                                          ELSE IF i \in asked THEN "failed" ELSE task[c][i]]
  <2>1. PICK taken \in SUBSET Intent :
          /\ Taken(c, taken)
          /\ task' = [task EXCEPT ![c] = t(taken)]
          /\ plan' = IF asked = {} THEN plan ELSE [plan EXCEPT ![c] = UpdatedPlanStatus(c, t(taken))]
    BY <1>1 DEF Execute
  <2>2. t(taken) \in [Intent -> TaskStatus]
    BY DEF Phase4TypeOK, TaskStatus
  <2> HIDE DEF t, asked
  <2>3. UpdatedPlanStatus(c, t(taken)) \in PlanStatus
    BY <2>2, UpdatedStatus
  <2>4. plan' \in [Plan -> PlanStatus] /\ task' \in [Plan -> [Intent -> TaskStatus]]
    BY <2>1, <2>2, <2>3 DEF Phase4TypeOK
  <2>5. /\ runtimes' \in 0..MaxRuntimes /\ candidate' \in Revision
        /\ bound' \in SUBSET (Plan \X Intent) /\ consumers' \in SUBSET Consumer
    BY <1>1, <2>1, RuntimeEffect, TakenEffect DEF Execute
  <2> QED
    BY <1>1, <2>4, <2>5 DEF Execute, publisherVars, Phase4TypeOK
<1>2. CASE ExecuteObsolete(c)
  <2>1. UpdatedPlanStatus(c, task[c]) \in PlanStatus
    BY UpdatedStatus DEF Phase4TypeOK
  <2> QED
    BY <1>2, <2>1 DEF ExecuteObsolete, coordinatorVars, publisherVars, Phase4TypeOK
<1> QED
  BY <1>1, <1>2

\* The bridge, the consumers and the runtime's end keep the types.
LEMMA ConsumerType ==
  ASSUME Phase4TypeOK,
         CloseRuntime \/ \E w \in consumers : \/ Search(w) \/ Consume(w)
                                              \/ ConsumerDies(w) \/ ConsumeRejected(w)
  PROVE  Phase4TypeOK'
<1>1. CASE CloseRuntime
  <2>1. \A w \in consumers : [w EXCEPT !.result = "closed"] \in Consumer
    BY DEF Consumer, Phase4TypeOK
  <2>2. consumers' \in SUBSET Consumer
    BY <1>1, <2>1 DEF CloseRuntime, Phase4TypeOK
  <2>3. candidate' \in Revision /\ bound' \in SUBSET (Plan \X Intent)
    BY <1>1, Phase4Assumption DEF CloseRuntime, Revision
  <2> QED
    BY <1>1, <2>2, <2>3 DEF CloseRuntime, storeVars, publisherVars, Phase4TypeOK
<1>2. ASSUME NEW w \in consumers, Search(w) PROVE Phase4TypeOK'
  <2>1. \A r \in {"accepted", "rejected"} : [w EXCEPT !.result = r] \in Consumer
    BY DEF Consumer, Phase4TypeOK
  <2>2. consumers' \in SUBSET Consumer
    BY <1>2, <2>1 DEF Search, Become, Phase4TypeOK
  <2> QED
    BY <1>2, <2>2 DEF Search, storeVars, publisherVars, Phase4TypeOK
<1>3. ASSUME NEW w \in consumers, Consume(w) \/ ConsumeRejected(w) PROVE Phase4TypeOK'
  <2>1. w.plan \in Plan /\ w.intent \in Intent
    BY DEF Consumer, Phase4TypeOK
  <2>2. \E s \in {"completed", "failed", "discarded"} : RecordTask(w.plan, w.intent, s)
    BY <1>3 DEF Consume, ConsumeRejected, RecordRejected
  <2>3. plan' \in [Plan -> PlanStatus] /\ task' \in [Plan -> [Intent -> TaskStatus]]
    BY <2>1, <2>2, RecordEffect
  <2>4. Known({w.intent}) \in SUBSET Identity
    BY <2>1 DEF Known, Identity, Phase4TypeOK
  <2>5. evidence' \in SUBSET Identity /\ consumers' \in SUBSET Consumer
    BY <1>3, <2>4 DEF Consume, ConsumeRejected, Phase4TypeOK
  <2> QED
    BY <1>3, <2>3, <2>5 DEF Consume, ConsumeRejected, publisherVars, Phase4TypeOK
<1>4. ASSUME NEW w \in consumers, ConsumerDies(w) PROVE Phase4TypeOK'
  BY <1>4 DEF ConsumerDies, storeVars, publisherVars, Phase4TypeOK
<1> QED
  BY <1>1, <1>2, <1>3, <1>4

\* Recording evidence, and the publisher's steps, keep the types.
LEMMA PublisherType ==
  ASSUME Phase4TypeOK,
         RecordEvidence \/ \E g \in Generation : \/ BeginAnswer(g) \/ BeginPresentation(g)
                                                \/ PublisherStep(g)
  PROVE  Phase4TypeOK'
<1>1. CASE RecordEvidence
  <2>1. rev' \in Revision
    BY <1>1, Phase4Assumption DEF RecordEvidence, Phase4TypeOK, Revision
  <2>2. \A S \in SUBSET active : Known(S) \in SUBSET Identity
    BY DEF Known, Identity, Phase4TypeOK
  <2>3. evidence' \in SUBSET Identity /\ claims' \in SUBSET Identity
    BY <1>1, <2>2 DEF RecordEvidence, Phase4TypeOK
  <2> QED
    BY <1>1, <2>1, <2>3 DEF RecordEvidence, coordinatorVars, publisherVars, Phase4TypeOK
<1>2. ASSUME NEW g \in Generation, BeginAnswer(g) \/ BeginPresentation(g) PROVE Phase4TypeOK'
  BY <1>2, ZenonT(60) DEF BeginAnswer, BeginPresentation, storeVars, coordinatorVars, Phase4TypeOK
<1>3. ASSUME NEW g \in Generation, Release(g)
      PROVE  /\ work' \in [Generation -> {"idle", "answer", "presentation"}]
             /\ base' \in [Generation -> Revision] /\ seen' \in [Generation -> SUBSET Identity]
  <2>1. 0 \in Revision
    BY Phase4Assumption DEF Revision
  <2> QED
    BY <1>3, <2>1 DEF Release, Phase4TypeOK
<1>4. ASSUME NEW g \in Generation, PublishAnswer(g) PROVE Phase4TypeOK'
  <2>1. rev' \in Revision
    BY <1>4, Phase4Assumption DEF PublishAnswer, Phase4TypeOK, Revision
  <2>2. Known(IF seen[g] \cap evidence = {} THEN {} ELSE active) \in SUBSET Identity
    BY DEF Known, Identity, Phase4TypeOK
  <2>3. claims' \in SUBSET Identity
    BY <1>4, <2>2 DEF PublishAnswer, Phase4TypeOK
  <2>4. answer' \in AnswerStatus /\ qualified' \in BOOLEAN /\ pending' \in Pending
    BY <1>4 DEF PublishAnswer, AnswerStatus, Pending
  <2> QED
    BY <1>3, <1>4, <2>1, <2>3, <2>4 DEF PublishAnswer, coordinatorVars, Phase4TypeOK
<1>5. ASSUME NEW g \in Generation, PublishPresentation(g) PROVE Phase4TypeOK'
  <2>1. rev' \in Revision
    BY <1>5, Phase4Assumption DEF PublishPresentation, Phase4TypeOK, Revision
  <2>2. answer' \in AnswerStatus /\ qualified' \in BOOLEAN /\ pending' \in Pending
    BY <1>5 DEF PublishPresentation, Phase4TypeOK, AnswerStatus, Pending
  <2> QED
    BY <1>3, <1>5, <2>1, <2>2 DEF PublishPresentation, coordinatorVars, Phase4TypeOK
<1>6. ASSUME NEW g \in Generation, Discard(g) PROVE Phase4TypeOK'
  BY <1>3, <1>6 DEF Discard, storeVars, coordinatorVars, Phase4TypeOK
<1> QED
  BY <1>1, <1>2, <1>4, <1>5, <1>6 DEF PublisherStep

\* Every step keeps the types.
LEMMA Phase4TypeStep ==
  ASSUME Phase4TypeOK, [Phase4Next]_phase4Vars
  PROVE  Phase4TypeOK'
<1>1. CASE UNCHANGED phase4Vars
  BY <1>1 DEF phase4Vars, storeVars, coordinatorVars, publisherVars, Phase4TypeOK
<1> QED
  BY <1>1, WithdrawType, SemanticType, ExecuteType, ConsumerType, PublisherType
  DEF Phase4Next, CoordinatorStep, ConsumerStep

-----------------------------------------------------------------------------
(* Plans: what each kind of step preserves.                                *)

\* A new revision has no plan, hence no tasks, yet.
LEMMA NoPlanAhead ==
  ASSUME Phase4TypeOK, PlanAge, TasksPlanned
  PROVE  \A c \in Plan : c > rev => plan[c] = "none" /\ \A i \in Intent : task[c][i] = "none"
BY DEF PlanAge, TasksPlanned, Phase4TypeOK, Plan, Revision

\* A patch without retrieval withdraws every plan that is not finished.
LEMMA WithdrawPlans ==
  ASSUME Phase4TypeOK, PlanInv, WorkInv, Clarify \/ Format
  PROVE  PlanInv' /\ WorkInv'
<1>1. /\ rev' = rev + 1 /\ UNCHANGED <<active, born, consumers>>
      /\ pending' # "semantic" /\ Supersede(Obsolete)
  BY DEF Clarify, Format, AdvanceCandidate, coordinatorVars
<1>2. Obsolete \in SUBSET Plan
  BY DEF Obsolete
<1>3. /\ \A c \in Plan : plan'[c] = IF c \in Obsolete THEN "superseded" ELSE plan[c]
      /\ \A c \in Plan, i \in Intent :
           /\ task'[c][i] = "none" <=> task[c][i] = "none"
           /\ c \notin Obsolete => task'[c][i] = task[c][i]
           /\ c \in Obsolete => task'[c][i] \notin Outstanding
  BY <1>1, <1>2, SupersedeEffect
<1>4. \A c \in Plan : c = rev' => \A i \in Intent : task'[c][i] = "none"
  BY <1>1, <1>3, NoPlanAhead DEF PlanInv, Phase4TypeOK, Revision, Plan
<1>5. PlanAge'
  BY <1>1, <1>3 DEF PlanInv, PlanAge, Obsolete, Phase4TypeOK, Revision, Plan
<1>6. TasksPlanned'
  BY <1>3 DEF PlanInv, TasksPlanned, Obsolete
<1>7. PlanHonest'
  BY <1>3 DEF PlanInv, PlanHonest, Obsolete
<1>8. CandidateAsked'
  BY <1>1, <1>4 DEF PlanInv, CandidateAsked, Tasks, Phase4TypeOK, Revision
<1>9. PendingPlanCurrent'
  BY <1>1 DEF PendingPlanCurrent, PendingPlans
<1>10. ConsumersTasked'
  BY <1>1, <1>3 DEF WorkInv, ConsumersTasked, Phase4TypeOK, Consumer
<1>11. RunningIsObserved'
  BY <1>4 DEF RunningIsObserved
<1> QED
  BY <1>5, <1>6, <1>7, <1>8, <1>9, <1>10, <1>11 DEF PlanInv, WorkInv

\* Evidence from outside and publications make a revision without a plan.
LEMMA RevisionPlans ==
  ASSUME Phase4TypeOK, PlanInv, WorkInv,
         rev' = rev + 1, UNCHANGED <<active, born, plan, task, consumers>>,
         pending' \in {pending, "none"}
  PROVE  PlanInv' /\ WorkInv'
<1>1. \A c \in Plan : c = rev' => \A i \in Intent : task'[c][i] = "none"
  BY NoPlanAhead DEF PlanInv, Phase4TypeOK, Revision, Plan
<1>2. PlanAge' /\ TasksPlanned' /\ PlanHonest'
  BY DEF PlanInv, PlanAge, TasksPlanned, PlanHonest, Phase4TypeOK, Revision, Plan
<1>3. CandidateAsked'
  BY <1>1 DEF PlanInv, CandidateAsked, Tasks, Phase4TypeOK, Revision
<1>4. PendingPlanCurrent'
  BY DEF PlanInv, PendingPlanCurrent, PendingPlans, Tasks
<1>5. ConsumersTasked' /\ RunningIsObserved'
  BY <1>1 DEF WorkInv, ConsumersTasked, RunningIsObserved
<1> QED
  BY <1>2, <1>3, <1>4, <1>5 DEF PlanInv, WorkInv

\* Steps at one revision that keep which plans there are, which tasks they
\* have and which of them are superseded.
LEMMA SteadyPlans ==
  ASSUME Phase4TypeOK, PlanInv,
         UNCHANGED <<rev, active, born, pending>>,
         \A c \in Plan : /\ plan'[c] = "none" <=> plan[c] = "none"
                         /\ plan'[c] = "superseded" <=> plan[c] = "superseded",
         \A c \in Plan, i \in Intent : task'[c][i] = "none" <=> task[c][i] = "none"
  PROVE  PlanAge' /\ TasksPlanned' /\ CandidateAsked' /\ PendingPlanCurrent'
<1>1. PlanAge' /\ TasksPlanned'
  BY DEF PlanInv, PlanAge, TasksPlanned
<1>2. \A c \in Plan : Tasks(c)' = Tasks(c)
  BY DEF Tasks
<1>3. CandidateAsked'
  BY <1>2 DEF PlanInv, CandidateAsked
<1>4. PendingPlans' = PendingPlans
  BY DEF PendingPlans
<1>5. \A c \in PendingPlans : c \in Plan
  BY DEF PendingPlans
<1>6. PendingPlanCurrent'
  BY <1>2, <1>4, <1>5 DEF PlanInv, PendingPlanCurrent
<1> QED
  BY <1>1, <1>3, <1>6

\* Recording the end of a consumer's task.
LEMMA RecordPlans ==
  ASSUME Phase4TypeOK, PlanInv, WorkInv, NEW w \in consumers,
         NEW s \in {"completed", "failed", "discarded"}, RecordTask(w.plan, w.intent, s),
         consumers' = consumers \ {w}, UNCHANGED <<rev, active, born, pending>>
  PROVE  /\ PlanInv' /\ WorkInv'
         /\ \A c \in Plan : plan[c] = "superseded" => plan'[c] = "superseded"
<1> DEFINE p == w.plan
           i == w.intent
<1>1. p \in Plan /\ i \in Intent
  BY DEF Phase4TypeOK, Consumer
<1>2. task[p][i] # "none" /\ plan[p] # "none"
  BY <1>1 DEF WorkInv, ConsumersTasked, PlanInv, TasksPlanned
<1>3. /\ \A d \in Plan, j \in Intent : task'[d][j] = IF d = p /\ j = i THEN s ELSE task[d][j]
      /\ \A d \in Plan : d # p => plan'[d] = plan[d]
      /\ plan'[p] \notin {"none", "pending"}
      /\ plan'[p] = "superseded" <=> plan[p] = "superseded"
      /\ plan[p] # "superseded" /\ (\E j \in Intent : task'[p][j] \in Outstanding) =>
           plan'[p] = "running"
  BY <1>1, RecordEffect
<1> HIDE DEF p, i
<1>4. PlanAge' /\ TasksPlanned' /\ CandidateAsked' /\ PendingPlanCurrent'
  BY <1>2, <1>3, SteadyPlans
<1>5. PlanHonest'
  <2>1. ASSUME NEW d \in Plan, NEW j \in Intent, task'[d][j] \in Outstanding
        PROVE  plan'[d] \in {"pending", "running"}
    <3>1. task[d][j] \in Outstanding
      BY <1>3, <2>1 DEF Outstanding
    <3>2. plan[d] \in {"pending", "running"}
      BY <3>1 DEF PlanInv, PlanHonest
    <3> QED
      BY <1>3, <2>1, <3>2
  <2> QED
    BY <2>1 DEF PlanHonest
<1>6. ConsumersTasked'
  BY <1>2, <1>3 DEF WorkInv, ConsumersTasked, Phase4TypeOK, Consumer
<1>7. RunningIsObserved'
  BY <1>3 DEF WorkInv, RunningIsObserved, p, i
<1> QED
  BY <1>3, <1>4, <1>5, <1>6, <1>7 DEF PlanInv, WorkInv

\* Results and the end of a runtime leave plans and tasks alone, and every task
\* keeps its consumer; a consumer that dies had no task of the candidate's plan.
LEMMA ConsumerPlans ==
  ASSUME Phase4TypeOK, PlanInv, WorkInv,
         CloseRuntime \/ \E w \in consumers : Search(w) \/ ConsumerDies(w)
  PROVE  PlanInv' /\ WorkInv'
<1>1. UNCHANGED <<rev, active, born, pending, plan, task>>
  BY DEF CloseRuntime, Search, ConsumerDies, storeVars
<1>2. PlanInv'
  BY <1>1 DEF PlanInv, PlanAge, TasksPlanned, PlanHonest, CandidateAsked, PendingPlanCurrent,
              PendingPlans, Tasks
<1>3. \A v \in consumers' : \E w \in consumers : v.plan = w.plan /\ v.intent = w.intent
  BY DEF CloseRuntime, Search, Become, ConsumerDies, Phase4TypeOK, Consumer
<1>4. ConsumersTasked'
  BY <1>1, <1>3 DEF WorkInv, ConsumersTasked
<1>5. ASSUME NEW c \in Plan, NEW i \in Intent, task[c][i] = "running", rev = c
      PROVE  \E v \in consumers' : v.plan = c /\ v.intent = i
  <2>1. PICK w \in consumers : w.plan = c /\ w.intent = i
    BY <1>5 DEF WorkInv, RunningIsObserved
  <2>2. i \in active /\ born[i] <= c
    BY <1>5 DEF PlanInv, CandidateAsked, Tasks
  <2>3. ~ConsumerDies(w)
    BY <2>1, <2>2 DEF ConsumerDies, StillAsked
  <2>4. CASE CloseRuntime
    <3>1. [w EXCEPT !.result = "closed"] \in consumers' \/ w \in consumers'
      BY <2>4 DEF CloseRuntime
    <3> QED
      BY <2>1, <3>1 DEF Phase4TypeOK, Consumer
  <2>5. ASSUME NEW u \in consumers, Search(u) PROVE \E v \in consumers' : v.plan = c /\ v.intent = i
    <3>1. PICK r \in {"accepted", "rejected"} :
            consumers' = (consumers \ {u}) \cup {[u EXCEPT !.result = r]}
      BY <2>5 DEF Search, Become
    <3>2. w \in consumers' \/ (w = u /\ [w EXCEPT !.result = r] \in consumers')
      BY <3>1
    <3> QED
      BY <2>1, <3>2 DEF Phase4TypeOK, Consumer
  <2>6. ASSUME NEW u \in consumers, ConsumerDies(u)
        PROVE  \E v \in consumers' : v.plan = c /\ v.intent = i
    BY <2>1, <2>3, <2>6 DEF ConsumerDies
  <2> QED
    BY <2>4, <2>5, <2>6
<1>6. RunningIsObserved'
  BY <1>1, <1>5 DEF RunningIsObserved
<1> QED
  BY <1>2, <1>4, <1>6 DEF WorkInv
\* Dispatching the candidate's plan: what runs has a consumer, and the plan's
\* status follows its tasks.
LEMMA ExecutePlans ==
  ASSUME Phase4TypeOK, PlanInv, WorkInv, NEW c \in Plan, Execute(c)
  PROVE  /\ PlanInv' /\ WorkInv'
         /\ \A d \in Plan : plan[d] = "superseded" => plan'[d] = "superseded"
<1> DEFINE asked == {i \in Tasks(c) : candidate = 0 \/ <<c, i>> \notin bound}
           t(taken) == [i \in Intent |-> IF i \in taken THEN "running"
                                        ELSE IF i \in asked THEN "failed" ELSE task[c][i]]
<1>1. PICK taken \in SUBSET Intent :
        /\ taken \subseteq asked
        /\ Taken(c, taken)
        /\ task' = [task EXCEPT ![c] = t(taken)]
        /\ plan' = IF asked = {} THEN plan ELSE [plan EXCEPT ![c] = UpdatedPlanStatus(c, t(taken))]
  BY DEF Execute
<1>2. asked \subseteq Tasks(c) /\ UNCHANGED <<rev, active, born, pending>>
  BY DEF Execute
<1>3. plan[c] \notin {"none", "superseded"} /\ rev = c
  BY DEF Execute, Executable, PlanInv, PlanAge, Plan
<1> DEFINE tt == t(taken)
<1>4. /\ tt \in [Intent -> TaskStatus]
      /\ \A i \in Intent : tt[i] = IF i \in taken THEN "running"
                                   ELSE IF i \in asked THEN "failed" ELSE task[c][i]
  BY DEF Phase4TypeOK, TaskStatus
<1>5. /\ task' = [task EXCEPT ![c] = tt]
      /\ plan' = IF asked = {} THEN plan ELSE [plan EXCEPT ![c] = UpdatedPlanStatus(c, tt)]
  BY <1>1
<1> HIDE DEF tt, t, asked
<1>6. task'[c] = tt /\ \A d \in Plan \ {c} : task'[d] = task[d] /\ plan'[d] = plan[d]
  BY <1>5 DEF Phase4TypeOK
<1>7. \A i \in Intent : tt[i] = "none" <=> task[c][i] = "none"
  BY <1>1, <1>2, <1>4 DEF Tasks
<1>8. plan'[c] \notin {"none", "superseded"}
  BY <1>3, <1>4, <1>5, UpdatedStatus DEF Phase4TypeOK
<1>9. ASSUME NEW i \in Intent, tt[i] \in Outstanding PROVE plan'[c] \in {"pending", "running"}
  <2>1. CASE asked = {}
    BY <1>1, <1>4, <1>5, <1>9, <2>1 DEF PlanInv, PlanHonest
  <2>2. CASE asked # {}
    BY <1>3, <1>4, <1>5, <1>9, <2>2, UpdatedStatus DEF Phase4TypeOK
  <2> QED
    BY <2>1, <2>2
<1>10. PlanAge' /\ TasksPlanned' /\ CandidateAsked' /\ PendingPlanCurrent'
  <2>1. \A d \in Plan, i \in Intent : task'[d][i] = "none" <=> task[d][i] = "none"
    BY <1>6, <1>7
  <2>2. \A d \in Plan : /\ plan'[d] = "none" <=> plan[d] = "none"
                        /\ plan'[d] = "superseded" <=> plan[d] = "superseded"
    BY <1>3, <1>6, <1>8
  <2> QED
    BY <1>2, <2>1, <2>2, SteadyPlans
<1>11. PlanHonest'
  BY <1>6, <1>9 DEF PlanInv, PlanHonest
<1>12. /\ consumers \subseteq consumers'
       /\ \A i \in taken : \E w \in consumers' : w.plan = c /\ w.intent = i
       /\ \A w \in consumers' : w \in consumers \/ (w.plan = c /\ w.intent \in taken)
  BY <1>1, TakenEffect
<1>13. ConsumersTasked'
  <2>1. ASSUME NEW w \in consumers PROVE task'[w.plan][w.intent] # "none"
    <3>1. w.plan \in Plan /\ w.intent \in Intent /\ task[w.plan][w.intent] # "none"
      BY DEF WorkInv, ConsumersTasked, Phase4TypeOK, Consumer
    <3> QED
      BY <1>6, <1>7, <3>1
  <2>2. \A i \in taken : task'[c][i] # "none"
    BY <1>4, <1>6
  <2> QED
    BY <1>12, <2>1, <2>2 DEF ConsumersTasked
<1>14. ASSUME NEW d \in Plan, NEW i \in Intent, task'[d][i] = "running", rev' = d
       PROVE  \E w \in consumers' : w.plan = d /\ w.intent = i
  <2>1. d = c /\ tt[i] = "running"
    BY <1>2, <1>3, <1>6, <1>14
  <2>2. CASE i \in taken
    BY <1>12, <2>1, <2>2
  <2>3. CASE i \notin taken
    <3>1. task[c][i] = "running"
      BY <1>4, <2>1, <2>3
    <3>2. PICK w \in consumers : w.plan = c /\ w.intent = i
      BY <1>3, <3>1 DEF WorkInv, RunningIsObserved
    <3> QED
      BY <1>12, <2>1, <3>2
  <2> QED
    BY <2>2, <2>3
<1>15. RunningIsObserved'
  BY <1>14 DEF RunningIsObserved
<1> QED
  BY <1>3, <1>6, <1>10, <1>11, <1>13, <1>15 DEF PlanInv, WorkInv

\* Executing a plan that is no longer the candidate recomputes its status.
LEMMA ObsoletePlans ==
  ASSUME Phase4TypeOK, PlanInv, WorkInv, NEW c \in Plan, ExecuteObsolete(c)
  PROVE  /\ PlanInv' /\ WorkInv'
         /\ \A d \in Plan : plan[d] = "superseded" => plan'[d] = "superseded"
<1>1. /\ UNCHANGED <<rev, active, born, pending, task, consumers>> /\ plan[c] # "none"
      /\ plan' = [plan EXCEPT ![c] = UpdatedPlanStatus(c, task[c])]
  BY DEF ExecuteObsolete, coordinatorVars
<1>2. /\ \A d \in Plan \ {c} : plan'[d] = plan[d]
      /\ plan'[c] # "none"
      /\ plan'[c] = "superseded" <=> plan[c] = "superseded"
      /\ plan[c] # "superseded" /\ (\E i \in Intent : task[c][i] \in Outstanding) =>
           plan'[c] = "running"
  BY <1>1, UpdatedStatus DEF Phase4TypeOK
<1>3. PlanAge' /\ TasksPlanned' /\ CandidateAsked' /\ PendingPlanCurrent'
  BY <1>1, <1>2, SteadyPlans
<1>4. PlanHonest'
  BY <1>1, <1>2 DEF PlanInv, PlanHonest
<1>5. WorkInv'
  BY <1>1 DEF WorkInv, ConsumersTasked, RunningIsObserved
<1> QED
  BY <1>2, <1>3, <1>4, <1>5 DEF PlanInv

\* A semantic patch makes a plan of its own revision and withdraws the plan of
\* the pending update.
LEMMA SemanticPlans ==
  ASSUME Phase4TypeOK, PlanInv, WorkInv,
         NEW kind \in {"revise", "add", "topic"}, NEW fresh \in SUBSET Intent,
         SemanticPatch(kind, fresh)
  PROVE  /\ PlanInv' /\ WorkInv'
         /\ \A d \in Plan : plan[d] = "superseded" => plan'[d] = "superseded"
<1> DEFINE c == rev + 1
<1>1. c \in Plan /\ rev' = c /\ rev \in Nat /\ pending' = "semantic"
  <2>1. c \in Plan /\ rev' = c
    BY SemanticEffect
  <2>2. rev \in Nat /\ pending' = "semantic"
    BY DEF SemanticPatch, Phase4TypeOK, Revision
  <2> QED
    BY <2>1, <2>2
<1>2. /\ plan'[c] \notin {"none", "superseded"}
      /\ \A d \in Plan \ {c} : plan'[d] = IF d \in PendingPlans THEN "superseded" ELSE plan[d]
  BY SemanticEffect
<1>3. \A d \in Plan \ {c}, i \in Intent :
        /\ task'[d][i] = "none" <=> task[d][i] = "none"
        /\ d \notin PendingPlans => task'[d][i] = task[d][i]
        /\ d \in PendingPlans => task'[d][i] \notin Outstanding
  BY SemanticEffect
<1>4. \A i \in Intent :
        /\ task'[c][i] # "none" => i \in active'
        /\ task'[c][i] \in Outstanding => plan'[c] \in {"pending", "running"}
        /\ task'[c][i] = "running" => \E w \in consumers' : w.plan = c /\ w.intent = i
  BY SemanticEffect
<1>5. \A w \in consumers' \ consumers : w.plan = c /\ task'[c][w.intent] # "none"
  BY SemanticEffect
<1>6. plan[c] = "none" /\ \A i \in Intent : task[c][i] = "none"
  BY <1>1, NoPlanAhead DEF PlanInv
<1>7. \A d \in Plan : plan[d] # "none" => d <= rev
  BY DEF PlanInv, PlanAge
<1>8. \A i \in Intent : born'[i] \in {born[i], c}
  BY DEF SemanticPatch
<1>9. \A d \in PendingPlans : d \in Plan /\ plan[d] # "none"
  BY DEF PendingPlans
<1> HIDE DEF c
<1>10. c = rev + 1
  BY DEF c
<1>11. PlanAge'
  BY <1>1, <1>2, <1>7, <1>9, <1>10 DEF PlanAge, PlanInv, Plan
<1>12. TasksPlanned'
  BY <1>2, <1>3, <1>9 DEF TasksPlanned, PlanInv
<1>13. PlanHonest'
  BY <1>2, <1>3, <1>4 DEF PlanHonest, PlanInv
<1>14. CandidateAsked'
  <2>1. \A d \in Plan : rev' = d => Tasks(d)' \subseteq active'
    BY <1>1, <1>4 DEF Tasks
  <2>2. \A i \in Intent : born'[i] <= rev'
    BY <1>1, <1>8, <1>10 DEF PlanInv, CandidateAsked, Phase4TypeOK, Revision
  <2> QED
    BY <2>1, <2>2 DEF CandidateAsked
<1>15. PendingPlanCurrent'
  <2>1. \A d \in PendingPlans' : d = c
    BY <1>1, <1>2, <1>7, <1>9, <1>10 DEF PendingPlans, Plan
  <2> QED
    BY <1>2, <1>4, <2>1 DEF PendingPlanCurrent, Tasks
<1>16. ConsumersTasked'
  <2>1. ASSUME NEW w \in consumers PROVE task'[w.plan][w.intent] # "none"
    <3>1. w.plan \in Plan /\ w.intent \in Intent /\ task[w.plan][w.intent] # "none"
      BY DEF WorkInv, ConsumersTasked, Phase4TypeOK, Consumer
    <3> QED
      BY <1>3, <1>6, <3>1
  <2> QED
    BY <1>5, <2>1 DEF ConsumersTasked
<1>17. RunningIsObserved'
  BY <1>1, <1>4 DEF RunningIsObserved
<1>18. \A d \in Plan : plan[d] = "superseded" => plan'[d] = "superseded"
  BY <1>2, <1>6
<1> QED
  BY <1>11, <1>12, <1>13, <1>14, <1>15, <1>16, <1>17, <1>18 DEF PlanInv, WorkInv

\* Every step keeps the invariant of plans and work, and no superseded plan is
\* revived.
LEMMA PlanStep ==
  ASSUME Phase4TypeOK, PlanInv, WorkInv, [Phase4Next]_phase4Vars
  PROVE  /\ PlanInv' /\ WorkInv'
         /\ \A c \in Plan : plan[c] = "superseded" => plan'[c] = "superseded"
<1> DEFINE Goal == /\ PlanInv' /\ WorkInv'
                   /\ \A c \in Plan : plan[c] = "superseded" => plan'[c] = "superseded"
<1>1. CASE Clarify \/ Format
  <2>1. \A c \in Plan : plan'[c] \in {plan[c], "superseded"}
    BY <1>1 DEF Clarify, Format, Supersede
  <2> QED
    BY <1>1, <2>1, WithdrawPlans
<1>2. ASSUME NEW kind \in {"revise", "add", "topic"}, NEW fresh \in SUBSET Intent,
             SemanticPatch(kind, fresh)
      PROVE  Goal
  BY <1>2, SemanticPlans
<1>3. ASSUME NEW c \in Plan, Execute(c) \/ ExecuteObsolete(c) PROVE Goal
  BY <1>3, ExecutePlans, ObsoletePlans
<1>4. CASE CloseRuntime \/ \E w \in consumers : Search(w) \/ ConsumerDies(w)
  <2>1. UNCHANGED plan
    BY <1>4 DEF CloseRuntime, Search, ConsumerDies, storeVars
  <2> QED
    BY <1>4, <2>1, ConsumerPlans
<1>5. ASSUME NEW w \in consumers, Consume(w) \/ ConsumeRejected(w) PROVE Goal
  <2>1. \E s \in {"completed", "failed", "discarded"} : RecordTask(w.plan, w.intent, s)
    BY <1>5 DEF Consume, ConsumeRejected, RecordRejected
  <2>2. consumers' = consumers \ {w} /\ UNCHANGED <<rev, active, born, pending>>
    BY <1>5 DEF Consume, ConsumeRejected
  <2> QED
    BY <2>1, <2>2, RecordPlans
<1>6. ASSUME RecordEvidence \/ \E g \in Generation : PublishAnswer(g) \/ PublishPresentation(g)
      PROVE  Goal
  <2>1. /\ rev' = rev + 1 /\ UNCHANGED <<active, born, plan, task, consumers>>
        /\ pending' \in {pending, "none"}
    BY <1>6 DEF RecordEvidence, PublishAnswer, PublishPresentation, coordinatorVars
  <2> QED
    BY <2>1, RevisionPlans
<1>7. ASSUME \/ UNCHANGED phase4Vars
             \/ \E g \in Generation : BeginAnswer(g) \/ BeginPresentation(g) \/ Discard(g)
      PROVE  Goal
  <2>1. UNCHANGED <<rev, active, born, pending, plan, task, consumers>>
    BY <1>7 DEF BeginAnswer, BeginPresentation, Discard, phase4Vars, storeVars, coordinatorVars
  <2> QED
    BY <2>1 DEF PlanInv, WorkInv, PlanAge, TasksPlanned, PlanHonest, CandidateAsked,
                PendingPlanCurrent, PendingPlans, Tasks, ConsumersTasked, RunningIsObserved
<1> QED
  BY <1>1, <1>2, <1>3, <1>4, <1>5, <1>6, <1>7
  DEF Phase4Next, CoordinatorStep, ConsumerStep, PublisherStep

-----------------------------------------------------------------------------
(* References, and what generations were started from.                     *)

\* Every step leaves a state the contract's validators accept.
LEMMA ReferencesStep ==
  ASSUME Phase4TypeOK, ReferencesValid, [Phase4Next]_phase4Vars
  PROVE  ReferencesValid'
<1>1. CASE Clarify \/ Format
  BY <1>1 DEF Clarify, Format, ReferencesValid, Known, Usable
<1>2. ASSUME NEW kind \in {"revise", "add", "topic"}, NEW fresh \in SUBSET Intent,
             SemanticPatch(kind, fresh)
      PROVE  ReferencesValid'
  <2> DEFINE kept == IF kind = "topic" THEN {} ELSE active \ fresh
  <2>1. PICK reused, preserved \in SUBSET Intent :
          /\ reused \subseteq Carried(kept, fresh, kind)
          /\ preserved \subseteq {i \in reused : <<i, born[i]>> \in claims}
          /\ evidence' = {<<i, born'[i]>> : i \in reused}
          /\ claims' = {<<i, born'[i]>> : i \in preserved}
    BY <1>2, ZenonT(60) DEF SemanticPatch, Analysis
  <2>2. active' = kept \cup fresh /\ pending' = "semantic"
        /\ answer' = IF answer = "unavailable" THEN "unavailable" ELSE "stale"
    BY <1>2 DEF SemanticPatch
  <2> HIDE DEF kept
  <2>3. reused \subseteq active' /\ preserved \subseteq reused
    BY <2>1, <2>2 DEF Carried
  <2>4. evidence' \subseteq Known(active)' /\ claims' \subseteq evidence'
    BY <2>1, <2>3 DEF Known
  <2>5. claims' # {} => claims # {}
    BY <2>1
  <2> QED
    BY <2>2, <2>4, <2>5 DEF ReferencesValid
<1>3. CASE RecordEvidence
  <2>1. PICK S \in (SUBSET active) \ {{}}, old \in {evidence, {}} : evidence' = old \cup Known(S)
    BY <1>3 DEF RecordEvidence
  <2>2. UNCHANGED <<active, born, answer, pending>> /\ claims' = {}
    BY <1>3 DEF RecordEvidence
  <2>3. Known(S) \subseteq Known(active)
    BY <2>1 DEF Known
  <2>4. Known(active)' = Known(active)
    BY <2>2 DEF Known
  <2> QED
    BY <2>1, <2>2, <2>3, <2>4 DEF ReferencesValid
<1>4. ASSUME NEW w \in consumers, Consume(w) PROVE ReferencesValid'
  <2>1. evidence \subseteq evidence' /\ evidence' \subseteq evidence \cup Known({w.intent})
    BY <1>4 DEF Consume
  <2>2. w.intent \in active /\ UNCHANGED <<active, born, claims, answer, pending>>
    BY <1>4 DEF Consume, StillAsked
  <2>3. Known({w.intent}) \subseteq Known(active)
    BY <2>2 DEF Known
  <2>4. Known(active)' = Known(active)
    BY <2>2 DEF Known
  <2> QED
    BY <2>1, <2>2, <2>3, <2>4 DEF ReferencesValid
<1>5. ASSUME NEW g \in Generation, PublishAnswer(g) PROVE ReferencesValid'
  <2>1. PICK new \in SUBSET Known(IF seen[g] \cap evidence = {} THEN {} ELSE active) :
          /\ claims' = claims \cup new
          /\ answer' \in {"current", "partial", "failed"}
    BY <1>5 DEF PublishAnswer
  <2>2. UNCHANGED <<active, born, evidence>> /\ pending' = "none"
    BY <1>5 DEF PublishAnswer
  <2>3. new \subseteq Known(active) /\ (new # {} => evidence # {})
    BY <2>1 DEF Known
  <2>4. Known(active)' = Known(active)
    BY <2>2 DEF Known
  <2> QED
    BY <2>1, <2>2, <2>3, <2>4 DEF ReferencesValid
<1>6. ASSUME NEW g \in Generation, PublishPresentation(g) PROVE ReferencesValid'
  BY <1>6 DEF PublishPresentation, ReferencesValid, Known
<1>7. ASSUME UNCHANGED <<active, born, evidence, claims, answer, pending>> PROVE ReferencesValid'
  BY <1>7 DEF ReferencesValid, Known
<1>8. ASSUME \/ UNCHANGED phase4Vars
             \/ \E c \in Plan : Execute(c) \/ ExecuteObsolete(c)
             \/ CloseRuntime
             \/ \E w \in consumers : Search(w) \/ ConsumerDies(w) \/ ConsumeRejected(w)
             \/ \E g \in Generation : BeginAnswer(g) \/ BeginPresentation(g) \/ Discard(g)
      PROVE  ReferencesValid'
  BY <1>7, <1>8 DEF phase4Vars, storeVars, Execute, ExecuteObsolete, CloseRuntime, Search,
                    ConsumerDies, ConsumeRejected, BeginAnswer, BeginPresentation, Discard
<1> QED
  BY <1>1, <1>2, <1>3, <1>4, <1>5, <1>6, <1>8
  DEF Phase4Next, CoordinatorStep, ConsumerStep, PublisherStep

\* A generation request never belongs to a later revision, and at its own
\* revision evidence has only been added since it began.
LEMMA GenerationStep ==
  ASSUME Phase4TypeOK, GenerationInv, [Phase4Next]_phase4Vars
  PROVE  GenerationInv'
<1>1. ASSUME NEW g \in Generation,
             \/ rev' = rev /\ evidence \subseteq evidence'
             \/ rev' = rev + 1,
             \/ UNCHANGED <<work[g], base[g], seen[g]>>
             \/ work'[g] = "idle" /\ base'[g] = 0
             \/ work'[g] = "answer" /\ base'[g] = rev /\ seen'[g] = evidence /\ UNCHANGED <<rev, evidence>>
             \/ work'[g] = "presentation" /\ base'[g] = rev
      PROVE  /\ base'[g] <= rev'
             /\ work'[g] = "answer" /\ base'[g] = rev' => seen'[g] \subseteq evidence'
  BY <1>1 DEF GenerationInv, Phase4TypeOK, Revision
<1>2. ASSUME \/ rev' = rev /\ evidence \subseteq evidence'
             \/ rev' = rev + 1,
             UNCHANGED publisherVars
      PROVE  GenerationInv'
  BY <1>1, <1>2 DEF GenerationInv, publisherVars
<1>3. ASSUME \/ rev' = rev /\ evidence \subseteq evidence'
             \/ rev' = rev + 1,
             NEW h \in Generation, Release(h)
      PROVE  GenerationInv'
  <2>1. \A g \in Generation : \/ UNCHANGED <<work[g], base[g], seen[g]>>
                              \/ work'[g] = "idle" /\ base'[g] = 0
    BY <1>3 DEF Release, Phase4TypeOK
  <2> QED
    BY <1>1, <1>3, <2>1 DEF GenerationInv
<1>4. ASSUME NEW h \in Generation, BeginAnswer(h) \/ BeginPresentation(h) PROVE GenerationInv'
  <2>1. UNCHANGED <<rev, evidence>>
    BY <1>4 DEF BeginAnswer, BeginPresentation, storeVars
  <2>2. \A g \in Generation :
          \/ UNCHANGED <<work[g], base[g], seen[g]>>
          \/ work'[g] = "answer" /\ base'[g] = rev /\ seen'[g] = evidence
          \/ work'[g] = "presentation" /\ base'[g] = rev
    BY <1>4 DEF BeginAnswer, BeginPresentation, Phase4TypeOK
  <2> QED
    BY <1>1, <2>1, <2>2 DEF GenerationInv
<1>5. CASE Clarify \/ Format \/ RecordEvidence
  BY <1>2, <1>5 DEF Clarify, Format, RecordEvidence
<1>6. ASSUME NEW kind \in {"revise", "add", "topic"}, NEW fresh \in SUBSET Intent,
             SemanticPatch(kind, fresh)
      PROVE  GenerationInv'
  BY <1>2, <1>6 DEF SemanticPatch
<1>7. ASSUME \/ UNCHANGED phase4Vars
             \/ \E c \in Plan : Execute(c) \/ ExecuteObsolete(c)
             \/ CloseRuntime
             \/ \E w \in consumers : Search(w) \/ Consume(w) \/ ConsumerDies(w) \/ ConsumeRejected(w)
      PROVE  GenerationInv'
  <2>1. UNCHANGED <<rev, publisherVars>> /\ evidence \subseteq evidence'
    BY <1>7 DEF phase4Vars, storeVars, publisherVars, Execute, ExecuteObsolete, CloseRuntime,
                Search, Consume, ConsumerDies, ConsumeRejected
  <2> QED
    BY <1>2, <2>1
<1>8. ASSUME NEW h \in Generation, PublisherStep(h) PROVE GenerationInv'
  <2>1. Release(h) /\ \/ rev' = rev /\ evidence \subseteq evidence'
                      \/ rev' = rev + 1
    BY <1>8 DEF PublisherStep, PublishAnswer, PublishPresentation, Discard, storeVars
  <2> QED
    BY <1>3, <2>1
<1> QED
  BY <1>4, <1>5, <1>6, <1>7, <1>8 DEF Phase4Next, CoordinatorStep, ConsumerStep
-----------------------------------------------------------------------------
(* The invariant, and what follows from it.                                *)

LEMMA Phase4InitInv ==
  ASSUME Phase4Init
  PROVE  Phase4Inv
<1>1. 0 \in Revision
  BY Phase4Assumption DEF Revision
<1>2. Phase4TypeOK
  <2>1. plan \in [Plan -> PlanStatus] /\ task \in [Plan -> [Intent -> TaskStatus]]
    BY DEF Phase4Init, PlanStatus, TaskStatus
  <2>2. runtimes \in 0..MaxRuntimes
    BY Phase4Assumption DEF Phase4Init
  <2>3. /\ work \in [Generation -> {"idle", "answer", "presentation"}]
        /\ base \in [Generation -> Revision] /\ seen \in [Generation -> SUBSET Identity]
    BY <1>1 DEF Phase4Init
  <2> QED
    BY <1>1, <2>1, <2>2, <2>3 DEF Phase4Init, Phase4TypeOK, Pending, AnswerStatus
<1>3. ReferencesValid /\ GenerationInv
  BY DEF Phase4Init, ReferencesValid, GenerationInv
<1>4. PlanInv /\ WorkInv
  BY DEF Phase4Init, PlanInv, WorkInv, PlanAge, TasksPlanned, PlanHonest, CandidateAsked, Tasks,
         PendingPlanCurrent, PendingPlans, ConsumersTasked, RunningIsObserved, Outstanding, Plan
<1> QED
  BY <1>2, <1>3, <1>4 DEF Phase4Inv

\* The invariant holds in every reachable state.
THEOREM Phase4Invariant == Phase4Spec => []Phase4Inv
<1>1. Phase4Init => Phase4Inv
  BY Phase4InitInv
<1>2. Phase4Inv /\ [Phase4Next]_phase4Vars => Phase4Inv'
  BY Phase4TypeStep, ReferencesStep, PlanStep, GenerationStep DEF Phase4Inv
<1> QED
  BY <1>1, <1>2, PTL DEF Phase4Spec

\* Types are kept.
THEOREM Phase4TypeCorrect == Phase4Spec => []Phase4TypeOK
BY Phase4Invariant, PTL DEF Phase4Inv

\* No transition of the store leaves a state the contract rejects
\* (state_references_are_valid): evidence and claims are of active intents, and
\* claims are held only with current evidence to cite.
THEOREM ReferencesStayValid == Phase4Spec => []ReferencesValid
BY Phase4Invariant, PTL DEF Phase4Inv

\* No plan with outstanding tasks passes for finished or withdrawn.
THEOREM PlansStayHonest == Phase4Spec => []PlanHonest
<1>1. Phase4Inv => PlanHonest
  BY DEF Phase4Inv, PlanInv
<1> QED
  BY <1>1, Phase4Invariant, PTL

\* Every running task of the candidate's plan has a consumer that will end it.
THEOREM RunningStaysObserved == Phase4Spec => []RunningIsObserved
<1>1. Phase4Inv => RunningIsObserved
  BY DEF Phase4Inv, WorkInv
<1> QED
  BY <1>1, Phase4Invariant, PTL

\* The plan of the pending update asks only about active intents, and is alive.
THEOREM PendingPlanStaysCurrent == Phase4Spec => []PendingPlanCurrent
<1>1. Phase4Inv => PendingPlanCurrent
  BY DEF Phase4Inv, PlanInv
<1> QED
  BY <1>1, Phase4Invariant, PTL

\* No late result revives a superseded plan.
THEOREM SupersededStaysFinal == Phase4Spec => SupersededIsFinal
<1>1. Phase4Inv /\ [Phase4Next]_phase4Vars =>
        [\A c \in Plan : plan[c] = "superseded" => plan'[c] = "superseded"]_phase4Vars
  BY PlanStep DEF Phase4Inv
<1> QED
  BY <1>1, Phase4Invariant, PTL DEF Phase4Spec, SupersededIsFinal

\* Steps at one revision change evidence only by admitting a consumer's.
LEMMA AdmissionStep ==
  ASSUME Phase4TypeOK, PlanInv, WorkInv, Phase4Next, rev' = rev, NEW e \in evidence' \ evidence
  PROVE  /\ plan[rev] # "superseded" /\ e[1] \in Tasks(rev)
         /\ evidence \subseteq evidence'
<1>1. rev' # rev + 1
  BY DEF Phase4TypeOK, Revision
<1>2. \E w \in consumers : Consume(w)
  BY <1>1 DEF Phase4Next, CoordinatorStep, ConsumerStep, PublisherStep, Clarify, Format,
              RecordEvidence, SemanticPatch, Execute, ExecuteObsolete, Search, CloseRuntime,
              ConsumerDies, ConsumeRejected, BeginAnswer, BeginPresentation, PublishAnswer,
              PublishPresentation, Discard, storeVars
<1>3. PICK w \in consumers : Consume(w)
  BY <1>2
<1>4. Admissible(w) /\ evidence' = evidence \cup Known({w.intent})
  BY <1>3 DEF Consume
<1>5. e[1] = w.intent
  BY <1>4 DEF Known
<1>6. w.plan \in Plan /\ w.intent \in Intent /\ task[w.plan][w.intent] # "none"
  BY DEF WorkInv, ConsumersTasked, Phase4TypeOK, Consumer
<1> QED
  BY <1>4, <1>5, <1>6 DEF Admissible, Tasks

\* Evidence that appears without a new revision is for a task of the newest
\* plan, which is not superseded: late results of older candidates are kept out.
THEOREM AdmissionFromCandidate == Phase4Spec => AdmittedFromCandidate
<1>1. Phase4Inv /\ [Phase4Next]_phase4Vars =>
        [rev' = rev =>
           \A e \in evidence' \ evidence :
             /\ plan[rev] # "superseded" /\ e[1] \in Tasks(rev)
             /\ evidence \subseteq evidence']_phase4Vars
  BY AdmissionStep DEF Phase4Inv
<1> QED
  BY <1>1, Phase4Invariant, PTL DEF Phase4Spec, AdmittedFromCandidate

\* A step that ends an answer's generation with a new revision publishes it.
LEMMA PublicationStep ==
  ASSUME Phase4TypeOK, PlanInv, GenerationInv, Phase4Next, NEW g \in Generation,
         work[g] = "answer", work'[g] = "idle", rev' # rev
  PROVE  /\ \A c \in Plan : plan[c] # "none" => c <= base[g]
         /\ seen[g] \subseteq evidence
         /\ claims \subseteq claims'
<1>1. \A h \in Generation : Release(h) /\ work[h] # "answer" => work'[g] = work[g]
  BY DEF Release, Phase4TypeOK
<1>2. PublishAnswer(g)
  <2>1. ASSUME NEW h \in Generation, PublishAnswer(h) PROVE h = g
    BY <2>1 DEF PublishAnswer, Release, Phase4TypeOK
  <2>2. ~\E h \in Generation : PublishPresentation(h)
    BY <1>1 DEF PublishPresentation
  <2>3. work' # work
    OBVIOUS
  <2>4. ~UNCHANGED publisherVars
    BY <2>3 DEF publisherVars
  <2> QED
    BY <2>1, <2>2, <2>4
    DEF Phase4Next, CoordinatorStep, ConsumerStep, PublisherStep, Clarify, Format,
        RecordEvidence, SemanticPatch, Execute, ExecuteObsolete, Search, CloseRuntime, Consume,
        ConsumerDies, ConsumeRejected, BeginAnswer, BeginPresentation, Discard, storeVars
<1>3. base[g] = rev /\ claims \subseteq claims'
  BY <1>2 DEF PublishAnswer, StillCurrent
<1> QED
  BY <1>3 DEF PlanInv, PlanAge, GenerationInv

\* A published answer was generated from the newest accepted update, and from
\* evidence that is still current.
THEOREM AnswerStaysTheNewest == Phase4Spec => AnswerIsTheNewest
<1>1. Phase4Inv /\ [Phase4Next]_phase4Vars =>
        [\A g \in Generation :
           work[g] = "answer" /\ work'[g] = "idle" /\ rev' # rev =>
             /\ \A c \in Plan : plan[c] # "none" => c <= base[g]
             /\ seen[g] \subseteq evidence
             /\ claims \subseteq claims']_phase4Vars
  BY PublicationStep DEF Phase4Inv
<1> QED
  BY <1>1, Phase4Invariant, PTL DEF Phase4Spec, AnswerIsTheNewest

-----------------------------------------------------------------------------
(* The records module SessionRecords promises.                             *)

\* What the plan of the present revision retrieves for.
Sought == {<<i, born[i]>> : i \in {i \in Intent : rev \in Plan /\ i \in Tasks(rev)}}

\* A revision without a plan seeks nothing.
LEMMA NothingSought ==
  ASSUME Phase4TypeOK, PlanInv, rev' = rev + 1,
         \A c \in Plan, i \in Intent : task'[c][i] = "none" <=> task[c][i] = "none"
  PROVE  Sought' = {}
<1>1. \A c \in Plan : c > rev => \A i \in Intent : task[c][i] = "none"
  BY NoPlanAhead DEF PlanInv
<1>2. rev' > rev
  BY DEF Phase4TypeOK, Revision
<1>3. \A c \in Plan : c = rev' => \A i \in Intent : task'[c][i] = "none"
  BY <1>1, <1>2
<1> QED
  BY <1>3 DEF Sought, Tasks

\* The slots whose intent a patch leaves alone, and the identities it renews.
Kept(kind, fresh) == IF kind = "topic" THEN {} ELSE active \ fresh
Renewed(kind, fresh) == IF kind = "revise" THEN fresh ELSE {}

\* What a patch keeps, in terms of identities.
PatchRecords(kind, fresh, reused, preserved, targeted) ==
  /\ active' = Kept(kind, fresh) \cup fresh
  /\ \A i \in Kept(kind, fresh) : born'[i] = born[i]
  /\ \A i \in fresh : born'[i] = rev + 1
  /\ evidence' = {<<i, born'[i]>> : i \in reused}
  /\ claims' = {<<i, born'[i]>> : i \in preserved}
  /\ Sought' = {<<i, born'[i]>> : i \in targeted}
  /\ preserved \subseteq reused
  /\ reused \subseteq Kept(kind, fresh) \cup Renewed(kind, fresh)
  /\ \A i \in reused : <<i, born[i]>> \in evidence
  /\ \A i \in preserved : <<i, born[i]>> \in claims
  /\ targeted \subseteq Kept(kind, fresh) \cup fresh
  /\ kind # "revise" => fresh \subseteq targeted
  /\ \A i \in Kept(kind, fresh) :
       <<i, born[i]>> \in claims => i \in preserved \cup targeted
  /\ \A i \in targeted \cap Kept(kind, fresh) : <<i, born[i]>> \in claims

\* A semantic patch keeps evidence and claims so, and its plan seeks the rest.
LEMMA SemanticRecords ==
  ASSUME Phase4TypeOK, PlanInv,
         NEW kind \in {"revise", "add", "topic"}, NEW fresh \in SUBSET Intent,
         SemanticPatch(kind, fresh)
  PROVE  \E reused, preserved, targeted \in SUBSET Intent :
           PatchRecords(kind, fresh, reused, preserved, targeted)
<1> DEFINE kept == Kept(kind, fresh)
           c == rev + 1
<1> HIDE DEF c
<1>1. PICK reused, preserved, targeted, taken \in SUBSET Intent, dispatched \in BOOLEAN :
        /\ Analysis(kept, fresh, kind, reused, preserved, targeted)
        /\ evidence' = {<<i, born'[i]>> : i \in reused}
        /\ claims' = {<<i, born'[i]>> : i \in preserved}
        /\ taken \subseteq targeted /\ (~dispatched => taken = {})
        /\ plan' = [d \in Plan |-> IF d = c THEN NewStatus(targeted, taken, dispatched)
                                   ELSE IF d \in PendingPlans THEN "superseded" ELSE plan[d]]
        /\ task' = [d \in Plan |-> IF d = c THEN NewTasks(targeted, taken, dispatched)
                                   ELSE IF d \in PendingPlans THEN Withdrawn(d) ELSE task[d]]
        /\ IF dispatched THEN Runtime(c) /\ Taken(c, taken) ELSE UNCHANGED coordinatorVars
  BY DEF SemanticPatch, Kept, c
<1>2. /\ active' = kept \cup fresh /\ rev' = c /\ c \in Plan
      /\ born' = [i \in Intent |-> IF i \in fresh THEN c ELSE born[i]]
  <2>1. c \in Plan
    BY SemanticEffect DEF c
  <2> QED
    BY <2>1 DEF SemanticPatch, Kept, c
<1>3. kept \subseteq active /\ kept \cap fresh = {} /\ active \subseteq Intent
  BY DEF Phase4TypeOK, Kept
<1>4. \A i \in Intent : i \in Tasks(rev)' <=> i \in targeted
  <2>1. \A i \in Intent : NewTasks(targeted, taken, dispatched)[i] = "none" <=> i \notin targeted
    BY <1>1, NewPlanEffect
  <2>2. task'[c] = NewTasks(targeted, taken, dispatched)
    BY <1>1, <1>2
  <2> QED
    BY <1>2, <2>1, <2>2 DEF Tasks
<1>5. Sought' = {<<i, born'[i]>> : i \in targeted}
  BY <1>2, <1>4 DEF Sought
<1>6. (\A i \in kept : born'[i] = born[i]) /\ \A i \in fresh : born'[i] = c
  BY <1>2, <1>3
<1> HIDE DEF kept
<1>7. /\ preserved \subseteq reused
      /\ reused \subseteq kept \cup Renewed(kind, fresh)
      /\ \A i \in reused : <<i, born[i]>> \in evidence
      /\ \A i \in preserved : <<i, born[i]>> \in claims
  BY <1>1 DEF Analysis, Carried, Renewed
<1>8. /\ targeted \subseteq kept \cup fresh /\ (kind # "revise" => fresh \subseteq targeted)
      /\ \A i \in kept : <<i, born[i]>> \in claims => i \in preserved \cup targeted
      /\ \A i \in targeted \cap kept : <<i, born[i]>> \in claims
  BY <1>1 DEF Analysis
<1>9. /\ active' = kept \cup fresh /\ evidence' = {<<i, born'[i]>> : i \in reused}
      /\ claims' = {<<i, born'[i]>> : i \in preserved}
  BY <1>1, <1>2
<1> QED
  BY <1>5, <1>6, <1>7, <1>8, <1>9, ZenonT(60) DEF PatchRecords, kept, c

\* A semantic patch is one of the abstract patches.
LEMMA SemanticOfRecords ==
  ASSUME Phase4TypeOK, PlanInv,
         NEW kind \in {"revise", "add", "topic"}, NEW fresh \in (SUBSET Intent) \ {{}},
         SemanticPatch(kind, fresh)
  PROVE  Records!Patch
<1> DEFINE kept == Kept(kind, fresh)
           T == Known(fresh)
           N == fresh \X {rev + 1}
<1>0. PICK reused, preserved, targeted \in SUBSET Intent :
        PatchRecords(kind, fresh, reused, preserved, targeted)
  BY SemanticRecords
<1>1. /\ active' = kept \cup fresh
      /\ \A i \in kept : born'[i] = born[i]
      /\ \A i \in fresh : born'[i] = rev + 1
      /\ evidence' = {<<i, born'[i]>> : i \in reused}
      /\ claims' = {<<i, born'[i]>> : i \in preserved}
      /\ Sought' = {<<i, born'[i]>> : i \in targeted}
      /\ preserved \subseteq reused
      /\ reused \subseteq kept \cup Renewed(kind, fresh)
      /\ \A i \in reused : <<i, born[i]>> \in evidence
      /\ \A i \in preserved : <<i, born[i]>> \in claims
      /\ targeted \subseteq kept \cup fresh
      /\ kind # "revise" => fresh \subseteq targeted
      /\ \A i \in kept : <<i, born[i]>> \in claims => i \in preserved \cup targeted
      /\ \A i \in targeted \cap kept : <<i, born[i]>> \in claims
  BY <1>0 DEF PatchRecords
<1>2. /\ rev' = rev + 1 /\ (kind = "revise" => fresh \subseteq active)
      /\ (kind = "add" => fresh \cap active = {})
  BY DEF SemanticPatch
<1>3. kept \subseteq active /\ kept \cap fresh = {}
  BY DEF Kept
<1>4. Known(active)' = Known(kept) \cup N
  BY <1>1 DEF Known
<1>5. Sought' \subseteq Known(active)'
  BY <1>1 DEF Known
<1>6. claims' \subseteq evidence'
  BY <1>1
<1>7. (claims \cap Known(kept)) \ claims' \subseteq Sought'
  BY <1>1 DEF Known
<1>8. Sought' \cap Known(kept) \subseteq claims
  <2>1. ASSUME NEW i \in targeted, <<i, born'[i]>> \in Known(kept)
        PROVE  <<i, born'[i]>> \in claims
    BY <1>1, <2>1 DEF Known
  <2> QED
    BY <1>1, <2>1
<1> DEFINE After(i) == IF i \in T THEN <<i[1], rev + 1>> ELSE i
<1>9. (\A i \in kept : After(<<i, born[i]>>) = <<i, born[i]>>)
      /\ \A i \in fresh : After(<<i, born[i]>>) = <<i, rev + 1>>
  BY <1>3 DEF Known
<1>10. CASE kind = "revise"
  <2>1. T \subseteq Known(active) /\ T # {}
    <3>1. PICK i \in Intent : i \in fresh
      OBVIOUS
    <3>2. <<i, born[i]>> \in T
      BY <3>1 DEF Known
    <3>3. T \subseteq Known(active)
      BY <1>2, <1>10 DEF Known
    <3> QED
      BY <3>2, <3>3
  <2>2. Known(active) \ T = Known(kept)
    BY <1>10 DEF Known, Kept
  <2>3. Known(active)' = {After(i) : i \in Known(active)}
    <3>1. Known(active) = Known(kept) \cup T
      BY <1>2, <1>10 DEF Known, Kept
    <3>2. {After(i) : i \in Known(kept)} = Known(kept)
      <4>1. \A k \in Known(kept) : \E i \in kept : k = <<i, born[i]>>
        BY DEF Known
      <4>2. \A i \in kept : After(<<i, born[i]>>) = <<i, born[i]>>
        BY <1>9
      <4> HIDE DEF After
      <4>3. \A k \in Known(kept) : After(k) = k
        BY <4>1, <4>2
      <4> QED
        BY <4>3
    <3>3. {After(i) : i \in T} = N
      <4>1. ASSUME NEW i \in fresh
            PROVE  /\ <<i, born[i]>> \in T /\ <<i, rev + 1>> \in N
                   /\ After(<<i, born[i]>>) = <<i, rev + 1>>
        BY <1>9 DEF Known
      <4>2. (\A k \in T : \E i \in fresh : k = <<i, born[i]>>)
            /\ \A k \in N : \E i \in fresh : k = <<i, rev + 1>>
        BY DEF Known
      <4> HIDE DEF T, N, After
      <4>3. \A k \in T : After(k) \in N
        BY <4>1, <4>2
      <4>4. ASSUME NEW k \in N PROVE \E j \in T : k = After(j)
        <5>1. PICK i \in fresh : k = <<i, rev + 1>>
          BY <4>2
        <5>2. <<i, born[i]>> \in T /\ After(<<i, born[i]>>) = <<i, rev + 1>>
          BY <4>1
        <5> QED
          BY <5>1, <5>2
      <4> QED
        BY <4>3, <4>4
    <3> HIDE DEF T, N, After
    <3> QED
      BY <1>4, <3>1, <3>2, <3>3
  <2>4. \A i \in reused : <<i, born'[i]>> = After(<<i, born[i]>>)
    BY <1>1, <1>9, <1>10 DEF Renewed
  <2>5. evidence' \subseteq {After(i) : i \in evidence} /\ claims' \subseteq {After(i) : i \in claims}
    <3> HIDE DEF After
    <3> QED
      BY <1>1, <2>4
  <2>6. PICK U : U = T
    OBVIOUS
  <2>7. Records!Selects(Known(active) \ U)
    BY <1>5, <1>7, <1>8, <2>2, <2>6 DEF Records!Selects, Sought
  <2>8. \A S : Records!Moved(U, S) = {After(i) : i \in S}
    BY <2>6 DEF Records!Moved
  <2> HIDE DEF T, After
  <2>9. Records!Revise(U)
    BY <1>6, <2>3, <2>5, <2>7, <2>8 DEF Records!Revise
  <2>10. U \in (SUBSET Known(active)) \ {{}}
    BY <2>1, <2>6
  <2> QED
    BY <1>2, <2>9, <2>10 DEF Records!Patch
<1>11. CASE kind = "add"
  <2>1. kept = active /\ \A i \in Known(active) : i[1] \notin fresh
    BY <1>2, <1>11 DEF Known, Kept
  <2>2. evidence' \subseteq evidence /\ claims' \subseteq claims /\ N \subseteq Sought'
    BY <1>1, <1>11 DEF Renewed
  <2>3. Records!Selects(Known(active))
    BY <1>5, <1>7, <1>8, <2>1 DEF Records!Selects, Sought
  <2>4. Records!Ask(fresh)
    BY <1>4, <1>6, <2>1, <2>2, <2>3 DEF Records!Ask, Records!Fresh, Sought
  <2> QED
    BY <1>2, <2>4 DEF Records!Patch
<1>12. CASE kind = "topic"
  <2>1. evidence' = {} /\ claims' = {}
    BY <1>1, <1>12 DEF Kept, Renewed
  <2>2. Known(active)' = N
    BY <1>4, <1>12 DEF Known, Kept
  <2>3. Sought' = N
    BY <1>1, <1>12 DEF Kept
  <2>4. Records!ChangeTopic(fresh)
    BY <2>1, <2>2, <2>3 DEF Records!ChangeTopic, Records!Fresh, Sought
  <2> QED
    BY <1>2, <2>4 DEF Records!Patch
<1> QED
  BY <1>10, <1>11, <1>12

\* Dispatching and recording change no plan's set of tasks.
LEMMA SoughtUnchanged ==
  ASSUME Phase4TypeOK, PlanInv, WorkInv,
         \/ \E c \in Plan : Execute(c) \/ ExecuteObsolete(c)
         \/ \E w \in consumers : Consume(w) \/ ConsumeRejected(w)
  PROVE  UNCHANGED <<rev, active, born, claims, Sought>>
<1>1. UNCHANGED <<rev, active, born, claims>>
  BY DEF Execute, ExecuteObsolete, Consume, ConsumeRejected
<1>2. ASSUME NEW c \in Plan, Execute(c)
      PROVE  \A d \in Plan, i \in Intent : task'[d][i] = "none" <=> task[d][i] = "none"
  <2> DEFINE asked == {i \in Tasks(c) : candidate = 0 \/ <<c, i>> \notin bound}
  <2>1. PICK taken \in SUBSET Intent :
          /\ taken \subseteq asked
          /\ task' = [task EXCEPT ![c] = [i \in Intent |-> IF i \in taken THEN "running"
                                                           ELSE IF i \in asked THEN "failed"
                                                           ELSE task[c][i]]]
    BY <1>2 DEF Execute
  <2>2. \A i \in asked : i \in Tasks(c)
    OBVIOUS
  <2> HIDE DEF asked
  <2> QED
    BY <2>1, <2>2 DEF Tasks, Phase4TypeOK
<1>3. ASSUME NEW c \in Plan, ExecuteObsolete(c) PROVE UNCHANGED task
  BY <1>3 DEF ExecuteObsolete
<1>4. ASSUME NEW w \in consumers, Consume(w) \/ ConsumeRejected(w)
      PROVE  \A d \in Plan, i \in Intent : task'[d][i] = "none" <=> task[d][i] = "none"
  <2>1. w.plan \in Plan /\ w.intent \in Intent /\ task[w.plan][w.intent] # "none"
    BY DEF WorkInv, ConsumersTasked, Phase4TypeOK, Consumer
  <2>2. PICK s \in {"completed", "failed", "discarded"} : RecordTask(w.plan, w.intent, s)
    BY <1>4 DEF Consume, ConsumeRejected, RecordRejected
  <2>3. \A d \in Plan, j \in Intent :
          task'[d][j] = IF d = w.plan /\ j = w.intent THEN s ELSE task[d][j]
    BY <2>1, <2>2, RecordEffect
  <2> QED
    BY <2>1, <2>3
<1>5. \A d \in Plan, i \in Intent : task'[d][i] = "none" <=> task[d][i] = "none"
  BY <1>2, <1>3, <1>4
<1>6. \A d \in Plan : Tasks(d)' = Tasks(d)
  BY <1>5 DEF Tasks
<1>7. UNCHANGED Sought
  BY <1>1, <1>6 DEF Sought
<1> QED
  BY <1>1, <1>7

\* A step of the abstract session, or one that leaves its records as they are.
RecordsStep ==
  Records!RecordsNext \/ UNCHANGED <<rev, Known(active), evidence, claims, Sought>>

\* Every step of the session is one of the abstract session, or leaves the
\* records as they are.
LEMMA StepOfRecords ==
  ASSUME Phase4TypeOK, PlanInv, WorkInv, [Phase4Next]_phase4Vars
  PROVE  [Records!RecordsNext]_<<rev, Known(active), evidence, claims, Sought>>
<1> SUFFICES RecordsStep
  BY DEF RecordsStep
<1>1. ASSUME UNCHANGED <<active, born>> PROVE UNCHANGED Known(active)
  BY <1>1 DEF Known
<1>2. CASE Clarify \/ Format
  <2>1. /\ rev' = rev + 1 /\ UNCHANGED <<active, born, evidence, claims>> /\ Supersede(Obsolete)
    BY <1>2 DEF Clarify, Format
  <2>2. Obsolete \in SUBSET Plan
    BY DEF Obsolete
  <2>3. Sought' = {}
    BY <2>1, <2>2, SupersedeEffect, NothingSought
  <2>4. Records!Aside
    BY <1>1, <2>1, <2>3 DEF Records!Aside, Sought
  <2> QED
    BY <2>4 DEF Records!RecordsNext, RecordsStep
<1>3. ASSUME NEW kind \in {"revise", "add", "topic"}, NEW fresh \in (SUBSET Intent) \ {{}},
             SemanticPatch(kind, fresh)
      PROVE  Records!RecordsNext
  BY <1>3, SemanticOfRecords DEF Records!RecordsNext
<1>4. CASE RecordEvidence
  <2>1. PICK S \in (SUBSET active) \ {{}}, old \in {evidence, {}} : evidence' = old \cup Known(S)
    BY <1>4 DEF RecordEvidence
  <2>2. rev' = rev + 1 /\ claims' = {} /\ UNCHANGED <<active, born, task>>
    BY <1>4 DEF RecordEvidence
  <2>3. Sought' = {}
    BY <2>2, NothingSought
  <2>4. Known(S) \in (SUBSET Known(active)) \ {{}}
    BY <2>1 DEF Known
  <2>5. Records!Record
    BY <1>1, <2>1, <2>2, <2>3, <2>4 DEF Records!Record, Sought
  <2> QED
    BY <2>5 DEF Records!RecordsNext, RecordsStep
<1>5. ASSUME NEW w \in consumers, Consume(w), evidence' # evidence PROVE Records!RecordsNext
  <2>1. UNCHANGED <<rev, active, born, claims, Sought>>
    BY <1>5, SoughtUnchanged
  <2>2. /\ evidence' = evidence \cup Known({w.intent})
        /\ rev = w.plan /\ w.intent \in active
    BY <1>5 DEF Consume, Admissible, StillAsked
  <2>3. w.plan \in Plan /\ w.intent \in Intent /\ task[w.plan][w.intent] # "none"
    BY DEF WorkInv, ConsumersTasked, Phase4TypeOK, Consumer
  <2> DEFINE i == <<w.intent, born[w.intent]>>
  <2>4. i \in Known(active) /\ i \in Sought /\ Known({w.intent}) = {i}
    BY <2>2, <2>3 DEF Known, Sought, Tasks
  <2> HIDE DEF i
  <2>5. Records!Admit
    BY <1>1, <2>1, <2>2, <2>4 DEF Records!Admit, Sought
  <2> QED
    BY <2>5 DEF Records!RecordsNext
<1>6. ASSUME NEW g \in Generation, PublishAnswer(g) \/ PublishPresentation(g)
      PROVE  Records!RecordsNext
  <2>1. rev' = rev + 1 /\ UNCHANGED <<active, born, evidence, task>>
    BY <1>6 DEF PublishAnswer, PublishPresentation
  <2>2. Sought' = {}
    BY <2>1, NothingSought
  <2>3. /\ claims \subseteq claims' /\ claims' \subseteq claims \cup Known(active)
        /\ claims' # claims => evidence # {}
    <3>1. CASE PublishAnswer(g)
      <4>1. PICK new \in SUBSET Known(IF seen[g] \cap evidence = {} THEN {} ELSE active) :
              claims' = claims \cup new
        BY <3>1 DEF PublishAnswer
      <4>2. new \subseteq Known(active) /\ (new # {} => evidence # {})
        BY <4>1 DEF Known
      <4> QED
        BY <4>1, <4>2
    <3>2. CASE PublishPresentation(g)
      BY <3>2 DEF PublishPresentation
    <3> QED
      BY <1>6, <3>1, <3>2
  <2>4. Records!Publish
    BY <1>1, <2>1, <2>2, <2>3 DEF Records!Publish, Sought
  <2> QED
    BY <2>4 DEF Records!RecordsNext
<1>7. ASSUME \/ UNCHANGED phase4Vars
             \/ CloseRuntime
             \/ \E w \in consumers : Search(w) \/ ConsumerDies(w)
             \/ \E g \in Generation : BeginAnswer(g) \/ BeginPresentation(g) \/ Discard(g)
      PROVE  UNCHANGED <<rev, Known(active), evidence, claims, Sought>>
  <2>1. UNCHANGED storeVars
    BY <1>7 DEF phase4Vars, CloseRuntime, Search, ConsumerDies, BeginAnswer, BeginPresentation,
                Discard
  <2>2. \A c : Tasks(c)' = Tasks(c)
    BY <2>1 DEF storeVars, Tasks
  <2> QED
    BY <1>1, <2>1, <2>2 DEF storeVars, Sought
<1>8. ASSUME \/ \E c \in Plan : Execute(c) \/ ExecuteObsolete(c)
             \/ \E w \in consumers : ConsumeRejected(w) \/ (Consume(w) /\ evidence' = evidence)
      PROVE  UNCHANGED <<rev, Known(active), evidence, claims, Sought>>
  <2>1. UNCHANGED <<rev, active, born, claims, Sought>>
    BY <1>8, SoughtUnchanged
  <2>2. UNCHANGED evidence
    BY <1>8 DEF Execute, ExecuteObsolete, ConsumeRejected
  <2> QED
    BY <1>1, <2>1, <2>2
<1>9. ASSUME NEW w \in consumers, Consume(w) PROVE RecordsStep
  <2>1. CASE evidence' = evidence
    BY <1>8, <1>9, <2>1 DEF RecordsStep
  <2>2. CASE evidence' # evidence
    BY <1>5, <1>9, <2>2 DEF RecordsStep
  <2> QED
    BY <2>1, <2>2
<1>10. ASSUME NEW w \in consumers, ConsumerDies(w) PROVE RecordsStep
  BY <1>7, <1>10 DEF RecordsStep
<1>11. ASSUME NEW w \in consumers, ConsumeRejected(w) PROVE RecordsStep
  BY <1>8, <1>11 DEF RecordsStep
<1>12. CASE ConsumerStep
  BY <1>9, <1>10, <1>11, <1>12 DEF ConsumerStep
<1>13. CASE CoordinatorStep
  BY <1>7, <1>8, <1>13 DEF CoordinatorStep, RecordsStep
<1>14. ASSUME NEW g \in Generation, BeginAnswer(g) \/ BeginPresentation(g) \/ PublisherStep(g)
       PROVE  RecordsStep
  BY <1>6, <1>7, <1>14 DEF PublisherStep, RecordsStep
<1>15. CASE UNCHANGED phase4Vars
  BY <1>7, <1>15 DEF RecordsStep
<1>16. CASE Phase4Next
  BY <1>2, <1>3, <1>4, <1>12, <1>13, <1>14, <1>16 DEF Phase4Next, RecordsStep
<1> QED
  BY <1>15, <1>16

\* Through every interleaving of patches, consumers and generations a session
\* keeps the records module SessionRecords promises.
THEOREM SessionImplementsRecords == Phase4Spec => ImplementsRecords
<1>1. Phase4Init => Records!RecordsInit
  <2> SUFFICES ASSUME Phase4Init PROVE Records!RecordsInit
    OBVIOUS
  <2>1. rev = 0 /\ 0 \notin Plan /\ evidence = {} /\ claims = {}
    BY DEF Phase4Init, Plan
  <2>2. PICK S \in (SUBSET Intent) \ {{}} : active = S
    BY DEF Phase4Init
  <2>3. Known(active) = S \X {0}
    BY <2>2 DEF Phase4Init, Known
  <2> QED
    BY <2>1, <2>3 DEF Records!RecordsInit
<1>2. Phase4Inv /\ [Phase4Next]_phase4Vars => [Records!RecordsNext]_(Records!records)
  BY StepOfRecords DEF Phase4Inv, Records!records, Sought
<1> QED
  BY <1>1, <1>2, Phase4Invariant, PTL DEF Phase4Spec, ImplementsRecords, Records!RecordsSpec
=============================================================================
