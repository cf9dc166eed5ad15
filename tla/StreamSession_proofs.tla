------------------------ MODULE StreamSession_proofs ------------------------
(***************************************************************************)
(* A streaming session keeps every invariant of the scheduler, its         *)
(* evidence belongs to the newest retrieval revision, and it implements    *)
(* the evidence gate: for every number of requests, texts and policies.    *)
(***************************************************************************)
EXTENDS StreamSession, Scheduler_proofs

AcceptedInv == \A r \in accepted : status[r] # "none" /\ r \in published

EvidenceInv == /\ evidence # NoReq => evidence = allocated /\ evidence \in accepted
               /\ allocated \in accepted => evidence = allocated

FinishInv ==
  /\ final => text \in Query
  /\ fin # "idle" => final
  /\ final /\ fin \notin Returned => ~closed
  /\ selected # NoReq => fin = "evidence"
  /\ fin = "await" => /\ target \in Req /\ target <= allocated /\ query[target] = text
                      /\ target \in accepted => target = allocated

SInv == SessionTypeOK /\ AcceptedInv /\ EvidenceInv /\ FinishInv /\ FinalEvidenceCurrent

-----------------------------------------------------------------------------
(* The session drives the scheduler only by its operations.                *)

\* What the scheduler's own steps leave alone.
LEMMA TaskFrame ==
  ASSUME NEW r \in Req, TaskStep(r) \/ Timeout(r) \/ WorkerStep(r)
  PROVE  /\ UNCHANGED <<allocated, query, superseded, accepted, closed>>
         /\ published \subseteq published'
BY DEF TaskStep, Start, Retry, Attempt, Record, PollInvalid, PollFail, PollCancelled, LateObserved,
       Timeout, WorkerStep, WorkerTake, WorkerEnd

\* A step of the session is a step of the scheduler or leaves it alone.
LEMMA SchedulerStep == FinishInv /\ [SessionNext]_allVars => [Next]_vars
<1> SUFFICES ASSUME FinishInv, [SessionNext]_allVars PROVE [Next]_vars
  OBVIOUS
<1>1. ASSUME NEW q \in Query, Begin(q) PROVE Next
  BY <1>1, SessionAssumption DEF Begin, Next, ScheduleQuery
<1>2. ASSUME NEW q \in Query, NEW isFinal \in BOOLEAN, NEW inWindow \in BOOLEAN,
             Event(q, isFinal, inWindow)
      PROVE  [Next]_vars
  BY <1>1, <1>2 DEF Event
<1>3. ASSUME NEW r \in Req, Complete(r) PROVE Next
  <2>1. Stale(r) \in BOOLEAN
    BY DEF Stale
  <2> QED
    BY <1>3, <2>1 DEF Complete, Next, LoopStep
<1>4. ASSUME NEW r \in Req, TaskStep(r) \/ Timeout(r) \/ WorkerStep(r) PROVE Next
  BY <1>4 DEF TaskStep, Next, LoopStep
<1>5. CASE FinishStep
  BY <1>1, <1>5 DEF FinishInv, FinishStep, FinishBegin, FinishReuse, FinishAwait, FinishSchedule,
                    FinishGiveUp, FinishResume
<1> QED
  BY <1>2, <1>3, <1>4, <1>5
  DEF SessionNext, FinishDeadline, SessionClose, Next, allVars

-----------------------------------------------------------------------------
(* One step at a time, by what it does to the controller and to finish.    *)

\* begin_retrieval with scheduling: what SInv needs to know of it.
LEMMA BeginEffect ==
  ASSUME SessionTypeOK, NEW q \in Query, Begin(q)
  PROVE  /\ allocated + 1 \in Req /\ allocated' = allocated + 1
         /\ query' = [query EXCEPT ![allocated + 1] = q]
         /\ evidence' = NoReq /\ accepted' = accepted /\ ~closed /\ closed' = closed
         /\ published \subseteq published'
BY SchedulerAssumption DEF Begin, Schedule, UnderLimit, Record, SessionTypeOK, TypeOK, Req

\* Results of unallocated requests are not accepted.
LEMMA NewNotAccepted ==
  ASSUME IInv, AcceptedInv, NEW r \in Req, r > allocated
  PROVE  r \notin accepted
BY DEF IInv, Placed, UnallocatedInv, AcceptedInv

\* Every field keeps its type.
LEMMA SessionTypeStep ==
  ASSUME IInv, SInv, [SessionNext]_allVars
  PROVE  SessionTypeOK'
<1>1. TypeOK'
  BY SchedulerStep, TypeStep DEF IInv, SInv
<1>2. evidence' \in 0..MaxTotal /\ target' \in 0..MaxTotal /\ selected' \in 0..MaxTotal
  <2>1. allocated + 1 \in Req => allocated + 1 \in 0..MaxTotal
    BY DEF Req
  <2>2. ASSUME NEW q \in Query, Begin(q) PROVE evidence' = 0 /\ allocated + 1 \in 0..MaxTotal
    BY <2>1, <2>2, BeginEffect DEF SInv, NoReq
  <2>3. \A r \in Req : r \in 0..MaxTotal
    BY DEF Req
  <2>4. ASSUME NEW q \in Query, NEW isFinal \in BOOLEAN, NEW inWindow \in BOOLEAN,
               Event(q, isFinal, inWindow)
        PROVE  evidence' \in {0, evidence} /\ UNCHANGED <<target, selected>>
    BY <2>2, <2>4 DEF Event, finishVars
  <2>5. ASSUME NEW r \in Req, Complete(r)
        PROVE  evidence' \in {r, evidence} /\ UNCHANGED <<target, selected>>
    BY <2>5 DEF Complete, finishVars
  <2>8. 0 \in 0..MaxTotal
    BY SchedulerAssumption
  <2>6. CASE FinishStep
    <3>1. Reusable \subseteq Req /\ Matching \subseteq Req
      BY DEF SInv, SessionTypeOK, TypeOK, Reusable, Matching
    <3>2. CASE FinishSchedule
      <4>1. text \in Query
        BY <3>2 DEF FinishSchedule, SInv, FinishInv
      <4>2. CASE Begin(text)
        <5>1. evidence' = 0 /\ allocated + 1 \in 0..MaxTotal
          BY <2>2, <4>1, <4>2
        <5>2. target' \in {target, allocated + 1} /\ selected' = selected
          BY <3>2 DEF FinishSchedule
        <5> QED
          BY <2>8, <5>1, <5>2 DEF SInv, SessionTypeOK
      <4>3. CASE UNCHANGED <<evidence, target>>
        BY <3>2, <4>3 DEF FinishSchedule, SInv, SessionTypeOK
      <4> QED
        BY <3>2, <4>2, <4>3 DEF FinishSchedule
    <3>3. CASE FinishReuse \/ FinishAwait
      BY <2>3, <3>1, <3>3 DEF FinishReuse, FinishAwait, SInv, SessionTypeOK, controllerVars
    <3>4. CASE FinishBegin \/ FinishGiveUp \/ FinishResume
      BY <3>4 DEF FinishBegin, FinishGiveUp, FinishResume, SInv, SessionTypeOK, controllerVars
    <3> QED
      BY <2>6, <3>2, <3>3, <3>4 DEF FinishStep
  <2>7. CASE UNCHANGED <<evidence, target, selected>>
    BY <2>7 DEF SInv, SessionTypeOK
  <2> QED
    BY <2>3, <2>4, <2>5, <2>6, <2>7, <2>8
    DEF SessionNext, FinishDeadline, SessionClose, sessionVars, controllerVars, finishVars,
        allVars, SInv, SessionTypeOK
<1>3. /\ text' \in Query \cup {NoQuery} /\ final' \in BOOLEAN /\ attempted' \in SUBSET Query
      /\ lastQuery' \in Query \cup {NoQuery} /\ weak' \in SUBSET Req
  BY DEF SInv, SessionTypeOK, SessionNext, Event, Complete, FinishStep, FinishBegin, FinishReuse,
         FinishAwait, FinishSchedule, FinishGiveUp, FinishResume, FinishDeadline, SessionClose,
         sessionVars, controllerVars, finishVars, allVars
<1>4. fin' \in FinishPoint /\ recovery' \in BOOLEAN /\ tried' \in BOOLEAN
  BY ZenonT(60) DEF SInv, SessionTypeOK, FinishPoint, SessionNext, Event, Complete, FinishStep, FinishBegin,
         FinishReuse, FinishAwait, FinishSchedule, FinishGiveUp, FinishResume, FinishDeadline,
         SessionClose, sessionVars, controllerVars, finishVars, allVars
<1> QED
  BY <1>1, <1>2, <1>3, <1>4 DEF SessionTypeOK

\* A step of the session, seen from its evidence, is one of four.
LEMMA SessionStep ==
  ASSUME IInv, SInv, [SessionNext]_allVars
  PROVE  \/ \E q \in Query : /\ Begin(q)
                             /\ ~final /\ text' = q /\ UNCHANGED <<weak, finishVars>>
         \/ /\ Begin(text) /\ fin = "loop" /\ fin' = "await" /\ target' = allocated + 1
            /\ UNCHANGED <<text, final, weak, selected>>
         \/ \E r \in Req : Complete(r)
         \/ /\ UNCHANGED <<allocated, query, superseded, accepted, evidence, weak>>
            /\ published \subseteq published'
            /\ \/ ~final /\ ~closed /\ text' \in Query /\ UNCHANGED <<closed, finishVars>>
               \/ UNCHANGED <<text, final, closed, finishVars>>
               \/ UNCHANGED <<text, final, finishVars>> /\ (fin \in Returned \/ ~final)
               \/ (FinishStep \/ FinishDeadline) /\ ~FinishSchedule /\ UNCHANGED <<text, final, closed>>
               \/ fin = "loop" /\ fin' = "limit" /\ UNCHANGED <<text, final, closed, selected>>
<1>1. ASSUME NEW q \in Query, NEW isFinal \in BOOLEAN, NEW inWindow \in BOOLEAN,
             Event(q, isFinal, inWindow)
      PROVE  \/ /\ Begin(q) /\ ~final /\ text' = q /\ UNCHANGED <<weak, finishVars>>
             \/ ~final /\ ~closed /\ text' = q /\ UNCHANGED <<vars, evidence, weak, finishVars>>
  BY <1>1 DEF Event
<1>2. ASSUME NEW r \in Req, TaskStep(r) \/ Timeout(r) \/ WorkerStep(r), UNCHANGED sessionVars
      PROVE  /\ UNCHANGED <<allocated, query, superseded, accepted, evidence, weak, text, final,
                            closed, finishVars>>
             /\ published \subseteq published'
  BY <1>2, TaskFrame DEF sessionVars, controllerVars
<1>3. CASE FinishSchedule
  BY <1>3 DEF FinishSchedule, vars
<1>4. CASE (FinishStep \/ FinishDeadline) /\ ~FinishSchedule
  BY <1>4 DEF FinishStep, FinishDeadline, FinishBegin, FinishReuse, FinishAwait, FinishGiveUp,
              FinishResume, vars, controllerVars
<1>5. CASE SessionClose
  BY <1>5 DEF SessionClose, Close, sessionVars, controllerVars
<1>6. CASE UNCHANGED allVars
  BY <1>6 DEF allVars, vars, sessionVars, controllerVars
<1> QED
  BY <1>1, <1>2, <1>3, <1>4, <1>5, <1>6 DEF SessionNext, FinishStep, vars

\* Every step of the session keeps its invariant.
LEMMA SessionInvStep ==
  ASSUME IInv, SInv, [SessionNext]_allVars
  PROVE  SInv'
<1>1. SessionTypeOK'
  BY SessionTypeStep
<1>2. ResultKept
  BY SchedulerStep, ResultStep DEF SInv
<1>3. \A r \in accepted : r \in Req /\ status'[r] # "none"
  BY <1>2 DEF ResultKept, SInv, SessionTypeOK, TypeOK, AcceptedInv
<1> USE DEF AcceptedInv, EvidenceInv, FinishInv, FinalEvidenceCurrent, NoReq, Returned
<1>4. ASSUME NEW q \in Query, Begin(q)
      PROVE  AcceptedInv' /\ EvidenceInv'
  <2>1. /\ allocated + 1 \in Req /\ allocated' = allocated + 1
        /\ evidence' = NoReq /\ accepted' = accepted /\ published \subseteq published'
    BY <1>4, BeginEffect DEF SInv
  <2>2. allocated + 1 > allocated
    BY DEF SInv, SessionTypeOK, TypeOK
  <2>3. allocated' \notin accepted
    BY <2>1, <2>2, NewNotAccepted DEF SInv
  <2> QED
    BY <1>3, <2>1, <2>3 DEF SInv
<1>5. CASE \E q \in Query : /\ Begin(q)
                            /\ ~final /\ text' = q /\ UNCHANGED <<weak, finishVars>>
  <2>1. AcceptedInv' /\ EvidenceInv'
    BY <1>4, <1>5
  <2>2. fin = "idle" /\ fin' = "idle" /\ selected' = 0 /\ text' \in Query /\ ~closed'
    BY <1>5, BeginEffect DEF SInv, finishVars
  <2> QED
    BY <1>1, <2>1, <2>2 DEF SInv
<1>6. CASE /\ Begin(text) /\ fin = "loop" /\ fin' = "await" /\ target' = allocated + 1
           /\ UNCHANGED <<text, final, weak, selected>>
  <2>1. text \in Query
    BY <1>6 DEF SInv
  <2>2. AcceptedInv' /\ EvidenceInv'
    BY <1>4, <1>6, <2>1
  <2>3. /\ allocated + 1 \in Req /\ allocated' = allocated + 1 /\ ~closed /\ closed' = closed
        /\ query' = [query EXCEPT ![allocated + 1] = text]
    BY <1>6, <2>1, BeginEffect DEF SInv
  <2>4. query'[target'] = text' /\ target' <= allocated'
    BY <1>6, <2>3 DEF SInv, SessionTypeOK, TypeOK
  <2>5. selected' = 0
    BY <1>6 DEF SInv
  <2> QED
    BY <1>1, <1>6, <2>1, <2>2, <2>3, <2>4, <2>5 DEF SInv
<1>7. ASSUME NEW r \in Req, Complete(r) PROVE SInv'
  <2>1. /\ status[r] = "none" /\ status'[r] # "none" /\ r \notin accepted
    <3>1. status[r] = "none"
      BY <1>7 DEF Complete, PollOk, IInv, Placed, TaskInv, Tasked
    <3>2. \E outcome \in Status : Record({r}, outcome) /\ outcome # "none"
      BY <1>7 DEF Complete, PollOk, Interrupted, Status
    <3> QED
      BY <3>1, <3>2, RecordEffect DEF SInv
  <2>2. /\ UNCHANGED <<allocated, query, superseded, closed, text, final, finishVars>>
        /\ evidence' = IF closed \/ Stale(r) THEN evidence ELSE r
        /\ accepted' = IF closed \/ Stale(r) THEN accepted ELSE accepted \cup {r}
        /\ weak' \in {weak, weak \cup {r}}
        /\ published \subseteq published'
        /\ ~closed => r \in published'
    BY <1>7 DEF Complete, PollOk, Record
  <2>3. ~Stale(r) => r = allocated /\ query[r] = text
    BY DEF Stale
  <2>4. AcceptedInv'
    BY <1>3, <2>1, <2>2 DEF SInv
  <2>5. EvidenceInv'
    BY <2>1, <2>2, <2>3 DEF SInv, SessionTypeOK, TypeOK
  <2>6. FinishInv'
    BY <2>2, <2>3 DEF SInv, finishVars
  <2>7. FinalEvidenceCurrent'
    <3>1. selected # 0 => selected # r
      BY <2>1 DEF SInv, EvidenceInv
    <3> QED
      BY <2>2, <2>3, <3>1 DEF SInv, finishVars
  <2> QED
    BY <1>1, <2>4, <2>5, <2>6, <2>7 DEF SInv
<1>8. CASE /\ UNCHANGED <<allocated, query, superseded, accepted, evidence, weak>>
           /\ published \subseteq published'
           /\ \/ ~final /\ ~closed /\ text' \in Query /\ UNCHANGED <<closed, finishVars>>
              \/ UNCHANGED <<text, final, closed, finishVars>>
              \/ UNCHANGED <<text, final, finishVars>> /\ (fin \in Returned \/ ~final)
              \/ (FinishStep \/ FinishDeadline) /\ ~FinishSchedule /\ UNCHANGED <<text, final, closed>>
              \/ fin = "loop" /\ fin' = "limit" /\ UNCHANGED <<text, final, closed, selected>>
  <2>1. AcceptedInv' /\ EvidenceInv'
    BY <1>3, <1>8 DEF SInv
  <2>2. CASE ~final /\ ~closed /\ text' \in Query /\ UNCHANGED <<closed, finishVars>>
    <3>1. fin = "idle" /\ fin' = "idle" /\ selected' = 0
      BY <2>2 DEF SInv, finishVars
    <3> QED
      BY <1>1, <2>1, <2>2, <3>1 DEF SInv
  <2>3. CASE UNCHANGED <<text, final, finishVars>> /\ (closed' = closed \/ fin \in Returned \/ ~final)
    BY <1>1, <1>8, <2>1, <2>3 DEF SInv, finishVars, Returned
  <2>4. CASE (FinishStep \/ FinishDeadline) /\ ~FinishSchedule /\ UNCHANGED <<text, final, closed>>
    <3>1. CASE FinishBegin
      BY <1>1, <1>8, <2>1, <2>4, <3>1 DEF FinishBegin, SessionClose, SInv
    <3>2. CASE FinishReuse
      <4>1. PICK r \in Reusable : selected' = r
        BY <3>2 DEF FinishReuse
      <4>2. /\ r = allocated /\ query[r] = text /\ r \in accepted /\ r \in published
            /\ r \notin weak /\ r \notin superseded
        BY <4>1 DEF Reusable, Usable, IInv, StatusHonest, SInv, SessionTypeOK, TypeOK
      <4>3. fin = "loop" /\ fin' = "evidence" /\ evidence = r
        BY <3>2, <4>2 DEF FinishReuse, SInv
      <4> QED
        BY <1>1, <1>8, <2>1, <2>4, <4>1, <4>2, <4>3 DEF SInv
    <3>3. CASE FinishAwait
      <4>1. PICK r \in Matching : target' = r
        BY <3>3 DEF FinishAwait
      <4>2. r \in Req /\ status[r] = "none" /\ query[r] = text /\ r \in active \cup queued
        BY <4>1 DEF Matching, SInv, SessionTypeOK, TypeOK
      <4>3. r <= allocated
        BY <4>2 DEF IInv, Placed, UnallocatedInv, TypeOK, Req
      <4>4. r \notin accepted
        BY <4>2 DEF SInv
      <4>5. fin = "loop" /\ fin' = "await" /\ selected' = selected
        BY <3>3 DEF FinishAwait
      <4> QED
        BY <1>1, <1>8, <2>1, <2>4, <4>1, <4>2, <4>3, <4>4, <4>5 DEF SInv
    <3>4. CASE FinishResume
      <4>1. CASE Usable(target)
        <5>1. /\ target = allocated /\ query[target] = text /\ target \in accepted
              /\ target \in published /\ target \notin weak /\ target \notin superseded
          BY <3>4, <4>1 DEF FinishResume, Usable, IInv, StatusHonest, SInv
        <5>2. fin = "await" /\ fin' = "evidence" /\ selected' = target /\ evidence = target
          BY <3>4, <4>1, <5>1 DEF FinishResume, SInv
        <5> QED
          BY <1>1, <1>8, <2>1, <2>4, <5>1, <5>2 DEF SInv
      <4>2. CASE ~Usable(target)
        BY <1>1, <1>8, <2>1, <2>4, <3>4, <4>2 DEF FinishResume, SInv
      <4> QED
        BY <4>1, <4>2
    <3>5. CASE FinishGiveUp \/ FinishDeadline
      BY <1>1, <1>8, <2>1, <2>4, <3>5 DEF FinishGiveUp, FinishDeadline, SInv
    <3> QED
      BY <2>4, <3>1, <3>2, <3>3, <3>4, <3>5 DEF FinishStep
  <2>5. CASE fin = "loop" /\ fin' = "limit" /\ UNCHANGED <<text, final, closed, selected>>
    BY <1>1, <1>8, <2>1, <2>5 DEF SInv
  <2> QED
    BY <1>8, <2>2, <2>3, <2>4, <2>5
<1> QED
  BY <1>5, <1>6, <1>7, <1>8, SessionStep

-----------------------------------------------------------------------------
(* The theorems.                                                           *)

\* The first state of a session satisfies its invariant.
LEMMA SessionInitInv == SessionInit => IInv /\ SInv
<1> SUFFICES ASSUME SessionInit PROVE IInv /\ SInv
  OBVIOUS
<1>1. IInv
  BY InitInv DEF SessionInit
<1>2. SessionTypeOK
  <2>1. 0 \in 0..MaxTotal
    BY SchedulerAssumption
  <2> QED
    BY <1>1, <2>1 DEF IInv, SessionInit, SessionTypeOK, FinishPoint, NoReq
<1> QED
  BY <1>1, <1>2
  DEF SInv, SessionInit, Init, AcceptedInv, EvidenceInv, FinishInv, FinalEvidenceCurrent, Returned, NoReq

\* Each step of the session keeps both invariants.
LEMMA SessionBothStep == IInv /\ SInv /\ [SessionNext]_allVars => IInv' /\ SInv'
<1> SUFFICES ASSUME IInv, SInv, [SessionNext]_allVars PROVE IInv' /\ SInv'
  OBVIOUS
<1>1. [Next]_vars
  BY SchedulerStep DEF SInv
<1>2. IInv'
  BY <1>1, TypeStep, PlacedStep, CapacityStep, HonestStep DEF IInv
<1> QED
  BY <1>2, SessionInvStep

\* The two invariants hold of every behaviour of the session.
THEOREM SessionInvariance == SessionSpec => [](IInv /\ SInv)
BY SessionInitInv, SessionBothStep, PTL DEF SessionSpec

\* A streaming session is a behaviour of the scheduler: the replay and the
\* controller use it through schedule, complete_retrieval and close only, so
\* every theorem about Spec is one about the session.
THEOREM SessionUsesScheduler == SessionSpec => Spec
<1>1. SessionInit => Init
  BY DEF SessionInit
<1>2. IInv /\ SInv /\ [SessionNext]_allVars => [Next]_vars
  BY SchedulerStep DEF SInv
<1> QED
  BY <1>1, <1>2, SessionInvariance, PTL DEF SessionSpec, Spec

\* The controller's evidence is that of the newest retrieval revision,
\* whichever request completes last.
THEOREM EvidenceNeverStale == SessionSpec => []EvidenceIsLatest
<1>1. SInv => EvidenceIsLatest
  BY DEF SInv, EvidenceInv, EvidenceIsLatest
<1> QED
  BY <1>1, SessionInvariance, PTL

\* What finish selects is accepted evidence for exactly the final query, and
\* the evidence the controller holds.
THEOREM AnswerFromCurrentEvidence == SessionSpec => []FinalEvidenceCurrent
<1>1. SInv => FinalEvidenceCurrent
  BY DEF SInv
<1> QED
  BY <1>1, SessionInvariance, PTL

\* Controller, scheduler and finish together implement the evidence gate.
THEOREM SessionImplementsGate == SessionSpec => ImplementsGate
<1> USE DEF NoReq
<1>1. SessionInit => Gate!GateInit
  BY DEF SessionInit, Init, Gate!GateInit
<1>2. ASSUME IInv, SInv, [SessionNext]_allVars
      PROVE  [Gate!GateNext]_<<allocated, evidence, selected>>
  <2>0. EvidenceInv /\ FinishInv /\ FinalEvidenceCurrent /\ SInv'
    BY <1>2, SessionInvStep DEF SInv
  <2>1. ASSUME NEW q \in Query, Begin(q), selected' = selected, selected = 0
        PROVE  Gate!Revise
    BY <1>2, <2>1, BeginEffect DEF SInv, Gate!Revise
  <2>2. CASE \E q \in Query : /\ Begin(q)
                              /\ ~final /\ text' = q /\ UNCHANGED <<weak, finishVars>>
    BY <2>0, <2>1, <2>2 DEF FinishInv, finishVars, Gate!GateNext
  <2>3. CASE /\ Begin(text) /\ fin = "loop" /\ fin' = "await" /\ target' = allocated + 1
             /\ UNCHANGED <<text, final, weak, selected>>
    BY <2>0, <2>1, <2>3 DEF FinishInv, Gate!GateNext
  <2>4. ASSUME NEW r \in Req, Complete(r)
        PROVE  Gate!Admit \/ UNCHANGED <<allocated, evidence, selected>>
    <3>1. r \notin accepted
      BY <1>2, <2>4 DEF Complete, PollOk, IInv, Placed, TaskInv, Tasked, SInv, AcceptedInv
    <3>2. /\ UNCHANGED <<allocated, selected>>
          /\ evidence' = IF closed \/ Stale(r) THEN evidence ELSE r
      BY <2>4 DEF Complete, PollOk, finishVars
    <3>3. CASE ~closed /\ ~Stale(r)
      <4>1. evidence' = allocated /\ r = allocated /\ evidence = 0 /\ allocated # 0
        BY <2>0, <3>1, <3>2, <3>3 DEF Stale, EvidenceInv, Req
      <4> QED
        BY <3>2, <4>1 DEF Gate!Admit
    <3> QED
      BY <3>2, <3>3
  <2>5. CASE UNCHANGED <<allocated, evidence>>
    <3>1. CASE selected' = selected
      BY <2>5, <3>1
    <3>2. CASE selected' # selected
      <4>1. FinishReuse \/ FinishResume
        BY <1>2, <2>5, <3>2
        DEF SessionNext, Event, Complete, FinishStep, FinishBegin, FinishAwait, FinishSchedule,
            FinishGiveUp, FinishDeadline, SessionClose, sessionVars, finishVars, allVars
      <4>2. selected = 0
        BY <2>0, <4>1 DEF FinishInv, FinishReuse, FinishResume
      <4>3. selected' = evidence'
        BY <2>0, <3>2, <4>2 DEF SInv, FinalEvidenceCurrent
      <4> QED
        BY <2>5, <3>2, <4>2, <4>3 DEF Gate!Select, Gate!GateNext
    <3> QED
      BY <3>1, <3>2
  <2> QED
    BY <1>2, <2>2, <2>3, <2>4, <2>5, SessionStep DEF Gate!GateNext
<1> QED
  BY <1>1, <1>2, SessionInvariance, PTL
  DEF SessionSpec, ImplementsGate, Gate!GateSpec, Gate!gateVars

-----------------------------------------------------------------------------
(* Giving up.  With duplicate suppression at most one request is live, the *)
(* newest, so what finish awaits can only end by its own search.           *)

RecallInv == \A r \in Req : future[r] = "cancelled" => r \in superseded \/ closed
OneLive == \A r \in Req : Unresolved(r) /\ r \notin superseded => r = allocated
AttemptedInv == ~final => \A r \in Req : r <= allocated => query[r] \in attempted
AwaitInv == fin = "await" => /\ target \notin superseded
                             /\ status[target] \notin {"superseded", "cancelled"}

\* A search for the final query came to nothing.
SearchFailed == \E r \in Req : /\ query[r] = text
                               /\ status[r] \in {"failed", "timed_out"} \/ r \in weak
RecoveryInv == /\ fin = "idle" => ~recovery
               /\ fin = "gave_up" => recovery
               /\ fin \in {"loop", "gave_up"} /\ recovery => SearchFailed

GiveUpInv == RecallInv /\ OneLive /\ AttemptedInv /\ AwaitInv /\ RecoveryInv

\* Scheduling a query that no live request asks for leaves the new request the
\* only live one.
LEMMA BeginAlone ==
  ASSUME IInv, SInv, RecallInv, OneLive, NEW q \in Query, Begin(q),
         \A r \in Req : Unresolved(r) /\ r \notin superseded => query[r] # q
  PROVE  /\ RecallInv' /\ OneLive'
         /\ allocated + 1 \notin superseded' /\ status'[allocated + 1] = "none"
<1> DEFINE new       == allocated + 1
           obsolete  == {r \in Outstanding : query[r] # q}
           dropped   == IfCancelling(Unstarted(obsolete))
           recalled  == IfCancelling(Recallable(obsolete))
           promoted  == IF dropped = {} THEN {} ELSE queued
           coalesced == queued \ promoted
<1>1. /\ allocated' = new /\ closed' = closed
      /\ superseded' = superseded \cup obsolete \cup coalesced
      /\ future' = [r \in Req |-> IF r \in recalled THEN "cancelled" ELSE future[r]]
      /\ \E outcome : Record(dropped \cup coalesced, outcome)
  BY DEF Begin, Schedule
<1>2. /\ obsolete \subseteq Req /\ dropped \subseteq obsolete /\ recalled \subseteq obsolete
      /\ \A r \in obsolete : r \in active /\ status[r] = "none" /\ r \notin superseded
  BY DEF IInv, TypeOK, Outstanding, IfCancelling, Unstarted, Recallable
<1>3. new \in Req /\ allocated \in Nat
  BY BeginEffect DEF SInv, SessionTypeOK, TypeOK
<1>4. /\ new \notin active \cup queued \cup superseded
      /\ \A r \in active : r <= allocated
      /\ status[new] = "none"
  BY <1>3 DEF IInv, TypeOK, Placed, UnallocatedInv, Req
<1>5. queued \subseteq Req /\ dropped \cup coalesced \in SUBSET Req
  BY <1>2 DEF IInv, TypeOK
<1>6. \A s \in Req : status'[s] = "none" => status[s] = "none"
  <2>1. ResultKept
    BY SchedulerStep, ResultStep, SessionAssumption DEF SInv, Begin, Next, ScheduleQuery
  <2> QED
    BY <2>1 DEF ResultKept
<1>7. status'[new] = "none"
  <2>1. new \notin dropped \cup coalesced
    BY <1>2, <1>4
  <2> HIDE DEF new, dropped, coalesced
  <2> QED
    BY <1>1, <1>3, <1>4, <2>1 DEF Record
<1>8. new \notin superseded'
  BY <1>1, <1>2, <1>4
<1>9. RecallInv'
  BY <1>1, <1>2 DEF RecallInv
<1>10. ASSUME NEW s \in Req, s # new, Unresolved(s)', s \notin superseded' PROVE FALSE
  <2>1. Unresolved(s) /\ s \notin superseded
    BY <1>1, <1>3, <1>6, <1>10 DEF Unresolved, Req
  <2>2. s = allocated /\ query[s] # q
    BY <2>1 DEF OneLive
  <2>3. s \in queued \/ s \in active
    BY <2>1 DEF IInv, Placed, ResolvedInv, TaskInv, Unresolved
  <2>4. CASE s \in active
    BY <1>1, <1>10, <2>1, <2>2, <2>4 DEF Outstanding, Unresolved
  <2>5. CASE s \in queued
    <3>1. PICK d : d \in dropped
      BY <1>1, <1>10, <2>5
    <3>2. Unresolved(d) /\ d \notin superseded /\ d \in active /\ d \in Req
      BY <1>2, <1>4, <3>1 DEF Unresolved
    <3>3. d = allocated
      BY <3>2 DEF OneLive
    <3> QED
      BY <2>2, <2>5, <3>2, <3>3, Apart DEF IInv
  <2> QED
    BY <2>3, <2>4, <2>5
<1>11. OneLive'
  BY <1>1, <1>10 DEF OneLive
<1> QED
  BY <1>7, <1>8, <1>9, <1>11

\* While nothing is scheduled the live request stays the only one.
LEMMA StillAlone ==
  ASSUME OneLive, ResultKept, allocated' = allocated, superseded' = superseded
  PROVE  OneLive'
BY DEF OneLive, ResultKept, Unresolved

\* What a search for the final query failed to find is not found later.
LEMMA FailureKept ==
  ASSUME SearchFailed, ResultKept, UNCHANGED <<query, text>>, weak \subseteq weak'
  PROVE  SearchFailed'
BY DEF SearchFailed, ResultKept

\* Only a cancellation withdraws a future.
LEMMA RecallTask ==
  ASSUME IInv, RecallInv, NEW r \in Req, TaskStep(r) \/ Timeout(r) \/ WorkerStep(r) \/ Complete(r)
  PROVE  RecallInv'
<1>1. UNCHANGED <<superseded, closed>>
  BY TaskFrame DEF Complete, PollOk
<1>2. future' = future \/ \E f \in {"none", "queued", "running", "ok", "fail"} :
                            future' = [future EXCEPT ![r] = f]
  BY DEF TaskStep, Start, Retry, Attempt, PollInvalid, PollFail, PollCancelled, LateObserved,
         Timeout, WorkerStep, WorkerTake, WorkerEnd, Complete, PollOk
<1>3. \A s \in Req : future'[s] = "cancelled" => future[s] = "cancelled"
  BY <1>2 DEF IInv, TypeOK
<1> QED
  BY <1>1, <1>3 DEF RecallInv

\* What finish awaits ends by its own search: completed, failed or timed out.
LEMMA AwaitedEnds ==
  ASSUME IInv, SInv, RecallInv, OneLive, AwaitInv, fin = "await", NEW r \in Req,
         TaskStep(r) \/ Timeout(r) \/ WorkerStep(r) \/ Complete(r)
  PROVE  status'[target] \in {status[target], "completed", "failed", "timed_out"}
<1>1. /\ target \in Req /\ target <= allocated /\ query[target] = text
      /\ target \notin superseded /\ ~closed
  BY DEF SInv, FinishInv, AwaitInv, Returned
<1>2. CASE status' = status
  BY <1>2
<1>3. ASSUME NEW outcome \in {"completed", "failed", "timed_out"}, Record({r}, outcome)
      PROVE  status'[target] \in {status[target], outcome}
  BY <1>1, <1>3, RecordEffect
<1>4. CASE Start(r) \/ Retry(r) \/ PollCancelled(r)
  <2>1. status' = status \/ ((r \in superseded \/ closed) /\ \E outcome : Record({r}, outcome))
    BY <1>4 DEF Start, Retry, Attempt, PollCancelled, RecallInv
  <2>2. ASSUME r \in superseded, NEW outcome, Record({r}, outcome)
        PROVE  status'[target] = status[target]
    BY <1>1, <2>2, RecordEffect
  <2> QED
    BY <1>1, <2>1, <2>2
<1>5. CASE Complete(r)
  <2>1. r = target => Unresolved(r) /\ ~Stale(r)
    <3>1. status[r] = "none"
      BY <1>5 DEF Complete, PollOk, IInv, Placed, TaskInv, Tasked
    <3> QED
      BY <1>1, <3>1 DEF Unresolved, OneLive, Stale
  <2>2. \E outcome : Record({r}, outcome) /\ (r = target => outcome = "completed")
    BY <1>1, <1>5, <2>1 DEF Complete, PollOk
  <2> QED
    BY <1>1, <2>2, RecordEffect
<1>6. CASE PollInvalid(r) \/ PollFail(r) \/ Timeout(r) \/ LateObserved(r) \/ WorkerStep(r)
  BY <1>2, <1>3, <1>6 DEF PollInvalid, PollFail, Timeout, LateObserved, WorkerStep, WorkerTake, WorkerEnd
<1> QED
  BY <1>4, <1>5, <1>6 DEF TaskStep

\* Each step of a session that suppresses duplicates keeps the invariant.
LEMMA GiveUpStep ==
  ASSUME SuppressDuplicates, IInv, SInv, GiveUpInv, [SessionNext]_allVars
  PROVE  GiveUpInv'
<1> USE DEF GiveUpInv
<1>0. ResultKept /\ FinishInv
  BY SchedulerStep, ResultStep DEF SInv
<1>1. ASSUME NEW q \in Query, NEW isFinal \in BOOLEAN, NEW inWindow \in BOOLEAN,
             Event(q, isFinal, inWindow)
      PROVE  GiveUpInv'
  <2>1. ~final /\ fin = "idle" /\ UNCHANGED finishVars
    BY <1>0, <1>1 DEF Event, FinishInv
  <2>2. AwaitInv' /\ RecoveryInv'
    BY <2>1 DEF AwaitInv, RecoveryInv, finishVars
  <2>3. CASE Begin(q) /\ q \notin attempted /\ attempted' = attempted \cup {q}
    <3>1. \A r \in Req : Unresolved(r) /\ r \notin superseded => query[r] # q
      BY <2>1, <2>3 DEF AttemptedInv, Unresolved
    <3>2. RecallInv' /\ OneLive'
      BY <2>3, <3>1, BeginAlone
    <3>3. /\ allocated' = allocated + 1 /\ query' = [query EXCEPT ![allocated + 1] = q]
          /\ allocated + 1 \in Req
      BY <2>3, BeginEffect DEF SInv
    <3>4. \A r \in Req : r <= allocated' => query'[r] \in attempted'
      BY <2>1, <2>3, <3>3 DEF AttemptedInv, IInv, TypeOK, Req
    <3> QED
      BY <2>2, <3>2, <3>4 DEF AttemptedInv
  <2>4. CASE UNCHANGED vars /\ attempted \subseteq attempted'
    BY <2>1, <2>2, <2>4 DEF vars, RecallInv, OneLive, Unresolved, AttemptedInv
  <2> QED
    BY <1>1, <2>3, <2>4 DEF Event, Retrieves
<1>2. CASE FinishSchedule
  <2>1. /\ fin = "loop" /\ Matching = {} /\ ~recovery /\ final /\ final' = final
        /\ text' = text /\ text \in Query
    BY <1>0, <1>2 DEF FinishSchedule, FinishInv
  <2>2. CASE Begin(text) /\ target' = allocated + 1 /\ fin' = "await"
    <3>1. \A r \in Req : Unresolved(r) /\ r \notin superseded => query[r] # text
      BY <2>1 DEF Matching, Unresolved, IInv, Placed, ResolvedInv, TaskInv
    <3>2. /\ RecallInv' /\ OneLive'
          /\ allocated + 1 \notin superseded' /\ status'[allocated + 1] = "none"
      BY <2>1, <2>2, <3>1, BeginAlone
    <3> QED
      BY <2>1, <2>2, <3>2 DEF AttemptedInv, AwaitInv, RecoveryInv
  <2>3. CASE fin' = "limit" /\ UNCHANGED vars
    BY <2>1, <2>3 DEF vars, RecallInv, OneLive, Unresolved, AttemptedInv, AwaitInv, RecoveryInv
  <2> QED
    BY <1>2, <2>2, <2>3 DEF FinishSchedule
<1>3. CASE (FinishStep \/ FinishDeadline) /\ ~FinishSchedule
  <2>1. /\ UNCHANGED <<vars, controllerVars, weak>>
        /\ final
    BY <1>0, <1>3 DEF FinishStep, FinishDeadline, FinishBegin, FinishReuse, FinishAwait,
                      FinishGiveUp, FinishResume, FinishInv
  <2>2. RecallInv' /\ OneLive' /\ AttemptedInv'
    BY <2>1 DEF vars, controllerVars, RecallInv, OneLive, Unresolved, AttemptedInv
  <2>3. SearchFailed' = SearchFailed
    BY <2>1 DEF vars, controllerVars, SearchFailed
  <2>4. CASE FinishAwait
    <3>1. target' \in Matching /\ fin' = "await"
      BY <2>4 DEF FinishAwait
    <3> QED
      BY <2>1, <2>2, <3>1 DEF Matching, AwaitInv, RecoveryInv, vars
  <2>5. CASE FinishResume
    <3>1. CASE Usable(target)
      BY <2>2, <2>5, <3>1 DEF FinishResume, AwaitInv, RecoveryInv
    <3>2. CASE ~Usable(target)
      <4>1. /\ fin = "await" /\ target \in Req /\ query[target] = text
            /\ status[target] \in {"completed", "failed", "timed_out"}
        BY <1>0, <2>5 DEF FinishResume, FinishInv, AwaitInv, IInv, TypeOK, Status
      <4>2. SearchFailed
        BY <3>2, <4>1 DEF SearchFailed, Usable, IInv, StatusHonest
      <4> QED
        BY <2>2, <2>3, <2>5, <4>2 DEF FinishResume, AwaitInv, RecoveryInv
    <3> QED
      BY <3>1, <3>2
  <2>6. CASE FinishBegin \/ FinishReuse \/ FinishGiveUp \/ FinishDeadline
    BY <2>2, <2>3, <2>6 DEF FinishBegin, FinishReuse, FinishGiveUp, FinishDeadline, AwaitInv, RecoveryInv
  <2> QED
    BY <1>3, <2>4, <2>5, <2>6 DEF FinishStep
<1>4. ASSUME NEW r \in Req, TaskStep(r) \/ Timeout(r) \/ WorkerStep(r) \/ Complete(r),
             UNCHANGED <<controllerVars, weak, finishVars>> \/ Complete(r)
      PROVE  GiveUpInv'
  <2>1. /\ UNCHANGED <<allocated, query, superseded, text, final, attempted, finishVars>>
        /\ weak \subseteq weak'
    BY <1>4, TaskFrame DEF Complete, PollOk, controllerVars
  <2>2. RecallInv' /\ OneLive' /\ AttemptedInv'
    BY <1>0, <1>4, <2>1, RecallTask, StillAlone DEF AttemptedInv
  <2>3. AwaitInv'
    BY <1>4, <2>1, AwaitedEnds DEF AwaitInv, finishVars
  <2>4. RecoveryInv'
    BY <1>0, <2>1, FailureKept DEF RecoveryInv, finishVars
  <2> QED
    BY <2>2, <2>3, <2>4
<1>5. CASE SessionClose
  <2>1. /\ UNCHANGED <<allocated, query, superseded, text, final, attempted, weak, finishVars>>
        /\ closed' /\ fin # "await"
    BY <1>0, <1>5 DEF SessionClose, Close, sessionVars, controllerVars, FinishInv, Returned
  <2>2. RecallInv' /\ OneLive' /\ AttemptedInv' /\ AwaitInv'
    BY <1>0, <2>1, StillAlone DEF RecallInv, AttemptedInv, AwaitInv, finishVars
  <2>3. RecoveryInv'
    BY <1>0, <2>1, FailureKept DEF RecoveryInv, finishVars
  <2> QED
    BY <2>2, <2>3
<1>6. CASE UNCHANGED allVars
  BY <1>6 DEF allVars, vars, sessionVars, controllerVars, finishVars, RecallInv, OneLive, Unresolved,
              AttemptedInv, AwaitInv, RecoveryInv, SearchFailed
<1> QED
  BY <1>1, <1>2, <1>3, <1>4, <1>5, <1>6 DEF SessionNext, sessionVars

\* With duplicate suppression finish gives up only after a search for the final
\* query failed, timed out or found nothing relevant.
THEOREM GivingUpIsJustified ==
  ASSUME SuppressDuplicates
  PROVE  SessionSpec => []GivesUpOnlyOnFailure
<1>1. SessionInit => GiveUpInv
  <2> SUFFICES ASSUME SessionInit PROVE GiveUpInv
    OBVIOUS
  <2>1. \A r \in Req : ~(r <= 0)
    BY DEF Req
  <2> QED
    BY <2>1 DEF SessionInit, Init, GiveUpInv, RecallInv, OneLive, Unresolved, AttemptedInv,
                AwaitInv, RecoveryInv
<1>2. IInv /\ SInv /\ GiveUpInv /\ [SessionNext]_allVars => GiveUpInv'
  BY GiveUpStep
<1>3. GiveUpInv => GivesUpOnlyOnFailure
  BY DEF GiveUpInv, RecoveryInv, SearchFailed, GivesUpOnlyOnFailure
<1> QED
  BY <1>1, <1>2, <1>3, SessionInvariance, PTL DEF SessionSpec
=============================================================================
