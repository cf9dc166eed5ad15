---------------------------- MODULE StreamSession ----------------------------
(***************************************************************************)
(* One streaming replay (streaming.py): transcript events drive the        *)
(* StreamingDecisionController, its RETRIEVE decisions are scheduled, and  *)
(* after the final event finish (scheduler.py) selects the evidence the    *)
(* answer is generated from.  Composes the controller with Scheduler.      *)
(*                                                                         *)
(* A transcript is its canonical query.  What _profile and the comparison  *)
(* with the last query read off the words is given by constants; the       *)
(* source-time debounce window is left open per event.                     *)
(***************************************************************************)
EXTENDS Scheduler

CONSTANTS
  Aside,        \* queries that are formatting-only or a greeting
  Vague,        \* too short, without topic or without request signal
  Incomplete,   \* end as an incomplete phrase
  Redirects,    \* <<last, q>>: q corrects last or changes its constraints
  AddsTerms,    \* <<last, q>>: q has enough new content terms
  SuppressDuplicates  \* duplicate_query_suppression

ASSUME SessionAssumption ==
  /\ ~Parallel
  /\ Aside \subseteq Query
  /\ Vague \subseteq Query
  /\ Incomplete \subseteq Query
  /\ Redirects \subseteq Query \X Query
  /\ AddsTerms \subseteq Query \X Query
  /\ SuppressDuplicates \in BOOLEAN

VARIABLES
  text,       \* canonical current_text
  final,      \* the final event was processed (controller._closed)
  attempted,  \* _attempted_queries
  lastQuery,  \* _last_retrieval_query
  evidence,   \* the request whose hits are _current_evidence_hits, 0 for none
  weak,       \* completed requests whose hits fail the relevance gate
  fin,        \* where finish is
  target,     \* the request finish awaits
  recovery,   \* scheduled_recovery
  tried,      \* history: finish scheduled the final query itself
  selected    \* the request whose result finish returned, 0 for None

controllerVars == <<text, final, attempted, lastQuery, evidence>>
finishVars == <<fin, target, recovery, tried, selected>>
sessionVars == <<controllerVars, weak, finishVars>>
allVars == <<vars, sessionVars>>

NoReq == 0
FinishPoint == {"idle", "loop", "await", "evidence", "gave_up", "limit", "deadline", "unasked"}
Returned == {"evidence", "gave_up", "limit", "deadline", "unasked"}

SessionTypeOK ==
  /\ TypeOK
  /\ text \in Query \cup {NoQuery}
  /\ final \in BOOLEAN
  /\ attempted \in SUBSET Query
  /\ lastQuery \in Query \cup {NoQuery}
  /\ evidence \in 0..MaxTotal
  /\ weak \in SUBSET Req
  /\ fin \in FinishPoint
  /\ target \in 0..MaxTotal
  /\ recovery \in BOOLEAN
  /\ tried \in BOOLEAN
  /\ selected \in 0..MaxTotal

SessionInit ==
  /\ Init
  /\ text = NoQuery
  /\ final = FALSE
  /\ attempted = {}
  /\ lastQuery = NoQuery
  /\ evidence = NoReq
  /\ weak = {}
  /\ fin = "idle"
  /\ target = NoReq
  /\ recovery = FALSE
  /\ tried = FALSE
  /\ selected = NoReq

-----------------------------------------------------------------------------
(* The controller's policy, _decide.                                       *)

Searchable(q, isFinal) == q \notin Aside \cup Vague /\ (isFinal \/ q \notin Incomplete)

\* inWindow: the event came within the debounce gap of the last retrieval.
Material(q, isFinal, inWindow) ==
  \/ ~SuppressDuplicates /\ q = lastQuery
  \/ lastQuery = NoQuery
  \/ <<lastQuery, q>> \in Redirects
  \/ <<lastQuery, q>> \in AddsTerms /\ (isFinal \/ ~inWindow)

Retrieves(q, isFinal, inWindow) ==
  /\ Searchable(q, isFinal)
  /\ ~(SuppressDuplicates /\ q \in attempted)
  /\ Material(q, isFinal, inWindow)

\* Bug: the old evidence stays current.
BeginBug(q) == Schedule(q) /\ UNCHANGED evidence

\* begin_retrieval, called by _new_state: the new revision clears the evidence.
Begin(q) == Schedule(q) /\ evidence' = NoReq

\* process_event, and scheduler.schedule on a RETRIEVE decision.  At the
\* request limit schedule raises before begin_retrieval: the query counts as
\* attempted, nothing else changes.
Event(q, isFinal, inWindow) ==
  /\ ~final /\ ~closed
  /\ text' = q
  /\ final' = isFinal
  /\ IF Retrieves(q, isFinal, inWindow)
     THEN /\ attempted' = attempted \cup {q}
          /\ lastQuery' = q
          /\ \/ Begin(q)
             \/ allocated = MaxTotal /\ UNCHANGED <<vars, evidence>>
     ELSE UNCHANGED <<vars, attempted, lastQuery, evidence>>
  /\ UNCHANGED <<weak, finishVars>>

\* Bug: only the text is compared.
StaleBug(r) == text # query[r]

\* complete_retrieval: current only if the newest revision and the same query.
Stale(r) == r # allocated \/ text # query[r]

\* Whether the hits pass the relevance gate is known when they are there.
Complete(r) ==
  /\ PollOk(r, Stale(r))
  /\ evidence' = IF closed \/ Stale(r) THEN evidence ELSE r
  /\ weak' \in {weak, weak \cup {r}}
  /\ UNCHANGED <<text, final, attempted, lastQuery, finishVars>>

-----------------------------------------------------------------------------
(* finish, run once after the final event unless the turn is an aside.     *)

Usable(r) == /\ r \in accepted /\ status[r] = "completed"
             /\ r \notin weak

\* Bug: the revision is not compared.
ReusableBug == {r \in published : Usable(r) /\ query[r] = text}

\* _completed_result_for_query
Reusable == {r \in published : Usable(r) /\ r = allocated /\ query[r] = text}

\* Bug: a superseded request may be awaited.
MatchingBug == {r \in active \cup queued : status[r] = "none" /\ query[r] = text}

\* _matching_state takes the newest of these.
Matching == {r \in active \cup queued :
               status[r] = "none" /\ r \notin superseded /\ query[r] = text}

FinishBegin ==
  /\ final /\ fin = "idle"
  /\ fin' = IF text \in Aside THEN "unasked" ELSE "loop"
  /\ UNCHANGED <<vars, controllerVars, weak, target, recovery, tried, selected>>

FinishReuse ==
  /\ fin = "loop"
  /\ \E r \in Reusable : selected' = r
  /\ fin' = "evidence"
  /\ UNCHANGED <<vars, controllerVars, weak, target, recovery, tried>>

FinishAwait ==
  /\ fin = "loop" /\ Reusable = {}
  /\ \E r \in Matching : /\ \A s \in Matching : s <= r
                         /\ target' = r
  /\ fin' = "await"
  /\ UNCHANGED <<vars, controllerVars, weak, recovery, tried, selected>>

\* The request just scheduled is what the next iteration finds and awaits.
FinishSchedule ==
  /\ fin = "loop" /\ Reusable = {} /\ Matching = {} /\ ~recovery
  /\ \/ /\ Begin(text)
        /\ target' = allocated + 1
        /\ recovery' = TRUE /\ tried' = TRUE
        /\ fin' = "await"
     \/ /\ allocated = MaxTotal
        /\ fin' = "limit"
        /\ UNCHANGED <<vars, evidence, target, recovery, tried>>
  /\ UNCHANGED <<text, final, attempted, lastQuery, weak, selected>>

FinishGiveUp ==
  /\ fin = "loop" /\ Reusable = {} /\ Matching = {} /\ recovery
  /\ fin' = "gave_up"
  /\ UNCHANGED <<vars, controllerVars, weak, target, recovery, tried, selected>>

\* The awaited request has a result.
FinishResume ==
  /\ fin = "await" /\ status[target] # "none"
  /\ IF Usable(target)
     THEN fin' = "evidence" /\ selected' = target /\ UNCHANGED recovery
     ELSE /\ fin' = IF recovery THEN "gave_up" ELSE "loop"
          /\ recovery' = TRUE
          /\ UNCHANGED selected
  /\ UNCHANGED <<vars, controllerVars, weak, target, tried>>

\* final_wait_timeout_s is over.
FinishDeadline ==
  /\ fin \in {"loop", "await"}
  /\ fin' = "deadline"
  /\ UNCHANGED <<vars, controllerVars, weak, target, recovery, tried, selected>>

FinishStep == FinishBegin \/ FinishReuse \/ FinishAwait \/ FinishSchedule
              \/ FinishGiveUp \/ FinishResume

\* The replay closes after the answer, or when event processing raised.
SessionClose ==
  /\ fin \in Returned \/ ~final
  /\ Close
  /\ UNCHANGED sessionVars

-----------------------------------------------------------------------------
TaskStep(r) == Start(r) \/ Retry(r) \/ PollInvalid(r) \/ PollFail(r)
               \/ PollCancelled(r) \/ LateObserved(r)

SessionNext ==
  \/ \E q \in Query, isFinal, inWindow \in BOOLEAN : Event(q, isFinal, inWindow)
  \/ \E r \in Req : \/ Complete(r)
                    \/ /\ TaskStep(r) \/ Timeout(r) \/ WorkerStep(r)
                       /\ UNCHANGED sessionVars
  \/ FinishStep
  \/ FinishDeadline
  \/ SessionClose

SessionSpec == SessionInit /\ [][SessionNext]_allVars

\* As in Scheduler!FairSpec; the deadline of finish is given no fairness.
SessionFairness ==
  /\ \A r \in Req : /\ WF_allVars(Complete(r) \/ (TaskStep(r) /\ UNCHANGED sessionVars))
                    /\ WF_allVars(Timeout(r) /\ UNCHANGED sessionVars)
                    /\ WF_allVars(WorkerStep(r) /\ UNCHANGED sessionVars)
  /\ WF_allVars(FinishStep)

FairSessionSpec == SessionSpec /\ SessionFairness

-----------------------------------------------------------------------------
(* Properties.                                                             *)

\* What finish returns is evidence for exactly the final query, of the newest
\* retrieval revision, and is what the controller holds as current evidence
\* (the replay passes current_evidence_hits on, streaming.py 1162).
FinalEvidenceCurrent ==
  selected # NoReq => /\ selected = allocated
                      /\ query[selected] = text
                      /\ selected = evidence
                      /\ selected \notin superseded \cup weak
                      /\ selected \in published

\* The controller's evidence never outlives the revision it was found for,
\* whichever request completes last.
EvidenceIsLatest ==
  evidence # NoReq => /\ evidence = allocated
                      /\ evidence \in accepted

\* With duplicate suppression, giving up is always the consequence of a search
\* for the final query that failed, timed out or found nothing relevant:
\* returning to an earlier query loses no evidence.
GivesUpOnlyOnFailure ==
  fin = "gave_up" => \E r \in Req : /\ query[r] = text
                                    /\ status[r] \in {"failed", "timed_out"} \/ r \in weak

\* One bounded final recovery follows a failed matching request (the comment
\* in finish, scheduler.py 937).
RecoveryTried == fin = "gave_up" => tried

\* The controller and the scheduler implement the evidence gate.
Gate == INSTANCE EvidenceGate WITH latest <- allocated, current <- evidence,
                                   answer <- selected
ImplementsGate == Gate!GateSpec

\* finish comes to an end without its deadline when searches return.
FinishReturns == (final /\ ~closed) ~> fin \in Returned
=============================================================================
