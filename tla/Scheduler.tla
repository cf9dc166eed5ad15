------------------------------ MODULE Scheduler ------------------------------
(***************************************************************************)
(* AsyncRetrievalScheduler (scheduler.py): one asyncio event loop that     *)
(* allocates retrieval requests, runs a task per activated request, and    *)
(* hands each attempt to a thread pool it cannot interrupt.                *)
(*                                                                         *)
(* A request is the number of its allocation: begin_retrieval gives it     *)
(* that number as its retrieval revision.  A caller drives a scheduler in  *)
(* one style only: the streaming replay schedules one latest query         *)
(* (_pending_latest), the Phase 4 coordinator independent queries          *)
(* (_parallel_pending).  So one of the two waiting places is always empty  *)
(* and `queued' stands for both; requests enter, leave and start in the    *)
(* order of their numbers.                                                 *)
(*                                                                         *)
(* Code between two awaits is one action.  Whether a finished search is    *)
(* stale is the controller's decision: here it is left open, and the       *)
(* modules that compose the scheduler with a controller fix it.            *)
(***************************************************************************)
EXTENDS Naturals, FiniteSets

CONSTANTS
  Query,                \* canonical queries
  NoQuery,              \* query of a request not yet allocated
  MaxTotal,             \* max_total_requests
  MaxPending,           \* max_pending_requests
  MaxConcurrency,       \* max_concurrency: semaphore permits and worker threads
  MaxRetries,           \* max_retries
  CancelOnSupersession, \* cancel_on_supersession
  Parallel              \* the caller schedules with allow_parallel_queries

ASSUME SchedulerAssumption ==
  /\ NoQuery \notin Query
  /\ MaxTotal \in Nat \ {0}
  /\ MaxPending \in Nat \ {0}
  /\ MaxConcurrency \in Nat \ {0}
  /\ MaxRetries \in Nat
  /\ CancelOnSupersession \in BOOLEAN
  /\ Parallel \in BOOLEAN

Req == 1..MaxTotal

VARIABLES
  allocated,   \* _allocated_requests, also the last number handed out
  query,       \* request.query
  active,      \* _active
  queued,      \* _pending_latest or _parallel_pending
  pc,          \* where the request's _run_state task is
  superseded,  \* state.superseded
  confirmed,   \* state.cancellation_confirmed
  attempts,    \* state.attempts
  future,      \* the executor future of the last attempt
  late,        \* requests whose late_observer is alive
  status,      \* state.result.status
  accepted,    \* state.result.accepted
  published,   \* requests whose result is in _results
  closed       \* _closed

vars == <<allocated, query, active, queued, pc, superseded, confirmed, attempts,
          future, late, status, accepted, published, closed>>

PC == {"new", "waiting", "polling", "backoff", "returned"}
Future == {"none", "queued", "running", "ok", "fail", "cancelled"}
Status == {"none", "completed", "superseded", "cancelled", "timed_out", "failed"}

Unsettled == {"queued", "running"}   \* executor_future.done() is false

TypeOK ==
  /\ allocated \in 0..MaxTotal
  /\ query \in [Req -> Query \cup {NoQuery}]
  /\ active \in SUBSET Req
  /\ queued \in SUBSET Req
  /\ pc \in [Req -> PC]
  /\ superseded \in SUBSET Req
  /\ confirmed \in SUBSET Req
  /\ attempts \in [Req -> Nat]
  /\ future \in [Req -> Future]
  /\ late \in SUBSET Req
  /\ status \in [Req -> Status]
  /\ accepted \in SUBSET Req
  /\ published \in SUBSET Req
  /\ closed \in BOOLEAN

Init ==
  /\ allocated = 0
  /\ query = [r \in Req |-> NoQuery]
  /\ active = {}
  /\ queued = {}
  /\ pc = [r \in Req |-> "new"]
  /\ superseded = {}
  /\ confirmed = {}
  /\ attempts = [r \in Req |-> 0]
  /\ future = [r \in Req |-> "none"]
  /\ late = {}
  /\ status = [r \in Req |-> "none"]
  /\ accepted = {}
  /\ published = {}
  /\ closed = FALSE

-----------------------------------------------------------------------------
(* Helpers shared by the handlers.                                         *)

\* Mutants (named ...Bug) sit before the definition they would replace.
UnderLimitBug == allocated <= MaxTotal
UnderLimit == allocated < MaxTotal
QueueHasRoom == Cardinality(queued) < MaxPending

Unresolved(r) == r <= allocated /\ status[r] = "none"

\* Requests _mark_superseded still changes.
Outstanding == {r \in active : status[r] = "none" /\ r \notin superseded}

\* Bug: started requests are resolved too.
UnstartedBug(S) == {r \in S : pc[r] \in {"waiting", "polling"}}

\* Of the requests in S, those _request_cancellation resolves at once because
\* their task has not started, and those whose executor future it cancels.
Unstarted(S) == {r \in S : pc[r] = "waiting"}
Recallable(S) == {r \in S : pc[r] = "polling" /\ future[r] = "queued"}
IfCancelling(S) == IF CancelOnSupersession THEN S ELSE {}

\* Bugs: the early return of a closed session comes before the assignment, or
\* is missing.
RecordOpenBug(S, outcome) ==
  /\ status' = [r \in Req |-> IF r \in S /\ ~closed THEN outcome ELSE status[r]]
  /\ published' = IF closed THEN published ELSE published \cup S
RecordClosedBug(S, outcome) ==
  /\ status' = [r \in Req |-> IF r \in S THEN outcome ELSE status[r]]
  /\ published' = published \cup S

\* _record_terminal and _record_result: state.result is set; the result joins
\* _results unless the session is closed.
Record(S, outcome) ==
  /\ status' = [r \in Req |-> IF r \in S THEN outcome ELSE status[r]]
  /\ published' = IF closed THEN published ELSE published \cup S

\* Bugs: one place is never filled; nothing is promoted.
FillsShortBug(held, taken) ==
  /\ Cardinality(held) + Cardinality(taken) < MaxPending
  /\ taken # queued => Cardinality(held) + Cardinality(taken) + 1 = MaxPending
FillsNothingBug(held, taken) == taken = {}

\* taken is what _promote_pending activates when `held' stays active: the
\* oldest queued requests, as many as fit.
Fills(held, taken) ==
  /\ Cardinality(held) + Cardinality(taken) <= MaxPending
  /\ taken # queued => Cardinality(held) + Cardinality(taken) = MaxPending
  /\ \A r \in taken, s \in queued \ taken : r < s

\* Bug: a promoted request is left in the queue.
SettlePeekBug(gone, ended) ==
  \E taken \in SUBSET queued :
    /\ Fills(active \ gone, taken)
    /\ active' = (active \ gone) \cup taken
    /\ queued' = queued
    /\ pc' = [r \in Req |-> IF r \in taken THEN "waiting"
                            ELSE IF r \in ended THEN "returned" ELSE pc[r]]

\* _finish_state of the requests in gone, and the promotion it ends with; the
\* tasks of `ended' return.
Settle(gone, ended) ==
  \E taken \in SUBSET queued :
    /\ Fills(active \ gone, taken)
    /\ active' = (active \ gone) \cup taken
    /\ queued' = queued \ taken
    /\ pc' = [r \in Req |-> IF r \in taken THEN "waiting"
                            ELSE IF r \in ended THEN "returned" ELSE pc[r]]

\* Bug: a requested cancellation is trusted.
InterruptedBug(r) == "cancelled"

\* The status _record_terminal is given for an interrupted request.
Interrupted(r) == IF r \in confirmed THEN "cancelled" ELSE "superseded"

-----------------------------------------------------------------------------
(* Scheduling and superseding, called synchronously by the session.        *)

\* schedule: obsolete active requests are superseded one after the other; each
\* one that had not started leaves and lets _promote_pending run, and only
\* then is the pending request looked at and coalesced.
Schedule(q) ==
  LET new       == allocated + 1
      obsolete  == {r \in Outstanding : query[r] # q}
      dropped   == IfCancelling(Unstarted(obsolete))
      recalled  == IfCancelling(Recallable(obsolete))
      promoted  == IF dropped = {} THEN {} ELSE queued
      coalesced == queued \ promoted
      held      == (active \ dropped) \cup promoted
      fits      == Cardinality(held) < MaxPending
      gone      == dropped \cup coalesced
      outcome   == IF CancelOnSupersession THEN "cancelled" ELSE "superseded"
  IN  /\ ~closed
      /\ UnderLimit
      /\ allocated' = new
      /\ query' = [query EXCEPT ![new] = q]
      /\ active' = IF fits THEN held \cup {new} ELSE held
      /\ queued' = IF fits THEN {} ELSE {new}
      /\ pc' = [r \in Req |-> IF r \in dropped THEN "returned"
                              ELSE IF r \in promoted \/ (fits /\ r = new) THEN "waiting"
                              ELSE pc[r]]
      /\ superseded' = superseded \cup obsolete \cup coalesced
      /\ confirmed' = confirmed \cup recalled \cup IfCancelling(gone)
      /\ future' = [r \in Req |-> IF r \in recalled THEN "cancelled" ELSE future[r]]
      /\ Record(gone, outcome)
      /\ UNCHANGED <<attempts, late, accepted, closed>>

\* schedule(allow_parallel_queries=True): nothing is superseded; the request
\* is activated, or waits in the bounded FIFO.
ScheduleParallel(q) ==
  LET new  == allocated + 1
      fits == Cardinality(active) < MaxPending
  IN  /\ ~closed
      /\ fits \/ QueueHasRoom
      /\ UnderLimit
      /\ allocated' = new
      /\ query' = [query EXCEPT ![new] = q]
      /\ active' = IF fits THEN active \cup {new} ELSE active
      /\ queued' = IF fits THEN queued ELSE queued \cup {new}
      /\ pc' = IF fits THEN [pc EXCEPT ![new] = "waiting"] ELSE pc
      /\ UNCHANGED <<superseded, confirmed, attempts, future, late,
                     status, accepted, published, closed>>

\* schedule, called in the caller's style.
ScheduleQuery(q) == IF Parallel THEN ScheduleParallel(q) ELSE Schedule(q)

\* supersede_all: a snapshot of _active is superseded; every unstarted request
\* leaves and lets _promote_pending activate queued ones; what is still queued
\* after that is cancelled.
SupersedeAll ==
  LET dropped  == IfCancelling(Unstarted(Outstanding))
      recalled == IfCancelling(Recallable(Outstanding))
      outcome  == IF CancelOnSupersession THEN "cancelled" ELSE "superseded"
  IN  /\ ~closed
      /\ \E taken \in SUBSET queued :
           LET gone == dropped \cup (queued \ taken)
           IN  /\ Fills(active \ dropped, taken)
               /\ active' = (active \ dropped) \cup taken
               /\ pc' = [r \in Req |-> IF r \in dropped THEN "returned"
                                       ELSE IF r \in taken THEN "waiting" ELSE pc[r]]
               /\ superseded' = superseded \cup Outstanding \cup (queued \ taken)
               /\ confirmed' = confirmed \cup recalled \cup IfCancelling(gone)
               /\ Record(gone, outcome)
      /\ queued' = {}
      /\ future' = [r \in Req |-> IF r \in recalled THEN "cancelled" ELSE future[r]]
      /\ UNCHANGED <<allocated, query, attempts, late, accepted, closed>>

-----------------------------------------------------------------------------
(* The task of a request: _run_state.                                      *)

\* Bug: a timed-out task keeps its permit until its thread is done.
PermitFreeBug ==
  Cardinality({r \in Req : pc[r] \in {"polling", "backoff"} \/ r \in late}) < MaxConcurrency
PermitFree == Cardinality({r \in Req : pc[r] \in {"polling", "backoff"}}) < MaxConcurrency

\* The retry loop's head: an interrupted request is recorded, another one
\* submits its next attempt.
Attempt(r) ==
  \/ /\ r \in superseded \/ closed
     /\ Record({r}, Interrupted(r))
     /\ Settle({r}, {r})
     /\ UNCHANGED <<attempts, future>>
  \/ /\ r \notin superseded /\ ~closed
     /\ attempts' = [attempts EXCEPT ![r] = @ + 1]
     /\ future' = [future EXCEPT ![r] = "queued"]
     /\ pc' = [pc EXCEPT ![r] = "polling"]
     /\ UNCHANGED <<active, queued, status, published>>

\* The oldest waiting task acquires the semaphore (its waiters are FIFO).
Start(r) ==
  /\ pc[r] = "waiting"
  /\ \A s \in Req : pc[s] = "waiting" => r <= s
  /\ PermitFree
  /\ Attempt(r)
  /\ UNCHANGED <<allocated, query, superseded, confirmed, late, accepted, closed>>

Retry(r) ==
  /\ pc[r] = "backoff"
  /\ Attempt(r)
  /\ UNCHANGED <<allocated, query, superseded, confirmed, late, accepted, closed>>

\* The search returned and complete_retrieval classified it.
PollOk(r, stale) ==
  /\ pc[r] = "polling" /\ future[r] = "ok"
  /\ IF closed
     THEN Record({r}, Interrupted(r)) /\ UNCHANGED accepted
     ELSE /\ Record({r}, IF r \in superseded \/ stale THEN "superseded" ELSE "completed")
          /\ accepted' = IF stale THEN accepted ELSE accepted \cup {r}
  /\ future' = [future EXCEPT ![r] = "none"]
  /\ Settle({r}, {r})
  /\ UNCHANGED <<allocated, query, superseded, confirmed, attempts, late, closed>>

\* The search returned, but complete_retrieval raised: a hit is not a passage
\* of the configured corpus.
PollInvalid(r) ==
  /\ pc[r] = "polling" /\ future[r] = "ok"
  /\ ~closed
  /\ Record({r}, "failed")
  /\ future' = [future EXCEPT ![r] = "none"]
  /\ Settle({r}, {r})
  /\ UNCHANGED <<allocated, query, superseded, confirmed, attempts, late, accepted, closed>>

\* The search raised: another attempt after the backoff, or the request failed.
PollFail(r) ==
  /\ pc[r] = "polling" /\ future[r] = "fail"
  /\ future' = [future EXCEPT ![r] = "none"]
  /\ IF attempts[r] <= MaxRetries /\ r \notin superseded /\ ~closed
     THEN /\ pc' = [pc EXCEPT ![r] = "backoff"]
          /\ UNCHANGED <<active, queued, status, published>>
     ELSE Record({r}, "failed") /\ Settle({r}, {r})
  /\ UNCHANGED <<allocated, query, superseded, confirmed, attempts, late, accepted, closed>>

\* The future was cancelled, or close cancelled the poll task.
PollCancelled(r) ==
  /\ pc[r] = "polling"
  /\ future[r] = "cancelled" \/ closed
  /\ Record({r}, Interrupted(r))
  /\ Settle({r}, {r})
  /\ UNCHANGED <<allocated, query, superseded, confirmed, attempts, future,
                 late, accepted, closed>>

\* Bug: only a search that already runs is drained.
DrainsBug(r) == future[r] = "running"
Drains(r) == future[r] \in Unsettled

\* The request timeout fires.  The worker may still run: a late observer then
\* keeps the request active until the future is done.
Timeout(r) ==
  /\ pc[r] = "polling"
  /\ Record({r}, "timed_out")
  /\ late' = IF Drains(r) THEN late \cup {r} ELSE late
  /\ Settle(IF Drains(r) THEN {} ELSE {r}, {r})
  /\ UNCHANGED <<allocated, query, superseded, confirmed, attempts, future,
                 accepted, closed>>

\* Bug: the result of a drained search replaces the timeout.
LateObservedBug(r) ==
  /\ r \in late
  /\ future[r] = "ok"
  /\ late' = late \ {r}
  /\ Record({r}, "completed")
  /\ Settle({r}, {})
  /\ UNCHANGED <<allocated, query, superseded, confirmed, attempts, future,
                 accepted, closed>>

\* _observe_late: the drained future is done (or close cancelled the observer)
\* and the request gives its place back.
LateObserved(r) ==
  /\ r \in late
  /\ future[r] \notin Unsettled \/ closed
  /\ late' = late \ {r}
  /\ Settle({r}, {})
  /\ UNCHANGED <<allocated, query, superseded, confirmed, attempts, future,
                 status, accepted, published, closed>>

-----------------------------------------------------------------------------
(* The worker threads, and the end of the session.                         *)

WorkerFree == Cardinality({r \in Req : future[r] = "running"}) < MaxConcurrency

WorkerTake(r) ==
  /\ future[r] = "queued"
  /\ WorkerFree
  /\ future' = [future EXCEPT ![r] = "running"]
  /\ UNCHANGED <<allocated, query, active, queued, pc, superseded, confirmed, attempts,
                 late, status, accepted, published, closed>>

WorkerEnd(r) ==
  /\ future[r] = "running"
  /\ \E outcome \in {"ok", "fail"} : future' = [future EXCEPT ![r] = outcome]
  /\ UNCHANGED <<allocated, query, active, queued, pc, superseded, confirmed, attempts,
                 late, status, accepted, published, closed>>

\* close: pending and unstarted requests are cancelled without being published,
\* queued futures are cancelled; started tasks end through PollCancelled.
Close ==
  LET unresolved == {r \in active : status[r] = "none"}
      dropped    == Unstarted(unresolved)
      gone       == dropped \cup queued
  IN  /\ ~closed
      /\ closed' = TRUE
      /\ active' = active \ dropped
      /\ queued' = {}
      /\ pc' = [r \in Req |-> IF r \in dropped THEN "returned" ELSE pc[r]]
      /\ confirmed' = confirmed \cup gone \cup Recallable(unresolved)
      /\ status' = [r \in Req |-> IF r \in gone THEN "cancelled" ELSE status[r]]
      /\ future' = [r \in Req |-> IF future[r] = "queued" THEN "cancelled" ELSE future[r]]
      /\ UNCHANGED <<allocated, query, superseded, attempts, late, accepted, published>>

-----------------------------------------------------------------------------
LoopStep(r) ==
  \/ Start(r) \/ Retry(r)
  \/ \E stale \in BOOLEAN : PollOk(r, stale)
  \/ PollInvalid(r) \/ PollFail(r) \/ PollCancelled(r)
  \/ LateObserved(r)

WorkerStep(r) == WorkerTake(r) \/ WorkerEnd(r)

Next ==
  \/ \E q \in Query : ScheduleQuery(q)
  \/ SupersedeAll
  \/ \E r \in Req : LoopStep(r) \/ Timeout(r) \/ WorkerStep(r)
  \/ Close

Spec == Init /\ [][Next]_vars

\* The event loop runs every ready task and every due timer, and a free worker
\* thread takes what the executor has queued.  That a search ever returns is
\* not assumed here.
Fairness ==
  \A r \in Req : WF_vars(LoopStep(r)) /\ WF_vars(Timeout(r)) /\ WF_vars(WorkerTake(r))

FairSpec == Spec /\ Fairness
-----------------------------------------------------------------------------
(* Safety.                                                                 *)

\* A worker thread is never left behind by a request that gave its place back:
\* while the session is open, every search a thread runs or will run belongs
\* to an active request, even after a timeout (the drain is installed before
\* the timeout is recorded, scheduler.py 1080).  So hung backends cannot make
\* the executor's backlog outgrow max_pending_requests.
OutstandingWorkBounded ==
  ~closed => /\ \A r \in Req : future[r] \in Unsettled => r \in active
             /\ Cardinality(active) <= MaxPending

\* No request is lost: until its result is recorded it is queued, or active
\* with a task that is going to record one.
NoLostRequest ==
  \A r \in Req : Unresolved(r) =>
    \/ r \in queued /\ pc[r] = "new"
    \/ r \in active /\ pc[r] \in {"waiting", "polling", "backoff"}

\* No request waits while there is room for it: every path that frees a place
\* promotes (a missed promotion would strand the queue, nothing else polls it).
NoIdleCapacity == queued # {} => Cardinality(active) = MaxPending

\* The queue never holds an entry _promote_pending would have to skip, and
\* never outgrows its bound (one coalesced request, or max_pending_requests).
QueueIsLive ==
  /\ \A r \in queued : status[r] = "none" /\ r \notin superseded
  /\ Cardinality(queued) <= IF Parallel THEN MaxPending ELSE 1

\* A confirmed cancellation is the truth: the attempt it withdrew has not run
\* and never will (the reason confirmation is taken from Future.cancel only,
\* scheduler.py 421).
ConfirmedNeverRuns == \A r \in confirmed : future[r] \in {"none", "cancelled"}

\* "cancelled" is only reported of a request whose cancellation is confirmed,
\* and "completed" never of a superseded one.
StatusHonest ==
  \A r \in Req : /\ status[r] = "cancelled" => r \in confirmed
                 /\ status[r] = "completed" => r \in accepted /\ r \notin superseded

-----------------------------------------------------------------------------
(* Action properties.                                                      *)

\* A result is recorded once: no late, cancelled or retried outcome replaces
\* the one recorded first, and none is accepted after it.
ResultFinal ==
  [][\A r \in Req : status[r] # "none" =>
       status'[r] = status[r] /\ (r \in accepted' <=> r \in accepted)]_vars

\* Nothing becomes visible after close, whatever the threads still return.
SilentAfterClose ==
  [][closed => published' = published /\ accepted' = accepted]_vars

\* supersede_all makes every outstanding request obsolete (its docstring).
SupersedesEverything ==
  [][SupersedeAll => \A r \in Req : Unresolved(r)' => r \in superseded']_vars

-----------------------------------------------------------------------------
(* Liveness.                                                               *)

\* An activated request gets its result even if no search ever returns.
ActiveResolved == \A r \in Req : r \in active ~> status[r] # "none"

\* If searches return, every request gets a result, the queued ones too, and
\* gives its place back.  (If one hangs, its request keeps its place and what
\* is queued behind it may wait for ever.)
SearchesReturn == \A r \in Req : []<>(future[r] # "running")
AllResolved ==
  SearchesReturn => \A r \in Req : r <= allocated ~> status[r] # "none" /\ r \notin active
=============================================================================
