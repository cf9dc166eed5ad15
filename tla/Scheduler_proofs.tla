-------------------------- MODULE Scheduler_proofs --------------------------
(***************************************************************************)
(* Invariants of Scheduler, proved for every value of its constants.       *)
(* The safety invariants are not inductive alone.  Placed says where a     *)
(* request can be, field by field; Capacity adds the two counting facts    *)
(* the promotion rests on.                                                 *)
(***************************************************************************)
EXTENDS Scheduler, FiniteSetTheorems, TLAPS

Tasked == {"waiting", "polling", "backoff"}

UnallocatedInv(r) ==
  r > allocated => /\ pc[r] = "new" /\ status[r] = "none" /\ future[r] = "none"
                   /\ r \notin active \cup queued \cup superseded \cup confirmed \cup late
QueuedInv(r) == r \in queued => /\ pc[r] = "new" /\ status[r] = "none"
                                /\ r \notin superseded /\ ~closed
TaskInv(r) == pc[r] \in Tasked => r \in active /\ status[r] = "none" /\ r \notin late
ActiveInv(r) == r \in active => pc[r] \in Tasked \/ r \in late
LateInv(r) == r \in late => r \in active /\ pc[r] = "returned" /\ status[r] # "none"
FutureInv(r) ==
  /\ future[r] # "none" => pc[r] \in {"polling", "returned"}
  /\ future[r] \in Unsettled /\ ~closed => pc[r] = "polling" \/ r \in late
ResolvedInv(r) == r <= allocated /\ status[r] = "none" => r \in queued \/ pc[r] \in Tasked
ConfirmedInv(r) ==
  r \in confirmed => /\ future[r] \in {"none", "cancelled"}
                     /\ status[r] # "none" \/ (pc[r] = "polling" /\ future[r] = "cancelled")

Placed == \A r \in Req : /\ UnallocatedInv(r) /\ QueuedInv(r) /\ TaskInv(r) /\ ActiveInv(r)
                         /\ LateInv(r) /\ FutureInv(r) /\ ResolvedInv(r) /\ ConfirmedInv(r)

Capacity ==
  /\ Cardinality(active) <= MaxPending
  /\ NoIdleCapacity
  /\ Cardinality(queued) <= IF Parallel THEN MaxPending ELSE 1

IInv == TypeOK /\ Placed /\ StatusHonest /\ Capacity

-----------------------------------------------------------------------------
(* Typing.                                                                 *)

\* Recording a result keeps the types of status and published.
LEMMA RecordType ==
  ASSUME TypeOK, NEW S \in SUBSET Req, NEW outcome \in Status, Record(S, outcome)
  PROVE  status' \in [Req -> Status] /\ published' \in SUBSET Req
<1>1. status' \in [Req -> Status]
  BY DEF Record, TypeOK
<1>2. published' \in SUBSET Req
  BY DEF Record, TypeOK
<1> QED
  BY <1>1, <1>2

\* Settling requests keeps the types of active, queued and pc.
LEMMA SettleType ==
  ASSUME TypeOK, NEW gone \in SUBSET Req, NEW ended \in SUBSET Req, Settle(gone, ended)
  PROVE  active' \in SUBSET Req /\ queued' \in SUBSET Req /\ pc' \in [Req -> PC]
<1> PICK taken \in SUBSET queued :
      /\ active' = (active \ gone) \cup taken
      /\ queued' = queued \ taken
      /\ pc' = [r \in Req |-> IF r \in taken THEN "waiting"
                              ELSE IF r \in ended THEN "returned" ELSE pc[r]]
  BY DEF Settle
<1>1. active' \in SUBSET Req /\ queued' \in SUBSET Req
  BY DEF TypeOK
<1>2. pc' \in [Req -> PC]
  BY DEF TypeOK, PC
<1> QED
  BY <1>1, <1>2

\* The head of the retry loop keeps the types.
LEMMA AttemptType ==
  ASSUME TypeOK, NEW r \in Req, Attempt(r)
  PROVE  /\ active' \in SUBSET Req /\ queued' \in SUBSET Req /\ pc' \in [Req -> PC]
         /\ status' \in [Req -> Status] /\ published' \in SUBSET Req
         /\ attempts' \in [Req -> Nat] /\ future' \in [Req -> Future]
<1>1. CASE Record({r}, Interrupted(r)) /\ Settle({r}, {r}) /\ UNCHANGED <<attempts, future>>
  <2>1. Interrupted(r) \in Status
    BY DEF Interrupted, Status
  <2> QED
    BY <1>1, <2>1, RecordType, SettleType DEF TypeOK
<1>2. CASE /\ attempts' = [attempts EXCEPT ![r] = @ + 1]
           /\ future' = [future EXCEPT ![r] = "queued"]
           /\ pc' = [pc EXCEPT ![r] = "polling"]
           /\ UNCHANGED <<active, queued, status, published>>
  BY <1>2 DEF TypeOK, PC, Future
<1> QED
  BY <1>1, <1>2 DEF Attempt

\* Every field keeps its type.
LEMMA TypeStep == TypeOK /\ [Next]_vars => TypeOK'
<1> SUFFICES ASSUME TypeOK, [Next]_vars PROVE TypeOK'
  OBVIOUS
<1>1. ASSUME NEW q \in Query, Schedule(q) PROVE TypeOK'
  <2> DEFINE obsolete  == {r \in Outstanding : query[r] # q}
             dropped   == IfCancelling(Unstarted(obsolete))
             recalled  == IfCancelling(Recallable(obsolete))
             promoted  == IF dropped = {} THEN {} ELSE queued
             coalesced == queued \ promoted
             held      == (active \ dropped) \cup promoted
             gone      == dropped \cup coalesced
             outcome   == IF CancelOnSupersession THEN "cancelled" ELSE "superseded"
  <2>1. obsolete \in SUBSET Req /\ dropped \in SUBSET Req /\ recalled \in SUBSET Req
    BY DEF TypeOK, Outstanding, IfCancelling, Unstarted, Recallable
  <2>2. promoted \in SUBSET Req /\ coalesced \in SUBSET Req
    BY DEF TypeOK
  <2>3. held \in SUBSET Req /\ gone \in SUBSET Req /\ IfCancelling(gone) \in SUBSET Req
    <3> HIDE DEF dropped, promoted, coalesced
    <3> QED BY <2>1, <2>2 DEF TypeOK, IfCancelling
  <2>4. allocated + 1 \in Req
    BY <1>1, SchedulerAssumption DEF Schedule, UnderLimit, TypeOK, Req
  <2>5. status' \in [Req -> Status] /\ published' \in SUBSET Req
    <3>1. Record(gone, outcome)
      BY <1>1 DEF Schedule
    <3>2. outcome \in Status
      BY DEF Status
    <3> HIDE DEF gone, outcome
    <3> QED BY <2>3, <3>1, <3>2, RecordType
  <2>6. active' \in SUBSET Req /\ queued' \in SUBSET Req
    <3>1. active' \in {held \cup {allocated + 1}, held} /\ queued' \in {{}, {allocated + 1}}
      BY <1>1 DEF Schedule
    <3> HIDE DEF held
    <3> QED BY <2>3, <2>4, <3>1
  <2>7. pc' \in [Req -> PC]
    BY <1>1 DEF Schedule, TypeOK, PC
  <2>8. superseded' \in SUBSET Req /\ confirmed' \in SUBSET Req
    <3>1. superseded' = superseded \cup obsolete \cup coalesced
          /\ confirmed' = confirmed \cup recalled \cup IfCancelling(gone)
      BY <1>1 DEF Schedule
    <3> HIDE DEF obsolete, coalesced, recalled, gone
    <3> QED BY <2>1, <2>2, <2>3, <3>1 DEF TypeOK
  <2>9. future' \in [Req -> Future]
    BY <1>1 DEF Schedule, TypeOK, Future
  <2>10. allocated' \in 0..MaxTotal /\ query' \in [Req -> Query \cup {NoQuery}]
    BY <1>1, <2>4 DEF Schedule, TypeOK, Req
  <2>11. UNCHANGED <<attempts, late, accepted, closed>>
    BY <1>1 DEF Schedule
  <2> QED
    BY <2>5, <2>6, <2>7, <2>8, <2>9, <2>10, <2>11 DEF TypeOK
<1>2. ASSUME NEW q \in Query, ScheduleParallel(q) PROVE TypeOK'
  <2>1. allocated + 1 \in Req
    BY <1>2, SchedulerAssumption DEF ScheduleParallel, UnderLimit, TypeOK, Req
  <2>2. pc' \in [Req -> PC] /\ active' \in SUBSET Req /\ queued' \in SUBSET Req
    BY <1>2, <2>1 DEF ScheduleParallel, TypeOK, PC
  <2>3. allocated' \in 0..MaxTotal /\ query' \in [Req -> Query \cup {NoQuery}]
    BY <1>2, <2>1 DEF ScheduleParallel, UnderLimit, TypeOK, Req
  <2> QED
    BY <1>2, <2>2, <2>3 DEF ScheduleParallel, TypeOK
<1>3. CASE SupersedeAll
  <2> DEFINE dropped  == IfCancelling(Unstarted(Outstanding))
             recalled == IfCancelling(Recallable(Outstanding))
             outcome  == IF CancelOnSupersession THEN "cancelled" ELSE "superseded"
  <2>1. dropped \in SUBSET Req /\ recalled \in SUBSET Req /\ Outstanding \in SUBSET Req
    BY DEF TypeOK, Outstanding, IfCancelling, Unstarted, Recallable
  <2>2. outcome \in Status
    BY DEF Status
  <2>3. PICK taken \in SUBSET queued :
          /\ active' = (active \ dropped) \cup taken
          /\ pc' = [r \in Req |-> IF r \in dropped THEN "returned"
                                  ELSE IF r \in taken THEN "waiting" ELSE pc[r]]
          /\ superseded' = superseded \cup Outstanding \cup (queued \ taken)
          /\ confirmed' = confirmed \cup recalled
                                    \cup IfCancelling(dropped \cup (queued \ taken))
          /\ Record(dropped \cup (queued \ taken), outcome)
    BY <1>3 DEF SupersedeAll
  <2>4. future' \in [Req -> Future] /\ queued' = {}
    BY <1>3 DEF SupersedeAll, TypeOK, Future
  <2>5. pc' \in [Req -> PC]
    BY <2>3 DEF TypeOK, PC
  <2> HIDE DEF dropped, recalled, outcome
  <2>6. dropped \cup (queued \ taken) \in SUBSET Req
    BY <2>1 DEF TypeOK
  <2>7. IfCancelling(dropped \cup (queued \ taken)) \in SUBSET Req
    BY <2>6 DEF IfCancelling
  <2>8. status' \in [Req -> Status] /\ published' \in SUBSET Req
    BY <2>2, <2>3, <2>6, RecordType
  <2>9. active' \in SUBSET Req /\ superseded' \in SUBSET Req /\ confirmed' \in SUBSET Req
    BY <2>1, <2>3, <2>7 DEF TypeOK
  <2>10. UNCHANGED <<allocated, query, attempts, late, accepted, closed>>
    BY <1>3 DEF SupersedeAll
  <2> QED
    BY <2>4, <2>5, <2>8, <2>9, <2>10 DEF TypeOK
<1>4. ASSUME NEW r \in Req, Start(r) \/ Retry(r) PROVE TypeOK'
  <2>1. Attempt(r) /\ UNCHANGED <<allocated, query, superseded, confirmed,
                                  late, accepted, closed>>
    BY <1>4 DEF Start, Retry
  <2> QED
    BY <2>1, AttemptType DEF TypeOK
<1>5. ASSUME NEW r \in Req, NEW stale \in BOOLEAN, PollOk(r, stale) PROVE TypeOK'
  <2>1. \E outcome \in Status : Record({r}, outcome)
    BY <1>5 DEF PollOk, Interrupted, Status
  <2>2. status' \in [Req -> Status] /\ published' \in SUBSET Req
    BY <2>1, RecordType
  <2>3. active' \in SUBSET Req /\ queued' \in SUBSET Req /\ pc' \in [Req -> PC]
    BY <1>5, SettleType DEF PollOk
  <2>4. future' \in [Req -> Future] /\ accepted' \in SUBSET Req
    BY <1>5 DEF PollOk, TypeOK, Future
  <2> QED
    BY <1>5, <2>2, <2>3, <2>4 DEF PollOk, TypeOK
<1>6. ASSUME NEW r \in Req, PollInvalid(r) PROVE TypeOK'
  <2>1. status' \in [Req -> Status] /\ published' \in SUBSET Req
    BY <1>6, RecordType DEF PollInvalid, Status
  <2>2. active' \in SUBSET Req /\ queued' \in SUBSET Req /\ pc' \in [Req -> PC]
    BY <1>6, SettleType DEF PollInvalid
  <2> QED
    BY <1>6, <2>1, <2>2 DEF PollInvalid, TypeOK, Future
<1>7. ASSUME NEW r \in Req, PollFail(r) PROVE TypeOK'
  <2>1. CASE UNCHANGED <<active, queued, status, published>> /\ pc' = [pc EXCEPT ![r] = "backoff"]
    BY <1>7, <2>1 DEF PollFail, TypeOK, Future, PC
  <2>2. CASE Record({r}, "failed") /\ Settle({r}, {r})
    <3>1. status' \in [Req -> Status] /\ published' \in SUBSET Req
      BY <2>2, RecordType DEF Status
    <3>2. active' \in SUBSET Req /\ queued' \in SUBSET Req /\ pc' \in [Req -> PC]
      BY <2>2, SettleType
    <3> QED
      BY <1>7, <3>1, <3>2 DEF PollFail, TypeOK, Future
  <2> QED
    BY <1>7, <2>1, <2>2 DEF PollFail
<1>8. ASSUME NEW r \in Req, PollCancelled(r) PROVE TypeOK'
  <2>1. status' \in [Req -> Status] /\ published' \in SUBSET Req
    BY <1>8, RecordType DEF PollCancelled, Interrupted, Status
  <2>2. active' \in SUBSET Req /\ queued' \in SUBSET Req /\ pc' \in [Req -> PC]
    BY <1>8, SettleType DEF PollCancelled
  <2> QED
    BY <1>8, <2>1, <2>2 DEF PollCancelled, TypeOK
<1>9. ASSUME NEW r \in Req, Timeout(r) PROVE TypeOK'
  <2>1. status' \in [Req -> Status] /\ published' \in SUBSET Req
    BY <1>9, RecordType DEF Timeout, Status
  <2>2. \E gone \in SUBSET Req : Settle(gone, {r})
    BY <1>9 DEF Timeout, Drains
  <2>3. active' \in SUBSET Req /\ queued' \in SUBSET Req /\ pc' \in [Req -> PC]
    BY <2>2, SettleType
  <2>4. late' \in SUBSET Req
    BY <1>9 DEF Timeout, Drains, TypeOK
  <2> QED
    BY <1>9, <2>1, <2>3, <2>4 DEF Timeout, TypeOK
<1>10. ASSUME NEW r \in Req, LateObserved(r) PROVE TypeOK'
  <2>1. active' \in SUBSET Req /\ queued' \in SUBSET Req /\ pc' \in [Req -> PC]
    BY <1>10, SettleType DEF LateObserved
  <2> QED
    BY <1>10, <2>1 DEF LateObserved, TypeOK
<1>11. ASSUME NEW r \in Req, WorkerStep(r) PROVE TypeOK'
  <2>1. CASE WorkerTake(r)
    BY <2>1 DEF WorkerTake, TypeOK, Future
  <2>2. CASE WorkerEnd(r)
    <3>1. future' \in [Req -> Future]
      BY <2>2 DEF WorkerEnd, TypeOK, Future
    <3> QED
      BY <2>2, <3>1 DEF WorkerEnd, TypeOK
  <2> QED
    BY <1>11, <2>1, <2>2 DEF WorkerStep
<1>12. CASE Close
  <2> DEFINE unresolved == {r \in active : status[r] = "none"}
             dropped    == Unstarted(unresolved)
  <2>1. unresolved \in SUBSET Req /\ dropped \in SUBSET Req /\ Recallable(unresolved) \in SUBSET Req
    BY DEF TypeOK, Unstarted, Recallable
  <2>2. active' = active \ dropped /\ queued' = {}
        /\ confirmed' = confirmed \cup (dropped \cup queued) \cup Recallable(unresolved)
    BY <1>12 DEF Close
  <2>3. pc' \in [Req -> PC]
    BY <1>12 DEF Close, TypeOK, PC
  <2>4. status' \in [Req -> Status]
    BY <1>12 DEF Close, TypeOK, Status
  <2>5. future' \in [Req -> Future]
    BY <1>12 DEF Close, TypeOK, Future
  <2>6. closed' \in BOOLEAN
        /\ UNCHANGED <<allocated, query, superseded, attempts, late, accepted, published>>
    BY <1>12 DEF Close
  <2> HIDE DEF unresolved, dropped
  <2>7. active' \in SUBSET Req /\ queued' \in SUBSET Req /\ confirmed' \in SUBSET Req
    BY <2>1, <2>2 DEF TypeOK
  <2> QED
    BY <2>3, <2>4, <2>5, <2>6, <2>7 DEF TypeOK
<1>13. CASE UNCHANGED vars
  BY <1>13 DEF vars, TypeOK
<1> QED
  BY <1>1, <1>2, <1>3, <1>4, <1>5, <1>6, <1>7, <1>8, <1>9, <1>10, <1>11, <1>12, <1>13
  DEF Next, ScheduleQuery, LoopStep

-----------------------------------------------------------------------------
(* Where a request is.                                                     *)

\* What settling does to one request: it may be taken from the queue.
LEMMA SettleEffect ==
  ASSUME TypeOK, NEW gone \in SUBSET Req, NEW ended \in SUBSET Req, Settle(gone, ended),
         NEW s \in Req
  PROVE  \/ /\ s \in queued /\ s \in active' /\ s \notin queued' /\ pc'[s] = "waiting"
         \/ /\ s \in active' <=> s \in active \ gone
            /\ s \in queued' <=> s \in queued
            /\ pc'[s] = IF s \in ended THEN "returned" ELSE pc[s]
<1> PICK taken \in SUBSET queued :
      /\ active' = (active \ gone) \cup taken
      /\ queued' = queued \ taken
      /\ pc' = [r \in Req |-> IF r \in taken THEN "waiting"
                              ELSE IF r \in ended THEN "returned" ELSE pc[r]]
  BY DEF Settle
<1> QED
  BY DEF TypeOK

\* What recording does to one request.
LEMMA RecordEffect ==
  ASSUME NEW S \in SUBSET Req, NEW outcome, Record(S, outcome), NEW s \in Req
  PROVE  status'[s] = IF s \in S THEN outcome ELSE status[s]
BY DEF Record

PlacedAt(r) == /\ UnallocatedInv(r) /\ QueuedInv(r) /\ TaskInv(r) /\ ActiveInv(r)
               /\ LateInv(r) /\ FutureInv(r) /\ ResolvedInv(r) /\ ConfirmedInv(r)

\* The head of the retry loop, entered by an allocated task without a future.
LEMMA AttemptPlaced ==
  ASSUME TypeOK, Placed, NEW r \in Req, Attempt(r), pc[r] \in {"waiting", "backoff"},
         UNCHANGED <<allocated, query, superseded, confirmed, late, accepted, closed>>,
         NEW s \in Req
  PROVE  PlacedAt(s)'
<1> USE DEF PlacedAt, UnallocatedInv, QueuedInv, TaskInv, ActiveInv, LateInv, FutureInv,
            ResolvedInv, ConfirmedInv, Tasked, Unsettled
<1>0. PlacedAt(s) /\ PlacedAt(r)
  BY DEF Placed
<1>1. CASE Record({r}, Interrupted(r)) /\ Settle({r}, {r}) /\ UNCHANGED <<attempts, future>>
  <2>1. status'[s] = IF s = r THEN Interrupted(r) ELSE status[s]
    BY <1>1, RecordEffect
  <2>2. Interrupted(r) # "none"
    BY DEF Interrupted
  <2>3. \/ /\ s \in queued /\ s \in active' /\ s \notin queued' /\ pc'[s] = "waiting"
        \/ /\ s \in active' <=> s \in active \ {r}
           /\ s \in queued' <=> s \in queued
           /\ pc'[s] = IF s = r THEN "returned" ELSE pc[s]
    BY <1>1, SettleEffect
  <2> QED
    BY <1>0, <1>1, <2>1, <2>2, <2>3
<1>2. CASE /\ r \notin superseded /\ ~closed
           /\ attempts' = [attempts EXCEPT ![r] = @ + 1]
           /\ future' = [future EXCEPT ![r] = "queued"]
           /\ pc' = [pc EXCEPT ![r] = "polling"]
           /\ UNCHANGED <<active, queued, status, published>>
  BY <1>0, <1>2 DEF TypeOK
<1> QED
  BY <1>1, <1>2 DEF Attempt

\* Every step keeps every request placed.
LEMMA PlacedStep == TypeOK /\ Placed /\ [Next]_vars => Placed'
<1> SUFFICES ASSUME TypeOK, Placed, [Next]_vars, NEW s \in Req PROVE PlacedAt(s)'
  BY DEF Placed, PlacedAt, Req
<1> USE DEF PlacedAt, UnallocatedInv, QueuedInv, TaskInv, ActiveInv, LateInv, FutureInv,
            ResolvedInv, ConfirmedInv, Tasked, Unsettled
<1>0. PlacedAt(s)
  BY DEF Placed
<1>1. ASSUME NEW q \in Query, Schedule(q) PROVE PlacedAt(s)'
  <2> DEFINE obsolete  == {r \in Outstanding : query[r] # q}
             dropped   == IfCancelling(Unstarted(obsolete))
             recalled  == IfCancelling(Recallable(obsolete))
             promoted  == IF dropped = {} THEN {} ELSE queued
             coalesced == queued \ promoted
             held      == (active \ dropped) \cup promoted
             fits      == Cardinality(held) < MaxPending
             gone      == dropped \cup coalesced
             outcome   == IF CancelOnSupersession THEN "cancelled" ELSE "superseded"
  <2>1. s \in dropped => s \in active /\ status[s] = "none" /\ pc[s] = "waiting"
    BY DEF IfCancelling, Unstarted, Outstanding
  <2>2. s \in recalled => s \in active /\ status[s] = "none" /\ pc[s] = "polling" /\ future[s] = "queued"
    BY DEF IfCancelling, Recallable, Outstanding
  <2>3. s \in obsolete => s \in active /\ status[s] = "none"
    BY DEF Outstanding
  <2>4. s \in promoted \/ s \in coalesced <=> s \in queued
    OBVIOUS
  <2>5. ~(s \in promoted /\ s \in coalesced)
    OBVIOUS
  <2>6. s \in held <=> (s \in active /\ s \notin dropped) \/ s \in promoted
    OBVIOUS
  <2>7. s \in gone <=> s \in dropped \/ s \in coalesced
    OBVIOUS
  <2>8. s \in IfCancelling(gone) => s \in gone
    BY DEF IfCancelling
  <2>9. /\ allocated' = allocated + 1 /\ ~closed /\ closed' = closed
        /\ active' = IF fits THEN held \cup {allocated + 1} ELSE held
        /\ queued' = IF fits THEN {} ELSE {allocated + 1}
        /\ pc'[s] = IF s \in dropped THEN "returned"
                    ELSE IF s \in promoted \/ (fits /\ s = allocated + 1) THEN "waiting"
                    ELSE pc[s]
        /\ superseded' = superseded \cup obsolete \cup coalesced
        /\ confirmed' = confirmed \cup recalled \cup IfCancelling(gone)
        /\ future'[s] = IF s \in recalled THEN "cancelled" ELSE future[s]
        /\ late' = late
        /\ status'[s] = IF s \in gone THEN outcome ELSE status[s]
    BY <1>1 DEF Schedule, Record
  <2>10. outcome # "none"
    OBVIOUS
  <2>11. allocated \in Nat /\ s \in Nat
    BY DEF TypeOK, Req
  <2> HIDE DEF obsolete, dropped, recalled, promoted, coalesced, held, fits, gone, outcome
  <2>12. CASE s = allocated + 1
    <3>1. s > allocated /\ s \notin active \cup queued
      BY <1>0, <2>11, <2>12
    <3>2. /\ s \notin dropped /\ s \notin recalled /\ s \notin promoted /\ s \notin gone
          /\ s \notin obsolete /\ s \notin coalesced /\ s \notin held
      BY <2>1, <2>2, <2>3, <2>4, <2>6, <2>7, <3>1
    <3> QED
      BY <1>0, <2>8, <2>9, <2>11, <2>12, <3>1, <3>2
  <2>13. CASE s # allocated + 1
    <3>1. /\ s \in active' <=> s \in held
          /\ s \notin queued'
          /\ s > allocated' => s > allocated
          /\ s <= allocated' => s <= allocated
      BY <2>9, <2>11, <2>13
    <3>2. CASE s \in dropped
      BY <1>0, <2>1, <2>2, <2>4, <2>6, <2>7, <2>8, <2>9, <2>10, <3>1, <3>2
    <3>3. CASE s \in promoted
      BY <1>0, <2>1, <2>2, <2>3, <2>4, <2>5, <2>6, <2>7, <2>8, <2>9, <2>13, <3>1, <3>3
    <3>4. CASE s \in coalesced
      BY <1>0, <2>1, <2>2, <2>3, <2>4, <2>5, <2>6, <2>7, <2>8, <2>9, <2>10, <2>13, <3>1, <3>4
    <3>5. CASE s \notin dropped \cup promoted \cup coalesced
      BY <1>0, <2>1, <2>2, <2>3, <2>4, <2>6, <2>7, <2>8, <2>9, <2>13, <3>1, <3>5
    <3> QED
      BY <3>2, <3>3, <3>4, <3>5
  <2> QED
    BY <2>12, <2>13
<1>2. ASSUME NEW q \in Query, ScheduleParallel(q) PROVE PlacedAt(s)'
  <2>1. allocated \in Nat /\ s \in Nat
    BY DEF TypeOK, Req
  <2> QED
    BY <1>0, <1>2, <2>1 DEF ScheduleParallel, TypeOK
<1>3. CASE SupersedeAll
  <2> DEFINE dropped  == IfCancelling(Unstarted(Outstanding))
             recalled == IfCancelling(Recallable(Outstanding))
             outcome  == IF CancelOnSupersession THEN "cancelled" ELSE "superseded"
  <2>1. s \in dropped => s \in active /\ status[s] = "none" /\ pc[s] = "waiting"
    BY DEF IfCancelling, Unstarted, Outstanding
  <2>2. s \in recalled => s \in active /\ status[s] = "none" /\ pc[s] = "polling" /\ future[s] = "queued"
    BY DEF IfCancelling, Recallable, Outstanding
  <2>3. s \in Outstanding => s \in active
    BY DEF Outstanding
  <2>4. PICK taken \in SUBSET queued :
          /\ active' = (active \ dropped) \cup taken
          /\ pc' = [r \in Req |-> IF r \in dropped THEN "returned"
                                  ELSE IF r \in taken THEN "waiting" ELSE pc[r]]
          /\ superseded' = superseded \cup Outstanding \cup (queued \ taken)
          /\ confirmed' = confirmed \cup recalled
                                    \cup IfCancelling(dropped \cup (queued \ taken))
          /\ Record(dropped \cup (queued \ taken), outcome)
    BY <1>3 DEF SupersedeAll
  <2>5. /\ queued' = {} /\ allocated' = allocated /\ late' = late /\ closed' = closed
        /\ future'[s] = IF s \in recalled THEN "cancelled" ELSE future[s]
    BY <1>3 DEF SupersedeAll
  <2>6. status'[s] = IF s \in dropped \cup (queued \ taken) THEN outcome ELSE status[s]
    BY <2>4 DEF Record
  <2>7. outcome # "none"
    OBVIOUS
  <2>8. s \in IfCancelling(dropped \cup (queued \ taken)) => s \in dropped \cup (queued \ taken)
    BY DEF IfCancelling
  <2> HIDE DEF dropped, recalled, outcome
  <2> QED
    BY <1>0, <2>1, <2>2, <2>3, <2>4, <2>5, <2>6, <2>7, <2>8
<1>4. ASSUME NEW r \in Req, Start(r) \/ Retry(r) PROVE PlacedAt(s)'
  BY <1>4, AttemptPlaced DEF Start, Retry
<1>5. ASSUME NEW r \in Req, NEW stale \in BOOLEAN, PollOk(r, stale) PROVE PlacedAt(s)'
  <2>1. PICK outcome : Record({r}, outcome) /\ outcome # "none"
    BY <1>5 DEF PollOk, Interrupted
  <2>2. status'[s] = IF s = r THEN outcome ELSE status[s]
    BY <2>1, RecordEffect
  <2>3. \/ /\ s \in queued /\ s \in active' /\ s \notin queued' /\ pc'[s] = "waiting"
        \/ /\ s \in active' <=> s \in active \ {r}
           /\ s \in queued' <=> s \in queued
           /\ pc'[s] = IF s = r THEN "returned" ELSE pc[s]
    BY <1>5, SettleEffect DEF PollOk
  <2> QED
    BY <1>0, <1>5, <2>1, <2>2, <2>3 DEF PollOk, TypeOK
<1>6. ASSUME NEW r \in Req, PollInvalid(r) \/ (PollFail(r) /\ Record({r}, "failed") /\ Settle({r}, {r}))
      PROVE PlacedAt(s)'
  <2>1. Record({r}, "failed") /\ Settle({r}, {r})
    BY <1>6 DEF PollInvalid
  <2>2. status'[s] = IF s = r THEN "failed" ELSE status[s]
    BY <2>1, RecordEffect
  <2>3. \/ /\ s \in queued /\ s \in active' /\ s \notin queued' /\ pc'[s] = "waiting"
        \/ /\ s \in active' <=> s \in active \ {r}
           /\ s \in queued' <=> s \in queued
           /\ pc'[s] = IF s = r THEN "returned" ELSE pc[s]
    BY <2>1, SettleEffect
  <2>4. /\ pc[r] = "polling" /\ future' = [future EXCEPT ![r] = "none"]
        /\ UNCHANGED <<allocated, superseded, confirmed, late, closed>>
    BY <1>6 DEF PollInvalid, PollFail
  <2> QED
    BY <1>0, <2>2, <2>3, <2>4 DEF TypeOK
<1>7. ASSUME NEW r \in Req, PollFail(r) PROVE PlacedAt(s)'
  <2>1. CASE pc' = [pc EXCEPT ![r] = "backoff"] /\ UNCHANGED <<active, queued, status, published>>
    BY <1>0, <1>7, <2>1 DEF PollFail, TypeOK
  <2> QED
    BY <1>6, <1>7, <2>1 DEF PollFail
<1>8. ASSUME NEW r \in Req, PollCancelled(r) PROVE PlacedAt(s)'
  <2>1. Record({r}, Interrupted(r)) /\ Settle({r}, {r}) /\ Interrupted(r) # "none"
    BY <1>8 DEF PollCancelled, Interrupted
  <2>2. status'[s] = IF s = r THEN Interrupted(r) ELSE status[s]
    BY <2>1, RecordEffect
  <2>3. \/ /\ s \in queued /\ s \in active' /\ s \notin queued' /\ pc'[s] = "waiting"
        \/ /\ s \in active' <=> s \in active \ {r}
           /\ s \in queued' <=> s \in queued
           /\ pc'[s] = IF s = r THEN "returned" ELSE pc[s]
    BY <2>1, SettleEffect
  <2> QED
    BY <1>0, <1>8, <2>1, <2>2, <2>3 DEF PollCancelled, TypeOK
<1>9. ASSUME NEW r \in Req, Timeout(r) PROVE PlacedAt(s)'
  <2> DEFINE gone == IF future[r] \in Unsettled THEN {} ELSE {r}
  <2>1. Record({r}, "timed_out") /\ Settle(gone, {r}) /\ pc[r] = "polling"
        /\ late' = (IF future[r] \in Unsettled THEN late \cup {r} ELSE late)
        /\ UNCHANGED <<allocated, superseded, confirmed, future, closed>>
    BY <1>9 DEF Timeout, Drains
  <2>2. status'[s] = IF s = r THEN "timed_out" ELSE status[s]
    BY <2>1, RecordEffect
  <2>3. \/ /\ s \in queued /\ s \in active' /\ s \notin queued' /\ pc'[s] = "waiting"
        \/ /\ s \in active' <=> s \in active \ gone
           /\ s \in queued' <=> s \in queued
           /\ pc'[s] = IF s = r THEN "returned" ELSE pc[s]
    BY <2>1, SettleEffect
  <2> QED
    BY <1>0, <2>1, <2>2, <2>3 DEF TypeOK
<1>10. ASSUME NEW r \in Req, LateObserved(r) PROVE PlacedAt(s)'
  <2>1. \/ /\ s \in queued /\ s \in active' /\ s \notin queued' /\ pc'[s] = "waiting"
        \/ /\ s \in active' <=> s \in active \ {r}
           /\ s \in queued' <=> s \in queued
           /\ pc'[s] = pc[s]
    BY <1>10, SettleEffect DEF LateObserved
  <2> QED
    BY <1>0, <1>10, <2>1 DEF LateObserved, TypeOK
<1>11. ASSUME NEW r \in Req, WorkerStep(r) PROVE PlacedAt(s)'
  BY <1>0, <1>11 DEF WorkerStep, WorkerTake, WorkerEnd, TypeOK
<1>12. CASE Close
  <2> DEFINE unresolved == {r \in active : status[r] = "none"}
             dropped    == Unstarted(unresolved)
  <2>1. s \in dropped <=> s \in active /\ status[s] = "none" /\ pc[s] = "waiting"
    BY DEF Unstarted
  <2>2. s \in Recallable(unresolved) => s \in active /\ pc[s] = "polling" /\ future[s] = "queued"
    BY DEF Recallable
  <2>3. /\ closed' = TRUE /\ active' = active \ dropped /\ queued' = {}
        /\ pc'[s] = IF s \in dropped THEN "returned" ELSE pc[s]
        /\ confirmed' = confirmed \cup (dropped \cup queued) \cup Recallable(unresolved)
        /\ status'[s] = IF s \in dropped \cup queued THEN "cancelled" ELSE status[s]
        /\ future'[s] = IF future[s] = "queued" THEN "cancelled" ELSE future[s]
        /\ UNCHANGED <<allocated, superseded, late>>
    BY <1>12 DEF Close
  <2> HIDE DEF unresolved, dropped
  <2> QED
    BY <1>0, <2>1, <2>2, <2>3
<1>13. CASE UNCHANGED vars
  BY <1>0, <1>13 DEF vars
<1> QED
  BY <1>1, <1>2, <1>3, <1>4, <1>5, <1>6, <1>7, <1>8, <1>9, <1>10, <1>11, <1>12, <1>13
  DEF Next, ScheduleQuery, LoopStep

-----------------------------------------------------------------------------
(* Counting: the bound on the active set and on the queue.                 *)

\* Requests are finitely many.
LEMMA Finite ==
  ASSUME NEW S \in SUBSET Req
  PROVE  IsFiniteSet(S) /\ Cardinality(S) \in Nat
<1>1. IsFiniteSet(Req)
  BY SchedulerAssumption, FS_Interval DEF Req
<1> QED
  BY <1>1, FS_Subset, FS_CardinalityType

\* The sizes of disjoint sets of requests add up.
LEMMA DisjointUnion ==
  ASSUME NEW S \in SUBSET Req, NEW T \in SUBSET Req, S \cap T = {}
  PROVE  Cardinality(S \cup T) = Cardinality(S) + Cardinality(T)
<1>1. Cardinality(S \cup T) = Cardinality(S) + Cardinality(T) - Cardinality(S \cap T)
  BY Finite, FS_Union
<1>2. Cardinality(S \cap T) = 0
  BY FS_EmptySet
<1> QED
  BY <1>1, <1>2, Finite

\* A part is no larger than the whole.
LEMMA PartSize ==
  ASSUME NEW S \in SUBSET Req, NEW T \in SUBSET S
  PROVE  Cardinality(T) <= Cardinality(S)
BY Finite, FS_Subset

\* Adding one request adds at most one to the size.
LEMMA AddOne ==
  ASSUME NEW S \in SUBSET Req, NEW x \in Req
  PROVE  Cardinality(S \cup {x}) <= Cardinality(S) + 1
<1>1. IsFiniteSet(S) /\ Cardinality(S) \in Nat
  BY Finite
<1>2. CASE x \in S
  <2>1. S \cup {x} = S
    BY <1>2
  <2>2. Cardinality(S \cup {x}) = Cardinality(S)
    BY <2>1, Zenon
  <2> QED
    BY <1>1, <2>2
<1>3. CASE x \notin S
  <2>1. {x} \in SUBSET Req /\ S \cap {x} = {}
    BY <1>3
  <2>2. Cardinality(S \cup {x}) = Cardinality(S) + Cardinality({x})
    BY <2>1, DisjointUnion
  <2>3. Cardinality({x}) = 1
    BY FS_Singleton
  <2> QED
    BY <1>1, <2>2, <2>3
<1> QED
  BY <1>2, <1>3

\* Removing one takes one off.
LEMMA RemoveOne ==
  ASSUME NEW S \in SUBSET Req, NEW x \in S
  PROVE  Cardinality(S \ {x}) = Cardinality(S) - 1
<1>1. S \ {x} \in SUBSET Req /\ {x} \in SUBSET Req /\ (S \ {x}) \cap {x} = {}
  OBVIOUS
<1>2. (S \ {x}) \cup {x} = S
  OBVIOUS
<1>3. Cardinality(S) = Cardinality(S \ {x}) + Cardinality({x})
  BY <1>1, <1>2, DisjointUnion
<1>4. Cardinality({x}) = 1
  BY FS_Singleton
<1>5. Cardinality(S \ {x}) \in Nat
  BY <1>1, Finite
<1> QED
  BY <1>3, <1>4, <1>5

\* A request is not both active and queued.
LEMMA Apart == TypeOK /\ Placed => active \cap queued = {}
BY DEF TypeOK, Placed, QueuedInv, ActiveInv, LateInv, Tasked

\* Settling promotes as many queued requests as there is room for.
LEMMA SettleCapacity ==
  ASSUME TypeOK, Placed, Capacity, NEW gone \in SUBSET Req, NEW ended \in SUBSET Req,
         Settle(gone, ended)
  PROVE  Capacity'
<1> PICK taken \in SUBSET queued :
      /\ Fills(active \ gone, taken)
      /\ active' = (active \ gone) \cup taken
      /\ queued' = queued \ taken
  BY DEF Settle
<1>1. active \ gone \in SUBSET Req /\ taken \in SUBSET Req /\ queued \in SUBSET Req
  BY DEF TypeOK
<1>2. (active \ gone) \cap taken = {}
  BY Apart
<1>3. Cardinality(active') = Cardinality(active \ gone) + Cardinality(taken)
  BY <1>1, <1>2, DisjointUnion
<1>4. Cardinality(queued') <= Cardinality(queued)
  BY <1>1, PartSize
<1>5. Cardinality(queued') \in Nat /\ Cardinality(queued) \in Nat
  BY <1>1, Finite
<1>6. queued' # {} => taken # queued
  OBVIOUS
<1> QED
  BY <1>3, <1>4, <1>5, <1>6, SchedulerAssumption DEF Capacity, NoIdleCapacity, Fills

\* Every step keeps the bounds and leaves no place idle.
LEMMA CapacityStep == TypeOK /\ Placed /\ Capacity /\ [Next]_vars => Capacity'
<1> SUFFICES ASSUME TypeOK, Placed, Capacity, [Next]_vars PROVE Capacity'
  OBVIOUS
<1>0. /\ active \in SUBSET Req /\ queued \in SUBSET Req
      /\ Cardinality(active) \in Nat /\ Cardinality(queued) \in Nat
  BY Finite DEF TypeOK
<1>1. ASSUME NEW q \in Query, ~Parallel, Schedule(q) PROVE Capacity'
  <2> DEFINE new       == allocated + 1
             dropped   == IfCancelling(Unstarted({r \in Outstanding : query[r] # q}))
             promoted  == IF dropped = {} THEN {} ELSE queued
             held      == (active \ dropped) \cup promoted
             fits      == Cardinality(held) < MaxPending
  <2>1. new \in Req /\ dropped \in SUBSET active /\ ~Parallel
        /\ active' = (IF fits THEN held \cup {new} ELSE held)
        /\ queued' = (IF fits THEN {} ELSE {new})
    BY <1>1, SchedulerAssumption
    DEF Schedule, UnderLimit, TypeOK, Req, IfCancelling, Unstarted, Outstanding
  <2> HIDE DEF dropped, new
  <2>2. held \in SUBSET Req
    BY <1>0
  <2>3. Cardinality(held) <= MaxPending
    <3>1. CASE dropped = {}
      <4>1. held = active
        BY <3>1
      <4> QED
        BY <4>1 DEF Capacity
    <3>2. CASE dropped # {}
      <4>1. PICK d \in dropped : TRUE
        BY <3>2
      <4>2. Cardinality(active \ dropped) <= Cardinality(active \ {d})
        BY <1>0, <2>1, <4>1, PartSize
      <4>3. Cardinality(active \ {d}) = Cardinality(active) - 1
        BY <1>0, <2>1, <4>1, RemoveOne
      <4>4. (active \ dropped) \cap queued = {}
        BY Apart
      <4>5. Cardinality(held) = Cardinality(active \ dropped) + Cardinality(queued)
        BY <1>0, <3>2, <4>4, DisjointUnion
      <4>6. Cardinality(queued) <= 1 /\ Cardinality(active) <= MaxPending
        BY <2>1 DEF Capacity
      <4>7. Cardinality(active \ dropped) \in Nat /\ Cardinality(active \ {d}) \in Nat
        BY <1>0, Finite
      <4> QED
        BY <1>0, <4>2, <4>3, <4>5, <4>6, <4>7, SchedulerAssumption
    <3> QED
      BY <3>1, <3>2
  <2>4. Cardinality({new}) = 1 /\ Cardinality({}) = 0
    BY FS_Singleton, FS_EmptySet
  <2>5. Cardinality(held \cup {new}) <= Cardinality(held) + 1
    BY <2>1, <2>2, AddOne
  <2>6. Cardinality(held) \in Nat /\ Cardinality(held \cup {new}) \in Nat
    BY <2>1, <2>2, Finite
  <2> HIDE DEF held
  <2>7. CASE fits
    BY <2>1, <2>4, <2>5, <2>6, <2>7, SchedulerAssumption DEF Capacity, NoIdleCapacity
  <2>8. CASE ~fits
    BY <2>1, <2>3, <2>4, <2>6, <2>8, SchedulerAssumption DEF Capacity, NoIdleCapacity
  <2> QED
    BY <2>7, <2>8
<1>2. ASSUME NEW q \in Query, Parallel, ScheduleParallel(q) PROVE Capacity'
  <2> DEFINE new == allocated + 1
  <2>1. new \in Req /\ Parallel
    BY <1>2, SchedulerAssumption DEF ScheduleParallel, UnderLimit, TypeOK, Req
  <2> HIDE DEF new
  <2>2. Cardinality(active \cup {new}) <= Cardinality(active) + 1
        /\ Cardinality(queued \cup {new}) <= Cardinality(queued) + 1
    BY <1>0, <2>1, AddOne
  <2>3. Cardinality(active \cup {new}) \in Nat /\ Cardinality(queued \cup {new}) \in Nat
    BY <1>0, <2>1, Finite
  <2>4. CASE Cardinality(active) < MaxPending
    <3>1. active' = active \cup {new} /\ queued' = queued
      BY <1>2, <2>4 DEF ScheduleParallel, new
    <3>2. queued = {}
      BY <1>0, <2>4, SchedulerAssumption DEF Capacity, NoIdleCapacity
    <3> QED
      BY <1>0, <2>2, <2>3, <2>4, <3>1, <3>2, SchedulerAssumption DEF Capacity, NoIdleCapacity
  <2>5. CASE ~(Cardinality(active) < MaxPending)
    <3>1. active' = active /\ queued' = queued \cup {new} /\ Cardinality(queued) < MaxPending
      BY <1>2, <2>5 DEF ScheduleParallel, QueueHasRoom, new
    <3> QED
      BY <1>0, <2>1, <2>2, <2>3, <2>5, <3>1, SchedulerAssumption DEF Capacity, NoIdleCapacity
  <2> QED
    BY <2>4, <2>5
<1>3. CASE SupersedeAll
  <2> DEFINE dropped == IfCancelling(Unstarted(Outstanding))
  <2>1. PICK taken \in SUBSET queued : /\ Fills(active \ dropped, taken)
                                       /\ active' = (active \ dropped) \cup taken
    BY <1>3 DEF SupersedeAll
  <2>2. queued' = {}
    BY <1>3 DEF SupersedeAll
  <2> HIDE DEF dropped
  <2>3. (active \ dropped) \cap taken = {}
    BY Apart
  <2>4. Cardinality(active') = Cardinality(active \ dropped) + Cardinality(taken)
    BY <1>0, <2>1, <2>3, DisjointUnion
  <2>5. Cardinality(queued') = 0
    BY <2>2, FS_EmptySet
  <2> QED
    BY <2>1, <2>2, <2>4, <2>5, SchedulerAssumption DEF Capacity, NoIdleCapacity, Fills
<1>4. ASSUME NEW r \in Req, NEW gone \in SUBSET {r}, NEW ended \in SUBSET {r}, Settle(gone, ended)
      PROVE  Capacity'
  BY <1>4, SettleCapacity
<1>5. ASSUME UNCHANGED <<active, queued>> PROVE Capacity'
  BY <1>5 DEF Capacity, NoIdleCapacity
<1>6. ASSUME NEW r \in Req, LoopStep(r) \/ Timeout(r) \/ WorkerStep(r) PROVE Capacity'
  <2>1. \/ \E gone \in SUBSET {r}, ended \in SUBSET {r} : Settle(gone, ended)
        \/ UNCHANGED <<active, queued>>
    <3>1. CASE Start(r) \/ Retry(r)
      BY <3>1 DEF Start, Retry, Attempt
    <3>2. CASE \E stale \in BOOLEAN : PollOk(r, stale)
      BY <3>2 DEF PollOk
    <3>3. CASE PollInvalid(r) \/ PollFail(r) \/ PollCancelled(r)
      BY <3>3 DEF PollInvalid, PollFail, PollCancelled
    <3>4. CASE LateObserved(r)
      BY <3>4 DEF LateObserved
    <3>5. CASE Timeout(r)
      <4>1. (IF future[r] \in Unsettled THEN {} ELSE {r}) \in SUBSET {r}
        OBVIOUS
      <4>2. Settle(IF future[r] \in Unsettled THEN {} ELSE {r}, {r})
        BY <3>5 DEF Timeout, Drains
      <4> QED
        BY <4>1, <4>2
    <3>6. CASE WorkerStep(r)
      BY <3>6 DEF WorkerStep, WorkerTake, WorkerEnd
    <3> QED
      BY <1>6, <3>1, <3>2, <3>3, <3>4, <3>5, <3>6 DEF LoopStep
  <2> QED
    BY <1>4, <1>5, <2>1
<1>7. CASE Close
  <2>1. active' \in SUBSET active /\ queued' = {}
    BY <1>7 DEF Close
  <2>2. Cardinality(active') <= Cardinality(active) /\ Cardinality(queued') = 0
    BY <1>0, <2>1, PartSize, FS_EmptySet
  <2>3. Cardinality(active') \in Nat
    BY <1>0, <2>1, Finite
  <2> QED
    BY <1>0, <2>1, <2>2, <2>3, SchedulerAssumption DEF Capacity, NoIdleCapacity
<1>8. CASE UNCHANGED vars
  BY <1>5, <1>8 DEF vars
<1> QED
  BY <1>1, <1>2, <1>3, <1>6, <1>7, <1>8 DEF Next, ScheduleQuery

-----------------------------------------------------------------------------
(* What the statuses mean.                                                 *)

\* Every step keeps the recorded statuses true of the request.
LEMMA HonestStep == TypeOK /\ Placed /\ StatusHonest /\ [Next]_vars => StatusHonest'
<1> SUFFICES ASSUME TypeOK, Placed, StatusHonest, [Next]_vars, NEW s \in Req
             PROVE  /\ status'[s] = "cancelled" => s \in confirmed'
                    /\ status'[s] = "completed" => s \in accepted' /\ s \notin superseded'
  BY DEF StatusHonest, Req
<1>0. /\ status[s] = "cancelled" => s \in confirmed
      /\ status[s] = "completed" => s \in accepted /\ s \notin superseded
      /\ s \in queued => status[s] = "none"
  BY DEF StatusHonest, Placed, QueuedInv
<1> DEFINE outcome == IF CancelOnSupersession THEN "cancelled" ELSE "superseded"
<1>1. ASSUME NEW q \in Query, Schedule(q)
      PROVE  /\ status'[s] = "cancelled" => s \in confirmed'
             /\ status'[s] = "completed" => s \in accepted' /\ s \notin superseded'
  <2> DEFINE obsolete  == {r \in Outstanding : query[r] # q}
             dropped   == IfCancelling(Unstarted(obsolete))
             coalesced == queued \ (IF dropped = {} THEN {} ELSE queued)
             gone      == dropped \cup coalesced
  <2>1. /\ status'[s] = IF s \in gone THEN outcome ELSE status[s]
        /\ superseded' = superseded \cup obsolete \cup coalesced
        /\ confirmed' = (confirmed \cup IfCancelling(Recallable(obsolete))) \cup IfCancelling(gone)
        /\ accepted' = accepted
    BY <1>1 DEF Schedule, Record
  <2>2. s \in obsolete => status[s] = "none"
    BY DEF Outstanding
  <2>3. s \in coalesced => status[s] = "none"
    BY <1>0
  <2> HIDE DEF obsolete, dropped, coalesced, gone
  <2> QED
    BY <1>0, <2>1, <2>2, <2>3 DEF IfCancelling
<1>2. CASE SupersedeAll
  <2> DEFINE dropped == IfCancelling(Unstarted(Outstanding))
  <2>1. PICK taken \in SUBSET queued :
          /\ superseded' = superseded \cup Outstanding \cup (queued \ taken)
          /\ confirmed' = confirmed \cup IfCancelling(Recallable(Outstanding))
                                    \cup IfCancelling(dropped \cup (queued \ taken))
          /\ Record(dropped \cup (queued \ taken), outcome)
    BY <1>2 DEF SupersedeAll
  <2>2. status'[s] = IF s \in dropped \cup (queued \ taken) THEN outcome ELSE status[s]
    BY <2>1 DEF Record
  <2>3. accepted' = accepted
    BY <1>2 DEF SupersedeAll
  <2>4. s \in Outstanding => status[s] = "none"
    BY DEF Outstanding
  <2> HIDE DEF dropped
  <2> QED
    BY <1>0, <2>1, <2>2, <2>3, <2>4 DEF IfCancelling
<1>3. ASSUME NEW r \in Req, LoopStep(r) \/ Timeout(r)
      PROVE  /\ status'[s] = "cancelled" => s \in confirmed'
             /\ status'[s] = "completed" => s \in accepted' /\ s \notin superseded'
  <2>1. CASE \E stale \in BOOLEAN : PollOk(r, stale)
    <3>1. PICK stale \in BOOLEAN : PollOk(r, stale)
      BY <2>1
    <3>2. PICK o \in Status : /\ Record({r}, o)
                              /\ o = "cancelled" => r \in confirmed
                              /\ o = "completed" => r \notin superseded /\ r \in accepted'
      BY <3>1 DEF PollOk, Interrupted, Status
    <3>3. status'[s] = IF s = r THEN o ELSE status[s]
      BY <3>2, RecordEffect
    <3>4. s \in accepted => s \in accepted'
      BY <3>1 DEF PollOk
    <3> QED
      BY <1>0, <3>1, <3>2, <3>3, <3>4 DEF PollOk
  <2>2. CASE ~\E stale \in BOOLEAN : PollOk(r, stale)
    <3>1. /\ UNCHANGED <<superseded, confirmed, accepted>>
          /\ \/ UNCHANGED status
             \/ Record({r}, "failed") \/ Record({r}, "timed_out") \/ Record({r}, Interrupted(r))
      BY <1>3, <2>2 DEF LoopStep, Start, Retry, Attempt, PollInvalid, PollFail, PollCancelled,
                        Timeout, LateObserved
    <3>2. Interrupted(r) = "superseded" \/ (Interrupted(r) = "cancelled" /\ r \in confirmed)
      BY DEF Interrupted
    <3>3. \/ status'[s] = status[s]
          \/ status'[s] \in {"failed", "timed_out", "superseded"}
          \/ status'[s] = "cancelled" /\ s \in confirmed
      BY <3>1, <3>2, RecordEffect
    <3> QED
      BY <1>0, <3>1, <3>3
  <2> QED
    BY <2>1, <2>2
<1>4. CASE Close
  <2>1. /\ status'[s] = IF s \in Unstarted({r \in active : status[r] = "none"}) \cup queued
                        THEN "cancelled" ELSE status[s]
        /\ confirmed' = confirmed \cup (Unstarted({r \in active : status[r] = "none"}) \cup queued)
                                  \cup Recallable({r \in active : status[r] = "none"})
        /\ UNCHANGED <<superseded, accepted>>
    BY <1>4 DEF Close
  <2> QED
    BY <1>0, <2>1
<1>5. CASE UNCHANGED <<status, superseded, accepted>> /\ confirmed' = confirmed
  BY <1>0, <1>5
<1> QED
  BY <1>1, <1>2, <1>3, <1>4, <1>5
  DEF Next, ScheduleQuery, WorkerStep, WorkerTake, WorkerEnd, ScheduleParallel, vars

-----------------------------------------------------------------------------
(* The invariant, and what follows from it.                                *)

\* The initial state satisfies the invariant.
LEMMA InitInv == Init => IInv
<1> SUFFICES ASSUME Init PROVE IInv
  OBVIOUS
<1>1. TypeOK
  <2>1. 0 \in 0..MaxTotal
    BY SchedulerAssumption
  <2>2. /\ active \in SUBSET Req /\ queued \in SUBSET Req /\ superseded \in SUBSET Req
        /\ confirmed \in SUBSET Req /\ late \in SUBSET Req /\ accepted \in SUBSET Req
        /\ published \in SUBSET Req /\ closed \in BOOLEAN
    BY DEF Init
  <2>3. /\ query \in [Req -> Query \cup {NoQuery}] /\ pc \in [Req -> PC]
        /\ attempts \in [Req -> Nat]
        /\ future \in [Req -> Future] /\ status \in [Req -> Status]
    BY DEF Init, PC, Future, Status
  <2> QED
    BY <2>1, <2>2, <2>3 DEF Init, TypeOK
<1>2. Placed
  BY SchedulerAssumption
  DEF Init, Placed, UnallocatedInv, QueuedInv, TaskInv, ActiveInv, LateInv, FutureInv,
      ResolvedInv, ConfirmedInv, Tasked, Unsettled, Req
<1>3. Capacity
  BY FS_EmptySet, SchedulerAssumption DEF Init, Capacity, NoIdleCapacity
<1>4. StatusHonest
  BY DEF Init, StatusHonest
<1> QED
  BY <1>1, <1>2, <1>3, <1>4 DEF IInv

\* The invariant holds of every behaviour.
THEOREM Invariance == Spec => []IInv
<1>1. IInv /\ [Next]_vars => IInv'
  BY TypeStep, PlacedStep, CapacityStep, HonestStep DEF IInv
<1> QED
  BY <1>1, InitInv, PTL DEF Spec

\* Every field keeps its type, for every number of requests, workers, permits
\* and retries.
THEOREM TypeCorrect == Spec => []TypeOK
<1>1. IInv => TypeOK
  BY DEF IInv
<1> QED
  BY <1>1, Invariance, PTL

\* While the session is open a thread only runs searches of active requests,
\* and there are at most max_pending_requests of those: _finish_state never
\* gives back the place of a request whose search is still running.
THEOREM WorkIsBounded == Spec => []OutstandingWorkBounded
<1>1. IInv => OutstandingWorkBounded
  BY DEF IInv, Capacity, Placed, FutureInv, TaskInv, LateInv, Tasked, OutstandingWorkBounded
<1> QED
  BY <1>1, Invariance, PTL

\* A request without a result is queued or has a task that will record one:
\* no handler of schedule, supersede_all or _run_state drops it on the way.
THEOREM NothingLost == Spec => []NoLostRequest
<1>1. IInv => NoLostRequest
  BY DEF IInv, Placed, QueuedInv, TaskInv, ResolvedInv, Tasked, NoLostRequest, Unresolved
<1> QED
  BY <1>1, Invariance, PTL

\* A request waits only while max_pending_requests others are active: every
\* path that gives a place back ends in _promote_pending.
THEOREM NoIdlePlace == Spec => []NoIdleCapacity
<1>1. IInv => NoIdleCapacity
  BY DEF IInv, Capacity
<1> QED
  BY <1>1, Invariance, PTL

\* The queue holds requests that can still run and keeps its bound.
THEOREM QueueAlwaysLive == Spec => []QueueIsLive
<1>1. IInv => QueueIsLive
  BY DEF IInv, TypeOK, Capacity, Placed, QueuedInv, QueueIsLive
<1> QED
  BY <1>1, Invariance, PTL

\* The last attempt of a request reported cancelled never reached the
\* retriever once the cancellation was confirmed.
THEOREM CancelledStaysCancelled == Spec => []ConfirmedNeverRuns
<1>1. IInv => ConfirmedNeverRuns
  BY DEF IInv, TypeOK, Placed, ConfirmedInv, ConfirmedNeverRuns
<1> QED
  BY <1>1, Invariance, PTL

\* A recorded status says what happened to the request.
THEOREM HonestStatus == Spec => []StatusHonest
<1>1. IInv => StatusHonest
  BY DEF IInv
<1> QED
  BY <1>1, Invariance, PTL

ResultKept == \A r \in Req : status[r] # "none" =>
                status'[r] = status[r] /\ (r \in accepted' <=> r \in accepted)

\* No step touches the result of a resolved request.
LEMMA ResultStep == ASSUME IInv, [Next]_vars PROVE ResultKept
<1> USE DEF ResultKept
<1> SUFFICES ASSUME NEW s \in Req, status[s] # "none"
             PROVE  status'[s] = status[s] /\ (s \in accepted' <=> s \in accepted)
  OBVIOUS
<1>0. s \notin queued /\ pc[s] \notin Tasked
  BY DEF IInv, Placed, QueuedInv, TaskInv
<1>1. ASSUME NEW q \in Query, Schedule(q) PROVE status'[s] = status[s] /\ accepted' = accepted
  BY <1>0, <1>1 DEF Schedule, Record, IfCancelling, Unstarted, Outstanding
<1>2. CASE SupersedeAll
  BY <1>0, <1>2 DEF SupersedeAll, Record, IfCancelling, Unstarted, Outstanding
<1>3. ASSUME NEW r \in Req, LoopStep(r) \/ Timeout(r)
      PROVE  status'[s] = status[s] /\ (s \in accepted' <=> s \in accepted)
  <2>1. CASE pc[r] \in Tasked
    <3>1. s # r
      BY <1>0, <2>1
    <3>2. UNCHANGED status \/ \E outcome : Record({r}, outcome)
      BY <1>3 DEF LoopStep, Start, Retry, Attempt, PollOk, PollInvalid, PollFail, PollCancelled,
                  Timeout, LateObserved
    <3>3. status'[s] = status[s]
      BY <3>1, <3>2, RecordEffect
    <3>4. accepted' \in {accepted, accepted \cup {r}}
      BY <1>3 DEF LoopStep, Start, Retry, PollOk, PollInvalid, PollFail, PollCancelled,
                  Timeout, LateObserved
    <3> QED
      BY <3>1, <3>3, <3>4
  <2>2. CASE pc[r] \notin Tasked
    BY <1>3, <2>2 DEF LoopStep, Start, Retry, PollOk, PollInvalid, PollFail, PollCancelled,
                      Timeout, LateObserved, Tasked
  <2> QED
    BY <2>1, <2>2
<1>4. CASE Close
  BY <1>0, <1>4 DEF Close, Unstarted, Tasked
<1>5. CASE UNCHANGED <<status, accepted>>
  BY <1>5
<1> QED
  BY <1>1, <1>2, <1>3, <1>4, <1>5
  DEF Next, ScheduleQuery, WorkerStep, WorkerTake, WorkerEnd, ScheduleParallel, vars

\* The result of a request is recorded once and never replaced.
THEOREM ResultsAreFinal == Spec => ResultFinal
<1>1. IInv /\ [Next]_vars => [\A r \in Req : status[r] # "none" =>
        status'[r] = status[r] /\ (r \in accepted' <=> r \in accepted)]_vars
  BY ResultStep DEF ResultKept
<1> QED
  BY <1>1, Invariance, PTL DEF Spec, ResultFinal

\* Nothing becomes visible after close.
THEOREM ClosedIsSilent == Spec => SilentAfterClose
<1>1. [Next]_vars => [closed => published' = published /\ accepted' = accepted]_vars
  <2> SUFFICES ASSUME closed, [Next]_vars PROVE published' = published /\ accepted' = accepted
    BY DEF vars
  <2>1. ASSUME NEW q \in Query, Schedule(q) \/ ScheduleParallel(q) PROVE FALSE
    BY <2>1 DEF Schedule, ScheduleParallel
  <2>2. CASE SupersedeAll
    BY <2>2 DEF SupersedeAll
  <2>3. ASSUME NEW r \in Req, LoopStep(r) \/ Timeout(r) \/ WorkerStep(r)
        PROVE  published' = published /\ accepted' = accepted
    BY <2>3 DEF LoopStep, Start, Retry, Attempt, Record, PollOk, PollInvalid, PollFail,
                PollCancelled, Timeout, LateObserved, WorkerStep, WorkerTake, WorkerEnd
  <2>4. CASE Close
    BY <2>4 DEF Close
  <2> QED
    BY <2>1, <2>2, <2>3, <2>4 DEF Next, ScheduleQuery, vars
<1> QED
  BY <1>1, PTL DEF Spec, SilentAfterClose
=============================================================================
