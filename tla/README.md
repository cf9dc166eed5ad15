# Verification of FlowContext

FlowContext answers spoken, changing questions from a fixed corpus. Two of its
parts act concurrently: a streaming session that starts retrieval while the
speaker is still talking, and follow-up sessions ("Phase 4") that patch an
answered session, retrieve only for what a patch left without evidence, and
publish answers only into the revision they were made for. Around them is a
pipeline from corpus and transcript to a verified answer. This project models
these, checks them with TLC on small instances, and proves the most important
results with TLAPS for every value of the constants. Paths below are relative
to `src/src/flowcontext/`.

- [The system](#the-system): inventory of its components
- [Modules](#modules): which module models what, and how
- [Runs](#runs): what each run checks, its bounds, fairness
- [Proofs](#proofs)
- [Divergences](#divergences) between the code and its documentation
- [Not modelled](#not-modelled)
- [Plan](#plan)

## The system

### Streaming: controller, scheduler, finish

| component | state | operations |
|---|---|---|
| `StreamingDecisionController` (`streaming.py`) | revisions of the transcript, latest retrieval revision, last query, current evidence, closed | `process_event` decides RETRIEVE, WAIT or NO_RETRIEVAL_NEEDED; `begin_retrieval` takes a new revision and drops the evidence; `complete_retrieval` admits a result of the newest revision |
| `AsyncRetrievalScheduler` (`scheduler.py`) | requests (active, pending, results), semaphore, thread pool, late observers, closed | `schedule`, `supersede_all`, `finish`, `wait_for_request`, `close`; one `_run_state` task per request |
| `replay_streaming_transcript` (`streaming.py`) | none of its own | feeds events, schedules what the controller decides, calls `finish` after the final event, closes |

The event loop runs the controller and the scheduler's tasks; searches run in
threads and cannot be interrupted. A request is therefore in one of several
places at once: its task, its executor future, its thread, its place in the
active set, its result. *Hard:* cancellation before the task's first step,
between submission and the thread's start, and during the search; timeouts
that leave the thread running ("drain") and its late end; retries overtaken by
supersession; promotion of pending requests whenever a place becomes free;
`finish`, which reuses, awaits or schedules, and may find the world changed
after its await. *Correct when:* no request is lost, work is bounded even when
searches hang, a confirmed cancellation is true, results never change, nothing
is visible after close, and the evidence an answer is drawn from is that of the
newest query and of the final text.

### Phase 4: store, coordinator, publisher (`phase4.py`, contracts in `contracts.py`)

| component | state | operations |
|---|---|---|
| `Phase4FollowUpInterpreter` | none | classifies a follow-up's text into a proposed patch |
| `Phase4SessionStore` | per session: revisions, active intents, constraints, current evidence and claims, pending update, selective plans and tasks, answer versions; an LRU order | `create_session`, `apply_patch`, `record_*`, `begin_answer_generation`, `publish_answer`, `publish_presentation`, `clear`; each under one lock |
| `_Phase4SchedulerController` (the bridge) | candidate revisions, closed | `advance_candidate`, `begin_retrieval`, `complete_retrieval` (stale unless of the candidate) |
| `Phase4SelectiveUpdateCoordinator` | per session a runtime: bridge, scheduler, request and consumer of each task | `apply_patch`, `execute_plan`, `_consume_task_result`, `close_session` |
| `Phase4AnswerPublisher` | none | `generate_and_publish`, `present_and_publish`: read a revision, await, publish if it is still current |

*Hard:* the publisher and the result consumers hold a revision or a task across
an await while patches arrive; results are accepted by the bridge and consumed
later; a plan can be executed again by another runtime; late results recompute
the status of plans that were superseded; patches give intents new identities
and everything that refers to them has to follow. *Correct when:* evidence and
claims always refer to intents that are still asked, evidence enters only from
the candidate plan, an answer is one to the newest update, superseded work
stays superseded, and a plan that runs comes to an end.

### Multi-intent retrieval (`multi_intent.py`)

| component | state | operations |
|---|---|---|
| `StructuredMultiIntentDecomposer` | none across calls | `decompose`: ask a provider, validate, repair, fall back to the whole question |
| `MultiIntentRetriever` | decompositions by query, latest plan, results by retrieval revision, last result; one lock | `search_with_revision` (in scheduler threads), `decompose_for_query` (in the event loop) |
| `retrieve_multi_intent`, `_fuse_backend_hits`, `_assemble_evidence` | none | waves of dependent intents, rank fusion, selection under a budget |

*Hard:* a search takes the lock three times and others run in between; it
reuses the previous retrieval's results; a provider may be wrong, late or hang
while the lock is held. *Correct when:* a plan holds everything the transcript
states, a dependent intent is answered only with its prerequisite's evidence,
what is reused is of one search and, while calls keep their order, of the same
intent, late workers bring nothing back, every intent has its turn in the
evidence.

### From corpus and transcript to a verified answer

`ingestion.py` and `indexing.py` chunk documents and keep an index file that
commands build and query (`cli.py`), possibly at the same time; `retrieval.py`
and `embeddings.py` score chunks. `replay.py` normalises a recorded transcript
and feeds it to the controller. `generation.py` calls a provider from a daemon
thread with retries and repairs; `synthesis.py` verifies the claims, resolves
conflicting passages and publishes what stands. *Hard:* killed and overlapping
builds, a corpus edited meanwhile, repeated events with new IDs, threads that
outlive their timeout, a newer revision between two steps, claims that come
back through a fallback. *Correct when:* no text is lost at a boundary, a
query is served from what it asked for, a replay says what its events say,
calls are bounded and accounted for, only verified claims that stand are
published.

`answering.py` is the extractive baseline, `trace.py` an event list,
`phase4_replay.py` a driver of Phase 4, `*_evaluation.py` and `phase3_audit.py`
score recorded output.

## Modules

| module | models | role |
|---|---|---|
| `Scheduler` | `AsyncRetrievalScheduler` without `finish` | component |
| `EvidenceGate` | what controller and scheduler promise together | abstract specification |
| `StreamSession` | controller, scheduler and `finish` in the order the replay calls them; extends `Scheduler` | composition, refines `EvidenceGate` |
| `SessionRecords` | what a session promises of its intents, evidence, claims and searches | abstract specification |
| `Phase4Session` | one session of store, coordinator, bridge and publisher: the control | composition, implements `SessionRecords` |
| `SelectiveUpdate` | what a patch does to intents, constraints, evidence and claims | component, data of `Phase4Session`, implements `SessionRecords` |
| `AnswerHistory` | record bound, claim reconciliation and answer versions | component, past of `Phase4Session` |
| `IntentPlan`, `MultiIntent` | plans, waves and reuse; the retriever shared by threads | algorithms, component above them |
| `Chunking`, `IndexStore`, `Transcript`, `Assembly`, `Synthesis` | one stage each of the way to an answer | components |
| `Answering` | these stages and `AnswerHistory` in order | composition |
| `MC...` | constants and symmetry of the runs | model checking |
| `Recursion` | | induction over data as facts about sets: recursive functions and folds shown to exist |
| `..._proofs` (eight with `Recursion`) | | theorems |

**Scheduler.** A request is its sequence number (`allocated` hands them out up to
`MaxTotal`, which is `max_total_requests`). `active`, `queued`, `superseded`,
`confirmed`, `accepted`, `status` and `published` are the fields of the same
meaning; `pc` says where the request's `_run_state` task is (created, waiting
for the semaphore, polling its future, sleeping before a retry, returned), and
`future` what the executor does with its last attempt. An action is a stretch
of code between two awaits: `Start`, `Retry`, `PollOk`, `PollInvalid`,
`PollFail`, `PollCancelled`, `Timeout` of `_run_state`, `LateObserved` of
`_observe_late`, `WorkerTake` and `WorkerEnd` of a thread, and the calls
`Schedule`, `ScheduleParallel`, `SupersedeAll`, `Close`. Every one of them
includes what its code calls: `Settle` is `_finish_state`, with the promotions
of `_promote_pending`. `cancel_on_supersession` and the style of scheduling
(`Parallel`) are constants. Hits, scores, traces, usage and clock times are left out: a search
ends well, ends with an error, or does not end.

**StreamSession.** Adds the controller's evidence, the text (abstracted to the
query it stands for), and the position of `finish` in its loop. An `Event`
is `process_event` with the begin of a retrieval and the scheduling it leads
to. Which texts are asides, vague or incomplete, and which changes of text are
redirections or add terms, are constants (`Aside`, `Vague`, `Incomplete`,
`Redirects`, `AddsTerms`); whether an event falls into the debounce window is
left open; duplicate suppression
(`SuppressDuplicates`) and cancellation (`CancelOnSupersession`) are constants. A result may be
found irrelevant to its query (`weak`), which is how `finish` comes to reject
completed results.

**EvidenceGate.** Three variables: the newest revision, the revision whose
evidence is current, the one the answer was drawn from. `StreamSession`
implements it under `latest <- allocated, current <- evidence, answer <- selected`.

**Phase4Session.** An intent is a slot and the revision `born` that gave it its
present identity, since a patch that revises an intent replaces it by one with
a fresh ID. Evidence and claims are the identities they serve. A plan is named
by its candidate revision, a task by plan and intent. `Clarify`, `Format` and
`SemanticPatch` are the three branches of `apply_patch`, each both as called
directly on the store and through the coordinator (`AdvanceCandidate`,
`Runtime`, `Taken`). The dependency analysis is a choice within its limits
(`Analysis`). `Execute`/`ExecuteObsolete` are `execute_plan`; `Search` is the
bridge's verdict on a request; `Consume`, `ConsumerDies` and `ConsumeRejected`
are the ways `_consume_task_result` ends. `BeginAnswer`/`PublishAnswer`/`Discard`
are `generate_and_publish` before and after its await, with `expected_revision`
in `base`. The scheduler is reduced to what module `Scheduler` shows of it: a
request gets one result, or none after a close.

**SessionRecords.** Five variables: the revision and the sets of intents that are
asked, that there is evidence for, that are claimed, and that the plan of this
revision seeks. Its steps say what no record may do without a cause. A patch
renews intents, adds some or changes the topic; a claimed intent it leaves alone
stays claimed or is sought again, and of the intents it leaves alone no unclaimed
one is sought. Any other new revision ends the search, and evidence without a new
revision is only for what is sought. `Phase4Session` and `SelectiveUpdate` model
the same session from two sides: one has plans, tasks, consumers and answers in
flight and leaves the analysis open, the other has the content of the records and
computes it. Both implement `SessionRecords`, one with identities as the intents
and the tasks of the plan of revision `rev` as what is sought, the other with the
union of the intents of its evidence and of its claims and the `retrieve` of its
newest plan.

**SelectiveUpdate.** The records of a session as sets; a record is its content (an
intent is a slot and the revision that gave it its ID). `Patches` is everything
the interpreter can propose for the current state, by kind (`QuestionPatches`,
`AdditionPatches`, ...); what a follow-up's text says decides only which, and is
left open. `Admissible` is the store's validation, `Projected` and `Intents` the
new state, `Affected`, `Retained`, `Preserved` and `Retrieve` the dependency
analysis, `ApplyPatch` the write with all records rebound. `RecordEvidence`,
`RecordSelectiveEvidence`, `Generate`/`Publish`/`Discard` and `Recreate` (clear and
create under the same ID, with a generation in flight) surround it. Which of
several current records of one passage is the latest is left open; repeated
values of one owner, historical records and the record bound are left out.

**AnswerHistory.** The lists behind that state: evidence and claims in the order of
recording, with their IDs, and the answer versions. `Write` is `_write`, with
`_assert_active_bounds`, `_bounded` (`Keep`, `KeepVersions`) and the contract's
references (`Sound`). `PublishClaims` reconciles an answer with the current claims
and those of the parent version, carries omitted ones, and records the
changes. A claim's content is its signature: what it says (text and citations, one
statement) and the IDs of the intents it answers, where an ID is a slot and the
revision that gave it, as in `SelectiveUpdate`. `Patch` revises the intents of any
`slots`, and the claims it keeps get the new IDs (`Renewed`), so that a kept claim's
signature may differ from that of its parent; a provider's claims are about the
intents as they are now (`Stated`). Which claims a patch keeps is any
subset that rests on kept evidence (`SelectiveUpdate` decides it). An offered
claim's ID has length one, which tells it from the digests given on a collision
(`HistoryAssumption`). Constraint,
plan and audit lists, statuses and usage are left out.

**IntentPlan, MultiIntent.** A provider's response is local intents with constraints
and dependencies; `WellFormed`, `Normalised` and `Usable` are its validation and
normalisation, `Preserved` and `Reusable` what a later plan takes over, `Waves` the
search (as recursive functions). `MultiIntent` has one job per call, at
"decompose", "provider", "read" or "search"; `Lookup`, `Respond`, `TimesOut`, `Breaks`,
`ReadPrevious` and `Search` are its stretches under the lock. Calls come from
events (`Ask`), the final decomposition (`Finalise`) and its recovery (`Recover`).
Revisions that make no call are not numbered, and a request is not retried by
the scheduler. The rule-based decomposer is the case of a single response.

**Chunking** is `_split_by_size` word by word; a paragraph is where its words end.
**IndexStore** has commands in slots that build (`StartBuild`, `CheckExisting`, `Open`,
`Replace`, `WriteFails`) or query (`StartQuery`, `MatchSource`, `Serve`), can be killed
anywhere, and an owner who edits the corpus; an index is what it was built
from, which is what its fingerprints stand for. **Transcript** reads events as
`normalize_transcript` does and delivers the records to the controller and the
baseline side by side; text is a sequence of fragments. **Assembly** fuses ranked
lists with exact reciprocal ranks (over a common denominator) and selects
under size and token budget. **Synthesis** is `generate_grounded_answer` and
`synthesize_unified_answer` between their awaits, with the provider's threads;
what the verifier finds wrong with a claim is part of the claim. **Answering** runs
the stages one after another, with each one's result handed to the next where
the code does (evidence to the generator) and its state forgotten otherwise.


## Runs

Every run is bounded by constants only; there is no state constraint. Deadlock
is not checked (`CHECK_DEADLOCK FALSE`): a session ends, a call is over, and the
counters of requests and revisions run out.

| run | instance | what it shows |
|---|---|---|
| `scheduler` | 3 requests of one query, 2 places, 1 thread, 1 retry, FIFO, fair | No request is lost, outstanding searches stay bounded although threads can hang, a confirmed cancellation is true, a result never changes, nothing waits beside a free place, nothing is published after close, every activated request gets a result even if searches hang, and if they return every request does. |
| `supersede_all` | as above, no retry | Violated: see [Divergences](#divergences). |
| `session` | 4 requests, texts `short`, `long` (adds terms), `other` (incomplete), latest query wins, suppression, fair | Evidence is never stale, what `finish` returns is the controller's evidence for the final text, giving up has a cause, the evidence gate is implemented, and `finish` ends by itself when searches return. |
| `session_recovery` | 3 requests | Violated. |
| `phase4_session` | 2 intents, 3 revisions, 2 plans, 1 runtime, 1 generation | Patches, targeted retrieval and generation interleaved: references stay valid, plans tell the truth about their tasks, late results and late answers change nothing they may not. |
| `phase4_live` | 1 intent, 4 revisions, 1 plan, 2 runtimes, fair consumers | The candidate's plan settles, also when its runtime is closed and it is executed again. |
| `phase4_qualified` | 2 intents, 4 revisions, no plans | Violated. |
| `phase4_records` | as `phase4_session` | Violated. |
| `phase4_update` | 2 slots, 2 passages, 2 values (1 entity), 2 claim IDs, 3 revisions, 1 initial constraint, 2 pieces of evidence | Through every patch, late evidence and late answers, also into a session created anew: claims rest on what is current, no answered intent is left with nothing, unrelated claims survive. |
| `multi_intent` | 2 texts, 6 responses each, 1 repair, 3 calls, fair | Plans keep the request, outcomes follow dependencies, whatever is reused was found by one search and for the same intent unless calls overtook one another, late workers bring nothing back, every call ends whatever the provider does. |
| `multi_intent_reuse` | 2 texts, 2 calls | Violated. |
| `answer` | paragraphs of up to 4 words, chunks of 4 with overlap 2; 2 index commands, 2 corpora; 5 events of 7 kinds; 3 intents and passages, budgets 4 and 9; 1 retry, 1 repair; 3 records, 5 revisions, 1 intent a patch may rename; fair | The stages from corpus to the answers of a session, each with its properties. |

**Why the bounds suffice.** *Scheduler:* with two places and three requests, one
request drains, one is superseded and one is queued and promoted at the same
time; one thread makes searches queue in the executor, so that a cancellation
can find a future before and after its start; one retry lets a supersession
fall into the backoff. The latest-query style is exercised in `session`, with
other queries, and both styles are covered by the theorems. *Session:* `other`
followed by an earlier text gives the return to a query that was already
attempted, which duplicate suppression answers with a wait; the fourth request
is the final recovery. *Phase 4:* three revisions are two patches and a
publication, in any order, and the second plan supersedes the first; two
intents make a patch that replaces one and keeps the other; a second runtime
executes a plan again. The live run needs a fourth revision so that a
formatted answer is published: evidence, answer, format, presentation.
*Updates:* evidence, answer, patch is the shortest history in which a claim can
be lost; two passages differ in what they mention, so that one is sufficient
for a changed constraint and the other is not. The theorems cover the rest.
*Multi-intent:* three calls are a search, a second that reuses the first, and
the final decomposition or a third that finds the second late, compares its plan
with the first's and reuses the second's results (evidence of another constraint
is reached there after 13 steps); the responses include a merge that
keeps a value only in the rewording, one that becomes cyclic, and ones that
are stale, incomplete or too long. *Answer:* words of 1 to 9 characters join,
overlap, fill a chunk exactly and are cut in two or three; two commands can
build and query in every order, and one be killed; a final event is repeated
under its own ID, under a new one, as a fragment and as the whole text; budgets
are too small and ample; conflicting passages are ranked by date, by authority
and not at all; three records are full after one answer of two claims, so that
the second update evicts; a patch renames the intent of claims it keeps, drops or
leaves alone. Two slots take TLC more than the time of the other runs together;
the theorems are about any number.

**Fairness.** `Scheduler`: weak fairness of every request's task, timeout and of a
free thread taking queued work, because asyncio runs every ready task and due
timer and the thread pool takes queued work in order. That a search returns is
never assumed; `AllResolved` has it as an explicit premise (`SearchesReturn`),
since a search that hangs keeps its place for good (`_observe_late` waits
without a limit). `StreamSession` adds the steps of `finish` and the return of
searches, and gives the deadline of `finish` no fairness: that it ends does not
rest on its timeout. `Phase4Session`: fairness of the result consumers only,
because each waits at most `final_wait_timeout_s` for its request; nothing is
assumed of searches, callers or generations. `MultiIntent`: some running call
takes its next step; the provider call has a timeout (`asyncio.wait_for`), which
is why `TimesOut` is always possible, and searches of a call are assumed to
return (an exception is one of their outcomes). `Answering`: fairness of the
event loop's steps (`GenerationStep`), among them the expiry of a timer; the
provider's threads may hang for ever.

**Mutants.** Definitions named `...Bug` are plausible mistakes in the definition
they precede (a dropped check, a promoted request left in the queue, a result
that revives a plan, a count not added up). Every property is violated under
the mutant PROJECT.json names for it, in its own run.

## Proofs

The theorems hold for every set of queries, intents, passages and generations
and all bounds; assumptions are only the named ones of the modules (bounds are
natural numbers, limits positive, as the configuration's validators demand,
intents finite). Each proof has one step per action, and a lemma for what a
helper does to the fields it changes.

**`Scheduler_proofs`.** The safety properties are not inductive: that a request is
not lost depends on where its task can be when it is superseded, and that no
place is idle on how many promotions a removal makes room for. `IInv` is

- `TypeOK`;
- `Placed`: where a request can be, field by field (unallocated, queued, with a
  task, draining, resolved; what its future can be in each);
- `StatusHonest`;
- `Capacity`: `active` is at most `MaxPending` and equal to it while something is
  queued, and the queue keeps its own bound.

`Placed` is closed under every step with `TypeOK` alone, `Capacity` needs both
and the cardinality theorems. `TypeCorrect`, `WorkIsBounded`, `NothingLost`,
`NoIdlePlace`, `QueueAlwaysLive`, `CancelledStaysCancelled` and `HonestStatus`
follow; `ResultsAreFinal` and `ClosedIsSilent` are the two action properties.

**`StreamSession_proofs`.** `SchedulerStep` shows that a session drives the scheduler
only by the scheduler's own actions, so `SessionUsesScheduler` (`SessionSpec =>
Spec`) carries every theorem over. `SInv` adds that accepted results are
published (`AcceptedInv`), that evidence is exactly the accepted result of the
newest revision (`EvidenceInv`, both directions: `finish` reuses by looking at
results, not at the controller's evidence), and where `finish` can be
(`FinishInv`). `EvidenceNeverStale`, `AnswerFromCurrentEvidence` and the
refinement `SessionImplementsGate` follow. `GivingUpIsJustified` needs `GiveUpInv` on
top of these: only the newest request is live (`OneLive`), what was asked for is
remembered while the text changes (`AttemptedInv`), `finish` waits for a request that nothing
supersedes (`AwaitInv`), and the recovery flag means that a search failed
(`RecoveryInv`). Its premise is duplicate suppression, which the property is about.

**`Phase4Session_proofs`.** A step changes plans in one of few ways: it withdraws
some, makes one, records one task's end or dispatches one plan's tasks; each has
a lemma. `Phase4Inv` is

- `Phase4TypeOK` and `ReferencesValid` (inductive with the types alone): evidence and
  claims are of active intents, and there are claims only with evidence to cite and
  an answer they belong to. That the cited evidence is *about* the claim is no
  check of `publish_answer`, and no part of it;
- `PlanInv`: a plan is not newer than the session and only an older one is
  superseded (`PlanAge`), tasks belong to plans, `PlanHonest`, the candidate's plan
  asks only about active intents (`CandidateAsked`), `PendingPlanCurrent`;
- `WorkInv`: every consumer has a task, and `RunningIsObserved`. It needs
  `CandidateAsked`: a consumer dies when its intent is gone, and only that
  condition excludes it for the candidate's plan;
- `GenerationInv`: a generation's base is not newer than the session, and at its
  base revision evidence has only been added.

From it follow the invariants of `phase4_session` and its three action
properties `SupersededIsFinal`, `AdmittedFromCandidate` and `AnswerIsTheNewest`.
`SessionImplementsRecords` maps every step to one of `SessionRecords` or to a
stutter. `SemanticOfRecords` does it for a patch of each kind; `NothingSought` is why
every other new revision ends the search (`PlanAge`: a plan's name is the revision
that made it, and there is none of the next one); `SoughtUnchanged` says that
dispatching and recording never add a task to a plan or take one away, however
late they come, so that the evidence a consumer admits was sought.

**`SelectiveUpdate_proofs`.** First the shape of what the interpreter can propose
(`PatchShape`, one lemma per kind), then what each record becomes. `Inv` is the
types, `NoneFromLater` (no intent's ID is from a later revision, so renewed
intents are new), `ClaimsStand`, and two facts the analysis relies on without
checking them: evidence found under constraints was found for one intent, and
they concern it (`FoundForOne`); a claim depends on every constraint its evidence
was found under (`DepsConcern`). Without the last, a claim could be preserved
whose evidence is dropped. `ClaimsAlwaysStand` and `UpdatesAreSelective` follow:
a patch leaves no answered intent with nothing, and drops no claim it does not
concern. `UpdateImplementsRecords` needs besides that plans are of revisions there
have been and that no evidence is for nothing (`PlanInv`): `RecordsKept` says what
becomes of the intents of all evidence and all claims, `RetrievedIsSelective` that
the analysis looks for every intent left alone that loses its claims and for none
that had no claim, and `PublishedClaims` that an answer forgets no claim. The two
refinements were also model-checked on the instances of `phase4_session` and
`phase4_update`; their state spaces are those of these runs.

**`AnswerHistory_proofs`.** The inductive invariant `RecordsOK` is stated over the members
of the lists and not over places, so that it survives eviction:

- `Shaped`, `EvidenceKept`, `ClaimsKept`: types, IDs that are not repeated, revisions
  not from the future;
- `CurrentStands`: what is current rests on what is current;
- `VersionsKept`, `CurrentPublished`, `PublishedKept`: version numbers, that a current
  claim is one of the current version with the same statement and questions, though
  not the same intent IDs, and what is kept of its claims and evidence;
- `CurrentNamed`: a current claim names its intents by the IDs the session gives them
  now, so that two current claims of one matter have one signature;
- `AllExplained`: `VersionsExplained` for every pair of versions still kept.

`WriteKeeps` treats every write at once: if what is handed to `_write` has the
invariant, so has what `_bounded` makes of it, and a refusal by the contract
implies `Crowded`. What remains is a lemma per operation that hands something to
it. `PublishClaims` needs most: the reconciliation is a fold over the offered claims, and that
each gets one entry, that no parent is used twice and that digests are fresh is
shown by induction over the answer (`FoldRuns` of `Recursion`); carried claims complete
the entries. `HistoryInvariance` is the result.

**`Answering_proofs`.** *Chunks:* `ChunkInv` says what the loop of `_split_by_size` means
between two words: the current chunk follows the newest piece (`CurrentFollows`),
or all that was read is in pieces (`AllFlushed`), or a part of a cut word is
(`PartFlushed`). `ChunksAlwaysHoldTheText`: for every paragraph, limit and overlap
no text is lost and no chunk is too long. *Index:* `IndexInv`: a query that is
under way has seen what the corpus holds now (`SeesCorpus`), so what it was
matched with is among what it has seen (`MatchedAsSeen`), and a served one could
read its index; any command may end at any point. *Transcript:* `RecordsInv`: numbers
never fall, the same number or ID is the same event (`RecordsOrdered`), and a mark
says what came before (`RecordsMarked`: after the final event everything is its
repetition, and an identical replay has its original among the unmarked).
`DeliveryInv`: as long as the controller did not raise it has seen exactly what was
delivered and holds the same text as the baseline (`Following`); both hold what the
unmarked events delivered so far say (`SaidUpTo(Spoken(...))`), where the gaps between
their numbers say nothing. `ReplayIsFaithful` says the same of the *set* of events,
without marks, order or copies; `AllIsSaid` closes that gap. *Evidence:*
`AssemblyInv`: no passage is selected twice because its owners are covered
(`SelectionHolds`), before its turn an intent's predecessors hold one passage each
and no more than their share (`SharesKept`), and who was passed over never fits
again, since room is only taken (`PassedOver`). It needs that fused lists hold every
hit once: keys are totally ordered (`SmallerIs`, `EarlierRuns`), so the number of
predecessors is a bijection onto places (`Placed`); and that tokens add up
(`SumGrows`, sums over sets by `ExistsBySize`). *Answer:* `CallsInv`: calls not
counted yet are those of the round under way, and what is counted fits in the
rounds before; `DraftInv`: a draft waiting for its verification is valid and was
not overtaken before; `Waiting`: the stages before "answer" leave the generator as
it is. The invariants are carried through the stages, as is that of
`AnswerHistory`, which only `Remember` writes. `ChunksAlwaysSound`,
`QueriesServedAsAsked`, `ReplayAlwaysFaithful`, `AssemblyAlwaysFair`, `CallsAlwaysAccounted`,
`OnlyVerifiedPublished`, `AnswerAlwaysKept` and `VersionsAlwaysExplained` follow. The precedence part of `OnlyVerifiedClaims` rests on
lemmas about `Retained` and `FinalClaims` alone.

**`MultiIntent_proofs`.** `MultiInv`: the latest plan and the last decomposition have one
revision (`KeysAgree`), which makes the comparison with the latest plan one with
the last decomposition; `LastOnlyMovesOn` follows. `SharedInv` adds what the calls,
the cache and the results have in common:

- `CallsKnown`, `Numbered`, `Located`, `OwnerAdds`: a call works on a plan in the cache,
  retrieval numbers are not given twice, and who holds the lock adds a plan that
  is not there yet, so that none is replaced under a call;
- `Ordered`: calls are made for revisions in order, whatever order they run in;
- `PlansOK`: every plan keeps its transcript's values and is acyclic, for every
  provider answer, merge and repair, and preserves only intents of its base, a
  plan of an earlier revision;
- `ResultsOK`, `AllKeptOK`: results follow the dependencies of their plan, and the
  items a search takes over are those of the retrieval before its own;
- `AllTraced`: every outcome goes back, through retrievals that each preserved its
  intent, to the search that found it, and either every one of them was compared
  with the plan whose result it read, so that the intent never changed, or one
  was compared with an older plan (`Predecessor` excludes a newer one).

That `Waves` gives every intent an outcome and respects the dependencies needs
that its recursive functions exist, which `Recursion` shows (`ExistsBySize`: over the
intents still to be served). `PlansKeepRequest`, `OutcomesFollow` and
`ReuseHasOneSource` follow.

**`Recursion`.** The library's induction theorems take an operator as a parameter,
which the provers cannot instantiate. This module states induction over numbers
and finite sets as facts about sets, and takes the operator as a CONSTANT, so that a
module reasons about a recursive definition by instantiating it: `ChosenIs` (the
recursive function exists and equals its definition), `FoldRuns` (a fold is its
step applied to the elements in order).

**Only model-checked:** the liveness properties (`ActiveResolved`, `AllResolved`,
`FinishReturns`, `PlanSettles`, `EveryCallEnds`, `Answered`), which rest on fairness and
`ENABLED`, outside what TLAPS proves here; and the five refuted claims. No module declares a
recursive operator.

## Divergences

Five have a run that refutes the documented claim.

- **`supersede_all` leaves a request alive** (`scheduler.py:332`, run
  `supersede_all`). Its docstring: "Mark every outstanding request obsolete". It
  walks a snapshot of the active set; cancelling a request that has not started
  promotes a queued one, which is then in neither the snapshot nor the queue.
- **The final recovery after a failed request is never tried** (`scheduler.py:940`,
  run `session_recovery`). The flag that bounds it is set without scheduling, and
  the next iteration returns because of the flag.
- **Formatting a partial answer makes it "current"** (`phase4.py:4522`, run
  `phase4_qualified`). `publish_presentation` passes the status "completed" with
  the unresolved intents it keeps.
- **A consumer can end without a record** (`phase4.py:5577`, run `phase4_records`).
  When its intent was replaced, `next()` raises out of the coroutine, and the late
  result is not recorded as discarded.
- **A dependent question reuses evidence of a replaced prerequisite**
  (`multi_intent.py:3066`, run `multi_intent_reuse`). Only intents of the previous
  plan count as changed, so a prerequisite that is new affects nobody.

Seen while modelling, without a run (the models behave as the code does, and
where a property has an exception for one of these, it is named):

*Streaming*

- `retrieval_call_count` counts attempts that were cancelled before they ran
  (`scheduler.py:145`), where its docstring and `phase2-streaming.md:168` say
  "actual backend calls".
- Searches that hang keep their places, so a parallel queue can wait for ever
  behind them; only `close` ends it.
- A final event repeated under a new ID as a fragment is accepted by
  `normalize_transcript`, and the controller raises on it: one compares with the
  final event, the other with the assembled text (exception in
  `ReplayIsFaithful`). A delayed identical duplicate is refused by the normaliser.

*Multi-intent and generation*

- Evidence found for another constraint can be reused, where `docs/phase3.md:34`
  says "Unchanged intent IDs/fingerprints may reuse their isolated retrieval work;
  changed constraints and affected dependents are superseded". A search decomposes,
  reads the previous result and publishes under three holds of the lock. Take
  three calls, the first and the third with the same constraint, the second with
  another: the first ends, the third decomposes and is compared with the first's
  plan, which preserves the intent; then the second decomposes and publishes, and
  the third reads the second's result. The intent's ID is its question alone
  (`multi_intent.py:257`), so it finds the ID there and reuses evidence of the other
  constraint (`multi_intent.py:3080`, `:3103`). `ReuseIsTraced` has this as its last
  disjunct (`Overtook`) and says that there is no other way.
- The final decomposition can run before an older revision's slow provider
  answers; that call's plan is then compared with no previous one and preserves
  nothing. `DependentsFollow`, a claim that is refuted in any case, has the
  premise `InOrder`, so that its trace owes nothing to calls that overtake.
- The coverage pass of `_assemble_evidence` may spend an intent's turn on a
  candidate that is not aligned with it.
- `final_claims` falls back to all supported claims (`synthesis.py:1131`), so that
  claims resting only on superseded passages are published when no claim
  stands, and an intent can count as answered without a claim
  (`docs/phase3.md:103-108`). One conflicting pair makes all other passages
  "superseded". Verdicts are looked up by claim ID, and of two claims with one ID
  both get the last verdict (premise `DistinctIds`). After the verifier's await
  nothing asks `is_superseded` again (Phase 4 does, `phase4.py:4875`). A unified
  request that went stale reports no attempts (exception in `EveryCallAccounted`).

*Phase 4 updates*

- A semantic patch supersedes only the pending update's plan. After an answer
  was published, an older running plan stays "running"
  (`phase4-session-state.md:101`: "a newer candidate supersedes all older work for
  that session").
- `execute_plan` of a plan that is no longer the candidate and was never dispatched
  sets it "running" (the comment at `phase4.py:3462` expects "a blocked terminal
  branch").
- `record_evidence` clears the claims and leaves `answer_status` as it is.
- A retrieval still outstanding for an intent the newer patch did not touch is
  withdrawn with its plan and not asked again.
- When a constraint is replaced, sufficiency is judged from passage texts
  (`phase4.py:2328`) before evidence that names the replaced record is dropped
  (`phase4.py:2371`): an intent can end without evidence, claim or task while the
  plan is "completed" (exception in `NoneStranded`).
- The claim check near `phase4.py:2438` compares dependency values with the old
  entity values without asking that the entity changed, so unrelated claims can
  be invalidated (exception in `Undisturbed`); a question patch with several
  questions may add a shared constraint that affects nobody.
- After `clear` and `create_session` under one ID a generation of the old life can
  match the new one's revision (`phase4.py:1876`) and be published; `ClaimsStand`
  still holds. Publication rebinds claims to the latest record of a passage,
  whatever intents that serves.

*Answer versions*

- When current and published records together exceed `max_records_per_session`,
  `_bounded` cuts records that are in use (`phase4.py:1647`): claims of the
  publication disappear, or the contract's validation raises out of the write
  although `_assert_active_bounds` passed, and the request stays pending
  (`AnswerIsKept` calls this "crowded").
- `record_evidence` of the same passage twice in one retrieval revision raises a
  validation error ("repeated").
- `phase4-session-state.md:119-121` says "Unchanged claims retain their stable IDs.
  Material changes receive a new claim ID and a `modified` change record". Neither
  half holds always. A claim that a patch keeps gets the new IDs of its revised
  intents (`phase4.py:3025`, `:3069`), which are part of its signature (`:313`): the
  next publication carries it under its old claim ID and records it as "modified"
  (`:4207`), although it says and answers the same. And a claim stated again
  unchanged after `record_evidence` had cleared the claims counts as preserved,
  but under a new ID (`:3986`). `VersionsExplained` says what is left: an ID in both
  versions is one statement about one question, so a claim is modified under its
  ID only by the renaming of its intents; only claims that are still current keep
  their ID for sure; and "preserved" is recorded whenever the claim of the parent
  that a change names has the same signature.
- `old_by_record_id.get(record.claim_id)` (`phase4.py`, near 4212) looks up a claim
  ID among record IDs and never finds one. After eviction a claim ID can be given
  again; an answer that repeats a claim exactly makes equal record IDs, which the
  contract refuses (`Offers` has no exact repeats).

*Index*

- Builders that overlap can replace each other's index without `--force`, because
  what exists is looked at before the write; an index that does not load is not
  replaced even with `--force`.

## Not modelled

- LRU eviction between sessions; the bounds of the constraint, plan and audit
  lists; unresolved intents and qualification texts beyond one flag; usage
  counters, pending request lists and trace events.
- The revision counters of transcript and retrieval inside a Phase 4 state, where
  they move with the state revision.
- Patches built by hand that the interpreter never proposes, and `apply_patch` of
  the coordinator called outside an event loop.
- What text analysis decides: thresholds, token overlap, constraint signatures,
  clause splitting, lexical verification, the classification of follow-ups. Where
  a decision of it drives control it is a choice, a constant, or part of the data.
- Temporary files left by killed builds; file formats, hashing, the splitting of a
  document into paragraphs (`chunk_text` splits each one by itself and merges
  none), the optional reranker.
- HTTP, prompts, scoring with floating point, evaluation and audit, presentation
  and translation, wall-clock pacing, argument parsing. `PROJECT.json` lists every
  component with its status.

## Plan

Done, most important first: the scheduler, the streaming session above it,
Phase 4's control, its records, multi-intent retrieval, the way from corpus to
answer, and the history of answers. What is left:

1. `AnswerHistory`'s `Patch` against `ApplyPatch`, as `SelectiveUpdate` and
   `Phase4Session` are compared by way of `SessionRecords`.
2. Several sessions with LRU eviction, and runtimes evicted with them.
