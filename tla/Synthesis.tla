----------------------------- MODULE Synthesis -----------------------------
(***************************************************************************)
(* Generating an answer (generation.py, synthesis.py): the provider is     *)
(* called with retries and repairs from a daemon thread that may outlive   *)
(* its timeout, its output is validated against the supplied passages,     *)
(* verified, and reduced by the precedence of conflicting passages.        *)
(*                                                                         *)
(* "unified" is a request with a decomposition (synthesize_unified_answer),*)
(* "grounded" one without (generate_grounded_answer).  A draft is the      *)
(* sequence of claims in an output; what the verifier finds wrong with a   *)
(* claim is part of it.                                                    *)
(***************************************************************************)
EXTENDS Integers, Sequences, FiniteSets, FiniteSetsExt

CONSTANTS
  Question, Passage,
  Conflict,             \* pairs of passages that contradict each other
  Dated, Authority,     \* source date and authority of a passage, 0 if unknown
  Drafts,               \* what a provider may claim
  MaxRetries, MaxRepairs

Flaw == {"other entity", "other intent", "contradiction", "no overlap"}
Claim == [id : STRING, cites : SUBSET Passage, about : SUBSET Question, flaws : SUBSET Flaw]
ASSUME SynthesisAssumption ==
  /\ Conflict \subseteq Passage \X Passage
  /\ Dated \in [Passage -> Nat] /\ Authority \in [Passage -> Nat]
  /\ \A d \in Drafts : d \in Seq(Claim)
  /\ MaxRetries \in Nat /\ MaxRepairs \in Nat

VARIABLES
  mode,
  phase,       \* "off", "entry", "ready", "calling", "backoff", "verify", "done"
  supplied,    \* the questions each supplied passage is evidence for
  round,       \* repair_number
  attempt,     \* attempts of the current _call_with_retries
  calls,       \* provider calls made (a history)
  counted,     \* total_attempts
  threads,     \* provider threads still running, by their call
  reply,       \* what the awaited call has posted to the loop, and from which call
  draft,       \* the validated output
  overtaken,   \* the phase in which is_superseded became true, "no" before
  outcome

synthesisVars ==
  <<mode, phase, supplied, round, attempt, calls, counted, threads, reply, draft, overtaken, outcome>>
loopVars == <<round, attempt, calls, counted, threads, reply>>

Nothing == [passage \in {} |-> {}]
NoReply == [kind |-> "none", draft |-> <<>>, call |-> 0]
NoOutcome ==
  [status |-> "none", claims |-> {}, answered |-> {}, attempts |-> 0, repairs |-> 0, from |-> 0]

SynthesisInit ==
  /\ mode = "unified" /\ phase = "off" /\ supplied = Nothing
  /\ round = 0 /\ attempt = 0 /\ calls = 0 /\ counted = 0
  /\ threads = {} /\ reply = NoReply /\ draft = <<>>
  /\ overtaken = "no" /\ outcome = NoOutcome

Returns(result) == phase' = "done" /\ outcome' = result
Stale(attempts) == [NoOutcome EXCEPT !.status = "stale_rejected", !.attempts = attempts, !.repairs = round]
\* The unified path raises StaleGenerationError, and its counts are lost.
StaleAnswer(attempts) ==
  IF mode = "unified" THEN [NoOutcome EXCEPT !.status = "stale_rejected"] ELSE Stale(attempts)

---------------------------------------------------------------------------
\* The boundary keeps what is aligned and of the right entity
\* (intent_evidence_alignment, check_cross_entity_match,
\* filter_single_query_evidence): some of what was retrieved.
Qualified(kept) ==
  [p \in {pair[1] : pair \in kept} |-> {pair[2] : pair \in {q \in kept : q[1] = p}}]
Pairs(evidence) == {pair \in (DOMAIN evidence) \X Question : pair[2] \in evidence[pair[1]]}

\* Nobody calls the provider without evidence, or for an overtaken request;
\* the two paths ask in different order.
Enter ==
  /\ phase = "entry"
  /\ \E kept \in SUBSET Pairs(supplied) :
       /\ supplied' = Qualified(kept)
       /\ IF overtaken # "no" /\ (mode = "grounded" \/ kept # {}) THEN Returns(StaleAnswer(0))
          ELSE IF kept = {} THEN Returns([NoOutcome EXCEPT !.status = "skipped"])
          ELSE phase' = "ready" /\ UNCHANGED outcome
  /\ UNCHANGED <<mode, loopVars, draft, overtaken>>

\* _call_with_retries: one provider.generate, in a thread of its own.
Call ==
  /\ phase = "ready"
  /\ phase' = "calling" /\ attempt' = attempt + 1 /\ calls' = calls + 1
  /\ threads' = threads \cup {calls + 1} /\ reply' = NoReply
  /\ UNCHANGED <<mode, supplied, round, counted, draft, overtaken, outcome>>

\* run_in_daemon_thread: the thread of the awaited call posts its result; a
\* thread whose call was given up finds the future cancelled.
ThreadEnds(n) ==
  /\ n \in threads /\ threads' = threads \ {n}
  /\ IF n = calls /\ phase = "calling"
     THEN \/ reply' = [kind |-> "malformed", draft |-> <<>>, call |-> n]
          \/ reply' = [kind |-> "retryable", draft |-> <<>>, call |-> n]
          \/ reply' = [kind |-> "fatal", draft |-> <<>>, call |-> n]
          \/ \E d \in Drafts : reply' = [kind |-> "draft", draft |-> d, call |-> n]
     ELSE UNCHANGED reply
  /\ UNCHANGED <<mode, phase, supplied, round, attempt, calls, counted, draft, overtaken, outcome>>

\* No (further) retry: the answer is abandoned, the attempts count.
\* Mutant: they do not.
GiveUpBug ==
  /\ counted' = counted
  /\ Returns([NoOutcome EXCEPT !.status = "abstained", !.attempts = counted, !.repairs = round])
  /\ UNCHANGED <<mode, supplied, round, attempt, calls, threads, reply, draft, overtaken>>
GiveUp ==
  /\ counted' = counted + attempt
  /\ Returns([NoOutcome EXCEPT !.status = "abstained", !.attempts = counted + attempt, !.repairs = round])
  /\ UNCHANGED <<mode, supplied, round, attempt, calls, threads, reply, draft, overtaken>>
Backoff ==
  /\ phase' = "backoff"
  /\ UNCHANGED <<mode, supplied, loopVars, draft, overtaken, outcome>>
Retry == IF attempt <= MaxRetries THEN Backoff ELSE GiveUp

\* wait_for: the time may run out even when the result is posted already.
\* Mutant: the call is awaited until its thread ends.
TimesOutBug == phase = "calling" /\ reply.kind # "none" /\ Retry
TimesOut == phase = "calling" /\ Retry
Fails ==
  /\ phase = "calling"
  /\ \/ reply.kind = "retryable" /\ Retry
     \/ reply.kind = "fatal" /\ GiveUp
BackoffEnds ==
  /\ phase = "backoff" /\ phase' = "ready"
  /\ UNCHANGED <<mode, supplied, loopVars, draft, overtaken, outcome>>

\* An output that does not parse or cites what was not supplied is repaired.
Valid(d) == \A k \in DOMAIN d : d[k].cites # {} /\ d[k].cites \subseteq DOMAIN supplied
Repair ==
  /\ IF round < MaxRepairs
     THEN phase' = "ready" /\ round' = round + 1 /\ UNCHANGED outcome
     ELSE /\ Returns([NoOutcome EXCEPT !.status = "abstained", !.attempts = counted', !.repairs = round])
          /\ UNCHANGED round
  /\ UNCHANGED draft

Claims(d) == {d[k] : k \in DOMAIN d}
\* Without a decomposition the validated claims are the answer.
Answer(d) ==
  Returns([NoOutcome EXCEPT !.status = IF d = <<>> THEN "abstained" ELSE "success",
                         !.claims = Claims(d), !.attempts = counted', !.repairs = round,
                         !.from = reply.call])

\* The awaited call returned: was the request overtaken?
Judge ==
  /\ phase = "calling" /\ reply.kind \in {"draft", "malformed"}
  /\ counted' = counted + attempt /\ attempt' = 0
  /\ IF overtaken # "no"
     THEN Returns(StaleAnswer(counted')) /\ UNCHANGED <<round, draft>>
     ELSE IF reply.kind = "draft" /\ Valid(reply.draft)
     THEN /\ draft' = reply.draft
          /\ IF mode = "grounded" THEN Answer(reply.draft) ELSE phase' = "verify" /\ UNCHANGED outcome
          /\ UNCHANGED round
     ELSE Repair
  /\ UNCHANGED <<mode, supplied, calls, threads, reply, overtaken>>

---------------------------------------------------------------------------
\* RuleBasedSemanticVerifier: a flaw makes a claim unsupported.  The verdicts
\* are then looked up by claim ID, where the last one with an ID stays.
Supported(d) ==
  {d[k] : k \in {j \in DOMAIN d : d[Max({h \in DOMAIN d : d[h].id = d[j].id})].flaws = {}}}

\* resolve_conflicting_evidence: the passages that stand, none if unresolved.
Top(passages, rank) == {p \in passages : \A q \in passages \ {p} : rank[q] < rank[p]}
Ranked(passages, rank) == (\A p \in passages : rank[p] # 0) /\ Top(passages, rank) # {}
Standing(passages) ==
  IF ~\E p, q \in passages : <<p, q>> \in Conflict THEN passages
  ELSE IF Ranked(passages, Dated) THEN Top(passages, Dated)
  ELSE IF Ranked(passages, Authority) THEN Top(passages, Authority)
  ELSE {}

EvidenceFor(q) == {p \in DOMAIN supplied : q \in supplied[p]}
ClaimsAbout(claims, q) == {c \in claims : q \in c.about}
IsAsked(claims, q) == EvidenceFor(q) # {} /\ ClaimsAbout(claims, q) # {}
Resolved(claims, q) == IsAsked(claims, q) /\ Standing(EvidenceFor(q)) # {}
\* claims_by_intent after the precedence rules.
Retained(claims, q) ==
  IF Resolved(claims, q)
  THEN {c \in ClaimsAbout(claims, q) : c.cites \cap EvidenceFor(q) \subseteq Standing(EvidenceFor(q))}
  ELSE ClaimsAbout(claims, q)
\* Mutant: every supported claim is final.
FinalClaimsBug(claims) == claims
\* final_claims: retained for some question, or else all that are supported.
FinalClaims(claims) ==
  LET kept == {c \in claims : \E q \in c.about : c \in Retained(claims, q)}
  IN  IF kept = {} THEN claims ELSE kept

Publish ==
  /\ phase = "verify"
  /\ LET supported == Supported(draft)
         final == FinalClaims(supported)
     IN  Returns([status |-> IF final = {} THEN "abstained" ELSE "success",
               claims |-> final, answered |-> {q \in Question : Resolved(supported, q)},
               attempts |-> counted, repairs |-> round, from |-> reply.call])
  /\ UNCHANGED <<mode, supplied, loopVars, draft, overtaken>>

\* A verifier that raises: the callers answer that generation failed.
VerifierFails ==
  /\ phase = "verify"
  /\ Returns([NoOutcome EXCEPT !.status = "failed"])
  /\ UNCHANGED <<mode, supplied, loopVars, draft, overtaken>>

\* A newer revision arrives.
Overtake ==
  /\ phase \notin {"off", "done"} /\ overtaken = "no"
  /\ overtaken' = phase
  /\ UNCHANGED <<mode, phase, supplied, loopVars, draft, outcome>>

LoopStep ==
  Enter \/ Call \/ TimesOut \/ Fails \/ BackoffEnds \/ Judge \/ Publish \/ VerifierFails
SynthesisNext == LoopStep \/ Overtake \/ \E n \in threads : ThreadEnds(n)

---------------------------------------------------------------------------
\* The provider is called within the budget of retries and repairs, every call
\* is reported with the answer (except by a unified request that went stale,
\* or when the verifier fails), and what is published is the output of the
\* last call: the late result of a call that was given up is never taken for
\* the one awaited (_call_with_retries, run_in_daemon_thread).
EveryCallAccounted ==
  /\ calls <= (MaxRetries + 1) * (MaxRepairs + 1)
  /\ phase = "done" =>
       /\ outcome.status = "failed" \/ (outcome.status = "stale_rejected" /\ mode = "unified")
            \/ outcome.attempts = calls
       /\ outcome.claims # {} => outcome.from = calls
       /\ outcome.repairs <= MaxRepairs

\* A published claim cites supplied passages and, for a unified request whose
\* claims have distinct IDs, was verified; a request overtaken before its
\* output was judged publishes nothing; and as long as some supported claim
\* stands, none is published that rests, for all its questions, on passages
\* the precedence rules superseded (synthesize_unified_answer).
DistinctIds == \A j, k \in DOMAIN draft : draft[j].id = draft[k].id => j = k
Superseded(c) ==
  /\ c.about # {}
  /\ \A q \in c.about : /\ Standing(EvidenceFor(q)) # {}
                        /\ \E p \in c.cites \cap EvidenceFor(q) : p \notin Standing(EvidenceFor(q))
OnlyVerifiedClaims ==
  outcome.claims # {} =>
    /\ overtaken \in {"no", "verify"}
    /\ \A c \in outcome.claims : c.cites \subseteq DOMAIN supplied
    /\ mode = "unified" /\ DistinctIds =>
         /\ \A c \in outcome.claims : c.flaws = {}
         /\ (\E c \in Claims(draft) : c.flaws = {} /\ c.about # {} /\ ~Superseded(c)) =>
              ~\E c \in outcome.claims : Superseded(c)

\* Every request gets its outcome, however often the provider hangs: under
\* fairness of the event loop alone.
Answered == (phase = "entry") ~> (phase = "done")
=============================================================================
