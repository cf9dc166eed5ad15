--------------------------- MODULE SelectiveUpdate ---------------------------
(***************************************************************************)
(* What a follow-up patch does to the records of a Phase 4 session         *)
(* (phase4.py): the projection of intents and constraints, the dependency  *)
(* analysis, the rebinding of what survives, and the publication of claims *)
(* against it.  Module Phase4Session has the control around these steps    *)
(* and leaves the analysis open; here it is computed.                      *)
(*                                                                         *)
(* A record is its content: an intent is a slot and the revision that gave *)
(* it its ID, a constraint its owner and value, evidence its passage, the  *)
(* intents it serves and the constraints it was found under, a claim its   *)
(* ID, intents, support, constraints and the claims it summarises.  Only   *)
(* current records are kept.  Of a passage it matters which values it      *)
(* mentions.                                                               *)
(***************************************************************************)
EXTENDS Integers, FiniteSets

CONSTANTS
  Slot,        \* information needs a session can have
  Passage,     \* passages of the corpus
  Value,       \* values of constraints
  Selected,    \* those of kind "entity"
  Mentions,    \* the values a passage mentions
  ClaimId,
  Shared,      \* the owner of a shared constraint
  NoDraft,
  MaxRevision, \* bound on state_revision
  MaxConstraints, MaxEvidence, \* bounds on the initial constraints and current evidence
  MaxAsked     \* bound on the constraints that come with new questions

ASSUME SelectiveAssumption ==
  /\ Selected \subseteq Value
  /\ Mentions \in [Passage -> SUBSET Value]
  /\ MaxRevision \in Nat /\ MaxConstraints \in Nat /\ MaxEvidence \in Nat
  /\ MaxAsked \in Nat
  /\ Shared \notin Slot \X (0..MaxRevision)

VARIABLES
  rev,         \* state_revision
  intents,     \* active_intents
  constraints, \* current_constraints
  evidence,    \* current_evidence
  claims,      \* current_claims
  plan,        \* the newest selective update plan
  draft        \* expected_revision of an answer being generated

vars == <<rev, intents, constraints, evidence, claims, plan, draft>>

Ids(C) == {c.id : c \in C}
Entity(C) == {c \in C : c.value \in Selected}
\* The constraints that concern one of the intents in S.
Concerning(S, C) == {c \in C : c.owner \in S \cup {Shared}}

NoPlan == [kind |-> "none", candidate |-> 0, affected |-> {}, retrieve |-> {}]

\* The constraints a new session can start with.
Initial(S) ==
  {C \in SUBSET [owner : (S \X {0}) \cup {Shared}, value : Value] :
     Cardinality(C) <= MaxConstraints}

\* create_session
Init ==
  /\ rev = 0
  /\ \E S \in (SUBSET Slot) \ {{}} : \E C \in Initial(S) : intents = S \X {0} /\ constraints = C
  /\ evidence = {} /\ claims = {} /\ plan = NoPlan
  /\ draft = NoDraft

-----------------------------------------------------------------------------
(* A patch: its kind, the intents it revises, the slots of the intents it  *)
(* adds, the constraints it removes, those it replaces and by what, and    *)
(* those it adds.                                                          *)

Changes(p) == p.removed \cup DOMAIN p.replaced \cup p.added
Renewed(i) == <<i[1], rev + 1>>
\* old_to_new.get(i, i)
After(p, i) == IF i \in p.targets THEN Renewed(i) ELSE i

SharedChange(p) == \E c \in Changes(p) : c.owner = Shared

\* _validate_patch_against_state: what each kind of patch must and must not
\* contain.  A patch of the interpreter replaces the intents it targets.
Admissible(p) ==
  /\ p.targets \subseteq intents
  /\ p.removed \cup DOMAIN p.replaced \subseteq constraints
  /\ CASE p.kind = "add_question" ->
            p.targets = {} /\ p.fresh # {} /\ p.removed = {} /\ DOMAIN p.replaced = {}
       [] p.kind = "change_topic" ->
            p.targets = {} /\ p.fresh # {} /\ p.removed = {} /\ DOMAIN p.replaced = {}
       [] p.kind = "add_constraint" ->
            p.added # {} /\ p.removed = {} /\ DOMAIN p.replaced = {}
       [] p.kind = "replace_constraint" ->
            DOMAIN p.replaced # {} /\ p.added = {} /\ p.removed = {}
       [] p.kind = "remove_constraint" ->
            p.removed # {} /\ p.added = {} /\ DOMAIN p.replaced = {}
  /\ p.kind \in {"add_constraint", "replace_constraint", "remove_constraint"} =>
       /\ p.fresh = {} /\ p.targets # {}
       /\ SharedChange(p) => p.targets = intents

\* _project_semantic_transition: the intents and constraints after the patch.
\* A constraint of a revised intent is carried under a new ID.
Carried(p, c) == IF c.owner \in p.targets THEN [c EXCEPT !.owner = Renewed(c.owner)] ELSE c
Mapped(p, c) == Carried(p, IF c \in DOMAIN p.replaced THEN p.replaced[c] ELSE c)
New(p) == {<<s, rev + 1>> : s \in p.fresh}
Intents(p) ==
  New(p) \cup IF p.kind = "change_topic" THEN {} ELSE {After(p, i) : i \in intents}
Projected(p) ==
  {Carried(p, c) : c \in p.added} \cup
    IF p.kind = "change_topic" THEN {} ELSE {Mapped(p, c) : c \in constraints \ p.removed}

-----------------------------------------------------------------------------
(* _analyze_invalidation.                                                  *)

Affected(p) ==
  IF p.kind = "change_topic" THEN intents ELSE p.targets

\* Values of the entities selected by the intents in S, or by all.
EntityValues(S, C) == {c.value : c \in Entity(Concerning(S, C))}
OldEntities(p) == EntityValues(Affected(p), constraints)
NewEntities(p) ==
  EntityValues(IF p.kind = "change_topic" THEN Intents(p) ELSE {After(p, i) : i \in Affected(p)},
               Projected(p))
EntityChanged(p) ==
  IF p.kind = "change_topic" THEN OldEntities(p) \cup NewEntities(p) # {}
  ELSE OldEntities(p) # NewEntities(p)
AffectedEntities(p) ==
  IF EntityChanged(p) THEN Entity(constraints \cup Projected(p))
  ELSE Entity(Changes(p))

Forced(p) == p.kind \in {"remove_constraint", "change_topic"} \/ EntityChanged(p)

\* _evidence_can_reuse_for_intent
Covers(p, e, j) ==
  /\ ~Forced(p)
  /\ \A c \in Concerning({j}, Projected(p)) : c.value \in Mentions[e.passage]
Sufficient(p, i) ==
  i \in p.targets /\ \E e \in evidence : i \in e.intents /\ Covers(p, e, Renewed(i))

\* Evidence that names a changed constraint, or one no longer known.
Dependent(p, e) ==
  \/ ~(e.deps \subseteq constraints)
  \/ e.deps \cap Changes(p) # {}
  \/ EntityChanged(p) /\ e.deps \cap AffectedEntities(p) # {}

\* The intents a passage is kept for (reusable_by_evidence).
Retained(p, e) ==
  IF Dependent(p, e) THEN {}
  ELSE {i \in e.intents : /\ After(p, i) \in Intents(p)
                          /\ i \in Affected(p) => Covers(p, e, After(p, i))}

\* The first pass over the claims.
Lost(p, c) ==
  LET hit == c.intents \cap Affected(p)
  IN  IF hit # {}
      THEN ~(/\ \A i \in hit : Sufficient(p, i)
             /\ \A e \in c.support : hit \subseteq Retained(p, e))
      ELSE \/ \E d \in c.deps : \/ d \in Changes(p) \cup AffectedEntities(p)
                                \/ d.value \in OldEntities(p)
           \/ \E e \in c.support : Retained(p, e) # e.intents

\* The second: what a claim rests on must be in the candidate revision.
Held(p, c) ==
  /\ \A e \in c.support : c.intents \subseteq Retained(p, e)
  /\ \A d \in c.deps : d \in constraints \ p.removed /\ Mapped(p, d) \in Projected(p)

\* Bug: a summary outlives the claims it summarises.
PreservedBug(p) == {c \in claims : ~Lost(p, c) /\ Held(p, c)}
\* The walks along claim edges to a fixed point: what is left is the largest
\* set of claims that stand by themselves and rest on one another.
Preserved(p) ==
  UNION {S \in SUBSET claims :
           \A c \in S : ~Lost(p, c) /\ Held(p, c) /\ c.edges \subseteq Ids(S)}

EntityDependents(p) ==
  IF AffectedEntities(p) = {} THEN {}
  ELSE UNION {c.intents : c \in {c \in claims :
         \E d \in Entity(c.deps) : d \in AffectedEntities(p) \/ d.value \in OldEntities(p)}}

\* Bug: the intents of claims lost along the way are not looked at again.
RetrieveBug(p) ==
  Intents(p) \cap
    (New(p)
     \cup {Renewed(i) : i \in {i \in p.targets : Forced(p) \/ ~Sufficient(p, i)}}
     \cup {After(p, i) : i \in EntityDependents(p)})
\* The intents a task is made for.
Retrieve(p) ==
  Intents(p) \cap
    (New(p)
     \cup {Renewed(i) : i \in {i \in p.targets : Forced(p) \/ ~Sufficient(p, i)}}
     \cup {After(p, i) : i \in EntityDependents(p)}
     \cup UNION {c.intents \ Affected(p) : c \in claims \ Preserved(p)})

-----------------------------------------------------------------------------
(* _apply_semantic_patch: what survives is rebound to the new revision.    *)

ReboundEvidence(p, e) ==
  [e EXCEPT !.intents = {After(p, i) : i \in Retained(p, e)},
            !.deps = {Mapped(p, d) : d \in e.deps \ p.removed} \cap Projected(p)]

ReboundClaim(p, c) ==
  [c EXCEPT !.intents = {After(p, i) : i \in c.intents},
            !.support = {ReboundEvidence(p, e) : e \in c.support},
            !.deps = {Mapped(p, d) : d \in c.deps}]

ApplyPatch(p) ==
  /\ rev < MaxRevision
  /\ Admissible(p)
  /\ rev' = rev + 1
  /\ intents' = Intents(p)
  /\ constraints' = Projected(p)
  /\ evidence' = {ReboundEvidence(p, e) : e \in {e \in evidence : Retained(p, e) # {}}}
  /\ claims' = {ReboundClaim(p, c) : c \in Preserved(p)}
  /\ plan' = [kind |-> p.kind, candidate |-> rev + 1,
              affected |-> Affected(p), retrieve |-> Retrieve(p)]
  /\ UNCHANGED draft

-----------------------------------------------------------------------------
(* Phase4FollowUpInterpreter: the patches it proposes.  What the text says *)
(* is open: the intents it is about, the values it names.                  *)

NoChange == [c \in {} |-> c]
Proposal(kind, targets, fresh, removed, replaced, added) ==
  [kind |-> kind, targets |-> targets, fresh |-> fresh, removed |-> removed,
   replaced |-> replaced, added |-> added]

\* _target_intents: the one a reference resolves to, the only one, or all.
TargetIntents == {{i} : i \in intents} \cup {intents}

\* A value the intents are not constrained by yet: repeating one is left out.
NewTo(T, v) == \A c \in Concerning(T, constraints) : c.value # v

\* _question_patch and _materialize_plan: new intents, each with constraints of
\* its own, and shared ones if the turn asks several questions.  A shared
\* constraint with the value of a current one is a second record in the code,
\* as IDs contain the turn; it is left out.
Asked(S) ==
  {A \in SUBSET [owner : (S \X {rev + 1}) \cup (IF Cardinality(S) > 1 THEN {Shared} ELSE {}),
                 value : Value] : Cardinality(A) <= MaxAsked}
QuestionPatches ==
  UNION {{Proposal("add_question", {}, S, {}, NoChange, A) :
            A \in {A \in Asked(S) : A \cap constraints = {}}} :
           S \in {S \in (SUBSET Slot) \ {{}} : \A i \in intents : i[1] \notin S}}
TopicPatches ==
  UNION {{Proposal("change_topic", {}, S, {}, NoChange, A) : A \in Asked(S)} :
           S \in (SUBSET Slot) \ {{}}}

\* _addition_patch: one record per target, or a shared one if all are meant.
Added(T, v) ==
  IF Cardinality(T) > 1 /\ T = intents THEN {[owner |-> Shared, value |-> v]}
  ELSE [owner : T, value : {v}]
AdditionPatches ==
  {Proposal("add_constraint", t[1], {}, {}, NoChange, Added(t[1], t[2])) :
     t \in {t \in TargetIntents \X Value : NewTo(t[1], t[2])}}

\* _replacement_patch.  A new entity is meant for every intent that selects
\* the same old one; the record it replaces must be the only one of its kind,
\* or the only one; a shared record is replaced for all.
Propagated(T, v) ==
  IF v \notin Selected THEN T
  ELSE T \cup {i \in intents :
                 EntityValues({i}, constraints) \cap EntityValues(T, constraints) # {}}
SameKind(v) == {c \in constraints : c.value \in Selected <=> v \in Selected}
Replaceable(i, v) ==
  LET candidates == Concerning({i}, constraints)
  IN  IF candidates \cap SameKind(v) # {} THEN candidates \cap SameKind(v) ELSE candidates
ReplacementPatches ==
  {LET T   == Propagated(t[1], t[2])
       old == UNION {Replaceable(i, t[2]) : i \in T}
   IN  Proposal("replace_constraint",
                IF \E c \in old : c.owner = Shared THEN intents ELSE T,
                {}, {}, [c \in old |-> [c EXCEPT !.value = t[2]]], {}) :
     t \in {t \in TargetIntents \X Value :
             /\ NewTo(Propagated(t[1], t[2]), t[2])
             /\ \A i \in Propagated(t[1], t[2]) : Cardinality(Replaceable(i, t[2])) = 1}}

\* _removal_patch: the one record that matches.
RemovalPatches ==
  {Proposal("remove_constraint", IF t[2].owner = Shared THEN intents ELSE t[1],
            {}, {t[2]}, NoChange, {}) :
     t \in {t \in TargetIntents \X constraints : t[2] \in Concerning(t[1], constraints)}}

Patches ==
  QuestionPatches \cup TopicPatches \cup AdditionPatches \cup ReplacementPatches
    \cup RemovalPatches

\* A turn that asks back, or asks for another form: the records are untouched.
Aside ==
  /\ rev < MaxRevision /\ rev' = rev + 1
  /\ UNCHANGED <<intents, constraints, evidence, claims, plan, draft>>

-----------------------------------------------------------------------------
(* Evidence and answers.                                                   *)

\* record_evidence: found outside a plan, for any active intents; the claims
\* were not drawn from it.
RecordEvidence ==
  /\ rev < MaxRevision
  /\ \E x \in Passage, S \in (SUBSET intents) \ {{}}, old \in {evidence, {}} :
       /\ Cardinality(old) < MaxEvidence
       /\ evidence' = old \cup {[passage |-> x, intents |-> S, deps |-> {}]}
  /\ rev' = rev + 1
  /\ claims' = {}
  /\ UNCHANGED <<intents, constraints, plan, draft>>

\* record_selective_evidence: for a task of the newest plan, under the
\* constraints that concern its intent.
RecordSelectiveEvidence ==
  /\ plan.candidate = rev
  /\ Cardinality(evidence) < MaxEvidence
  /\ \E x \in Passage, i \in plan.retrieve \cap intents :
       evidence' = evidence \cup {[passage |-> x, intents |-> {i},
                                   deps |-> Concerning({i}, constraints)]}
  /\ UNCHANGED <<rev, intents, constraints, claims, plan, draft>>

\* generate_and_publish up to its await.
Generate ==
  /\ draft = NoDraft /\ rev < MaxRevision
  /\ draft' = rev
  /\ UNCHANGED <<rev, intents, constraints, evidence, claims, plan>>

\* The latest record of each passage supports the claims; which one that is of
\* several is left open.
Latest == {f \in [{e.passage : e \in evidence} -> evidence] :
             \A x \in DOMAIN f : f[x].passage = x}

\* New claims, as publish_answer checks them: their intents are active and
\* their passages current.  It does not compare the two, and a claim may sum up
\* another.
Drafted ==
  UNION {{{[id |-> k, passage |-> from[k], intents |-> about[k], edges |-> sums[k]] : k \in ids} :
           from \in [ids -> {e.passage : e \in evidence}],
           about \in [ids -> {intents} \cup {{i} : i \in intents}],
           sums \in [ids -> {{}} \cup {{k} : k \in ids \cup Ids(claims)}]} :
         ids \in SUBSET (ClaimId \ Ids(claims))}

\* publish_answer: the claims carried along and the new ones, all bound to the
\* current constraints and records.
Publish ==
  /\ rev < MaxRevision
  /\ draft = rev
  /\ \E f \in Latest, new \in Drafted :
       /\ \A c \in new : c.id \notin c.edges
       /\ claims' =
            {[c EXCEPT !.support = {f[e.passage] : e \in c.support},
                       !.deps = Concerning(c.intents, constraints)] : c \in claims}
            \cup {[id |-> c.id, intents |-> c.intents, support |-> {f[c.passage]},
                   deps |-> Concerning(c.intents, constraints), edges |-> c.edges] : c \in new}
  /\ rev' = rev + 1
  /\ draft' = NoDraft
  /\ UNCHANGED <<intents, constraints, evidence, plan>>

\* Any other end of a generation publishes nothing.
Discard ==
  /\ draft # NoDraft /\ draft' = NoDraft
  /\ UNCHANGED <<rev, intents, constraints, evidence, claims, plan>>

\* clear, clear_all or the eviction of the least recently used session, then
\* create_session under the same name while an answer is being generated:
\* revisions start over, and may come to match again.
Recreate ==
  /\ draft # NoDraft
  /\ rev' = 0
  /\ \E S \in (SUBSET Slot) \ {{}} : \E C \in Initial(S) :
       intents' = S \X {0} /\ constraints' = C
  /\ evidence' = {} /\ claims' = {} /\ plan' = NoPlan
  /\ UNCHANGED draft

Next ==
  \/ \E p \in Patches : ApplyPatch(p)
  \/ Aside
  \/ RecordEvidence \/ RecordSelectiveEvidence
  \/ Generate \/ Publish \/ Discard
  \/ Recreate

Spec == Init /\ [][Next]_vars

-----------------------------------------------------------------------------
(* Safety.                                                                 *)

\* What the session holds is consistent after any patch, answer and late
\* result, and in a session created anew: a claim's intents are active, its
\* passages and constraints are current, and so are the claims it summarises.
ClaimsStand ==
  /\ \A c \in constraints : c.owner \in intents \cup {Shared}
  /\ \A e \in evidence : e.intents \subseteq intents /\ e.deps \subseteq constraints
  /\ \A c \in claims :
       /\ c.intents # {} /\ c.intents \subseteq intents
       /\ c.support # {} /\ c.support \subseteq evidence
       /\ c.deps \subseteq constraints
       /\ c.edges \subseteq Ids(claims)

\* The intent i after a patch that affects the intents in A.
Image(i, A) == IF i \in A THEN <<i[1], rev + 1>> ELSE i

\* Nothing falls through: an intent that had a claim and is still asked keeps
\* it, or is retrieved for, or if it was revised has evidence left to answer
\* from again.  (Not so when a constraint is replaced: evidence that names the
\* replaced record is dropped, however well it covers the new value.)
NoneStranded(c, i, A, retrieve) ==
  LET j == Image(i, A)
  IN  j \in intents' =>
        \/ \E d \in claims' : d.id = c.id /\ j \in d.intents
        \/ j \in retrieve
        \/ i \in A /\ (plan'.kind = "replace_constraint" \/ \E e \in evidence' : j \in e.intents)

\* Nothing is done twice: a claim of other intents, on evidence of other
\* intents, that summarises nothing survives unless an entity is involved.
Undisturbed(c, A) ==
  /\ c.intents \cap A = {} /\ c.edges = {} /\ Entity(c.deps) = {}
  /\ \A e \in c.support : e.intents \cap A = {} /\ c.intents \subseteq e.intents
SiblingKept(c, A) == Undisturbed(c, A) => \E d \in claims' : d.id = c.id

\* A patch updates exactly what depends on it: no claimed intent is left
\* without claim, evidence and retrieval, and no claim is lost that has nothing
\* to do with the change.
UpdateIsSelective ==
  [][plan'.candidate = rev + 1 /\ plan' # plan =>
       \A c \in claims :
         /\ \A i \in c.intents : NoneStranded(c, i, plan'.affected, plan'.retrieve)
         /\ SiblingKept(c, plan'.affected)]_vars

-----------------------------------------------------------------------------
\* The records are those module SessionRecords promises: of each record the
\* intents it is about, and the newest plan while its revision lasts.
Records == INSTANCE SessionRecords WITH
  asked   <- intents,
  found   <- UNION {e.intents : e \in evidence},
  claimed <- UNION {c.intents : c \in claims},
  sought  <- IF plan.candidate = rev THEN plan.retrieve ELSE {}

ImplementsRecords == Records!RecordsSpec
=============================================================================
