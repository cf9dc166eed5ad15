----------------------- MODULE SelectiveUpdate_proofs -----------------------
(***************************************************************************)
(* The records of a session stay consistent through every patch, and a     *)
(* patch updates exactly what depends on it, whatever the slots, passages, *)
(* values and bounds.  The inductive invariant adds to ClaimsStand that    *)
(* IDs carry no later revision than the current one, that dependencies     *)
(* concern the intents they are recorded for, and that a claim depends on  *)
(* all the constraints its evidence was found under.                       *)
(***************************************************************************)
EXTENDS SelectiveUpdate, TLAPS

Intent == Slot \X Nat
Constraint == [owner : Intent \cup {Shared}, value : Value]
Evidence == [passage : Passage, intents : SUBSET Intent, deps : SUBSET Constraint]
Claim == [id : ClaimId, intents : SUBSET Intent, support : SUBSET Evidence,
          deps : SUBSET Constraint, edges : SUBSET ClaimId]

SelectiveTypeOK ==
  /\ rev \in 0..MaxRevision
  /\ intents # {} /\ intents \subseteq Intent
  /\ constraints \subseteq Constraint
  /\ evidence \subseteq Evidence
  /\ claims \subseteq Claim

\* An intent carries the revision that gave it its ID.
NoneFromLater == \A i \in intents : i[2] <= rev

\* Evidence found under constraints was found for one intent, and they
\* concern it.
FoundForOne ==
  \A e \in evidence :
    e.deps = {} \/ \E i \in e.intents : e.intents = {i} /\ \A d \in e.deps : d.owner \in {i, Shared}

\* A claim depends on constraints of its intents, and on all those its
\* evidence was found under.
DepsConcern ==
  \A c \in claims :
    /\ \A d \in c.deps : d.owner \in c.intents \cup {Shared}
    /\ \A e \in c.support : c.intents \subseteq e.intents => e.deps \subseteq c.deps

Inv == SelectiveTypeOK /\ NoneFromLater /\ ClaimsStand /\ FoundForOne /\ DepsConcern

-----------------------------------------------------------------------------
(* What the interpreter proposes.                                          *)

\* A proposal for the current state: what it removes and replaces is current,
\* a replacement keeps its owner, what it adds concerns the intents it targets
\* or adds, and it targets every intent whose constraints it changes.
WellFormed(p) ==
  /\ p.targets \subseteq intents /\ p.fresh \subseteq Slot
  /\ p.removed \subseteq constraints /\ DOMAIN p.replaced \subseteq constraints
  /\ \A c \in DOMAIN p.replaced : p.replaced[c] \in Constraint /\ p.replaced[c].owner = c.owner
  /\ p.added \subseteq Constraint
  /\ \A c \in p.added : c.owner \in New(p) \cup p.targets \cup {Shared}
  /\ p.kind = "change_topic" => p.targets = {}

Focused(p) ==
  /\ \A c \in p.removed \cup DOMAIN p.replaced :
       c.owner \in p.targets \/ (c.owner = Shared /\ p.targets = intents)
  /\ p.kind # "change_topic" => p.added \cap constraints = {}
  /\ p.kind # "change_topic" /\ p.targets # {} => p.kind # "add_question"
  /\ p.kind = "add_constraint" => p.removed = {} /\ DOMAIN p.replaced = {}
  /\ p.kind \in {"add_question", "change_topic", "add_constraint", "replace_constraint",
                 "remove_constraint"}

LEMMA ProposalFields ==
  ASSUME NEW kind, NEW targets, NEW fresh, NEW removed, NEW replaced, NEW added
  PROVE  LET p == Proposal(kind, targets, fresh, removed, replaced, added)
         IN  /\ p.kind = kind /\ p.targets = targets /\ p.fresh = fresh
             /\ p.removed = removed /\ p.replaced = replaced /\ p.added = added
  BY DEF Proposal

LEMMA NothingReplaced == DOMAIN NoChange = {}
  BY DEF NoChange

LEMMA TargetsAreIntents ==
  ASSUME NEW T \in TargetIntents
  PROVE  T \subseteq intents
  BY DEF TargetIntents

LEMMA AskedOf ==
  ASSUME SelectiveTypeOK, NEW S \in SUBSET Slot, NEW A \in Asked(S)
  PROVE  A \subseteq Constraint /\ \A c \in A : c.owner \in (S \X {rev + 1}) \cup {Shared}
  <1>1. A \subseteq [owner : (S \X {rev + 1}) \cup {Shared}, value : Value]
    BY DEF Asked
  <1>2. rev + 1 \in Nat
    BY DEF SelectiveTypeOK
  <1>3. S \X {rev + 1} \subseteq Intent
    BY <1>2 DEF Intent
  <1> QED BY <1>1, <1>3 DEF Constraint

LEMMA NewIs ==
  ASSUME NEW p
  PROVE  New(p) = p.fresh \X {rev + 1}
  BY DEF New

LEMMA QuestionShape ==
  ASSUME SelectiveTypeOK, NEW p \in QuestionPatches
  PROVE  WellFormed(p) /\ Focused(p)
  <1>1. PICK S, A :
             /\ S \in SUBSET Slot /\ A \in Asked(S) /\ A \cap constraints = {}
             /\ p = Proposal("add_question", {}, S, {}, NoChange, A)
    BY DEF QuestionPatches
  <1>2. /\ p.kind = "add_question" /\ p.targets = {} /\ p.fresh = S
        /\ p.removed = {} /\ p.replaced = NoChange /\ p.added = A
    BY <1>1, ProposalFields
  <1> QED BY <1>1, <1>2, AskedOf, NewIs, NothingReplaced DEF WellFormed, Focused

LEMMA TopicShape ==
  ASSUME SelectiveTypeOK, NEW p \in TopicPatches
  PROVE  WellFormed(p) /\ Focused(p)
  <1>1. PICK S, A :
             S \in SUBSET Slot /\ A \in Asked(S) /\ p = Proposal("change_topic", {}, S, {}, NoChange, A)
    BY DEF TopicPatches
  <1>2. /\ p.kind = "change_topic" /\ p.targets = {} /\ p.fresh = S
        /\ p.removed = {} /\ p.replaced = NoChange /\ p.added = A
    BY <1>1, ProposalFields
  <1> QED BY <1>1, <1>2, AskedOf, NewIs, NothingReplaced DEF WellFormed, Focused

LEMMA AdditionShape ==
  ASSUME SelectiveTypeOK, NEW p \in AdditionPatches
  PROVE  WellFormed(p) /\ Focused(p)
  <1>1. PICK T \in TargetIntents, v \in Value :
             /\ NewTo(T, v)
             /\ p = Proposal("add_constraint", T, {}, {}, NoChange, Added(T, v))
    BY DEF AdditionPatches
  <1>2. /\ p.kind = "add_constraint" /\ p.targets = T /\ p.fresh = {}
        /\ p.removed = {} /\ p.replaced = NoChange /\ p.added = Added(T, v)
    BY <1>1, ProposalFields
  <1>3. T \subseteq intents /\ T \subseteq Intent
    BY TargetsAreIntents DEF SelectiveTypeOK
  <1>4. \A c \in Added(T, v) : c \in Constraint /\ c.owner \in T \cup {Shared} /\ c.value = v
    BY <1>3 DEF Added, Constraint
  <1>5. Added(T, v) \cap constraints = {}
    BY <1>1, <1>4 DEF NewTo, Concerning
  <1> QED BY <1>2, <1>3, <1>4, <1>5, NothingReplaced DEF WellFormed, Focused

LEMMA ReplacementShape ==
  ASSUME SelectiveTypeOK, ClaimsStand, NEW p \in ReplacementPatches
  PROVE  WellFormed(p) /\ Focused(p)
  <1>1. PICK T0 \in TargetIntents, v \in Value :
             p = LET T   == Propagated(T0, v)
                     old == UNION {Replaceable(i, v) : i \in T}
                 IN  Proposal("replace_constraint",
                              IF \E c \in old : c.owner = Shared THEN intents ELSE T,
                              {}, {}, [c \in old |-> [c EXCEPT !.value = v]], {})
    BY DEF ReplacementPatches
  <1> DEFINE T == Propagated(T0, v)
             old == UNION {Replaceable(i, v) : i \in T}
  <1>2. /\ p.kind = "replace_constraint"
        /\ p.targets = IF \E c \in old : c.owner = Shared THEN intents ELSE T
        /\ p.fresh = {} /\ p.removed = {} /\ p.added = {}
        /\ p.replaced = [c \in old |-> [c EXCEPT !.value = v]]
    BY <1>1, ProposalFields
  <1>3. T \subseteq intents
    BY TargetsAreIntents DEF Propagated
  <1>4. \A i : Replaceable(i, v) \subseteq Concerning({i}, constraints)
    BY DEF Replaceable
  <1>5. \A c \in old : c \in constraints /\ c.owner \in T \cup {Shared}
    BY <1>4 DEF Concerning
  <1>6. \A c \in constraints : /\ [c EXCEPT !.value = v] \in Constraint
                               /\ [c EXCEPT !.value = v].owner = c.owner
    BY DEF SelectiveTypeOK, Constraint
  <1>7. p.targets \subseteq intents
    BY <1>2, <1>3
  <1>8. DOMAIN p.replaced = old /\ \A c \in old : p.replaced[c] = [c EXCEPT !.value = v]
    BY <1>2
  <1>9. \A c \in old : c.owner \in p.targets \/ (c.owner = Shared /\ p.targets = intents)
    BY <1>2, <1>3, <1>5
  <1>10. WellFormed(p)
    BY <1>2, <1>5, <1>6, <1>7, <1>8 DEF WellFormed
  <1> HIDE DEF old, T
  <1>11. Focused(p)
    BY <1>2, <1>8, <1>9 DEF Focused
  <1> QED BY <1>10, <1>11

LEMMA RemovalShape ==
  ASSUME SelectiveTypeOK, NEW p \in RemovalPatches
  PROVE  WellFormed(p) /\ Focused(p)
  <1>1. PICK T \in TargetIntents, c \in constraints :
             /\ c \in Concerning(T, constraints)
             /\ p = Proposal("remove_constraint", IF c.owner = Shared THEN intents ELSE T,
                             {}, {c}, NoChange, {})
    BY DEF RemovalPatches
  <1>2. /\ p.kind = "remove_constraint" /\ p.fresh = {} /\ p.removed = {c}
        /\ p.targets = IF c.owner = Shared THEN intents ELSE T
        /\ p.replaced = NoChange /\ p.added = {}
    BY <1>1, ProposalFields
  <1>3. T \subseteq intents
    BY TargetsAreIntents
  <1>4. c.owner \in T \cup {Shared}
    BY <1>1 DEF Concerning
  <1> QED BY <1>2, <1>3, <1>4, NothingReplaced DEF WellFormed, Focused

LEMMA PatchShape ==
  ASSUME SelectiveTypeOK, ClaimsStand, NEW p \in Patches
  PROVE  WellFormed(p) /\ Focused(p)
  BY QuestionShape, TopicShape, AdditionShape, ReplacementShape, RemovalShape DEF Patches
-----------------------------------------------------------------------------
(* What a patch does to intents, constraints, evidence and claims.         *)

LEMMA SharedIsNoIntent ==
  ASSUME SelectiveTypeOK, NoneFromLater
  PROVE  Shared \notin intents
  <1>1. \A i \in intents : i \in Slot \X (0..MaxRevision)
    <2> TAKE i \in intents
    <2>1. /\ i \in Slot \X Nat /\ i[2] <= rev /\ rev \in 0..MaxRevision /\ MaxRevision \in Nat
      BY SelectiveAssumption DEF SelectiveTypeOK, NoneFromLater, Intent
    <2>2. i[1] \in Slot /\ i[2] \in 0..MaxRevision /\ i = <<i[1], i[2]>>
      BY <2>1
    <2> QED BY <2>2
  <1> QED BY <1>1, SelectiveAssumption

LEMMA RenewedIntent ==
  ASSUME SelectiveTypeOK, NEW i \in Intent
  PROVE  Renewed(i) \in Intent /\ Renewed(i)[2] = rev + 1
  BY DEF Renewed, Intent, SelectiveTypeOK

LEMMA IntentsAfter ==
  ASSUME SelectiveTypeOK, NoneFromLater, NEW p, WellFormed(p)
  PROVE  /\ Intents(p) \subseteq Intent
         /\ \A i \in Intents(p) : i[2] <= rev + 1
         /\ New(p) \subseteq Intents(p)
         /\ p.kind # "change_topic" => \A i \in intents : After(p, i) \in Intents(p)
  <1>1. \A i \in New(p) : i \in Intent /\ i[2] <= rev + 1
    BY DEF New, WellFormed, SelectiveTypeOK, Intent
  <1>2. \A i \in intents : After(p, i) \in Intent /\ After(p, i)[2] <= rev + 1
    <2> TAKE i \in intents
    <2>1. i \in Intent /\ i[2] <= rev + 1
      BY DEF SelectiveTypeOK, NoneFromLater, Intent
    <2>2. rev + 1 <= rev + 1
      BY DEF SelectiveTypeOK
    <2>3. Renewed(i) \in Intent /\ Renewed(i)[2] = rev + 1
      BY <2>1, RenewedIntent
    <2>4. CASE i \in p.targets
      <3>1. After(p, i) = Renewed(i)
        BY <2>4 DEF After
      <3> QED BY <2>2, <2>3, <3>1
    <2>5. CASE i \notin p.targets
      <3>1. After(p, i) = i
        BY <2>5 DEF After
      <3> QED BY <2>1, <3>1
    <2> QED BY <2>4, <2>5
  <1>3. \A i \in Intents(p) : i \in New(p) \/ \E k \in intents : i = After(p, k)
    BY DEF Intents
  <1>4. p.kind # "change_topic" => \A i \in intents : After(p, i) \in Intents(p)
    BY DEF Intents
  <1>5. New(p) \subseteq Intents(p)
    BY DEF Intents
  <1> QED BY <1>1, <1>2, <1>3, <1>4, <1>5

LEMMA CarriedConstraint ==
  ASSUME SelectiveTypeOK, NEW p, WellFormed(p), NEW c \in Constraint
  PROVE  /\ Carried(p, c) \in Constraint
         /\ Carried(p, c).owner = After(p, c.owner)
  <1>1. CASE c.owner \in p.targets
    <2>1. c.owner \in Intent
      BY <1>1 DEF WellFormed, SelectiveTypeOK
    <2>2. Renewed(c.owner) \in Intent
      BY <2>1, RenewedIntent
    <2>3. Carried(p, c) = [c EXCEPT !.owner = Renewed(c.owner)]
      BY <1>1 DEF Carried
    <2>4. After(p, c.owner) = Renewed(c.owner)
      BY <1>1 DEF After
    <2> QED BY <2>2, <2>3, <2>4 DEF Constraint
  <1>2. CASE c.owner \notin p.targets
    BY <1>2 DEF Carried, After
  <1> QED BY <1>1, <1>2

LEMMA MappedConstraint ==
  ASSUME SelectiveTypeOK, NEW p, WellFormed(p), NEW c \in constraints
  PROVE  /\ Mapped(p, c) \in Constraint
         /\ Mapped(p, c).owner = After(p, c.owner)
         /\ c \notin p.removed /\ p.kind # "change_topic" => Mapped(p, c) \in Projected(p)
  <1> DEFINE r == IF c \in DOMAIN p.replaced THEN p.replaced[c] ELSE c
  <1>1. r \in Constraint /\ r.owner = c.owner
    BY DEF WellFormed, SelectiveTypeOK
  <1>2. Mapped(p, c) = Carried(p, r)
    BY DEF Mapped
  <1>3. c \notin p.removed /\ p.kind # "change_topic" => Mapped(p, c) \in Projected(p)
    BY DEF Projected
  <1> HIDE DEF r
  <1> QED BY <1>1, <1>2, <1>3, CarriedConstraint

LEMMA ConstraintsAfter ==
  ASSUME SelectiveTypeOK, NoneFromLater, ClaimsStand, NEW p, WellFormed(p)
  PROVE  /\ Projected(p) \subseteq Constraint
         /\ \A c \in Projected(p) : c.owner \in Intents(p) \cup {Shared}
  <1>1. \A c \in p.added : /\ Carried(p, c) \in Constraint
                           /\ Carried(p, c).owner \in Intents(p) \cup {Shared}
    <2> TAKE c \in p.added
    <2>1. c \in Constraint /\ c.owner \in New(p) \cup p.targets \cup {Shared}
      BY DEF WellFormed
    <2>2. Carried(p, c) \in Constraint /\ Carried(p, c).owner = After(p, c.owner)
      BY <2>1, CarriedConstraint
    <2>3. CASE c.owner \in p.targets
      <3>1. c.owner \in intents /\ p.kind # "change_topic"
        BY <2>3 DEF WellFormed
      <3> QED BY <2>2, <3>1, IntentsAfter
    <2>4. CASE c.owner \notin p.targets
      <3>1. After(p, c.owner) = c.owner
        BY <2>4 DEF After
      <3> QED BY <2>1, <2>2, <2>4, <3>1, IntentsAfter
    <2> QED BY <2>3, <2>4
  <1>2. ASSUME NEW c \in constraints, p.kind # "change_topic"
        PROVE  Mapped(p, c) \in Constraint /\ Mapped(p, c).owner \in Intents(p) \cup {Shared}
    <2>1. Mapped(p, c) \in Constraint /\ Mapped(p, c).owner = After(p, c.owner)
      BY MappedConstraint
    <2>2. c.owner \in intents \cup {Shared}
      BY DEF ClaimsStand
    <2>3. CASE c.owner \in intents
      BY <1>2, <2>1, <2>3, IntentsAfter
    <2>4. CASE c.owner = Shared
      <3>1. Shared \notin p.targets
        BY SharedIsNoIntent DEF WellFormed
      <3>2. After(p, c.owner) = Shared
        BY <2>4, <3>1 DEF After
      <3> QED BY <2>1, <3>2
    <2> QED BY <2>2, <2>3, <2>4
  <1>3. \A c \in Projected(p) :
          \/ \E d \in p.added : c = Carried(p, d)
          \/ p.kind # "change_topic" /\ \E d \in constraints : c = Mapped(p, d)
    BY DEF Projected
  <1> QED BY <1>1, <1>2, <1>3

LEMMA RetainedOf ==
  ASSUME NEW p, NEW e
  PROVE  /\ Retained(p, e) \subseteq e.intents
         /\ \A i \in Retained(p, e) : After(p, i) \in Intents(p)
         /\ Retained(p, e) # {} => ~Dependent(p, e)
  BY DEF Retained

LEMMA EvidenceAfter ==
  ASSUME SelectiveTypeOK, NoneFromLater, ClaimsStand, FoundForOne,
         NEW p, WellFormed(p), NEW e \in evidence, Retained(p, e) # {}
  PROVE  LET r == ReboundEvidence(p, e)
         IN  /\ r \in Evidence
             /\ r.intents = {After(p, i) : i \in Retained(p, e)}
             /\ r.deps = {Mapped(p, d) : d \in e.deps \ p.removed} \cap Projected(p)
             /\ r.intents \subseteq Intents(p) /\ r.deps \subseteq Projected(p)
             /\ \/ r.deps = {}
                \/ \E i \in r.intents : r.intents = {i} /\ \A d \in r.deps : d.owner \in {i, Shared}
  <1> DEFINE r == ReboundEvidence(p, e)
             K == {After(p, i) : i \in Retained(p, e)}
             D == {Mapped(p, d) : d \in e.deps \ p.removed} \cap Projected(p)
  <1>1. e \in Evidence
    BY DEF SelectiveTypeOK
  <1>2. K \subseteq Intents(p) /\ K \subseteq Intent
    BY RetainedOf, IntentsAfter
  <1>3. D \subseteq Projected(p) /\ D \subseteq Constraint
    BY ConstraintsAfter
  <1>4. r = [e EXCEPT !.intents = K, !.deps = D]
    BY DEF ReboundEvidence
  <1>5. r \in Evidence /\ r.intents = K /\ r.deps = D
    <2> HIDE DEF r, K, D
    <2> QED BY <1>1, <1>2, <1>3, <1>4 DEF Evidence
  <1>6. D = {} \/ \E i \in K : K = {i} /\ \A d \in D : d.owner \in {i, Shared}
    <2>1. CASE e.deps = {}
      BY <2>1
    <2>2. CASE e.deps # {}
      <3>1. PICK i \in e.intents : e.intents = {i} /\ \A d \in e.deps : d.owner \in {i, Shared}
        BY <2>2 DEF FoundForOne
      <3>2. Retained(p, e) = {i}
        BY <3>1, RetainedOf
      <3>3. K = {After(p, i)}
        BY <3>2
      <3>4. ASSUME NEW d \in D
            PROVE  d.owner \in {After(p, i), Shared}
        <4>1. PICK b \in e.deps : d = Mapped(p, b)
          OBVIOUS
        <4>2. b \in constraints /\ b.owner \in {i, Shared}
          BY <3>1 DEF ClaimsStand
        <4>3. d.owner = After(p, b.owner)
          BY <4>1, <4>2, MappedConstraint
        <4>4. After(p, Shared) = Shared
          BY SharedIsNoIntent DEF After, WellFormed
        <4> QED BY <4>2, <4>3, <4>4
      <3> HIDE DEF K, D
      <3> QED BY <3>3, <3>4
    <2> QED BY <2>1, <2>2
  <1> HIDE DEF r, K, D
  <1>7. /\ r \in Evidence /\ r.intents \subseteq Intents(p) /\ r.deps \subseteq Projected(p)
        /\ \/ r.deps = {}
           \/ \E i \in r.intents : r.intents = {i} /\ \A d \in r.deps : d.owner \in {i, Shared}
    BY <1>2, <1>3, <1>5, <1>6
  <1> QED BY <1>5, <1>7 DEF r, K, D

\* What a patch keeps stands by itself and rests on what is kept.
LEMMA PreservedOf ==
  ASSUME NEW p
  PROVE  /\ Preserved(p) \subseteq claims
         /\ \A c \in Preserved(p) : ~Lost(p, c) /\ Held(p, c) /\ c.edges \subseteq Ids(Preserved(p))
         /\ \A c \in claims : ~Lost(p, c) /\ Held(p, c) /\ c.edges = {} => c \in Preserved(p)
  <1>1. Preserved(p) \subseteq claims
    BY DEF Preserved
  <1>2. ASSUME NEW c \in Preserved(p)
        PROVE  ~Lost(p, c) /\ Held(p, c) /\ c.edges \subseteq Ids(Preserved(p))
    <2>1. PICK S \in SUBSET claims :
            /\ c \in S
            /\ \A d \in S : ~Lost(p, d) /\ Held(p, d) /\ d.edges \subseteq Ids(S)
      BY DEF Preserved
    <2>2. S \subseteq Preserved(p)
      BY <2>1 DEF Preserved
    <2>3. Ids(S) \subseteq Ids(Preserved(p))
      BY <2>2 DEF Ids
    <2> QED BY <2>1, <2>3
  <1>3. ASSUME NEW c \in claims, ~Lost(p, c), Held(p, c), c.edges = {}
        PROVE  c \in Preserved(p)
    <2>1. {c} \in SUBSET claims /\ \A d \in {c} : ~Lost(p, d) /\ Held(p, d) /\ d.edges \subseteq Ids({c})
      BY <1>3
    <2> QED BY <2>1 DEF Preserved
  <1> QED BY <1>1, <1>2, <1>3

LEMMA ClaimAfter ==
  ASSUME SelectiveTypeOK, NoneFromLater, ClaimsStand, FoundForOne, DepsConcern,
         NEW p, WellFormed(p), NEW c \in Preserved(p)
  PROVE  LET r == ReboundClaim(p, c)
             kept == {ReboundEvidence(p, e) : e \in {e \in evidence : Retained(p, e) # {}}}
         IN  /\ r \in Claim
             /\ r.id = c.id /\ r.edges = c.edges
             /\ r.intents = {After(p, i) : i \in c.intents}
             /\ r.intents # {} /\ r.intents \subseteq Intents(p)
             /\ r.support # {} /\ r.support \subseteq kept
             /\ r.deps \subseteq Projected(p)
             /\ \A d \in r.deps : d.owner \in r.intents \cup {Shared}
             /\ \A e \in r.support : r.intents \subseteq e.intents => e.deps \subseteq r.deps
  <1> DEFINE r == ReboundClaim(p, c)
             kept == {ReboundEvidence(p, e) : e \in {e \in evidence : Retained(p, e) # {}}}
             I == {After(p, i) : i \in c.intents}
             S == {ReboundEvidence(p, e) : e \in c.support}
             D == {Mapped(p, d) : d \in c.deps}
  <1>1. c \in claims /\ c \in Claim /\ Held(p, c)
    BY PreservedOf DEF SelectiveTypeOK
  <1>2. /\ c.intents # {} /\ c.intents \subseteq intents
        /\ c.support # {} /\ c.support \subseteq evidence /\ c.deps \subseteq constraints
    BY <1>1 DEF ClaimsStand
  <1>3. \A e \in c.support : e \in evidence /\ c.intents \subseteq Retained(p, e) /\ Retained(p, e) # {}
    BY <1>1, <1>2 DEF Held
  <1>4. I # {} /\ I \subseteq Intents(p) /\ I \subseteq Intent
    <2>1. \A i \in c.intents : After(p, i) \in Intents(p)
      BY <1>2, <1>3, RetainedOf
    <2> QED BY <1>2, <2>1, IntentsAfter
  <1>5. S # {} /\ S \subseteq kept /\ S \subseteq Evidence
    BY <1>2, <1>3, EvidenceAfter
  <1>6. D \subseteq Projected(p) /\ D \subseteq Constraint
    BY <1>1, ConstraintsAfter DEF Held
  <1>7. \A d \in D : d.owner \in I \cup {Shared}
    <2> TAKE d \in D
    <2>1. PICK b \in c.deps : d = Mapped(p, b)
      OBVIOUS
    <2>2. d.owner = After(p, b.owner) /\ b.owner \in c.intents \cup {Shared}
      BY <1>1, <1>2, <2>1, MappedConstraint DEF DepsConcern
    <2>3. After(p, Shared) = Shared
      BY SharedIsNoIntent DEF After, WellFormed
    <2> QED BY <2>2, <2>3
  <1>8. \A f \in S : f.deps \subseteq D
    <2> TAKE f \in S
    <2>1. PICK e \in c.support : f = ReboundEvidence(p, e)
      OBVIOUS
    <2>2. f.deps = {Mapped(p, d) : d \in e.deps \ p.removed} \cap Projected(p)
      BY <1>3, <2>1, EvidenceAfter
    <2>3. c.intents \subseteq e.intents
      BY <1>3, <2>1, RetainedOf
    <2>4. e.deps \subseteq c.deps
      BY <1>1, <2>3 DEF DepsConcern
    <2> QED BY <2>2, <2>4
  <1>9. r = [c EXCEPT !.intents = I, !.support = S, !.deps = D]
    BY DEF ReboundClaim
  <1>10. /\ r \in Claim /\ r.id = c.id /\ r.edges = c.edges
         /\ r.intents = I /\ r.support = S /\ r.deps = D
    <2> HIDE DEF r, I, S, D
    <2> QED BY <1>1, <1>4, <1>5, <1>6, <1>9 DEF Claim
  <1> HIDE DEF r, I, S, D, kept
  <1>11. /\ r \in Claim /\ r.id = c.id /\ r.edges = c.edges
         /\ r.intents # {} /\ r.intents \subseteq Intents(p)
         /\ r.support # {} /\ r.support \subseteq kept
         /\ r.deps \subseteq Projected(p)
         /\ \A d \in r.deps : d.owner \in r.intents \cup {Shared}
         /\ \A e \in r.support : r.intents \subseteq e.intents => e.deps \subseteq r.deps
    BY <1>4, <1>5, <1>6, <1>7, <1>8, <1>10
  <1> QED BY <1>10, <1>11 DEF r, I, kept

-----------------------------------------------------------------------------
(* Each action preserves the invariant.                                    *)

LEMMA PatchKeepsInv ==
  ASSUME Inv, NEW p \in Patches, ApplyPatch(p)
  PROVE  Inv'
  <1>1. WellFormed(p) /\ SelectiveTypeOK /\ NoneFromLater /\ ClaimsStand /\ FoundForOne /\ DepsConcern
    BY PatchShape DEF Inv
  <1>2. /\ rev < MaxRevision /\ rev' = rev + 1
        /\ intents' = Intents(p) /\ constraints' = Projected(p)
        /\ evidence' = {ReboundEvidence(p, e) : e \in {e \in evidence : Retained(p, e) # {}}}
        /\ claims' = {ReboundClaim(p, c) : c \in Preserved(p)}
    BY DEF ApplyPatch
  <1>3. ASSUME NEW e \in evidence'
        PROVE  /\ e \in Evidence /\ e.intents \subseteq intents' /\ e.deps \subseteq constraints'
               /\ \/ e.deps = {}
                  \/ \E i \in e.intents : e.intents = {i} /\ \A d \in e.deps : d.owner \in {i, Shared}
    <2>1. PICK f \in evidence : Retained(p, f) # {} /\ e = ReboundEvidence(p, f)
      BY <1>2
    <2> QED BY <1>1, <1>2, <2>1, EvidenceAfter
  <1>4. ASSUME NEW c \in claims'
        PROVE  /\ c \in Claim
               /\ c.intents # {} /\ c.intents \subseteq intents'
               /\ c.support # {} /\ c.support \subseteq evidence'
               /\ c.deps \subseteq constraints' /\ c.edges \subseteq Ids(claims')
               /\ \A d \in c.deps : d.owner \in c.intents \cup {Shared}
               /\ \A e \in c.support : c.intents \subseteq e.intents => e.deps \subseteq c.deps
    <2>1. PICK b \in Preserved(p) : c = ReboundClaim(p, b)
      BY <1>2
    <2>2. Ids(Preserved(p)) \subseteq Ids(claims')
      <3>1. ASSUME NEW d \in Preserved(p)
            PROVE  d.id \in Ids(claims')
        <4>1. ReboundClaim(p, d) \in claims' /\ ReboundClaim(p, d).id = d.id
          BY <1>1, <1>2, ClaimAfter
        <4> QED BY <4>1 DEF Ids
      <3> QED BY <3>1 DEF Ids
    <2>3. b.edges \subseteq Ids(claims')
      BY <2>2, PreservedOf
    <2> QED BY <1>1, <1>2, <2>1, <2>3, ClaimAfter
  <1>5. rev' \in 0..MaxRevision
    BY <1>1, <1>2, SelectiveAssumption DEF SelectiveTypeOK
  <1>6. Intents(p) # {}
    <2>1. CASE p.kind = "change_topic"
      <3>1. p.fresh # {}
        BY <2>1 DEF ApplyPatch, Admissible
      <3> QED BY <1>1, <3>1, IntentsAfter DEF New
    <2>2. CASE p.kind # "change_topic"
      BY <1>1, <2>2, IntentsAfter DEF SelectiveTypeOK
    <2> QED BY <2>1, <2>2
  <1>11. SelectiveTypeOK'
    BY <1>1, <1>2, <1>3, <1>4, <1>5, <1>6, IntentsAfter, ConstraintsAfter DEF SelectiveTypeOK
  <1>7. NoneFromLater'
    BY <1>1, <1>2, IntentsAfter DEF NoneFromLater
  <1>8. ClaimsStand'
    BY <1>1, <1>2, <1>3, <1>4, ConstraintsAfter DEF ClaimsStand
  <1>9. FoundForOne'
    BY <1>3 DEF FoundForOne
  <1>10. DepsConcern'
    BY <1>4 DEF DepsConcern
  <1> QED BY <1>7, <1>8, <1>9, <1>10, <1>11 DEF Inv

\* Nothing is held in a new session but the intents and their constraints.
LEMMA NewSession ==
  ASSUME NEW S \in SUBSET Slot, NEW C \in Initial(S)
  PROVE  /\ S # {} => S \X {0} # {}
         /\ S \X {0} \subseteq Intent /\ \A i \in S \X {0} : i[2] <= 0
         /\ C \subseteq Constraint /\ \A c \in C : c.owner \in (S \X {0}) \cup {Shared}
  <1>1. C \subseteq [owner : (S \X {0}) \cup {Shared}, value : Value]
    BY DEF Initial
  <1>2. S \X {0} \subseteq Intent /\ \A i \in S \X {0} : i[2] <= 0
    BY DEF Intent
  <1>3. \A q \in S : <<q, 0>> \in S \X {0}
    OBVIOUS
  <1> QED BY <1>1, <1>2, <1>3 DEF Constraint

LEMMA InitInv ==
  ASSUME Init
  PROVE  Inv
  <1>1. PICK S, C :
             S \in SUBSET Slot /\ S # {} /\ C \in Initial(S) /\ intents = S \X {0} /\ constraints = C
    BY DEF Init
  <1>2. rev = 0 /\ evidence = {} /\ claims = {} /\ 0 \in 0..MaxRevision
    BY SelectiveAssumption DEF Init
  <1> QED BY <1>1, <1>2, NewSession
          DEF Inv, SelectiveTypeOK, NoneFromLater, ClaimsStand, FoundForOne, DepsConcern

LEMMA RecreateKeepsInv ==
  ASSUME Inv, Recreate
  PROVE  Inv'
  <1>1. PICK S, C :
             S \in SUBSET Slot /\ S # {} /\ C \in Initial(S) /\ intents' = S \X {0} /\ constraints' = C
    BY DEF Recreate
  <1>2. rev' = 0 /\ evidence' = {} /\ claims' = {} /\ 0 \in 0..MaxRevision
    BY SelectiveAssumption DEF Recreate
  <1> QED BY <1>1, <1>2, NewSession
          DEF Inv, SelectiveTypeOK, NoneFromLater, ClaimsStand, FoundForOne, DepsConcern

LEMMA RecordEvidenceKeepsInv ==
  ASSUME Inv, RecordEvidence
  PROVE  Inv'
  <1>1. PICK x \in Passage, S \in (SUBSET intents) \ {{}}, old \in {evidence, {}} :
          evidence' = old \cup {[passage |-> x, intents |-> S, deps |-> {}]}
    BY DEF RecordEvidence
  <1>2. /\ rev' = rev + 1 /\ rev < MaxRevision /\ rev' \in 0..MaxRevision
        /\ claims' = {} /\ intents' = intents /\ constraints' = constraints
    BY SelectiveAssumption DEF RecordEvidence, Inv, SelectiveTypeOK
  <1>3. [passage |-> x, intents |-> S, deps |-> {}] \in Evidence
    BY DEF Inv, SelectiveTypeOK, Evidence
  <1>4. \A e \in evidence' :
          e \in evidence \/ e = [passage |-> x, intents |-> S, deps |-> {}]
    BY <1>1
  <1>5. SelectiveTypeOK'
    BY <1>2, <1>3, <1>4 DEF Inv, SelectiveTypeOK
  <1>6. NoneFromLater'
    BY <1>2 DEF Inv, SelectiveTypeOK, NoneFromLater, Intent
  <1>7. ClaimsStand' /\ DepsConcern' /\ FoundForOne'
    BY <1>2, <1>4 DEF Inv, ClaimsStand, DepsConcern, FoundForOne
  <1> QED BY <1>5, <1>6, <1>7 DEF Inv

LEMMA RecordSelectiveKeepsInv ==
  ASSUME Inv, RecordSelectiveEvidence
  PROVE  Inv'
  <1>1. PICK x \in Passage, i \in plan.retrieve \cap intents :
          evidence' = evidence \cup {[passage |-> x, intents |-> {i},
                                      deps |-> Concerning({i}, constraints)]}
    BY DEF RecordSelectiveEvidence
  <1> DEFINE n == [passage |-> x, intents |-> {i}, deps |-> Concerning({i}, constraints)]
  <1>2. rev' = rev /\ claims' = claims /\ intents' = intents /\ constraints' = constraints
    BY DEF RecordSelectiveEvidence
  <1>3. /\ n.intents = {i} /\ n.deps \subseteq constraints
        /\ \A d \in n.deps : d.owner \in {i, Shared}
    BY DEF Concerning
  <1>4. n \in Evidence
    BY DEF Inv, SelectiveTypeOK, Evidence, Concerning
  <1>5. \A e \in evidence' : e \in evidence \/ e = n
    BY <1>1
  <1>6. evidence \subseteq evidence'
    BY <1>1
  <1> HIDE DEF n
  <1>7. SelectiveTypeOK' /\ NoneFromLater'
    BY <1>2, <1>4, <1>5 DEF Inv, SelectiveTypeOK, NoneFromLater
  <1>8. ClaimsStand'
    BY <1>2, <1>3, <1>5, <1>6 DEF Inv, ClaimsStand, Ids
  <1>9. DepsConcern'
    BY <1>2 DEF Inv, DepsConcern
  <1>10. FoundForOne'
    BY <1>3, <1>5 DEF Inv, FoundForOne
  <1> QED BY <1>7, <1>8, <1>9, <1>10 DEF Inv

LEMMA DraftedOf ==
  ASSUME SelectiveTypeOK, ClaimsStand, NEW new \in Drafted, NEW c \in new
  PROVE  /\ c.id \in ClaimId /\ c.passage \in {e.passage : e \in evidence}
         /\ c.intents \in {intents} \cup {{i} : i \in intents}
         /\ c.edges \subseteq Ids(new) \cup Ids(claims) /\ c.edges \subseteq ClaimId
  <1>1. PICK ids, from, about, sums :
          /\ ids \in SUBSET (ClaimId \ Ids(claims))
          /\ from \in [ids -> {e.passage : e \in evidence}]
          /\ about \in [ids -> {intents} \cup {{i} : i \in intents}]
          /\ sums \in [ids -> {{}} \cup {{k} : k \in ids \cup Ids(claims)}]
          /\ new = {[id |-> k, passage |-> from[k], intents |-> about[k], edges |-> sums[k]] : k \in ids}
    BY DEF Drafted
  <1>2. PICK k \in ids :
          c = [id |-> k, passage |-> from[k], intents |-> about[k], edges |-> sums[k]]
    BY <1>1
  <1>3. Ids(new) = ids
    <2>1. \A j \in ids : [id |-> j, passage |-> from[j], intents |-> about[j], edges |-> sums[j]].id = j
      OBVIOUS
    <2>2. \A j \in ids : \E d \in new : d.id = j
      BY <1>1, <2>1
    <2>3. \A d \in new : d.id \in ids
      BY <1>1, <2>1
    <2> QED BY <2>2, <2>3 DEF Ids
  <1>4. Ids(claims) \subseteq ClaimId
    BY DEF SelectiveTypeOK, Claim, Ids
  <1>5. c.id = k /\ c.passage = from[k] /\ c.intents = about[k] /\ c.edges = sums[k]
    BY <1>2
  <1>6. sums[k] \subseteq ids \cup Ids(claims)
    BY <1>1
  <1> QED BY <1>1, <1>3, <1>4, <1>5, <1>6

LEMMA PublishKeepsInv ==
  ASSUME Inv, Publish
  PROVE  Inv'
  <1>1. PICK f \in Latest, new \in Drafted :
          claims' =
            {[c EXCEPT !.support = {f[e.passage] : e \in c.support},
                       !.deps = Concerning(c.intents, constraints)] : c \in claims}
            \cup {[id |-> c.id, intents |-> c.intents, support |-> {f[c.passage]},
                   deps |-> Concerning(c.intents, constraints), edges |-> c.edges] : c \in new}
    BY DEF Publish
  <1>2. /\ rev' = rev + 1 /\ rev < MaxRevision /\ rev' \in 0..MaxRevision
        /\ evidence' = evidence /\ intents' = intents /\ constraints' = constraints
    <2>1. /\ rev' = rev + 1 /\ rev < MaxRevision
          /\ evidence' = evidence /\ intents' = intents /\ constraints' = constraints
      BY DEF Publish
    <2> QED BY <2>1, SelectiveAssumption DEF Inv, SelectiveTypeOK
  <1> DEFINE X == {e.passage : e \in evidence}
             Bind(c, S) == [id |-> c.id, intents |-> c.intents, support |-> S,
                            deps |-> Concerning(c.intents, constraints), edges |-> c.edges]
  <1>3. \A x \in X : f[x] \in evidence
    BY DEF Latest
  <1>4. \A S \in SUBSET Intent : Concerning(S, constraints) \subseteq constraints
                                 /\ Concerning(S, constraints) \subseteq Constraint
    BY DEF Concerning, Inv, SelectiveTypeOK
  <1>5. ASSUME NEW c \in claims'
        PROVE  /\ c \in Claim
               /\ c.intents # {} /\ c.intents \subseteq intents
               /\ c.support # {} /\ c.support \subseteq evidence
               /\ c.deps = Concerning(c.intents, constraints)
               /\ c.edges \subseteq Ids(claims) \cup Ids(new)
    <2>1. CASE \E b \in claims : c = [b EXCEPT !.support = {f[e.passage] : e \in b.support},
                                               !.deps = Concerning(b.intents, constraints)]
      <3>1. PICK b \in claims : c = [b EXCEPT !.support = {f[e.passage] : e \in b.support},
                                              !.deps = Concerning(b.intents, constraints)]
        BY <2>1
      <3>2. /\ b \in Claim /\ b.intents # {} /\ b.intents \subseteq intents
            /\ b.support # {} /\ b.support \subseteq evidence /\ b.edges \subseteq Ids(claims)
        BY DEF Inv, SelectiveTypeOK, ClaimsStand
      <3> DEFINE S == {f[e.passage] : e \in b.support}
                 D == Concerning(b.intents, constraints)
      <3>3. S # {} /\ S \subseteq evidence /\ S \subseteq Evidence
        BY <1>3, <3>2 DEF Inv, SelectiveTypeOK
      <3>4. D \subseteq Constraint
        BY <1>4, <3>2 DEF Claim
      <3>5. c = [b EXCEPT !.support = S, !.deps = D]
        BY <3>1
      <3>6. /\ c \in Claim /\ c.intents = b.intents /\ c.support = S
            /\ c.deps = D /\ c.edges = b.edges
        <4> HIDE DEF S, D
        <4> QED BY <3>2, <3>3, <3>4, <3>5 DEF Claim
      <3> QED BY <3>2, <3>3, <3>6, SMTT(30)
    <2>2. CASE \E b \in new : c = Bind(b, {f[b.passage]})
      <3>1. PICK b \in new : c = Bind(b, {f[b.passage]})
        BY <2>2
      <3>2. /\ b.id \in ClaimId /\ b.passage \in X
            /\ b.intents \in {intents} \cup {{i} : i \in intents}
            /\ b.edges \subseteq Ids(new) \cup Ids(claims) /\ b.edges \subseteq ClaimId
        BY DraftedOf DEF Inv
      <3>3. f[b.passage] \in evidence /\ f[b.passage] \in Evidence
        BY <1>3, <3>2 DEF Inv, SelectiveTypeOK
      <3>4. b.intents \subseteq intents /\ b.intents \subseteq Intent
        BY <3>2 DEF Inv, SelectiveTypeOK
      <3>5. b.intents # {}
        BY <3>2 DEF Inv, SelectiveTypeOK
      <3>6. Concerning(b.intents, constraints) \subseteq Constraint
        BY <1>4, <3>4
      <3> QED BY <3>1, <3>2, <3>3, <3>4, <3>5, <3>6 DEF Claim
    <2> QED BY <1>1, <2>1, <2>2
  <1>6. Ids(claims) \cup Ids(new) \subseteq Ids(claims')
    <2>1. ASSUME NEW c \in claims
          PROVE  c.id \in Ids(claims')
      <3>1. PICK b \in claims' : b = [c EXCEPT !.support = {f[e.passage] : e \in c.support},
                                               !.deps = Concerning(c.intents, constraints)]
        BY <1>1
      <3>2. c \in Claim
        BY DEF Inv, SelectiveTypeOK
      <3>3. b.id = c.id
        BY <3>1, <3>2 DEF Claim
      <3> QED BY <3>3 DEF Ids
    <2>2. ASSUME NEW c \in new
          PROVE  c.id \in Ids(claims')
      <3>1. Bind(c, {f[c.passage]}) \in claims' /\ Bind(c, {f[c.passage]}).id = c.id
        BY <1>1
      <3> QED BY <3>1 DEF Ids
    <2> QED BY <2>1, <2>2 DEF Ids
  <1> HIDE DEF X, Bind
  <1>7. ASSUME NEW c \in claims'
        PROVE  /\ \A d \in c.deps : d \in constraints /\ d.owner \in c.intents \cup {Shared}
               /\ \A e \in c.support : c.intents \subseteq e.intents => e.deps \subseteq c.deps
    <2>1. \A d \in c.deps : d \in constraints /\ d.owner \in c.intents \cup {Shared}
      BY <1>5 DEF Concerning
    <2>2. ASSUME NEW e \in c.support, c.intents \subseteq e.intents, NEW d \in e.deps
          PROVE  d \in c.deps
      <3>1. e \in evidence /\ d \in constraints
        BY <1>5 DEF Inv, ClaimsStand
      <3>2. PICK i \in e.intents : e.intents = {i} /\ d.owner \in {i, Shared}
        BY <2>2, <3>1 DEF Inv, FoundForOne
      <3>3. c.intents = {i}
        BY <1>5, <2>2, <3>2
      <3> QED BY <1>5, <3>1, <3>2, <3>3 DEF Concerning
    <2> QED BY <2>1, <2>2
  <1>8. SelectiveTypeOK'
    BY <1>2, <1>5 DEF Inv, SelectiveTypeOK
  <1>9. NoneFromLater'
    BY <1>2 DEF Inv, SelectiveTypeOK, NoneFromLater, Intent
  <1>10. ClaimsStand'
    BY <1>2, <1>5, <1>6, <1>7 DEF Inv, ClaimsStand
  <1>11. FoundForOne'
    BY <1>2 DEF Inv, FoundForOne
  <1>12. DepsConcern'
    BY <1>7 DEF DepsConcern
  <1> QED BY <1>8, <1>9, <1>10, <1>11, <1>12 DEF Inv

LEMMA StepKeepsInv ==
  ASSUME Inv, [Next]_vars
  PROVE  Inv'
  <1>1. CASE \E p \in Patches : ApplyPatch(p)
    BY <1>1, PatchKeepsInv
  <1>2. CASE Aside
    <2>1. /\ rev < MaxRevision /\ rev' = rev + 1
          /\ UNCHANGED <<intents, constraints, evidence, claims>>
      BY <1>2 DEF Aside
    <2>2. rev' \in 0..MaxRevision
      BY <2>1, SelectiveAssumption DEF Inv, SelectiveTypeOK
    <2>3. NoneFromLater'
      BY <2>1 DEF Inv, SelectiveTypeOK, NoneFromLater, Intent
    <2> QED BY <2>1, <2>2, <2>3 DEF Inv, SelectiveTypeOK, ClaimsStand, FoundForOne, DepsConcern
  <1>3. CASE Generate \/ Discard \/ UNCHANGED vars
    <2>1. UNCHANGED <<rev, intents, constraints, evidence, claims>>
      BY <1>3 DEF Generate, Discard, vars
    <2> QED BY <2>1
            DEF Inv, SelectiveTypeOK, NoneFromLater, ClaimsStand, FoundForOne, DepsConcern
  <1>4. CASE RecordEvidence
    BY <1>4, RecordEvidenceKeepsInv
  <1>5. CASE RecordSelectiveEvidence
    BY <1>5, RecordSelectiveKeepsInv
  <1>6. CASE Publish
    BY <1>6, PublishKeepsInv
  <1>7. CASE Recreate
    BY <1>7, RecreateKeepsInv
  <1> QED BY <1>1, <1>2, <1>3, <1>4, <1>5, <1>6, <1>7 DEF Next

-----------------------------------------------------------------------------
(* What a patch does to the claims there were.                             *)

\* The plan names what the patch affects and what is retrieved again.
LEMMA PlanOf ==
  ASSUME NEW p, ApplyPatch(p)
  PROVE  plan'.kind = p.kind /\ plan'.affected = Affected(p) /\ plan'.retrieve = Retrieve(p)
  BY DEF ApplyPatch

\* Each claimed intent keeps its claim or is answered again.
LEMMA PatchStrandsNone ==
  ASSUME Inv, NEW p \in Patches, ApplyPatch(p), NEW c \in claims, NEW i \in c.intents
  PROVE  NoneStranded(c, i, plan'.affected, plan'.retrieve)
  <1>1. /\ WellFormed(p) /\ Focused(p)
        /\ SelectiveTypeOK /\ NoneFromLater /\ ClaimsStand /\ FoundForOne /\ DepsConcern
    BY PatchShape DEF Inv
  <1>2. /\ intents' = Intents(p)
        /\ evidence' = {ReboundEvidence(p, e) : e \in {e \in evidence : Retained(p, e) # {}}}
        /\ claims' = {ReboundClaim(p, d) : d \in Preserved(p)}
    BY DEF ApplyPatch
  <1> DEFINE j == Image(i, Affected(p))
  <1>3. SUFFICES ASSUME j \in Intents(p)
                 PROVE  \/ \E d \in claims' : d.id = c.id /\ j \in d.intents
                        \/ j \in Retrieve(p)
                        \/ i \in Affected(p) /\ (p.kind = "replace_constraint"
                                                  \/ \E e \in evidence' : j \in e.intents)
    BY <1>2, PlanOf DEF NoneStranded
  <1>4. i \in intents
    BY <1>1 DEF ClaimsStand
  <1>5. CASE p.kind = "change_topic"
    BY <1>3, <1>5 DEF Intents, Retrieve
  <1>6. CASE p.kind # "change_topic"
    <2>1. Affected(p) = p.targets /\ j = After(p, i)
      BY <1>6 DEF Affected, Image, After, Renewed
    <2>2. CASE c \in Preserved(p)
      <3>1. ReboundClaim(p, c) \in claims'
        BY <1>2, <2>2
      <3>2. ReboundClaim(p, c).id = c.id /\ ReboundClaim(p, c).intents = {After(p, k) : k \in c.intents}
        BY <1>1, <2>2, ClaimAfter
      <3> QED BY <2>1, <3>1, <3>2
    <2>3. CASE c \notin Preserved(p) /\ i \notin p.targets
      <3>1. j = i
        BY <2>1, <2>3 DEF After
      <3>2. i \in c.intents \ Affected(p) /\ c \in claims \ Preserved(p)
        BY <2>1, <2>3
      <3>3. i \in UNION {d.intents \ Affected(p) : d \in claims \ Preserved(p)}
        BY <3>2
      <3> QED BY <1>3, <3>1, <3>3 DEF Retrieve
    <2>4. CASE i \in p.targets /\ (Forced(p) \/ ~Sufficient(p, i))
      <3>1. j = Renewed(i)
        BY <2>1, <2>4 DEF After
      <3> QED BY <1>3, <2>4, <3>1 DEF Retrieve
    <2>5. CASE i \in p.targets /\ ~Forced(p) /\ Sufficient(p, i) /\ p.kind # "replace_constraint"
      <3>1. PICK e \in evidence : i \in e.intents /\ Covers(p, e, Renewed(i))
        BY <2>5 DEF Sufficient
      <3>2. p.kind = "add_constraint"
        BY <1>1, <1>6, <2>5 DEF Focused, Forced
      <3>3. Changes(p) = p.added
        BY <1>1, <3>2 DEF Focused, Changes
      <3>4. e.deps \subseteq constraints /\ e.deps \cap Changes(p) = {}
        BY <1>1, <1>6, <3>3 DEF Focused, ClaimsStand
      <3>5. ~Dependent(p, e)
        BY <2>5, <3>4 DEF Dependent, Forced
      <3>6. After(p, i) = Renewed(i) /\ After(p, i) \in Intents(p)
        BY <1>3, <2>1, <2>5 DEF After
      <3>7. i \in Retained(p, e)
        BY <3>1, <3>5, <3>6 DEF Retained
      <3>8. ReboundEvidence(p, e) \in evidence'
        BY <1>2, <3>7
      <3>9. ReboundEvidence(p, e).intents = {After(p, k) : k \in Retained(p, e)}
        BY <1>1, <3>7, EvidenceAfter
      <3> QED BY <2>1, <2>5, <3>7, <3>8, <3>9
    <2> QED BY <2>1, <2>2, <2>3, <2>4, <2>5
  <1> QED BY <1>5, <1>6

\* Constraints of intents a patch does not target are not among its changes.
LEMMA OthersUnchanged ==
  ASSUME SelectiveTypeOK, NoneFromLater, NEW p, WellFormed(p), Focused(p),
         p.kind # "change_topic",
         NEW S, S # {}, S \subseteq intents, S \cap p.targets = {},
         NEW d \in constraints, d.owner \in S \cup {Shared}
  PROVE  d \notin Changes(p)
  <1>1. d \notin p.added
    BY DEF Focused
  <1>2. ASSUME d \in p.removed \cup DOMAIN p.replaced
        PROVE  FALSE
    <2>1. d.owner \in p.targets \/ (d.owner = Shared /\ p.targets = intents)
      BY <1>2 DEF Focused
    <2>2. p.targets # intents
      OBVIOUS
    <2>3. d.owner \in S /\ d.owner \in p.targets
      BY <2>1, <2>2, SharedIsNoIntent DEF WellFormed
    <2> QED BY <2>3
  <1> QED BY <1>1, <1>2 DEF Changes

LEMMA EntitiesAreSelected ==
  ASSUME NEW p
  PROVE  /\ \A d \in AffectedEntities(p) : d.value \in Selected
         /\ \A v \in OldEntities(p) : v \in Selected
  BY DEF AffectedEntities, OldEntities, EntityValues, Entity

\* A claim that has nothing to do with the change is kept.
LEMMA PatchKeepsSiblings ==
  ASSUME Inv, NEW p \in Patches, ApplyPatch(p), NEW c \in claims, Undisturbed(c, Affected(p))
  PROVE  \E d \in claims' : d.id = c.id
  <1>1. /\ WellFormed(p) /\ Focused(p)
        /\ SelectiveTypeOK /\ NoneFromLater /\ ClaimsStand /\ FoundForOne /\ DepsConcern
    BY PatchShape DEF Inv
  <1>2. /\ c.intents \cap Affected(p) = {} /\ c.edges = {} /\ Entity(c.deps) = {}
        /\ \A e \in c.support : e.intents \cap Affected(p) = {} /\ c.intents \subseteq e.intents
    BY DEF Undisturbed
  <1>3. /\ c.intents # {} /\ c.intents \subseteq intents
        /\ c.support \subseteq evidence /\ c.deps \subseteq constraints
    BY <1>1 DEF ClaimsStand
  <1>4. p.kind # "change_topic" /\ Affected(p) = p.targets
    BY <1>2, <1>3 DEF Affected
  <1>5. \A d \in c.deps : d \notin Changes(p) /\ d.value \notin Selected
    <2>1. \A d \in c.deps : d.owner \in c.intents \cup {Shared}
      BY <1>1 DEF DepsConcern
    <2>2. \A d \in c.deps : d.value \notin Selected
      BY <1>2 DEF Entity
    <2> QED BY <1>1, <1>2, <1>3, <1>4, <2>1, <2>2, OthersUnchanged
  <1>6. ASSUME NEW e \in c.support
        PROVE  Retained(p, e) = e.intents
    <2>1. /\ e \in evidence /\ c.intents \subseteq e.intents /\ e.intents \cap p.targets = {}
          /\ e.deps \subseteq c.deps /\ e.deps \subseteq constraints /\ e.intents \subseteq intents
      BY <1>1, <1>2, <1>3, <1>4 DEF DepsConcern, ClaimsStand
    <2>2. e.deps \cap Changes(p) = {}
      BY <1>5, <2>1
    <2>3. e.deps \cap AffectedEntities(p) = {}
      BY <1>5, <2>1, EntitiesAreSelected
    <2>4. ~Dependent(p, e)
      BY <2>1, <2>2, <2>3 DEF Dependent
    <2>5. \A i \in e.intents : After(p, i) \in Intents(p) /\ i \notin Affected(p)
      BY <1>1, <1>4, <2>1, IntentsAfter
    <2> QED BY <2>4, <2>5 DEF Retained
  <1>7. ~Lost(p, c)
    <2>1. \A d \in c.deps : d \notin Changes(p) \cup AffectedEntities(p) /\ d.value \notin OldEntities(p)
      BY <1>5, EntitiesAreSelected
    <2> QED BY <1>2, <1>6, <2>1 DEF Lost
  <1>8. Held(p, c)
    <2>1. \A e \in c.support : c.intents \subseteq Retained(p, e)
      BY <1>2, <1>6
    <2>2. \A d \in c.deps : d \in constraints \ p.removed
      BY <1>3, <1>5 DEF Changes
    <2>3. \A d \in c.deps : Mapped(p, d) \in Projected(p)
      BY <1>1, <1>4, <2>2, MappedConstraint
    <2> QED BY <2>1, <2>2, <2>3 DEF Held
  <1>9. c \in Preserved(p)
    BY <1>2, <1>7, <1>8, PreservedOf
  <1>10. ReboundClaim(p, c) \in claims' /\ ReboundClaim(p, c).id = c.id
    <2>1. claims' = {ReboundClaim(p, d) : d \in Preserved(p)}
      BY DEF ApplyPatch
    <2> QED BY <1>1, <1>9, <2>1, ClaimAfter
  <1> QED BY <1>10

-----------------------------------------------------------------------------

THEOREM SelectiveInvariance == Spec => []Inv
  <1>1. Init => Inv
    BY InitInv
  <1>2. Inv /\ [Next]_vars => Inv'
    BY StepKeepsInv
  <1> QED BY <1>1, <1>2, PTL DEF Spec

\* After any patch, answer, late result and in a session created anew, what
\* the session holds is consistent.
THEOREM ClaimsAlwaysStand == Spec => []ClaimsStand
  <1>1. Inv => ClaimsStand
    BY DEF Inv
  <1> QED BY <1>1, SelectiveInvariance, PTL

\* Every patch leaves each claimed intent its claim, or evidence, or a
\* retrieval, and keeps each claim that has nothing to do with the change.
THEOREM UpdatesAreSelective == Spec => UpdateIsSelective
  <1> DEFINE Step == plan'.candidate = rev + 1 /\ plan' # plan =>
                       \A c \in claims :
                         /\ \A i \in c.intents : NoneStranded(c, i, plan'.affected, plan'.retrieve)
                         /\ SiblingKept(c, plan'.affected)
  <1>1. Inv /\ [Next]_vars => [Step]_vars
    <2> SUFFICES ASSUME Inv, Next, plan'.candidate = rev + 1, plan' # plan
                 PROVE  \A c \in claims :
                          /\ \A i \in c.intents : NoneStranded(c, i, plan'.affected, plan'.retrieve)
                          /\ SiblingKept(c, plan'.affected)
      OBVIOUS
    <2>1. CASE \E p \in Patches : ApplyPatch(p)
      <3>1. PICK p \in Patches : ApplyPatch(p)
        BY <2>1
      <3>2. plan'.affected = Affected(p)
        BY <3>1, PlanOf
      <3>3. \A c \in claims : SiblingKept(c, plan'.affected)
        BY <3>1, <3>2, PatchKeepsSiblings DEF SiblingKept
      <3> QED BY <3>1, <3>3, PatchStrandsNone
    <2>2. CASE Recreate
      <3>1. plan'.candidate = 0
        BY <2>2 DEF Recreate, NoPlan
      <3> QED BY <3>1 DEF Inv, SelectiveTypeOK
    <2> QED BY <2>1, <2>2
            DEF Next, Aside, RecordEvidence, RecordSelectiveEvidence, Generate, Publish, Discard
  <1>2. [][Step]_vars => UpdateIsSelective
    BY DEF UpdateIsSelective
  <1> QED BY <1>1, <1>2, SelectiveInvariance, PTL DEF Spec

-----------------------------------------------------------------------------
(* The records module SessionRecords promises.                             *)

\* Plans are of revisions there have been, and no evidence is for nothing.
PlanInv ==
  /\ plan.candidate \in 0..rev
  /\ \A e \in evidence : e.intents # {}

EvidenceFor == UNION {e.intents : e \in evidence}
Claimed == UNION {c.intents : c \in claims}
Sought == IF plan.candidate = rev THEN plan.retrieve ELSE {}

\* A question patch asks for slots that are not in use.
LEMMA QuestionsOfNewSlots ==
  ASSUME NEW p \in Patches, p.kind = "add_question"
  PROVE  \A i \in intents : i[1] \notin p.fresh
  <1>1. p \in QuestionPatches
    <2>1. \A q \in TopicPatches : q.kind = "change_topic"
      BY DEF TopicPatches, Proposal
    <2>2. \A q \in AdditionPatches : q.kind = "add_constraint"
      BY DEF AdditionPatches, Proposal
    <2>3. ASSUME NEW q \in ReplacementPatches
          PROVE  q.kind = "replace_constraint"
      <3>1. \E targets, replaced :
              q = Proposal("replace_constraint", targets, {}, {}, replaced, {})
        BY DEF ReplacementPatches
      <3> QED BY <3>1 DEF Proposal
    <2>4. \A q \in RemovalPatches : q.kind = "remove_constraint"
      BY DEF RemovalPatches, Proposal
    <2> QED BY <2>1, <2>2, <2>3, <2>4 DEF Patches
  <1>2. PICK S \in {S \in (SUBSET Slot) \ {{}} : \A i \in intents : i[1] \notin S} :
          \E A \in Asked(S) : p = Proposal("add_question", {}, S, {}, NoChange, A)
    BY <1>1 DEF QuestionPatches
  <1> QED BY <1>2, ProposalFields

\* A publication binds the claims carried along, and the new ones to evidence.
LEMMA PublishedClaims ==
  ASSUME Inv, Publish
  PROVE  /\ \A c \in claims : \E d \in claims' : d.intents = c.intents
         /\ \A d \in claims' : \/ \E c \in claims : d.intents = c.intents
                               \/ d.intents \subseteq intents /\ evidence # {}
  <1> DEFINE Carry(f, c) == [c EXCEPT !.support = {f[e.passage] : e \in c.support},
                                      !.deps = Concerning(c.intents, constraints)]
             Bind(f, c) == [id |-> c.id, intents |-> c.intents, support |-> {f[c.passage]},
                            deps |-> Concerning(c.intents, constraints), edges |-> c.edges]
  <1>1. PICK f \in Latest, new \in Drafted :
          claims' = {Carry(f, c) : c \in claims} \cup {Bind(f, c) : c \in new}
    BY DEF Publish
  <1>2. \A c \in claims : Carry(f, c).intents = c.intents
    <2>1. \A c \in claims : c \in Claim
      BY DEF Inv, SelectiveTypeOK
    <2> QED BY <2>1 DEF Claim
  <1>3. \A c \in new : Bind(f, c).intents \subseteq intents /\ evidence # {}
    BY DraftedOf DEF Inv
  <1> HIDE DEF Carry, Bind
  <1> QED BY <1>1, <1>2, <1>3

\* A patch leaves no evidence for nothing and makes the plan of its revision.
LEMMA PlanInvStep ==
  ASSUME Inv, PlanInv, [Next]_vars
  PROVE  PlanInv'
  <1>1. rev \in Nat
    BY DEF Inv, SelectiveTypeOK
  <1>2. CASE \E p \in Patches : ApplyPatch(p)
    <2>1. PICK p \in Patches : ApplyPatch(p)
      BY <1>2
    <2>2. /\ rev' = rev + 1 /\ plan'.candidate = rev + 1
          /\ evidence' = {ReboundEvidence(p, e) : e \in {e \in evidence : Retained(p, e) # {}}}
      BY <2>1 DEF ApplyPatch
    <2>3. WellFormed(p)
      BY PatchShape DEF Inv
    <2>4. ASSUME NEW e \in evidence'
          PROVE  e.intents # {}
      <3>1. PICK f \in evidence : Retained(p, f) # {} /\ e = ReboundEvidence(p, f)
        BY <2>2
      <3>2. e.intents = {After(p, i) : i \in Retained(p, f)}
        BY <2>3, <3>1, EvidenceAfter DEF Inv
      <3> QED BY <3>1, <3>2
    <2> QED BY <1>1, <2>2, <2>4 DEF PlanInv
  <1>3. CASE Recreate
    BY <1>3 DEF Recreate, NoPlan, PlanInv
  <1>4. CASE RecordEvidence
    <2>1. PICK x \in Passage, S \in (SUBSET intents) \ {{}}, old \in {evidence, {}} :
            evidence' = old \cup {[passage |-> x, intents |-> S, deps |-> {}]}
      BY <1>4 DEF RecordEvidence
    <2>2. rev' = rev + 1 /\ plan' = plan
      BY <1>4 DEF RecordEvidence
    <2> QED BY <1>1, <2>1, <2>2 DEF PlanInv
  <1>5. CASE RecordSelectiveEvidence
    <2>1. PICK x \in Passage, i \in plan.retrieve \cap intents :
            evidence' = evidence \cup {[passage |-> x, intents |-> {i},
                                        deps |-> Concerning({i}, constraints)]}
      BY <1>5 DEF RecordSelectiveEvidence
    <2>2. rev' = rev /\ plan' = plan
      BY <1>5 DEF RecordSelectiveEvidence
    <2> QED BY <1>1, <2>1, <2>2 DEF PlanInv
  <1>6. CASE Aside \/ Generate \/ Publish \/ Discard \/ UNCHANGED vars
    <2>1. rev' \in {rev, rev + 1} /\ UNCHANGED <<plan, evidence>>
      BY <1>6 DEF Aside, Generate, Publish, Discard, vars
    <2> QED BY <1>1, <2>1 DEF PlanInv
  <1> QED BY <1>2, <1>3, <1>4, <1>5, <1>6 DEF Next

\* What a patch keeps of the records is of intents that had them, and a claim
\* it keeps has evidence it keeps.
LEMMA RecordsKept ==
  ASSUME Inv, NEW p \in Patches, ApplyPatch(p)
  PROVE  /\ \A j \in EvidenceFor' : p.kind # "change_topic" /\ \E i \in EvidenceFor : j = After(p, i)
         /\ \A j \in Claimed' : j \in EvidenceFor' /\ \E i \in Claimed : j = After(p, i)
         /\ \A c \in Preserved(p) : \A i \in c.intents : After(p, i) \in Claimed'
  <1>1. /\ WellFormed(p)
        /\ SelectiveTypeOK /\ NoneFromLater /\ ClaimsStand /\ FoundForOne /\ DepsConcern
    BY PatchShape DEF Inv
  <1>2. /\ evidence' = {ReboundEvidence(p, e) : e \in {e \in evidence : Retained(p, e) # {}}}
        /\ claims' = {ReboundClaim(p, c) : c \in Preserved(p)}
    BY DEF ApplyPatch
  <1>3. ASSUME NEW e \in evidence, NEW i \in Retained(p, e)
        PROVE  /\ i \in EvidenceFor /\ After(p, i) \in EvidenceFor' /\ p.kind # "change_topic"
    <2>1. i \in e.intents /\ (i \in Affected(p) => Covers(p, e, After(p, i)))
      BY DEF Retained
    <2>2. p.kind # "change_topic"
      <3>1. i \in intents
        BY <1>1, <2>1 DEF ClaimsStand
      <3> QED BY <2>1, <3>1 DEF Affected, Covers, Forced
    <2>3. ReboundEvidence(p, e) \in evidence'
      BY <1>2
    <2>4. ReboundEvidence(p, e).intents = {After(p, k) : k \in Retained(p, e)}
      BY <1>1, EvidenceAfter
    <2>5. After(p, i) \in ReboundEvidence(p, e).intents
      BY <2>4
    <2> QED BY <2>1, <2>2, <2>3, <2>5 DEF EvidenceFor
  <1>4. ASSUME NEW j \in EvidenceFor'
        PROVE  p.kind # "change_topic" /\ \E i \in EvidenceFor : j = After(p, i)
    <2>1. PICK r \in evidence' : j \in r.intents
      BY DEF EvidenceFor
    <2>2. PICK e \in evidence : Retained(p, e) # {} /\ r = ReboundEvidence(p, e)
      BY <1>2
    <2>3. r.intents = {After(p, i) : i \in Retained(p, e)}
      BY <1>1, <2>2, EvidenceAfter
    <2>4. PICK i \in Retained(p, e) : j = After(p, i)
      BY <2>1, <2>3
    <2> QED BY <1>3, <2>4
  <1>5. ASSUME NEW c \in Preserved(p)
        PROVE  /\ c \in claims /\ ReboundClaim(p, c) \in claims'
               /\ ReboundClaim(p, c).intents = {After(p, i) : i \in c.intents}
               /\ \A i \in c.intents : After(p, i) \in EvidenceFor'
    <2>1. c \in claims /\ Held(p, c)
      BY PreservedOf
    <2>2. PICK e \in c.support : e \in evidence
      BY <1>1, <2>1 DEF ClaimsStand
    <2>3. c.intents \subseteq Retained(p, e)
      BY <2>1, <2>2 DEF Held
    <2>4. \A i \in c.intents : After(p, i) \in EvidenceFor'
      BY <1>3, <2>2, <2>3
    <2>5. ReboundClaim(p, c).intents = {After(p, i) : i \in c.intents}
      BY <1>1, ClaimAfter
    <2> QED BY <1>2, <2>1, <2>4, <2>5
  <1>6. ASSUME NEW j \in Claimed'
        PROVE  j \in EvidenceFor' /\ \E i \in Claimed : j = After(p, i)
    <2>1. PICK r \in claims' : j \in r.intents
      BY DEF Claimed
    <2>2. PICK c \in Preserved(p) : r = ReboundClaim(p, c)
      BY <1>2
    <2>3. PICK i \in c.intents : j = After(p, i)
      BY <1>5, <2>1, <2>2
    <2>4. i \in Claimed
      BY <1>5 DEF Claimed
    <2> QED BY <1>5, <2>3, <2>4
  <1>7. ASSUME NEW c \in Preserved(p), NEW i \in c.intents
        PROVE  After(p, i) \in Claimed'
    BY <1>5 DEF Claimed
  <1> QED BY <1>4, <1>6, <1>7

\* An untouched intent that loses its claims is retrieved for, and none that
\* had no claim.
LEMMA RetrievedIsSelective ==
  ASSUME Inv, NEW p \in Patches, ApplyPatch(p), p.kind # "change_topic"
  PROVE  /\ Retrieve(p) \subseteq Intents(p) /\ New(p) \subseteq Retrieve(p)
         /\ \A i \in (Claimed \cap (intents \ p.targets)) \ Claimed' : i \in Retrieve(p)
         /\ \A i \in Retrieve(p) \cap (intents \ p.targets) : i \in Claimed
  <1>1. /\ WellFormed(p) /\ SelectiveTypeOK /\ NoneFromLater /\ ClaimsStand
        /\ Affected(p) = p.targets
    BY PatchShape DEF Inv, Affected
  <1>2. Retrieve(p) \subseteq Intents(p) /\ New(p) \subseteq Retrieve(p)
    BY <1>1, IntentsAfter DEF Retrieve
  <1>3. ASSUME NEW i \in (Claimed \cap (intents \ p.targets)) \ Claimed'
        PROVE  i \in Retrieve(p)
    <2>1. PICK c \in claims : i \in c.intents
      BY DEF Claimed
    <2>2. After(p, i) = i
      BY DEF After
    <2>3. c \notin Preserved(p)
      BY <2>1, <2>2, RecordsKept
    <2>4. i \in Intents(p)
      BY <1>1, <2>2, IntentsAfter
    <2>5. i \in c.intents \ Affected(p) /\ c \in claims \ Preserved(p)
      BY <1>1, <2>1, <2>3
    <2>6. i \in UNION {d.intents \ Affected(p) : d \in claims \ Preserved(p)}
      BY <2>5
    <2> QED BY <2>4, <2>6 DEF Retrieve
  <1>4. ASSUME NEW i \in Retrieve(p) \cap (intents \ p.targets)
        PROVE  i \in Claimed
    <2>1. i[2] # rev + 1
      <3>1. i[2] \in Nat /\ i[2] <= rev /\ rev \in Nat
        BY <1>1 DEF SelectiveTypeOK, NoneFromLater, Intent
      <3> QED BY <3>1
    <2>2. i \notin New(p) /\ \A k : i # Renewed(k)
      BY <2>1 DEF New, Renewed
    <2>3. CASE i \in UNION {c.intents \ Affected(p) : c \in claims \ Preserved(p)}
      BY <2>3 DEF Claimed
    <2>4. CASE \E k \in EntityDependents(p) : i = After(p, k)
      <3>1. PICK k \in EntityDependents(p) : i = After(p, k)
        BY <2>4
      <3>2. i = k
        BY <2>2, <3>1 DEF After
      <3>3. EntityDependents(p) \subseteq Claimed
        BY DEF EntityDependents, Claimed
      <3> QED BY <3>1, <3>2, <3>3
    <2> QED BY <2>2, <2>3, <2>4 DEF Retrieve
  <1> QED BY <1>2, <1>3, <1>4

\* A patch is one of the abstract patches.
LEMMA PatchOfRecords ==
  ASSUME Inv, NEW p \in Patches, ApplyPatch(p)
  PROVE  Records!Patch
  <1>1. /\ WellFormed(p) /\ Focused(p) /\ Admissible(p)
        /\ SelectiveTypeOK /\ NoneFromLater /\ ClaimsStand
    BY PatchShape DEF Inv, ApplyPatch
  <1>2. rev' = rev + 1 /\ intents' = Intents(p) /\ Sought' = Retrieve(p)
    BY DEF ApplyPatch, Sought
  <1> DEFINE N == p.fresh \X {rev + 1}
  <1>3. New(p) = N
    BY DEF New
  <1>4. CASE p.kind = "change_topic"
    <2>1. EvidenceFor' = {} /\ Claimed' = {}
      BY <1>4, RecordsKept
    <2>2. Intents(p) = N
      BY <1>3, <1>4 DEF Intents
    <2>3. Retrieve(p) = N
      BY <1>3, <2>2 DEF Retrieve
    <2>4. p.fresh \in (SUBSET Slot) \ {{}}
      BY <1>1, <1>4 DEF Admissible, WellFormed
    <2>5. Records!ChangeTopic(p.fresh)
      BY <1>2, <2>1, <2>2, <2>3
      DEF Records!ChangeTopic, Records!Fresh, EvidenceFor, Claimed, Sought
    <2> QED BY <1>2, <2>4, <2>5 DEF Records!Patch
  <1>5. CASE p.kind # "change_topic"
    <2>1. /\ Retrieve(p) \subseteq Intents(p) /\ N \subseteq Retrieve(p)
          /\ (Claimed \cap (intents \ p.targets)) \ Claimed' \subseteq Retrieve(p)
          /\ Retrieve(p) \cap (intents \ p.targets) \subseteq Claimed
      BY <1>3, <1>5, RetrievedIsSelective
    <2>2. Records!Selects(intents \ p.targets)
      BY <1>2, <2>1 DEF Records!Selects, Claimed, Sought
    <2>3. \A S : Records!Moved(p.targets, S) = {After(p, i) : i \in S}
      BY DEF Records!Moved, After, Renewed
    <2>4. /\ EvidenceFor' \subseteq {After(p, i) : i \in EvidenceFor}
          /\ Claimed' \subseteq EvidenceFor' \cap {After(p, i) : i \in Claimed}
      BY RecordsKept
    <2>5. Intents(p) = N \cup {After(p, i) : i \in intents}
      BY <1>3, <1>5 DEF Intents
    <2>6. CASE p.kind = "add_question"
      <3>1. p.targets = {} /\ p.fresh \in (SUBSET Slot) \ {{}}
        BY <1>1, <2>6 DEF Admissible, WellFormed
      <3>2. \A S : {After(p, i) : i \in S} = S
        BY <3>1 DEF After
      <3>3. \A i \in intents : i[1] \notin p.fresh
        BY <2>6, QuestionsOfNewSlots
      <3>4. Records!Selects(intents)
        BY <1>2, <2>1, <3>1 DEF Records!Selects, Claimed, Sought
      <3>5. Records!Ask(p.fresh)
        <4>1. /\ intents' = intents \cup N /\ EvidenceFor' \subseteq EvidenceFor
              /\ Claimed' \subseteq EvidenceFor' \cap Claimed /\ N \subseteq Sought'
          BY <1>2, <2>1, <2>4, <2>5, <3>2
        <4> QED BY <3>3, <3>4, <4>1
                DEF Records!Ask, Records!Fresh, EvidenceFor, Claimed, Sought
      <3> QED BY <1>2, <3>1, <3>5 DEF Records!Patch
    <2>7. CASE p.kind # "add_question"
      <3>1. p.fresh = {} /\ p.targets \in (SUBSET intents) \ {{}}
        BY <1>1, <1>5, <2>7 DEF Admissible, Focused
      <3>2. intents' = {After(p, i) : i \in intents}
        BY <1>2, <2>5, <3>1
      <3>3. Records!Revise(p.targets)
        BY <2>2, <2>3, <2>4, <3>2 DEF Records!Revise, EvidenceFor, Claimed
      <3> QED BY <1>2, <3>1, <3>3 DEF Records!Patch
    <2> QED BY <2>6, <2>7
  <1> QED BY <1>4, <1>5

\* The other steps are the abstract ones, or leave the records as they are.
LEMMA StepOfRecords ==
  ASSUME Inv, PlanInv, [Next]_vars
  PROVE  [Records!RecordsNext]_<<rev, intents, EvidenceFor, Claimed, Sought>>
  <1>1. rev \in Nat /\ plan.candidate \in 0..rev
    BY DEF Inv, SelectiveTypeOK, PlanInv
  <1>2. ASSUME rev' = rev + 1, UNCHANGED plan
        PROVE  Sought' = {}
    BY <1>1, <1>2 DEF Sought
  <1>3. CASE \E p \in Patches : ApplyPatch(p)
    BY <1>3, PatchOfRecords DEF Records!RecordsNext
  <1>4. CASE Aside
    <2>1. rev' = rev + 1 /\ UNCHANGED <<intents, evidence, claims, plan>>
      BY <1>4 DEF Aside
    <2>2. Sought' = {}
      BY <1>2, <2>1
    <2>3. Records!Aside
      BY <2>1, <2>2 DEF Records!Aside, Sought
    <2> QED BY <2>3 DEF Records!RecordsNext
  <1>5. CASE RecordEvidence
    <2>1. PICK x \in Passage, S \in (SUBSET intents) \ {{}}, old \in {evidence, {}} :
            evidence' = old \cup {[passage |-> x, intents |-> S, deps |-> {}]}
      BY <1>5 DEF RecordEvidence
    <2>2. rev' = rev + 1 /\ claims' = {} /\ UNCHANGED <<intents, plan>>
      BY <1>5 DEF RecordEvidence
    <2> DEFINE known == UNION {e.intents : e \in old}
    <2>3. known \in {EvidenceFor, {}}
      BY <2>1 DEF EvidenceFor
    <2>4. EvidenceFor' = known \cup S
      <3>1. \A e \in evidence' : e \in old \/ e = [passage |-> x, intents |-> S, deps |-> {}]
        BY <2>1
      <3>2. old \subseteq evidence' /\ [passage |-> x, intents |-> S, deps |-> {}] \in evidence'
        BY <2>1
      <3>3. EvidenceFor' \subseteq known \cup S
        BY <3>1 DEF EvidenceFor
      <3>4. S \subseteq EvidenceFor' /\ known \subseteq EvidenceFor'
        BY <3>2 DEF EvidenceFor
      <3> QED BY <3>3, <3>4
    <2>5. Claimed' = {} /\ Sought' = {}
      BY <1>2, <2>2 DEF Claimed
    <2> HIDE DEF known
    <2>6. Records!Record
      BY <2>1, <2>2, <2>3, <2>4, <2>5 DEF Records!Record, EvidenceFor, Claimed, Sought
    <2> QED BY <2>6 DEF Records!RecordsNext
  <1>6. CASE RecordSelectiveEvidence
    <2>1. PICK x \in Passage, i \in plan.retrieve \cap intents :
            evidence' = evidence \cup {[passage |-> x, intents |-> {i},
                                        deps |-> Concerning({i}, constraints)]}
      BY <1>6 DEF RecordSelectiveEvidence
    <2>2. plan.candidate = rev /\ UNCHANGED <<rev, intents, claims, plan>>
      BY <1>6 DEF RecordSelectiveEvidence
    <2>3. EvidenceFor' = EvidenceFor \cup {i}
      <3>1. \A e \in evidence' : e \in evidence \/ e.intents = {i}
        BY <2>1
      <3>2. evidence \subseteq evidence' /\ \E e \in evidence' : e.intents = {i}
        <4> DEFINE e == [passage |-> x, intents |-> {i}, deps |-> Concerning({i}, constraints)]
        <4>1. e \in evidence' /\ e.intents = {i} /\ evidence \subseteq evidence'
          BY <2>1
        <4> HIDE DEF e
        <4> QED BY <4>1
      <3>3. EvidenceFor' \subseteq EvidenceFor \cup {i}
        BY <3>1 DEF EvidenceFor
      <3>4. EvidenceFor \subseteq EvidenceFor' /\ i \in EvidenceFor'
        BY <3>2 DEF EvidenceFor
      <3> QED BY <3>3, <3>4
    <2>4. i \in Sought \cap intents /\ UNCHANGED <<Claimed, Sought>>
      BY <2>1, <2>2 DEF Sought, Claimed
    <2>5. Records!Admit
      BY <2>2, <2>3, <2>4 DEF Records!Admit, EvidenceFor, Claimed, Sought
    <2> QED BY <2>5 DEF Records!RecordsNext
  <1>7. CASE Publish
    <2>1. rev' = rev + 1 /\ UNCHANGED <<intents, evidence, plan>>
      BY <1>7 DEF Publish
    <2>2. /\ \A c \in claims : \E d \in claims' : d.intents = c.intents
          /\ \A d \in claims' : \/ \E c \in claims : d.intents = c.intents
                                \/ d.intents \subseteq intents /\ evidence # {}
      BY <1>7, PublishedClaims
    <2>3. Claimed \subseteq Claimed'
      BY <2>2 DEF Claimed
    <2>4. \A i \in Claimed' : i \in Claimed \/ (i \in intents /\ evidence # {})
      BY <2>2 DEF Claimed
    <2>5. Claimed' # Claimed => EvidenceFor # {}
      <3>1. SUFFICES ASSUME evidence # {} PROVE EvidenceFor # {}
        BY <2>3, <2>4
      <3>2. PICK e \in evidence : e.intents # {}
        BY <3>1 DEF PlanInv
      <3>3. e.intents \subseteq EvidenceFor
        BY DEF EvidenceFor
      <3> QED BY <3>2, <3>3
    <2>6. Sought' = {} /\ UNCHANGED EvidenceFor
      BY <1>2, <2>1 DEF EvidenceFor
    <2>7. Records!Publish
      BY <2>1, <2>3, <2>4, <2>5, <2>6 DEF Records!Publish, EvidenceFor, Claimed, Sought
    <2> QED BY <2>7 DEF Records!RecordsNext
  <1>8. CASE Recreate
    <2>1. /\ rev' = 0 /\ \E S \in (SUBSET Slot) \ {{}} : intents' = S \X {0}
          /\ EvidenceFor' = {} /\ Claimed' = {} /\ Sought' = {}
      BY <1>8 DEF Recreate, EvidenceFor, Claimed, Sought, NoPlan
    <2>2. Records!Restart
      BY <2>1 DEF Records!Restart, EvidenceFor, Claimed, Sought
    <2> QED BY <2>2 DEF Records!RecordsNext
  <1>9. CASE Generate \/ Discard \/ UNCHANGED vars
    <2>1. UNCHANGED <<rev, intents, evidence, claims, plan>>
      BY <1>9 DEF Generate, Discard, vars
    <2> QED BY <2>1 DEF EvidenceFor, Claimed, Sought
  <1> QED BY <1>3, <1>4, <1>5, <1>6, <1>7, <1>8, <1>9 DEF Next

\* What the patches, answers and retrievals do to the records of a session is
\* what module SessionRecords promises, whatever the dependencies between them.
THEOREM UpdateImplementsRecords == Spec => ImplementsRecords
  <1>1. Init => Records!RecordsInit /\ PlanInv
    BY DEF Init, NoPlan, PlanInv, Records!RecordsInit
  <1>2. Spec => [](Inv /\ PlanInv)
    <2>1. Inv /\ PlanInv /\ [Next]_vars => PlanInv'
      BY PlanInvStep
    <2> QED BY <1>1, <2>1, SelectiveInvariance, PTL DEF Spec
  <1>3. Inv /\ PlanInv /\ [Next]_vars => [Records!RecordsNext]_(Records!records)
    BY StepOfRecords DEF Records!records, EvidenceFor, Claimed, Sought
  <1> QED BY <1>1, <1>2, <1>3, PTL DEF Spec, ImplementsRecords, Records!RecordsSpec
=============================================================================
