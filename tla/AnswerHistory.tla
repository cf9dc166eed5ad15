---------------------------- MODULE AnswerHistory ----------------------------
(***************************************************************************)
(* What a Phase 4 session keeps of its past (phase4.py): every write goes  *)
(* through _bounded, which evicts old records, and through the contract    *)
(* of Phase4SessionState.  Evidence and claims are lists in the order of   *)
(* recording; a publication reconciles the claims of the new answer with   *)
(* those that are current and those of its parent version.                 *)
(*                                                                         *)
(* A claim's content is its signature: what it says (text and citations)   *)
(* and the IDs of the intents it answers.  An intent's ID is its slot and  *)
(* the revision that gave it that ID, as in module SelectiveUpdate: a      *)
(* patch that revises an intent gives it a new one, also in the claims     *)
(* kept for it.  Claim IDs are <<k>> as the provider gives them, or <<k,   *)
(* version, content>> for the digest given on a collision.                 *)
(***************************************************************************)
EXTENDS Integers, SequencesExt

CONSTANTS
  Citable,     \* chunks that retrieval finds
  Cites,       \* the chunks each statement cites; its domain is the statements
  Slot,        \* information needs of the session
  Offers,      \* the claims a provider may return: sequences of [id, says, about]
  MaxRecords,  \* max_records_per_session
  MaxRevision  \* bound of the model: state revisions

Statement == DOMAIN Cites
ASSUME HistoryAssumption ==
  /\ Cites \in [Statement -> (SUBSET Citable) \ {{}}]
  /\ Offers \subseteq Seq([id : Seq(Nat), says : Statement, about : (SUBSET Slot) \ {{}}])
  /\ \A offer \in Offers : IsInjective(offer) /\ \A k \in DOMAIN offer : Len(offer[k].id) = 1
  /\ MaxRecords \in Nat \ {0} /\ MaxRevision \in Nat

VARIABLES
  memory,   \* the session
  refusal   \* how the last write was refused, "no" if it was not

historyVars == <<memory, refusal>>

\* `intents' has the revision each intent has its ID from, `at' is a record's
\* ID; `strained' is a history: since the last publication more records were in
\* use than may be kept.
Fresh ==
  [revision |-> 0, retrieval |-> 0, planned |-> 0, intents |-> [s \in Slot |-> 0],
   evidence |-> <<>>, claims |-> <<>>, versions |-> <<>>, pointer |-> 0, strained |-> FALSE]
HistoryInit == memory = Fresh /\ refusal = "no"

Ids(items) == {items[k].at : k \in DOMAIN items}
\* Those of some items, in their order (a comprehension of the code).
Those(items, wanted) ==
  FoldLeft(LAMBDA those, item : IF item \in wanted THEN Append(those, item) ELSE those, <<>>, items)
CurrentOf(items) == Those(items, {item \in ToSet(items) : item.current})
Retire(items) == [k \in DOMAIN items |-> [items[k] EXCEPT !.current = FALSE]]
Published(m) ==
  UNION {Ids(v.claims) : v \in {v \in ToSet(m.versions) : v.number = m.pointer}}

-----------------------------------------------------------------------------
(* Writing.                                                                *)

NewestOf(items, n) == SubSeq(items, IF Len(items) > n THEN Len(items) - n + 1 ELSE 1, Len(items))

\* keep: what is in use moves to the end, and of the rest only the newest stay
\* (all of it, when nothing else should: the slice [-0:]).
Keep(items, inUse) ==
  LET used == Those(items, {item \in ToSet(items) : item.at \in inUse})
      rest == Those(items, {item \in ToSet(items) : item.at \notin inUse})
      room == MaxRecords - Len(used)
  IN  IF Len(items) <= MaxRecords THEN items
      ELSE NewestOf((IF room > 0 THEN NewestOf(rest, room) ELSE rest) \o used, MaxRecords)

KeepVersions(m) ==
  LET newest == NewestOf(m.versions, MaxRecords)
      current == Those(m.versions, {v \in ToSet(m.versions) : v.number = m.pointer})
  IN  IF current = <<>> \/ current[1] \in ToSet(newest) THEN newest
      ELSE current \o SubSeq(newest, 1, Len(newest) - 1)

\* Mutant: the claims of the publication are not in use.
ClaimsInUseBug(m) == Ids(CurrentOf(m.claims))
ClaimsInUse(m) == Ids(CurrentOf(m.claims)) \cup Published(m)
EvidenceInUse(m, claims) ==
  Ids(CurrentOf(m.evidence))
    \cup UNION {c.support : c \in {c \in ToSet(claims) : c.at \in Published(m)}}

Bounded(m) ==
  LET claims == Keep(m.claims, ClaimsInUse(m))
  IN  [m EXCEPT !.claims = claims,
                !.evidence = Keep(m.evidence, EvidenceInUse(m, claims)),
                !.versions = KeepVersions(m)]

\* More is in use than may be kept.
Crowded(m) ==
  \/ Cardinality(ClaimsInUse(m)) > MaxRecords
  \/ Cardinality(EvidenceInUse(m, m.claims)) > MaxRecords

\* The references _clone checks: what is current has a record, once, and
\* claims rest on current evidence.
Sound(m, b) ==
  /\ Ids(CurrentOf(m.claims)) \subseteq Ids(b.claims)
  /\ Ids(CurrentOf(m.evidence)) \subseteq Ids(b.evidence)
  /\ \A list \in {b.claims, b.evidence} : Cardinality(Ids(list)) = Len(list)
  /\ \A c \in ToSet(CurrentOf(b.claims)) : c.support \subseteq Ids(CurrentOf(b.evidence))

\* _write: _assert_active_bounds, _bounded and the contract; a write that
\* raises leaves the session as it was.
Refused(why) == refusal' = why /\ UNCHANGED memory
Write(m) ==
  IF Len(CurrentOf(m.claims)) > MaxRecords \/ Len(CurrentOf(m.evidence)) > MaxRecords
  THEN Refused("bound")
  ELSE LET bounded == Bounded(m)
       IN  IF Sound(m, bounded)
           THEN memory' = [bounded EXCEPT !.strained = @ \/ Crowded(m)] /\ refusal' = "no"
           ELSE Refused(IF Crowded(m) THEN "crowded" ELSE "invalid")

-----------------------------------------------------------------------------
(* Evidence, and patches.                                                  *)

Evidence(at, chunk) == [at |-> at, chunk |-> chunk, current |-> TRUE]
Without(items, at) == Those(items, {item \in ToSet(items) : item.at # at})
Advanced == [memory EXCEPT !.revision = @ + 1]

\* record_evidence: a newer retrieval revision supersedes the old evidence, and
\* no claim stays current; the same passage again is a repeated current ID,
\* which the contract refuses.
RecordEvidence(chunk, newer) ==
  LET retrieval == memory.retrieval + (IF newer THEN 1 ELSE 0)
      at == <<retrieval, "found", chunk>>
      old == IF newer THEN Retire(memory.evidence) ELSE memory.evidence
  IN  /\ memory.revision < MaxRevision
      /\ IF at \in Ids(CurrentOf(old)) THEN Refused("repeated")
         ELSE Write([Advanced EXCEPT !.retrieval = retrieval,
                                     !.evidence = Append(Without(old, at), Evidence(at, chunk)),
                                     !.claims = Retire(@)])

\* record_selective_evidence, for the plan of the candidate revision.
RecordSelectiveEvidence(chunk) ==
  LET at == <<memory.revision, "task", chunk>>
  IN  /\ memory.planned = memory.revision /\ memory.planned # 0
      /\ Write([memory EXCEPT !.evidence = Append(Without(@, at), Evidence(at, chunk))])

\* The content of a kept claim: its revised intents have their new IDs.
Renewed(content, slots, now) ==
  [says |-> content.says,
   intents |-> [s \in DOMAIN content.intents |-> IF s \in slots THEN now ELSE content.intents[s]]]

\* A semantic patch that revises the intents of some slots: kept evidence and
\* kept claims that rest on it are recorded again right after the record they
\* replace.  A new question or topic is a slot revised with no claim kept for it.
Patch(slots, evidence, claims) ==
  LET now == memory.revision + 1
      Rebound(at) == <<now, "reuse", CHOOSE k \in DOMAIN memory.evidence : memory.evidence[k].at = at>>
      again(e) == IF e.at \in evidence THEN <<Evidence(Rebound(e.at), e.chunk)>> ELSE <<>>
      stated(c) == IF c.at \in claims
                   THEN <<[c EXCEPT !.at = <<c.id, "r", now>>, !.content = Renewed(@, slots, now),
                                    !.support = {Rebound(e) : e \in @}]>>
                   ELSE <<>>
      Old(item) == [item EXCEPT !.current = FALSE]
  IN  /\ memory.revision < MaxRevision
      /\ Write([Advanced EXCEPT
           !.retrieval = @ + 1, !.planned = now,
           !.intents = [s \in Slot |-> IF s \in slots THEN now ELSE @[s]],
           !.evidence = FlattenSeq([k \in DOMAIN @ |-> <<Old(@[k])>> \o again(@[k])]),
           !.claims = FlattenSeq([k \in DOMAIN @ |-> <<Old(@[k])>> \o stated(@[k])])])

-----------------------------------------------------------------------------
(* Publishing, _publish_answer_locked.                                     *)

Parents ==
  LET kept == Those(memory.claims, {c \in ToSet(memory.claims) : c.at \in Published(memory)})
  IN  IF kept = <<>> THEN CurrentOf(memory.claims) ELSE kept

Nobody == [at |-> <<>>, id |-> <<>>]
First(matching) == IF matching = <<>> THEN Nobody ELSE Head(matching)

\* An entry of the answer: its claim ID and content, the current record it is
\* (Nobody if it is new), and the record it follows.
Entry(id, content, source, previous) ==
  [id |-> id, content |-> content, source |-> source, previous |-> previous]
Carried(c) ==
  LET parent == First(Those(Parents, {p \in ToSet(Parents) : p.id = c.id}))
  IN  Entry(c.id, c.content, c, IF parent = Nobody THEN c ELSE parent)

Named(claim, taken, version) ==
  IF claim.id \in taken THEN <<claim.id[1], version, claim.content>> ELSE claim.id

\* One more claim of the answer: a current one with the same content keeps its
\* ID; another one gets an ID nobody has or had.
Reconcile(entries, claim, version) ==
  LET current == CurrentOf(memory.claims)
      matched == {e.source : e \in ToSet(entries)}
      same == First(Those(current, {c \in ToSet(current) \ matched : c.content = claim.content}))
      namesake == First(Those(current \o Parents, {c \in ToSet(current \o Parents) : c.id = claim.id}))
      taken == {c.id : c \in ToSet(memory.claims)} \cup {e.id : e \in ToSet(entries)}
  IN  Append(entries, IF same # Nobody THEN Carried(same)
                      ELSE Entry(Named(claim, taken, version), claim.content, Nobody, namesake))

Given(answer, version) ==
  FoldLeft(LAMBDA entries, claim : Reconcile(entries, claim, version), <<>>, answer)
\* Mutant: the answer is what the provider returned.
EntriesBug(answer, version) == Given(answer, version)
\* A current claim the provider did not return is carried into the answer.
Entries(answer, version) ==
  LET current == CurrentOf(memory.claims)
      given == Given(answer, version)
      left == Those(current, ToSet(current) \ {e.source : e \in ToSet(given)})
  IN  given \o [k \in DOMAIN left |-> Carried(left[k])]

\* The support of a statement: the latest current evidence of each cited chunk.
Support(says) ==
  LET current == CurrentOf(memory.evidence)
  IN  {current[k].at : k \in {k \in DOMAIN current :
         /\ current[k].chunk \in Cites[says]
         /\ \A j \in (k + 1)..Len(current) : current[j].chunk # current[k].chunk}}

Change(kind, from, to) == [kind |-> kind, from |-> from, to |-> to]
Changes(entries) ==
  LET follows == {e \in ToSet(entries) : e.previous # Nobody}
  IN  {Change(IF e.previous.content = e.content THEN "preserved" ELSE "modified", e.previous.id, e.id) :
         e \in follows}
      \cup {Change("added", <<>>, e.id) : e \in ToSet(entries) \ follows}
      \cup {Change("removed", p.id, <<>>) :
              p \in {p \in ToSet(Parents) : p.at \notin {e.previous.at : e \in follows}}}

ClaimRecord(entry, version) ==
  [at |-> <<entry.id, "v", version>>, id |-> entry.id, content |-> entry.content,
   support |-> Support(entry.content.says), current |-> TRUE]
\* The version of an answer; `held' (a history) are the claims that were
\* current before, and `whole' whether nothing in use had been crowded out.
Version(number, entries) ==
  [number |-> number, parent |-> memory.pointer,
   claims |-> [k \in DOMAIN entries |->
                [at |-> <<entries[k].id, "v", number>>, id |-> entries[k].id, content |-> entries[k].content]],
   changes |-> Changes(entries), whole |-> ~memory.strained,
   held |-> {c.id : c \in ToSet(CurrentOf(memory.claims))}]

PublishClaims(answer) ==
  LET version == memory.pointer + 1
      entries == Entries(answer, version)
  IN  /\ memory.revision < MaxRevision
      /\ \A k \in DOMAIN answer :
           Cites[answer[k].content.says] \subseteq {e.chunk : e \in ToSet(CurrentOf(memory.evidence))}
      /\ Write([Advanced EXCEPT
           !.claims = Retire(@) \o [k \in DOMAIN entries |-> ClaimRecord(entries[k], version)],
           !.versions = Append(@, Version(version, entries)),
           !.pointer = version, !.planned = 0, !.strained = FALSE])

\* A provider's claims are about the intents of the session.
Stated(offer) ==
  [k \in DOMAIN offer |->
     [id |-> offer[k].id,
      content |-> [says |-> offer[k].says, intents |-> [s \in offer[k].about |-> memory.intents[s]]]]]

\* publish_presentation publishes the current claims again.
Present ==
  LET current == CurrentOf(memory.claims)
  IN  /\ current # <<>>
      /\ PublishClaims([k \in DOMAIN current |-> [id |-> current[k].id, content |-> current[k].content]])

HistoryNext ==
  \/ \E chunk \in Citable : \/ \E newer \in BOOLEAN : RecordEvidence(chunk, newer)
                          \/ RecordSelectiveEvidence(chunk)
  \/ \E evidence \in SUBSET Ids(CurrentOf(memory.evidence)) :
       \E claims \in SUBSET {c.at : c \in {c \in ToSet(CurrentOf(memory.claims)) : c.support \subseteq evidence}} :
         \E slots \in SUBSET Slot : Patch(slots, evidence, claims)
  \/ \E offer \in Offers : PublishClaims(Stated(offer))
  \/ Present

-----------------------------------------------------------------------------
\* Eviction never takes what is needed: a write is refused by the contract only
\* if more records are in use than may be kept, and the current answer keeps
\* its version, and as long as nothing was crowded out its claims and their
\* evidence (_bounded, _write).
AnswerIsKept ==
  /\ refusal # "invalid"
  /\ memory.pointer # 0 =>
       /\ memory.pointer \in {v.number : v \in ToSet(memory.versions)}
       /\ ~memory.strained =>
            /\ Published(memory) \subseteq Ids(memory.claims)
            /\ EvidenceInUse(memory, memory.claims) \subseteq Ids(memory.evidence)

\* Two contents are of one matter: the same statement for the same questions,
\* whatever IDs their intents had.
SameMatter(a, b) == a.says = b.says /\ DOMAIN a.intents = DOMAIN b.intents

\* A version accounts for its parent: each of its claims comes from one change,
\* counted preserved if the parent has the claim it names with this signature,
\* each claim of the parent goes into one or is removed, an ID they share means
\* the same matter (so that a claim modified under its ID only has intents that
\* a patch renamed), and a claim that was still current keeps its ID (unless
\* records of the parent were crowded out before).  A claim counted preserved
\* need not keep its ID: a retired one that is stated again gets a new one.
VersionsExplained ==
  \A v, p \in ToSet(memory.versions) :
    v.parent = p.number /\ v.whole =>
      LET mine == ToSet(v.claims)  theirs == ToSet(p.claims)
      IN  /\ Cardinality({c.id : c \in mine}) = Len(v.claims)
          /\ \A c \in mine : \E change \in v.changes :
               /\ change.to = c.id
               /\ \A other \in v.changes : other.to = c.id => other = change
               /\ change.kind = "preserved" =>
                    \E d \in theirs : d.id = change.from /\ SameMatter(d.content, c.content)
               /\ (\E d \in theirs : d.id = change.from /\ d.content = c.content) => change.kind = "preserved"
          /\ \A d \in theirs : \E change \in v.changes : change.from = d.id
          /\ \A c \in mine, d \in theirs : c.id = d.id => SameMatter(c.content, d.content)
          /\ v.held \subseteq {c.id : c \in mine}
=============================================================================
