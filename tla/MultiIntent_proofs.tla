------------------------- MODULE MultiIntent_proofs -------------------------
(***************************************************************************)
(* However many calls of a retriever overlap and whatever is answered: the *)
(* last decomposition and the last result never go back to an older one,   *)
(* plans keep their request, outcomes follow their dependencies, and what  *)
(* is reused is of one search, for the same intent unless calls overtake.  *)
(***************************************************************************)
EXTENDS MultiIntent, FiniteSetTheorems, TLAPS

\* Calls are numbered by revisions and retrievals.
CallsOK ==
  /\ \E S : job \in Seq(S)
  /\ \A j \in Jobs : /\ {"parent", "retrieval"} \subseteq DOMAIN job[j]
                     /\ job[j].parent \in Nat /\ job[j].retrieval \in Nat

\* The last decomposition is one of the revision of the latest plan.
KeysAgree ==
  /\ latest = NoKey <=> lastDecomposition = NoKey
  /\ latest[1] \in Nat /\ lastDecomposition[1] = latest[1]

MultiInv == CallsOK /\ KeysAgree /\ lastResult \in Nat \X Nat

\* What a step may do to what is kept as last.
LastMovesOn ==
  /\ lastResult'[1] >= lastResult[1]
  /\ lastResult'[1] = lastResult[1] => lastResult'[2] >= lastResult[2]
  /\ lastDecomposition # NoKey => lastDecomposition'[1] >= lastDecomposition[1]

\* A session starts within the invariant.
LEMMA MultiInitInv == MultiInit => MultiInv
  <1> SUFFICES ASSUME MultiInit
               PROVE  MultiInv
    OBVIOUS
  <1>1. job \in Seq({}) /\ Jobs = {}
    BY DEF MultiInit, Jobs
  <1>2. CallsOK
    BY <1>1 DEF CallsOK
  <1> QED BY <1>2 DEF MultiInit, MultiInv, KeysAgree, NoKey

\* Where the last plan and result stay, nothing moves.
LEMMA LastStays ==
  ASSUME MultiInv, UNCHANGED <<latest, lastDecomposition, lastResult>>
  PROVE  KeysAgree' /\ lastResult' \in Nat \X Nat /\ LastMovesOn
  BY DEF MultiInv, KeysAgree, LastMovesOn

\* The next call is numbered.
LEMMA RetrievalNumbered ==
  ASSUME CallsOK
  PROVE  NextRetrieval \in Nat /\ LastParent \in Nat
  <1>1. Len(job) \in Nat /\ Jobs = 1..Len(job)
    BY DEF CallsOK, Jobs
  <1>2. IsFiniteSet(Searches)
    <2>1. IsFiniteSet(Jobs)
      <3>1. IsFiniteSet(1..Len(job))
        BY <1>1, FS_Interval
      <3> QED BY <1>1, <3>1
    <2>2. Searches \subseteq Jobs
      BY DEF Searches
    <2> QED BY <2>1, <2>2, FS_Subset
  <1>3. NextRetrieval \in Nat
    BY <1>2, FS_CardinalityType DEF NextRetrieval
  <1>4. LastParent \in Nat
    BY <1>1 DEF LastParent, CallsOK
  <1> QED BY <1>3, <1>4

\* A new call is numbered and nothing is published by it.
LEMMA CallKeepsInv ==
  ASSUME MultiInv, NEW p \in Nat, NEW t, NEW r \in Nat, Call(p, t, r)
  PROVE  MultiInv' /\ LastMovesOn
  <1>1. PICK S : job \in Seq(S)
    BY DEF MultiInv, CallsOK
  <1>2. job' = Append(job, Called(p, t, r))
    BY DEF Call
  <1>3. job' \in Seq(S \cup {Called(p, t, r)}) /\ Len(job') = Len(job) + 1
    BY <1>1, <1>2
  <1>4. \A j \in DOMAIN job' : job'[j] = IF j \in DOMAIN job THEN job[j] ELSE Called(p, t, r)
    BY <1>1, <1>2
  <1>5. CallsOK'
    BY <1>3, <1>4 DEF CallsOK, Called, Jobs, MultiInv
  <1> QED BY <1>5, LastStays DEF Call, MultiInv

\* A call keeps its numbers while it goes on.
LEMMA CallGoesOn ==
  ASSUME CallsOK, NEW j \in Jobs, NEW call,
         job' = [job EXCEPT ![j] = call],
         DOMAIN call = DOMAIN job[j],
         call.parent = job[j].parent, call.retrieval = job[j].retrieval
  PROVE  CallsOK'
  <1>1. PICK S : job \in Seq(S)
    BY DEF CallsOK
  <1>2. job \in Seq(S \cup {call})
    BY <1>1
  <1>3. job' \in Seq(S \cup {call})
    BY <1>2 DEF Jobs
  <1>4. Jobs' = Jobs /\ \A k \in Jobs : job'[k] = IF k = j THEN call ELSE job[k]
    BY <1>1, <1>3 DEF Jobs
  <1> QED BY <1>3, <1>4 DEF CallsOK

\* A call that moves stays numbered as it was.
LEMMA AtChanges ==
  ASSUME CallsOK, NEW j \in Jobs, NEW point, job' = [job EXCEPT ![j].at = point]
  PROVE  CallsOK'
  <1> DEFINE call == [job[j] EXCEPT !.at = point]
  <1>1. DOMAIN call = DOMAIN job[j] /\ call.parent = job[j].parent /\ call.retrieval = job[j].retrieval
    BY DEF CallsOK
  <1>2. job' = [job EXCEPT ![j] = call]
    OBVIOUS
  <1> HIDE DEF call
  <1> QED BY <1>1, <1>2, CallGoesOn

\* A plan is only kept as the last one when its revision is not older.
LEMMA CommitKeepsInv ==
  ASSUME MultiInv, NEW j \in Jobs, NEW plan, Commit(j, plan)
  PROVE  MultiInv' /\ LastMovesOn
  <1>1. /\ lastResult' = lastResult
        /\ lastDecomposition' = IF latest = NoKey \/ job[j].parent >= latest[1]
                                THEN Key(j) ELSE lastDecomposition
        /\ latest' = IF latest = NoKey \/ job[j].parent > latest[1] THEN Key(j) ELSE latest
        /\ job' = [job EXCEPT ![j].at = Decomposed(j)]
    BY DEF Commit
  <1>2. CallsOK'
    BY <1>1, AtChanges DEF MultiInv
  <1>3. Key(j)[1] = job[j].parent /\ job[j].parent \in Nat
    BY DEF Key, MultiInv, CallsOK
  <1>4. Key(j) # NoKey
    BY DEF Key, NoKey
  <1>5. KeysAgree'
    BY <1>1, <1>3, <1>4 DEF MultiInv, KeysAgree
  <1>6. LastMovesOn
    BY <1>1, <1>3 DEF MultiInv, KeysAgree, LastMovesOn
  <1> QED BY <1>1, <1>2, <1>5, <1>6 DEF MultiInv

\* A repaired or abandoned provider call publishes its fallback at most.
LEMMA RepairKeepsInv ==
  ASSUME MultiInv, NEW j \in Jobs, Repair(j)
  PROVE  MultiInv' /\ LastMovesOn
  <1>1. CASE Commit(j, Fallback(job[j].text))
    BY <1>1, CommitKeepsInv
  <1>2. CASE UNCHANGED <<job, owner, cache, latest, lastDecomposition, results, lastResult>>
    BY <1>2, LastStays DEF MultiInv, CallsOK, Jobs
  <1> QED BY <1>1, <1>2 DEF Repair

\* A result is only kept as the last one when it is not older.
LEMMA SearchKeepsInv ==
  ASSUME MultiInv, NEW j \in Jobs, Search(j)
  PROVE  MultiInv' /\ LastMovesOn
  <1>1. /\ UNCHANGED <<latest, lastDecomposition>>
        /\ lastResult' = IF Newest(job[j].retrieval, job[j].parent)
                         THEN <<job[j].retrieval, job[j].parent>> ELSE lastResult
    BY DEF Search
  <1>2. PICK failed : job' = [job EXCEPT ![j] = Returned(job[j], failed)]
    BY DEF Search
  <1>3. /\ DOMAIN Returned(job[j], failed) = DOMAIN job[j]
        /\ Returned(job[j], failed).parent = job[j].parent
        /\ Returned(job[j], failed).retrieval = job[j].retrieval
    BY DEF Returned, MultiInv, CallsOK
  <1>4. CallsOK'
    BY <1>2, <1>3, CallGoesOn DEF MultiInv
  <1>5. job[j].retrieval \in Nat /\ job[j].parent \in Nat
    BY DEF MultiInv, CallsOK
  <1>6. lastResult' \in Nat \X Nat /\ LastMovesOn
    BY <1>1, <1>5 DEF Newest, LastMovesOn, MultiInv, KeysAgree
  <1> QED BY <1>1, <1>4, <1>6 DEF MultiInv, KeysAgree

\* Each step of a call.
LEMMA JobStepKeepsInv ==
  ASSUME MultiInv, NEW j \in Jobs, JobStep(j)
  PROVE  MultiInv' /\ LastMovesOn
  <1>1. CASE Lookup(j)
    <2>1. PICK point : job' = [job EXCEPT ![j].at = point]
      BY <1>1 DEF Lookup
    <2>2. CallsOK'
      BY <2>1, AtChanges DEF MultiInv
    <2> QED BY <1>1, <2>2, LastStays DEF Lookup, MultiInv
  <1>2. CASE Respond(j)
    BY <1>2, CommitKeepsInv, RepairKeepsInv DEF Respond
  <1>3. CASE TimesOut(j)
    BY <1>3, RepairKeepsInv DEF TimesOut
  <1>4. CASE Breaks(j)
    BY <1>4, CommitKeepsInv DEF Breaks
  <1>5. CASE ReadPrevious(j)
    <2> DEFINE previous == ResultOf(job[j].retrieval - 1)
               source == previous.key
               kept == [q \in Reusable(cache[Key(j)], previous.items) |-> previous.items[q]]
    <2>1. job' = [job EXCEPT ![j].at = "search", ![j].source = source, ![j].kept = kept]
      BY <1>5 DEF ReadPrevious
    <2> HIDE DEF source, kept
    <2> DEFINE call == [job[j] EXCEPT !.at = "search", !.source = source, !.kept = kept]
    <2>2. DOMAIN call = DOMAIN job[j] /\ call.parent = job[j].parent
          /\ call.retrieval = job[j].retrieval
      BY DEF MultiInv, CallsOK
    <2>3. job' = [job EXCEPT ![j] = call]
      BY <2>1
    <2> HIDE DEF call
    <2>4. CallsOK'
      BY <2>2, <2>3, CallGoesOn DEF MultiInv
    <2> QED BY <1>5, <2>4, LastStays DEF ReadPrevious, MultiInv
  <1>6. CASE Search(j)
    BY <1>6, SearchKeepsInv
  <1> QED BY <1>1, <1>2, <1>3, <1>4, <1>5, <1>6 DEF JobStep

\* Each step of the retriever.
LEMMA MultiStepKeepsInv ==
  ASSUME MultiInv, [MultiNext]_multiVars
  PROVE  MultiInv' /\ (LastMovesOn \/ UNCHANGED multiVars)
  <1>1. NextRetrieval \in Nat /\ LastParent \in Nat /\ LastParent + 1 \in Nat /\ 0 \in Nat
    BY RetrievalNumbered DEF MultiInv
  <1>2. CASE \E t \in Text : Ask(t)
    BY <1>1, <1>2, CallKeepsInv DEF Ask
  <1>3. CASE Finalise
    BY <1>1, <1>3, CallKeepsInv DEF Finalise
  <1>4. CASE Recover
    <2>1. PICK f \in Final : Call(job[f].parent, job[f].text, NextRetrieval)
      BY <1>4 DEF Recover
    <2>2. job[f].parent \in Nat
      BY DEF Final, MultiInv, CallsOK
    <2> QED BY <1>1, <2>1, <2>2, CallKeepsInv
  <1>5. CASE \E j \in Jobs : JobStep(j)
    BY <1>5, JobStepKeepsInv
  <1>6. CASE UNCHANGED multiVars
    BY <1>6 DEF multiVars, MultiInv, CallsOK, KeysAgree, Jobs
  <1> QED BY <1>2, <1>3, <1>4, <1>5, <1>6 DEF MultiNext

\* Calls stay numbered, and the last decomposition the latest plan's.
THEOREM MultiInvariance == MultiSpec => []MultiInv
  <1>1. MultiInit => MultiInv
    BY MultiInitInv
  <1>2. MultiInv /\ [MultiNext]_multiVars => MultiInv'
    BY MultiStepKeepsInv
  <1> QED BY <1>1, <1>2, PTL DEF MultiSpec

\* A worker that is late never brings an older result, or the decomposition of
\* an older revision, back as the last one.
THEOREM LastOnlyMovesOn == MultiSpec => LastNeverGoesBack
  <1>1. MultiInv /\ [MultiNext]_multiVars => [LastMovesOn]_multiVars
    BY MultiStepKeepsInv
  <1>2. LastMovesOn <=>
          /\ lastResult'[1] >= lastResult[1]
          /\ lastResult'[1] = lastResult[1] => lastResult'[2] >= lastResult[2]
          /\ lastDecomposition # NoKey => lastDecomposition'[1] >= lastDecomposition[1]
    BY DEF LastMovesOn
  <1> QED BY <1>1, <1>2, MultiInvariance, PTL DEF MultiSpec, LastNeverGoesBack

-----------------------------------------------------------------------------
(* Merging the intents of a response.                                      *)

HomeOf(raw, home, i) ==
  LET same == {j \in 1..(i - 1) :
                 home[j] = j /\ <<raw.intents[i].question, raw.intents[j].question>> \in Overlaps}
  IN  IF same = {} THEN i ELSE CHOOSE j \in same : \A k \in same : j <= k
HomeR == INSTANCE Recursion WITH Value <- HomeOf

\* Home is the function its definition describes.
LEMMA HomeDefined ==
  ASSUME NEW raw, NEW n \in Nat, DOMAIN raw.intents = 1..n
  PROVE  DOMAIN Home(raw) = 1..n /\ \A i \in 1..n : Home(raw)[i] = HomeOf(raw, Home(raw), i)
<1>1. Home(raw) = HomeR!Chosen(raw, DOMAIN raw.intents)
  BY DEF Home, HomeOf, HomeR!Chosen
<1>2. ASSUME NEW g, NEW h, NEW i \in Nat, \A j \in 1..(i - 1) : g[j] = h[j]
      PROVE  HomeOf(raw, g, i) = HomeOf(raw, h, i)
  <2> DEFINE Same(f) == {j \in 1..(i - 1) :
               f[j] = j /\ <<raw.intents[i].question, raw.intents[j].question>> \in Overlaps}
  <2>1. Same(g) = Same(h)
    BY <1>2
  <2>2. \A f : HomeOf(raw, f, i) = IF Same(f) = {} THEN i ELSE CHOOSE j \in Same(f) : \A k \in Same(f) : j <= k
    BY DEF HomeOf
  <2> HIDE DEF Same
  <2> QED
    BY <2>1, <2>2
<1>3. HomeR!LooksBack(raw, 1)
  BY <1>2 DEF HomeR!LooksBack
<1> QED
  BY <1>1, <1>3, 1 \in Nat, HomeR!Defined

-----------------------------------------------------------------------------
(* Waves.                                                                  *)

\* One more wave: the intents whose prerequisites are done get their outcome.
NextWave(plan, kept, found, r, done) ==
  LET ready == {q \in Intents(plan) \ DOMAIN done : Prerequisites(plan, q) \subseteq DOMAIN done}
  IN  [q \in DOMAIN done \cup ready |->
         IF q \in DOMAIN done THEN done[q] ELSE Item(plan, q, done, kept, found, r)]
WaveOf(c, wave, k) ==
  IF k = 0 THEN [q \in {} |-> {}] ELSE NextWave(c[1], c[2], c[3], c[4], wave[k - 1])
WaveR == INSTANCE Recursion WITH Value <- WaveOf

\* Waves is the last of as many waves as the plan has intents.
LEMMA WavesDefined ==
  ASSUME NEW plan, NEW kept, NEW found, NEW r, NEW n \in Nat, n = Cardinality(Intents(plan))
  PROVE  \E wave : /\ Waves(plan, kept, found, r) = wave[n]
                   /\ wave[0] = [q \in {} |-> {}]
                   /\ \A k \in 1..n : wave[k] = NextWave(plan, kept, found, r, wave[k - 1])
<1> DEFINE c == <<plan, kept, found, r>>
           Wave(g, k) == IF k = 0 THEN [q \in {} |-> {}] ELSE NextWave(plan, kept, found, r, g[k - 1])
           Is(g) == g = [k \in 0..Cardinality(Intents(plan)) |-> Wave(g, k)]
           chosen == CHOOSE g : Is(g)
<1>1. Waves(plan, kept, found, r) = chosen[n]
  BY DEF Waves, NextWave
<1>2. WaveR!LooksBack(c, 0)
  BY DEF WaveR!LooksBack, WaveOf
<1>3. \A g, k : WaveOf(c, g, k) = Wave(g, k)
  BY DEF WaveOf
<1> HIDE DEF Wave, c
<1>4. \E g : g = [k \in 0..n |-> WaveOf(c, g, k)]
  BY <1>2, 0 \in Nat, WaveR!Exists
<1>5. \E g : Is(g)
  BY <1>3, <1>4
<1>6. Is(chosen)
  <2> HIDE DEF Is
  <2> QED
    BY <1>5
<1> HIDE DEF chosen
<1>7. \A k \in 0..n : chosen[k] = Wave(chosen, k)
  BY <1>6
<1> QED
  BY <1>1, <1>7 DEF Wave

\* The outcome of an intent depends on the outcomes of its prerequisites only.
LEMMA ItemLooksBack ==
  ASSUME NEW plan, NEW q, NEW d, NEW e, NEW kept, NEW found, NEW r,
         \A p \in Prerequisites(plan, q) : d[p] = e[p]
  PROVE  Item(plan, q, d, kept, found, r) = Item(plan, q, e, kept, found, r)
<1>1. {<<p, d[p].from>> : p \in Prerequisites(plan, q)} = {<<p, e[p].from>> : p \in Prerequisites(plan, q)}
  OBVIOUS
<1>2. Searched(plan, q, d, found, r) = Searched(plan, q, e, found, r)
  BY <1>1 DEF Searched
<1> QED
  BY <1>2 DEF Item

\* Outcomes so far: closed under prerequisites, each the outcome that run_intent
\* gives it from these.
Settled(plan, kept, found, r, done) ==
  /\ DOMAIN done \subseteq Intents(plan)
  /\ \A q \in DOMAIN done : /\ Prerequisites(plan, q) \subseteq DOMAIN done
                            /\ done[q] = Item(plan, q, done, kept, found, r)

\* A wave keeps what is settled and, unless all are, settles one more intent.
LEMMA WaveSettles ==
  ASSUME NEW plan, IsFiniteSet(Intents(plan)), Acyclic(Intents(plan), plan.edges),
         NEW kept, NEW found, NEW r, NEW done, Settled(plan, kept, found, r, done)
  PROVE  LET next == NextWave(plan, kept, found, r, done)
         IN  /\ Settled(plan, kept, found, r, next)
             /\ DOMAIN done = Intents(plan) => DOMAIN next = Intents(plan)
             /\ DOMAIN done # Intents(plan) => Cardinality(DOMAIN next) >= Cardinality(DOMAIN done) + 1
<1> DEFINE next == NextWave(plan, kept, found, r, done)
           ready == {q \in Intents(plan) \ DOMAIN done : Prerequisites(plan, q) \subseteq DOMAIN done}
<1>1. /\ DOMAIN next = DOMAIN done \cup ready
      /\ \A q \in DOMAIN done : next[q] = done[q]
      /\ \A q \in ready : next[q] = Item(plan, q, done, kept, found, r)
  BY DEF NextWave
<1>2. DOMAIN done \subseteq Intents(plan)
  BY DEF Settled
<1> HIDE DEF next
<1>3. ASSUME NEW q \in DOMAIN next
      PROVE  Prerequisites(plan, q) \subseteq DOMAIN done /\ next[q] = Item(plan, q, next, kept, found, r)
  <2>1. Prerequisites(plan, q) \subseteq DOMAIN done /\ next[q] = Item(plan, q, done, kept, found, r)
    BY <1>1, <1>3 DEF Settled
  <2>2. \A p \in Prerequisites(plan, q) : done[p] = next[p]
    BY <1>1, <2>1
  <2> QED
    BY <2>1, <2>2, ItemLooksBack
<1>4. Settled(plan, kept, found, r, next)
  BY <1>1, <1>2, <1>3 DEF Settled
<1>5. CASE DOMAIN done # Intents(plan)
  <2> DEFINE left == Intents(plan) \ DOMAIN done
  <2>1. PICK q \in left : \A p \in left : <<p, q>> \notin plan.edges
    <3>1. left \in SUBSET Intents(plan) /\ left # {}
      BY <1>2, <1>5
    <3> QED
      BY <3>1 DEF Acyclic
  <2>2. q \in ready
    BY <2>1 DEF Prerequisites
  <2>3. DOMAIN done \cup {q} \subseteq DOMAIN next /\ q \notin DOMAIN done
        /\ DOMAIN next \subseteq Intents(plan)
    BY <1>1, <1>2, <2>1, <2>2
  <2>4. IsFiniteSet(DOMAIN done) /\ IsFiniteSet(DOMAIN next)
    BY <1>2, <2>3, FS_Subset
  <2>5. IsFiniteSet(DOMAIN done \cup {q}) /\ Cardinality(DOMAIN done \cup {q}) = Cardinality(DOMAIN done) + 1
    BY <2>3, <2>4, FS_AddElement
  <2>6. Cardinality(DOMAIN done \cup {q}) <= Cardinality(DOMAIN next)
    BY <2>3, <2>4, FS_Subset
  <2> QED
    BY <1>4, <1>5, <2>5, <2>6 DEF next
<1>6. CASE DOMAIN done = Intents(plan)
  BY <1>1, <1>2, <1>4, <1>6 DEF next
<1> QED
  BY <1>5, <1>6

\* When the dependencies are an order, every intent has got an outcome after as
\* many waves as there are intents.
LEMMA WavesSettleAll ==
  ASSUME NEW plan, IsFiniteSet(Intents(plan)), Acyclic(Intents(plan), plan.edges),
         NEW kept, NEW found, NEW r
  PROVE  /\ DOMAIN Waves(plan, kept, found, r) = Intents(plan)
         /\ Settled(plan, kept, found, r, Waves(plan, kept, found, r))
<1> DEFINE n == Cardinality(Intents(plan))
<1>1. n \in Nat
  BY FS_CardinalityType
<1>2. PICK wave : /\ Waves(plan, kept, found, r) = wave[n]
                  /\ wave[0] = [q \in {} |-> {}]
                  /\ \A k \in 1..n : wave[k] = NextWave(plan, kept, found, r, wave[k - 1])
  BY <1>1, WavesDefined
<1> HIDE DEF n
<1> DEFINE S == {k \in Nat : k <= n => /\ Settled(plan, kept, found, r, wave[k])
                                       /\ \/ DOMAIN wave[k] = Intents(plan)
                                          \/ Cardinality(DOMAIN wave[k]) >= k}
<1>3. 0 \in S
  <2>1. DOMAIN wave[0] = {} /\ Settled(plan, kept, found, r, wave[0])
    BY <1>2 DEF Settled
  <2>2. Cardinality(DOMAIN wave[0]) >= 0
    BY <2>1, FS_EmptySet
  <2> QED
    BY <2>1, <2>2
<1>4. ASSUME NEW k \in Nat, k \in S PROVE k + 1 \in S
  <2> SUFFICES ASSUME k + 1 <= n
               PROVE  /\ Settled(plan, kept, found, r, wave[k + 1])
                      /\ \/ DOMAIN wave[k + 1] = Intents(plan)
                         \/ Cardinality(DOMAIN wave[k + 1]) >= k + 1
    OBVIOUS
  <2>1. /\ Settled(plan, kept, found, r, wave[k])
        /\ DOMAIN wave[k] = Intents(plan) \/ Cardinality(DOMAIN wave[k]) >= k
    BY <1>1, <1>4
  <2>2. wave[k + 1] = NextWave(plan, kept, found, r, wave[k])
    <3>1. k + 1 \in 1..n /\ (k + 1) - 1 = k
      BY <1>1
    <3> QED
      BY <1>2, <3>1
  <2>3. /\ Settled(plan, kept, found, r, wave[k + 1])
        /\ DOMAIN wave[k] = Intents(plan) => DOMAIN wave[k + 1] = Intents(plan)
        /\ DOMAIN wave[k] # Intents(plan) =>
             Cardinality(DOMAIN wave[k + 1]) >= Cardinality(DOMAIN wave[k]) + 1
    BY <2>1, <2>2, WaveSettles
  <2>4. \A j \in {k, k + 1} : Settled(plan, kept, found, r, wave[j]) => Cardinality(DOMAIN wave[j]) \in Nat
    BY FS_Subset, FS_CardinalityType DEF Settled
  <2> QED
    BY <2>1, <2>3, <2>4
<1>5. n \in S
  <2> HIDE DEF S
  <2> QED
    BY <1>1, <1>3, <1>4, HomeR!NumberInduction
<1>6. Settled(plan, kept, found, r, wave[n])
  BY <1>1, <1>5
<1>7. DOMAIN wave[n] = Intents(plan)
  <2>1. DOMAIN wave[n] \subseteq Intents(plan)
    BY <1>6 DEF Settled
  <2>2. CASE Cardinality(DOMAIN wave[n]) >= n
    <3>1. IsFiniteSet(DOMAIN wave[n]) /\ Cardinality(DOMAIN wave[n]) <= Cardinality(Intents(plan))
      BY <2>1, FS_Subset
    <3>2. Cardinality(DOMAIN wave[n]) = Cardinality(Intents(plan))
      BY <1>1, <2>2, <3>1, FS_CardinalityType DEF n
    <3> QED
      BY <2>1, <3>2, FS_Subset
  <2> QED
    BY <1>1, <1>5, <2>2
<1> QED
  BY <1>2, <1>6, <1>7

-----------------------------------------------------------------------------
(* What normalising a response keeps.                                      *)

\* An intent is merged into one that stays itself; of two that stay, none is a
\* rewording of the other.
LEMMA HomeFacts ==
  ASSUME NEW raw, raw.intents \in Seq(LocalIntent)
  PROVE  /\ \A i \in DOMAIN raw.intents : Home(raw)[i] \in DOMAIN raw.intents
         /\ \A i \in DOMAIN raw.intents : Home(raw)[Home(raw)[i]] = Home(raw)[i]
         /\ \A h, k \in MergeHomes(raw) : Name(raw, h) = Name(raw, k) => h = k
<1> DEFINE n == Len(raw.intents)
           home == Home(raw)
           asks(i) == raw.intents[i].question
           Same(i) == {j \in 1..(i - 1) : home[j] = j /\ <<asks(i), asks(j)>> \in Overlaps}
<1>1. n \in Nat /\ DOMAIN raw.intents = 1..n /\ \A i \in 1..n : asks(i) \in Question
  <2>1. n \in Nat /\ DOMAIN raw.intents = 1..n /\ \A i \in 1..n : raw.intents[i] \in LocalIntent
    OBVIOUS
  <2>2. \A intent \in LocalIntent : intent.question \in Question
    BY DEF LocalIntent
  <2> QED
    BY <2>1, <2>2
<1>2. \A i \in 1..n : home[i] = IF Same(i) = {} THEN i
                                ELSE CHOOSE j \in Same(i) : \A k \in Same(i) : j <= k
  <2>1. \A i \in 1..n : home[i] = HomeOf(raw, home, i)
    BY <1>1, HomeDefined
  <2>2. \A i : HomeOf(raw, home, i) = IF Same(i) = {} THEN i
                                     ELSE CHOOSE j \in Same(i) : \A k \in Same(i) : j <= k
    BY DEF HomeOf
  <2> HIDE DEF Same
  <2> QED
    BY <2>1, <2>2
<1> HIDE DEF home, n
<1>3. ASSUME NEW i \in 1..n PROVE home[i] \in 1..n /\ home[home[i]] = home[i]
  <2>1. CASE Same(i) = {}
    BY <1>2, <2>1
  <2>2. CASE Same(i) # {}
    <3>1. Same(i) \in SUBSET Nat
      BY <1>1
    <3>2. \E j \in Same(i) : \A k \in Same(i) : j <= k
      <4> HIDE DEF Same
      <4> QED
        BY <2>2, <3>1, HomeR!LeastNumber
    <3>3. home[i] \in Same(i)
      <4> HIDE DEF Same
      <4> QED
        BY <1>2, <2>2, <3>2
    <3> QED
      BY <1>1, <3>3
  <2> QED
    BY <2>1, <2>2
<1>4. ASSUME NEW h \in 1..n, NEW k \in 1..n, home[h] = h, home[k] = k, asks(h) = asks(k), k < h
      PROVE  FALSE
  <2>1. <<asks(h), asks(k)>> \in Overlaps
    BY <1>1, <1>4, PlanAssumption
  <2>2. k \in Same(h)
    BY <1>1, <1>4, <2>1
  <2>3. Same(h) \in SUBSET Nat
    BY <1>1
  <2>4. home[h] \in Same(h)
    <3>1. \E j \in Same(h) : \A l \in Same(h) : j <= l
      <4> HIDE DEF Same
      <4> QED
        BY <2>2, <2>3, HomeR!LeastNumber
    <3> HIDE DEF Same
    <3> QED
      BY <1>2, <2>2, <3>1
  <2> QED
    BY <1>1, <1>4, <2>4
<1>5. \A h \in MergeHomes(raw) : h \in 1..n /\ home[h] = h
  BY <1>1, <1>3 DEF MergeHomes, home
<1>6. ASSUME NEW h \in MergeHomes(raw), NEW k \in MergeHomes(raw), Name(raw, h) = Name(raw, k)
      PROVE  h = k
  <2>1. asks(h) = asks(k)
    BY <1>6 DEF Name
  <2>2. h \in 1..n /\ k \in 1..n /\ home[h] = h /\ home[k] = k
    BY <1>5
  <2>3. ~(k < h) /\ ~(h < k)
    BY <1>4, <2>1, <2>2
  <2> QED
    BY <1>1, <2>2, <2>3
<1> QED
  BY <1>1, <1>3, <1>6 DEF home

\* What is asked of a plan for a text that states these values.
KeepsRequest(plan, stated) ==
  /\ IsFiniteSet(Intents(plan))
  /\ stated \subseteq UNION {plan.print[q].own \cup plan.print[q].shared : q \in Intents(plan)}
  /\ plan.edges \subseteq Intents(plan) \X Intents(plan)
  /\ Acyclic(Intents(plan), plan.edges)

\* Normalising keeps every value, the order of the dependencies and finiteness.
LEMMA NormalisedKeeps ==
  ASSUME NEW raw, raw.intents \in Seq(LocalIntent),
         raw.edges \subseteq (DOMAIN raw.intents) \X (DOMAIN raw.intents),
         NEW stated, Usable(raw, stated)
  PROVE  KeepsRequest(Normalised(raw), stated)
<1> DEFINE plan == Normalised(raw)
           homes == MergeHomes(raw)
           home == Home(raw)
           D == DOMAIN raw.intents
<1>1. /\ \A i \in D : home[i] \in D
      /\ \A h, k \in homes : Name(raw, h) = Name(raw, k) => h = k
  BY HomeFacts
<1>2. Intents(plan) = {Name(raw, h) : h \in homes}
  BY DEF Intents, Normalised
<1>3. \A h \in homes : plan.print[Name(raw, h)] =
                         Fingerprint(MergedOwn(raw, h), raw.shared, raw.intents[h].dependent)
  <2> SUFFICES ASSUME NEW h \in homes
               PROVE  plan.print[Name(raw, h)] =
                        Fingerprint(MergedOwn(raw, h), raw.shared, raw.intents[h].dependent)
    OBVIOUS
  <2>1. (CHOOSE k \in homes : Name(raw, k) = Name(raw, h)) = h
    BY <1>1
  <2> QED
    BY <2>1 DEF Normalised
<1>4. IsFiniteSet(Intents(plan))
  <2>1. IsFiniteSet(D)
    <3>1. Len(raw.intents) \in Nat /\ D = 1..Len(raw.intents)
      OBVIOUS
    <3>2. IsFiniteSet(1..Len(raw.intents))
      BY <3>1, FS_Interval
    <3> QED
      BY <3>1, <3>2
  <2>2. homes \subseteq D
    BY <1>1 DEF MergeHomes
  <2>3. IsFiniteSet(homes)
    BY <2>1, <2>2, FS_Subset
  <2>4. [h \in homes |-> Name(raw, h)] \in Surjection(homes, Intents(plan))
    <3> HIDE DEF homes, plan
    <3> QED
      BY <1>2 DEF Surjection
  <2> QED
    BY <2>3, <2>4, FS_Surjection
<1>5. stated \subseteq UNION {plan.print[q].own \cup plan.print[q].shared : q \in Intents(plan)}
  <2> SUFFICES ASSUME NEW v \in stated
               PROVE  \E h \in homes : v \in MergedOwn(raw, h) \cup raw.shared
    <3>1. \A h \in homes : /\ Name(raw, h) \in Intents(plan)
                           /\ plan.print[Name(raw, h)].own = MergedOwn(raw, h)
                           /\ plan.print[Name(raw, h)].shared = raw.shared
      <4> HIDE DEF plan, homes
      <4> TAKE h \in homes
      <4>1. plan.print[Name(raw, h)] = Fingerprint(MergedOwn(raw, h), raw.shared, raw.intents[h].dependent)
        BY <1>3
      <4>2. \A own, shared, dependent : /\ Fingerprint(own, shared, dependent).own = own
                                        /\ Fingerprint(own, shared, dependent).shared = shared
        BY DEF Fingerprint
      <4> QED
        BY <1>2, <4>1, <4>2
    <3> HIDE DEF plan, homes
    <3> QED
      BY <3>1
  <2>1. v \in raw.shared \/ \E i \in D : v \in raw.intents[i].own
    BY DEF Usable, WellFormed, Provided
  <2>2. CASE \E i \in D : v \in raw.intents[i].own
    <3>1. PICK i \in D : v \in raw.intents[i].own
      BY <2>2
    <3>2. home[i] \in homes /\ v \in MergedOwn(raw, home[i])
      BY <3>1 DEF MergeHomes, MergedOwn
    <3> QED
      BY <3>2
  <2>3. CASE v \in raw.shared
    <3>1. 1 \in D
      BY DEF Usable, WellFormed
    <3> QED
      BY <2>3, <3>1 DEF MergeHomes
  <2> QED
    BY <2>1, <2>2, <2>3
<1>6. \A e \in MergedEdges(raw) : e[1] \in homes /\ e[2] \in homes
  BY DEF MergedEdges, MergeHomes
<1>7. plan.edges = {<<Name(raw, e[1]), Name(raw, e[2])>> : e \in MergedEdges(raw)}
  BY DEF Normalised
<1>8. plan.edges \subseteq Intents(plan) \X Intents(plan)
  BY <1>2, <1>6, <1>7
<1>9. Acyclic(Intents(plan), plan.edges)
  <2> SUFFICES ASSUME NEW S \in SUBSET Intents(plan), S # {}
               PROVE  \E n \in S : \A k \in S : <<k, n>> \notin plan.edges
    BY DEF Acyclic
  <2> DEFINE T == {h \in homes : Name(raw, h) \in S}
  <2>1. T \in SUBSET homes /\ T # {}
    BY <1>2
  <2>2. PICK n \in T : \A k \in T : <<k, n>> \notin MergedEdges(raw)
    BY <2>1 DEF Usable, Acyclic
  <2>3. ASSUME NEW k \in S, <<k, Name(raw, n)>> \in plan.edges PROVE FALSE
    <3>1. PICK e \in MergedEdges(raw) : k = Name(raw, e[1]) /\ Name(raw, n) = Name(raw, e[2])
      BY <1>7, <2>3
    <3>2. e[1] \in T /\ e[2] = n
      BY <1>1, <1>6, <2>2, <3>1
    <3>3. e = <<e[1], e[2]>>
      BY DEF MergedEdges
    <3> QED
      BY <2>2, <3>2, <3>3
  <2> QED
    BY <2>2, <2>3
<1> QED
  BY <1>4, <1>5, <1>8, <1>9 DEF KeepsRequest

-----------------------------------------------------------------------------
(* What calls, plans and results have in common.                           *)

CallFields == {"at", "parent", "text", "retrieval", "kept", "source"}
CallsKnown == \A j \in Jobs : DOMAIN job[j] = CallFields /\ job[j].text \in Text

\* Retrievals are numbered in the order of their calls.
Numbered ==
  /\ \A j \in Searches : job[j].retrieval \in 1..Cardinality(Searches)
  /\ \A i, j \in Searches : job[i].retrieval = job[j].retrieval => i = j

\* Calls are made for revisions in order, one text for each, and after the
\* final one only for its revision.
Ordered ==
  /\ \A i, j \in Jobs : i < j => job[i].parent <= job[j].parent
  /\ \A i, j \in Jobs : job[i].parent = job[j].parent => job[i].text = job[j].text
  /\ \A i, j \in Searches : i < j => job[i].retrieval < job[j].retrieval
  /\ \A f \in Final, j \in Jobs : f < j => job[j].parent = job[f].parent

\* A call that has its plan is a search, and its plan is in the cache.
Located == \A j \in Jobs : job[j].at \in {"read", "search"} => j \in Searches /\ Key(j) \in DOMAIN cache

\* Who holds the lock is about to add a plan, so that no plan is replaced.
OwnerAdds == owner # 0 => /\ owner \in Jobs /\ job[owner].at = "provider"
                          /\ Key(owner) \notin DOMAIN cache

\* A plan is one of a call and keeps its request, and what it preserves are
\* intents of its base, a plan of an earlier revision.
PlanOK(key) ==
  LET plan == cache[key]
  IN  /\ key # NoKey /\ \E m \in Jobs : key = Key(m)
      /\ KeepsRequest(plan, Stated[key[2]])
      /\ plan.base = NoKey => plan.preserved = {}
      /\ plan.base # NoKey =>
           /\ plan.base \in DOMAIN cache /\ plan.base[1] < key[1]
           /\ \A q \in plan.preserved : /\ q \in Intents(cache[plan.base])
                                        /\ plan.print[q] = cache[plan.base].print[q]
PlansOK == /\ latest = NoKey \/ latest \in DOMAIN cache
           /\ \A key \in DOMAIN cache : PlanOK(key)

\* A result has an outcome for every intent of its plan, and is the result of
\* a call that returned.
FollowsDependencies(plan, items) ==
  /\ DOMAIN items = Intents(plan)
  /\ \A q \in {i \in DOMAIN items : items[i].status = "completed"} :
       \A p \in Prerequisites(plan, q) : items[p].status = "completed" /\ items[p].supported
ItemFields == {"status", "supported", "reused", "from", "context"}
Proper(items) == \A q \in DOMAIN items : DOMAIN items[q] = ItemFields
ResultOK(r) ==
  /\ results[r].key \in DOMAIN cache
  /\ FollowsDependencies(cache[results[r].key], results[r].items)
  /\ Proper(results[r].items)
  /\ \E j \in Searches : job[j].retrieval = r /\ ~Busy(j) /\ results[r].key = Key(j)
ResultsOK == \A r \in DOMAIN results : ResultOK(r)

\* What a search keeps is from the result it read, that of the retrieval before
\* its own, and its plan preserves it.
KeptOK(j) ==
  LET before == job[j].retrieval - 1
  IN  IF job[j].source = NoKey THEN DOMAIN job[j].kept = {}
      ELSE /\ before \in DOMAIN results /\ results[before].key = job[j].source
           /\ DOMAIN job[j].kept \subseteq cache[Key(j)].preserved \cap DOMAIN results[before].items
           /\ \A q \in DOMAIN job[j].kept : job[j].kept[q] = results[before].items[q]
AllKeptOK == \A j \in Jobs : job[j].at = "search" => KeptOK(j)

\* An outcome is of one search, which the retrievals since have reused.
Again(item) == [item EXCEPT !.reused = TRUE]
Reuses(k, q, from) ==
  /\ k \in DOMAIN results /\ q \in cache[results[k].key].preserved
  /\ results[k].items[q] = Again(results[from].items[q])
Traced(r, q) ==
  LET from == results[r].items[q].from
  IN  /\ from \in 1..r /\ from \in DOMAIN results
      /\ q \in DOMAIN results[from].items /\ ~results[from].items[q].reused
      /\ \A k \in (from + 1)..r : Reuses(k, q, from)
      /\ IntentIn(from, q) = IntentIn(r, q) \/ \E k \in (from + 1)..r : Overtook(k)
AllTraced == \A r \in DOMAIN results : \A q \in DOMAIN results[r].items : Traced(r, q)

SharedInv == /\ MultiInv /\ CallsKnown /\ Numbered /\ Ordered /\ Located /\ OwnerAdds /\ PlansOK
             /\ ResultsOK /\ AllKeptOK /\ AllTraced

\* Where a search's plan was compared with another plan than its predecessor's,
\* that plan is of an older revision.
LEMMA Predecessor ==
  ASSUME SharedInv, NEW i \in Searches, NEW j \in Searches,
         job[j].retrieval = job[i].retrieval + 1,
         Key(j) \in DOMAIN cache, cache[Key(j)].base # NoKey
  PROVE  cache[Key(j)].base = Key(i) \/ cache[Key(j)].base[1] < Key(i)[1]
<1> USE DEF SharedInv
<1>1. PICK base : base = cache[Key(j)].base
  OBVIOUS
<1>2. base \in DOMAIN cache /\ base[1] < job[j].parent
  <2>1. PlanOK(Key(j))
    BY DEF PlansOK
  <2>2. Key(j)[1] = job[j].parent
    BY DEF Key
  <2> QED
    BY <1>1, <2>1, <2>2 DEF PlanOK
<1>3. PICK m \in Jobs : base = Key(m)
  BY <1>2 DEF PlansOK, PlanOK
<1>4. base = <<job[m].parent, job[m].text>> /\ Key(i) = <<job[i].parent, job[i].text>>
  BY <1>3 DEF Key
<1>5. /\ i \in Jobs /\ j \in Jobs /\ Jobs \subseteq Int
      /\ \A k \in Jobs : job[k].parent \in Nat /\ job[k].retrieval \in Nat
  BY DEF Searches, Jobs, MultiInv, CallsOK
<1>6. SUFFICES ASSUME job[i].parent <= job[m].parent PROVE job[m].parent = job[i].parent
  BY <1>1, <1>4, <1>5 DEF Ordered
<1>7. SUFFICES ASSUME job[i].parent < job[m].parent PROVE FALSE
  BY <1>3, <1>5, <1>6
<1>8. job[m].parent < job[j].parent
  BY <1>2, <1>4
<1>9. i < m /\ m < j
  BY <1>3, <1>5, <1>7, <1>8 DEF Ordered
<1>10. CASE m \in Searches
  <2>1. job[i].retrieval < job[m].retrieval /\ job[m].retrieval < job[j].retrieval
    BY <1>9, <1>10 DEF Ordered
  <2> QED
    BY <1>3, <1>5, <2>1
<1>11. CASE m \notin Searches
  <2>1. job[j].parent = job[m].parent
    BY <1>3, <1>5, <1>9, <1>11 DEF Ordered, Final
  <2> QED
    BY <1>3, <1>5, <1>8, <2>1
<1> QED
  BY <1>10, <1>11

\* What the waves find follows the dependencies, and each outcome is a new one
\* or one that was kept.
LEMMA WavesFollow ==
  ASSUME NEW plan, IsFiniteSet(Intents(plan)), Acyclic(Intents(plan), plan.edges),
         NEW kept, Proper(kept), NEW found, NEW r
  PROVE  LET items == Waves(plan, kept, found, r)
         IN  /\ FollowsDependencies(plan, items)
             /\ Proper(items)
             /\ \A q \in DOMAIN items : \/ items[q].from = r /\ ~items[q].reused
                                        \/ q \in DOMAIN kept /\ items[q] = Again(kept[q])
<1> DEFINE items == Waves(plan, kept, found, r)
<1>1. DOMAIN items = Intents(plan) /\ Settled(plan, kept, found, r, items)
  BY WavesSettleAll
<1> HIDE DEF items
<1>2. \A q \in Intents(plan) : items[q] = Item(plan, q, items, kept, found, r)
  BY <1>1 DEF Settled
<1>3. \A q : LET blank == Blank(plan, q, r)
             IN  blank.status = "failed" /\ blank.from = r /\ ~blank.reused /\ DOMAIN blank = ItemFields
  BY DEF Blank, ItemFields
<1>4. \A q : LET new == Searched(plan, q, items, found, r)
             IN  new.from = r /\ ~new.reused /\ DOMAIN new = ItemFields
  BY DEF Searched, Blank, ItemFields
<1>5. \A q \in DOMAIN kept : DOMAIN Again(kept[q]) = ItemFields
  BY DEF Proper, Again
<1>6. ASSUME NEW q \in Intents(plan), items[q].status = "completed", NEW p \in Prerequisites(plan, q)
      PROVE  items[p].status = "completed" /\ items[p].supported
  <2>1. items[q] # Blank(plan, q, r)
    BY <1>3, <1>6
  <2> QED
    BY <1>2, <1>6, <2>1 DEF Item
<1>7. ASSUME NEW q \in Intents(plan)
      PROVE  /\ DOMAIN items[q] = ItemFields
             /\ \/ items[q].from = r /\ ~items[q].reused
                \/ q \in DOMAIN kept /\ items[q] = Again(kept[q])
  <2>1. \/ items[q] = Blank(plan, q, r)
        \/ q \in DOMAIN kept /\ items[q] = Again(kept[q])
        \/ items[q] = Searched(plan, q, items, found, r)
    BY <1>2 DEF Item, Again
  <2> QED
    BY <1>3, <1>4, <1>5, <2>1
<1>8. FollowsDependencies(plan, items)
  BY <1>1, <1>6 DEF FollowsDependencies
<1>9. Proper(items)
  BY <1>1, <1>7 DEF Proper
<1> QED
  BY <1>1, <1>7, <1>8, <1>9 DEF items

-----------------------------------------------------------------------------
(* The steps.                                                              *)

\* No plan and no result is lost or replaced, and calls keep their keys.
PlansGrow == /\ DOMAIN cache \subseteq DOMAIN cache'
             /\ \A key \in DOMAIN cache : cache'[key] = cache[key]
ResultsGrow == /\ DOMAIN results \subseteq DOMAIN results'
               /\ \A r \in DOMAIN results : results'[r] = results[r]
KeysStay == \A i \in Jobs : i \in Jobs' /\ Key(i)' = Key(i)

\* A call keeps its fields, its number, its question and so its key.
LEMMA CallsStay ==
  ASSUME CallsKnown, Numbered, Ordered, Jobs' = Jobs,
         \A i \in Jobs : /\ DOMAIN job'[i] = CallFields
                         /\ job'[i].parent = job[i].parent /\ job'[i].text = job[i].text
                         /\ job'[i].retrieval = job[i].retrieval
  PROVE  /\ CallsKnown' /\ Numbered' /\ Ordered' /\ Searches' = Searches
         /\ KeysStay
<1>1. CallsKnown' /\ Searches' = Searches /\ KeysStay
  BY DEF CallsKnown, Searches, Key, KeysStay
<1>2. Searches \subseteq Jobs /\ Final \subseteq Jobs /\ Final' = Final
  BY <1>1 DEF Searches, Final
<1>3. Numbered'
  BY <1>1, <1>2 DEF Numbered
<1>4. Ordered'
  BY <1>1, <1>2 DEF Ordered
<1> QED
  BY <1>1, <1>3, <1>4

\* A known plan stays one.
LEMMA PlansStay ==
  ASSUME PlansOK, PlansGrow, KeysStay, NEW key \in DOMAIN cache
  PROVE  PlanOK(key)'
<1>1. PlanOK(key) /\ cache'[key] = cache[key]
  BY DEF PlansOK, PlansGrow
<1>2. cache[key].base \in DOMAIN cache =>
        cache[key].base \in DOMAIN cache' /\ cache'[cache[key].base] = cache[cache[key].base]
  BY DEF PlansGrow
<1>3. \E m \in Jobs' : key = Key(m)'
  BY <1>1 DEF PlanOK, KeysStay
<1> QED
  BY <1>1, <1>2, <1>3 DEF PlanOK

\* A result stays what it was while plans and results are added and calls go on.
LEMMA ResultsStay ==
  ASSUME ResultsOK, PlansGrow, ResultsGrow, NEW r \in DOMAIN results,
         \A j \in Searches : ~Busy(j) => j \in Searches' /\ job'[j] = job[j]
  PROVE  /\ ResultOK(r)'
         /\ r \in DOMAIN results' /\ results'[r] = results[r]
         /\ cache'[results[r].key] = cache[results[r].key]
<1>1. ResultOK(r)
  BY DEF ResultsOK
<1>2. r \in DOMAIN results' /\ results'[r] = results[r]
  BY DEF ResultsGrow
<1>3. results[r].key \in DOMAIN cache' /\ cache'[results[r].key] = cache[results[r].key]
  BY <1>1 DEF ResultOK, PlansGrow
<1>4. \E j \in Searches' : job'[j].retrieval = r /\ ~Busy(j)' /\ results[r].key = Key(j)'
  BY <1>1 DEF ResultOK, Busy, Key
<1> QED
  BY <1>1, <1>2, <1>3, <1>4 DEF ResultOK

\* So does what is known of its outcomes.
LEMMA TracesStay ==
  ASSUME ResultsOK, AllTraced, PlansGrow, ResultsGrow,
         NEW r \in DOMAIN results, NEW q \in DOMAIN results[r].items
  PROVE  Traced(r, q)'
<1>1. \A k \in DOMAIN results : /\ k \in DOMAIN results' /\ results'[k] = results[k]
                                /\ cache'[results[k].key] = cache[results[k].key]
  BY DEF ResultsOK, ResultOK, PlansGrow, ResultsGrow
<1>2. \A k \in DOMAIN results : /\ \A p : IntentIn(k, p)' = IntentIn(k, p)
                                /\ Overtook(k)' = Overtook(k)
  BY <1>1 DEF IntentIn, Overtook
<1>3. PICK from : from = results[r].items[q].from
  OBVIOUS
<1>4. Traced(r, q)
  BY DEF AllTraced
<1>5. from \in DOMAIN results /\ \A k \in (from + 1)..r : Reuses(k, q, from)
  BY <1>3, <1>4 DEF Traced
<1>6. \A k \in (from + 1)..r : k \in DOMAIN results /\ Reuses(k, q, from)'
  BY <1>1, <1>5 DEF Reuses
<1>7. (\E k \in (from + 1)..r : Overtook(k)) => \E k \in (from + 1)..r : Overtook(k)'
  BY <1>2, <1>6
<1>8. IntentIn(from, q)' = IntentIn(from, q) /\ IntentIn(r, q)' = IntentIn(r, q)
  BY <1>2, <1>5
<1>9. results'[r].items[q].from = from /\ from \in DOMAIN results' /\ results'[from] = results[from]
  BY <1>1, <1>3, <1>5
<1> QED
  BY <1>3, <1>4, <1>6, <1>7, <1>8, <1>9 DEF Traced

\* What a search kept stays good while plans and results are added.
LEMMA KeptStays ==
  ASSUME PlansGrow, ResultsGrow, NEW j \in Jobs, KeptOK(j), Key(j) \in DOMAIN cache,
         job'[j] = job[j], Key(j)' = Key(j)
  PROVE  KeptOK(j)'
<1>1. CASE job[j].source = NoKey
  BY <1>1 DEF KeptOK
<1>2. CASE job[j].source # NoKey
  BY <1>2 DEF KeptOK, PlansGrow, ResultsGrow
<1> QED
  BY <1>1, <1>2

\* Nothing that a call's move leaves alone is disturbed by it.
LEMMA AtMoves ==
  ASSUME SharedInv, NEW j \in Jobs, Busy(j), NEW point, point # "search",
         job' = [job EXCEPT ![j].at = point], results' = results, PlansGrow,
         point = "read" => j \in Searches /\ Key(j) \in DOMAIN cache'
  PROVE  (CallsKnown /\ Numbered /\ Ordered /\ Located /\ ResultsOK /\ AllKeptOK /\ AllTraced)' /\ KeysStay
<1> USE DEF SharedInv
<1>0. PICK S : job \in Seq(S)
  BY DEF MultiInv, CallsOK
<1>1. /\ Jobs' = Jobs
      /\ \A i \in Jobs : i # j => job'[i] = job[i]
      /\ job'[j] = [job[j] EXCEPT !.at = point]
  BY DEF Jobs
<1>2. /\ DOMAIN job'[j] = CallFields /\ job'[j].at = point
      /\ job'[j].parent = job[j].parent /\ job'[j].text = job[j].text
      /\ job'[j].retrieval = job[j].retrieval
  BY <1>1 DEF CallsKnown, CallFields
<1>3. CallsKnown' /\ Numbered' /\ Ordered' /\ Searches' = Searches /\ KeysStay
  BY <1>1, <1>2, CallsStay DEF CallsKnown
<1>4. Located'
  BY <1>1, <1>2, <1>3 DEF Located, PlansGrow, KeysStay
<1>5. \A k \in Searches : ~Busy(k) => k \in Searches' /\ job'[k] = job[k]
  BY <1>1, <1>3 DEF Searches
<1>6. ResultsGrow
  BY DEF ResultsGrow
<1>7. ResultsOK'
  BY <1>5, <1>6, ResultsStay DEF ResultsOK
<1>8. AllTraced'
  BY <1>6, TracesStay DEF AllTraced
<1>9. ASSUME NEW i \in Jobs, job'[i].at = "search" PROVE KeptOK(i)'
  <2>1. job[i].at = "search" /\ job'[i] = job[i]
    BY <1>1, <1>2, <1>9
  <2>2. KeptOK(i) /\ Key(i) \in DOMAIN cache /\ Key(i)' = Key(i)
    BY <1>3, <2>1 DEF AllKeptOK, Located, KeysStay
  <2> QED
    BY <1>6, <2>1, <2>2, KeptStays
<1> QED
  BY <1>1, <1>3, <1>4, <1>7, <1>8, <1>9 DEF AllKeptOK

\* Where no plan is added.
LEMMA PlansUnchanged ==
  ASSUME PlansOK, UNCHANGED <<cache, latest>>, KeysStay
  PROVE  PlansGrow /\ PlansOK'
<1>1. PlansGrow
  BY DEF PlansGrow
<1> QED
  BY <1>1, PlansStay DEF PlansOK

\* A look into the cache takes the lock only for a plan that is not there.
LEMMA LookupShared ==
  ASSUME SharedInv, NEW j \in Jobs, Lookup(j)
  PROVE  (CallsKnown /\ Numbered /\ Ordered /\ Located /\ OwnerAdds /\ PlansOK
            /\ ResultsOK /\ AllKeptOK /\ AllTraced)'
<1> USE DEF SharedInv
<1>1. UNCHANGED <<cache, latest, results>> /\ Busy(j) /\ owner = 0
  BY DEF Lookup, Busy
<1>2. PlansGrow
  BY <1>1 DEF PlansGrow
<1>3. CASE Key(j) \in DOMAIN cache
  <2>1. UNCHANGED owner /\ job' = [job EXCEPT ![j].at = Decomposed(j)]
    BY <1>3 DEF Lookup
  <2>2. Decomposed(j) # "search" /\ (Decomposed(j) = "read" => j \in Searches)
    BY DEF Decomposed
  <2>3. (CallsKnown /\ Numbered /\ Ordered /\ Located /\ ResultsOK /\ AllKeptOK /\ AllTraced)' /\ KeysStay
    BY <1>1, <1>2, <1>3, <2>1, <2>2, AtMoves
  <2> QED
    BY <1>1, <2>1, <2>3, PlansUnchanged DEF OwnerAdds
<1>4. CASE Key(j) \notin DOMAIN cache
  <2>1. owner' = j /\ job' = [job EXCEPT ![j].at = "provider"]
    BY <1>4 DEF Lookup
  <2>2. (CallsKnown /\ Numbered /\ Ordered /\ Located /\ ResultsOK /\ AllKeptOK /\ AllTraced)' /\ KeysStay
    BY <1>1, <1>2, <2>1, AtMoves
  <2>3. OwnerAdds'
    <3>1. PICK S : job \in Seq(S)
      BY DEF MultiInv, CallsOK
    <3>2. /\ Jobs' = Jobs /\ job'[j].at = "provider"
          /\ job'[j].parent = job[j].parent /\ job'[j].text = job[j].text
      BY <2>1, <3>1 DEF Jobs, CallsKnown, CallFields
    <3> QED
      BY <1>1, <1>4, <2>1, <3>2 DEF OwnerAdds, Key
  <2> QED
    BY <1>1, <2>2, <2>3, PlansUnchanged
<1> QED
  BY <1>3, <1>4

\* A plan that may be added for the text of call j.
Addable(j, plan) ==
  /\ KeepsRequest(plan, Stated[job[j].text])
  /\ plan.base = NoKey => plan.preserved = {}
  /\ plan.base # NoKey =>
       /\ plan.base \in DOMAIN cache /\ plan.base[1] < job[j].parent
       /\ \A q \in plan.preserved : /\ q \in Intents(cache[plan.base])
                                    /\ plan.print[q] = cache[plan.base].print[q]

\* A plan is added under the key of its call and replaces none.
LEMMA CommitShared ==
  ASSUME SharedInv, NEW j \in Jobs, owner = j, NEW plan, Addable(j, plan), Commit(j, plan)
  PROVE  (CallsKnown /\ Numbered /\ Ordered /\ Located /\ OwnerAdds /\ PlansOK
            /\ ResultsOK /\ AllKeptOK /\ AllTraced)'
<1> USE DEF SharedInv
<1>1. /\ job' = [job EXCEPT ![j].at = Decomposed(j)]
      /\ cache' = [k \in DOMAIN cache \cup {Key(j)} |-> IF k = Key(j) THEN plan ELSE cache[k]]
      /\ latest' \in {latest, Key(j)} /\ owner' = 0 /\ results' = results
  BY DEF Commit
<1>2. Key(j) \notin DOMAIN cache /\ Busy(j)
  <2>1. j # 0
    BY DEF MultiInv, CallsOK, Jobs
  <2> QED
    BY <2>1 DEF OwnerAdds, Busy
<1>3. /\ DOMAIN cache' = DOMAIN cache \cup {Key(j)} /\ cache'[Key(j)] = plan
      /\ \A key \in DOMAIN cache : cache'[key] = cache[key]
  BY <1>1, <1>2
<1>4. PlansGrow
  BY <1>3 DEF PlansGrow
<1>5. Decomposed(j) # "search" /\ (Decomposed(j) = "read" => j \in Searches)
  BY DEF Decomposed
<1>6. (CallsKnown /\ Numbered /\ Ordered /\ Located /\ ResultsOK /\ AllKeptOK /\ AllTraced)' /\ KeysStay
  BY <1>1, <1>2, <1>3, <1>4, <1>5, AtMoves
<1>7. PICK key : key = Key(j)
  OBVIOUS
<1>8. PlanOK(key)'
  <2>1. key # NoKey /\ key[1] = job[j].parent /\ key[2] = job[j].text
    BY <1>7 DEF Key, NoKey
  <2>2. plan.base \in DOMAIN cache => plan.base \in DOMAIN cache' /\ cache'[plan.base] = cache[plan.base]
    BY <1>3
  <2>3. cache'[key] = plan /\ j \in Jobs' /\ key = Key(j)'
    BY <1>3, <1>6, <1>7 DEF KeysStay
  <2> QED
    BY <2>1, <2>2, <2>3 DEF PlanOK, Addable
<1>9. PlansOK'
  <2>1. \A k \in DOMAIN cache' : PlanOK(k)'
    <3>1. \A k \in DOMAIN cache : PlanOK(k)'
      BY <1>4, <1>6, PlansStay
    <3> QED
      BY <1>3, <1>7, <1>8, <3>1
  <2> QED
    BY <1>1, <1>3, <2>1 DEF PlansOK
<1>10. OwnerAdds'
  BY <1>1 DEF OwnerAdds
<1> QED
  BY <1>6, <1>9, <1>10

\* A plan read from a provider's answer, or the fallback, may be added.
LEMMA PlansAddable ==
  ASSUME SharedInv, NEW j \in Jobs
  PROVE  /\ Addable(j, Fallback(job[j].text))
         /\ \A plan \in Readings[job[j].text] : Addable(j, Accepted(j, plan))
<1> DEFINE t == job[j].text
<1>1. t \in Text
  BY DEF SharedInv, CallsKnown
<1>2. Addable(j, Fallback(t))
  <2> DEFINE plan == Fallback(t)
  <2>1. /\ Intents(plan) = {Sole[t]} /\ plan.edges = {} /\ plan.preserved = {} /\ plan.base = NoKey
        /\ plan.print[Sole[t]].own = Stated[t]
    BY DEF Fallback, Intents, Fingerprint
  <2> HIDE DEF plan
  <2>2. IsFiniteSet(Intents(plan))
    BY <2>1, FS_Singleton
  <2>3. Acyclic(Intents(plan), plan.edges)
    BY <2>1 DEF Acyclic
  <2>4. KeepsRequest(plan, Stated[t])
    BY <2>1, <2>2, <2>3 DEF KeepsRequest
  <2> QED
    BY <2>1, <2>4 DEF Addable, plan
<1>3. ASSUME NEW plan \in Readings[t] PROVE Addable(j, Accepted(j, plan))
  <2>1. PICK raw \in Responses[t] : Usable(raw, Stated[t]) /\ plan = Normalised(raw)
    BY <1>1, <1>3 DEF Readings
  <2>2. KeepsRequest(plan, Stated[t])
    BY <1>1, <2>1, RetrieverAssumption, NormalisedKeeps
  <2> DEFINE new == Accepted(j, plan)
  <2>3. /\ Intents(new) = Intents(plan) /\ new.print = plan.print /\ new.edges = plan.edges
        /\ new.base = Previous(j)
        /\ new.preserved = IF Previous(j) = NoKey THEN {} ELSE Preserved(plan, PlanOf(Previous(j)))
    BY DEF Accepted, Intents
  <2> HIDE DEF new
  <2>4. KeepsRequest(new, Stated[t])
    BY <2>2, <2>3 DEF KeepsRequest
  <2>5. Previous(j) # NoKey => Previous(j) \in DOMAIN cache /\ Previous(j)[1] < job[j].parent
    <3>1. latest[1] \in Nat /\ job[j].parent \in Nat
      BY DEF SharedInv, MultiInv, KeysAgree, CallsOK
    <3> QED
      BY <3>1 DEF Previous, SharedInv, PlansOK
  <2>6. Previous(j) # NoKey =>
          \A q \in new.preserved : /\ q \in Intents(cache[Previous(j)])
                                   /\ new.print[q] = cache[Previous(j)].print[q]
    BY <2>3 DEF Preserved, PlanOf
  <2> QED
    BY <2>3, <2>4, <2>5, <2>6 DEF Addable, new
<1> QED
  BY <1>2, <1>3

\* A new call gets the next retrieval number, or none, and its revision and text
\* continue those before.
Continues(p, t) ==
  /\ \A i \in Jobs : job[i].parent <= p /\ (job[i].parent = p => job[i].text = t)
  /\ \A f \in Final : job[f].parent = p
LEMMA CallShared ==
  ASSUME SharedInv, NEW p \in Nat, NEW t \in Text, NEW r \in {0, NextRetrieval}, Call(p, t, r),
         Continues(p, t)
  PROVE  (CallsKnown /\ Numbered /\ Ordered /\ Located /\ OwnerAdds /\ PlansOK
            /\ ResultsOK /\ AllKeptOK /\ AllTraced)'
<1> USE DEF SharedInv
<1> DEFINE new == Len(job) + 1
<1>0. PICK S : job \in Seq(S)
  BY DEF MultiInv, CallsOK
<1>1. /\ job' = Append(job, Called(p, t, r))
      /\ UNCHANGED <<owner, cache, latest, results>>
  BY DEF Call
<1>2. /\ Jobs = 1..Len(job) /\ Len(job) \in Nat
      /\ Jobs' = Jobs \cup {new} /\ new \notin Jobs
      /\ job'[new] = Called(p, t, r) /\ \A j \in Jobs : job'[j] = job[j]
  BY <1>0, <1>1 DEF Jobs
<1>3. /\ DOMAIN job'[new] = CallFields /\ job'[new].text = t /\ job'[new].retrieval = r
      /\ job'[new].at = "decompose" /\ job'[new].parent = p
  BY <1>2 DEF Called, CallFields
<1>4. CallsKnown' /\ KeysStay
  BY <1>2, <1>3 DEF CallsKnown, Key, KeysStay
<1>5. IsFiniteSet(Searches) /\ Cardinality(Searches) \in Nat /\ Searches \subseteq Jobs
  <2>1. IsFiniteSet(1..Len(job))
    <3>1. 1 \in Int /\ Len(job) \in Int
      BY <1>2
    <3> QED
      BY <3>1, FS_Interval, Zenon
  <2> QED
    BY <1>2, <2>1, FS_Subset, FS_CardinalityType DEF Searches
<1>6. Searches' = IF r = 0 THEN Searches ELSE Searches \cup {new}
  BY <1>2, <1>3 DEF Searches
<1>7. Numbered'
  <2>1. CASE r = 0
    BY <1>2, <1>5, <1>6, <2>1 DEF Numbered
  <2>2. CASE r # 0
    <3>1. r = Cardinality(Searches) + 1
      BY <2>2 DEF NextRetrieval
    <3>2. Cardinality(Searches') = Cardinality(Searches) + 1
      BY <1>2, <1>5, <1>6, <2>2, FS_AddElement
    <3>3. \A j \in Searches : job'[j].retrieval \in 1..Cardinality(Searches)
      BY <1>2, <1>5 DEF Numbered
    <3>4. \A j \in Searches' : job'[j].retrieval \in 1..Cardinality(Searches')
      BY <1>3, <1>5, <1>6, <2>2, <3>1, <3>2, <3>3
    <3>5. ASSUME NEW i \in Searches', NEW j \in Searches', job'[i].retrieval = job'[j].retrieval
          PROVE  i = j
      <4>1. CASE i \in Searches /\ j \in Searches
        BY <1>2, <1>5, <3>5, <4>1 DEF Numbered
      <4>2. CASE i = new /\ j = new
        BY <4>2
      <4>3. CASE i \in Searches /\ j = new
        BY <1>3, <1>5, <3>1, <3>3, <3>5, <4>3
      <4>4. CASE i = new /\ j \in Searches
        BY <1>3, <1>5, <3>1, <3>3, <3>5, <4>4
      <4> QED
        BY <1>6, <2>2, <4>1, <4>2, <4>3, <4>4
    <3> QED
      BY <3>4, <3>5 DEF Numbered
  <2> QED
    BY <2>1, <2>2
<1>8. Ordered'
  <2> DEFINE last == new
  <2>1. /\ \A i \in Jobs : i < last /\ ~(last < i) /\ job'[i] = job[i]
        /\ Jobs' = Jobs \cup {last} /\ job'[last].parent = p /\ job'[last].text = t
        /\ job'[last].retrieval = r /\ ~(last < last)
    BY <1>2, <1>3
  <2>2. \A i \in Jobs : job[i].parent \in Nat /\ job[i].retrieval \in Nat
    BY DEF MultiInv, CallsOK
  <2> HIDE DEF last
  <2>3. \A i, j \in Jobs' : i < j => job'[i].parent <= job'[j].parent
    BY <2>1, <2>2 DEF Ordered, Continues
  <2>4. \A i, j \in Jobs' : job'[i].parent = job'[j].parent => job'[i].text = job'[j].text
    BY <2>1 DEF Ordered, Continues
  <2>5. \A i, j \in Searches' : i < j => job'[i].retrieval < job'[j].retrieval
    <3>1. CASE r = 0
      BY <1>5, <1>6, <2>1, <3>1 DEF Ordered
    <3>2. CASE r # 0
      <4>1. r = Cardinality(Searches) + 1 /\ \A i \in Searches : job[i].retrieval < r
        BY <1>5, <3>2 DEF NextRetrieval, Numbered
      <4>2. Searches' = Searches \cup {last}
        BY <1>6, <3>2 DEF last
      <4> QED
        BY <1>5, <2>1, <4>1, <4>2 DEF Ordered
    <3> QED
      BY <3>1, <3>2
  <2>6. \A f \in Final', j \in Jobs' : f < j => job'[j].parent = job'[f].parent
    <3>1. \A f \in Final' : f = last \/ f \in Final
      BY <1>2, <1>6, <2>1 DEF Final, last
    <3>2. Final \subseteq Jobs
      BY DEF Final
    <3> QED
      BY <2>1, <3>1, <3>2 DEF Ordered, Continues
  <2> QED
    BY <2>3, <2>4, <2>5, <2>6 DEF Ordered
<1>9. Located' /\ OwnerAdds'
  BY <1>1, <1>2, <1>3, <1>4, <1>5, <1>6 DEF Located, OwnerAdds, KeysStay
<1>10. PlansGrow /\ PlansOK' /\ ResultsGrow
  BY <1>1, <1>4, PlansUnchanged DEF ResultsGrow
<1>11. \A k \in Searches : ~Busy(k) => k \in Searches' /\ job'[k] = job[k]
  BY <1>2, <1>5, <1>6
<1>12. ResultsOK'
  BY <1>1, <1>10, <1>11, ResultsStay DEF ResultsOK
<1>13. AllTraced'
  BY <1>1, <1>10, TracesStay DEF AllTraced
<1>14. ASSUME NEW i \in Jobs', job'[i].at = "search" PROVE KeptOK(i)'
  <2>1. i \in Jobs /\ job[i].at = "search" /\ job'[i] = job[i]
    BY <1>2, <1>3, <1>14
  <2>2. KeptOK(i) /\ Key(i) \in DOMAIN cache /\ Key(i)' = Key(i)
    BY <1>4, <2>1 DEF AllKeptOK, Located, KeysStay
  <2> QED
    BY <1>10, <2>1, <2>2, KeptStays
<1> QED
  BY <1>4, <1>7, <1>8, <1>9, <1>10, <1>12, <1>13, <1>14 DEF AllKeptOK

\* What reading the previous result keeps is of that result and preserved by the
\* plan.
LEMMA ReadShared ==
  ASSUME SharedInv, NEW j \in Jobs, ReadPrevious(j)
  PROVE  (CallsKnown /\ Numbered /\ Ordered /\ Located /\ OwnerAdds /\ PlansOK
            /\ ResultsOK /\ AllKeptOK /\ AllTraced)'
<1> USE DEF SharedInv
<1> DEFINE previous == ResultOf(job[j].retrieval - 1)
           keep == Reusable(cache[Key(j)], previous.items)
           kept == [q \in keep |-> previous.items[q]]
           call == [job[j] EXCEPT !.at = "search", !.source = previous.key, !.kept = kept]
<1>0. PICK S : job \in Seq(S)
  BY DEF MultiInv, CallsOK
<1>1. /\ job[j].at = "read" /\ owner = 0 /\ job' = [job EXCEPT ![j] = call]
      /\ UNCHANGED <<owner, cache, latest, results>>
  BY DEF ReadPrevious
<1>2. /\ Jobs' = Jobs /\ \A i \in Jobs : i # j => job'[i] = job[i]
      /\ job'[j] = call
  BY <1>0, <1>1 DEF Jobs
<1>3. /\ DOMAIN call = CallFields /\ call.at = "search" /\ call.parent = job[j].parent
      /\ call.text = job[j].text /\ call.retrieval = job[j].retrieval
      /\ call.source = previous.key /\ call.kept = kept
  BY DEF CallsKnown, CallFields
<1> HIDE DEF call
<1>4. CallsKnown' /\ Numbered' /\ Ordered' /\ Searches' = Searches /\ KeysStay
  BY <1>2, <1>3, CallsStay DEF CallsKnown
<1>5. Located' /\ OwnerAdds'
  BY <1>1, <1>2, <1>4 DEF Located, OwnerAdds, KeysStay
<1>6. PlansGrow /\ PlansOK' /\ ResultsGrow
  BY <1>1, <1>4, PlansUnchanged DEF ResultsGrow
<1>7. \A k \in Searches : ~Busy(k) => k \in Searches' /\ job'[k] = job[k]
  BY <1>1, <1>2, <1>4 DEF Searches, Busy
<1>8. ResultsOK'
  BY <1>1, <1>6, <1>7, ResultsStay DEF ResultsOK
<1>9. AllTraced'
  BY <1>1, <1>6, TracesStay DEF AllTraced
<1>10. PICK before : before = job[j].retrieval - 1
  OBVIOUS
<1>11. /\ previous.key = NoKey => DOMAIN previous.items = {}
       /\ previous.key # NoKey => before \in DOMAIN results /\ previous = results[before]
  <2>1. CASE before \in DOMAIN results
    <3>1. previous = results[before] /\ ResultOK(before)
      BY <1>10, <2>1 DEF ResultOf, ResultsOK
    <3>2. previous.key # NoKey
      BY <3>1 DEF ResultOK, PlansOK, PlanOK
    <3> QED
      BY <2>1, <3>1, <3>2
  <2>2. CASE before \notin DOMAIN results
    BY <1>10, <2>2 DEF ResultOf, NoResult, NoItems
  <2> QED
    BY <2>1, <2>2
<1> HIDE DEF previous
<1>12. keep \subseteq cache[Key(j)].preserved \cap DOMAIN previous.items
  BY DEF Reusable
<1> HIDE DEF keep
<1>13. KeptOK(j)'
  <2>1. /\ job'[j].kept = kept /\ job'[j].source = previous.key /\ DOMAIN kept = keep
        /\ \A q \in keep : kept[q] = previous.items[q]
        /\ job'[j].retrieval - 1 = before /\ cache' = cache /\ results' = results
        /\ Key(j)' = Key(j)
    BY <1>1, <1>2, <1>3, <1>4, <1>10 DEF KeysStay
  <2> HIDE DEF kept
  <2>2. CASE previous.key = NoKey
    BY <1>11, <1>12, <2>1, <2>2 DEF KeptOK
  <2>3. CASE previous.key # NoKey
    BY <1>11, <1>12, <2>1, <2>3 DEF KeptOK
  <2> QED
    BY <2>2, <2>3
<1>14. ASSUME NEW i \in Jobs, i # j, job'[i].at = "search" PROVE KeptOK(i)'
  <2>1. job[i].at = "search" /\ job'[i] = job[i]
    BY <1>2, <1>14
  <2>2. KeptOK(i) /\ Key(i) \in DOMAIN cache /\ Key(i)' = Key(i)
    BY <1>4, <2>1 DEF AllKeptOK, Located, KeysStay
  <2> QED
    BY <1>6, <2>1, <2>2, KeptStays
<1> QED
  BY <1>2, <1>4, <1>5, <1>6, <1>8, <1>9, <1>13, <1>14 DEF AllKeptOK

\* What a search publishes follows the dependencies of its plan, and reuses the
\* outcomes of its predecessor.
LEMMA SearchShared ==
  ASSUME SharedInv, NEW j \in Jobs, Search(j)
  PROVE  (CallsKnown /\ Numbered /\ Ordered /\ Located /\ OwnerAdds /\ PlansOK
            /\ ResultsOK /\ AllKeptOK /\ AllTraced)'
<1> USE DEF SharedInv
<1> DEFINE r == job[j].retrieval
           plan == cache[Key(j)]
<1>0. PICK S : job \in Seq(S)
  BY DEF MultiInv, CallsOK
<1>1. job[j].at = "search" /\ owner = 0 /\ UNCHANGED <<owner, cache, latest>>
  BY DEF Search
<1>2. PICK found \in [Intents(plan) -> {"support", "weak", "error"}] :
        LET items == Waves(plan, job[j].kept, found, r)
        IN  /\ results' = [k \in DOMAIN results \cup {r} |->
                             IF k = r THEN [key |-> Key(j), source |-> job[j].source, items |-> items]
                             ELSE results[k]]
            /\ job' = [job EXCEPT ![j] = Returned(@, \A q \in DOMAIN items : items[q].status = "failed")]
  BY DEF Search
<1> DEFINE items == Waves(plan, job[j].kept, found, r)
           failed == \A q \in DOMAIN items : items[q].status = "failed"
           call == Returned(job[j], failed)
<1>3. /\ Jobs' = Jobs /\ \A i \in Jobs : i # j => job'[i] = job[i]
      /\ job'[j] = call
  <2>1. job' = [job EXCEPT ![j] = call]
    BY <1>2
  <2> HIDE DEF call, failed, items
  <2> QED
    BY <1>0, <2>1 DEF Jobs
<1>4. /\ DOMAIN call = CallFields /\ call.at \in {"raised", "done"} /\ call.parent = job[j].parent
      /\ call.text = job[j].text /\ call.retrieval = r
  BY DEF CallsKnown, CallFields, Returned
<1> HIDE DEF call
<1>5. CallsKnown' /\ Numbered' /\ Ordered' /\ Searches' = Searches /\ KeysStay
  BY <1>3, <1>4, CallsStay DEF CallsKnown
<1>6. Located' /\ OwnerAdds'
  BY <1>1, <1>3, <1>4, <1>5 DEF Located, OwnerAdds, KeysStay
<1>7. PlansGrow /\ PlansOK'
  BY <1>1, <1>5, PlansUnchanged
<1>8. j \in Searches /\ Key(j) \in DOMAIN cache /\ KeptOK(j)
  BY <1>1 DEF Located, AllKeptOK
<1>9. r \notin DOMAIN results
  BY <1>1, <1>8 DEF ResultsOK, ResultOK, Numbered, Busy
<1>10. /\ DOMAIN results' = DOMAIN results \cup {r}
       /\ \A s \in DOMAIN results : results'[s] = results[s]
       /\ results'[r].key = Key(j) /\ results'[r].source = job[j].source /\ results'[r].items = items
  <2> HIDE DEF items
  <2> QED
    BY <1>2, <1>9 DEF items
<1>11. ResultsGrow
  BY <1>10 DEF ResultsGrow
<1>12. /\ FollowsDependencies(plan, items) /\ Proper(items)
       /\ \A q \in DOMAIN items : \/ items[q].from = r /\ ~items[q].reused
                                  \/ q \in DOMAIN job[j].kept /\ items[q] = Again(job[j].kept[q])
  <2>1. IsFiniteSet(Intents(plan)) /\ Acyclic(Intents(plan), plan.edges)
    BY <1>8 DEF PlansOK, PlanOK, KeepsRequest
  <2>2. Proper(job[j].kept)
    BY <1>8 DEF KeptOK, Proper, ResultsOK, ResultOK
  <2> QED
    BY <2>1, <2>2, WavesFollow
<1> HIDE DEF items
<1>13. ASSUME NEW k \in Searches, ~Busy(k) PROVE k \in Searches' /\ job'[k] = job[k]
  BY <1>1, <1>3, <1>5, <1>13 DEF Searches, Busy
<1>14. \A s \in DOMAIN results : ResultOK(s)'
  BY <1>7, <1>11, <1>13, ResultsStay
<1>15. PICK s : s = r
  OBVIOUS
<1>16. ResultOK(s)'
  <2>1. job'[j].retrieval = s /\ ~Busy(j)' /\ j \in Searches' /\ Key(j)' = Key(j)
    BY <1>3, <1>4, <1>5, <1>8, <1>15 DEF Busy, KeysStay
  <2>2. results'[s].key = Key(j) /\ results'[s].items = items /\ cache' = cache
    BY <1>1, <1>10, <1>15
  <2> QED
    BY <1>8, <1>12, <2>1, <2>2 DEF ResultOK
<1>17. ResultsOK'
  BY <1>10, <1>14, <1>15, <1>16 DEF ResultsOK
<1>18. ASSUME NEW i \in Jobs, job'[i].at = "search" PROVE KeptOK(i)'
  <2>1. job[i].at = "search" /\ job'[i] = job[i]
    BY <1>3, <1>4, <1>18
  <2>2. KeptOK(i) /\ Key(i) \in DOMAIN cache /\ Key(i)' = Key(i)
    BY <1>5, <2>1 DEF AllKeptOK, Located, KeysStay
  <2> QED
    BY <1>7, <1>11, <2>1, <2>2, KeptStays
<1>19. AllKeptOK'
  BY <1>3, <1>18 DEF AllKeptOK
<1>20. /\ s \in Nat /\ s >= 1 /\ s \in DOMAIN results' /\ results'[s].items = items
       /\ results'[s].key = Key(j) /\ results'[s].source = job[j].source
       /\ \A q : IntentIn(s, q)' = plan.print[q]
       /\ Overtook(s)' <=> plan.base[1] < job[j].source[1]
  <2>1. s \in 1..Cardinality(Searches) /\ s \in Nat
    BY <1>8, <1>15 DEF Numbered, MultiInv, CallsOK
  <2>2. s >= 1
    BY <2>1
  <2> QED
    BY <1>1, <1>10, <1>15, <2>1, <2>2 DEF IntentIn, Overtook
<1>21. ASSUME NEW q \in DOMAIN items, items[q].from = s, ~items[q].reused PROVE Traced(s, q)'
  <2>1. s \in 1..s /\ \A k : k \notin (s + 1)..s
    BY <1>20
  <2>2. results'[s].items[q].from = s /\ ~results'[s].items[q].reused /\ q \in DOMAIN results'[s].items
    BY <1>20, <1>21
  <2> QED
    BY <1>20, <2>1, <2>2 DEF Traced
<1>22. ASSUME NEW q \in DOMAIN items, q \in DOMAIN job[j].kept, items[q] = Again(job[j].kept[q])
       PROVE  Traced(s, q)'
  <2>1. PICK before : before = s - 1
    OBVIOUS
  <2>2. /\ before \in DOMAIN results /\ results[before].key = job[j].source
        /\ q \in plan.preserved /\ q \in DOMAIN results[before].items
        /\ job[j].kept[q] = results[before].items[q]
    BY <1>8, <1>15, <1>22, <2>1 DEF KeptOK
  <2>3. PICK from, item : from = results[before].items[q].from /\ item = results[before].items[q]
    OBVIOUS
  <2>4. Traced(before, q) /\ Traced(before, q)'
    BY <1>7, <1>11, <2>2, TracesStay DEF AllTraced
  <2>5. results'[before] = results[before] /\ before \in DOMAIN results'
    BY <1>11, <2>2 DEF ResultsGrow
  <2>6. /\ from \in 1..before /\ from \in DOMAIN results'
        /\ q \in DOMAIN results'[from].items /\ ~results'[from].items[q].reused
        /\ \A k \in (from + 1)..before : Reuses(k, q, from)'
        /\ IntentIn(from, q)' = IntentIn(before, q)' \/ \E k \in (from + 1)..before : Overtook(k)'
    BY <2>3, <2>4, <2>5 DEF Traced
  <2>7. /\ from \in Int /\ before \in Int /\ from \in 1..s /\ s \in (from + 1)..s /\ s = before + 1
        /\ \A k \in (from + 1)..s : k \in (from + 1)..before \/ k = s
        /\ \A k \in (from + 1)..before : k \in (from + 1)..s
    BY <1>20, <2>1, <2>6
  <2>8. DOMAIN item = ItemFields /\ items[q].from = from
    <3>1. DOMAIN item = ItemFields
      BY <2>2, <2>3 DEF ResultsOK, ResultOK, Proper
    <3> QED
      BY <1>22, <2>2, <2>3, <3>1 DEF Again, ItemFields
  <2>9. Reuses(s, q, from)'
    <3>1. items[q] = Again(results'[from].items[q])
      <4>1. CASE from = before
        BY <1>22, <2>2, <2>5, <4>1
      <4>2. CASE from # before
        <5>1. before \in (from + 1)..before
          BY <2>6, <2>7, <4>2
        <5>2. item = Again(results'[from].items[q])
          BY <2>3, <2>5, <2>6, <5>1 DEF Reuses
        <5>3. Again(item) = item
          BY <5>2, <2>8 DEF Again, ItemFields
        <5> QED
          BY <1>22, <2>2, <2>3, <5>2, <5>3
      <4> QED
        BY <4>1, <4>2
    <3>2. cache'[results'[s].key] = plan
      BY <1>1, <1>20
    <3> QED
      BY <1>20, <2>2, <3>1, <3>2 DEF Reuses
  <2>10. IntentIn(from, q)' = IntentIn(s, q)' \/ \E k \in (from + 1)..s : Overtook(k)'
    <3>1. PICK i \in Searches : job[i].retrieval = before /\ job[j].source = Key(i)
      BY <2>2 DEF ResultsOK, ResultOK
    <3>2. PlanOK(Key(j))
      BY <1>8 DEF PlansOK
    <3>3. plan.base # NoKey
      BY <2>2, <3>2 DEF PlanOK
    <3>4. CASE plan.base = job[j].source
      <4>1. plan.print[q] = cache[results[before].key].print[q]
        BY <2>2, <3>2, <3>3, <3>4 DEF PlanOK
      <4>2. IntentIn(before, q)' = plan.print[q]
        BY <1>1, <2>5, <4>1 DEF IntentIn
      <4> QED
        BY <1>20, <2>6, <2>7, <4>2
    <3>5. CASE plan.base # job[j].source
      <4>1. plan.base[1] < job[j].source[1]
        BY <1>8, <1>15, <2>7, <3>1, <3>3, <3>5, Predecessor
      <4> QED
        BY <1>20, <2>7, <4>1
    <3> QED
      BY <3>4, <3>5
  <2>11. results'[s].items[q].from = from
    BY <1>20, <2>8
  <2>12. \A k \in (from + 1)..s : Reuses(k, q, from)'
    BY <2>6, <2>7, <2>9
  <2> QED
    BY <2>6, <2>7, <2>10, <2>11, <2>12 DEF Traced
<1>23. AllTraced'
  <2>1. \A k \in DOMAIN results : \A q \in DOMAIN results[k].items : Traced(k, q)'
    BY <1>7, <1>11, TracesStay
  <2>2. \A q \in DOMAIN items : Traced(s, q)'
    BY <1>12, <1>15, <1>21, <1>22
  <2> QED
    BY <1>10, <1>15, <2>1, <2>2 DEF AllTraced
<1> QED
  BY <1>5, <1>6, <1>7, <1>17, <1>19, <1>23

\* Where calls, plans and results are left alone.
LEMMA Untouched ==
  ASSUME SharedInv, UNCHANGED <<job, owner, cache, latest, results>>
  PROVE  (CallsKnown /\ Numbered /\ Ordered /\ Located /\ OwnerAdds /\ PlansOK
            /\ ResultsOK /\ AllKeptOK /\ AllTraced)'
<1> USE DEF SharedInv
<1>1. Jobs' = Jobs /\ Searches' = Searches /\ Final' = Final /\ KeysStay
  BY DEF Jobs, Searches, Final, Key, KeysStay
<1>2. CallsKnown' /\ Numbered' /\ Ordered' /\ Located' /\ OwnerAdds'
  BY <1>1 DEF CallsKnown, Numbered, Ordered, Located, OwnerAdds, Key
<1>3. PlansGrow /\ PlansOK' /\ ResultsGrow
  BY <1>1, PlansUnchanged DEF ResultsGrow
<1>4. \A k \in Searches : ~Busy(k) => k \in Searches' /\ job'[k] = job[k]
  BY <1>1
<1>5. ResultsOK'
  BY <1>3, <1>4, ResultsStay DEF ResultsOK
<1>6. AllTraced'
  BY <1>3, TracesStay DEF AllTraced
<1>7. ASSUME NEW i \in Jobs, job[i].at = "search" PROVE KeptOK(i)'
  <2>1. KeptOK(i) /\ Key(i) \in DOMAIN cache /\ Key(i)' = Key(i) /\ job'[i] = job[i]
    BY <1>1, <1>7 DEF AllKeptOK, Located, KeysStay
  <2> QED
    BY <1>3, <2>1, KeptStays
<1> QED
  BY <1>1, <1>2, <1>3, <1>5, <1>6, <1>7 DEF AllKeptOK

\* Every step keeps what calls, plans and results have in common.
LEMMA SharedStep ==
  ASSUME SharedInv, [MultiNext]_multiVars
  PROVE  SharedInv'
<1>0. MultiInv' /\ MultiInv
  BY MultiStepKeepsInv DEF SharedInv
<1> DEFINE Kept == (CallsKnown /\ Numbered /\ Ordered /\ Located /\ OwnerAdds /\ PlansOK
                      /\ ResultsOK /\ AllKeptOK /\ AllTraced)'
<1>1. /\ NextRetrieval \in Nat /\ LastParent \in Nat /\ LastParent + 1 \in Nat /\ 0 \in Nat
      /\ 0 \in {0, NextRetrieval} /\ NextRetrieval \in {0, NextRetrieval}
  BY <1>0, RetrievalNumbered DEF MultiInv
<1>2. \A j \in Jobs : job[j].parent \in Nat /\ job[j].text \in Text
  BY <1>0 DEF MultiInv, CallsOK, SharedInv, CallsKnown
<1>d. \A i \in Jobs : Len(job) \in Jobs /\ job[i].parent <= LastParent
  <2>1. Len(job) \in Nat /\ Jobs = 1..Len(job)
    BY <1>0 DEF MultiInv, CallsOK, Jobs
  <2> QED
    BY <1>2, <2>1 DEF LastParent, SharedInv, Ordered
<1>n. ASSUME Final = {}, NEW t PROVE Continues(LastParent + 1, t)
  BY <1>1, <1>2, <1>d, <1>n DEF Continues
<1>c. ASSUME NEW p \in Nat, NEW t \in Text, NEW r \in {0, NextRetrieval}, Call(p, t, r), Continues(p, t)
      PROVE  Kept
  BY <1>c, CallShared
<1>w. ASSUME UNCHANGED <<job, owner, cache, latest, results>> PROVE Kept
  BY <1>w, Untouched
<1>k. ASSUME NEW j \in Jobs, owner = j, NEW plan, Addable(j, plan), Commit(j, plan) PROVE Kept
  BY <1>k, CommitShared
<1>l. ASSUME NEW j \in Jobs, Lookup(j) \/ ReadPrevious(j) \/ Search(j) PROVE Kept
  BY <1>l, LookupShared, ReadShared, SearchShared
<1>e. Kept => SharedInv'
  BY <1>0 DEF SharedInv
<1> HIDE DEF Kept
<1>3. CASE \E t \in Text : Ask(t)
  <2>1. PICK t \in Text : Final = {} /\ Call(LastParent + 1, t, NextRetrieval)
    BY <1>3 DEF Ask
  <2> QED
    BY <1>1, <1>c, <1>e, <1>n, <2>1
<1>4. CASE Finalise
  <2>1. CASE Final = {} /\ Jobs # {} /\ Call(LastParent, job[Len(job)].text, 0)
    <3>1. PICK last \in Jobs : last = Len(job)
      BY <1>d, <2>1
    <3>2. LastParent = job[last].parent
      BY <3>1 DEF LastParent
    <3>3. Continues(LastParent, job[last].text)
      BY <1>d, <2>1, <3>2 DEF Continues, SharedInv, Ordered
    <3> QED
      BY <1>1, <1>2, <1>c, <1>e, <2>1, <3>1, <3>3
  <2>2. CASE Final = {} /\ \E t \in Text : Call(LastParent + 1, t, 0)
    BY <1>1, <1>c, <1>e, <1>n, <2>2
  <2> QED
    BY <1>4, <2>1, <2>2 DEF Finalise
<1>5. CASE Recover
  <2>1. PICK f \in Final : Call(job[f].parent, job[f].text, NextRetrieval)
    BY <1>5 DEF Recover
  <2>2. f \in Jobs /\ job[f].parent \in Nat /\ job[f].text \in Text
    BY <1>2 DEF Final
  <2>3. ASSUME NEW i \in Jobs PROVE job[i].parent <= job[f].parent
    <3>1. Jobs \subseteq Int
      BY DEF Jobs, SharedInv, MultiInv, CallsOK
    <3>2. i < f \/ i = f \/ f < i
      BY <2>2, <3>1
    <3>3. job[i].parent \in Nat
      BY <1>2
    <3> QED
      BY <2>2, <3>2, <3>3 DEF SharedInv, Ordered
  <2>4. ASSUME NEW g \in Final PROVE job[g].parent = job[f].parent
    <3>1. Jobs \subseteq Int /\ g \in Jobs
      BY DEF Jobs, Final, SharedInv, MultiInv, CallsOK
    <3>2. g < f \/ g = f \/ f < g
      BY <2>2, <3>1
    <3> QED
      BY <2>2, <3>1, <3>2 DEF SharedInv, Ordered
  <2>5. Continues(job[f].parent, job[f].text)
    BY <2>2, <2>3, <2>4 DEF Continues, SharedInv, Ordered
  <2> QED
    BY <1>1, <1>c, <1>e, <2>1, <2>2, <2>5
<1>6. ASSUME NEW j \in Jobs, Repair(j), owner = j PROVE Kept
  <2>1. CASE Commit(j, Fallback(job[j].text))
    BY <1>6, <1>k, <2>1, PlansAddable
  <2>2. CASE ~Commit(j, Fallback(job[j].text))
    BY <1>6, <1>w, <2>2 DEF Repair
  <2> QED
    BY <2>1, <2>2
<1>7. ASSUME NEW j \in Jobs, JobStep(j) PROVE Kept
  <2>1. CASE Respond(j)
    <3>1. CASE \E plan \in Readings[job[j].text] : Commit(j, Accepted(j, plan))
      BY <1>k, <2>1, <3>1, PlansAddable DEF Respond
    <3> QED
      BY <1>6, <2>1, <3>1 DEF Respond
  <2>2. CASE Breaks(j)
    BY <1>k, <2>2, PlansAddable DEF Breaks
  <2>3. CASE TimesOut(j)
    BY <1>6, <2>3 DEF TimesOut
  <2> QED
    BY <1>7, <1>l, <2>1, <2>2, <2>3 DEF JobStep
<1>8. CASE UNCHANGED multiVars
  BY <1>8, <1>w, <1>e DEF multiVars
<1> QED
  BY <1>3, <1>4, <1>5, <1>7, <1>8, <1>e DEF MultiNext

\* No call has been made and nothing is cached.
LEMMA SharedInit == MultiInit => SharedInv
<1> SUFFICES ASSUME MultiInit PROVE SharedInv
  OBVIOUS
<1>1. MultiInv
  BY MultiInitInv
<1>2. /\ Jobs = {} /\ Searches = {} /\ DOMAIN cache = {} /\ DOMAIN results = {}
      /\ owner = 0 /\ latest = NoKey
  BY DEF MultiInit, Jobs, Searches
<1>3. CallsKnown /\ Numbered /\ Ordered /\ Located /\ OwnerAdds
  BY <1>2 DEF CallsKnown, Numbered, Ordered, Final, Located, OwnerAdds
<1>4. PlansOK /\ ResultsOK /\ AllKeptOK /\ AllTraced
  BY <1>2 DEF PlansOK, ResultsOK, AllKeptOK, AllTraced
<1> QED
  BY <1>1, <1>3, <1>4 DEF SharedInv

\* The invariant of the shared state.
THEOREM SharedInvariance == MultiSpec => []SharedInv
<1>1. SharedInv /\ [MultiNext]_multiVars => SharedInv'
  BY SharedStep
<1> QED
  BY <1>1, SharedInit, PTL DEF MultiSpec

\* However a response words its intents, the plan accepted from it, and the
\* fallback, holds every value the transcript states and an order to search in
\* (_normalise_provider_plan, _commit_decomposition).
THEOREM PlansKeepRequest == MultiSpec => []PlansKeepTheRequest
<1>1. SharedInv => PlansKeepTheRequest
  BY DEF SharedInv, PlansOK, PlanOK, KeepsRequest, PlansKeepTheRequest
<1> QED
  BY <1>1, SharedInvariance, PTL

\* Every intent of a searched plan has an outcome, and none is completed
\* without the evidence of what it depends on, searched or reused
\* (search_with_revision and its waves).
THEOREM OutcomesFollow == MultiSpec => []OutcomesFollowDependencies
<1>1. SharedInv => OutcomesFollowDependencies
  BY DEF SharedInv, ResultsOK, ResultOK, FollowsDependencies, OutcomesFollowDependencies
<1> QED
  BY <1>1, SharedInvariance, PTL

\* In whatever order calls decompose, read and publish, an outcome is of one
\* search, reused by every retrieval since, and it was found for the intent as
\* the plan has it, unless one of these read a predecessor that had been
\* overtaken (_reusable_results, search_with_revision).
THEOREM ReuseHasOneSource == MultiSpec => []ReuseIsTraced
<1>1. SharedInv => ReuseIsTraced
  <2> SUFFICES ASSUME SharedInv, NEW r \in DOMAIN results, NEW q \in DOMAIN results[r].items
               PROVE  LET from == results[r].items[q].from
                          since == (from + 1)..r
                      IN  /\ from \in DOMAIN results /\ q \in DOMAIN results[from].items
                          /\ ~results[from].items[q].reused
                          /\ \A k \in since :
                               /\ k \in DOMAIN results /\ q \in cache[results[k].key].preserved
                               /\ results[k].items[q] = [results[from].items[q] EXCEPT !.reused = TRUE]
                          /\ IntentIn(from, q) = IntentIn(r, q) \/ \E k \in since : Overtook(k)
    BY DEF ReuseIsTraced
  <2>1. Traced(r, q)
    BY DEF SharedInv, AllTraced
  <2> QED
    BY <2>1 DEF Traced, Reuses, Again
<1> QED
  BY <1>1, SharedInvariance, PTL

=============================================================================
