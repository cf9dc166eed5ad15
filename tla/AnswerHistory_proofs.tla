------------------------- MODULE AnswerHistory_proofs -------------------------
(***************************************************************************)
(* What a Phase 4 session keeps of its past, for every sequence of writes  *)
(* and every bound: eviction never takes what is in use, and a version     *)
(* accounts for its parent.                                                *)
(***************************************************************************)
EXTENDS AnswerHistory, FiniteSetTheorems, TLAPS

-----------------------------------------------------------------------------
(* What a session's records have in common.  All of it is about members of *)
(* the lists, never about places, so that it survives eviction.            *)

IsList(items) == items \in Seq(ToSet(items))
\* No two items have one ID.
Unrepeated(items) == \A j, k \in DOMAIN items : items[j].at = items[k].at => j = k
SameIds(c, d) == c.current /\ d.current /\ c.id = d.id => c = d

SessionFields == {"revision", "retrieval", "planned", "intents", "evidence", "claims", "versions", "pointer", "strained"}
Shaped(m) ==
  /\ DOMAIN m = SessionFields
  /\ m.revision \in Nat /\ m.retrieval \in Nat /\ m.pointer \in Nat /\ m.strained \in BOOLEAN
  /\ IsList(m.evidence) /\ IsList(m.claims) /\ IsList(m.versions)

\* Rebound evidence names the revision that rebound it.
EvidenceFields == {"at", "chunk", "current"}
EvidenceOK(e, revision) ==
  /\ DOMAIN e = EvidenceFields /\ e.current \in BOOLEAN
  /\ e.at[2] = "reuse" => e.at[1] \in 0..revision

\* A claim ID is one a provider gave or one made up for a version; a record
\* names its claim and the version or the revision that recorded it.
IdKnown(id, n) == id = <<id[1]>> \/ (id = <<id[1], id[2], id[3]>> /\ id[2] \in 1..n)
ClaimFields == {"at", "id", "content", "support", "current"}
ClaimOK(c, revision, n) ==
  /\ DOMAIN c = ClaimFields /\ c.current \in BOOLEAN /\ IsFiniteSet(c.support)
  /\ c.at[1] = c.id /\ IdKnown(c.id, n)
  /\ c.at[2] \in {"v", "r"}
  /\ c.at[2] = "v" => c.at[3] \in 1..n
  /\ c.at[2] = "r" => c.at[3] \in 0..revision

EvidenceKept(m) == Unrepeated(m.evidence) /\ \A e \in ToSet(m.evidence) : EvidenceOK(e, m.revision)
ClaimsKept(m) == Unrepeated(m.claims) /\ \A c \in ToSet(m.claims) : ClaimOK(c, m.revision, m.pointer)

\* Current claims have different IDs and rest on current evidence.
InForce(items) == {item.at : item \in {item \in ToSet(items) : item.current}}
CurrentStands(m) ==
  /\ \A c, d \in ToSet(m.claims) : SameIds(c, d)
  /\ \A c \in ToSet(m.claims) : c.current => c.support \subseteq InForce(m.evidence)

\* Versions are numbered up to the publication; their claims have different
\* IDs and are what their records say.
Agree(c, d) == c.at = d.at => c.content = d.content
VersionOK(v, n) ==
  /\ v.number \in 1..n /\ v.parent \in 0..(v.number - 1) /\ IsList(v.claims)
  /\ \A d \in ToSet(v.claims) : d.at = <<d.id, "v", v.number>> /\ IdKnown(d.id, n)
  /\ \A j, k \in DOMAIN v.claims : v.claims[j].id = v.claims[k].id => j = k
VersionsKept(m) ==
  /\ \A v \in ToSet(m.versions) : VersionOK(v, m.pointer)
  /\ \A v \in ToSet(m.versions), c \in ToSet(m.claims) : \A d \in ToSet(v.claims) : Agree(c, d)
  /\ \A v, w \in ToSet(m.versions) : v.number = w.number => v = w
  /\ m.pointer # 0 => \E v \in ToSet(m.versions) : v.number = m.pointer

\* A current claim is one of the publication, possibly with intents renamed.
Lists(v, c) == \E d \in ToSet(v.claims) : d.id = c.id /\ SameMatter(d.content, c.content)
CurrentPublished(m) ==
  \A c \in ToSet(m.claims) : c.current => \E v \in ToSet(m.versions) : v.number = m.pointer /\ Lists(v, c)

\* As long as nothing was crowded out, what was published has its records.
PublishedKept(m) ==
  ~m.strained =>
    /\ Published(m) \subseteq Ids(m.claims)
    /\ \A c \in ToSet(m.claims) : c.at \in Published(m) => c.support \subseteq Ids(m.evidence)

\* The intents of a content have the IDs the session gives them.
NamedBy(content, intents) ==
  /\ DOMAIN content.intents \subseteq Slot
  /\ content = [says |-> content.says, intents |-> [s \in DOMAIN content.intents |-> intents[s]]]
CurrentNamed(m) == \A c \in ToSet(m.claims) : c.current => NamedBy(c.content, m.intents)

Explained(v, p) ==
  LET mine == ToSet(v.claims)  theirs == ToSet(p.claims)
  IN  /\ Cardinality({c.id : c \in mine}) = Len(v.claims)
      /\ \A c \in mine : \E change \in v.changes :
           /\ change.to = c.id
           /\ \A other \in v.changes : other.to = c.id => other = change
           /\ change.kind = "preserved" =>
                \E d \in theirs : d.id = change.from /\ SameMatter(d.content, c.content)
           /\ (\E d \in theirs : d.id = change.from /\ d.content = c.content) => change.kind = "preserved"
      /\ \A d \in theirs : \E change \in v.changes : change.from = d.id
      /\ \A c \in mine, d \in theirs : c.id = d.id => SameMatter(c.content, d.content)
      /\ v.held \subseteq {c.id : c \in mine}
AllExplained(m) ==
  \A v, p \in ToSet(m.versions) : v.parent = p.number /\ v.whole => Explained(v, p)

RecordsOK(m) ==
  /\ Shaped(m) /\ EvidenceKept(m) /\ ClaimsKept(m) /\ CurrentStands(m)
  /\ CurrentNamed(m) /\ VersionsKept(m) /\ CurrentPublished(m) /\ PublishedKept(m) /\ AllExplained(m)

-----------------------------------------------------------------------------
(* Those of some items.                                                    *)

ThoseStep(wanted, those, item) == IF item \in wanted THEN Append(those, item) ELSE those
ThoseR == INSTANCE Recursion WITH Value <- ThoseStep

\* The places of the first n items of s that are wanted, in order.
PlacesIn(places, those, s, n, wanted) ==
  /\ places \in [1..Len(those) -> 1..n]
  /\ \A k \in 1..Len(those) : those[k] = s[places[k]] /\ those[k] \in wanted
  /\ \A j, k \in 1..Len(those) : j < k => places[j] < places[k]
  /\ \A i \in 1..n : s[i] \in wanted => \E k \in 1..Len(those) : places[k] = i

\* Those are the wanted items, in their order.
LEMMA ThosePlaced ==
  ASSUME NEW S, NEW s \in Seq(S), NEW wanted
  PROVE  /\ Those(s, wanted) \in Seq(S)
         /\ \E places : PlacesIn(places, Those(s, wanted), s, Len(s), wanted)
<1> DEFINE n == Len(s)
<1>1. n \in Nat /\ DOMAIN s = 1..n /\ \A i \in 1..n : s[i] \in S
  OBVIOUS
<1>2. Those(s, wanted) = ThoseR!Fold(wanted, <<>>, s)
  BY DEF Those, ThoseR!Fold, ThoseR!Largest, ThoseStep, FoldLeft, MapThenFoldSet, Max
<1>3. PICK run : /\ run[0] = <<>> /\ run[n] = Those(s, wanted)
                 /\ \A i \in 1..n : run[i] = ThoseStep(wanted, run[i - 1], s[i])
  BY <1>1, <1>2, ThoseR!FoldRuns, SMTT(30)
<1> DEFINE Good(i) == run[i] \in Seq(S) /\ \E places : PlacesIn(places, run[i], s, i, wanted)
           G == {i \in Nat : i <= n => Good(i)}
<1>4. 0 \in G
  <2>1. run[0] \in Seq(S) /\ Len(run[0]) = 0
    BY <1>3
  <2>2. PICK places : places = [k \in 1..Len(run[0]) |-> 0]
    OBVIOUS
  <2>3. PlacesIn(places, run[0], s, 0, wanted)
    BY <2>1, <2>2 DEF PlacesIn
  <2> QED
    BY <2>1, <2>3
<1>5. ASSUME NEW i \in Nat, i \in G PROVE i + 1 \in G
  <2> SUFFICES ASSUME i + 1 <= n PROVE Good(i + 1)
    OBVIOUS
  <2>1. run[i] \in Seq(S) /\ i + 1 \in 1..n /\ s[i + 1] \in S
    BY <1>1, <1>5
  <2>2. PICK places : PlacesIn(places, run[i], s, i, wanted)
    BY <1>5
  <2>3. run[i + 1] = ThoseStep(wanted, run[i], s[i + 1])
    BY <1>3, <2>1
  <2>4. CASE s[i + 1] \notin wanted
    <3>1. run[i + 1] = run[i]
      BY <2>3, <2>4 DEF ThoseStep
    <3>2. PlacesIn(places, run[i], s, i + 1, wanted)
      BY <2>1, <2>2, <2>4, SMTT(30) DEF PlacesIn
    <3> QED
      BY <2>1, <3>1, <3>2
  <2>5. CASE s[i + 1] \in wanted
    <3>1. PICK a : a = run[i]
      OBVIOUS
    <3>2. PICK b : b = Append(a, s[i + 1])
      OBVIOUS
    <3>3. PICK l \in Nat : l = Len(a)
      BY <2>1, <3>1
    <3>4. /\ b \in Seq(S) /\ Len(b) = l + 1 /\ b[l + 1] = s[i + 1]
          /\ \A k \in 1..l : b[k] = a[k]
      BY <2>1, <3>1, <3>2, <3>3
    <3>5. run[i + 1] = b
      BY <2>3, <2>5, <3>1, <3>2 DEF ThoseStep
    <3>6. /\ places \in [1..l -> 1..i]
          /\ \A k \in 1..l : a[k] = s[places[k]] /\ a[k] \in wanted
          /\ \A j, k \in 1..l : j < k => places[j] < places[k]
          /\ \A h \in 1..i : s[h] \in wanted => \E k \in 1..l : places[k] = h
      BY <2>2, <3>1, <3>3 DEF PlacesIn
    <3>7. PICK more : more = [k \in 1..(l + 1) |-> IF k = l + 1 THEN i + 1 ELSE places[k]]
      OBVIOUS
    <3>8. /\ more \in [1..(l + 1) -> 1..(i + 1)]
          /\ more[l + 1] = i + 1 /\ \A k \in 1..l : more[k] = places[k] /\ places[k] \in 1..i
      BY <3>6, <3>7
    <3>9. \A k \in 1..(l + 1) : b[k] = s[more[k]] /\ b[k] \in wanted
      <4> SUFFICES ASSUME NEW k \in 1..(l + 1) PROVE b[k] = s[more[k]] /\ b[k] \in wanted
        OBVIOUS
      <4>1. CASE k = l + 1
        BY <2>5, <3>4, <3>8, <4>1
      <4>2. CASE k \in 1..l
        BY <3>4, <3>6, <3>8, <4>2
      <4> QED
        BY <4>1, <4>2
    <3>10. \A j, k \in 1..(l + 1) : j < k => more[j] < more[k]
      <4> SUFFICES ASSUME NEW j \in 1..(l + 1), NEW k \in 1..(l + 1), j < k
                   PROVE  more[j] < more[k]
        OBVIOUS
      <4>1. j \in 1..l /\ more[j] = places[j] /\ places[j] \in 1..i
        <5>1. j \in 1..l
          OBVIOUS
        <5> QED
          BY <3>8, <5>1
      <4>2. CASE k = l + 1
        BY <3>8, <4>1, <4>2
      <4>3. CASE k \in 1..l
        <5>1. more[k] = places[k]
          BY <3>8, <4>3
        <5>2. places[j] < places[k]
          BY <3>6, <4>1, <4>3
        <5> QED
          BY <4>1, <5>1, <5>2
      <4> QED
        BY <4>2, <4>3
    <3>11. \A h \in 1..(i + 1) : s[h] \in wanted => \E k \in 1..(l + 1) : more[k] = h
      <4> SUFFICES ASSUME NEW h \in 1..(i + 1), s[h] \in wanted
                   PROVE  \E k \in 1..(l + 1) : more[k] = h
        OBVIOUS
      <4>1. CASE h = i + 1
        BY <3>8, <4>1
      <4>2. CASE h \in 1..i
        <5>1. PICK k \in 1..l : places[k] = h
          BY <3>6, <4>2
        <5>2. k \in 1..(l + 1) /\ more[k] = h
          BY <3>8, <5>1
        <5> QED
          BY <5>2
      <4> QED
        BY <4>1, <4>2
    <3>12. PlacesIn(more, b, s, i + 1, wanted)
      BY <3>4, <3>8, <3>9, <3>10, <3>11 DEF PlacesIn
    <3> QED
      BY <3>4, <3>5, <3>12
  <2> QED
    BY <2>4, <2>5
<1>6. Nat \subseteq G
  <2> HIDE DEF G
  <2> QED
    BY <1>4, <1>5, ThoseR!NumberInduction
<1>7. Good(n)
  BY <1>1, <1>6
<1> QED
  BY <1>3, <1>7

\* Those items as a set, and the first of them.
LEMMA ThoseItems ==
  ASSUME NEW S, NEW s \in Seq(S), NEW wanted
  PROVE  /\ Those(s, wanted) \in Seq(S)
         /\ ToSet(Those(s, wanted)) = ToSet(s) \cap wanted
         /\ Those(s, wanted) # <<>> =>
              \E i \in 1..Len(s) : /\ Head(Those(s, wanted)) = s[i] /\ s[i] \in wanted
                                   /\ \A j \in 1..(i - 1) : s[j] \notin wanted
<1> DEFINE those == Those(s, wanted)
<1>1. those \in Seq(S)
  BY ThosePlaced
<1>2. PICK places : PlacesIn(places, those, s, Len(s), wanted)
  BY ThosePlaced
<1> HIDE DEF those
<1>3. ToSet(those) = ToSet(s) \cap wanted
  BY <1>1, <1>2, SMTT(30) DEF ToSet, PlacesIn
<1>4. ASSUME those # <<>>
      PROVE  \E i \in 1..Len(s) : /\ Head(those) = s[i] /\ s[i] \in wanted
                                  /\ \A j \in 1..(i - 1) : s[j] \notin wanted
  <2>1. Len(those) \in Nat /\ Len(those) >= 1 /\ Head(those) = those[1]
    BY <1>1, <1>4
  <2>2. PICK i \in 1..Len(s) : places[1] = i
    BY <1>2, <2>1 DEF PlacesIn
  <2>3. Head(those) = s[i] /\ s[i] \in wanted
    BY <1>2, <2>1, <2>2 DEF PlacesIn
  <2>4. ASSUME NEW j \in 1..(i - 1), s[j] \in wanted PROVE FALSE
    <3>1. PICK k \in 1..Len(those) : places[k] = j
      BY <1>1, <1>2, <2>4, SMTT(30) DEF PlacesIn
    <3>2. k = 1 \/ places[1] < places[k]
      BY <1>2, <2>1 DEF PlacesIn
    <3> QED
      BY <2>2, <3>1, <3>2
  <2> QED
    BY <2>3, <2>4
<1> QED
  BY <1>1, <1>3, <1>4 DEF those

\* Those of items with different IDs have different IDs.
LEMMA ThoseUnrepeated ==
  ASSUME NEW S, NEW s \in Seq(S), NEW wanted, Unrepeated(s)
  PROVE  Unrepeated(Those(s, wanted))
<1> DEFINE those == Those(s, wanted)
<1>1. those \in Seq(S)
  BY ThosePlaced
<1>2. PICK places : PlacesIn(places, those, s, Len(s), wanted)
  BY ThosePlaced
<1> HIDE DEF those
<1>3. ASSUME NEW j \in DOMAIN those, NEW k \in DOMAIN those, those[j].at = those[k].at
      PROVE  j = k
  <2>1. DOMAIN those = 1..Len(those) /\ Len(those) \in Nat /\ DOMAIN s = 1..Len(s)
    BY <1>1
  <2>2. /\ places[j] \in 1..Len(s) /\ places[k] \in 1..Len(s)
        /\ those[j] = s[places[j]] /\ those[k] = s[places[k]]
        /\ (j < k => places[j] < places[k]) /\ (k < j => places[k] < places[j])
    BY <1>2, <1>3, <2>1 DEF PlacesIn
  <2>3. places[j] = places[k]
    BY <1>3, <2>1, <2>2 DEF Unrepeated
  <2> QED
    BY <1>3, <2>1, <2>2, <2>3
<1> QED
  BY <1>3 DEF Unrepeated, those

-----------------------------------------------------------------------------
(* Lists, their members and their IDs.                                     *)

\* A sequence is a list of its members, and its IDs are theirs.
LEMMA ListFacts ==
  ASSUME NEW S, NEW s \in Seq(S)
  PROVE  /\ IsList(s) /\ Len(s) \in Nat /\ DOMAIN s = 1..Len(s) /\ ToSet(s) \subseteq S
         /\ \A k \in 1..Len(s) : s[k] \in ToSet(s)
         /\ \A x \in ToSet(s) : \E k \in 1..Len(s) : x = s[k]
         /\ Ids(s) = {x.at : x \in ToSet(s)}
         /\ IsFiniteSet(ToSet(s)) /\ IsFiniteSet(Ids(s))
<1>1. Len(s) \in Nat /\ DOMAIN s = 1..Len(s) /\ s = [k \in 1..Len(s) |-> s[k]]
  OBVIOUS
<1>2. ToSet(s) \subseteq S /\ \A k \in 1..Len(s) : s[k] \in ToSet(s)
  BY DEF ToSet
<1>3. \A x \in ToSet(s) : \E k \in 1..Len(s) : x = s[k]
  BY <1>1 DEF ToSet
<1>4. IsList(s)
  <2>1. s \in [1..Len(s) -> ToSet(s)]
    BY <1>1, <1>2
  <2> QED
    BY <1>1, <2>1 DEF IsList
<1>5. Ids(s) = {x.at : x \in ToSet(s)}
  BY DEF Ids, ToSet
<1>6. IsFiniteSet(1..Len(s))
  <2>1. 1 \in Int /\ Len(s) \in Int
    BY <1>1
  <2> QED
    BY <2>1, FS_Interval
<1>7. IsFiniteSet(ToSet(s))
  <2>1. s \in Surjection(1..Len(s), ToSet(s))
    BY <1>1, <1>2, <1>3 DEF Surjection
  <2> QED
    BY <1>6, <2>1, FS_Surjection
<1>8. IsFiniteSet(Ids(s))
  <2>1. PICK f : f = [k \in 1..Len(s) |-> s[k].at]
    OBVIOUS
  <2>2. f \in Surjection(1..Len(s), Ids(s))
    BY <1>1, <2>1 DEF Surjection, Ids
  <2> QED
    BY <1>6, <2>2, FS_Surjection
<1> QED
  BY <1>1, <1>2, <1>3, <1>4, <1>5, <1>7, <1>8

\* Members of a list without repetitions are told apart by their IDs.
LEMMA SameItem ==
  ASSUME NEW s, Unrepeated(s), NEW x \in ToSet(s), NEW y \in ToSet(s), x.at = y.at
  PROVE  x = y
BY DEF Unrepeated, ToSet

\* One list after another.
LEMMA Joined ==
  ASSUME NEW S, NEW a \in Seq(S), NEW b \in Seq(S)
  PROVE  /\ a \o b \in Seq(S) /\ ToSet(a \o b) = ToSet(a) \cup ToSet(b)
         /\ Unrepeated(a) /\ Unrepeated(b) /\ Ids(a) \cap Ids(b) = {} => Unrepeated(a \o b)
<1>1. PICK la \in Nat, lb \in Nat : la = Len(a) /\ lb = Len(b)
  OBVIOUS
<1>2. PICK ab : ab = a \o b
  OBVIOUS
<1>3. /\ ab \in Seq(S) /\ Len(ab) = la + lb /\ DOMAIN ab = 1..(la + lb)
      /\ DOMAIN a = 1..la /\ DOMAIN b = 1..lb
      /\ \A k \in 1..la : ab[k] = a[k]
      /\ \A k \in (la + 1)..(la + lb) : ab[k] = b[k - la]
  BY <1>1, <1>2
<1>4. ToSet(ab) = ToSet(a) \cup ToSet(b)
  <2>1. ASSUME NEW k \in 1..(la + lb) PROVE ab[k] \in ToSet(a) \cup ToSet(b)
    <3>1. CASE k \in 1..la
      BY <1>3, <3>1 DEF ToSet
    <3>2. CASE k \in (la + 1)..(la + lb)
      <4>1. k - la \in 1..lb
        BY <3>2
      <4> QED
        BY <1>3, <3>2, <4>1 DEF ToSet
    <3> QED
      BY <3>1, <3>2
  <2>2. ASSUME NEW k \in 1..la PROVE a[k] \in ToSet(ab)
    <3>1. k \in 1..(la + lb) /\ ab[k] = a[k]
      BY <1>3
    <3> QED
      BY <1>3, <3>1 DEF ToSet
  <2>3. ASSUME NEW k \in 1..lb PROVE b[k] \in ToSet(ab)
    <3>1. k + la \in (la + 1)..(la + lb) /\ k + la - la = k /\ k + la \in 1..(la + lb)
      OBVIOUS
    <3>2. ab[k + la] = b[k]
      BY <1>3, <3>1
    <3> QED
      BY <1>3, <3>1, <3>2 DEF ToSet
  <2>4. /\ ToSet(ab) = {ab[k] : k \in 1..(la + lb)}
        /\ ToSet(a) = {a[k] : k \in 1..la} /\ ToSet(b) = {b[k] : k \in 1..lb}
    BY <1>3 DEF ToSet
  <2> QED
    BY <2>1, <2>2, <2>3, <2>4
<1>5. ASSUME Unrepeated(a), Unrepeated(b), Ids(a) \cap Ids(b) = {},
             NEW j \in 1..(la + lb), NEW k \in 1..(la + lb), j <= k, ab[j].at = ab[k].at
      PROVE  j = k
  <2>1. CASE k \in 1..la
    <3>1. j \in 1..la
      BY <1>5, <2>1
    <3>2. a[j].at = a[k].at
      BY <1>3, <1>5, <2>1, <3>1
    <3> QED
      BY <1>3, <1>5, <2>1, <3>1, <3>2 DEF Unrepeated
  <2>2. CASE j \in (la + 1)..(la + lb)
    <3>1. j - la \in 1..lb /\ k - la \in 1..lb /\ k \in (la + 1)..(la + lb)
      BY <1>5, <2>2
    <3>2. b[j - la].at = b[k - la].at
      BY <1>3, <1>5, <2>2, <3>1
    <3>3. j - la = k - la
      BY <1>3, <1>5, <3>1, <3>2 DEF Unrepeated
    <3> QED
      BY <3>3
  <2>3. CASE j \in 1..la /\ k \in (la + 1)..(la + lb)
    <3>1. k - la \in 1..lb
      BY <2>3
    <3>2. a[j].at = b[k - la].at
      BY <1>3, <1>5, <2>3
    <3> QED
      BY <1>3, <1>5, <2>3, <3>1, <3>2 DEF Ids
  <2> QED
    BY <1>5, <2>1, <2>2, <2>3
<1>6. Unrepeated(a) /\ Unrepeated(b) /\ Ids(a) \cap Ids(b) = {} => Unrepeated(ab)
  <2> SUFFICES ASSUME Unrepeated(a), Unrepeated(b), Ids(a) \cap Ids(b) = {},
                      NEW j \in 1..(la + lb), NEW k \in 1..(la + lb), ab[j].at = ab[k].at
               PROVE  j = k
    BY <1>3 DEF Unrepeated
  <2>1. j <= k \/ k <= j
    OBVIOUS
  <2> QED
    BY <1>5, <2>1
<1> QED
  BY <1>2, <1>3, <1>4, <1>6

\* A new item at the end.
LEMMA Added ==
  ASSUME NEW S, NEW s \in Seq(S), NEW x \in S
  PROVE  /\ Append(s, x) \in Seq(S) /\ ToSet(Append(s, x)) = ToSet(s) \cup {x}
         /\ Unrepeated(s) /\ x.at \notin Ids(s) => Unrepeated(Append(s, x))
<1>1. PICK l \in Nat : l = Len(s)
  OBVIOUS
<1>2. PICK t : t = Append(s, x)
  OBVIOUS
<1>3. /\ t \in Seq(S) /\ Len(t) = l + 1 /\ DOMAIN t = 1..(l + 1) /\ DOMAIN s = 1..l /\ t[l + 1] = x
      /\ \A k \in 1..l : t[k] = s[k]
  BY <1>1, <1>2
<1>4. \A k \in 1..(l + 1) : k = l + 1 \/ k \in 1..l
  OBVIOUS
<1>5. ToSet(t) = ToSet(s) \cup {x}
  <2>1. ToSet(t) \subseteq ToSet(s) \cup {x}
    BY <1>3, <1>4 DEF ToSet
  <2>2. x \in ToSet(t)
    <3>1. l + 1 \in 1..(l + 1)
      OBVIOUS
    <3> QED
      BY <1>3, <3>1 DEF ToSet
  <2>3. ToSet(s) \subseteq ToSet(t)
    <3>1. \A k \in 1..l : k \in 1..(l + 1)
      OBVIOUS
    <3> QED
      BY <1>3, <3>1 DEF ToSet
  <2> QED
    BY <2>1, <2>2, <2>3
<1>6. ASSUME Unrepeated(s), x.at \notin Ids(s) PROVE Unrepeated(t)
  <2>1. \A k \in 1..l : t[k].at # x.at
    BY <1>3, <1>6 DEF Ids
  <2> SUFFICES ASSUME NEW j \in 1..(l + 1), NEW k \in 1..(l + 1), t[j].at = t[k].at PROVE j = k
    BY <1>3 DEF Unrepeated
  <2>2. CASE j \in 1..l /\ k \in 1..l
    BY <1>3, <1>6, <2>2 DEF Unrepeated
  <2>3. CASE j = l + 1 \/ k = l + 1
    BY <1>3, <1>4, <2>1, <2>3
  <2> QED
    BY <1>4, <2>2, <2>3
<1> QED
  BY <1>2, <1>3, <1>5, <1>6

\* A stretch of a list.
LEMMA Stretch ==
  ASSUME NEW S, NEW s \in Seq(S), NEW from \in Nat, from >= 1, NEW to \in Nat, to <= Len(s)
  PROVE  /\ SubSeq(s, from, to) \in Seq(S)
         /\ Len(SubSeq(s, from, to)) = (IF from <= to THEN to - from + 1 ELSE 0)
         /\ ToSet(SubSeq(s, from, to)) = {s[k] : k \in from..to}
         /\ ToSet(SubSeq(s, from, to)) \subseteq ToSet(s)
         /\ Unrepeated(s) => Unrepeated(SubSeq(s, from, to))
<1>1. PICK l \in Nat : l = Len(s)
  OBVIOUS
<1>2. PICK t : t = SubSeq(s, from, to)
  OBVIOUS
<1>3. PICK n \in Nat : (from <= to => n = to - from + 1) /\ (~(from <= to) => n = 0)
  <2>1. from <= to => to - from + 1 \in Nat
    OBVIOUS
  <2> QED
    BY <2>1
<1>4. /\ t \in Seq(S) /\ Len(t) = n /\ DOMAIN t = 1..n /\ DOMAIN s = 1..l
      /\ \A k \in 1..n : t[k] = s[from + k - 1] /\ from + k - 1 \in from..to
  BY <1>1, <1>2, <1>3
<1>5. from..to \subseteq 1..l
  BY <1>1
<1>6. ToSet(t) = {s[k] : k \in from..to}
  <2>1. ASSUME NEW k \in from..to PROVE s[k] \in ToSet(t)
    <3>1. k - from + 1 \in 1..n /\ from + (k - from + 1) - 1 = k
      BY <1>3
    <3> QED
      BY <1>4, <3>1 DEF ToSet
  <2> QED
    BY <1>4, <2>1, SMTT(30) DEF ToSet
<1>7. ToSet(t) \subseteq ToSet(s)
  BY <1>4, <1>5, <1>6 DEF ToSet
<1>8. ASSUME Unrepeated(s), NEW j \in 1..n, NEW k \in 1..n, t[j].at = t[k].at PROVE j = k
  <2>1. from + j - 1 \in 1..l /\ from + k - 1 \in 1..l
    BY <1>4, <1>5
  <2>2. from + j - 1 = from + k - 1
    BY <1>4, <1>8, <2>1 DEF Unrepeated
  <2> QED
    BY <2>2
<1> QED
  BY <1>2, <1>3, <1>4, <1>6, <1>7, <1>8 DEF Unrepeated

\* The newest of a list.
LEMMA NewestFacts ==
  ASSUME NEW S, NEW s \in Seq(S), NEW n \in Nat
  PROVE  /\ NewestOf(s, n) \in Seq(S) /\ ToSet(NewestOf(s, n)) \subseteq ToSet(s)
         /\ Len(NewestOf(s, n)) <= n /\ Len(NewestOf(s, n)) <= Len(s)
         /\ Len(s) <= n => ToSet(NewestOf(s, n)) = ToSet(s)
         /\ Unrepeated(s) => Unrepeated(NewestOf(s, n))
         /\ \A k \in 1..Len(s) : k > Len(s) - n => s[k] \in ToSet(NewestOf(s, n))
<1>1. PICK l \in Nat : l = Len(s)
  OBVIOUS
<1>2. PICK from \in Nat : (l > n => from = l - n + 1) /\ (~(l > n) => from = 1)
  <2>1. l > n => l - n + 1 \in Nat
    OBVIOUS
  <2> QED
    BY <2>1
<1>3. NewestOf(s, n) = SubSeq(s, from, l) /\ from >= 1 /\ l <= Len(s)
  <2>1. from = IF Len(s) > n THEN Len(s) - n + 1 ELSE 1
    BY <1>1, <1>2
  <2>2. NewestOf(s, n) = SubSeq(s, from, l)
    BY <1>1, <2>1, Zenon DEF NewestOf
  <2>3. from >= 1
    BY <1>2
  <2> QED
    BY <1>1, <2>2, <2>3
<1>4. PICK t : t = NewestOf(s, n)
  OBVIOUS
<1>5. /\ t \in Seq(S) /\ Len(t) = (IF from <= l THEN l - from + 1 ELSE 0)
      /\ ToSet(t) = {s[k] : k \in from..l} /\ ToSet(t) \subseteq ToSet(s)
      /\ Unrepeated(s) => Unrepeated(t)
  BY <1>3, <1>4, Stretch
<1>6. Len(t) <= n /\ Len(t) <= l
  <2>1. CASE from <= l
    <3>1. Len(t) = l - from + 1
      BY <1>5, <2>1
    <3> QED
      BY <1>2, <3>1
  <2>2. CASE ~(from <= l)
    BY <1>5, <2>2
  <2> QED
    BY <2>1, <2>2
<1>7. \A k \in 1..l : k > l - n => s[k] \in ToSet(t)
  BY <1>2, <1>5
<1>8. l <= n => ToSet(t) = ToSet(s)
  <2>1. ToSet(s) = {s[k] : k \in 1..l}
    BY <1>1 DEF ToSet
  <2>2. l <= n => from = 1
    BY <1>2
  <2> QED
    BY <1>5, <2>1, <2>2
<1> QED
  BY <1>1, <1>4, <1>5, <1>6, <1>7, <1>8

-----------------------------------------------------------------------------
(* What writing keeps.                                                     *)

\* A list is not longer than the set its IDs come from.
LEMMA NotLonger ==
  ASSUME NEW S, NEW s \in Seq(S), Unrepeated(s), NEW T, IsFiniteSet(T), Ids(s) \subseteq T
  PROVE  Len(s) <= Cardinality(T)
<1>1. PICK l \in Nat : l = Len(s)
  OBVIOUS
<1>2. DOMAIN s = 1..l
  BY <1>1
<1>3. PICK f : f = [k \in 1..l |-> s[k].at]
  OBVIOUS
<1>4. f \in Injection(1..l, T)
  BY <1>2, <1>3 DEF Injection, IsInjective, Ids, Unrepeated
<1>5. Cardinality(1..l) <= Cardinality(T)
  BY <1>4, FS_Injection
<1>6. Cardinality(1..l) = l
  <2>1. 1 \in Int /\ l \in Int
    OBVIOUS
  <2>2. Cardinality(1..l) = IF 1 > l THEN 0 ELSE l - 1 + 1
    BY <2>1, FS_Interval
  <2> QED
    BY <2>2
<1> QED
  BY <1>1, <1>5, <1>6

\* What the contract counts: the IDs of a list without repetitions.
LEMMA CountedOnce ==
  ASSUME NEW S, NEW s \in Seq(S), Unrepeated(s)
  PROVE  Cardinality(Ids(s)) = Len(s)
<1>1. PICK l \in Nat : l = Len(s)
  OBVIOUS
<1>2. DOMAIN s = 1..l
  BY <1>1
<1>3. PICK f : f = [k \in 1..l |-> s[k].at]
  OBVIOUS
<1>4. f \in Injection(1..l, Ids(s)) /\ f \in Surjection(1..l, Ids(s))
  BY <1>2, <1>3 DEF Injection, IsInjective, Surjection, Ids, Unrepeated
<1>5. IsFiniteSet(1..l) /\ Cardinality(1..l) = l
  <2>1. 1 \in Int /\ l \in Int
    OBVIOUS
  <2>2. IsFiniteSet(1..l) /\ Cardinality(1..l) = IF 1 > l THEN 0 ELSE l - 1 + 1
    BY <2>1, FS_Interval
  <2> QED
    BY <2>2
<1>6. Cardinality(Ids(s)) = Cardinality(1..l)
  BY <1>4, <1>5, FS_Surjection
<1> QED
  BY <1>1, <1>5, <1>6

\* What is current.
LEMMA CurrentItems ==
  ASSUME NEW s, IsList(s)
  PROVE  /\ CurrentOf(s) \in Seq(ToSet(s))
         /\ ToSet(CurrentOf(s)) = {item \in ToSet(s) : item.current}
         /\ Ids(CurrentOf(s)) = InForce(s)
         /\ Unrepeated(s) => Unrepeated(CurrentOf(s))
<1> DEFINE wanted == {item \in ToSet(s) : item.current}
<1>1. s \in Seq(ToSet(s)) /\ CurrentOf(s) = Those(s, wanted)
  BY DEF IsList, CurrentOf
<1>2. CurrentOf(s) \in Seq(ToSet(s)) /\ ToSet(CurrentOf(s)) = ToSet(s) \cap wanted
  BY <1>1, ThoseItems
<1>3. Ids(CurrentOf(s)) = {item.at : item \in ToSet(CurrentOf(s))}
  BY <1>2, ListFacts
<1>4. Unrepeated(s) => Unrepeated(CurrentOf(s))
  BY <1>1, ThoseUnrepeated
<1> QED
  BY <1>2, <1>3, <1>4 DEF InForce

\* _bounded keeps the order, drops nothing that is in use as long as all of
\* that fits, and adds nothing.
LEMMA KeepKeeps ==
  ASSUME NEW items, IsList(items), Unrepeated(items), NEW inUse, MaxRecords \in Nat \ {0}
  PROVE  /\ IsList(Keep(items, inUse)) /\ ToSet(Keep(items, inUse)) \subseteq ToSet(items)
         /\ Unrepeated(Keep(items, inUse))
         /\ IsFiniteSet(inUse) /\ ~(Cardinality(inUse) > MaxRecords) =>
              \A item \in ToSet(items) : item.at \in inUse => item \in ToSet(Keep(items, inUse))
<1> DEFINE S == ToSet(items)
           used == Those(items, {item \in ToSet(items) : item.at \in inUse})
           rest == Those(items, {item \in ToSet(items) : item.at \notin inUse})
           room == MaxRecords - Len(used)
           some == IF room > 0 THEN NewestOf(rest, room) ELSE rest
           both == some \o used
           fits == IsFiniteSet(inUse) /\ ~(Cardinality(inUse) > MaxRecords)
<1>1. items \in Seq(S)
  BY DEF IsList
<1>2. /\ used \in Seq(S) /\ ToSet(used) = {item \in S : item.at \in inUse} /\ Unrepeated(used)
      /\ rest \in Seq(S) /\ ToSet(rest) = {item \in S : item.at \notin inUse} /\ Unrepeated(rest)
  BY <1>1, ThoseItems, ThoseUnrepeated
<1>3. Keep(items, inUse) = IF Len(items) <= MaxRecords THEN items ELSE NewestOf(both, MaxRecords)
  BY DEF Keep
<1> HIDE DEF used, rest, S
<1>4. Len(used) \in Nat /\ Len(rest) \in Nat
  BY <1>2, ListFacts
<1>5. room \in Int /\ (room > 0 => room \in Nat)
  BY <1>4
<1> HIDE DEF room
<1>6. some \in Seq(S) /\ ToSet(some) \subseteq ToSet(rest) /\ Unrepeated(some) /\ (room > 0 => Len(some) <= room)
  BY <1>2, <1>5, NewestFacts
<1> HIDE DEF some
<1>7. Ids(some) \cap Ids(used) = {}
  <2>1. Ids(some) = {x.at : x \in ToSet(some)} /\ Ids(used) = {x.at : x \in ToSet(used)}
    BY <1>2, <1>6, ListFacts
  <2>2. \A x \in ToSet(some), y \in ToSet(used) : x.at # y.at
    BY <1>2, <1>6
  <2> QED
    BY <2>1, <2>2
<1>8. both \in Seq(S) /\ ToSet(both) = ToSet(some) \cup ToSet(used) /\ Unrepeated(both)
  BY <1>2, <1>6, <1>7, Joined
<1>9. ToSet(both) \subseteq S
  BY <1>2, <1>6, <1>8
<1>10. NewestOf(both, MaxRecords) \in Seq(S) /\ ToSet(NewestOf(both, MaxRecords)) \subseteq ToSet(both)
       /\ Unrepeated(NewestOf(both, MaxRecords))
  BY <1>8, NewestFacts
<1>11. IsList(NewestOf(both, MaxRecords))
  BY <1>10, ListFacts
<1>12. ASSUME fits, NEW item \in S, item.at \in inUse PROVE item \in ToSet(NewestOf(both, MaxRecords))
  <2>1. item \in ToSet(used)
    BY <1>2, <1>12
  <2>2. Len(used) <= MaxRecords
    <3>1. Ids(used) \subseteq inUse
      <4>1. Ids(used) = {x.at : x \in ToSet(used)}
        BY <1>2, ListFacts
      <4> QED
        BY <1>2, <4>1
    <3>2. Len(used) <= Cardinality(inUse) /\ Cardinality(inUse) \in Nat
      BY <1>2, <1>12, <3>1, NotLonger, FS_CardinalityType
    <3> QED
      BY <1>4, <1>12, <3>2
  <2>3. PICK ls \in Nat, lu \in Nat : ls = Len(some) /\ lu = Len(used)
    BY <1>2, <1>6
  <2>4. Len(both) = ls + lu
    BY <1>2, <1>6, <2>3
  <2>5. CASE room > 0
    <3>1. Len(both) <= MaxRecords
      BY <1>6, <2>3, <2>4, <2>5 DEF room
    <3>2. ToSet(NewestOf(both, MaxRecords)) = ToSet(both)
      <4> HIDE DEF both
      <4> QED
        BY <1>8, <3>1, NewestFacts
    <3> QED
      BY <1>8, <2>1, <3>2
  <2>6. CASE ~(room > 0)
    <3>1. lu = MaxRecords
      BY <2>2, <2>3, <2>6 DEF room
    <3>2. PICK k \in 1..lu : item = used[k]
      BY <1>2, <2>1, <2>3, ListFacts
    <3>3. both[ls + k] = item /\ ls + k \in 1..Len(both) /\ ls + k > Len(both) - MaxRecords
      BY <1>2, <1>6, <2>3, <2>4, <3>1, <3>2
    <3> HIDE DEF both
    <3>4. both[ls + k] \in ToSet(NewestOf(both, MaxRecords))
      BY <1>8, <3>3, NewestFacts
    <3> QED
      BY <3>3, <3>4
  <2> QED
    BY <2>5, <2>6
<1> HIDE DEF both
<1>13. CASE Len(items) <= MaxRecords
  BY <1>3, <1>13 DEF S
<1>14. CASE ~(Len(items) <= MaxRecords)
  <2>1. Keep(items, inUse) = NewestOf(both, MaxRecords)
    BY <1>3, <1>14
  <2> QED
    BY <1>9, <1>10, <1>11, <1>12, <2>1 DEF S
<1> QED
  BY <1>13, <1>14

\* The published version is kept.
LEMMA KeepVersionsKeeps ==
  ASSUME NEW m, IsList(m.versions), MaxRecords \in Nat \ {0}
  PROVE  /\ IsList(KeepVersions(m)) /\ ToSet(KeepVersions(m)) \subseteq ToSet(m.versions)
         /\ (\E v \in ToSet(m.versions) : v.number = m.pointer) =>
              \E v \in ToSet(KeepVersions(m)) : v.number = m.pointer
<1> DEFINE S == ToSet(m.versions)
           newest == NewestOf(m.versions, MaxRecords)
           current == Those(m.versions, {v \in ToSet(m.versions) : v.number = m.pointer})
           older == SubSeq(newest, 1, Len(newest) - 1)
<1>1. m.versions \in Seq(S)
  BY DEF IsList
<1>2. newest \in Seq(S) /\ ToSet(newest) \subseteq S
  BY <1>1, NewestFacts
<1>3. current \in Seq(S) /\ ToSet(current) = {v \in S : v.number = m.pointer}
  BY <1>1, ThoseItems
<1>4. KeepVersions(m) = IF current = <<>> \/ current[1] \in ToSet(newest) THEN newest ELSE current \o older
  BY DEF KeepVersions
<1> HIDE DEF newest, current, S
<1>5. current = <<>> => ToSet(current) = {}
  BY DEF ToSet
<1>6. current # <<>> => current[1] \in ToSet(current)
  BY <1>3, ListFacts
<1>7. CASE current = <<>> \/ current[1] \in ToSet(newest)
  <2>1. KeepVersions(m) = newest
    BY <1>4, <1>7
  <2>2. IsList(newest)
    BY <1>2, ListFacts
  <2>3. ASSUME NEW v \in S, v.number = m.pointer PROVE \E w \in ToSet(newest) : w.number = m.pointer
    BY <1>3, <1>5, <1>6, <1>7, <2>3
  <2> QED
    BY <1>2, <2>1, <2>2, <2>3 DEF S
<1>8. CASE ~(current = <<>> \/ current[1] \in ToSet(newest))
  <2>1. KeepVersions(m) = current \o older
    BY <1>4, <1>8
  <2>2. older \in Seq(S) /\ ToSet(older) \subseteq S
    <3>1. PICK l \in Nat : l = Len(newest)
      BY <1>2
    <3>2. CASE l = 0
      <4>1. older = <<>>
        BY <1>2, <3>1, <3>2
      <4> HIDE DEF older
      <4>2. \A i : i \notin DOMAIN older
        BY <4>1
      <4>3. ToSet(older) = {}
        BY <4>2 DEF ToSet
      <4> QED
        BY <4>1, <4>3
    <3>3. CASE l # 0
      <4>1. l - 1 \in Nat /\ l - 1 <= Len(newest) /\ older = SubSeq(newest, 1, l - 1)
        BY <3>1, <3>3
      <4> HIDE DEF older
      <4>2. older \in Seq(S) /\ ToSet(older) \subseteq ToSet(newest)
        BY <1>2, <4>1, Stretch
      <4> QED
        BY <1>2, <4>2
    <3> QED
      BY <3>1, <3>2, <3>3
  <2> HIDE DEF older
  <2>3. current \o older \in Seq(S) /\ ToSet(current \o older) = ToSet(current) \cup ToSet(older)
    BY <1>3, <2>2, Joined
  <2>4. IsList(current \o older)
    BY <2>3, ListFacts
  <2>5. current[1].number = m.pointer /\ current[1] \in ToSet(current \o older) /\ ToSet(current) \subseteq S
    BY <1>3, <1>6, <1>8, <2>3
  <2> QED
    BY <2>1, <2>2, <2>3, <2>4, <2>5 DEF S
<1> QED
  BY <1>7, <1>8

\* The image of a finite set is finite.
LEMMA FiniteImage ==
  ASSUME NEW X, IsFiniteSet(X), NEW f
  PROVE  IsFiniteSet({f[x] : x \in X})
<1>1. PICK g : g = [x \in X |-> f[x]]
  OBVIOUS
<1>2. g \in Surjection(X, {f[x] : x \in X})
  BY <1>1 DEF Surjection
<1> QED
  BY <1>2, FS_Surjection

\* Finitely many records are in use.
LEMMA InUseFinite ==
  ASSUME NEW m, Shaped(m), ClaimsKept(m), VersionsKept(m)
  PROVE  IsFiniteSet(ClaimsInUse(m)) /\ IsFiniteSet(EvidenceInUse(m, m.claims))
<1> DEFINE published == {v \in ToSet(m.versions) : v.number = m.pointer}
           resting == {c \in ToSet(m.claims) : c.at \in Published(m)}
<1>1. /\ IsFiniteSet(ToSet(m.versions)) /\ IsFiniteSet(ToSet(m.claims)) /\ IsFiniteSet(ToSet(m.evidence))
      /\ IsFiniteSet(Ids(m.claims)) /\ IsFiniteSet(Ids(m.evidence))
  BY ListFacts DEF Shaped, IsList
<1>2. IsFiniteSet(Published(m))
  <2>1. IsFiniteSet(published)
    BY <1>1, FS_Subset
  <2>2. PICK f : f = [v \in published |-> Ids(v.claims)]
    OBVIOUS
  <2>3. IsFiniteSet({f[v] : v \in published})
    BY <2>1, FiniteImage
  <2>4. \A v \in published : IsFiniteSet(Ids(v.claims)) /\ f[v] = Ids(v.claims)
    BY <2>2, ListFacts DEF VersionsKept, VersionOK, IsList
  <2>5. {f[v] : v \in published} = {Ids(v.claims) : v \in published}
    BY <2>4
  <2>6. IsFiniteSet(UNION {Ids(v.claims) : v \in published})
    BY <2>3, <2>4, <2>5, FS_UNION
  <2> QED
    BY <2>6 DEF Published
<1>3. Ids(CurrentOf(m.claims)) \subseteq Ids(m.claims) /\ Ids(CurrentOf(m.evidence)) \subseteq Ids(m.evidence)
  <2>1. IsList(m.claims) /\ IsList(m.evidence)
    BY DEF Shaped
  <2>2. Ids(CurrentOf(m.claims)) = InForce(m.claims) /\ Ids(CurrentOf(m.evidence)) = InForce(m.evidence)
    BY <2>1, CurrentItems
  <2>3. Ids(m.claims) = {c.at : c \in ToSet(m.claims)} /\ Ids(m.evidence) = {e.at : e \in ToSet(m.evidence)}
    BY <2>1, ListFacts DEF IsList
  <2> QED
    BY <2>2, <2>3 DEF InForce
<1>4. IsFiniteSet(ClaimsInUse(m))
  BY <1>1, <1>2, <1>3, FS_Subset, FS_Union DEF ClaimsInUse
<1>5. IsFiniteSet(UNION {c.support : c \in resting})
  <2>1. IsFiniteSet(resting)
    BY <1>1, FS_Subset
  <2>2. PICK f : f = [c \in resting |-> c.support]
    OBVIOUS
  <2>3. IsFiniteSet({f[c] : c \in resting})
    BY <2>1, FiniteImage
  <2>4. \A c \in resting : IsFiniteSet(c.support) /\ f[c] = c.support
    BY <2>2 DEF ClaimsKept, ClaimOK
  <2>5. {f[c] : c \in resting} = {c.support : c \in resting}
    BY <2>4
  <2> QED
    BY <2>3, <2>4, <2>5, FS_UNION
<1>6. IsFiniteSet(EvidenceInUse(m, m.claims))
  BY <1>1, <1>3, <1>5, FS_Subset, FS_Union DEF EvidenceInUse
<1> QED
  BY <1>4, <1>6

\* What is left of a session when its lists are bounded.
Remains(m, b) ==
  /\ DOMAIN b = SessionFields
  /\ b.revision = m.revision /\ b.retrieval = m.retrieval /\ b.pointer = m.pointer /\ b.strained = m.strained
  /\ b.intents = m.intents
  /\ IsList(b.evidence) /\ IsList(b.claims) /\ IsList(b.versions)
  /\ ToSet(b.evidence) \subseteq ToSet(m.evidence) /\ Unrepeated(b.evidence)
  /\ ToSet(b.claims) \subseteq ToSet(m.claims) /\ Unrepeated(b.claims)
  /\ ToSet(b.versions) \subseteq ToSet(m.versions)
  /\ m.pointer # 0 => \E v \in ToSet(b.versions) : v.number = m.pointer
  /\ ~Crowded(m) =>
       /\ \A c \in ToSet(m.claims) : c.at \in ClaimsInUse(m) => c \in ToSet(b.claims)
       /\ \A e \in ToSet(m.evidence) : e.at \in EvidenceInUse(m, b.claims) => e \in ToSet(b.evidence)

\* Bounding keeps what is in use.
LEMMA BoundedRemains ==
  ASSUME MaxRecords \in Nat \ {0}, NEW m, RecordsOK(m)
  PROVE  Remains(m, Bounded(m))
<1> DEFINE claims == Keep(m.claims, ClaimsInUse(m))
           evidence == Keep(m.evidence, EvidenceInUse(m, claims))
           versions == KeepVersions(m)
           b == [m EXCEPT !.claims = claims, !.evidence = evidence, !.versions = versions]
<1>1. Bounded(m) = b
  BY DEF Bounded
<1>2. /\ IsList(m.claims) /\ IsList(m.evidence) /\ IsList(m.versions) /\ DOMAIN m = SessionFields
      /\ Unrepeated(m.claims) /\ Unrepeated(m.evidence)
  BY DEF RecordsOK, Shaped, ClaimsKept, EvidenceKept
<1>3. IsFiniteSet(ClaimsInUse(m)) /\ IsFiniteSet(EvidenceInUse(m, m.claims))
  BY InUseFinite DEF RecordsOK
<1>4. /\ IsList(claims) /\ ToSet(claims) \subseteq ToSet(m.claims) /\ Unrepeated(claims)
      /\ ~(Cardinality(ClaimsInUse(m)) > MaxRecords) =>
           \A c \in ToSet(m.claims) : c.at \in ClaimsInUse(m) => c \in ToSet(claims)
  BY <1>2, <1>3, KeepKeeps
<1> HIDE DEF claims
<1>5. EvidenceInUse(m, claims) \subseteq EvidenceInUse(m, m.claims)
  BY <1>4 DEF EvidenceInUse
<1>6. /\ IsFiniteSet(EvidenceInUse(m, claims))
      /\ ~(Cardinality(EvidenceInUse(m, m.claims)) > MaxRecords) =>
           ~(Cardinality(EvidenceInUse(m, claims)) > MaxRecords)
  <2>1. /\ IsFiniteSet(EvidenceInUse(m, claims))
        /\ Cardinality(EvidenceInUse(m, claims)) <= Cardinality(EvidenceInUse(m, m.claims))
    BY <1>3, <1>5, FS_Subset
  <2>2. Cardinality(EvidenceInUse(m, claims)) \in Nat /\ Cardinality(EvidenceInUse(m, m.claims)) \in Nat
    BY <1>3, <2>1, FS_CardinalityType
  <2> QED
    BY <2>1, <2>2
<1>7. /\ IsList(evidence) /\ ToSet(evidence) \subseteq ToSet(m.evidence) /\ Unrepeated(evidence)
      /\ ~(Cardinality(EvidenceInUse(m, claims)) > MaxRecords) =>
           \A e \in ToSet(m.evidence) : e.at \in EvidenceInUse(m, claims) => e \in ToSet(evidence)
  BY <1>2, <1>6, KeepKeeps
<1> HIDE DEF evidence
<1>8. /\ IsList(versions) /\ ToSet(versions) \subseteq ToSet(m.versions)
      /\ (\E v \in ToSet(m.versions) : v.number = m.pointer) => \E v \in ToSet(versions) : v.number = m.pointer
  BY <1>2, KeepVersionsKeeps
<1> HIDE DEF versions
<1>9. /\ DOMAIN b = SessionFields /\ b.claims = claims /\ b.evidence = evidence /\ b.versions = versions
      /\ b.revision = m.revision /\ b.retrieval = m.retrieval /\ b.pointer = m.pointer /\ b.strained = m.strained
      /\ b.intents = m.intents
  BY <1>2 DEF SessionFields
<1> HIDE DEF b
<1>10. m.pointer # 0 => \E v \in ToSet(m.versions) : v.number = m.pointer
  BY DEF RecordsOK, VersionsKept
<1>11. ~Crowded(m) => /\ \A c \in ToSet(m.claims) : c.at \in ClaimsInUse(m) => c \in ToSet(b.claims)
                      /\ \A e \in ToSet(m.evidence) : e.at \in EvidenceInUse(m, b.claims) => e \in ToSet(b.evidence)
  BY <1>4, <1>6, <1>7, <1>9 DEF Crowded
<1> QED
  BY <1>1, <1>2, <1>4, <1>7, <1>8, <1>9, <1>10, <1>11 DEF Remains

\* The records the contract asks for are there unless more is in use than may
\* be kept.
LEMMA BoundedSound ==
  ASSUME NEW m, RecordsOK(m), NEW b, Remains(m, b), ~Crowded(m)
  PROVE  Sound(m, b)
<1>1. IsList(m.claims) /\ IsList(m.evidence) /\ IsList(b.claims) /\ IsList(b.evidence)
  BY DEF RecordsOK, Shaped, Remains
<1>2. /\ Ids(CurrentOf(m.claims)) = InForce(m.claims) /\ Ids(CurrentOf(m.evidence)) = InForce(m.evidence)
      /\ Ids(CurrentOf(b.evidence)) = InForce(b.evidence)
      /\ ToSet(CurrentOf(b.claims)) = {c \in ToSet(b.claims) : c.current}
  BY <1>1, CurrentItems
<1>3. Ids(b.claims) = {c.at : c \in ToSet(b.claims)} /\ Ids(b.evidence) = {e.at : e \in ToSet(b.evidence)}
  BY <1>1, ListFacts DEF IsList
<1>4. InForce(m.claims) \subseteq ClaimsInUse(m) /\ InForce(m.evidence) \subseteq EvidenceInUse(m, b.claims)
  BY <1>2 DEF ClaimsInUse, EvidenceInUse
<1>5. \A c \in ToSet(m.claims) : c.current => c \in ToSet(b.claims)
  BY <1>4 DEF Remains, InForce
<1>6. \A e \in ToSet(m.evidence) : e.current => e \in ToSet(b.evidence)
  BY <1>4 DEF Remains, InForce
<1>7. InForce(m.claims) \subseteq Ids(b.claims) /\ InForce(m.evidence) \subseteq InForce(b.evidence)
  BY <1>3, <1>5, <1>6 DEF InForce
<1>8. InForce(b.evidence) \subseteq Ids(b.evidence)
  BY <1>3 DEF InForce
<1>9. Cardinality(Ids(b.claims)) = Len(b.claims) /\ Cardinality(Ids(b.evidence)) = Len(b.evidence)
  BY <1>1, CountedOnce DEF Remains, IsList
<1>10. \A c \in ToSet(b.claims) : c.current => c.support \subseteq InForce(b.evidence)
  BY <1>7 DEF Remains, RecordsOK, CurrentStands
<1> QED
  BY <1>2, <1>7, <1>8, <1>9, <1>10 DEF Sound

\* The published claims are the same after bounding.
LEMMA PublishedRemains ==
  ASSUME NEW m, RecordsOK(m), NEW b, Remains(m, b)
  PROVE  Published(b) = Published(m)
<1> DEFINE before == {v \in ToSet(m.versions) : v.number = m.pointer}
           after == {v \in ToSet(b.versions) : v.number = b.pointer}
<1>1. \A v \in ToSet(m.versions) : v.number \in 1..m.pointer
  BY DEF RecordsOK, VersionsKept, VersionOK
<1>2. after \subseteq before
  BY DEF Remains
<1>3. before \subseteq after
  <2> SUFFICES ASSUME NEW v \in before PROVE v \in after
    OBVIOUS
  <2>1. m.pointer # 0
    BY <1>1 DEF RecordsOK, Shaped
  <2>2. PICK w \in ToSet(b.versions) : w.number = m.pointer
    BY <2>1 DEF Remains
  <2>3. v = w
    BY <2>2 DEF Remains, RecordsOK, VersionsKept
  <2> QED
    BY <2>2, <2>3 DEF Remains
<1>4. Published(m) = UNION {Ids(v.claims) : v \in before} /\ Published(b) = UNION {Ids(v.claims) : v \in after}
  BY DEF Published
<1> QED
  BY <1>2, <1>3, <1>4

\* Sound records remain records.
LEMMA RemainsOK ==
  ASSUME NEW m, RecordsOK(m), NEW b, Remains(m, b), Sound(m, b),
         NEW strained \in BOOLEAN, strained = (m.strained \/ Crowded(m))
  PROVE  RecordsOK([b EXCEPT !.strained = strained])
<1>1. PICK n : n = [b EXCEPT !.strained = strained]
  OBVIOUS
<1>2. /\ DOMAIN n = SessionFields /\ n.strained = strained
      /\ n.revision = m.revision /\ n.retrieval = m.retrieval /\ n.pointer = m.pointer
      /\ n.claims = b.claims /\ n.evidence = b.evidence /\ n.versions = b.versions /\ n.intents = m.intents
  BY <1>1 DEF Remains, SessionFields
<1>3. Shaped(n)
  BY <1>2 DEF Remains, RecordsOK, Shaped
<1>4. EvidenceKept(n) /\ ClaimsKept(n)
  BY <1>2 DEF Remains, RecordsOK, EvidenceKept, ClaimsKept
<1>5. CurrentStands(n)
  <2>1. ToSet(CurrentOf(b.claims)) = {c \in ToSet(b.claims) : c.current} /\ Ids(CurrentOf(b.evidence)) = InForce(b.evidence)
    BY CurrentItems DEF Remains
  <2>2. \A c \in ToSet(b.claims) : c.current => c.support \subseteq InForce(b.evidence)
    BY <2>1 DEF Sound
  <2> QED
    BY <1>2, <2>2 DEF Remains, RecordsOK, CurrentStands
<1>6. VersionsKept(n)
  BY <1>2 DEF Remains, RecordsOK, VersionsKept
<1>7. CurrentPublished(n)
  <2> SUFFICES ASSUME NEW c \in ToSet(n.claims), c.current
               PROVE  \E v \in ToSet(n.versions) : v.number = n.pointer /\ Lists(v, c)
    BY DEF CurrentPublished
  <2>1. PICK v \in ToSet(m.versions) : v.number = m.pointer /\ Lists(v, c)
    BY <1>2 DEF Remains, RecordsOK, CurrentPublished
  <2>2. m.pointer # 0
    BY <2>1 DEF RecordsOK, VersionsKept, VersionOK, Shaped
  <2>3. PICK w \in ToSet(b.versions) : w.number = m.pointer
    BY <2>2 DEF Remains
  <2>4. v = w
    BY <2>1, <2>3 DEF Remains, RecordsOK, VersionsKept
  <2> QED
    BY <1>2, <2>1, <2>3, <2>4
<1>8. PublishedKept(n)
  <2> SUFFICES ASSUME ~n.strained
               PROVE  /\ Published(n) \subseteq Ids(n.claims)
                      /\ \A c \in ToSet(n.claims) : c.at \in Published(n) => c.support \subseteq Ids(n.evidence)
    BY DEF PublishedKept
  <2>1. ~m.strained /\ ~Crowded(m)
    BY <1>2
  <2>2. Published(n) = Published(m)
    BY <1>2, PublishedRemains DEF Published, Remains
  <2>3. /\ Published(m) \subseteq Ids(m.claims)
        /\ \A c \in ToSet(m.claims) : c.at \in Published(m) => c.support \subseteq Ids(m.evidence)
    BY <2>1 DEF RecordsOK, PublishedKept
  <2>4. /\ Ids(m.claims) = {c.at : c \in ToSet(m.claims)} /\ Ids(m.evidence) = {e.at : e \in ToSet(m.evidence)}
        /\ Ids(b.claims) = {c.at : c \in ToSet(b.claims)} /\ Ids(b.evidence) = {e.at : e \in ToSet(b.evidence)}
    BY ListFacts DEF RecordsOK, Shaped, Remains, IsList
  <2>5. \A c \in ToSet(m.claims) : c.at \in Published(m) => c \in ToSet(b.claims)
    BY <2>1 DEF Remains, ClaimsInUse
  <2>6. ASSUME NEW c \in ToSet(b.claims), c.at \in Published(m), NEW at \in c.support
        PROVE  at \in Ids(b.evidence)
    <3>1. c \in ToSet(m.claims)
      BY DEF Remains
    <3>2. PICK e \in ToSet(m.evidence) : e.at = at
      BY <2>3, <2>4, <2>6, <3>1
    <3>3. at \in EvidenceInUse(m, b.claims)
      BY <2>6 DEF EvidenceInUse
    <3>4. e \in ToSet(b.evidence)
      BY <2>1, <3>2, <3>3 DEF Remains
    <3> QED
      BY <2>4, <3>2, <3>4
  <2> QED
    BY <1>2, <2>2, <2>3, <2>4, <2>5, <2>6
<1>9. AllExplained(n)
  BY <1>2 DEF Remains, RecordsOK, AllExplained
<1>10. CurrentNamed(n)
  BY <1>2 DEF Remains, RecordsOK, CurrentNamed
<1> QED
  BY <1>1, <1>3, <1>4, <1>5, <1>6, <1>7, <1>8, <1>9, <1>10 DEF RecordsOK

\* A write leaves records in order, and is refused by the contract only when
\* more is in use than may be kept.
LEMMA WriteKeeps ==
  ASSUME HistoryAssumption, RecordsOK(memory), NEW m, RecordsOK(m), Write(m)
  PROVE  RecordsOK(memory') /\ refusal' # "invalid"
<1>1. MaxRecords \in Nat \ {0}
  BY DEF HistoryAssumption
<1>2. PICK b : b = Bounded(m)
  OBVIOUS
<1>3. Remains(m, b)
  BY <1>1, <1>2, BoundedRemains
<1>4. CASE refusal' = "bound" /\ UNCHANGED memory
  BY <1>4
<1>5. CASE Sound(m, b) /\ memory' = [b EXCEPT !.strained = b.strained \/ Crowded(m)] /\ refusal' = "no"
  <2>1. PICK strained : strained = (m.strained \/ Crowded(m))
    OBVIOUS
  <2>2. strained \in BOOLEAN /\ b.strained = m.strained
    <3>1. m.strained \in BOOLEAN
      BY DEF RecordsOK, Shaped
    <3> QED
      BY <1>3, <2>1, <3>1 DEF Remains
  <2>3. RecordsOK([b EXCEPT !.strained = strained])
    BY <1>3, <1>5, <2>1, <2>2, RemainsOK
  <2> QED
    BY <1>5, <2>1, <2>2, <2>3
<1>6. CASE ~Sound(m, b) /\ Refused(IF Crowded(m) THEN "crowded" ELSE "invalid")
  <2>1. Crowded(m)
    BY <1>3, <1>6, BoundedSound
  <2> QED
    BY <1>6, <2>1 DEF Refused
<1> QED
  BY <1>2, <1>4, <1>5, <1>6 DEF Write, Refused

-----------------------------------------------------------------------------
(* Evidence.                                                               *)

\* Retired items are the items, no longer current.
LEMMA RetireFacts ==
  ASSUME NEW items, IsList(items), \A x \in ToSet(items) : "at" \in DOMAIN x /\ "current" \in DOMAIN x
  PROVE  /\ IsList(Retire(items)) /\ ToSet(Retire(items)) = {[x EXCEPT !.current = FALSE] : x \in ToSet(items)}
         /\ Ids(Retire(items)) = Ids(items)
         /\ Unrepeated(items) => Unrepeated(Retire(items))
<1>1. PICK l \in Nat : l = Len(items)
  BY DEF IsList
<1>2. DOMAIN items = 1..l
  BY <1>1 DEF IsList
<1>3. PICK r : r = Retire(items)
  OBVIOUS
<1>4. r = [k \in 1..l |-> [items[k] EXCEPT !.current = FALSE]]
  BY <1>2, <1>3 DEF Retire
<1>5. DOMAIN r = 1..l /\ \A k \in 1..l : r[k] = [items[k] EXCEPT !.current = FALSE]
  BY <1>4
<1>6. ToSet(r) = {[x EXCEPT !.current = FALSE] : x \in ToSet(items)}
  <2>1. ToSet(r) = {r[k] : k \in 1..l} /\ ToSet(items) = {items[k] : k \in 1..l}
    BY <1>2, <1>5 DEF ToSet
  <2>2. ASSUME NEW y \in ToSet(r) PROVE \E x \in ToSet(items) : y = [x EXCEPT !.current = FALSE]
    <3>1. PICK k \in 1..l : y = r[k]
      BY <2>1
    <3>2. items[k] \in ToSet(items) /\ y = [items[k] EXCEPT !.current = FALSE]
      BY <1>5, <2>1, <3>1
    <3> QED
      BY <3>2
  <2>3. ASSUME NEW x \in ToSet(items) PROVE [x EXCEPT !.current = FALSE] \in ToSet(r)
    <3>1. PICK k \in 1..l : x = items[k]
      BY <2>1
    <3>2. r[k] = [x EXCEPT !.current = FALSE]
      BY <1>5, <3>1
    <3> QED
      BY <2>1, <3>2
  <2> QED
    BY <2>2, <2>3
<1>7. r \in Seq(ToSet(r))
  <2>1. r \in [1..l -> ToSet(r)]
    BY <1>4, <1>5 DEF ToSet
  <2> QED
    BY <2>1
<1>8. \A k \in 1..l : r[k].at = items[k].at
  BY <1>2, <1>5 DEF ToSet
<1>9. Ids(r) = Ids(items)
  BY <1>2, <1>5, <1>8 DEF Ids
<1>10. Unrepeated(items) => Unrepeated(r)
  BY <1>2, <1>5, <1>8 DEF Unrepeated
<1> QED
  BY <1>3, <1>6, <1>7, <1>9, <1>10 DEF IsList

\* Evidence recorded (again) at the end of its list.
Again(items, at, chunk) == Append(Without(items, at), Evidence(at, chunk))

\* It is the only record with its ID, and no other is lost.
LEMMA AgainFacts ==
  ASSUME NEW items, IsList(items), Unrepeated(items), NEW at, NEW chunk
  PROVE  /\ IsList(Again(items, at, chunk)) /\ Unrepeated(Again(items, at, chunk))
         /\ \A x \in ToSet(Again(items, at, chunk)) :
              x = Evidence(at, chunk) \/ x \in ToSet(items)
         /\ \A x \in ToSet(items) : x.at # at => x \in ToSet(Again(items, at, chunk))
         /\ Evidence(at, chunk) \in ToSet(Again(items, at, chunk))
         /\ Ids(items) \subseteq Ids(Again(items, at, chunk))
<1> DEFINE x == Evidence(at, chunk)
           S == ToSet(items) \cup {x}
           others == Without(items, at)
<1>1. items \in Seq(ToSet(items))
  BY DEF IsList
<1>2. /\ others \in Seq(ToSet(items)) /\ ToSet(others) = {item \in ToSet(items) : item.at # at}
      /\ Unrepeated(others)
  BY <1>1, ThoseItems, ThoseUnrepeated DEF Without
<1> HIDE DEF others
<1>3. others \in Seq(S) /\ x \in S
  BY <1>2
<1>4. x.at = at
  BY DEF Evidence
<1> HIDE DEF x, S
<1>5. at \notin Ids(others)
  BY <1>2, ListFacts
<1>6. PICK list : list = Append(others, x)
  OBVIOUS
<1>7. list \in Seq(S) /\ ToSet(list) = ToSet(others) \cup {x} /\ Unrepeated(list)
  BY <1>2, <1>3, <1>4, <1>5, <1>6, Added
<1>8. IsList(list) /\ Ids(list) = {y.at : y \in ToSet(list)} /\ Ids(items) = {y.at : y \in ToSet(items)}
  BY <1>1, <1>7, ListFacts
<1>9. Ids(items) \subseteq Ids(list)
  BY <1>2, <1>4, <1>7, <1>8
<1>10. Again(items, at, chunk) = list
  BY <1>6 DEF Again, others, x
<1> QED
  BY <1>2, <1>7, <1>8, <1>9, <1>10 DEF x

\* A record of a claim is an old one, which may have been retired, or one of
\* the same claim for a new revision, whose intents may have new IDs.
Restates(c, o) ==
  /\ c.id = o.id /\ SameMatter(c.content, o.content) /\ (c.current => o.current)
  /\ (c.at = o.at /\ c.support = o.support /\ c.content = o.content) \/ c.at[2] = "r"

\* Between publications records are added, retired and recorded again.
LEMMA BetweenPublications ==
  ASSUME NEW m, RecordsOK(m), NEW n, Shaped(n),
         n.revision >= m.revision, n.pointer = m.pointer, n.strained = m.strained, n.versions = m.versions,
         EvidenceKept(n), ClaimsKept(n), CurrentStands(n), CurrentNamed(n),
         \A c \in ToSet(n.claims) : \E o \in ToSet(m.claims) : Restates(c, o),
         Ids(m.claims) \subseteq Ids(n.claims), Ids(m.evidence) \subseteq Ids(n.evidence)
  PROVE  RecordsOK(n)
<1>1. \A v \in ToSet(m.versions) : \A d \in ToSet(v.claims) : d.at[2] = "v"
  BY DEF RecordsOK, VersionsKept, VersionOK
<1>2. VersionsKept(n)
  <2>1. ASSUME NEW v \in ToSet(n.versions), NEW c \in ToSet(n.claims), NEW d \in ToSet(v.claims), c.at = d.at
        PROVE  c.content = d.content
    <3>1. PICK o \in ToSet(m.claims) : Restates(c, o)
      OBVIOUS
    <3>2. c.at = o.at /\ c.content = o.content
      BY <1>1, <2>1, <3>1 DEF Restates
    <3>3. Agree(o, d)
      BY DEF RecordsOK, VersionsKept
    <3> QED
      BY <2>1, <3>1, <3>2, <3>3 DEF Agree, Restates
  <2> QED
    BY <2>1 DEF RecordsOK, VersionsKept, Agree
<1>3. CurrentPublished(n)
  <2> SUFFICES ASSUME NEW c \in ToSet(n.claims), c.current
               PROVE  \E v \in ToSet(n.versions) : v.number = n.pointer /\ Lists(v, c)
    BY DEF CurrentPublished
  <2>1. PICK o \in ToSet(m.claims) : Restates(c, o)
    OBVIOUS
  <2>2. PICK v \in ToSet(m.versions) : v.number = m.pointer /\ Lists(v, o)
    BY <2>1 DEF RecordsOK, CurrentPublished, Restates
  <2> QED
    BY <2>1, <2>2 DEF Lists, Restates, SameMatter
<1>4. Published(n) = Published(m)
  BY DEF Published
<1>5. \A at \in Published(m) : at[2] = "v"
  <2> SUFFICES ASSUME NEW at \in Published(m) PROVE at[2] = "v"
    OBVIOUS
  <2>1. PICK v \in ToSet(m.versions) : at \in Ids(v.claims)
    BY DEF Published
  <2>2. Ids(v.claims) = {d.at : d \in ToSet(v.claims)}
    BY ListFacts DEF RecordsOK, VersionsKept, VersionOK, IsList
  <2> QED
    BY <1>1, <2>1, <2>2
<1>6. PublishedKept(n)
  <2> SUFFICES ASSUME ~m.strained
               PROVE  /\ Published(n) \subseteq Ids(n.claims)
                      /\ \A c \in ToSet(n.claims) : c.at \in Published(n) => c.support \subseteq Ids(n.evidence)
    BY DEF PublishedKept
  <2>1. /\ Published(m) \subseteq Ids(m.claims)
        /\ \A c \in ToSet(m.claims) : c.at \in Published(m) => c.support \subseteq Ids(m.evidence)
    BY DEF RecordsOK, PublishedKept
  <2>2. ASSUME NEW c \in ToSet(n.claims), c.at \in Published(m) PROVE c.support \subseteq Ids(n.evidence)
    <3>1. PICK o \in ToSet(m.claims) : Restates(c, o)
      OBVIOUS
    <3>2. c.at = o.at /\ c.support = o.support
      BY <1>5, <2>2, <3>1 DEF Restates
    <3> QED
      BY <2>1, <2>2, <3>2
  <2> QED
    BY <1>4, <2>1, <2>2
<1>7. AllExplained(n)
  BY DEF RecordsOK, AllExplained
<1> QED
  BY <1>2, <1>3, <1>6, <1>7 DEF RecordsOK

\* record_evidence leaves records in order.
LEMMA RecordEvidenceKeeps ==
  ASSUME HistoryAssumption, RecordsOK(memory), NEW chunk, NEW newer \in BOOLEAN, RecordEvidence(chunk, newer)
  PROVE  RecordsOK(memory') /\ refusal' # "invalid"
<1>1. PICK retrieval : retrieval = memory.retrieval + (IF newer THEN 1 ELSE 0)
  OBVIOUS
<1>2. PICK at : at = <<retrieval, "found", chunk>>
  OBVIOUS
<1>3. PICK old : old = IF newer THEN Retire(memory.evidence) ELSE memory.evidence
  OBVIOUS
<1>4. PICK n : n = [Advanced EXCEPT !.retrieval = retrieval, !.evidence = Again(old, at, chunk), !.claims = Retire(@)]
  OBVIOUS
<1>5. Refused("repeated") \/ Write(n)
  BY <1>1, <1>2, <1>3, <1>4 DEF RecordEvidence, Again
<1>6. CASE Refused("repeated")
  BY <1>6 DEF Refused
<1>7. CASE Write(n)
  <2>1. /\ DOMAIN memory = SessionFields /\ memory.revision \in Nat /\ memory.retrieval \in Nat
        /\ IsList(memory.evidence) /\ IsList(memory.claims)
        /\ Unrepeated(memory.evidence) /\ Unrepeated(memory.claims)
        /\ \A e \in ToSet(memory.evidence) : EvidenceOK(e, memory.revision)
        /\ \A c \in ToSet(memory.claims) : ClaimOK(c, memory.revision, memory.pointer)
    BY DEF RecordsOK, Shaped, EvidenceKept, ClaimsKept
  <2>2. /\ DOMAIN n = SessionFields /\ n.revision = memory.revision + 1 /\ n.retrieval = retrieval
        /\ n.evidence = Again(old, at, chunk) /\ n.claims = Retire(memory.claims)
        /\ n.versions = memory.versions /\ n.pointer = memory.pointer /\ n.strained = memory.strained
    BY <1>4, <2>1 DEF Advanced, SessionFields
  <2>3. /\ IsList(Retire(memory.evidence)) /\ Ids(Retire(memory.evidence)) = Ids(memory.evidence)
        /\ ToSet(Retire(memory.evidence)) = {[e EXCEPT !.current = FALSE] : e \in ToSet(memory.evidence)}
        /\ Unrepeated(Retire(memory.evidence))
    <3>1. \A e \in ToSet(memory.evidence) : "at" \in DOMAIN e /\ "current" \in DOMAIN e
      BY <2>1 DEF EvidenceOK, EvidenceFields
    <3> QED
      BY <2>1, <3>1, RetireFacts
  <2>4. /\ IsList(n.claims) /\ Ids(n.claims) = Ids(memory.claims)
        /\ ToSet(n.claims) = {[c EXCEPT !.current = FALSE] : c \in ToSet(memory.claims)}
        /\ Unrepeated(n.claims)
    <3>1. \A c \in ToSet(memory.claims) : "at" \in DOMAIN c /\ "current" \in DOMAIN c
      BY <2>1 DEF ClaimOK, ClaimFields
    <3> QED
      BY <2>1, <2>2, <3>1, RetireFacts
  <2>5. /\ IsList(old) /\ Unrepeated(old) /\ Ids(old) = Ids(memory.evidence)
        /\ \A e \in ToSet(old) : EvidenceOK(e, memory.revision + 1)
    <3>1. \A e \in ToSet(memory.evidence) : /\ EvidenceOK(e, memory.revision + 1)
                                            /\ EvidenceOK([e EXCEPT !.current = FALSE], memory.revision + 1)
      BY <2>1 DEF EvidenceOK, EvidenceFields
    <3> QED
      BY <1>3, <2>1, <2>3, <3>1
  <2>6. /\ IsList(n.evidence) /\ Unrepeated(n.evidence) /\ Ids(memory.evidence) \subseteq Ids(n.evidence)
        /\ \A e \in ToSet(n.evidence) : e = Evidence(at, chunk) \/ e \in ToSet(old)
    BY <2>2, <2>5, AgainFacts
  <2>7. EvidenceKept(n)
    <3>1. EvidenceOK(Evidence(at, chunk), n.revision)
      BY <1>2 DEF EvidenceOK, Evidence, EvidenceFields
    <3> QED
      BY <2>2, <2>5, <2>6, <3>1 DEF EvidenceKept
  <2>8. \A c \in ToSet(n.claims) : /\ ~c.current /\ ClaimOK(c, n.revision, n.pointer)
                                   /\ \E o \in ToSet(memory.claims) : Restates(c, o)
    <3> SUFFICES ASSUME NEW o \in ToSet(memory.claims), NEW c, c = [o EXCEPT !.current = FALSE]
                 PROVE  ~c.current /\ ClaimOK(c, n.revision, n.pointer) /\ Restates(c, o)
      BY <2>4
    <3>1. ClaimOK(o, memory.revision, memory.pointer)
      BY <2>1
    <3>2. /\ DOMAIN c = ClaimFields /\ c.current = FALSE /\ c.at = o.at /\ c.id = o.id
          /\ c.content = o.content /\ c.support = o.support
      BY <3>1 DEF ClaimOK, ClaimFields
    <3>3. \A k : k \in 0..memory.revision => k \in 0..(memory.revision + 1)
      BY <2>1
    <3> QED
      BY <2>2, <3>1, <3>2, <3>3 DEF ClaimOK, Restates, SameMatter
  <2>9. ClaimsKept(n) /\ CurrentStands(n) /\ CurrentNamed(n)
    BY <2>4, <2>8 DEF ClaimsKept, CurrentStands, SameIds, CurrentNamed
  <2>10. Shaped(n) /\ n.revision >= memory.revision
    <3>1. retrieval \in Nat
      BY <1>1, <2>1
    <3> QED
      BY <2>1, <2>2, <2>4, <2>6, <3>1 DEF RecordsOK, Shaped
  <2>11. RecordsOK(n)
    BY <2>2, <2>4, <2>6, <2>7, <2>8, <2>9, <2>10, BetweenPublications
  <2> QED
    BY <1>7, <2>11, WriteKeeps
<1> QED
  BY <1>5, <1>6, <1>7

\* record_selective_evidence leaves records in order.
LEMMA RecordSelectiveEvidenceKeeps ==
  ASSUME HistoryAssumption, RecordsOK(memory), NEW chunk, RecordSelectiveEvidence(chunk)
  PROVE  RecordsOK(memory') /\ refusal' # "invalid"
<1>1. PICK at : at = <<memory.revision, "task", chunk>>
  OBVIOUS
<1>2. PICK n : n = [memory EXCEPT !.evidence = Again(@, at, chunk)]
  OBVIOUS
<1>3. Write(n)
  BY <1>1, <1>2 DEF RecordSelectiveEvidence, Again
<1>4. DOMAIN memory = SessionFields /\ IsList(memory.evidence) /\ Unrepeated(memory.evidence) /\ memory.revision \in Nat
  BY DEF RecordsOK, Shaped, EvidenceKept
<1>5. /\ DOMAIN n = SessionFields /\ n.evidence = Again(memory.evidence, at, chunk) /\ n.claims = memory.claims
      /\ n.revision = memory.revision /\ n.retrieval = memory.retrieval /\ n.intents = memory.intents
      /\ n.versions = memory.versions /\ n.pointer = memory.pointer /\ n.strained = memory.strained
  BY <1>2, <1>4 DEF SessionFields
<1>6. /\ IsList(n.evidence) /\ Unrepeated(n.evidence) /\ Ids(memory.evidence) \subseteq Ids(n.evidence)
      /\ \A e \in ToSet(n.evidence) : e = Evidence(at, chunk) \/ e \in ToSet(memory.evidence)
      /\ \A e \in ToSet(memory.evidence) : e.at # at => e \in ToSet(n.evidence)
      /\ Evidence(at, chunk) \in ToSet(n.evidence)
  BY <1>4, <1>5, AgainFacts
<1>7. EvidenceKept(n)
  <2>1. EvidenceOK(Evidence(at, chunk), n.revision)
    BY <1>1 DEF EvidenceOK, Evidence, EvidenceFields
  <2> QED
    BY <1>5, <1>6, <2>1 DEF RecordsOK, EvidenceKept
<1>8. InForce(memory.evidence) \subseteq InForce(n.evidence)
  <2> SUFFICES ASSUME NEW e \in ToSet(memory.evidence), e.current PROVE e.at \in InForce(n.evidence)
    BY DEF InForce
  <2>1. CASE e.at = at
    <3>1. Evidence(at, chunk).at = at /\ Evidence(at, chunk).current
      BY DEF Evidence
    <3> QED
      BY <1>6, <2>1, <3>1 DEF InForce
  <2>2. CASE e.at # at
    BY <1>6, <2>2 DEF InForce
  <2> QED
    BY <2>1, <2>2
<1>9. ClaimsKept(n) /\ CurrentStands(n) /\ CurrentNamed(n)
  BY <1>5, <1>8 DEF RecordsOK, ClaimsKept, CurrentStands, CurrentNamed
<1>10. Shaped(n)
  BY <1>5, <1>6 DEF RecordsOK, Shaped
<1>11. \A c \in ToSet(n.claims) : \E o \in ToSet(memory.claims) : Restates(c, o)
  BY <1>5 DEF Restates, SameMatter
<1>12. n.revision >= memory.revision /\ Ids(memory.claims) \subseteq Ids(n.claims)
  BY <1>4, <1>5
<1>13. RecordsOK(n)
  BY <1>5, <1>6, <1>7, <1>9, <1>10, <1>11, <1>12, BetweenPublications
<1> QED
  BY <1>3, <1>13, WriteKeeps

-----------------------------------------------------------------------------
(* Patches.                                                                *)

FlatStep(lists, flat, i) == IF i = 1 THEN lists[i] ELSE flat[i - 1] \o lists[i]
FlatR == INSTANCE Recursion WITH Value <- FlatStep

\* Each of the lists, and any two of them, are without repetitions.
Apart(lists, n) ==
  /\ \A i \in 1..n : Unrepeated(lists[i])
  /\ \A i, j \in 1..n : i < j => Ids(lists[i]) \cap Ids(lists[j]) = {}

\* Lists one after the other.
LEMMA Flattened ==
  ASSUME NEW T, NEW lists \in Seq(T), NEW n \in Nat, n = Len(lists),
         NEW S, \A i \in 1..n : lists[i] \in Seq(S)
  PROVE  /\ FlattenSeq(lists) \in Seq(S)
         /\ ToSet(FlattenSeq(lists)) = UNION {ToSet(lists[i]) : i \in 1..n}
         /\ Apart(lists, n) => Unrepeated(FlattenSeq(lists))
<1>2. \A i \in 1..n : lists[i] \in Seq(S)
  OBVIOUS
<1>3. CASE n = 0
  <2>1. 1..n = {} /\ DOMAIN lists = 1..n /\ Len(lists) = 0
    <3>1. DOMAIN lists = 1..Len(lists)
      OBVIOUS
    <3>2. 1..n = {}
      BY <1>3
    <3> QED
      BY <1>3, <3>1, <3>2, Zenon
  <2>2. FlattenSeq(lists) = lists
    BY <2>1 DEF FlattenSeq
  <2>3. lists \in [1..n -> S]
    <3>1. lists = [i \in 1..n |-> lists[i]]
      OBVIOUS
    <3> QED
      BY <2>1, <3>1
  <2>4. lists \in Seq(S)
    BY <2>3
  <2>5. ToSet(lists) = {} /\ Unrepeated(lists)
    BY <2>1 DEF ToSet, Unrepeated
  <2> QED
    BY <2>1, <2>2, <2>4, <2>5
<1>4. CASE n # 0
  <2> DEFINE D == 1..n
             flat == FlatR!Chosen(lists, D)
             Good(i) == /\ flat[i] \in Seq(S) /\ ToSet(flat[i]) = UNION {ToSet(lists[h]) : h \in 1..i}
                        /\ Apart(lists, n) => Unrepeated(flat[i])
             G == {i \in Nat : i \in 1..n => Good(i)}
  <2>1. FlattenSeq(lists) = flat[n]
    <3>1. Len(lists) # 0
      BY <1>4
    <3> QED
      BY <3>1 DEF FlattenSeq, FlatR!Chosen, FlatStep
  <2>2. \E g : g = [i \in D |-> FlatStep(lists, g, i)]
    <3>1. PICK size : size = [i \in D |-> i]
      OBVIOUS
    <3>2. size \in [D -> Nat] /\ n + 1 \in Nat /\ \A i \in D : size[i] < n + 1
      BY <3>1
    <3>3. FlatR!LooksDown(lists, D, size)
      <4> SUFFICES ASSUME NEW g, NEW h, NEW i \in D, \A j \in D : size[j] < size[i] => g[j] = h[j]
                   PROVE  FlatStep(lists, g, i) = FlatStep(lists, h, i)
        BY DEF FlatR!LooksDown
      <4>1. CASE i = 1
        BY <4>1 DEF FlatStep
      <4>2. CASE i # 1
        <5>1. i - 1 \in D /\ size[i - 1] < size[i]
          BY <3>1, <4>2
        <5> QED
          BY <4>2, <5>1 DEF FlatStep
      <4> QED
        BY <4>1, <4>2
    <3> HIDE DEF D
    <3> QED
      BY <3>2, <3>3, FlatR!ExistsBySize
  <2>3. \A i \in D : flat[i] = FlatStep(lists, flat, i)
    <3> HIDE DEF D
    <3> QED
      BY <2>2, FlatR!ChosenIs
  <2> HIDE DEF flat
  <2>4. flat[1] = lists[1]
    <3>1. 1 \in D
      BY <1>4
    <3> QED
      BY <2>3, <3>1 DEF FlatStep
  <2>5. \A i \in 1..n : i # 1 => flat[i] = flat[i - 1] \o lists[i]
    BY <2>3 DEF FlatStep
  <2>6. ASSUME NEW i \in Nat, i \in G, i + 1 \in 1..n PROVE Good(i + 1)
    <3>1. CASE i = 0
      <4>1. flat[i + 1] = lists[1] /\ 1..(i + 1) = {1} /\ 1 \in 1..n
        BY <2>4, <2>6, <3>1
      <4>2. Apart(lists, n) => Unrepeated(lists[1])
        BY <4>1 DEF Apart
      <4> QED
        BY <1>2, <4>1, <4>2
    <3>2. CASE i # 0
      <4>1. i \in 1..n /\ i + 1 # 1 /\ i + 1 - 1 = i
        BY <2>6, <3>2
      <4>2. PICK a, b : a = flat[i] /\ b = lists[i + 1]
        OBVIOUS
      <4>3. flat[i + 1] = a \o b
        <5>1. PICK next \in 1..n : next = i + 1
          BY <2>6
        <5>2. next # 1 /\ next - 1 = i
          BY <4>1, <5>1
        <5>3. flat[next] = flat[next - 1] \o lists[next]
          BY <2>5, <5>2, Zenon
        <5> QED
          BY <4>2, <5>1, <5>2, <5>3
      <4>4. /\ a \in Seq(S) /\ b \in Seq(S) /\ ToSet(a) = UNION {ToSet(lists[h]) : h \in 1..i}
            /\ Apart(lists, n) => Unrepeated(a)
        BY <1>2, <2>6, <4>1, <4>2
      <4>5. Apart(lists, n) => Ids(a) \cap Ids(b) = {}
        <5> SUFFICES ASSUME Apart(lists, n), NEW x \in ToSet(a), NEW y \in ToSet(b), x.at = y.at PROVE FALSE
          <6>1. Ids(a) = {x.at : x \in ToSet(a)} /\ Ids(b) = {y.at : y \in ToSet(b)}
            BY <4>4, ListFacts
          <6> QED
            BY <6>1
        <5>1. PICK h \in 1..i : x \in ToSet(lists[h])
          BY <4>4
        <5>2. h \in 1..n /\ h < i + 1
          BY <4>1
        <5>3. Ids(lists[h]) = {z.at : z \in ToSet(lists[h])} /\ Ids(lists[i + 1]) = {z.at : z \in ToSet(b)}
          BY <1>2, <2>6, <4>2, <5>2, ListFacts
        <5>4. Ids(lists[h]) \cap Ids(lists[i + 1]) = {}
          BY <2>6, <5>2 DEF Apart
        <5> QED
          BY <5>1, <5>3, <5>4
      <4>6. Apart(lists, n) => Unrepeated(b)
        BY <2>6, <4>2 DEF Apart
      <4>7. a \o b \in Seq(S) /\ ToSet(a \o b) = ToSet(a) \cup ToSet(b) /\ (Apart(lists, n) => Unrepeated(a \o b))
        BY <4>4, <4>5, <4>6, Joined
      <4>8. UNION {ToSet(lists[h]) : h \in 1..(i + 1)} = ToSet(a) \cup ToSet(b)
        <5>1. 1..(i + 1) = (1..i) \cup {i + 1}
          OBVIOUS
        <5> QED
          BY <4>2, <4>4, <5>1
      <4> QED
        BY <4>3, <4>7, <4>8
    <3> QED
      BY <3>1, <3>2
  <2> HIDE DEF Good
  <2>7. 0 \in G /\ \A i \in Nat : i \in G => i + 1 \in G
    BY <2>6
  <2>8. Nat \subseteq G
    <3> HIDE DEF G
    <3> QED
      BY <2>7, FlatR!NumberInduction
  <2>9. Good(n)
    <3>1. n \in 1..n
      BY <1>4
    <3> QED
      BY <2>8, <3>1
  <2> QED
    BY <2>1, <2>9 DEF Good
<1> QED
  BY <1>3, <1>4

\* A list of one item, and of none.
LEMMA FewItems ==
  ASSUME NEW S, NEW a \in S
  PROVE  /\ <<a>> \in Seq(S) /\ ToSet(<<a>>) = {a} /\ Ids(<<a>>) = {a.at} /\ Unrepeated(<<a>>)
         /\ <<>> \in Seq(S) /\ ToSet(<<>>) = {} /\ Ids(<<>>) = {} /\ Unrepeated(<<>>)
<1>1. DOMAIN <<a>> = {1} /\ <<a>>[1] = a
  OBVIOUS
<1>2. DOMAIN <<>> = {}
  OBVIOUS
<1> QED
  BY <1>1, <1>2 DEF ToSet, Ids, Unrepeated

\* The items of a list are retired, and after each there may be a new record.
Old(item) == [item EXCEPT !.current = FALSE]
Rerecorded(items, again) == FlattenSeq([k \in DOMAIN items |-> <<Old(items[k])>> \o again[k]])
Rerecording(items, K, fresh, again) ==
  /\ IsList(items) /\ Unrepeated(items) /\ \A x \in ToSet(items) : "at" \in DOMAIN x /\ "current" \in DOMAIN x
  /\ K \subseteq DOMAIN items
  /\ \A k \in K : fresh[k].at \notin Ids(items)
  /\ \A j, k \in K : fresh[j].at = fresh[k].at => j = k
  /\ \A k \in DOMAIN items : again[k] = IF k \in K THEN <<fresh[k]>> ELSE <<>>

\* No record is lost, and the new ones have IDs of their own.
LEMMA RerecordedFacts ==
  ASSUME NEW items, NEW K, NEW fresh, NEW again, Rerecording(items, K, fresh, again)
  PROVE  /\ IsList(Rerecorded(items, again)) /\ Unrepeated(Rerecorded(items, again))
         /\ \A x \in ToSet(Rerecorded(items, again)) :
              (\E y \in ToSet(items) : x = Old(y)) \/ (\E k \in K : x = fresh[k])
         /\ \A k \in K : fresh[k] \in ToSet(Rerecorded(items, again))
         /\ Ids(items) \subseteq Ids(Rerecorded(items, again))
<1>0. /\ IsList(items) /\ Unrepeated(items) /\ \A x \in ToSet(items) : "at" \in DOMAIN x /\ "current" \in DOMAIN x
      /\ K \subseteq DOMAIN items
      /\ \A k \in K : fresh[k].at \notin Ids(items)
      /\ \A j, k \in K : fresh[j].at = fresh[k].at => j = k
      /\ \A k \in DOMAIN items : again[k] = IF k \in K THEN <<fresh[k]>> ELSE <<>>
  BY DEF Rerecording
<1>1. PICK n \in Nat : n = Len(items)
  BY <1>0 DEF IsList
<1>2. DOMAIN items = 1..n /\ \A k \in 1..n : items[k] \in ToSet(items)
  BY <1>0, <1>1 DEF IsList, ToSet
<1> DEFINE S == {Old(x) : x \in ToSet(items)} \cup {fresh[k] : k \in K}
           List(k) == <<Old(items[k])>> \o again[k]
           Member(k, x) == x = Old(items[k]) \/ (k \in K /\ x = fresh[k])
<1>3. PICK lists : lists = [k \in 1..n |-> List(k)]
  OBVIOUS
<1>4. Rerecorded(items, again) = FlattenSeq(lists)
  BY <1>2, <1>3 DEF Rerecorded
<1>5. \A k \in 1..n : Old(items[k]).at = items[k].at /\ items[k].at \in Ids(items)
  BY <1>0, <1>2 DEF Old, Ids
<1>6. ASSUME NEW k \in 1..n
      PROVE  lists[k] \in Seq(S) /\ Unrepeated(lists[k]) /\ \A x : x \in ToSet(lists[k]) <=> Member(k, x)
  <2>1. PICK a, b : a = Old(items[k]) /\ b = fresh[k]
    OBVIOUS
  <2>2. lists[k] = <<a>> \o again[k]
    BY <1>3, <2>1
  <2>3. CASE k \in K
    <3>1. again[k] = <<b>>
      BY <1>0, <1>2, <2>1, <2>3
    <3>2. a \in S /\ b \in S
      BY <1>0, <1>2, <2>1, <2>3
    <3>3. a.at # b.at
      BY <1>0, <1>5, <2>1, <2>3
    <3> HIDE DEF S
    <3>4. /\ <<a>> \in Seq(S) /\ ToSet(<<a>>) = {a} /\ Ids(<<a>>) = {a.at} /\ Unrepeated(<<a>>)
          /\ <<b>> \in Seq(S) /\ ToSet(<<b>>) = {b} /\ Ids(<<b>>) = {b.at} /\ Unrepeated(<<b>>)
      BY <3>2, FewItems
    <3>5. PICK c, d : c = <<a>> /\ d = <<b>>
      OBVIOUS
    <3>6. /\ lists[k] = c \o d /\ c \in Seq(S) /\ ToSet(c) = {a} /\ Unrepeated(c)
          /\ d \in Seq(S) /\ ToSet(d) = {b} /\ Unrepeated(d) /\ Ids(c) \cap Ids(d) = {}
      BY <2>2, <3>1, <3>3, <3>4, <3>5
    <3>7. c \o d \in Seq(S) /\ ToSet(c \o d) = {a} \cup {b} /\ Unrepeated(c \o d)
      BY <3>6, Joined
    <3> QED
      BY <2>1, <2>3, <3>6, <3>7
  <2>4. CASE k \notin K
    <3>1. again[k] = <<>>
      BY <1>0, <1>2, <2>4
    <3>2. a \in S
      BY <1>2, <2>1
    <3> HIDE DEF S
    <3>3. /\ <<a>> \in Seq(S) /\ ToSet(<<a>>) = {a} /\ Unrepeated(<<a>>)
          /\ <<>> \in Seq(S) /\ ToSet(<<>>) = {} /\ Ids(<<>>) = {} /\ Unrepeated(<<>>)
      BY <3>2, FewItems
    <3>4. PICK c, d : c = <<a>> /\ d = <<>>
      OBVIOUS
    <3>5. /\ lists[k] = c \o d /\ c \in Seq(S) /\ ToSet(c) = {a} /\ Unrepeated(c)
          /\ d \in Seq(S) /\ ToSet(d) = {} /\ Unrepeated(d) /\ Ids(c) \cap Ids(d) = {}
      BY <2>2, <3>1, <3>3, <3>4
    <3>6. c \o d \in Seq(S) /\ ToSet(c \o d) = {a} \cup {} /\ Unrepeated(c \o d)
      BY <3>5, Joined, SMTT(30)
    <3> QED
      BY <2>1, <2>4, <3>5, <3>6
  <2> QED
    BY <2>3, <2>4
<1> HIDE DEF S
<1>7. \E T : lists \in Seq(T) /\ Len(lists) = n
  <2>1. PICK T : T = {lists[k] : k \in 1..n}
    OBVIOUS
  <2>2. lists \in [1..n -> T] /\ DOMAIN lists = 1..n
    BY <1>3, <2>1
  <2>3. lists \in Seq(T)
    BY <2>2
  <2>4. Len(lists) = n
    BY <2>2, <2>3
  <2> QED
    BY <2>3, <2>4
<1>8. \A k \in 1..n : Unrepeated(lists[k]) /\ Ids(lists[k]) = {x.at : x \in ToSet(lists[k])}
  BY <1>6, ListFacts
<1>9. \A k \in 1..n : \A x : x \in ToSet(lists[k]) <=> Member(k, x)
  BY <1>6
<1>10. \A i, j \in 1..n : i < j => Ids(lists[i]) \cap Ids(lists[j]) = {}
  <2> SUFFICES ASSUME NEW i \in 1..n, NEW j \in 1..n, i # j,
                      NEW x \in ToSet(lists[i]), NEW y \in ToSet(lists[j]), x.at = y.at
               PROVE  FALSE
    BY <1>8
  <2>1. Member(i, x) /\ Member(j, y)
    BY <1>9
  <2>2. items[i].at # items[j].at
    BY <1>0, <1>2 DEF Unrepeated
  <2> QED
    BY <1>0, <1>5, <2>1, <2>2
<1>11. Apart(lists, n)
  BY <1>8, <1>10 DEF Apart
<1>12. PICK flat : flat = FlattenSeq(lists)
  OBVIOUS
<1>13. flat \in Seq(S) /\ ToSet(flat) = UNION {ToSet(lists[i]) : i \in 1..n} /\ Unrepeated(flat)
  BY <1>6, <1>7, <1>11, <1>12, Flattened
<1>14. \A x : x \in ToSet(flat) <=> \E k \in 1..n : Member(k, x)
  <2>1. \A x : x \in ToSet(flat) <=> \E k \in 1..n : x \in ToSet(lists[k])
    BY <1>13
  <2> HIDE DEF Member
  <2> QED
    BY <1>9, <2>1, Zenon
<1>15. \A x \in ToSet(flat) : (\E y \in ToSet(items) : x = Old(y)) \/ (\E k \in K : x = fresh[k])
  BY <1>0, <1>2, <1>14
<1>16. \A k \in K : fresh[k] \in ToSet(flat)
  BY <1>0, <1>2, <1>14
<1>17. IsList(flat) /\ Ids(flat) = {x.at : x \in ToSet(flat)}
  BY <1>13, ListFacts
<1>18. Ids(items) \subseteq Ids(flat)
  <2> SUFFICES ASSUME NEW k \in 1..n PROVE items[k].at \in Ids(flat)
    BY <1>2 DEF Ids
  <2>1. Old(items[k]) \in ToSet(flat)
    BY <1>14
  <2> QED
    BY <1>5, <1>17, <2>1
<1> QED
  BY <1>4, <1>12, <1>13, <1>15, <1>16, <1>17, <1>18

\* The records of a patch, by name.
ReboundAt(at) ==
  <<memory.revision + 1, "reuse", CHOOSE k \in DOMAIN memory.evidence : memory.evidence[k].at = at>>
Rebinding(e) == Evidence(ReboundAt(e.at), e.chunk)
Restating(slots, c) ==
  [c EXCEPT !.at = <<c.id, "r", memory.revision + 1>>, !.content = Renewed(@, slots, memory.revision + 1),
            !.support = {ReboundAt(e) : e \in @}]
Rebound(evidence, e) == IF e.at \in evidence THEN <<Rebinding(e)>> ELSE <<>>
Restated(slots, claims, c) == IF c.at \in claims THEN <<Restating(slots, c)>> ELSE <<>>
Patched(slots, evidence, claims) ==
  [Advanced EXCEPT
     !.retrieval = @ + 1, !.planned = memory.revision + 1,
     !.intents = [s \in Slot |-> IF s \in slots THEN memory.revision + 1 ELSE @[s]],
     !.evidence = FlattenSeq([k \in DOMAIN @ |-> <<Old(@[k])>> \o Rebound(evidence, @[k])]),
     !.claims = FlattenSeq([k \in DOMAIN @ |-> <<Old(@[k])>> \o Restated(slots, claims, @[k])])]

\* This is what a patch writes.
LEMMA PatchWrites ==
  ASSUME NEW slots, NEW evidence, NEW claims, Patch(slots, evidence, claims)
  PROVE  Write(Patched(slots, evidence, claims))
BY Zenon DEF Patch, Patched, Rebound, Restated, Rebinding, Restating, ReboundAt, Old

\* Rebound evidence is told apart by the place of what it replaces.
LEMMA ReboundPlaces ==
  ASSUME Unrepeated(memory.evidence)
  PROVE  \A k \in DOMAIN memory.evidence : ReboundAt(memory.evidence[k].at) = <<memory.revision + 1, "reuse", k>>
<1> SUFFICES ASSUME NEW k \in DOMAIN memory.evidence
             PROVE  (CHOOSE j \in DOMAIN memory.evidence : memory.evidence[j].at = memory.evidence[k].at) = k
  BY DEF ReboundAt
<1> QED
  BY DEF Unrepeated

\* New IDs for intents leave the matter of a claim.
LEMMA RenewedMatter ==
  ASSUME NEW content, NEW slots, NEW now
  PROVE  SameMatter(Renewed(content, slots, now), content)
BY DEF Renewed, SameMatter

\* Intents that have their present IDs.
LEMMA NamedFacts ==
  ASSUME NEW content, NEW intents, NamedBy(content, intents)
  PROVE  DOMAIN content.intents \subseteq Slot /\ \A s \in DOMAIN content.intents : content.intents[s] = intents[s]
<1>1. PICK names : names = [s \in DOMAIN content.intents |-> intents[s]]
  OBVIOUS
<1>2. content = [says |-> content.says, intents |-> names]
  BY <1>1 DEF NamedBy
<1>3. content.intents = names
  BY <1>2
<1> QED
  BY <1>1, <1>3 DEF NamedBy

\* Renamed as the session's intents are.
LEMMA RenewedNamed ==
  ASSUME NEW content, NEW intents, DOMAIN content.intents \subseteq Slot,
         \A s \in DOMAIN content.intents : content.intents[s] = intents[s],
         NEW slots, NEW now,
         NEW after, after = [s \in Slot |-> IF s \in slots THEN now ELSE intents[s]]
  PROVE  NamedBy(Renewed(content, slots, now), after)
<1>1. PICK names : names = [s \in DOMAIN content.intents |-> IF s \in slots THEN now ELSE content.intents[s]]
  OBVIOUS
<1>2. PICK new : new = [says |-> content.says, intents |-> names]
  OBVIOUS
<1>3. Renewed(content, slots, now) = new
  BY <1>1, <1>2 DEF Renewed
<1>4. new.says = content.says /\ new.intents = names /\ DOMAIN names = DOMAIN content.intents
  BY <1>1, <1>2
<1>5. names = [s \in DOMAIN names |-> after[s]]
  BY <1>1, <1>4
<1> QED
  BY <1>2, <1>3, <1>4, <1>5 DEF NamedBy

\* Claims about one matter with the present IDs have one content.
LEMMA SameContent ==
  ASSUME NEW a, NEW b, NEW intents, NamedBy(a, intents), NamedBy(b, intents), SameMatter(a, b)
  PROVE  a = b
BY DEF NamedBy, SameMatter

\* The fields of a claim recorded again.
LEMMA RestatingFacts ==
  ASSUME NEW slots, NEW c, DOMAIN c = ClaimFields,
         NEW d, d = Restating(slots, c)
  PROVE  /\ DOMAIN d = ClaimFields /\ d.at = <<c.id, "r", memory.revision + 1>> /\ d.id = c.id
         /\ d.content = Renewed(c.content, slots, memory.revision + 1) /\ d.current = c.current
         /\ d.support = {ReboundAt(e) : e \in c.support}
<1>1. PICK at, content, support :
        /\ at = <<c.id, "r", memory.revision + 1>> /\ content = Renewed(c.content, slots, memory.revision + 1)
        /\ support = {ReboundAt(e) : e \in c.support}
  OBVIOUS
<1>2. d = [[[c EXCEPT !.at = at] EXCEPT !.content = content] EXCEPT !.support = support]
  <2>1. PICK b : b = [c EXCEPT !.at = at]
    OBVIOUS
  <2>2. b.content = c.content /\ b.support = c.support /\ DOMAIN b = ClaimFields
    BY <2>1 DEF ClaimFields
  <2>3. [b EXCEPT !.content = content].support = c.support
    BY <2>2 DEF ClaimFields
  <2>4. d = [[b EXCEPT !.content = Renewed(b.content, slots, memory.revision + 1)]
               EXCEPT !.support = {ReboundAt(e) : e \in [b EXCEPT !.content = Renewed(b.content, slots, memory.revision + 1)].support}]
    BY <1>1, <2>1, Zenon DEF Restating
  <2> QED
    BY <1>1, <2>1, <2>2, <2>3, <2>4, Zenon
<1>3. /\ DOMAIN d = ClaimFields /\ d.at = at /\ d.id = c.id /\ d.content = content
      /\ d.current = c.current /\ d.support = support
  BY <1>2 DEF ClaimFields
<1> QED
  BY <1>1, <1>3

\* A semantic patch leaves records in order.
LEMMA PatchKeeps ==
  ASSUME HistoryAssumption, RecordsOK(memory), NEW slots,
         NEW evidence \in SUBSET Ids(CurrentOf(memory.evidence)),
         NEW claims \in SUBSET {c.at : c \in {c \in ToSet(CurrentOf(memory.claims)) : c.support \subseteq evidence}},
         Patch(slots, evidence, claims)
  PROVE  RecordsOK(memory') /\ refusal' # "invalid"
<1>1. PICK now : now = memory.revision + 1
  OBVIOUS
<1>2. PICK found : found = {k \in DOMAIN memory.evidence : memory.evidence[k].at \in evidence}
  OBVIOUS
<1>3. PICK kept : kept = {k \in DOMAIN memory.claims : memory.claims[k].at \in claims}
  OBVIOUS
<1>4. PICK rebound : rebound = [k \in found |-> Rebinding(memory.evidence[k])]
  OBVIOUS
<1>5. PICK restated : restated = [k \in kept |-> Restating(slots, memory.claims[k])]
  OBVIOUS
<1>6. PICK againE : againE = [k \in DOMAIN memory.evidence |-> IF k \in found THEN <<rebound[k]>> ELSE <<>>]
  OBVIOUS
<1>7. PICK againC : againC = [k \in DOMAIN memory.claims |-> IF k \in kept THEN <<restated[k]>> ELSE <<>>]
  OBVIOUS
<1>8. PICK n : n = Patched(slots, evidence, claims)
  OBVIOUS
<1>9. Write(n)
  BY <1>8, PatchWrites
<1>10. /\ DOMAIN memory = SessionFields /\ memory.revision \in Nat /\ memory.retrieval \in Nat
       /\ IsList(memory.evidence) /\ IsList(memory.claims)
       /\ Unrepeated(memory.evidence) /\ Unrepeated(memory.claims)
       /\ \A e \in ToSet(memory.evidence) : EvidenceOK(e, memory.revision)
       /\ \A c \in ToSet(memory.claims) : ClaimOK(c, memory.revision, memory.pointer)
  BY DEF RecordsOK, Shaped, EvidenceKept, ClaimsKept
<1>11. now \in Nat /\ now \in 0..now /\ now \notin 0..memory.revision /\ \A k : k \in 0..memory.revision => k \in 0..now
  BY <1>1, <1>10
<1>12. \A k \in DOMAIN memory.evidence : againE[k] = Rebound(evidence, memory.evidence[k])
  BY <1>2, <1>4, <1>6 DEF Rebound
<1>13. \A k \in DOMAIN memory.claims : againC[k] = Restated(slots, claims, memory.claims[k])
  BY <1>3, <1>5, <1>7 DEF Restated
<1>14. /\ DOMAIN n = SessionFields /\ n.revision = now /\ n.retrieval = memory.retrieval + 1
       /\ n.evidence = FlattenSeq([k \in DOMAIN memory.evidence |->
                         <<Old(memory.evidence[k])>> \o Rebound(evidence, memory.evidence[k])])
       /\ n.claims = FlattenSeq([k \in DOMAIN memory.claims |->
                       <<Old(memory.claims[k])>> \o Restated(slots, claims, memory.claims[k])])
       /\ n.versions = memory.versions /\ n.pointer = memory.pointer /\ n.strained = memory.strained
       /\ n.intents = [s \in Slot |-> IF s \in slots THEN now ELSE memory.intents[s]]
  BY <1>1, <1>8, <1>10 DEF Patched, Advanced, SessionFields
<1>15. n.evidence = Rerecorded(memory.evidence, againE) /\ n.claims = Rerecorded(memory.claims, againC)
  BY <1>12, <1>13, <1>14 DEF Rerecorded
<1>16. \A k \in DOMAIN memory.evidence : memory.evidence[k] \in ToSet(memory.evidence)
  BY DEF ToSet
<1>17. \A k \in DOMAIN memory.claims : memory.claims[k] \in ToSet(memory.claims)
  BY DEF ToSet
<1>18. \A k \in found : /\ rebound[k].at = ReboundAt(memory.evidence[k].at)
                        /\ rebound[k].at = <<now, "reuse", k>> /\ rebound[k].current
                        /\ EvidenceOK(rebound[k], now)
  <2> SUFFICES ASSUME NEW k \in found, NEW e, e = rebound[k]
               PROVE  /\ e.at = ReboundAt(memory.evidence[k].at) /\ e.at = <<now, "reuse", k>> /\ e.current
                      /\ EvidenceOK(e, now)
    OBVIOUS
  <2>1. ReboundAt(memory.evidence[k].at) = <<now, "reuse", k>>
    BY <1>1, <1>2, <1>10, ReboundPlaces
  <2>2. e = Evidence(<<now, "reuse", k>>, memory.evidence[k].chunk)
    BY <1>4, <2>1 DEF Rebinding
  <2> QED
    BY <1>11, <2>1, <2>2 DEF Evidence, EvidenceOK, EvidenceFields
<1>19. /\ IsList(n.evidence) /\ Unrepeated(n.evidence) /\ Ids(memory.evidence) \subseteq Ids(n.evidence)
       /\ \A x \in ToSet(n.evidence) : (\E y \in ToSet(memory.evidence) : x = Old(y)) \/ (\E k \in found : x = rebound[k])
       /\ \A k \in found : rebound[k] \in ToSet(n.evidence)
  <2>1. \A x \in ToSet(memory.evidence) : "at" \in DOMAIN x /\ "current" \in DOMAIN x
    BY <1>10 DEF EvidenceOK, EvidenceFields
  <2>2. \A k \in found : rebound[k].at \notin Ids(memory.evidence)
    <3>1. Ids(memory.evidence) = {e.at : e \in ToSet(memory.evidence)}
      BY <1>10, ListFacts DEF IsList
    <3>2. \A e \in ToSet(memory.evidence) : \A k : e.at # <<now, "reuse", k>>
      BY <1>10, <1>11 DEF EvidenceOK
    <3> QED
      BY <1>18, <3>1, <3>2
  <2>3. \A j, k \in found : rebound[j].at = rebound[k].at => j = k
    BY <1>18
  <2>4. found \subseteq DOMAIN memory.evidence
    BY <1>2
  <2> QED
    <3>1. PICK items : items = memory.evidence
      OBVIOUS
    <3>2. Rerecording(items, found, rebound, againE)
      BY <1>6, <1>10, <2>1, <2>2, <2>3, <2>4, <3>1 DEF Rerecording
    <3>3. n.evidence = Rerecorded(items, againE)
      BY <1>15, <3>1
    <3> QED
      BY <3>1, <3>2, <3>3, RerecordedFacts
<1>20. EvidenceKept(n)
  <2>1. \A y \in ToSet(memory.evidence) : EvidenceOK(Old(y), now)
    BY <1>10, <1>11 DEF EvidenceOK, EvidenceFields, Old
  <2> QED
    BY <1>14, <1>18, <1>19, <2>1 DEF EvidenceKept
<1>21. \A at \in evidence : ReboundAt(at) \in InForce(n.evidence)
  <2> SUFFICES ASSUME NEW at \in evidence PROVE ReboundAt(at) \in InForce(n.evidence)
    OBVIOUS
  <2>1. at \in InForce(memory.evidence)
    BY <1>10, CurrentItems
  <2>2. PICK k \in DOMAIN memory.evidence : memory.evidence[k].at = at
    BY <2>1 DEF InForce, ToSet
  <2>3. k \in found
    BY <1>2, <2>2
  <2>4. ReboundAt(at) = rebound[k].at /\ rebound[k].current /\ rebound[k] \in ToSet(n.evidence)
    BY <1>18, <1>19, <2>2, <2>3
  <2> QED
    BY <2>4 DEF InForce
<1>22. \A k \in kept : /\ k \in DOMAIN memory.claims /\ memory.claims[k] \in ToSet(memory.claims)
                       /\ memory.claims[k].current /\ memory.claims[k].support \subseteq evidence
  <2> SUFFICES ASSUME NEW k \in kept
               PROVE  /\ k \in DOMAIN memory.claims /\ memory.claims[k] \in ToSet(memory.claims)
                      /\ memory.claims[k].current /\ memory.claims[k].support \subseteq evidence
    OBVIOUS
  <2>1. ToSet(CurrentOf(memory.claims)) = {c \in ToSet(memory.claims) : c.current}
    BY <1>10, CurrentItems
  <2>2. k \in DOMAIN memory.claims /\ memory.claims[k] \in ToSet(memory.claims) /\ memory.claims[k].at \in claims
    BY <1>3, <1>17
  <2>3. PICK c \in ToSet(memory.claims) : c.current /\ c.support \subseteq evidence /\ c.at = memory.claims[k].at
    BY <2>1, <2>2
  <2>4. c = memory.claims[k]
    BY <1>10, <2>2, <2>3, SameItem
  <2> QED
    BY <2>2, <2>3, <2>4
<1>23. \A j, k \in kept : memory.claims[j].id = memory.claims[k].id => j = k
  <2> SUFFICES ASSUME NEW j \in kept, NEW k \in kept, memory.claims[j].id = memory.claims[k].id PROVE j = k
    OBVIOUS
  <2>1. memory.claims[j] = memory.claims[k]
    BY <1>22 DEF RecordsOK, CurrentStands, SameIds
  <2> QED
    BY <1>10, <1>22, <2>1 DEF Unrepeated
<1>24. \A k \in kept :
         /\ restated[k].at = <<memory.claims[k].id, "r", now>> /\ restated[k].id = memory.claims[k].id
         /\ restated[k].content = Renewed(memory.claims[k].content, slots, now) /\ restated[k].current
         /\ restated[k].support \subseteq InForce(n.evidence) /\ ClaimOK(restated[k], now, memory.pointer)
  <2> SUFFICES ASSUME NEW k \in kept
               PROVE  /\ restated[k].at = <<memory.claims[k].id, "r", now>> /\ restated[k].id = memory.claims[k].id
                      /\ restated[k].content = Renewed(memory.claims[k].content, slots, now) /\ restated[k].current
                      /\ restated[k].support \subseteq InForce(n.evidence)
                      /\ ClaimOK(restated[k], now, memory.pointer)
    OBVIOUS
  <2>0. PICK c, d : c = memory.claims[k] /\ d = restated[k]
    OBVIOUS
  <2>1. c \in ToSet(memory.claims) /\ c.current /\ c.support \subseteq evidence
    BY <1>22, <2>0
  <2>2. d = Restating(slots, c)
    BY <1>5, <2>0
  <2>3. ClaimOK(c, memory.revision, memory.pointer)
    BY <1>10, <2>1
  <2>4. /\ DOMAIN d = ClaimFields /\ d.at = <<c.id, "r", now>> /\ d.id = c.id
        /\ d.content = Renewed(c.content, slots, now)
        /\ d.current = c.current /\ d.support = {ReboundAt(e) : e \in c.support}
    <3>1. DOMAIN c = ClaimFields
      BY <2>3 DEF ClaimOK
    <3> QED
      BY <1>1, <2>2, <3>1, RestatingFacts
  <2>5. IsFiniteSet(d.support)
    <3>1. PICK f : f = [e \in c.support |-> ReboundAt(e)]
      OBVIOUS
    <3>2. {f[e] : e \in c.support} = d.support
      BY <2>4, <3>1
    <3>3. IsFiniteSet({f[e] : e \in c.support})
      BY <2>3, FiniteImage DEF ClaimOK
    <3> QED
      BY <3>2, <3>3
  <2>6. d.support \subseteq InForce(n.evidence)
    BY <1>21, <2>1, <2>4
  <2>7. d.at[1] = d.id /\ d.at[2] = "r" /\ d.at[3] = now
    BY <2>4
  <2>8. ClaimOK(d, now, memory.pointer)
    BY <1>11, <2>3, <2>4, <2>5, <2>7 DEF ClaimOK
  <2> QED
    BY <2>0, <2>1, <2>4, <2>6, <2>8
<1>25. /\ IsList(n.claims) /\ Unrepeated(n.claims) /\ Ids(memory.claims) \subseteq Ids(n.claims)
       /\ \A x \in ToSet(n.claims) : (\E y \in ToSet(memory.claims) : x = Old(y)) \/ (\E k \in kept : x = restated[k])
  <2>1. \A x \in ToSet(memory.claims) : "at" \in DOMAIN x /\ "current" \in DOMAIN x
    BY <1>10 DEF ClaimOK, ClaimFields
  <2>2. \A k \in kept : restated[k].at \notin Ids(memory.claims)
    <3>1. Ids(memory.claims) = {c.at : c \in ToSet(memory.claims)}
      BY <1>10, ListFacts DEF IsList
    <3>2. \A c \in ToSet(memory.claims) : \A id : c.at # <<id, "r", now>>
      BY <1>10, <1>11 DEF ClaimOK
    <3> QED
      BY <1>24, <3>1, <3>2
  <2>3. \A j, k \in kept : restated[j].at = restated[k].at => j = k
    BY <1>23, <1>24
  <2>4. kept \subseteq DOMAIN memory.claims
    BY <1>3
  <2> QED
    <3>1. PICK items : items = memory.claims
      OBVIOUS
    <3>2. Rerecording(items, kept, restated, againC)
      BY <1>7, <1>10, <2>1, <2>2, <2>3, <2>4, <3>1 DEF Rerecording
    <3>3. n.claims = Rerecorded(items, againC)
      BY <1>15, <3>1
    <3> QED
      BY <3>1, <3>2, <3>3, RerecordedFacts
<1>26. \A y \in ToSet(memory.claims) :
         /\ Old(y).at = y.at /\ Old(y).id = y.id /\ Old(y).content = y.content /\ Old(y).support = y.support
         /\ ~Old(y).current /\ ClaimOK(Old(y), now, memory.pointer)
  <2> SUFFICES ASSUME NEW y \in ToSet(memory.claims), NEW x, x = Old(y)
               PROVE  /\ x.at = y.at /\ x.id = y.id /\ x.content = y.content /\ x.support = y.support
                      /\ ~x.current /\ ClaimOK(x, now, memory.pointer)
    OBVIOUS
  <2>1. ClaimOK(y, memory.revision, memory.pointer)
    BY <1>10
  <2>2. /\ DOMAIN x = ClaimFields /\ x.current = FALSE /\ x.at = y.at /\ x.id = y.id
        /\ x.content = y.content /\ x.support = y.support
    BY <2>1 DEF ClaimOK, ClaimFields, Old
  <2> QED
    BY <1>11, <2>1, <2>2 DEF ClaimOK
<1>27. ClaimsKept(n)
  BY <1>14, <1>24, <1>25, <1>26 DEF ClaimsKept
<1>28. CurrentStands(n)
  <2>1. \A c \in ToSet(n.claims) : c.current => \E k \in kept : c = restated[k]
    BY <1>25, <1>26
  <2>2. \A j, k \in kept : restated[j].id = restated[k].id => j = k
    BY <1>23, <1>24
  <2>3. \A c, d \in ToSet(n.claims) : SameIds(c, d)
    BY <2>1, <2>2 DEF SameIds
  <2>4. \A c \in ToSet(n.claims) : c.current => c.support \subseteq InForce(n.evidence)
    BY <1>24, <2>1
  <2> QED
    BY <2>3, <2>4 DEF CurrentStands
<1>29. \A c \in ToSet(n.claims) : \E o \in ToSet(memory.claims) : Restates(c, o)
  <2> SUFFICES ASSUME NEW c \in ToSet(n.claims) PROVE \E o \in ToSet(memory.claims) : Restates(c, o)
    OBVIOUS
  <2>1. CASE \E y \in ToSet(memory.claims) : c = Old(y)
    BY <1>26, <2>1 DEF Restates, SameMatter
  <2>2. CASE \E k \in kept : c = restated[k]
    <3>1. PICK k \in kept : c = restated[k]
      BY <2>2
    <3>2. c.at[2] = "r" /\ c.id = memory.claims[k].id /\ SameMatter(c.content, memory.claims[k].content)
      BY <1>24, <3>1, RenewedMatter
    <3> QED
      BY <1>22, <3>2 DEF Restates
  <2> QED
    BY <1>25, <2>1, <2>2
<1>30. Shaped(n) /\ n.revision >= memory.revision
  BY <1>1, <1>10, <1>14, <1>19, <1>25 DEF RecordsOK, Shaped
<1>31. CurrentNamed(n)
  <2> SUFFICES ASSUME NEW k \in kept PROVE NamedBy(restated[k].content, n.intents)
    BY <1>25, <1>26 DEF CurrentNamed
  <2>1. PICK old, new : old = memory.claims[k].content /\ new = restated[k].content
    OBVIOUS
  <2>2. DOMAIN old.intents \subseteq Slot /\ \A s \in DOMAIN old.intents : old.intents[s] = memory.intents[s]
    <3>1. NamedBy(old, memory.intents)
      BY <1>22, <2>1 DEF RecordsOK, CurrentNamed
    <3> QED
      BY <3>1, NamedFacts
  <2>3. new = Renewed(old, slots, now)
    BY <1>24, <2>1
  <2>4. PICK intents, after :
          intents = memory.intents /\ after = [s \in Slot |-> IF s \in slots THEN now ELSE intents[s]]
    OBVIOUS
  <2>5. NamedBy(Renewed(old, slots, now), after)
    BY <2>2, <2>4, RenewedNamed, Zenon
  <2>6. n.intents = after
    BY <1>14, <2>4
  <2> QED
    BY <2>1, <2>3, <2>5, <2>6
<1>32. RecordsOK(n)
  BY <1>14, <1>19, <1>20, <1>25, <1>27, <1>28, <1>29, <1>30, <1>31, BetweenPublications
<1> QED
  BY <1>9, <1>32, WriteKeeps

-----------------------------------------------------------------------------
(* The entries of an answer.                                               *)

\* The claims a publication looks at.
CurrentClaims == CurrentOf(memory.claims)

\* They are records of the session, each with the ID of a claim.
LEMMA PublicationLists ==
  ASSUME RecordsOK(memory)
  PROVE  /\ IsList(memory.claims) /\ Unrepeated(memory.claims)
         /\ CurrentClaims \in Seq(ToSet(memory.claims)) /\ Unrepeated(CurrentClaims)
         /\ ToSet(CurrentClaims) = {c \in ToSet(memory.claims) : c.current}
         /\ Parents \in Seq(ToSet(memory.claims))
         /\ \A c \in ToSet(memory.claims) : c # Nobody /\ c.id # <<>> /\ IdKnown(c.id, memory.pointer)
<1>1. IsList(memory.claims) /\ Unrepeated(memory.claims)
  BY DEF RecordsOK, Shaped, ClaimsKept
<1>2. /\ CurrentClaims \in Seq(ToSet(memory.claims)) /\ Unrepeated(CurrentClaims)
      /\ ToSet(CurrentClaims) = {c \in ToSet(memory.claims) : c.current}
  BY <1>1, CurrentItems DEF CurrentClaims
<1>3. Parents \in Seq(ToSet(memory.claims))
  <2>1. Those(memory.claims, {c \in ToSet(memory.claims) : c.at \in Published(memory)}) \in Seq(ToSet(memory.claims))
    BY <1>1, ThoseItems DEF IsList
  <2> QED
    BY <1>2, <2>1 DEF Parents, CurrentClaims
<1>4. \A c \in ToSet(memory.claims) : c # Nobody /\ c.id # <<>> /\ IdKnown(c.id, memory.pointer)
  <2> SUFFICES ASSUME NEW c \in ToSet(memory.claims)
               PROVE  c # Nobody /\ c.id # <<>> /\ IdKnown(c.id, memory.pointer)
    OBVIOUS
  <2>1. IdKnown(c.id, memory.pointer)
    BY DEF RecordsOK, ClaimsKept, ClaimOK
  <2>2. c.id # <<>>
    <3>1. PICK id, a, b, d : id = c.id /\ a = id[1] /\ b = id[2] /\ d = id[3]
      OBVIOUS
    <3>2. id = <<a>> \/ id = <<a, b, d>>
      BY <2>1, <3>1 DEF IdKnown
    <3> QED
      BY <3>1, <3>2
  <2> QED
    BY <2>1, <2>2 DEF Nobody
<1> QED
  BY <1>1, <1>2, <1>3, <1>4

\* The first of some items, if there is one.
LEMMA FirstFacts ==
  ASSUME NEW S, NEW s \in Seq(S), NEW wanted, \A x \in ToSet(s) : x # Nobody,
         NEW first, first = First(Those(s, wanted))
  PROVE  /\ first = Nobody => ToSet(s) \cap wanted = {}
         /\ first # Nobody =>
              \E i \in 1..Len(s) : first = s[i] /\ s[i] \in wanted /\ \A j \in 1..(i - 1) : s[j] \notin wanted
         /\ first # Nobody => first \in ToSet(s) /\ first \in wanted
<1>1. PICK those : those = Those(s, wanted)
  OBVIOUS
<1>2. /\ those \in Seq(S) /\ ToSet(those) = ToSet(s) \cap wanted
      /\ those # <<>> =>
           \E i \in 1..Len(s) : Head(those) = s[i] /\ s[i] \in wanted /\ \A j \in 1..(i - 1) : s[j] \notin wanted
  BY <1>1, ThoseItems
<1>3. \A i \in 1..Len(s) : s[i] \in ToSet(s)
  BY ListFacts
<1>4. CASE those = <<>>
  <2>1. first = Nobody
    BY <1>1, <1>4 DEF First
  <2>2. ToSet(those) = {}
    BY <1>4 DEF ToSet
  <2> QED
    BY <1>2, <2>1, <2>2
<1>5. CASE those # <<>>
  <2>1. first = Head(those)
    BY <1>1, <1>5 DEF First
  <2>2. PICK i \in 1..Len(s) : first = s[i] /\ s[i] \in wanted /\ \A j \in 1..(i - 1) : s[j] \notin wanted
    BY <1>2, <1>5, <2>1
  <2>3. first \in ToSet(s) /\ first # Nobody
    BY <1>3, <2>2
  <2> QED
    BY <2>2, <2>3
<1> QED
  BY <1>4, <1>5

\* An entry is a current claim or a new one, and follows a claim that was
\* published or is current.
EntryOK(e, version) ==
  /\ IdKnown(e.id, version) /\ NamedBy(e.content, memory.intents)
  /\ e.source # Nobody => /\ e.source \in ToSet(memory.claims) /\ e.source.current
                          /\ e.id = e.source.id /\ e.content = e.source.content
  /\ e.source = Nobody => \A c \in ToSet(memory.claims) : c.id # e.id
  /\ e.previous # Nobody => /\ e.previous \in ToSet(memory.claims)
                            /\ e.previous \in ToSet(Parents) \/ e.previous.current
OneEach(list) == \A j, k \in DOMAIN list : list[j].id = list[k].id => j = k
EntriesOK(entries, version) ==
  IsList(entries) /\ OneEach(entries) /\ \A e \in ToSet(entries) : EntryOK(e, version)

\* An ID known before a version is known with it.
LEMMA StillKnown ==
  ASSUME NEW n \in Nat, NEW id, IdKnown(id, n)
  PROVE  IdKnown(id, n + 1)
<1>1. \A k : k \in 1..n => k \in 1..(n + 1)
  OBVIOUS
<1> QED
  BY <1>1 DEF IdKnown

\* A current claim carried into the answer.
LEMMA CarriedOK ==
  ASSUME RecordsOK(memory), NEW c \in ToSet(memory.claims), c.current, NEW e, e = Carried(c)
  PROVE  EntryOK(e, memory.pointer + 1) /\ e.source = c /\ e.id = c.id /\ e.content = c.content
<1>1. PICK parent : parent = First(Those(Parents, {p \in ToSet(Parents) : p.id = c.id}))
  OBVIOUS
<1>2. e = Entry(c.id, c.content, c, IF parent = Nobody THEN c ELSE parent)
  BY <1>1 DEF Carried
<1>3. e.id = c.id /\ e.content = c.content /\ e.source = c /\ e.previous = IF parent = Nobody THEN c ELSE parent
  BY <1>2 DEF Entry
<1>4. c # Nobody /\ IdKnown(c.id, memory.pointer) /\ Parents \in Seq(ToSet(memory.claims)) /\ memory.pointer \in Nat
  BY PublicationLists DEF RecordsOK, Shaped
<1>5. ToSet(Parents) \subseteq ToSet(memory.claims) /\ \A p \in ToSet(Parents) : p # Nobody
  BY <1>4, ListFacts, PublicationLists
<1>6. parent # Nobody => parent \in ToSet(Parents)
  BY <1>1, <1>4, <1>5, FirstFacts
<1>7. IdKnown(c.id, memory.pointer + 1)
  BY <1>4, StillKnown
<1>8. NamedBy(c.content, memory.intents)
  BY DEF RecordsOK, CurrentNamed
<1> QED
  BY <1>3, <1>4, <1>5, <1>6, <1>7, <1>8 DEF EntryOK

\* What reconciling looks up.
SameClaim(entries, claim) ==
  First(Those(CurrentClaims, {c \in ToSet(CurrentClaims) \ {e.source : e \in ToSet(entries)} : c.content = claim.content}))
Namesake(claim) ==
  First(Those(CurrentClaims \o Parents, {c \in ToSet(CurrentClaims \o Parents) : c.id = claim.id}))
Taken(entries) == {c.id : c \in ToSet(memory.claims)} \cup {e.id : e \in ToSet(entries)}
Reconciled(entries, claim, version) ==
  IF SameClaim(entries, claim) # Nobody THEN Carried(SameClaim(entries, claim))
  ELSE Entry(Named(claim, Taken(entries), version), claim.content, Nobody, Namesake(claim))

\* Reconciling a claim appends the entry found.
LEMMA ReconcileAppends ==
  ASSUME NEW entries, NEW claim, NEW version
  PROVE  Reconcile(entries, claim, version) = Append(entries, Reconciled(entries, claim, version))
BY Zenon DEF Reconcile, Reconciled, SameClaim, Namesake, Taken, CurrentClaims

\* An entry with an ID no other has.
LEMMA EntryAdded ==
  ASSUME NEW entries, NEW version, EntriesOK(entries, version), NEW e, EntryOK(e, version),
         \A d \in ToSet(entries) : d.id # e.id
  PROVE  EntriesOK(Append(entries, e), version) /\ ToSet(Append(entries, e)) = ToSet(entries) \cup {e}
<1> DEFINE S == ToSet(entries) \cup {e}
<1>1. entries \in Seq(ToSet(entries))
  BY DEF EntriesOK, IsList
<1>2. entries \in Seq(S) /\ e \in S
  BY <1>1
<1> HIDE DEF S
<1>3. PICK more : more = Append(entries, e)
  OBVIOUS
<1>4. more \in Seq(S) /\ ToSet(more) = ToSet(entries) \cup {e}
  BY <1>2, <1>3, Added
<1>5. PICK l \in Nat : l = Len(entries)
  BY <1>2
<1>6. DOMAIN entries = 1..l /\ DOMAIN more = 1..(l + 1) /\ more[l + 1] = e /\ \A k \in 1..l : more[k] = entries[k]
  BY <1>2, <1>3, <1>5
<1>7. OneEach(more)
  <2>1. \A k \in 1..l : more[k].id # e.id
    BY <1>6 DEF ToSet
  <2> SUFFICES ASSUME NEW j \in 1..(l + 1), NEW k \in 1..(l + 1), more[j].id = more[k].id PROVE j = k
    BY <1>6 DEF OneEach
  <2>2. (j = l + 1 \/ j \in 1..l) /\ (k = l + 1 \/ k \in 1..l)
    OBVIOUS
  <2>3. CASE j \in 1..l /\ k \in 1..l
    BY <1>6, <2>3 DEF EntriesOK, OneEach
  <2>4. CASE j = l + 1 \/ k = l + 1
    BY <1>6, <2>1, <2>2, <2>4
  <2> QED
    BY <2>2, <2>3, <2>4
<1>8. IsList(more)
  BY <1>4, ListFacts
<1> QED
  BY <1>3, <1>4, <1>7, <1>8 DEF EntriesOK

\* A current claim that is no entry has an ID no entry has.
LEMMA UnmatchedId ==
  ASSUME RecordsOK(memory), NEW entries, NEW version, EntriesOK(entries, version),
         NEW c \in ToSet(memory.claims), c.current, \A e \in ToSet(entries) : e.source # c
  PROVE  \A e \in ToSet(entries) : e.id # c.id
<1> SUFFICES ASSUME NEW e \in ToSet(entries), e.id = c.id PROVE FALSE
  OBVIOUS
<1>1. EntryOK(e, version)
  BY DEF EntriesOK
<1>2. e.source # Nobody
  BY <1>1 DEF EntryOK
<1>3. e.source \in ToSet(memory.claims) /\ e.source.current /\ e.source.id = c.id
  BY <1>1, <1>2 DEF EntryOK
<1>4. e.source = c
  BY <1>3 DEF RecordsOK, CurrentStands, SameIds
<1> QED
  BY <1>4

\* One more claim of the answer.
LEMMA ReconcileKeeps ==
  ASSUME RecordsOK(memory), NEW entries, NEW version, version = memory.pointer + 1, EntriesOK(entries, version),
         NEW claim, NamedBy(claim.content, memory.intents), NEW same, same = SameClaim(entries, claim),
         NEW id, id = Named(claim, Taken(entries), version),
         same = Nobody => IdKnown(id, version) /\ id \notin Taken(entries),
         NEW new, new = Reconciled(entries, claim, version)
  PROVE  /\ EntriesOK(Append(entries, new), version) /\ ToSet(Append(entries, new)) = ToSet(entries) \cup {new}
         /\ same # Nobody => new.source = same /\ new.id = same.id /\ same \in ToSet(memory.claims)
         /\ same = Nobody => new.id = id
<1>1. /\ CurrentClaims \in Seq(ToSet(memory.claims)) /\ ToSet(CurrentClaims) = {c \in ToSet(memory.claims) : c.current}
      /\ Parents \in Seq(ToSet(memory.claims))
      /\ \A c \in ToSet(memory.claims) : c # Nobody
  BY PublicationLists
<1>2. CASE same # Nobody
  <2>1. PICK wanted : wanted = {c \in ToSet(CurrentClaims) \ {e.source : e \in ToSet(entries)} : c.content = claim.content}
    OBVIOUS
  <2>2. same = First(Those(CurrentClaims, wanted))
    BY <2>1 DEF SameClaim
  <2>3. same \in ToSet(CurrentClaims) /\ same \in wanted
    BY <1>1, <1>2, <2>2, FirstFacts
  <2>4. same \in ToSet(memory.claims) /\ same.current /\ \A e \in ToSet(entries) : e.source # same
    BY <1>1, <2>1, <2>3
  <2>5. new = Carried(same)
    BY <1>2 DEF Reconciled
  <2>6. EntryOK(new, version) /\ new.source = same /\ new.id = same.id
    BY <2>4, <2>5, CarriedOK
  <2>7. \A d \in ToSet(entries) : d.id # new.id
    BY <2>4, <2>6, UnmatchedId
  <2> QED
    BY <1>2, <2>4, <2>6, <2>7, EntryAdded
<1>3. CASE same = Nobody
  <2>1. PICK namesake : namesake = Namesake(claim)
    OBVIOUS
  <2>2. new = Entry(id, claim.content, Nobody, namesake)
    BY <1>3, <2>1 DEF Reconciled
  <2>3. new.id = id /\ new.source = Nobody /\ new.previous = namesake /\ new.content = claim.content
    BY <2>2 DEF Entry
  <2>4. namesake # Nobody => namesake \in ToSet(CurrentClaims) \cup ToSet(Parents)
    <3>1. PICK both : both = CurrentClaims \o Parents
      OBVIOUS
    <3>2. both \in Seq(ToSet(memory.claims)) /\ ToSet(both) = ToSet(CurrentClaims) \cup ToSet(Parents)
      BY <1>1, <3>1, Joined
    <3>3. PICK wanted : wanted = {c \in ToSet(both) : c.id = claim.id}
      OBVIOUS
    <3>4. namesake = First(Those(both, wanted))
      BY <2>1, <3>1, <3>3 DEF Namesake
    <3>5. \A x \in ToSet(both) : x # Nobody
      BY <1>1, <3>2, ListFacts
    <3> QED
      BY <3>2, <3>4, <3>5, FirstFacts
  <2>5. ToSet(Parents) \subseteq ToSet(memory.claims)
    BY <1>1, ListFacts
  <2>6. EntryOK(new, version)
    BY <1>1, <1>3, <2>3, <2>4, <2>5 DEF EntryOK, Taken
  <2>7. \A d \in ToSet(entries) : d.id # new.id
    BY <1>3, <2>3 DEF Taken
  <2> QED
    BY <1>3, <2>3, <2>6, <2>7, EntryAdded
<1> QED
  BY <1>2, <1>3

-----------------------------------------------------------------------------
(* The entries of a whole answer.                                          *)

ReconcileStep(version, entries, claim) == Reconcile(entries, claim, version)
GivenR == INSTANCE Recursion WITH Value <- ReconcileStep

\* The entries of the first claims of an answer.
Reconciling(run, answer, n, version) ==
  /\ run[0] = <<>> /\ run[n] = Given(answer, version)
  /\ \A i \in 1..n : run[i] = Append(run[i - 1], Reconciled(run[i - 1], answer[i], version))

\* An answer is reconciled claim by claim.
LEMMA GivenRuns ==
  ASSUME NEW answer, NEW n \in Nat, DOMAIN answer = 1..n, NEW version
  PROVE  \E run : Reconciling(run, answer, n, version)
<1>1. Given(answer, version) = GivenR!Fold(version, <<>>, answer)
  BY DEF Given, GivenR!Fold, GivenR!Largest, ReconcileStep, FoldLeft, MapThenFoldSet, Max
<1>2. PICK run : /\ run[0] = <<>> /\ run[n] = Given(answer, version)
                 /\ \A i \in 1..n : run[i] = ReconcileStep(version, run[i - 1], answer[i])
  BY <1>1, GivenR!FoldRuns
<1>3. \A i \in 1..n : run[i] = Append(run[i - 1], Reconciled(run[i - 1], answer[i], version))
  BY <1>2, ReconcileAppends DEF ReconcileStep
<1> QED
  BY <1>2, <1>3 DEF Reconciling

\* An answer without claims has no entries.
LEMMA NoEntries ==
  ASSUME NEW version
  PROVE  EntriesOK(<<>>, version) /\ ToSet(<<>>) = {}
<1>1. ToSet(<<>>) = {}
  BY DEF ToSet
<1>2. IsList(<<>>) /\ OneEach(<<>>)
  BY DEF IsList, OneEach
<1> QED
  BY <1>1, <1>2 DEF EntriesOK

\* An ID made up for a new version is not known before it, and tells its
\* claim.
LEMMA DigestFacts ==
  ASSUME NEW n \in Nat, NEW a, NEW b, NEW id, id = <<a, n + 1, b>>
  PROVE  ~IdKnown(id, n) /\ IdKnown(id, n + 1) /\ \A c, d : id = <<c, n + 1, d>> => c = a /\ d = b
<1>1. Len(id) = 3 /\ id[1] = a /\ id[2] = n + 1 /\ id[3] = b
  OBVIOUS
<1>2. n + 1 \notin 1..n /\ n + 1 \in 1..(n + 1)
  OBVIOUS
<1>3. id # <<id[1]>>
  BY <1>1
<1>4. ~IdKnown(id, n) /\ IdKnown(id, n + 1)
  BY <1>1, <1>2, <1>3 DEF IdKnown
<1>5. ASSUME NEW c, NEW d, id = <<c, n + 1, d>> PROVE c = a /\ d = b
  BY <1>5
<1> QED
  BY <1>4, <1>5

\* An entry's ID was known before, or was made up for a claim of the answer.
Digest(claim, version) == <<claim.id[1], version, claim.content>>
Made(answer, e, i) ==
  IdKnown(e.id, memory.pointer) \/ \E j \in 1..i : e.id = Digest(answer[j], memory.pointer + 1)
GivenSoFar(answer, entries, i) ==
  EntriesOK(entries, memory.pointer + 1) /\ \A e \in ToSet(entries) : Made(answer, e, i)

\* What is assumed of an offer, by place.
LEMMA OfferFacts ==
  ASSUME HistoryAssumption, NEW offer \in Offers, NEW answer, answer = Stated(offer)
  PROVE  /\ Len(answer) \in Nat /\ DOMAIN answer = 1..Len(answer)
         /\ \A k \in 1..Len(answer) : answer[k].id = <<answer[k].id[1]>>
         /\ \A k \in 1..Len(answer) : NamedBy(answer[k].content, memory.intents)
         /\ \A j, k \in 1..Len(answer) :
              answer[j].id[1] = answer[k].id[1] /\ answer[j].content = answer[k].content => j = k
<1>1. PICK S : S = [id : Seq(Nat), says : Statement, about : (SUBSET Slot) \ {{}}]
  OBVIOUS
<1>2. offer \in Seq(S) /\ IsInjective(offer) /\ \A k \in DOMAIN offer : Len(offer[k].id) = 1
  BY <1>1 DEF HistoryAssumption
<1>3. PICK n \in Nat : n = Len(offer) /\ DOMAIN offer = 1..n /\ \A k \in 1..n : offer[k] \in S
  BY <1>2
<1>4. ASSUME NEW k \in 1..n
      PROVE  /\ offer[k].id \in Seq(Nat) /\ Len(offer[k].id) = 1 /\ offer[k].about \subseteq Slot
             /\ offer[k] = [id |-> offer[k].id, says |-> offer[k].says, about |-> offer[k].about]
  <2>1. PICK o : o = offer[k]
    OBVIOUS
  <2>2. o \in S /\ Len(o.id) = 1
    BY <1>2, <1>3, <2>1
  <2>3. /\ o.id \in Seq(Nat) /\ o.about \in (SUBSET Slot) \ {{}}
        /\ o = [id |-> o.id, says |-> o.says, about |-> o.about]
    BY <1>1, <2>2
  <2> QED
    BY <2>1, <2>2, <2>3
<1>5. /\ DOMAIN answer = 1..n
      /\ \A k \in 1..n : /\ answer[k].id = offer[k].id
                         /\ answer[k].content = [says |-> offer[k].says,
                                                 intents |-> [s \in offer[k].about |-> memory.intents[s]]]
  BY <1>3 DEF Stated
<1>6. ASSUME NEW k \in 1..n
      PROVE  /\ answer[k].content.says = offer[k].says /\ DOMAIN answer[k].content.intents = offer[k].about
             /\ NamedBy(answer[k].content, memory.intents)
  <2>1. PICK intents : intents = [s \in offer[k].about |-> memory.intents[s]]
    OBVIOUS
  <2>2. PICK content : content = [says |-> offer[k].says, intents |-> intents]
    OBVIOUS
  <2>3. content.says = offer[k].says /\ content.intents = intents /\ DOMAIN intents = offer[k].about
    BY <2>1, <2>2
  <2>4. answer[k].content = content
    BY <1>5, <2>1, <2>2
  <2> QED
    BY <1>4, <2>1, <2>2, <2>3, <2>4 DEF NamedBy
<1>7. Len(answer) = n
  BY <1>3 DEF Stated
<1>8. ASSUME NEW k \in 1..n PROVE answer[k].id = <<answer[k].id[1]>>
  <2>1. PICK id : id = answer[k].id
    OBVIOUS
  <2>2. id \in Seq(Nat) /\ Len(id) = 1
    BY <1>4, <1>5, <2>1
  <2> QED
    BY <2>1, <2>2
<1>9. ASSUME NEW j \in 1..n, NEW k \in 1..n,
             answer[j].id[1] = answer[k].id[1], answer[j].content = answer[k].content
      PROVE  j = k
  <2>1. offer[j].id = offer[k].id
    BY <1>5, <1>8, <1>9
  <2>2. offer[j].says = offer[k].says /\ offer[j].about = offer[k].about
    BY <1>6, <1>9
  <2>3. offer[j] = offer[k]
    BY <1>4, <2>1, <2>2
  <2> QED
    BY <1>2, <1>3, <2>3 DEF IsInjective
<1> QED
  BY <1>5, <1>6, <1>7, <1>8, <1>9

\* One more claim of an offer.
LEMMA OfferStep ==
  ASSUME HistoryAssumption, RecordsOK(memory), NEW offer \in Offers, NEW answer, answer = Stated(offer),
         NEW i \in Nat, NEW next \in 1..Len(answer), next = i + 1,
         NEW entries, GivenSoFar(answer, entries, i),
         NEW new, new = Reconciled(entries, answer[next], memory.pointer + 1)
  PROVE  GivenSoFar(answer, Append(entries, new), next)
<1>1. PICK version : version = memory.pointer + 1
  OBVIOUS
<1>2. PICK claim : claim = answer[next]
  OBVIOUS
<1>3. PICK same : same = SameClaim(entries, claim)
  OBVIOUS
<1>4. PICK id : id = Named(claim, Taken(entries), version)
  OBVIOUS
<1>5. memory.pointer \in Nat /\ \A c \in ToSet(memory.claims) : IdKnown(c.id, memory.pointer)
  BY PublicationLists DEF RecordsOK, Shaped
<1>6. /\ claim.id = <<claim.id[1]>>
      /\ \A j \in 1..i : claim.id[1] = answer[j].id[1] /\ claim.content = answer[j].content => j = next
  <2>1. \A j \in 1..i : j \in 1..Len(answer)
    BY OfferFacts
  <2> QED
    BY <1>2, <2>1, OfferFacts
<1>7. claim.id \notin Taken(entries) => id = claim.id /\ IdKnown(id, memory.pointer) /\ IdKnown(id, version)
  <2>1. claim.id \notin Taken(entries) => id = claim.id
    BY <1>4 DEF Named
  <2>2. IdKnown(claim.id, memory.pointer) /\ IdKnown(claim.id, version)
    BY <1>6, Zenon DEF IdKnown
  <2> QED
    BY <2>1, <2>2
<1>8. claim.id \in Taken(entries) => id = Digest(claim, version) /\ IdKnown(id, version) /\ id \notin Taken(entries)
  <2> SUFFICES ASSUME claim.id \in Taken(entries)
               PROVE  id = Digest(claim, version) /\ IdKnown(id, version) /\ id \notin Taken(entries)
    OBVIOUS
  <2>1. id = Digest(claim, version)
    BY <1>4, Zenon DEF Named, Digest
  <2>2. ~IdKnown(id, memory.pointer) /\ IdKnown(id, version)
        /\ \A c, d : id = <<c, version, d>> => c = claim.id[1] /\ d = claim.content
    <3>1. id = <<claim.id[1], memory.pointer + 1, claim.content>>
      BY <1>1, <2>1 DEF Digest
    <3> QED
      BY <1>1, <1>5, <3>1, DigestFacts, SMTT(30)
  <2>3. ASSUME NEW e \in ToSet(entries), e.id = id PROVE FALSE
    <3>1. PICK j \in 1..i : e.id = Digest(answer[j], version)
      BY <1>1, <2>2, <2>3 DEF GivenSoFar, Made
    <3>2. id = <<answer[j].id[1], version, answer[j].content>>
      BY <2>3, <3>1 DEF Digest
    <3>3. answer[j].id[1] = claim.id[1] /\ answer[j].content = claim.content
      BY <2>2, <3>2
    <3>4. j = next
      BY <1>6, <3>3
    <3> QED
      BY <3>4
  <2> QED
    BY <1>5, <2>1, <2>2, <2>3 DEF Taken
<1>9. same = Nobody => IdKnown(id, version) /\ id \notin Taken(entries)
  BY <1>7, <1>8
<1>10. /\ EntriesOK(Append(entries, new), version) /\ ToSet(Append(entries, new)) = ToSet(entries) \cup {new}
       /\ same # Nobody => new.id = same.id /\ same \in ToSet(memory.claims)
       /\ same = Nobody => new.id = id
  <2>1. NamedBy(claim.content, memory.intents)
    BY <1>2, OfferFacts
  <2> QED
    BY <1>1, <1>2, <1>3, <1>4, <1>9, <2>1, ReconcileKeeps DEF GivenSoFar
<1>11. IdKnown(new.id, memory.pointer) \/ new.id = Digest(claim, version)
  BY <1>5, <1>7, <1>8, <1>10
<1>12. \A e \in ToSet(entries) : Made(answer, e, next)
  <2>1. \A j : j \in 1..i => j \in 1..next
    OBVIOUS
  <2> QED
    BY <2>1 DEF GivenSoFar, Made
<1>13. Made(answer, new, next)
  <2>1. next \in 1..next
    OBVIOUS
  <2> QED
    BY <1>1, <1>2, <1>11, <2>1 DEF Made
<1> QED
  BY <1>1, <1>10, <1>12, <1>13 DEF GivenSoFar

\* What a provider returns becomes entries with IDs of their own.
LEMMA GivenOffer ==
  ASSUME HistoryAssumption, RecordsOK(memory), NEW offer \in Offers, NEW answer, answer = Stated(offer)
  PROVE  EntriesOK(Given(answer, memory.pointer + 1), memory.pointer + 1)
<1>1. PICK n \in Nat : n = Len(answer) /\ DOMAIN answer = 1..n
  BY OfferFacts
<1>2. PICK version : version = memory.pointer + 1
  OBVIOUS
<1>3. PICK run : Reconciling(run, answer, n, version)
  BY <1>1, GivenRuns
<1> DEFINE G == {i \in Nat : i <= n => GivenSoFar(answer, run[i], i)}
<1>4. 0 \in G
  BY <1>2, <1>3, NoEntries DEF GivenSoFar, Reconciling
<1>5. ASSUME NEW i \in Nat, i \in G PROVE i + 1 \in G
  <2> SUFFICES ASSUME i + 1 <= n PROVE GivenSoFar(answer, run[i + 1], i + 1)
    OBVIOUS
  <2>1. PICK next \in 1..n : next = i + 1 /\ next - 1 = i
    OBVIOUS
  <2>2. PICK new : new = Reconciled(run[i], answer[next], version)
    OBVIOUS
  <2>3. run[next] = Append(run[i], new)
    BY <1>3, <2>1, <2>2 DEF Reconciling
  <2>4. GivenSoFar(answer, run[i], i)
    BY <1>5
  <2>5. PICK entries : entries = run[i]
    OBVIOUS
  <2>6. next \in 1..Len(answer) /\ GivenSoFar(answer, entries, i)
    BY <1>1, <2>1, <2>4, <2>5
  <2>7. new = Reconciled(entries, answer[next], memory.pointer + 1)
    BY <1>2, <2>2, <2>5
  <2>8. GivenSoFar(answer, Append(entries, new), next)
    BY <2>1, <2>6, <2>7, OfferStep
  <2> QED
    BY <2>1, <2>3, <2>5, <2>8
<1>6. Nat \subseteq G
  <2> HIDE DEF G
  <2> QED
    BY <1>4, <1>5, GivenR!NumberInduction
<1>7. GivenSoFar(answer, run[n], n)
  BY <1>6
<1> QED
  BY <1>2, <1>3, <1>7 DEF GivenSoFar, Reconciling

\* The current claims, as an answer.
CurrentAnswer == [k \in DOMAIN CurrentClaims |-> [id |-> CurrentClaims[k].id, content |-> CurrentClaims[k].content]]
Matched(entries) == {e.source : e \in ToSet(entries)}
CurrentSoFar(entries, i) ==
  EntriesOK(entries, memory.pointer + 1) /\ Matched(entries) = {CurrentClaims[k] : k \in 1..i}

\* One more current claim: it is the first that no entry is yet.
LEMMA CurrentStep ==
  ASSUME RecordsOK(memory), NEW i \in Nat, NEW next \in 1..Len(CurrentClaims), next = i + 1,
         NEW entries, CurrentSoFar(entries, i),
         NEW new, new = Reconciled(entries, CurrentAnswer[next], memory.pointer + 1)
  PROVE  CurrentSoFar(Append(entries, new), next)
<1>1. PICK version : version = memory.pointer + 1
  OBVIOUS
<1>2. PICK claim : claim = CurrentAnswer[next]
  OBVIOUS
<1>3. PICK same : same = SameClaim(entries, claim)
  OBVIOUS
<1>4. PICK id : id = Named(claim, Taken(entries), version)
  OBVIOUS
<1>5. PICK s : s = CurrentClaims
  OBVIOUS
<1>6. /\ s \in Seq(ToSet(memory.claims)) /\ Unrepeated(s) /\ DOMAIN s = 1..Len(s)
      /\ \A x \in ToSet(s) : x # Nobody
  <2>1. ToSet(s) \subseteq ToSet(memory.claims) /\ DOMAIN s = 1..Len(s)
    BY <1>5, PublicationLists, ListFacts
  <2> QED
    BY <1>5, <2>1, PublicationLists
<1>7. claim.content = s[next].content
  <2>1. next \in DOMAIN CurrentClaims
    BY <1>5, <1>6
  <2> QED
    BY <1>2, <1>5, <2>1 DEF CurrentAnswer
<1>8. PICK wanted : wanted = {c \in ToSet(s) \ Matched(entries) : c.content = claim.content}
  OBVIOUS
<1>9. same = First(Those(s, wanted))
  BY <1>3, <1>5, <1>8 DEF SameClaim, Matched
<1>10. \A k \in 1..Len(s) : s[k] \in Matched(entries) <=> k \in 1..i
  <2>1. Matched(entries) = {s[k] : k \in 1..i}
    BY <1>5 DEF CurrentSoFar
  <2>2. 1..i \subseteq 1..Len(s)
    BY <1>5, <1>6
  <2> QED
    BY <1>6, <2>1, <2>2 DEF Unrepeated
<1>11. s[next] \in wanted /\ s[next] \in ToSet(s)
  <2>1. next \in 1..Len(s) /\ next \notin 1..i
    BY <1>5
  <2>2. s[next] \in ToSet(s)
    BY <1>6, <2>1, ListFacts
  <2> QED
    BY <1>7, <1>8, <1>10, <2>1, <2>2
<1>12. same # Nobody /\ same = s[next]
  <2>1. same # Nobody
    BY <1>6, <1>9, <1>11, FirstFacts
  <2>2. PICK h \in 1..Len(s) : same = s[h] /\ s[h] \in wanted /\ \A j \in 1..(h - 1) : s[j] \notin wanted
    BY <1>6, <1>9, <2>1, FirstFacts
  <2>3. h \notin 1..i
    BY <1>8, <1>10, <2>2
  <2>4. next \notin 1..(h - 1)
    BY <1>11, <2>2
  <2>5. Len(s) \in Nat
    BY <1>6
  <2>6. h = next
    BY <2>3, <2>4, <2>5
  <2> QED
    BY <2>1, <2>2, <2>6
<1>15. NamedBy(claim.content, memory.intents)
  <2>1. s[next] \in ToSet(memory.claims) /\ s[next].current
    BY <1>5, <1>11, PublicationLists
  <2> QED
    BY <1>7, <2>1 DEF RecordsOK, CurrentNamed
<1>13. /\ EntriesOK(Append(entries, new), version) /\ ToSet(Append(entries, new)) = ToSet(entries) \cup {new}
       /\ new.source = same
  <2>1. EntriesOK(entries, version) /\ new = Reconciled(entries, claim, version)
    BY <1>1, <1>2 DEF CurrentSoFar
  <2>2. same # Nobody /\ (same = Nobody => IdKnown(id, version) /\ id \notin Taken(entries))
    BY <1>12
  <2> QED
    BY <1>1, <1>3, <1>4, <1>15, <2>1, <2>2, ReconcileKeeps
<1>14. Matched(Append(entries, new)) = {s[k] : k \in 1..next}
  <2>1. Matched(Append(entries, new)) = Matched(entries) \cup {s[next]}
    BY <1>12, <1>13 DEF Matched
  <2>2. Matched(entries) = {s[k] : k \in 1..i}
    BY <1>5 DEF CurrentSoFar
  <2>3. 1..next = (1..i) \cup {next}
    OBVIOUS
  <2> QED
    BY <2>1, <2>2, <2>3
<1> QED
  BY <1>1, <1>5, <1>13, <1>14 DEF CurrentSoFar

\* The current claims become entries as they are.
LEMMA GivenCurrent ==
  ASSUME RecordsOK(memory)
  PROVE  EntriesOK(Given(CurrentAnswer, memory.pointer + 1), memory.pointer + 1)
<1>1. PICK n \in Nat : n = Len(CurrentClaims) /\ DOMAIN CurrentClaims = 1..n
  BY PublicationLists, ListFacts
<1>2. PICK version : version = memory.pointer + 1
  OBVIOUS
<1>3. PICK answer : answer = CurrentAnswer
  OBVIOUS
<1>4. DOMAIN answer = 1..n
  BY <1>1, <1>3 DEF CurrentAnswer
<1>5. PICK run : Reconciling(run, answer, n, version)
  BY <1>4, GivenRuns
<1> DEFINE G == {i \in Nat : i <= n => CurrentSoFar(run[i], i)}
<1>6. 0 \in G
  <2>1. Matched(<<>>) = {} /\ 1..0 = {}
    BY NoEntries DEF Matched
  <2> QED
    BY <1>2, <1>5, <2>1, NoEntries DEF CurrentSoFar, Reconciling
<1>7. ASSUME NEW i \in Nat, i \in G PROVE i + 1 \in G
  <2> SUFFICES ASSUME i + 1 <= n PROVE CurrentSoFar(run[i + 1], i + 1)
    OBVIOUS
  <2>1. PICK next \in 1..n : next = i + 1 /\ next - 1 = i
    OBVIOUS
  <2>2. PICK entries : entries = run[i]
    OBVIOUS
  <2>3. PICK new : new = Reconciled(entries, answer[next], version)
    OBVIOUS
  <2>4. run[next] = Append(entries, new)
    BY <1>5, <2>1, <2>2, <2>3 DEF Reconciling
  <2>5. CurrentSoFar(entries, i) /\ next \in 1..Len(CurrentClaims)
    BY <1>1, <1>7, <2>1, <2>2
  <2>6. CurrentSoFar(Append(entries, new), next)
    BY <1>2, <1>3, <2>1, <2>3, <2>5, CurrentStep
  <2> QED
    BY <2>1, <2>4, <2>6
<1>8. Nat \subseteq G
  <2> HIDE DEF G
  <2> QED
    BY <1>6, <1>7, GivenR!NumberInduction
<1>9. CurrentSoFar(run[n], n)
  BY <1>8
<1> QED
  BY <1>2, <1>3, <1>5, <1>9 DEF CurrentSoFar, Reconciling

\* The entries of an answer, with the current claims it does not return.
AnswerOK(entries, version) ==
  /\ EntriesOK(entries, version)
  /\ \A c \in ToSet(memory.claims) : c.current => \E e \in ToSet(entries) : e.id = c.id

\* What is left is carried, each once.
LEMMA LeftOnes ==
  ASSUME RecordsOK(memory), NEW wanted, NEW left, left = Those(CurrentClaims, wanted),
         NEW more, more = [k \in DOMAIN left |-> Carried(left[k])]
  PROVE  /\ ToSet(left) = ToSet(CurrentClaims) \cap wanted
         /\ IsList(more) /\ OneEach(more) /\ \A e \in ToSet(more) : EntryOK(e, memory.pointer + 1)
         /\ ToSet(more) = {Carried(c) : c \in ToSet(left)}
         /\ \A c \in ToSet(left) : c \in ToSet(memory.claims) /\ c.current
<1>1. PICK S : S = ToSet(memory.claims)
  OBVIOUS
<1>2. CurrentClaims \in Seq(S) /\ Unrepeated(CurrentClaims) /\ ToSet(CurrentClaims) = {c \in S : c.current}
  BY <1>1, PublicationLists
<1>3. left \in Seq(S) /\ ToSet(left) = ToSet(CurrentClaims) \cap wanted /\ Unrepeated(left)
  BY <1>2, ThoseItems, ThoseUnrepeated
<1>4. PICK n \in Nat : n = Len(left) /\ DOMAIN left = 1..n
  BY <1>3
<1>5. \A k \in 1..n : left[k] \in ToSet(left) /\ left[k] \in S /\ left[k].current
  <2>1. \A k \in 1..n : left[k] \in ToSet(left)
    BY <1>3, <1>4, ListFacts
  <2> QED
    BY <1>2, <1>3, <2>1
<1>6. DOMAIN more = 1..n /\ \A k \in 1..n : more[k] = Carried(left[k])
  BY <1>4
<1>7. ToSet(more) = {Carried(c) : c \in ToSet(left)}
  <2>1. ToSet(more) = {more[k] : k \in 1..n} /\ ToSet(left) = {left[k] : k \in 1..n}
    BY <1>4, <1>6 DEF ToSet
  <2> QED
    BY <1>6, <2>1
<1>8. IsList(more)
  <2>1. \A k \in 1..n : more[k] \in ToSet(more)
    BY <1>6 DEF ToSet
  <2>2. more = [k \in 1..n |-> more[k]]
    BY <1>4
  <2>3. more \in [1..n -> ToSet(more)]
    BY <2>1, <2>2
  <2> QED
    BY <2>3 DEF IsList
<1>9. \A k \in 1..n : EntryOK(more[k], memory.pointer + 1) /\ more[k].source = left[k] /\ more[k].id = left[k].id
  <2> SUFFICES ASSUME NEW k \in 1..n
               PROVE  EntryOK(more[k], memory.pointer + 1) /\ more[k].source = left[k] /\ more[k].id = left[k].id
    OBVIOUS
  <2>1. PICK c, e : c = left[k] /\ e = more[k]
    OBVIOUS
  <2>2. c \in ToSet(memory.claims) /\ c.current /\ e = Carried(c)
    BY <1>1, <1>5, <1>6, <2>1
  <2> QED
    BY <2>1, <2>2, CarriedOK
<1>10. \A e \in ToSet(more) : EntryOK(e, memory.pointer + 1)
  BY <1>6, <1>9 DEF ToSet
<1>11. OneEach(more)
  <2> SUFFICES ASSUME NEW j \in 1..n, NEW k \in 1..n, more[j].id = more[k].id PROVE j = k
    BY <1>6 DEF OneEach
  <2>1. left[j].id = left[k].id /\ left[j] \in S /\ left[k] \in S /\ left[j].current /\ left[k].current
    BY <1>5, <1>9
  <2>2. left[j] = left[k]
    BY <1>1, <2>1 DEF RecordsOK, CurrentStands, SameIds
  <2> QED
    BY <1>3, <1>4, <2>2 DEF Unrepeated
<1> QED
  BY <1>1, <1>3, <1>2, <1>7, <1>8, <1>10, <1>11

\* One list of entries after another, when no ID is in both.
LEMMA EntriesJoined ==
  ASSUME NEW a, IsList(a), OneEach(a), NEW b, IsList(b), OneEach(b),
         \A x \in ToSet(a), y \in ToSet(b) : x.id # y.id
  PROVE  IsList(a \o b) /\ OneEach(a \o b) /\ ToSet(a \o b) = ToSet(a) \cup ToSet(b)
<1>1. PICK S : S = ToSet(a) \cup ToSet(b)
  OBVIOUS
<1>2. a \in Seq(S) /\ b \in Seq(S)
  BY <1>1 DEF IsList
<1>3. PICK ab : ab = a \o b
  OBVIOUS
<1>4. ab \in Seq(S) /\ ToSet(ab) = ToSet(a) \cup ToSet(b) /\ IsList(ab)
  <2>1. ab \in Seq(S) /\ ToSet(ab) = ToSet(a) \cup ToSet(b)
    BY <1>2, <1>3, Joined
  <2> QED
    BY <2>1, ListFacts
<1>5. PICK la \in Nat, lb \in Nat : la = Len(a) /\ lb = Len(b)
  BY <1>2
<1>6. /\ DOMAIN ab = 1..(la + lb) /\ DOMAIN a = 1..la /\ DOMAIN b = 1..lb
      /\ \A k \in 1..la : ab[k] = a[k] /\ a[k] \in ToSet(a)
      /\ \A k \in (la + 1)..(la + lb) : ab[k] = b[k - la] /\ b[k - la] \in ToSet(b)
  <2>1. /\ DOMAIN ab = 1..(la + lb) /\ DOMAIN a = 1..la /\ DOMAIN b = 1..lb
        /\ \A k \in 1..la : ab[k] = a[k]
        /\ \A k \in (la + 1)..(la + lb) : ab[k] = b[k - la]
    BY <1>2, <1>3, <1>5
  <2>2. (\A k \in 1..la : a[k] \in ToSet(a)) /\ \A k \in 1..lb : b[k] \in ToSet(b)
    BY <2>1 DEF ToSet
  <2>3. \A k \in (la + 1)..(la + lb) : k - la \in 1..lb
    OBVIOUS
  <2> QED
    BY <2>1, <2>2, <2>3
<1>7. ASSUME NEW j \in 1..(la + lb), NEW k \in 1..(la + lb), ab[j].id = ab[k].id PROVE j = k
  <2>1. CASE j \in 1..la /\ k \in 1..la
    BY <1>6, <1>7, <2>1 DEF OneEach
  <2>2. CASE j \in (la + 1)..(la + lb) /\ k \in (la + 1)..(la + lb)
    <3>1. j - la \in 1..lb /\ k - la \in 1..lb
      BY <2>2
    <3>2. b[j - la].id = b[k - la].id
      BY <1>6, <1>7, <2>2
    <3>3. j - la = k - la
      BY <1>6, <3>1, <3>2 DEF OneEach
    <3> QED
      BY <3>3
  <2>3. CASE j \in 1..la /\ k \in (la + 1)..(la + lb)
    BY <1>6, <1>7, <2>3
  <2>4. CASE j \in (la + 1)..(la + lb) /\ k \in 1..la
    BY <1>6, <1>7, <2>4
  <2> QED
    BY <2>1, <2>2, <2>3, <2>4
<1> QED
  BY <1>3, <1>4, <1>6, <1>7 DEF OneEach

\* Every current claim is in the answer, and every entry has its own ID.
LEMMA AnswerEntries ==
  ASSUME RecordsOK(memory), NEW answer, NEW version, version = memory.pointer + 1,
         EntriesOK(Given(answer, version), version)
  PROVE  AnswerOK(Entries(answer, version), version)
<1>1. PICK given : given = Given(answer, version)
  OBVIOUS
<1>2. PICK wanted : wanted = ToSet(CurrentClaims) \ {e.source : e \in ToSet(given)}
  OBVIOUS
<1>3. PICK left : left = Those(CurrentClaims, wanted)
  OBVIOUS
<1>4. PICK more : more = [k \in DOMAIN left |-> Carried(left[k])]
  OBVIOUS
<1>5. Entries(answer, version) = given \o more
  BY <1>1, <1>2, <1>3, <1>4, Zenon DEF Entries, CurrentClaims
<1>6. EntriesOK(given, version)
  BY <1>1
<1>7. /\ ToSet(left) = ToSet(CurrentClaims) \cap wanted
      /\ IsList(more) /\ OneEach(more) /\ \A e \in ToSet(more) : EntryOK(e, version)
      /\ ToSet(more) = {Carried(c) : c \in ToSet(left)}
      /\ \A c \in ToSet(left) : c \in ToSet(memory.claims) /\ c.current
  BY <1>3, <1>4, LeftOnes
<1>8. \A c \in ToSet(left) : Carried(c).id = c.id /\ \A e \in ToSet(given) : e.source # c
  <2> SUFFICES ASSUME NEW c \in ToSet(left) PROVE Carried(c).id = c.id /\ \A e \in ToSet(given) : e.source # c
    OBVIOUS
  <2>1. Carried(c).id = c.id
    BY <1>7, CarriedOK
  <2> QED
    BY <1>2, <1>7, <2>1
<1>9. \A x \in ToSet(given), y \in ToSet(more) : x.id # y.id
  <2> SUFFICES ASSUME NEW x \in ToSet(given), NEW c \in ToSet(left) PROVE x.id # c.id
    BY <1>7, <1>8
  <2> QED
    BY <1>6, <1>7, <1>8, UnmatchedId
<1>10. IsList(given \o more) /\ OneEach(given \o more) /\ ToSet(given \o more) = ToSet(given) \cup ToSet(more)
  BY <1>6, <1>7, <1>9, EntriesJoined DEF EntriesOK
<1>11. EntriesOK(given \o more, version)
  BY <1>6, <1>7, <1>10 DEF EntriesOK
<1>12. ASSUME NEW c \in ToSet(memory.claims), c.current
       PROVE  \E e \in ToSet(given \o more) : e.id = c.id
  <2>1. c \in ToSet(CurrentClaims) /\ c # Nobody
    BY <1>12, PublicationLists
  <2>2. CASE c \in ToSet(left)
    <3>1. Carried(c) \in ToSet(more) /\ Carried(c).id = c.id
      BY <1>7, <1>8, <2>2
    <3> QED
      BY <1>10, <3>1
  <2>3. CASE c \notin ToSet(left)
    <3>1. PICK e \in ToSet(given) : e.source = c
      BY <1>2, <1>7, <2>1, <2>3
    <3>2. EntryOK(e, version)
      BY <1>6 DEF EntriesOK
    <3>3. e.id = c.id
      BY <2>1, <3>1, <3>2 DEF EntryOK
    <3> QED
      BY <1>10, <3>1, <3>3
  <2> QED
    BY <2>2, <2>3
<1> QED
  BY <1>5, <1>11, <1>12 DEF AnswerOK

-----------------------------------------------------------------------------
(* Publishing.                                                             *)

\* The support of a statement is current evidence.
LEMMA SupportStands ==
  ASSUME RecordsOK(memory), NEW says
  PROVE  Support(says) \subseteq InForce(memory.evidence) /\ IsFiniteSet(Support(says))
<1>1. PICK current : current = CurrentOf(memory.evidence)
  OBVIOUS
<1>2. IsList(memory.evidence)
  BY DEF RecordsOK, Shaped
<1>3. Ids(current) = InForce(memory.evidence) /\ current \in Seq(ToSet(memory.evidence))
  BY <1>1, <1>2, CurrentItems
<1>4. IsFiniteSet(Ids(current))
  BY <1>3, ListFacts
<1>5. Support(says) \subseteq Ids(current)
  BY <1>1 DEF Support, Ids
<1> QED
  BY <1>3, <1>4, <1>5, FS_Subset

\* A list made of another, item by item.
LEMMA MadeOf ==
  ASSUME NEW items, IsList(items), NEW f, f \in [ToSet(items) -> {f[x] : x \in ToSet(items)}],
         NEW made, made = [k \in DOMAIN items |-> f[items[k]]]
  PROVE  IsList(made) /\ DOMAIN made = DOMAIN items /\ ToSet(made) = {f[x] : x \in ToSet(items)}
         /\ \A k \in DOMAIN items : made[k] = f[items[k]] /\ items[k] \in ToSet(items)
<1>1. PICK n \in Nat : n = Len(items) /\ DOMAIN items = 1..n
  BY DEF IsList
<1>2. DOMAIN made = 1..n /\ \A k \in 1..n : made[k] = f[items[k]] /\ items[k] \in ToSet(items)
  BY <1>1 DEF ToSet
<1>3. ToSet(made) = {f[x] : x \in ToSet(items)}
  <2>1. ToSet(made) = {made[k] : k \in 1..n} /\ ToSet(items) = {items[k] : k \in 1..n}
    BY <1>1, <1>2 DEF ToSet
  <2>2. ToSet(made) \subseteq {f[x] : x \in ToSet(items)}
    BY <1>2, <2>1
  <2>3. ASSUME NEW x \in ToSet(items) PROVE f[x] \in ToSet(made)
    <3>1. PICK k \in 1..n : x = items[k]
      BY <2>1
    <3> QED
      BY <1>2, <2>1, <3>1
  <2> QED
    BY <2>2, <2>3
<1>4. IsList(made)
  <2>1. \A k \in 1..n : made[k] \in ToSet(made)
    BY <1>2 DEF ToSet
  <2>2. made = [k \in 1..n |-> made[k]]
    BY <1>1, <1>2
  <2>3. made \in [1..n -> ToSet(made)]
    BY <2>1, <2>2
  <2> QED
    BY <2>3, SMTT(30) DEF IsList
<1> QED
  BY <1>1, <1>2, <1>3, <1>4

\* The records of the answer's claims.
NewClaims(entries, version) == [k \in DOMAIN entries |-> ClaimRecord(entries[k], version)]
RecordOf(c, e, version) ==
  /\ DOMAIN c = ClaimFields /\ c.at = <<e.id, "v", version>> /\ c.id = e.id /\ c.content = e.content
  /\ c.support \subseteq InForce(memory.evidence) /\ IsFiniteSet(c.support) /\ c.current = TRUE

\* One record for each entry, and no two with one ID.
LEMMA NewClaimFacts ==
  ASSUME RecordsOK(memory), NEW version, NEW entries, EntriesOK(entries, version),
         NEW new, new = NewClaims(entries, version)
  PROVE  /\ IsList(new) /\ Unrepeated(new)
         /\ \A c \in ToSet(new) : \E e \in ToSet(entries) : RecordOf(c, e, version)
         /\ \A e \in ToSet(entries) : \E c \in ToSet(new) : RecordOf(c, e, version)
<1>1. PICK f : f = [e \in ToSet(entries) |-> ClaimRecord(e, version)]
  OBVIOUS
<1>2. \A e \in ToSet(entries) : RecordOf(f[e], e, version)
  <2> SUFFICES ASSUME NEW e \in ToSet(entries) PROVE RecordOf(f[e], e, version)
    OBVIOUS
  <2>1. f[e] = [at |-> <<e.id, "v", version>>, id |-> e.id, content |-> e.content,
                support |-> Support(e.content.says), current |-> TRUE]
    BY <1>1 DEF ClaimRecord
  <2>2. Support(e.content.says) \subseteq InForce(memory.evidence) /\ IsFiniteSet(Support(e.content.says))
    BY SupportStands
  <2> QED
    BY <2>1, <2>2 DEF RecordOf, ClaimFields
<1>3. f \in [ToSet(entries) -> {f[x] : x \in ToSet(entries)}]
  BY <1>1
<1>4. \A k \in DOMAIN entries : entries[k] \in ToSet(entries)
  BY DEF ToSet
<1>5. new = [k \in DOMAIN entries |-> f[entries[k]]]
  BY <1>1, <1>4 DEF NewClaims
<1>6. /\ IsList(new) /\ DOMAIN new = DOMAIN entries /\ ToSet(new) = {f[x] : x \in ToSet(entries)}
      /\ \A k \in DOMAIN entries : new[k] = f[entries[k]]
  BY <1>3, <1>5, MadeOf DEF EntriesOK
<1>7. Unrepeated(new)
  <2> SUFFICES ASSUME NEW j \in DOMAIN entries, NEW k \in DOMAIN entries, new[j].at = new[k].at
               PROVE  j = k
    BY <1>6 DEF Unrepeated
  <2>1. <<entries[j].id, "v", version>> = <<entries[k].id, "v", version>>
    BY <1>2, <1>4, <1>6 DEF RecordOf
  <2>2. entries[j].id = entries[k].id
    BY <2>1
  <2> QED
    BY <2>2 DEF EntriesOK, OneEach
<1> QED
  BY <1>2, <1>6, <1>7

\* The version of an answer lists its entries.
Listing(d, e, version) ==
  d.at = <<e.id, "v", version>> /\ d.id = e.id /\ d.content = e.content

\* One listing for each entry, in its place.
LEMMA VersionFacts ==
  ASSUME NEW version, NEW entries, EntriesOK(entries, version), NEW v, v = Version(version, entries)
  PROVE  /\ v.number = version /\ v.parent = memory.pointer /\ v.whole = ~memory.strained
         /\ v.changes = Changes(entries) /\ v.held = {c.id : c \in ToSet(CurrentClaims)}
         /\ IsList(v.claims) /\ DOMAIN v.claims = DOMAIN entries
         /\ \A k \in DOMAIN entries : Listing(v.claims[k], entries[k], version)
         /\ \A d \in ToSet(v.claims) : \E e \in ToSet(entries) : Listing(d, e, version)
         /\ \A e \in ToSet(entries) : \E d \in ToSet(v.claims) : Listing(d, e, version)
<1>1. PICK f : f = [e \in ToSet(entries) |-> [at |-> <<e.id, "v", version>>, id |-> e.id, content |-> e.content]]
  OBVIOUS
<1>2. \A e \in ToSet(entries) : Listing(f[e], e, version)
  BY <1>1 DEF Listing
<1>3. f \in [ToSet(entries) -> {f[x] : x \in ToSet(entries)}]
  BY <1>1
<1>4. \A k \in DOMAIN entries : entries[k] \in ToSet(entries)
  BY DEF ToSet
<1>5. PICK listed : listed = [k \in DOMAIN entries |-> f[entries[k]]]
  OBVIOUS
<1>6. listed = [k \in DOMAIN entries |->
                  [at |-> <<entries[k].id, "v", version>>, id |-> entries[k].id, content |-> entries[k].content]]
  BY <1>1, <1>4, <1>5
<1>7. v = [number |-> version, parent |-> memory.pointer, claims |-> listed, changes |-> Changes(entries),
           whole |-> ~memory.strained, held |-> {c.id : c \in ToSet(CurrentClaims)}]
  BY <1>6, Zenon DEF Version, CurrentClaims
<1>8. /\ v.number = version /\ v.parent = memory.pointer /\ v.whole = ~memory.strained
      /\ v.changes = Changes(entries) /\ v.held = {c.id : c \in ToSet(CurrentClaims)} /\ v.claims = listed
  <2>1. PICK changes, whole, held : /\ changes = Changes(entries) /\ whole = ~memory.strained
                                    /\ held = {c.id : c \in ToSet(CurrentClaims)}
    OBVIOUS
  <2>2. v = [number |-> version, parent |-> memory.pointer, claims |-> listed, changes |-> changes,
             whole |-> whole, held |-> held]
    BY <1>7, <2>1, Zenon
  <2>3. /\ v.number = version /\ v.parent = memory.pointer /\ v.whole = whole
        /\ v.changes = changes /\ v.held = held /\ v.claims = listed
    BY <2>2
  <2> QED
    BY <2>1, <2>3, Zenon
<1>9. /\ IsList(listed) /\ DOMAIN listed = DOMAIN entries /\ ToSet(listed) = {f[x] : x \in ToSet(entries)}
      /\ \A k \in DOMAIN entries : listed[k] = f[entries[k]]
  BY <1>3, <1>5, MadeOf DEF EntriesOK
<1> QED
  BY <1>2, <1>4, <1>8, <1>9

\* Nothing in use having been crowded out, the claims of the publication are
\* the records a new version looks at.
LEMMA ParentClaims ==
  ASSUME RecordsOK(memory), ~memory.strained, NEW p \in ToSet(memory.versions), p.number = memory.pointer
  PROVE  /\ \A x \in ToSet(Parents) : /\ x \in ToSet(memory.claims)
                                      /\ \E d \in ToSet(p.claims) : d.id = x.id /\ d.content = x.content
         /\ \A d \in ToSet(p.claims) : \E x \in ToSet(Parents) : d.id = x.id /\ d.content = x.content
<1>1. PICK claims : claims = memory.claims
  OBVIOUS
<1>2. PICK published : published = Published(memory)
  OBVIOUS
<1>3. published = {d.at : d \in ToSet(p.claims)}
  <2>1. {v \in ToSet(memory.versions) : v.number = memory.pointer} = {p}
    BY DEF RecordsOK, VersionsKept
  <2>2. published = Ids(p.claims)
    BY <1>2, <2>1 DEF Published
  <2>3. IsList(p.claims)
    BY DEF RecordsOK, VersionsKept, VersionOK
  <2> QED
    BY <2>2, <2>3, ListFacts DEF IsList
<1>4. /\ IsList(claims) /\ published \subseteq Ids(claims) /\ Ids(claims) = {c.at : c \in ToSet(claims)}
  <2>1. IsList(claims) /\ published \subseteq Ids(claims)
    BY <1>1, <1>2 DEF RecordsOK, Shaped, PublishedKept
  <2> QED
    BY <2>1, ListFacts DEF IsList
<1>5. PICK wanted : wanted = {c \in ToSet(claims) : c.at \in published}
  OBVIOUS
<1>6. PICK kept : kept = Those(claims, wanted)
  OBVIOUS
<1>7. ToSet(kept) = wanted
  <2>1. ToSet(kept) = ToSet(claims) \cap wanted
    BY <1>4, <1>6, ThoseItems DEF IsList
  <2> QED
    BY <1>5, <2>1
<1>8. ASSUME NEW x \in ToSet(claims), NEW d \in ToSet(p.claims), x.at = d.at
      PROVE  d.id = x.id /\ d.content = x.content
  <2>1. d.at = <<d.id, "v", p.number>> /\ Agree(x, d)
    BY <1>1 DEF RecordsOK, VersionsKept, VersionOK
  <2>2. x.at[1] = x.id
    BY <1>1 DEF RecordsOK, ClaimsKept, ClaimOK
  <2> QED
    BY <1>8, <2>1, <2>2 DEF Agree
<1>9. Parents = IF kept = <<>> THEN CurrentClaims ELSE kept
  <2>1. kept = Those(memory.claims, {c \in ToSet(memory.claims) : c.at \in Published(memory)})
    BY <1>1, <1>2, <1>5, <1>6
  <2> QED
    BY <2>1 DEF Parents, CurrentClaims
<1>10. CASE kept = <<>>
  <2>1. wanted = {}
    BY <1>7, <1>10 DEF ToSet
  <2>2. ToSet(p.claims) = {}
    BY <1>3, <1>4, <1>5, <2>1
  <2>3. \A c \in ToSet(claims) : ~c.current
    <3> SUFFICES ASSUME NEW c \in ToSet(claims), c.current PROVE FALSE
      OBVIOUS
    <3>1. PICK v \in ToSet(memory.versions) : v.number = memory.pointer /\ Lists(v, c)
      BY <1>1 DEF RecordsOK, CurrentPublished
    <3>2. v = p
      BY <3>1 DEF RecordsOK, VersionsKept
    <3> QED
      BY <2>2, <3>1, <3>2 DEF Lists
  <2>4. ToSet(CurrentClaims) = {}
    BY <1>1, <2>3, PublicationLists
  <2> QED
    BY <1>9, <1>10, <2>2, <2>4
<1>11. CASE kept # <<>>
  <2>1. ToSet(Parents) = wanted
    BY <1>7, <1>9, <1>11
  <2>2. \A d \in ToSet(p.claims) : \E x \in wanted : x.at = d.at
    BY <1>3, <1>4, <1>5
  <2>3. \A x \in wanted : x \in ToSet(claims) /\ \E d \in ToSet(p.claims) : x.at = d.at
    BY <1>3, <1>5
  <2> QED
    BY <1>1, <1>8, <2>1, <2>2, <2>3
<1> QED
  BY <1>10, <1>11

\* The change an entry comes from.
ChangeOf(e) ==
  IF e.previous = Nobody THEN Change("added", <<>>, e.id)
  ELSE Change(IF e.previous.content = e.content THEN "preserved" ELSE "modified", e.previous.id, e.id)

\* Every change comes from an entry or is a removal, and every claim of the
\* parent that no entry follows is removed.
LEMMA ChangesAre ==
  ASSUME NEW entries
  PROVE  /\ \A e \in ToSet(entries) : ChangeOf(e) \in Changes(entries)
         /\ \A x \in Changes(entries) : \/ \E e \in ToSet(entries) : x = ChangeOf(e)
                                        \/ x.to = <<>>
         /\ \A p \in ToSet(Parents) :
              (\A e \in ToSet(entries) : e.previous # Nobody => e.previous.at # p.at) =>
                \E x \in Changes(entries) : x.from = p.id
<1> DEFINE follows == {e \in ToSet(entries) : e.previous # Nobody}
           goneOnes == {p \in ToSet(Parents) : p.at \notin {e.previous.at : e \in follows}}
<1>1. Changes(entries) =
        {Change(IF e.previous.content = e.content THEN "preserved" ELSE "modified", e.previous.id, e.id) : e \in follows}
          \cup {Change("added", <<>>, e.id) : e \in ToSet(entries) \ follows}
          \cup {Change("removed", p.id, <<>>) : p \in goneOnes}
  BY Zenon DEF Changes
<1>2. \A e \in follows :
        ChangeOf(e) = Change(IF e.previous.content = e.content THEN "preserved" ELSE "modified", e.previous.id, e.id)
  BY Zenon DEF ChangeOf
<1>3. \A e \in ToSet(entries) \ follows : ChangeOf(e) = Change("added", <<>>, e.id)
  BY DEF ChangeOf
<1>4. \A p \in goneOnes : Change("removed", p.id, <<>>).to = <<>> /\ Change("removed", p.id, <<>>).from = p.id
  BY DEF Change
<1>5. \A e \in ToSet(entries) : ChangeOf(e) \in Changes(entries)
  BY <1>1, <1>2, <1>3, Zenon
<1>6. ASSUME NEW x \in Changes(entries) PROVE (\E e \in ToSet(entries) : x = ChangeOf(e)) \/ x.to = <<>>
  BY <1>1, <1>2, <1>3, <1>4, ZenonT(60)
<1>7. ASSUME NEW p \in ToSet(Parents), \A e \in ToSet(entries) : e.previous # Nobody => e.previous.at # p.at
      PROVE  \E x \in Changes(entries) : x.from = p.id
  <2>1. p \in goneOnes
    BY <1>7
  <2> QED
    BY <1>1, <1>4, <2>1, Zenon
<1> QED
  BY <1>5, <1>6, <1>7

\* The parts of the change of an entry.
LEMMA ChangeParts ==
  ASSUME NEW e
  PROVE  /\ ChangeOf(e).to = e.id
         /\ e.previous = Nobody => ChangeOf(e).kind = "added" /\ ChangeOf(e).from = <<>>
         /\ e.previous # Nobody =>
              /\ ChangeOf(e).from = e.previous.id
              /\ ChangeOf(e).kind = "preserved" <=> e.previous.content = e.content
<1>1. CASE e.previous = Nobody
  BY <1>1 DEF ChangeOf, Change
<1>2. CASE e.previous # Nobody /\ e.previous.content = e.content
  BY <1>2 DEF ChangeOf, Change
<1>3. CASE e.previous # Nobody /\ e.previous.content # e.content
  BY <1>3 DEF ChangeOf, Change
<1> QED
  BY <1>1, <1>2, <1>3

\* The claims a version lists, and its parent's, by ID.
LEMMA ListedFacts ==
  ASSUME RecordsOK(memory), NEW p \in ToSet(memory.versions)
  PROVE  /\ \A d \in ToSet(p.claims) : d.id # <<>> /\ IdKnown(d.id, memory.pointer)
         /\ \A c, d \in ToSet(p.claims) : c.id = d.id => c = d
<1>1. VersionOK(p, memory.pointer)
  BY DEF RecordsOK, VersionsKept
<1>2. \A d \in ToSet(p.claims) : IdKnown(d.id, memory.pointer)
  BY <1>1 DEF VersionOK
<1>3. ASSUME NEW id, IdKnown(id, memory.pointer) PROVE id # <<>>
  <2>1. PICK a, b, c : a = id[1] /\ b = id[2] /\ c = id[3]
    OBVIOUS
  <2>2. id = <<a>> \/ id = <<a, b, c>>
    BY <1>3, <2>1 DEF IdKnown
  <2> QED
    BY <2>2
<1>4. \A c, d \in ToSet(p.claims) : c.id = d.id => c = d
  BY <1>1 DEF VersionOK, ToSet
<1> QED
  BY <1>2, <1>3, <1>4

\* A version accounts for its parent.
LEMMA VersionAccounts ==
  ASSUME RecordsOK(memory), ~memory.strained, NEW p \in ToSet(memory.versions), p.number = memory.pointer,
         NEW version, version = memory.pointer + 1, NEW entries, AnswerOK(entries, version),
         NEW v, v = Version(version, entries)
  PROVE  Explained(v, p)
<1>1. PICK mine, theirs : mine = ToSet(v.claims) /\ theirs = ToSet(p.claims)
  OBVIOUS
<1>2. EntriesOK(entries, version) /\ \A e \in ToSet(entries) : EntryOK(e, version)
  BY DEF AnswerOK, EntriesOK
<1>3. /\ v.changes = Changes(entries) /\ v.held = {c.id : c \in ToSet(CurrentClaims)}
      /\ IsList(v.claims) /\ DOMAIN v.claims = DOMAIN entries
      /\ \A k \in DOMAIN entries : Listing(v.claims[k], entries[k], version)
      /\ \A d \in mine : \E e \in ToSet(entries) : Listing(d, e, version)
      /\ \A e \in ToSet(entries) : \E d \in mine : Listing(d, e, version)
  BY <1>1, <1>2, VersionFacts
<1>4. /\ \A x \in ToSet(Parents) : /\ x \in ToSet(memory.claims)
                                   /\ \E d \in theirs : d.id = x.id /\ d.content = x.content
      /\ \A d \in theirs : \E x \in ToSet(Parents) : d.id = x.id /\ d.content = x.content
  BY <1>1, ParentClaims
<1>5. \A c \in ToSet(memory.claims) : c.current => \E d \in theirs : d.id = c.id /\ SameMatter(d.content, c.content)
  <2> SUFFICES ASSUME NEW c \in ToSet(memory.claims), c.current
               PROVE  \E d \in theirs : d.id = c.id /\ SameMatter(d.content, c.content)
    OBVIOUS
  <2>1. PICK w \in ToSet(memory.versions) : w.number = memory.pointer /\ Lists(w, c)
    BY DEF RecordsOK, CurrentPublished
  <2>2. w = p
    BY <2>1 DEF RecordsOK, VersionsKept
  <2> QED
    BY <1>1, <2>1, <2>2 DEF Lists
<1>6. /\ \A d \in theirs : d.id # <<>>
      /\ \A c, d \in theirs : c.id = d.id => c = d
  BY <1>1, ListedFacts
<1>7. \A d, e \in ToSet(entries) : d.id = e.id => d = e
  BY <1>2 DEF EntriesOK, OneEach, ToSet
<1>8. \A e \in ToSet(entries) : e.id # <<>>
  <2> SUFFICES ASSUME NEW e \in ToSet(entries) PROVE e.id # <<>>
    OBVIOUS
  <2>1. PICK id, a, b, c : id = e.id /\ a = id[1] /\ b = id[2] /\ c = id[3]
    OBVIOUS
  <2>2. id = <<a>> \/ id = <<a, b, c>>
    BY <1>2, <2>1 DEF EntryOK, IdKnown
  <2> QED
    BY <2>1, <2>2
<1>9. Cardinality({c.id : c \in mine}) = Len(v.claims)
  <2>1. PICK n \in Nat : n = Len(v.claims) /\ DOMAIN v.claims = 1..n
    BY <1>3 DEF IsList
  <2>2. \A k \in 1..n : v.claims[k].id = entries[k].id
    BY <1>3, <2>1 DEF Listing
  <2>3. PICK f : f = [k \in 1..n |-> v.claims[k].id]
    OBVIOUS
  <2>4. {c.id : c \in mine} = {f[k] : k \in 1..n}
    <3>1. mine = {v.claims[k] : k \in 1..n}
      BY <1>1, <2>1 DEF ToSet
    <3>2. \A k \in 1..n : f[k] = v.claims[k].id
      BY <2>3
    <3> QED
      BY <3>1, <3>2
  <2>5. \A j, k \in 1..n : f[j] = f[k] => j = k
    BY <1>2, <1>3, <2>1, <2>2, <2>3, SMTT(30) DEF EntriesOK, OneEach
  <2>6. f \in Injection(1..n, {f[k] : k \in 1..n}) /\ f \in Surjection(1..n, {f[k] : k \in 1..n})
    BY <2>3, <2>5 DEF Injection, IsInjective, Surjection
  <2>7. IsFiniteSet(1..n) /\ Cardinality(1..n) = n
    <3>1. 1 \in Int /\ n \in Int
      OBVIOUS
    <3>2. IsFiniteSet(1..n) /\ Cardinality(1..n) = IF 1 > n THEN 0 ELSE n - 1 + 1
      BY <3>1, FS_Interval
    <3> QED
      BY <3>2
  <2>8. Cardinality({f[k] : k \in 1..n}) = Cardinality(1..n)
    BY <2>6, <2>7, FS_Surjection
  <2> QED
    BY <2>1, <2>4, <2>7, <2>8
<1>10. ASSUME NEW e \in ToSet(entries), NEW other \in v.changes, other.to = e.id PROVE other = ChangeOf(e)
  <2>1. \/ \E d \in ToSet(entries) : other = ChangeOf(d)
        \/ other.to = <<>>
    BY <1>3, ChangesAre
  <2>2. PICK d \in ToSet(entries) : other = ChangeOf(d)
    BY <1>8, <1>10, <2>1
  <2>3. d.id = e.id
    BY <1>10, <2>2, ChangeParts
  <2> QED
    BY <1>7, <2>2, <2>3
<1>11. ASSUME NEW e \in ToSet(entries)
       PROVE  /\ ChangeOf(e).kind = "preserved" =>
                   \E d \in theirs : d.id = ChangeOf(e).from /\ SameMatter(d.content, e.content)
              /\ (\E d \in theirs : d.id = ChangeOf(e).from /\ d.content = e.content) =>
                   ChangeOf(e).kind = "preserved"
  <2>1. CASE e.previous = Nobody
    <3>1. ChangeOf(e).kind = "added" /\ ChangeOf(e).from = <<>>
      BY <2>1, ChangeParts
    <3> QED
      BY <1>6, <3>1
  <2>2. CASE e.previous # Nobody
    <3>1. ChangeOf(e).from = e.previous.id /\ (ChangeOf(e).kind = "preserved" <=> e.previous.content = e.content)
      BY <2>2, ChangeParts
    <3>2. e.previous \in ToSet(memory.claims) /\ (e.previous \in ToSet(Parents) \/ e.previous.current)
      BY <1>2, <2>2 DEF EntryOK
    <3>3. PICK d \in theirs : /\ d.id = e.previous.id /\ SameMatter(d.content, e.previous.content)
                              /\ e.previous.current \/ d.content = e.previous.content
      BY <1>4, <1>5, <3>2 DEF SameMatter
    <3>4. \A c \in theirs : c.id = e.previous.id => c = d
      <4> SUFFICES ASSUME NEW c \in theirs, c.id = e.previous.id PROVE c = d
        OBVIOUS
      <4>1. c.id = d.id
        BY <3>3, Zenon
      <4> QED
        BY <1>6, <4>1, Zenon
    <3>5. d.content = e.content => e.previous.content = e.content
      <4> SUFFICES ASSUME d.content = e.content, e.previous.current PROVE e.previous.content = e.content
        BY <3>3
      <4>1. NamedBy(e.content, memory.intents) /\ NamedBy(e.previous.content, memory.intents)
        BY <1>2, <3>2 DEF EntryOK, RecordsOK, CurrentNamed
      <4>2. SameMatter(e.previous.content, e.content)
        BY <3>3 DEF SameMatter
      <4> QED
        BY <4>1, <4>2, SameContent
    <3>6. e.previous.content = e.content => SameMatter(d.content, e.content)
      BY <3>3, Zenon
    <3>7. (\E c \in theirs : c.id = e.previous.id /\ c.content = e.content) => e.previous.content = e.content
      BY <3>4, <3>5, Zenon
    <3>8. ChangeOf(e).kind = "preserved" => d.id = ChangeOf(e).from /\ SameMatter(d.content, e.content)
      BY <3>1, <3>3, <3>6, Zenon
    <3>9. (\E c \in theirs : c.id = ChangeOf(e).from /\ c.content = e.content) => ChangeOf(e).kind = "preserved"
      BY <3>1, <3>7
    <3> QED
      BY <3>8, <3>9, Zenon
  <2> QED
    BY <2>1, <2>2
<1>12. \A c \in mine : \E change \in v.changes :
         /\ change.to = c.id
         /\ \A other \in v.changes : other.to = c.id => other = change
         /\ change.kind = "preserved" =>
              \E d \in theirs : d.id = change.from /\ SameMatter(d.content, c.content)
         /\ (\E d \in theirs : d.id = change.from /\ d.content = c.content) => change.kind = "preserved"
  <2> SUFFICES ASSUME NEW c \in mine
               PROVE  \E change \in v.changes :
                        /\ change.to = c.id
                        /\ \A other \in v.changes : other.to = c.id => other = change
                        /\ change.kind = "preserved" =>
                             \E d \in theirs : d.id = change.from /\ SameMatter(d.content, c.content)
                        /\ (\E d \in theirs : d.id = change.from /\ d.content = c.content) =>
                             change.kind = "preserved"
    OBVIOUS
  <2>1. PICK e \in ToSet(entries) : c.id = e.id /\ c.content = e.content
    BY <1>3 DEF Listing
  <2>2. PICK change : change = ChangeOf(e)
    OBVIOUS
  <2>3. change \in v.changes /\ change.to = c.id
    BY <1>3, <2>1, <2>2, ChangesAre, ChangeParts
  <2>4. \A other \in v.changes : other.to = c.id => other = change
    BY <1>10, <2>1, <2>2
  <2>5. /\ change.kind = "preserved" =>
             \E d \in theirs : d.id = change.from /\ SameMatter(d.content, c.content)
        /\ (\E d \in theirs : d.id = change.from /\ d.content = c.content) => change.kind = "preserved"
    BY <1>11, <2>1, <2>2
  <2> QED
    BY <2>3, <2>4, <2>5
<1>13. \A d \in theirs : \E change \in v.changes : change.from = d.id
  <2> SUFFICES ASSUME NEW d \in theirs PROVE \E change \in v.changes : change.from = d.id
    OBVIOUS
  <2>1. PICK x \in ToSet(Parents) : d.id = x.id /\ x \in ToSet(memory.claims)
    BY <1>4
  <2>2. CASE \E e \in ToSet(entries) : e.previous # Nobody /\ e.previous.at = x.at
    <3>1. PICK e \in ToSet(entries) : e.previous # Nobody /\ e.previous.at = x.at
      BY <2>2
    <3>2. e.previous \in ToSet(memory.claims)
      BY <1>2, <3>1 DEF EntryOK
    <3>3. e.previous = x
      BY <2>1, <3>1, <3>2 DEF RecordsOK, ClaimsKept, Unrepeated, ToSet
    <3>4. ChangeOf(e) \in v.changes /\ ChangeOf(e).from = d.id
      BY <1>3, <2>1, <3>1, <3>3, ChangesAre, ChangeParts
    <3> QED
      BY <3>4
  <2>3. CASE ~\E e \in ToSet(entries) : e.previous # Nobody /\ e.previous.at = x.at
    BY <1>3, <2>1, <2>3, ChangesAre
  <2> QED
    BY <2>2, <2>3
<1>14. \A c \in mine, d \in theirs : c.id = d.id => SameMatter(c.content, d.content)
  <2> SUFFICES ASSUME NEW c \in mine, NEW d \in theirs, c.id = d.id PROVE SameMatter(c.content, d.content)
    OBVIOUS
  <2>1. PICK e \in ToSet(entries) : c.id = e.id /\ c.content = e.content
    BY <1>3 DEF Listing
  <2>2. PICK x \in ToSet(memory.claims) : x.id = d.id
    BY <1>4
  <2>3. EntryOK(e, version)
    BY <1>2
  <2>4. /\ e.source # Nobody /\ e.source \in ToSet(memory.claims) /\ e.source.current
        /\ e.id = e.source.id /\ e.content = e.source.content
    BY <2>1, <2>2, <2>3 DEF EntryOK
  <2>5. PICK f \in theirs : f.id = e.source.id /\ SameMatter(f.content, e.source.content)
    BY <1>5, <2>4
  <2>6. f = d
    BY <1>6, <2>1, <2>4, <2>5
  <2> QED
    BY <2>1, <2>4, <2>5, <2>6 DEF SameMatter
<1>15. v.held \subseteq {c.id : c \in mine}
  <2> SUFFICES ASSUME NEW c \in ToSet(CurrentClaims) PROVE \E d \in mine : d.id = c.id
    BY <1>3
  <2>1. c \in ToSet(memory.claims) /\ c.current
    BY PublicationLists
  <2>2. PICK e \in ToSet(entries) : e.id = c.id
    BY <2>1 DEF AnswerOK
  <2> QED
    BY <1>3, <2>2 DEF Listing
<1> QED
  BY <1>1, <1>9, <1>12, <1>13, <1>14, <1>15 DEF Explained

\* A session after a publication, before its lists are bounded.
Publication(n, entries, version) ==
  /\ DOMAIN n = SessionFields
  /\ n.revision = memory.revision + 1 /\ n.retrieval = memory.retrieval /\ n.evidence = memory.evidence
  /\ n.intents = memory.intents
  /\ n.claims = Retire(memory.claims) \o NewClaims(entries, version)
  /\ n.versions = Append(memory.versions, Version(version, entries))
  /\ n.pointer = version /\ n.strained = FALSE

\* Its claims: the old ones, no longer current, and one for each entry.
Retired(c, o) ==
  /\ DOMAIN c = ClaimFields /\ c.current = FALSE /\ c.at = o.at /\ c.id = o.id
  /\ c.content = o.content /\ c.support = o.support

\* No two of them have one ID.
LEMMA PublicationClaims ==
  ASSUME RecordsOK(memory), NEW version, version = memory.pointer + 1,
         NEW entries, EntriesOK(entries, version), NEW n, Publication(n, entries, version)
  PROVE  /\ IsList(n.claims) /\ Unrepeated(n.claims) /\ Ids(n.claims) = {c.at : c \in ToSet(n.claims)}
         /\ \A c \in ToSet(n.claims) : \/ \E o \in ToSet(memory.claims) : Retired(c, o)
                                       \/ \E e \in ToSet(entries) : RecordOf(c, e, version)
         /\ \A e \in ToSet(entries) : \E c \in ToSet(n.claims) : RecordOf(c, e, version)
<1>1. PICK old, new : old = Retire(memory.claims) /\ new = NewClaims(entries, version)
  OBVIOUS
<1>2. /\ IsList(memory.claims) /\ Unrepeated(memory.claims) /\ memory.pointer \in Nat
      /\ \A c \in ToSet(memory.claims) : ClaimOK(c, memory.revision, memory.pointer)
  BY DEF RecordsOK, Shaped, ClaimsKept
<1>3. /\ IsList(old) /\ Unrepeated(old) /\ Ids(old) = Ids(memory.claims)
      /\ ToSet(old) = {[c EXCEPT !.current = FALSE] : c \in ToSet(memory.claims)}
  <2>1. \A c \in ToSet(memory.claims) : "at" \in DOMAIN c /\ "current" \in DOMAIN c
    BY <1>2 DEF ClaimOK, ClaimFields
  <2> QED
    BY <1>1, <1>2, <2>1, RetireFacts
<1>4. \A c \in ToSet(old) : \E o \in ToSet(memory.claims) : Retired(c, o)
  <2> SUFFICES ASSUME NEW o \in ToSet(memory.claims), NEW c, c = [o EXCEPT !.current = FALSE]
               PROVE  Retired(c, o)
    BY <1>3
  <2>1. DOMAIN o = ClaimFields
    BY <1>2 DEF ClaimOK
  <2> QED
    BY <2>1 DEF Retired, ClaimFields
<1>5. /\ IsList(new) /\ Unrepeated(new)
      /\ \A c \in ToSet(new) : \E e \in ToSet(entries) : RecordOf(c, e, version)
      /\ \A e \in ToSet(entries) : \E c \in ToSet(new) : RecordOf(c, e, version)
  BY <1>1, NewClaimFacts
<1>6. Ids(old) \cap Ids(new) = {}
  <2> SUFFICES ASSUME NEW o \in ToSet(memory.claims), NEW c \in ToSet(new), o.at = c.at PROVE FALSE
    <3>1. Ids(new) = {c.at : c \in ToSet(new)} /\ Ids(old) = {o.at : o \in ToSet(memory.claims)}
      BY <1>2, <1>3, <1>5, ListFacts DEF IsList
    <3> QED
      BY <3>1
  <2>1. c.at[2] = "v" /\ c.at[3] = version
    <3>1. PICK e \in ToSet(entries) : RecordOf(c, e, version)
      BY <1>5
    <3> QED
      BY <3>1 DEF RecordOf
  <2>2. o.at[2] = "v" => o.at[3] \in 1..memory.pointer
    BY <1>2 DEF ClaimOK
  <2> QED
    BY <1>2, <2>1, <2>2
<1>7. PICK S : S = ToSet(old) \cup ToSet(new)
  OBVIOUS
<1>8. old \in Seq(S) /\ new \in Seq(S)
  BY <1>3, <1>5, <1>7 DEF IsList
<1>9. n.claims = old \o new
  BY <1>1 DEF Publication
<1>10. /\ n.claims \in Seq(S) /\ ToSet(n.claims) = ToSet(old) \cup ToSet(new) /\ Unrepeated(n.claims)
  BY <1>3, <1>5, <1>6, <1>8, <1>9, Joined
<1>11. IsList(n.claims) /\ Ids(n.claims) = {c.at : c \in ToSet(n.claims)}
  BY <1>10, ListFacts
<1> QED
  BY <1>4, <1>5, <1>10, <1>11

\* The claims of the session are kept.
LEMMA PublicationKeepsClaims ==
  ASSUME RecordsOK(memory), NEW version, version = memory.pointer + 1,
         NEW entries, EntriesOK(entries, version), NEW n, Publication(n, entries, version)
  PROVE  Shaped(n) /\ EvidenceKept(n) /\ ClaimsKept(n) /\ CurrentStands(n) /\ CurrentNamed(n)
<1>1. /\ IsList(n.claims) /\ Unrepeated(n.claims)
      /\ \A c \in ToSet(n.claims) : \/ \E o \in ToSet(memory.claims) : Retired(c, o)
                                    \/ \E e \in ToSet(entries) : RecordOf(c, e, version)
  BY PublicationClaims
<1>2. /\ memory.revision \in Nat /\ memory.retrieval \in Nat /\ memory.pointer \in Nat
      /\ IsList(memory.evidence) /\ IsList(memory.versions) /\ Unrepeated(memory.evidence)
      /\ \A e \in ToSet(memory.evidence) : EvidenceOK(e, memory.revision)
      /\ \A c \in ToSet(memory.claims) : ClaimOK(c, memory.revision, memory.pointer)
  BY DEF RecordsOK, Shaped, EvidenceKept, ClaimsKept
<1>3. \A k : (k \in 0..memory.revision => k \in 0..(memory.revision + 1)) /\ (k \in 1..memory.pointer => k \in 1..version)
  BY <1>2
<1>4. IsList(n.versions)
  <2>1. PICK v, S : v = Version(version, entries) /\ S = ToSet(memory.versions) \cup {v}
    OBVIOUS
  <2>2. memory.versions \in Seq(S) /\ v \in S
    BY <1>2, <2>1 DEF IsList
  <2>3. n.versions = Append(memory.versions, v)
    BY <2>1 DEF Publication
  <2>4. n.versions \in Seq(S)
    BY <2>2, <2>3, Added
  <2> QED
    BY <2>4, ListFacts
<1>5. Shaped(n)
  <2>1. /\ DOMAIN n = SessionFields /\ n.revision = memory.revision + 1 /\ n.retrieval = memory.retrieval
        /\ n.evidence = memory.evidence /\ n.pointer = version /\ n.strained = FALSE
    BY DEF Publication
  <2>2. n.strained \in BOOLEAN
    BY <2>1
  <2>3. n.revision \in Nat /\ n.retrieval \in Nat /\ n.pointer \in Nat
    BY <1>2, <2>1
  <2> QED
    BY <1>1, <1>2, <1>4, <2>1, <2>2, <2>3, Zenon DEF Shaped
<1>6. EvidenceKept(n)
  BY <1>2, <1>3 DEF Publication, EvidenceKept, EvidenceOK
<1>7. \A c \in ToSet(n.claims) : ClaimOK(c, n.revision, n.pointer)
  <2> SUFFICES ASSUME NEW c \in ToSet(n.claims) PROVE ClaimOK(c, n.revision, n.pointer)
    OBVIOUS
  <2>1. n.revision = memory.revision + 1 /\ n.pointer = version
    BY DEF Publication
  <2>2. ASSUME NEW o \in ToSet(memory.claims), Retired(c, o) PROVE ClaimOK(c, n.revision, n.pointer)
    <3>1. ClaimOK(o, memory.revision, memory.pointer)
      BY <1>2
    <3>2. IdKnown(c.id, version)
      BY <1>2, <2>2, <3>1, StillKnown DEF ClaimOK, Retired
    <3> QED
      BY <1>3, <2>1, <2>2, <3>1, <3>2 DEF ClaimOK, Retired
  <2>3. ASSUME NEW e \in ToSet(entries), RecordOf(c, e, version) PROVE ClaimOK(c, n.revision, n.pointer)
    <3>1. EntryOK(e, version) /\ version \in 1..version
      BY <1>2 DEF EntriesOK
    <3>2. c.at[1] = c.id /\ c.at[2] = "v" /\ c.at[3] = version
      BY <2>3 DEF RecordOf
    <3> QED
      BY <2>1, <2>3, <3>1, <3>2 DEF ClaimOK, RecordOf, EntryOK
  <2> QED
    BY <1>1, <2>2, <2>3
<1>8. \A c \in ToSet(n.claims) : c.current => \E e \in ToSet(entries) : RecordOf(c, e, version)
  BY <1>1 DEF Retired
<1>9. ASSUME NEW c \in ToSet(n.claims), NEW d \in ToSet(n.claims), c.current, d.current, c.id = d.id
      PROVE  c = d
  <2>1. PICK e, f \in ToSet(entries) : RecordOf(c, e, version) /\ RecordOf(d, f, version)
    BY <1>8, <1>9
  <2>2. c.at = d.at
    BY <1>9, <2>1 DEF RecordOf
  <2> QED
    BY <1>1, <2>2 DEF Unrepeated, ToSet
<1>10. \A c \in ToSet(n.claims) : c.current => c.support \subseteq InForce(n.evidence)
  BY <1>8 DEF RecordOf, Publication
<1>11. CurrentNamed(n)
  BY <1>8 DEF CurrentNamed, RecordOf, Publication, EntriesOK, EntryOK
<1> QED
  BY <1>1, <1>5, <1>6, <1>7, <1>9, <1>10, <1>11 DEF ClaimsKept, CurrentStands, SameIds

\* The versions of the session are kept, and the new one accounts for its
\* parent.
LEMMA PublicationKeepsVersions ==
  ASSUME RecordsOK(memory), NEW version, version = memory.pointer + 1,
         NEW entries, AnswerOK(entries, version), NEW n, Publication(n, entries, version)
  PROVE  VersionsKept(n) /\ CurrentPublished(n) /\ PublishedKept(n) /\ AllExplained(n)
<1>1. EntriesOK(entries, version) /\ \A e \in ToSet(entries) : EntryOK(e, version)
  BY DEF AnswerOK, EntriesOK
<1>2. /\ IsList(n.claims) /\ Unrepeated(n.claims) /\ Ids(n.claims) = {c.at : c \in ToSet(n.claims)}
      /\ \A c \in ToSet(n.claims) : \/ \E o \in ToSet(memory.claims) : Retired(c, o)
                                    \/ \E e \in ToSet(entries) : RecordOf(c, e, version)
      /\ \A e \in ToSet(entries) : \E c \in ToSet(n.claims) : RecordOf(c, e, version)
  BY <1>1, PublicationClaims
<1>3. PICK v : v = Version(version, entries)
  OBVIOUS
<1>4. /\ v.number = version /\ v.parent = memory.pointer /\ v.whole = ~memory.strained
      /\ IsList(v.claims) /\ DOMAIN v.claims = DOMAIN entries
      /\ \A k \in DOMAIN entries : Listing(v.claims[k], entries[k], version)
      /\ \A d \in ToSet(v.claims) : \E e \in ToSet(entries) : Listing(d, e, version)
      /\ \A e \in ToSet(entries) : \E d \in ToSet(v.claims) : Listing(d, e, version)
  BY <1>1, <1>3, VersionFacts
<1>5. /\ memory.pointer \in Nat /\ IsList(memory.versions) /\ n.pointer = version
      /\ \A w \in ToSet(memory.versions) : VersionOK(w, memory.pointer)
      /\ \A o \in ToSet(memory.claims) : ClaimOK(o, memory.revision, memory.pointer)
  BY DEF RecordsOK, Shaped, VersionsKept, ClaimsKept, Publication
<1>6. ToSet(n.versions) = ToSet(memory.versions) \cup {v}
  <2>1. PICK S : S = ToSet(memory.versions) \cup {v}
    OBVIOUS
  <2>2. memory.versions \in Seq(S) /\ v \in S
    BY <1>5, <2>1 DEF IsList
  <2>3. n.versions = Append(memory.versions, v)
    BY <1>3 DEF Publication
  <2> QED
    BY <2>2, <2>3, Added
<1>7. \A w \in ToSet(memory.versions) : w.number \in 1..memory.pointer /\ w.number # version /\ w.parent # version
  BY <1>5 DEF VersionOK
<1>8. \A e \in ToSet(entries), d \in ToSet(entries) : e.id = d.id => e = d
  BY <1>1 DEF EntriesOK, OneEach, ToSet
<1>9. VersionOK(v, version)
  <2>1. \A d \in ToSet(v.claims) : d.at = <<d.id, "v", version>> /\ IdKnown(d.id, version)
    BY <1>1, <1>4 DEF Listing, EntryOK
  <2>2. \A j, k \in DOMAIN v.claims : v.claims[j].id = v.claims[k].id => j = k
    BY <1>1, <1>4 DEF Listing, EntriesOK, OneEach
  <2>3. version \in 1..version /\ memory.pointer \in 0..(version - 1)
    BY <1>5
  <2> QED
    BY <1>4, <2>1, <2>2, <2>3 DEF VersionOK
<1>10. ASSUME NEW w \in ToSet(memory.versions) PROVE VersionOK(w, version)
  <2>1. VersionOK(w, memory.pointer)
    BY <1>5
  <2>2. \A d \in ToSet(w.claims) : IdKnown(d.id, version)
    BY <1>5, <2>1, StillKnown DEF VersionOK
  <2>3. w.number \in 1..version
    BY <1>5, <2>1 DEF VersionOK
  <2> QED
    BY <2>1, <2>2, <2>3 DEF VersionOK
<1>11. ASSUME NEW w \in ToSet(n.versions), NEW c \in ToSet(n.claims), NEW d \in ToSet(w.claims), c.at = d.at
       PROVE  c.content = d.content
  <2>1. d.at[2] = "v" /\ d.at[3] = w.number
    <3>1. VersionOK(w, version)
      BY <1>6, <1>9, <1>10
    <3>2. d.at = <<d.id, "v", w.number>>
      BY <3>1 DEF VersionOK
    <3> QED
      BY <3>2
  <2>2. ASSUME NEW o \in ToSet(memory.claims), Retired(c, o) PROVE c.content = d.content
    <3>1. o.at = d.at /\ o.at[3] \in 1..memory.pointer
      BY <1>5, <1>11, <2>1, <2>2 DEF ClaimOK, Retired
    <3>2. w \in ToSet(memory.versions)
      BY <1>4, <1>5, <1>6, <2>1, <3>1
    <3>3. Agree(o, d)
      BY <3>2 DEF RecordsOK, VersionsKept
    <3> QED
      BY <2>2, <3>1, <3>3 DEF Agree, Retired
  <2>3. ASSUME NEW e \in ToSet(entries), RecordOf(c, e, version) PROVE c.content = d.content
    <3>1. c.at = <<e.id, "v", version>> /\ c.content = e.content
      BY <2>3 DEF RecordOf
    <3>2. w = v
      BY <1>6, <1>7, <1>11, <2>1, <3>1
    <3>3. PICK f \in ToSet(entries) : d.at = <<f.id, "v", version>> /\ d.content = f.content
      BY <1>4, <3>2 DEF Listing
    <3>4. e.id = f.id
      <4>1. PICK a, b : a = e.id /\ b = f.id
        OBVIOUS
      <4>2. <<a, "v", version>> = <<b, "v", version>>
        BY <1>11, <3>1, <3>3, <4>1
      <4>3. a = b
        BY <4>2
      <4> QED
        BY <4>1, <4>3
    <3>5. e = f
      BY <1>8, <3>4
    <3> QED
      BY <3>1, <3>3, <3>5
  <2> QED
    BY <1>2, <2>2, <2>3
<1>12. VersionsKept(n)
  <2>1. \A u \in ToSet(n.versions) : VersionOK(u, n.pointer)
    BY <1>5, <1>6, <1>9, <1>10
  <2>2. \A u, w \in ToSet(n.versions) : u.number = w.number => u = w
    BY <1>4, <1>6, <1>7 DEF RecordsOK, VersionsKept
  <2>3. \E u \in ToSet(n.versions) : u.number = n.pointer
    BY <1>4, <1>5, <1>6
  <2> QED
    BY <1>11, <2>1, <2>2, <2>3 DEF VersionsKept, Agree
<1>13. CurrentPublished(n)
  <2> SUFFICES ASSUME NEW c \in ToSet(n.claims), c.current PROVE Lists(v, c)
    BY <1>4, <1>5, <1>6 DEF CurrentPublished
  <2>1. PICK e \in ToSet(entries) : RecordOf(c, e, version)
    BY <1>2 DEF Retired
  <2>2. PICK d \in ToSet(v.claims) : Listing(d, e, version)
    BY <1>4
  <2>3. d.id = c.id /\ d.content = c.content
    BY <2>1, <2>2 DEF RecordOf, Listing
  <2> QED
    BY <2>3 DEF Lists, SameMatter
<1>14. PublishedKept(n)
  <2>1. Published(n) = {d.at : d \in ToSet(v.claims)}
    <3>1. {w \in ToSet(n.versions) : w.number = n.pointer} = {v}
      BY <1>4, <1>5, <1>6, <1>7
    <3>2. Published(n) = Ids(v.claims)
      BY <3>1 DEF Published
    <3> QED
      BY <1>4, <3>2, ListFacts DEF IsList
  <2>2. ASSUME NEW d \in ToSet(v.claims) PROVE d.at \in Ids(n.claims)
    <3>1. PICK e \in ToSet(entries) : Listing(d, e, version)
      BY <1>4
    <3>2. PICK c \in ToSet(n.claims) : RecordOf(c, e, version)
      BY <1>2
    <3> QED
      BY <1>2, <3>1, <3>2 DEF Listing, RecordOf
  <2>3. ASSUME NEW c \in ToSet(n.claims), NEW d \in ToSet(v.claims), c.at = d.at
        PROVE  c.support \subseteq Ids(n.evidence)
    <3>1. d.at[2] = "v" /\ d.at[3] = version
      BY <1>4 DEF Listing
    <3>2. ASSUME NEW o \in ToSet(memory.claims), Retired(c, o) PROVE FALSE
      BY <1>5, <2>3, <3>1, <3>2 DEF ClaimOK, Retired
    <3>3. c.support \subseteq InForce(memory.evidence)
      BY <1>2, <3>2 DEF RecordOf
    <3>4. IsList(memory.evidence) /\ n.evidence = memory.evidence
      BY DEF RecordsOK, Shaped, Publication
    <3>5. Ids(n.evidence) = {e.at : e \in ToSet(n.evidence)}
      BY <3>4, ListFacts DEF IsList
    <3> QED
      BY <3>3, <3>4, <3>5 DEF InForce
  <2> QED
    BY <2>1, <2>2, <2>3 DEF PublishedKept
<1>15. AllExplained(n)
  <2> SUFFICES ASSUME NEW w \in ToSet(n.versions), NEW p \in ToSet(n.versions), w.parent = p.number, w.whole
               PROVE  Explained(w, p)
    BY DEF AllExplained
  <2>1. CASE w \in ToSet(memory.versions)
    <3>1. p \in ToSet(memory.versions)
      BY <1>4, <1>6, <1>7, <2>1
    <3> QED
      BY <2>1, <3>1 DEF RecordsOK, AllExplained
  <2>2. CASE w = v
    <3>1. p.number = memory.pointer
      BY <1>4, <2>2
    <3>2. p \in ToSet(memory.versions)
      BY <1>4, <1>5, <1>6, <3>1
    <3>3. ~memory.strained
      <4>1. w.whole = ~memory.strained
        BY <1>4, <2>2, Zenon
      <4> QED
        BY <4>1, Zenon
    <3> QED
      BY <1>3, <2>2, <3>1, <3>2, <3>3, VersionAccounts
  <2> QED
    BY <1>6, <2>1, <2>2
<1> QED
  BY <1>12, <1>13, <1>14, <1>15

\* A publication leaves records in order.
LEMMA PublishClaimsKeeps ==
  ASSUME HistoryAssumption, RecordsOK(memory), NEW answer,
         EntriesOK(Given(answer, memory.pointer + 1), memory.pointer + 1), PublishClaims(answer)
  PROVE  RecordsOK(memory') /\ refusal' # "invalid"
<1>1. PICK version : version = memory.pointer + 1
  OBVIOUS
<1>2. PICK entries : entries = Entries(answer, version)
  OBVIOUS
<1>3. AnswerOK(entries, version) /\ EntriesOK(entries, version)
  BY <1>1, <1>2, AnswerEntries DEF AnswerOK
<1>4. PICK n : n = [Advanced EXCEPT !.claims = Retire(@) \o NewClaims(entries, version),
                                    !.versions = Append(@, Version(version, entries)),
                                    !.pointer = version, !.planned = 0, !.strained = FALSE]
  OBVIOUS
<1>5. Write(n)
  BY <1>1, <1>2, <1>4, Zenon DEF PublishClaims, NewClaims
<1>6. Publication(n, entries, version)
  <2>1. DOMAIN memory = SessionFields
    BY DEF RecordsOK, Shaped
  <2> QED
    BY <1>4, <2>1 DEF Publication, Advanced, SessionFields
<1>7. RecordsOK(n)
  BY <1>1, <1>3, <1>6, PublicationKeepsClaims, PublicationKeepsVersions DEF RecordsOK
<1> QED
  BY <1>5, <1>7, WriteKeeps

-----------------------------------------------------------------------------
(* Every step.                                                             *)

HistorySpec == HistoryInit /\ [][HistoryNext]_historyVars
HistoryInv == RecordsOK(memory) /\ refusal # "invalid"

\* Nothing is kept of a new session, and all of it is in order.
LEMMA HistoryStarts == HistoryInit => HistoryInv
<1> SUFFICES ASSUME HistoryInit PROVE HistoryInv
  OBVIOUS
<1>1. PICK m : m = memory
  OBVIOUS
<1>2. /\ DOMAIN m = SessionFields /\ m.revision = 0 /\ m.retrieval = 0 /\ m.pointer = 0 /\ m.strained = FALSE
      /\ m.evidence = <<>> /\ m.claims = <<>> /\ m.versions = <<>>
  BY <1>1 DEF HistoryInit, Fresh, SessionFields
<1>3. ToSet(<<>>) = {} /\ IsList(<<>>) /\ Unrepeated(<<>>) /\ Ids(<<>>) = {}
  BY DEF ToSet, IsList, Unrepeated, Ids
<1>4. Shaped(m)
  <2>1. m.strained \in BOOLEAN
    BY <1>2
  <2>2. m.revision \in Nat /\ m.retrieval \in Nat /\ m.pointer \in Nat
    BY <1>2
  <2> QED
    BY <1>2, <1>3, <2>1, <2>2, Zenon DEF Shaped
<1>5. EvidenceKept(m) /\ ClaimsKept(m) /\ CurrentStands(m) /\ CurrentNamed(m)
      /\ VersionsKept(m) /\ CurrentPublished(m) /\ AllExplained(m)
  BY <1>2, <1>3 DEF CurrentNamed, EvidenceKept, ClaimsKept, CurrentStands, VersionsKept, CurrentPublished, AllExplained
<1>6. PublishedKept(m)
  <2>1. Published(m) = {}
    BY <1>2, <1>3 DEF Published
  <2> QED
    BY <1>2, <1>3, <2>1 DEF PublishedKept
<1>7. refusal # "invalid"
  BY DEF HistoryInit
<1> QED
  BY <1>1, <1>4, <1>5, <1>6, <1>7 DEF HistoryInv, RecordsOK

\* Every operation leaves the records in order, and the contract never refuses
\* a write that fits.
LEMMA HistoryStepKeeps == HistoryInv /\ [HistoryNext]_historyVars => HistoryInv'
<1> SUFFICES ASSUME HistoryInv, [HistoryNext]_historyVars PROVE HistoryInv'
  OBVIOUS
<1>1. HistoryAssumption
  BY HistoryAssumption
<1>2. RecordsOK(memory) /\ refusal # "invalid"
  BY DEF HistoryInv
<1>3. SUFFICES RecordsOK(memory') /\ refusal' # "invalid"
  BY DEF HistoryInv
<1>4. CASE UNCHANGED historyVars
  BY <1>2, <1>4 DEF historyVars
<1>5. ASSUME NEW chunk \in Citable, NEW newer \in BOOLEAN, RecordEvidence(chunk, newer)
      PROVE  RecordsOK(memory') /\ refusal' # "invalid"
  BY <1>1, <1>2, <1>5, RecordEvidenceKeeps
<1>6. ASSUME NEW chunk \in Citable, RecordSelectiveEvidence(chunk)
      PROVE  RecordsOK(memory') /\ refusal' # "invalid"
  BY <1>1, <1>2, <1>6, RecordSelectiveEvidenceKeeps
<1>7. ASSUME NEW evidence \in SUBSET Ids(CurrentOf(memory.evidence)),
             NEW claims \in SUBSET {c.at : c \in {c \in ToSet(CurrentOf(memory.claims)) : c.support \subseteq evidence}},
             NEW slots \in SUBSET Slot, Patch(slots, evidence, claims)
      PROVE  RecordsOK(memory') /\ refusal' # "invalid"
  BY <1>1, <1>2, <1>7, PatchKeeps
<1>8. ASSUME NEW offer \in Offers, PublishClaims(Stated(offer))
      PROVE  RecordsOK(memory') /\ refusal' # "invalid"
  <2>1. PICK answer : answer = Stated(offer)
    OBVIOUS
  <2> QED
    BY <1>1, <1>2, <1>8, <2>1, GivenOffer, PublishClaimsKeeps
<1>9. CASE Present
  <2>1. PICK answer : answer = CurrentAnswer
    OBVIOUS
  <2>2. PublishClaims(answer)
    BY <1>9, <2>1, Zenon DEF Present, CurrentAnswer, CurrentClaims
  <2> QED
    BY <1>1, <1>2, <2>1, <2>2, GivenCurrent, PublishClaimsKeeps
<1> QED
  BY <1>4, <1>5, <1>6, <1>7, <1>8, <1>9 DEF HistoryNext

\* Records in order keep the answer.
LEMMA RecordsKeepAnswer == HistoryInv => AnswerIsKept
<1> SUFFICES ASSUME HistoryInv, memory.pointer # 0
             PROVE  /\ memory.pointer \in {v.number : v \in ToSet(memory.versions)}
                    /\ ~memory.strained =>
                         /\ Published(memory) \subseteq Ids(memory.claims)
                         /\ EvidenceInUse(memory, memory.claims) \subseteq Ids(memory.evidence)
  BY DEF AnswerIsKept, HistoryInv
<1>1. RecordsOK(memory)
  BY DEF HistoryInv
<1>2. memory.pointer \in {v.number : v \in ToSet(memory.versions)}
  BY <1>1 DEF RecordsOK, VersionsKept
<1>3. ASSUME ~memory.strained
      PROVE  /\ Published(memory) \subseteq Ids(memory.claims)
             /\ EvidenceInUse(memory, memory.claims) \subseteq Ids(memory.evidence)
  <2>1. /\ Published(memory) \subseteq Ids(memory.claims)
        /\ \A c \in ToSet(memory.claims) : c.at \in Published(memory) => c.support \subseteq Ids(memory.evidence)
    BY <1>1, <1>3 DEF RecordsOK, PublishedKept
  <2>2. IsList(memory.evidence)
    BY <1>1 DEF RecordsOK, Shaped
  <2>3. Ids(CurrentOf(memory.evidence)) \subseteq Ids(memory.evidence)
    BY <2>2, CurrentItems, ListFacts DEF InForce, IsList
  <2> QED
    BY <2>1, <2>3 DEF EvidenceInUse
<1> QED
  BY <1>2, <1>3

\* Records in order explain the versions.
LEMMA RecordsExplain == HistoryInv => VersionsExplained
<1> SUFFICES ASSUME HistoryInv, NEW v \in ToSet(memory.versions), NEW p \in ToSet(memory.versions),
                    v.parent = p.number, v.whole
             PROVE  Explained(v, p)
  BY Zenon DEF VersionsExplained, Explained
<1> QED
  BY DEF HistoryInv, RecordsOK, AllExplained

\* The records of a session are in order after every sequence of writes, for
\* every bound on its lists and every claim a provider may return.
THEOREM HistoryInvariance == HistorySpec => []HistoryInv
BY HistoryStarts, HistoryStepKeeps, PTL DEF HistorySpec
=============================================================================
