------------------------------ MODULE Recursion ------------------------------
(***************************************************************************)
(* Induction, and the existence of recursive functions, as facts about     *)
(* sets.  A recursive definition f[i \in lo..n] == e is the choice of a    *)
(* function equal to [i \in lo..n |-> e]; nothing is known of it before    *)
(* one is shown to exist.  A module that reasons about such a definition   *)
(* instantiates this one with Value for e: a value computed from the       *)
(* definition's parameters c, the function g itself and the argument i.    *)
(***************************************************************************)
EXTENDS FiniteSetTheorems, TLAPS

CONSTANT Value(_, _, _)

\* A set of natural numbers that is not empty has a least element.
LEMMA LeastNumber ==
  ASSUME NEW T \in SUBSET Nat, T # {}
  PROVE  \E n \in T : \A m \in T : n <= m
<1> DEFINE F == {0..n : n \in T}
<1>1. F \subseteq FiniteSubsetsOf(Nat) /\ F # {}
  <2>1. \A n \in Nat : IsFiniteSet(0..n) /\ 0..n \subseteq Nat
    BY FS_Interval
  <2> QED
    BY <2>1 DEF FiniteSubsetsOf
<1>2. IsWellFoundedOn(StrictSubsetOrdering(Nat), FiniteSubsetsOf(Nat))
  BY FS_StrictSubsetOrderingWellFounded
<1>3. PICK x \in F : \A y \in F : ~ (<<y, x>> \in StrictSubsetOrdering(Nat))
  <2> HIDE DEF F
  <2> QED
    BY <1>1, <1>2, WFMin
<1>4. PICK n \in T : x = 0..n
  OBVIOUS
<1>5. ASSUME NEW m \in T, m < n PROVE FALSE
  <2>1. 0..m \in F /\ 0..m \subseteq 0..n /\ 0..m # 0..n /\ 0..m \subseteq Nat /\ 0..n \subseteq Nat
    <3>1. n \in 0..n /\ n \notin 0..m
      BY <1>5
    <3> QED
      BY <1>5, <3>1
  <2>2. <<0..m, 0..n>> \in StrictSubsetOrdering(Nat)
    BY <2>1 DEF StrictSubsetOrdering
  <2> QED
    BY <1>3, <1>4, <2>1, <2>2
<1> QED
  BY <1>5

\* Induction on the natural numbers: the numbers that have a property are a
\* set S.
LEMMA NumberInduction ==
  ASSUME NEW S, 0 \in S, \A n \in Nat : n \in S => n + 1 \in S
  PROVE  Nat \subseteq S
<1> SUFFICES ASSUME Nat \ S # {} PROVE FALSE
  OBVIOUS
<1>1. PICK n \in Nat \ S : \A m \in Nat \ S : n <= m
  BY LeastNumber
<1>2. n # 0 /\ n - 1 \in Nat
  BY <1>1
<1>3. n - 1 \in S
  BY <1>1, <1>2
<1> QED
  BY <1>1, <1>2, <1>3

\* Induction on the size of a finite set: its subsets that have a property
\* are a set F.
LEMMA SubsetInduction ==
  ASSUME NEW A, IsFiniteSet(A), NEW F, {} \in F,
         \A T \in SUBSET A : \A x \in A \ T : T \in F => T \cup {x} \in F
  PROVE  \A T \in SUBSET A : T \in F
<1> DEFINE S == {n \in Nat : \A T \in SUBSET A : Cardinality(T) = n => T \in F}
<1>0. \A T \in SUBSET A : IsFiniteSet(T) /\ Cardinality(T) \in Nat
  BY FS_Subset, FS_CardinalityType
<1>1. 0 \in S
  BY <1>0, FS_EmptySet
<1>2. ASSUME NEW n \in Nat, n \in S PROVE n + 1 \in S
  <2> SUFFICES ASSUME NEW T \in SUBSET A, Cardinality(T) = n + 1 PROVE T \in F
    OBVIOUS
  <2>0. IsFiniteSet(T) /\ Cardinality(T) # 0
    BY <1>0
  <2>1. PICK x : x \in T
    BY <2>0, FS_EmptySet
  <2>2. Cardinality(T \ {x}) = Cardinality(T) - 1
    BY <2>0, <2>1, FS_RemoveElement
  <2>3. T \ {x} \in F
    BY <1>2, <2>2, n + 1 - 1 = n
  <2>4. (T \ {x}) \cup {x} = T /\ x \in A \ (T \ {x}) /\ T \ {x} \in SUBSET A
    BY <2>1
  <2> QED
    BY <2>3, <2>4
<1>3. Nat \subseteq S
  <2> HIDE DEF S
  <2> QED
    BY <1>1, <1>2, NumberInduction
<1> QED
  BY <1>0, <1>3

\* The definition looks at arguments of smaller size only.
LooksDown(c, D, size) ==
  \A g, h : \A i \in D : (\A j \in D : size[j] < size[i] => g[j] = h[j]) => Value(c, g, i) = Value(c, h, i)

\* Such a definition defines a function, when sizes are bounded.
LEMMA ExistsBySize ==
  ASSUME NEW c, NEW D, NEW size \in [D -> Nat], NEW n \in Nat, \A i \in D : size[i] < n, LooksDown(c, D, size)
  PROVE  \E g : g = [i \in D |-> Value(c, g, i)]
<1> DEFINE Upto(g, m) == \A i \in D : size[i] < m => g[i] = Value(c, g, i)
           S == {m \in Nat : \E g : Upto(g, m)}
<1>1. ASSUME NEW g, NEW h, NEW m \in Nat, Upto(g, m), h = [i \in D |-> Value(c, g, i)]
      PROVE  \A i \in D : size[i] < m + 1 => h[i] = Value(c, h, i)
  <2> SUFFICES ASSUME NEW i \in D, size[i] < m + 1 PROVE h[i] = Value(c, h, i)
    OBVIOUS
  <2>1. \A j \in D : size[j] < size[i] => g[j] = h[j]
    BY <1>1
  <2>2. Value(c, g, i) = Value(c, h, i)
    BY <2>1 DEF LooksDown
  <2> QED
    BY <1>1, <2>2
<1>2. 0 \in S
  BY DEF S
<1>3. ASSUME NEW m \in Nat, m \in S PROVE m + 1 \in S
  <2>1. PICK g : Upto(g, m)
    BY <1>3
  <2>2. PICK h : h = [i \in D |-> Value(c, g, i)]
    OBVIOUS
  <2>3. Upto(h, m + 1)
    BY <1>1, <2>1, <2>2
  <2> HIDE DEF Upto
  <2> QED
    BY <2>3
<1>4. Nat \subseteq S
  <2> HIDE DEF S
  <2> QED
    BY <1>2, <1>3, NumberInduction
<1>5. PICK g : Upto(g, n)
  BY <1>4
<1>6. PICK h : h = [i \in D |-> Value(c, g, i)]
  OBVIOUS
<1>7. \A i \in D : h[i] = Value(c, h, i)
  BY <1>1, <1>5, <1>6
<1>8. h = [i \in D |-> Value(c, h, i)]
  BY <1>6, <1>7
<1> QED
  BY <1>8

\* Among the numbers from lo on, the definition looks at smaller ones only.
LooksBack(c, lo) ==
  \A g, h : \A i \in Nat : (\A j \in lo..(i - 1) : g[j] = h[j]) => Value(c, g, i) = Value(c, h, i)

\* Such a definition defines a function.
LEMMA Exists ==
  ASSUME NEW c, NEW lo \in Nat, LooksBack(c, lo)
  PROVE  \A n \in Nat : \E g : g = [i \in lo..n |-> Value(c, g, i)]
<1> SUFFICES ASSUME NEW n \in Nat PROVE \E g : g = [i \in lo..n |-> Value(c, g, i)]
  OBVIOUS
<1> DEFINE D == lo..n
           size == [i \in D |-> i]
<1>1. size \in [D -> Nat] /\ n + 1 \in Nat /\ \A i \in D : size[i] < n + 1
  OBVIOUS
<1>2. LooksDown(c, D, size)
  <2> SUFFICES ASSUME NEW g, NEW h, NEW i \in D, \A j \in D : size[j] < size[i] => g[j] = h[j]
               PROVE  Value(c, g, i) = Value(c, h, i)
    BY DEF LooksDown
  <2>1. i \in Nat /\ \A j \in lo..(i - 1) : g[j] = h[j]
    OBVIOUS
  <2> QED
    BY <2>1 DEF LooksBack
<1> HIDE DEF size
<1> QED
  BY <1>1, <1>2, ExistsBySize

\* What a recursive definition on D chooses.
Chosen(c, D) == CHOOSE g : g = [i \in D |-> Value(c, g, i)]

\* It is the function it describes, once there is one.
LEMMA ChosenIs ==
  ASSUME NEW c, NEW D, \E g : g = [i \in D |-> Value(c, g, i)]
  PROVE  DOMAIN Chosen(c, D) = D /\ \A i \in D : Chosen(c, D)[i] = Value(c, Chosen(c, D), i)
<1> DEFINE Is(g) == g = [i \in D |-> Value(c, g, i)]
           chosen == CHOOSE g : Is(g)
<1>1. Is(chosen)
  <2>1. \E g : Is(g)
    OBVIOUS
  <2> HIDE DEF Is
  <2> QED
    BY <2>1
<1>2. Chosen(c, D) = chosen
  BY DEF Chosen
<1> HIDE DEF chosen
<1> QED
  BY <1>1, <1>2

\* So it is when the definition looks back.
LEMMA Defined ==
  ASSUME NEW c, NEW lo \in Nat, NEW n \in Nat, NEW D, D = lo..n, LooksBack(c, lo)
  PROVE  DOMAIN Chosen(c, D) = D /\ \A i \in D : Chosen(c, D)[i] = Value(c, Chosen(c, D), i)
<1>1. \E g : g = [i \in D |-> Value(c, g, i)]
  BY Exists
<1> QED
  BY <1>1, ChosenIs

\* FoldLeft with the step Value, as SequencesExt and Folds define it.
Largest(t) == CHOOSE i \in t : \A j \in t : i >= j
Fold(c, base, s) ==
  (CHOOSE iter :
     iter = [t \in SUBSET (DOMAIN s) |->
               IF t = {} THEN base ELSE Value(c, iter[t \ {Largest(t)}], s[Largest(t)])])[DOMAIN s]

\* A fold takes the items one after the other.
LEMMA FoldRuns ==
  ASSUME NEW c, NEW base, NEW s, NEW n \in Nat, DOMAIN s = 1..n
  PROVE  \E run : /\ run[0] = base /\ run[n] = Fold(c, base, s)
                  /\ \A i \in 1..n : run[i] = Value(c, run[i - 1], s[i])
<1> DEFINE D == SUBSET (DOMAIN s)
           Iter(g, t) == IF t = {} THEN base ELSE Value(c, g[t \ {Largest(t)}], s[Largest(t)])
           Is(g) == g = [t \in D |-> Iter(g, t)]
           iter == CHOOSE g : Is(g)
           Upto(g, m) == \A t \in D : Cardinality(t) < m => g[t] = Iter(g, t)
           S == {m \in Nat : \E g : Upto(g, m)}
<1>1. Fold(c, base, s) = iter[DOMAIN s]
  BY DEF Fold
<1>2. \A t \in D : IsFiniteSet(t) /\ Cardinality(t) \in Nat /\ Cardinality(t) <= n
  <2>1. IsFiniteSet(1..n) /\ Cardinality(1..n) = n
    <3>1. 1 \in Int /\ n \in Int
      OBVIOUS
    <3> QED
      BY <3>1, FS_Interval
  <2> QED
    BY <2>1, FS_Subset, FS_CardinalityType
<1>3. ASSUME NEW t \in D, t # {} PROVE Largest(t) \in t /\ \A j \in t : Largest(t) >= j
  <2> DEFINE T == {n - i : i \in t}
  <2>1. T \in SUBSET Nat /\ T # {}
    BY <1>3
  <2>2. PICK m \in T : \A k \in T : m <= k
    <3> HIDE DEF T
    <3> QED
      BY <2>1, LeastNumber
  <2>3. PICK i \in t : m = n - i
    OBVIOUS
  <2>4. ASSUME NEW j \in t PROVE i >= j
    <3>1. n - j \in T /\ i \in 1..n /\ j \in 1..n
      BY <1>3
    <3>2. n - i <= n - j
      BY <2>2, <2>3, <3>1
    <3> QED
      BY <3>1, <3>2
  <2> QED
    BY <2>4 DEF Largest
<1>4. PICK last : \A t \in D : last[t] = Largest(t)
  <2>1. PICK last : last = [t \in D |-> Largest(t)]
    OBVIOUS
  <2> QED
    BY <2>1
<1>5. \A t \in D : t # {} => last[t] \in t /\ \A j \in t : last[t] >= j
  <2> QED
    BY <1>3, <1>4
<1> DEFINE Next(g, t) == IF t = {} THEN base ELSE Value(c, g[t \ {last[t]}], s[last[t]])
<1>6. \A g : \A t \in D : Iter(g, t) = Next(g, t)
  <2> QED
    BY <1>4
<1>7. ASSUME NEW g, NEW h, NEW t \in D, \A u \in D : Cardinality(u) < Cardinality(t) => g[u] = h[u]
      PROVE  Next(g, t) = Next(h, t)
  <2>1. CASE t = {}
    BY <2>1
  <2>2. CASE t # {}
    <3> DEFINE u == t \ {last[t]}
    <3>1. u \in D /\ Cardinality(u) < Cardinality(t)
      <4>1. last[t] \in t /\ IsFiniteSet(t)
        BY <1>2, <1>5, <2>2
      <4>2. Cardinality(u) = Cardinality(t) - 1 /\ Cardinality(t) \in Nat
        BY <4>1, FS_RemoveElement, FS_CardinalityType
      <4> QED
        BY <4>2
    <3>2. g[u] = h[u]
      BY <1>7, <3>1
    <3> QED
      BY <2>2, <3>2
  <2> QED
    BY <2>1, <2>2
<1> HIDE DEF Iter, Next
<1>8. ASSUME NEW g, NEW h, NEW m \in Nat, Upto(g, m), h = [t \in D |-> Iter(g, t)]
      PROVE  Upto(h, m + 1)
  <2> SUFFICES ASSUME NEW t \in D, Cardinality(t) < m + 1 PROVE h[t] = Iter(h, t)
    OBVIOUS
  <2>1. \A u \in D : Cardinality(u) < Cardinality(t) => g[u] = h[u]
    <3> SUFFICES ASSUME NEW u \in D, Cardinality(u) < Cardinality(t) PROVE g[u] = h[u]
      OBVIOUS
    <3>1. Cardinality(u) < m
      BY <1>2
    <3> QED
      BY <1>8, <3>1
  <2>2. Next(g, t) = Next(h, t)
    BY <1>7, <2>1
  <2> QED
    BY <1>6, <1>8, <2>2
<1>9. 0 \in S
  BY <1>2
<1>10. ASSUME NEW m \in Nat, m \in S PROVE m + 1 \in S
  <2>1. PICK g : Upto(g, m)
    BY <1>10
  <2>2. PICK h : h = [t \in D |-> Iter(g, t)]
    OBVIOUS
  <2>3. Upto(h, m + 1)
    <3> HIDE DEF Upto
    <3> QED
      BY <1>8, <2>1, <2>2
  <2> HIDE DEF Upto
  <2> QED
    BY <2>3
<1>11. Nat \subseteq S
  <2> HIDE DEF S
  <2> QED
    BY <1>9, <1>10, NumberInduction
<1>12. \E g : Is(g)
  <2>1. PICK g : Upto(g, n + 1)
    <3> HIDE DEF Upto
    <3>1. n + 1 \in S
      BY <1>11
    <3> QED
      BY <3>1
  <2>2. \A t \in D : Cardinality(t) < n + 1
    BY <1>2
  <2>3. \A t \in D : g[t] = Iter(g, t)
    BY <2>1, <2>2
  <2>4. g = g /\ [t \in D |-> g[t]] = [t \in D |-> Iter(g, t)]
    BY <2>3
  <2>5. PICK h : h = [t \in D |-> Iter(g, t)]
    OBVIOUS
  <2>6. Upto(h, n + 1)
    <3>1. Upto(h, n + 1 + 1)
      <4> HIDE DEF Upto
      <4> QED
        BY <1>8, <2>1, <2>5
    <3>2. \A t \in D : Cardinality(t) < n + 1 + 1
      BY <1>2
    <3> QED
      BY <3>1, <3>2
  <2>7. \A t \in D : h[t] = Iter(h, t)
    BY <2>2, <2>6
  <2> QED
    BY <2>5, <2>7
<1>13. Is(iter)
  <2> HIDE DEF Is
  <2> QED
    BY <1>12
<1>14. \A t \in D : iter[t] = Next(iter, t)
  <2> HIDE DEF iter
  <2> QED
    BY <1>6, <1>13
<1> HIDE DEF iter
<1>15. PICK run : run = [i \in 0..n |-> iter[1..i]]
  OBVIOUS
<1>16. run[0] = base
  <2>1. 1..0 = {} /\ 0 \in 0..n
    OBVIOUS
  <2>2. {} \in D /\ run[0] = iter[{}]
    BY <1>15, <2>1
  <2> QED
    BY <1>14, <2>2 DEF Next
<1>17. run[n] = Fold(c, base, s)
  BY <1>1, <1>15
<1>18. ASSUME NEW i \in 1..n PROVE run[i] = Value(c, run[i - 1], s[i])
  <2>1. 1..i \in D /\ 1..i # {} /\ i \in 1..i /\ 1..(i - 1) = (1..i) \ {i}
    OBVIOUS
  <2>2. last[1..i] = i
    <3>1. PICK k : k = last[1..i]
      OBVIOUS
    <3>2. k \in 1..i /\ k >= i
      BY <1>5, <2>1, <3>1
    <3> QED
      BY <3>1, <3>2
  <2>3. iter[1..i] = Value(c, iter[1..(i - 1)], s[i])
    BY <1>14, <2>1, <2>2 DEF Next
  <2> QED
    BY <1>15, <2>3
<1> QED
  BY <1>16, <1>17, <1>18
=============================================================================
