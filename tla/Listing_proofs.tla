--------------------------- MODULE Listing_proofs ---------------------------
(***************************************************************************)
(* What lists and sums over finite sets are.  Both are recursive over the  *)
(* subsets of a set; the induction is a choice of a least counterexample   *)
(* from a set.                                                             *)
(***************************************************************************)
EXTENDS Listing, FiniteSets, FiniteSetTheorems, WellFoundedInduction, TLAPS

-----------------------------------------------------------------------------
(***************************************************************************)
(* Induction and recursion.                                                *)
(***************************************************************************)

\* Numbers that have 0, and with a number its successor, are all of them.
LEMMA NumbersByInduction ==
    ASSUME NEW G, 0 \in G, \A n \in Nat : n \in G => n + 1 \in G
    PROVE  Nat \subseteq G
<1> DEFINE Rest == Nat \ G
           Less == OpToRel(<, Nat)
<1>1. IsWellFoundedOn(Less, Nat)
  BY NatLessThanWellFounded
<1>2. \A m, n \in Nat : <<m, n>> \in Less <=> m < n
  BY DEF OpToRel
<1> HIDE DEF Less
<1>3. ASSUME Rest # {}
      PROVE  FALSE
  <2>1. PICK n \in Rest : \A m \in Rest : ~ (<<m, n>> \in Less)
    BY <1>1, <1>3, WFMin
  <2>2. n \in Nat /\ n # 0
    OBVIOUS
  <2>3. n - 1 \in Nat /\ n - 1 < n
    BY <2>2
  <2>4. n - 1 \in G
    BY <1>2, <2>1, <2>3
  <2> QED
    BY <2>1, <2>2, <2>3, <2>4
<1> QED
  BY <1>3

\* Sets that have every subset of S all of whose strict subsets they have are
\* all of the subsets of S.
LEMMA SubsetsByInduction ==
    ASSUME NEW S, IsFiniteSet(S), NEW G,
           \A T \in SUBSET S : (\A U \in (SUBSET T) \ {T} : U \in G) => T \in G
    PROVE  SUBSET S \subseteq G
<1> DEFINE Rest == (SUBSET S) \ G
           Less == StrictSubsetOrdering(S)
<1>1. IsWellFoundedOn(Less, FiniteSubsetsOf(S))
  BY FS_StrictSubsetOrderingWellFounded
<1>2. FiniteSubsetsOf(S) = SUBSET S
  BY FS_FiniteSubsetsOfFinite
<1>3. \A T \in SUBSET S : \A U \in (SUBSET T) \ {T} : <<U, T>> \in Less
  BY DEF StrictSubsetOrdering
<1> HIDE DEF Less
<1>4. ASSUME Rest # {}
      PROVE  FALSE
  <2>0. Rest \subseteq FiniteSubsetsOf(S)
    BY <1>2
  <2>1. \E T \in Rest : \A U \in Rest : ~ (<<U, T>> \in Less)
    <3> HIDE DEF Rest
    <3> QED
      BY <1>1, <1>4, <2>0, WFMin
  <2>2. PICK T \in Rest : \A U \in Rest : ~ (<<U, T>> \in Less)
    BY <2>1
  <2>3. ASSUME NEW U \in (SUBSET T) \ {T}
        PROVE  U \in G
    <3>1. T \in SUBSET S /\ U \in SUBSET S
      BY <2>2
    <3>2. <<U, T>> \in Less
      BY <1>3, <3>1
    <3> QED
      BY <2>2, <3>1, <3>2
  <2> QED
    BY <2>2, <2>3
<1> QED
  BY <1>4

\* g is what the recursion over the subsets of S makes that starts from base
\* and adds the element first[T] of T to what it makes of the others.
Recurs(g, S, first, add, base) ==
    \A T \in SUBSET S :
      g[T] = IF T = {} THEN base ELSE add[<<first[T], g[T \ {first[T]}]>>]

\* Such a recursion makes something.
LEMMA RecursionExists ==
    ASSUME NEW S, IsFiniteSet(S), NEW V, NEW base \in V,
           NEW first, \A T \in SUBSET S : T # {} => first[T] \in T,
           NEW add \in [S \X V -> V]
    PROVE  \E g \in [SUBSET S -> V] : Recurs(g, S, first, add, base)
<1> DEFINE Upon(g) == [T \in SUBSET S |->
                         IF T = {} THEN base ELSE add[<<first[T], g[T \ {first[T]}]>>]]
           Good(g, n) == \A T \in SUBSET S : Cardinality(T) <= n => g[T] = Upon(g)[T]
           G == {n \in Nat : \E g \in [SUBSET S -> V] : Good(g, n)}
<1>1. ASSUME NEW g \in [SUBSET S -> V]
      PROVE  Upon(g) \in [SUBSET S -> V]
  <2>1. ASSUME NEW T \in SUBSET S, T # {}
        PROVE  add[<<first[T], g[T \ {first[T]}]>>] \in V
    <3>1. first[T] \in S /\ g[T \ {first[T]}] \in V
      BY <2>1
    <3> QED
      BY <3>1
  <2> QED
    BY <2>1
<1>2. \A T \in SUBSET S : Cardinality(T) \in Nat /\ IsFiniteSet(T)
  BY FS_Subset, FS_CardinalityType
<1>3. 0 \in G
  <2> DEFINE g0 == [T \in SUBSET S |-> base]
  <2>1. g0 \in [SUBSET S -> V]
    OBVIOUS
  <2>2. ASSUME NEW T \in SUBSET S, Cardinality(T) <= 0
        PROVE  g0[T] = Upon(g0)[T]
    <3>1. T = {}
      BY <1>2, <2>2, FS_EmptySet
    <3> QED
      BY <3>1
  <2>3. Good(g0, 0)
    BY <2>2
  <2> HIDE DEF g0, Good
  <2> QED
    BY <2>1, <2>3
<1>4. ASSUME NEW n \in Nat, n \in G
      PROVE  n + 1 \in G
  <2>1. PICK g \in [SUBSET S -> V] : Good(g, n)
    BY <1>4
  <2>2. Upon(g) \in [SUBSET S -> V]
    BY <1>1
  <2>3. ASSUME NEW T \in SUBSET S, Cardinality(T) <= n + 1
        PROVE  Upon(g)[T] = Upon(Upon(g))[T]
    <3>1. CASE T = {}
      BY <3>1
    <3>2. CASE T # {}
      <4> DEFINE U == T \ {first[T]}
      <4>1. U \in SUBSET S /\ Cardinality(U) = Cardinality(T) - 1
        BY <1>2, <3>2, FS_RemoveElement
      <4>2. Cardinality(U) <= n
        BY <1>2, <2>3, <4>1
      <4>3. g[U] = Upon(g)[U]
        BY <2>1, <4>1, <4>2
      <4>4. Upon(g)[T] = add[<<first[T], g[U]>>]
        BY <3>2
      <4>5. Upon(Upon(g))[T] = add[<<first[T], Upon(g)[U]>>]
        BY <3>2
      <4> QED
        BY <4>3, <4>4, <4>5
    <3> QED
      BY <3>1, <3>2
  <2>4. Good(Upon(g), n + 1)
    BY <2>3
  <2> HIDE DEF Upon, Good
  <2> QED
    BY <2>2, <2>4
<1>5. Nat \subseteq G
  <2> HIDE DEF G
  <2> QED
    BY <1>3, <1>4, NumbersByInduction
<1>6. PICK g \in [SUBSET S -> V] : Good(g, Cardinality(S))
  <2>1. Cardinality(S) \in G
    BY <1>2, <1>5
  <2> QED
    BY <2>1
<1>7. \A T \in SUBSET S : Cardinality(T) <= Cardinality(S)
  BY FS_Subset
<1>8. \A T \in SUBSET S : g[T] = Upon(g)[T]
  BY <1>6, <1>7
<1>9. Recurs(g, S, first, add, base)
  BY <1>8 DEF Recurs
<1> QED
  BY <1>9

-----------------------------------------------------------------------------
(***************************************************************************)
(* Finite sets.                                                            *)
(***************************************************************************)

\* What a function makes of a finite set is finite.
LEMMA ImageIsFinite ==
    ASSUME NEW S, IsFiniteSet(S), NEW f
    PROVE  IsFiniteSet({f[x] : x \in S})
<1> DEFINE T == {f[x] : x \in S}
           g == [x \in S |-> f[x]]
<1>1. g \in Surjection(S, T)
  BY DEF Surjection
<1> HIDE DEF g, T
<1>2. IsFiniteSet(T)
  BY <1>1, FS_Surjection
<1> QED
  BY <1>2 DEF T

-----------------------------------------------------------------------------
(***************************************************************************)
(* Lists in order.                                                         *)
(***************************************************************************)

\* s holds every element of S once, in an order that respects R.
Lists(s, S, R) ==
    /\ s \in Seq(S)
    /\ Len(s) = Cardinality(S)
    /\ \A x \in S : \E i \in 1..Len(s) : s[i] = x
    /\ \A i, j \in 1..Len(s) : s[i] = s[j] => i = j
    /\ \A i, j \in 1..Len(s) : i < j => <<s[j], s[i]>> \notin R

\* Every part of S has an element nothing in it goes before.
HasFirst(S, R) == \A T \in SUBSET S : T # {} => \E x \in T : \A y \in T : <<y, x>> \notin R

\* It has one when going before means having a smaller rank.
LEMMA RankedHasFirst ==
    ASSUME NEW S, NEW R, NEW rank \in [S -> Nat],
           \A x, y \in S : <<x, y>> \in R => rank[x] < rank[y]
    PROVE  HasFirst(S, R)
<1> DEFINE Less == OpToRel(<, Nat)
<1>1. IsWellFoundedOn(Less, Nat)
  BY NatLessThanWellFounded
<1>2. \A m, n \in Nat : <<m, n>> \in Less <=> m < n
  BY DEF OpToRel
<1> HIDE DEF Less
<1>3. ASSUME NEW T \in SUBSET S, T # {}
      PROVE  \E x \in T : \A y \in T : <<y, x>> \notin R
  <2> DEFINE Ranks == {rank[x] : x \in T}
  <2>1. Ranks \subseteq Nat /\ Ranks # {}
    BY <1>3
  <2>2. \E n \in Ranks : \A m \in Ranks : ~ (<<m, n>> \in Less)
    <3> HIDE DEF Ranks
    <3> QED
      BY <1>1, <2>1, WFMin
  <2>3. PICK x \in T : \A m \in Ranks : ~ (<<m, rank[x]>> \in Less)
    BY <2>2
  <2>4. ASSUME NEW y \in T
        PROVE  <<y, x>> \notin R
    <3>1. ~ (<<rank[y], rank[x]>> \in Less)
      BY <2>3
    <3>2. rank[x] \in Nat /\ rank[y] \in Nat
      OBVIOUS
    <3>3. ~ (rank[y] < rank[x])
      BY <1>2, <3>1, <3>2
    <3> QED
      BY <3>3
  <2> QED
    BY <2>4
<1> QED
  BY <1>3 DEF HasFirst

\* The first of a set before a list of the others is a list of the set.
LEMMA ListsFirst ==
    ASSUME NEW S, IsFiniteSet(S), NEW R, NEW x \in S, \A y \in S : <<y, x>> \notin R,
           NEW s, Lists(s, S \ {x}, R)
    PROVE  Lists(<<x>> \o s, S, R)
<1> DEFINE t == <<x>> \o s
           U == S \ {x}
<1>1. /\ s \in Seq(U)
      /\ Len(s) = Cardinality(S) - 1
      /\ Cardinality(S) \in Nat
      /\ Len(s) \in Nat
  BY FS_RemoveElement, FS_CardinalityType DEF Lists
<1>2. \A i \in 1..Len(s) : s[i] \in U
  BY <1>1
<1>3. /\ t \in Seq(S)
      /\ Len(t) = Len(s) + 1
      /\ t[1] = x
      /\ \A i \in 1..Len(s) : t[i + 1] = s[i]
      /\ \A i \in 2..Len(t) : i - 1 \in 1..Len(s) /\ t[i] = s[i - 1]
  BY <1>1, <1>2
<1> HIDE DEF t
<1>4. \A y \in S : \E i \in 1..Len(t) : t[i] = y
  <2>1. ASSUME NEW y \in U
        PROVE  \E i \in 1..Len(t) : t[i] = y
    <3>1. PICK i \in 1..Len(s) : s[i] = y
      BY DEF Lists
    <3>2. i + 1 \in 1..Len(t) /\ t[i + 1] = y
      BY <1>1, <1>3, <3>1
    <3> QED
      BY <3>2
  <2>2. 1 \in 1..Len(t)
    BY <1>1, <1>3
  <2> QED
    BY <1>3, <2>1, <2>2
<1>5. ASSUME NEW i \in 1..Len(t), NEW j \in 1..Len(t), i < j
      PROVE  t[i] # t[j] /\ <<t[j], t[i]>> \notin R
  <2>1. j \in 2..Len(t) /\ j - 1 \in 1..Len(s) /\ t[j] = s[j - 1] /\ s[j - 1] \in U
    BY <1>1, <1>2, <1>3, <1>5
  <2>2. CASE i = 1
    BY <1>3, <2>1, <2>2
  <2>3. CASE i # 1
    <3>1. i \in 2..Len(t) /\ i - 1 \in 1..Len(s) /\ t[i] = s[i - 1] /\ i - 1 < j - 1
      BY <1>1, <1>3, <1>5, <2>3
    <3>2. /\ s[i - 1] = s[j - 1] => i - 1 = j - 1
          /\ <<s[j - 1], s[i - 1]>> \notin R
      BY <2>1, <3>1 DEF Lists
    <3> QED
      BY <2>1, <3>1, <3>2
  <2> QED
    BY <2>2, <2>3
<1>6. ASSUME NEW i \in 1..Len(t), NEW j \in 1..Len(t), t[i] = t[j]
      PROVE  i = j
  <2>1. i < j \/ j < i \/ i = j
    BY <1>1, <1>3
  <2> QED
    BY <1>5, <1>6, <2>1
<1>7. Len(t) = Cardinality(S)
  BY <1>1, <1>3
<1>8. Lists(t, S, R)
  <2>1. t \in Seq(S)
    BY <1>3
  <2> QED
    BY <1>4, <1>5, <1>6, <1>7, <2>1 DEF Lists
<1> QED
  BY <1>8 DEF t

\* Putting a finite set in order lists it.
LEMMA InOrderLists ==
    ASSUME NEW S, IsFiniteSet(S), NEW R, HasFirst(S, R)
    PROVE  Lists(InOrder(S, R), S, R)
<1> DEFINE first == [T \in SUBSET S |-> CHOOSE x \in T : \A y \in T : <<y, x>> \notin R]
           add == [p \in S \X Seq(S) |-> <<p[1]>> \o p[2]]
           Upon(g) == [T \in SUBSET S |->
                         IF T = {} THEN <<>>
                         ELSE <<CHOOSE x \in T : \A y \in T : <<y, x>> \notin R>>
                                \o g[T \ {CHOOSE x \in T : \A y \in T : <<y, x>> \notin R}]]
<1>1. ASSUME NEW T \in SUBSET S, T # {}
      PROVE  first[T] \in T /\ \A y \in T : <<y, first[T]>> \notin R
  BY <1>1 DEF HasFirst
<1>2. add \in [S \X Seq(S) -> Seq(S)]
  OBVIOUS
<1>3. PICK g \in [SUBSET S -> Seq(S)] : Recurs(g, S, first, add, <<>>)
  <2>1. \A T \in SUBSET S : T # {} => first[T] \in T
    BY <1>1
  <2>2. <<>> \in Seq(S)
    OBVIOUS
  <2> HIDE DEF first, add
  <2> QED
    BY <1>2, <2>1, <2>2, RecursionExists
<1>4. ASSUME NEW T \in SUBSET S, T # {}
      PROVE  g[T] = <<first[T]>> \o g[T \ {first[T]}]
  <2>1. T \ {first[T]} \in SUBSET S /\ first[T] \in S
    BY <1>1, <1>4
  <2>2. g[T \ {first[T]}] \in Seq(S)
    BY <2>1
  <2>3. g[T] = add[<<first[T], g[T \ {first[T]}]>>]
    BY <1>3, <1>4 DEF Recurs
  <2> HIDE DEF first
  <2> QED
    BY <2>1, <2>2, <2>3
<1>5. g[{}] = <<>>
  BY <1>3 DEF Recurs
<1>6. g = Upon(g)
  <2>1. \A T \in SUBSET S : g[T] = Upon(g)[T]
    BY <1>4, <1>5
  <2> QED
    BY <2>1
<1> DEFINE sorted == CHOOSE h : h = Upon(h)
<1>7. sorted = Upon(sorted)
  <2> HIDE DEF Upon
  <2> QED
    BY <1>6
<1>8. InOrder(S, R) = sorted[S]
  BY DEF InOrder
<1> HIDE DEF sorted
<1>9. ASSUME NEW T \in SUBSET S, T # {}
      PROVE  sorted[T] = <<first[T]>> \o sorted[T \ {first[T]}]
  BY <1>7, <1>9
<1>10. sorted[{}] = <<>>
  BY <1>7
<1> DEFINE G == {T \in SUBSET S : Lists(sorted[T], T, R)}
<1>11. ASSUME NEW T \in SUBSET S, \A U \in (SUBSET T) \ {T} : U \in G
       PROVE  T \in G
  <2>1. CASE T = {}
    <3>1. Lists(<<>>, {}, R)
      BY FS_EmptySet DEF Lists
    <3> QED
      BY <1>10, <2>1, <3>1
  <2>2. CASE T # {}
    <3>1. first[T] \in T /\ \A y \in T : <<y, first[T]>> \notin R
      BY <1>1, <2>2
    <3>2. T \ {first[T]} \in (SUBSET T) \ {T}
      BY <3>1
    <3>3. Lists(sorted[T \ {first[T]}], T \ {first[T]}, R)
      BY <1>11, <3>2
    <3>4. IsFiniteSet(T)
      BY FS_Subset
    <3>5. sorted[T] = <<first[T]>> \o sorted[T \ {first[T]}]
      BY <1>9, <2>2
    <3> HIDE DEF first
    <3>6. Lists(sorted[T], T, R)
      BY <3>1, <3>3, <3>4, <3>5, ListsFirst
    <3> QED
      BY <3>6
  <2> QED
    BY <2>1, <2>2
<1>12. SUBSET S \subseteq G
  <2> HIDE DEF G
  <2> QED
    BY <1>11, SubsetsByInduction
<1> QED
  BY <1>8, <1>12

-----------------------------------------------------------------------------
(***************************************************************************)
(* Picking out of a list.                                                  *)
(***************************************************************************)

\* g is what the recursion up to n makes that starts from base.
Counts(g, n, step, base) == g[0] = base /\ \A i \in 1..n : g[i] = step[<<i, g[i - 1]>>]

\* Such a recursion makes something.
LEMMA CountingExists ==
    ASSUME NEW n \in Nat, NEW V, NEW base \in V, NEW step \in [(1..n) \X V -> V]
    PROVE  \E g \in [0..n -> V] : Counts(g, n, step, base)
<1> DEFINE Good(g, m) == Counts(g, m, step, base)
           G == {m \in Nat : m <= n => \E g \in [0..n -> V] : Good(g, m)}
<1>1. 0 \in G
  <2> DEFINE g == [i \in 0..n |-> base]
  <2>1. g \in [0..n -> V] /\ Good(g, 0)
    BY DEF Counts
  <2> HIDE DEF g, Good
  <2> QED
    BY <2>1
<1>2. ASSUME NEW m \in Nat, m \in G
      PROVE  m + 1 \in G
  <2>1. ASSUME m + 1 <= n
        PROVE  \E h \in [0..n -> V] : Good(h, m + 1)
    <3>1. PICK g \in [0..n -> V] : Good(g, m)
      BY <1>2, <2>1
    <3> DEFINE next == step[<<m + 1, g[m]>>]
               h == [i \in 0..n |-> IF i = m + 1 THEN next ELSE g[i]]
    <3>2. next \in V
      <4>1. m + 1 \in 1..n /\ m \in 0..n
        BY <2>1
      <4> QED
        BY <4>1
    <3>3. h \in [0..n -> V]
      BY <3>2
    <3>4. h[0] = base
      BY <3>1 DEF Counts
    <3>5. ASSUME NEW i \in 1..(m + 1)
          PROVE  h[i] = step[<<i, h[i - 1]>>]
      <4>1. i \in 0..n /\ i - 1 \in 0..n /\ i - 1 # m + 1
        BY <2>1
      <4>2. h[i - 1] = g[i - 1]
        BY <4>1
      <4>3. CASE i = m + 1
        BY <4>1, <4>2, <4>3
      <4>4. CASE i # m + 1
        <5>1. i \in 1..m /\ h[i] = g[i]
          BY <4>1, <4>4
        <5> QED
          BY <3>1, <4>2, <5>1 DEF Counts
      <4> QED
        BY <4>3, <4>4
    <3>6. Good(h, m + 1)
      BY <3>4, <3>5 DEF Counts
    <3> HIDE DEF h, Good
    <3> QED
      BY <3>3, <3>6
  <2> HIDE DEF Good
  <2> QED
    BY <2>1
<1>3. n \in G
  <2> HIDE DEF G
  <2> QED
    BY <1>1, <1>2, NumbersByInduction
<1> QED
  BY <1>3

\* A list with one more element at its end, which need not go before any of
\* the others, is a list of one more.
LEMMA ListsLast ==
    ASSUME NEW S, IsFiniteSet(S), NEW R, NEW s, Lists(s, S, R),
           NEW x, x \notin S, \A y \in S : <<x, y>> \notin R
    PROVE  Lists(Append(s, x), S \cup {x}, R)
<1> DEFINE t == Append(s, x)
           U == S \cup {x}
<1>1. /\ s \in Seq(S)
      /\ Len(s) = Cardinality(S)
      /\ Cardinality(U) = Cardinality(S) + 1
      /\ Len(s) \in Nat
  BY FS_AddElement, FS_CardinalityType DEF Lists
<1>2. /\ t \in Seq(U)
      /\ Len(t) = Len(s) + 1
      /\ t[Len(t)] = x
      /\ \A i \in 1..Len(s) : t[i] = s[i] /\ s[i] \in S
      /\ \A i \in 1..Len(t) : i # Len(t) => i \in 1..Len(s)
  BY <1>1
<1> HIDE DEF t
<1>3. \A y \in U : \E i \in 1..Len(t) : t[i] = y
  <2>1. ASSUME NEW y \in S
        PROVE  \E i \in 1..Len(t) : t[i] = y
    <3>1. PICK i \in 1..Len(s) : s[i] = y
      BY DEF Lists
    <3>2. i \in 1..Len(t) /\ t[i] = y
      BY <1>1, <1>2, <3>1
    <3> QED
      BY <3>2
  <2>2. Len(t) \in 1..Len(t)
    BY <1>1, <1>2
  <2> QED
    BY <1>2, <2>1, <2>2
<1>4. ASSUME NEW i \in 1..Len(t), NEW j \in 1..Len(t), i < j
      PROVE  t[i] # t[j] /\ <<t[j], t[i]>> \notin R
  <2>1. i \in 1..Len(s) /\ t[i] = s[i] /\ s[i] \in S
    BY <1>1, <1>2, <1>4
  <2>2. CASE j = Len(t)
    BY <1>2, <2>1, <2>2
  <2>3. CASE j # Len(t)
    <3>1. j \in 1..Len(s) /\ t[j] = s[j]
      BY <1>2, <2>3
    <3>2. /\ s[i] = s[j] => i = j
          /\ <<s[j], s[i]>> \notin R
      BY <1>4, <2>1, <3>1 DEF Lists
    <3> QED
      BY <1>4, <2>1, <3>1, <3>2
  <2> QED
    BY <2>2, <2>3
<1>5. ASSUME NEW i \in 1..Len(t), NEW j \in 1..Len(t), t[i] = t[j]
      PROVE  i = j
  <2>1. i < j \/ j < i \/ i = j
    BY <1>1, <1>2
  <2> QED
    BY <1>4, <1>5, <2>1
<1>6. Len(t) = Cardinality(U)
  BY <1>1, <1>2
<1>7. Lists(t, U, R)
  <2>1. t \in Seq(U)
    BY <1>2
  <2> HIDE DEF U
  <2> QED
    BY <1>3, <1>4, <1>5, <1>6, <2>1 DEF Lists
<1> QED
  BY <1>7 DEF t

\* What is picked out of a list is a list of what is picked.
LEMMA ThoseLists ==
    ASSUME NEW S, IsFiniteSet(S), NEW R, NEW s, Lists(s, S, R), NEW P
    PROVE  Lists(Those(s, P), S \cap P, R)
<1> DEFINE N == Len(s)
           Upon(g) == [n \in 0..N |->
                         IF n = 0 THEN <<>>
                         ELSE IF s[n] \in P THEN Append(g[n - 1], s[n]) ELSE g[n - 1]]
           step == [p \in (1..N) \X Seq(S) |->
                      IF s[p[1]] \in P THEN Append(p[2], s[p[1]]) ELSE p[2]]
           kept == CHOOSE g : g = Upon(g)
           Taken(n) == {s[i] : i \in 1..n} \cap P
<1>1. s \in Seq(S) /\ N \in Nat /\ \A i \in 1..N : s[i] \in S
  BY DEF Lists
<1>2. step \in [(1..N) \X Seq(S) -> Seq(S)]
  BY <1>1
<1>3. PICK g \in [0..N -> Seq(S)] : g[0] = <<>> /\ \A i \in 1..N : g[i] = step[<<i, g[i - 1]>>]
  <2>1. PICK V : V = Seq(S)
    OBVIOUS
  <2>2. <<>> \in V /\ step \in [(1..N) \X V -> V] /\ N \in Nat
    BY <1>1, <1>2, <2>1
  <2> HIDE DEF step, N
  <2>3. \E g \in [0..N -> V] : Counts(g, N, step, <<>>)
    BY <2>2, CountingExists
  <2> QED
    BY <2>1, <2>3 DEF Counts
<1>4. g = Upon(g)
  <2>1. ASSUME NEW n \in 1..N
        PROVE  g[n] = IF s[n] \in P THEN Append(g[n - 1], s[n]) ELSE g[n - 1]
    <3>1. g[n - 1] \in Seq(S)
      BY <1>1
    <3> QED
      BY <1>3, <3>1
  <2>2. \A n \in 0..N : n = 0 \/ n \in 1..N
    BY <1>1
  <2>3. \A n \in 0..N : g[n] = Upon(g)[n]
    BY <1>3, <2>1, <2>2
  <2> QED
    BY <2>3
<1>5. kept = Upon(kept)
  <2> HIDE DEF Upon
  <2> QED
    BY <1>4
<1>6. Those(s, P) = kept[N]
  BY DEF Those
<1> HIDE DEF kept
<1>7. kept[0] = <<>>
  BY <1>1, <1>5
<1>8. ASSUME NEW n \in 1..N
      PROVE  kept[n] = IF s[n] \in P THEN Append(kept[n - 1], s[n]) ELSE kept[n - 1]
  <2>1. n \in 0..N /\ n # 0
    BY <1>1
  <2> QED
    BY <1>5, <2>1
<1> DEFINE G == {n \in Nat : n <= N => Lists(kept[n], Taken(n), R)}
<1>9. 0 \in G
  <2>1. Taken(0) = {}
    OBVIOUS
  <2>2. Lists(<<>>, {}, R)
    BY FS_EmptySet DEF Lists
  <2> HIDE DEF Taken
  <2> QED
    BY <1>7, <2>1, <2>2
<1>10. ASSUME NEW n \in Nat, n \in G
       PROVE  n + 1 \in G
  <2>1. ASSUME n + 1 <= N
        PROVE  Lists(kept[n + 1], Taken(n + 1), R)
    <3>1. n + 1 \in 1..N /\ n <= N /\ Lists(kept[n], Taken(n), R)
      BY <1>1, <1>10, <2>1
    <3>2. kept[n + 1] = IF s[n + 1] \in P THEN Append(kept[n], s[n + 1]) ELSE kept[n]
      BY <1>8, <3>1
    <3>3. 1..(n + 1) = 1..n \cup {n + 1}
      OBVIOUS
    <3>4. CASE s[n + 1] \in P
      <4>1. Taken(n + 1) = Taken(n) \cup {s[n + 1]}
        BY <3>3, <3>4
      <4>2. ASSUME NEW y \in Taken(n)
            PROVE  y # s[n + 1] /\ <<s[n + 1], y>> \notin R /\ y \in S
        <5>1. PICK i \in 1..n : y = s[i]
          OBVIOUS
        <5>2. i \in 1..N /\ i < n + 1
          BY <1>1, <3>1
        <5> QED
          BY <1>1, <3>1, <5>1, <5>2 DEF Lists
      <4>3. IsFiniteSet(Taken(n))
        BY <4>2, FS_Subset
      <4>4. s[n + 1] \notin Taken(n) /\ \A y \in Taken(n) : <<s[n + 1], y>> \notin R
        BY <4>2
      <4> HIDE DEF Taken
      <4>5. Lists(Append(kept[n], s[n + 1]), Taken(n) \cup {s[n + 1]}, R)
        BY <3>1, <4>3, <4>4, ListsLast
      <4> QED
        BY <3>2, <3>4, <4>1, <4>5
    <3>5. CASE s[n + 1] \notin P
      <4>1. Taken(n + 1) = Taken(n)
        BY <3>3, <3>5
      <4> HIDE DEF Taken
      <4> QED
        BY <3>1, <3>2, <3>5, <4>1
    <3> QED
      BY <3>4, <3>5
  <2> HIDE DEF Taken
  <2> QED
    BY <2>1
<1>11. N \in G
  <2> HIDE DEF G
  <2> QED
    BY <1>1, <1>9, <1>10, NumbersByInduction
<1>12. Taken(N) = S \cap P
  <2>1. \A x \in S : \E i \in 1..N : s[i] = x
    BY DEF Lists
  <2> QED
    BY <1>1, <2>1
<1>13. Lists(kept[N], Taken(N), R)
  <2> HIDE DEF Taken
  <2> QED
    BY <1>1, <1>11
<1> HIDE DEF Taken
<1> QED
  BY <1>6, <1>12, <1>13

\* t is the beginning of a list of S, up to n elements: an element of S that is
\* not in t need not go before any in t, and left no room; one that goes before
\* another does.
Leads(t, S, R, n) ==
    /\ t \in Seq(S)
    /\ Len(t) <= n
    /\ Len(t) <= Cardinality(S)
    /\ \A x \in S : (\A i \in 1..Len(t) : t[i] # x) =>
         Len(t) = n /\ \A i \in 1..Len(t) : <<x, t[i]>> \notin R
    /\ \A x \in S : \A i \in 1..Len(t) :
         <<x, t[i]>> \in R /\ <<x, x>> \notin R => \E j \in 1..(i - 1) : t[j] = x

\* The first elements of a list are its beginning.
LEMMA UptoLeads ==
    ASSUME NEW S, NEW R, NEW s, Lists(s, S, R), NEW n \in Nat
    PROVE  Leads(Upto(s, n), S, R, n)
<1> DEFINE t == Upto(s, n)
<1>1. s \in Seq(S) /\ Len(s) \in Nat
  BY DEF Lists
<1>2. /\ t \in Seq(S)
      /\ Len(t) = IF Len(s) < n THEN Len(s) ELSE n
      /\ Len(t) \in Nat
      /\ \A i \in 1..Len(t) : t[i] = s[i]
  BY <1>1 DEF Upto
<1> HIDE DEF t
<1>3. Len(t) <= n /\ Len(t) <= Len(s) /\ Len(t) <= Cardinality(S)
  BY <1>1, <1>2 DEF Lists
<1>4. ASSUME NEW x \in S, \A i \in 1..Len(t) : t[i] # x
      PROVE  Len(t) = n /\ \A i \in 1..Len(t) : <<x, t[i]>> \notin R
  <2>1. PICK k \in 1..Len(s) : s[k] = x
    BY DEF Lists
  <2>2. k > Len(t)
    BY <1>1, <1>2, <1>4, <2>1
  <2>3. Len(t) = n
    BY <1>1, <1>2, <2>2
  <2>4. ASSUME NEW i \in 1..Len(t)
        PROVE  <<x, t[i]>> \notin R
    <3>1. i \in 1..Len(s) /\ i < k
      BY <1>1, <1>2, <1>3, <2>2
    <3> QED
      BY <1>2, <2>1, <3>1 DEF Lists
  <2> QED
    BY <2>3, <2>4
<1>5. ASSUME NEW x \in S, NEW i \in 1..Len(t), <<x, t[i]>> \in R, <<x, x>> \notin R
      PROVE  \E j \in 1..(i - 1) : t[j] = x
  <2>1. PICK j \in 1..Len(t) : t[j] = x
    BY <1>4, <1>5
  <2>2. i \in 1..Len(s) /\ j \in 1..Len(s) /\ s[i] = t[i] /\ s[j] = x
    BY <1>1, <1>2, <1>3, <2>1
  <2>3. ~ (i < j)
    BY <1>5, <2>2 DEF Lists
  <2>4. i # j
    BY <1>5, <2>1
  <2>5. j \in 1..(i - 1)
    BY <1>1, <2>2, <2>3, <2>4
  <2> QED
    BY <2>1, <2>5
<1>6. Leads(t, S, R, n)
  BY <1>2, <1>3, <1>4, <1>5 DEF Leads
<1> QED
  BY <1>6 DEF t

-----------------------------------------------------------------------------
(***************************************************************************)
(* Sums.                                                                   *)
(***************************************************************************)

\* The sum of numbers is one, and none of them exceeds it.
LEMMA SumBounds ==
    ASSUME NEW S, IsFiniteSet(S), NEW w \in [S -> Nat]
    PROVE  /\ SumFunction(w) \in Nat
           /\ S = {} => SumFunction(w) = 0
           /\ \A x \in S : w[x] <= SumFunction(w)
<1> DEFINE first == [T \in SUBSET S |-> CHOOSE x \in T : TRUE]
           add == [p \in S \X Nat |-> w[p[1]] + p[2]]
           Upon(g) == [T \in SUBSET S |->
                         IF T = {} THEN 0
                         ELSE w[CHOOSE x \in T : TRUE] + g[T \ {CHOOSE x \in T : TRUE}]]
           sum == CHOOSE g : g = Upon(g)
<1>1. ASSUME NEW T \in SUBSET S, T # {}
      PROVE  first[T] \in T
  BY <1>1
<1>2. add \in [S \X Nat -> Nat]
  OBVIOUS
<1>3. PICK g \in [SUBSET S -> Nat] : Recurs(g, S, first, add, 0)
  <2>1. \A T \in SUBSET S : T # {} => first[T] \in T
    BY <1>1
  <2> HIDE DEF first, add
  <2> QED
    BY <1>2, <2>1, RecursionExists
<1>4. ASSUME NEW T \in SUBSET S, T # {}
      PROVE  g[T] = w[first[T]] + g[T \ {first[T]}]
  <2>1. T \ {first[T]} \in SUBSET S /\ first[T] \in S
    BY <1>1, <1>4
  <2>2. g[T \ {first[T]}] \in Nat
    BY <2>1
  <2>3. g[T] = add[<<first[T], g[T \ {first[T]}]>>]
    BY <1>3, <1>4 DEF Recurs
  <2> HIDE DEF first
  <2> QED
    BY <2>1, <2>2, <2>3
<1>5. g[{}] = 0
  BY <1>3 DEF Recurs
<1>6. g = Upon(g)
  <2>1. \A T \in SUBSET S : g[T] = Upon(g)[T]
    BY <1>4, <1>5
  <2> QED
    BY <2>1
<1>7. sum = Upon(sum)
  <2> HIDE DEF Upon
  <2> QED
    BY <1>6
<1>8. SumFunction(w) = sum[S]
  BY DEF SumFunction, SumFunctionOnSet, FoldFunctionOnSet, MapThenFoldSet
<1> HIDE DEF sum
<1>9. ASSUME NEW T \in SUBSET S, T # {}
      PROVE  sum[T] = w[first[T]] + sum[T \ {first[T]}]
  BY <1>7, <1>9
<1>10. sum[{}] = 0
  BY <1>7
<1> DEFINE G == {T \in SUBSET S : sum[T] \in Nat /\ \A x \in T : w[x] <= sum[T]}
<1>11. ASSUME NEW T \in SUBSET S, \A U \in (SUBSET T) \ {T} : U \in G
       PROVE  T \in G
  <2>1. CASE T = {}
    BY <1>10, <2>1
  <2>2. CASE T # {}
    <3>1. first[T] \in T
      BY <1>1, <2>2
    <3>2. T \ {first[T]} \in (SUBSET T) \ {T}
      BY <3>1
    <3>3. /\ sum[T \ {first[T]}] \in Nat
          /\ \A x \in T \ {first[T]} : w[x] <= sum[T \ {first[T]}]
      BY <1>11, <3>2
    <3>4. sum[T] = w[first[T]] + sum[T \ {first[T]}]
      BY <1>9, <2>2
    <3>5. \A x \in T : w[x] \in Nat
      OBVIOUS
    <3> HIDE DEF first
    <3>6. sum[T] \in Nat
      BY <3>1, <3>3, <3>4, <3>5
    <3>7. ASSUME NEW x \in T
          PROVE  w[x] <= sum[T]
      <4>1. CASE x = first[T]
        BY <3>3, <3>4, <3>5, <4>1
      <4>2. CASE x # first[T]
        <5>1. w[x] <= sum[T \ {first[T]}]
          BY <3>3, <4>2
        <5>2. w[first[T]] \in Nat /\ w[x] \in Nat
          BY <3>1, <3>5
        <5> QED
          BY <3>3, <3>4, <5>1, <5>2
      <4> QED
        BY <4>1, <4>2
    <3> QED
      BY <3>6, <3>7
  <2> QED
    BY <2>1, <2>2
<1>12. SUBSET S \subseteq G
  <2> HIDE DEF G
  <2> QED
    BY <1>11, SubsetsByInduction
<1>13. sum[S] \in Nat /\ \A x \in S : w[x] <= sum[S]
  BY <1>12
<1> QED
  BY <1>8, <1>10, <1>13
=============================================================================
