--------------------------- MODULE VuLiveRangesProofs ---------------------------
(* Proofs about VuLiveRanges, for every program, every set of names and any   *)
(* number of registers: what the allocator keeps has its type, and no chain   *)
(* of aliases becomes a ring if no integer is written too often.              *)
EXTENDS VuLiveRanges, FiniteSetTheorems, WellFoundedInduction, TLAPS

-----------------------------------------------------------------------------
(* Numbers and finite sets *)

LEMMA LeastNumber ==
  ASSUME NEW S \in SUBSET Nat, S # {}
  PROVE  \E m \in S : \A k \in S : m <= k
<1>1. PICK m \in S : \A k \in S : <<k, m>> \notin OpToRel(<, Nat)
  BY NatLessThanWellFounded, WFMin
<1>2. \A k \in S : ~(k < m)
  BY <1>1, Zenon DEF OpToRel
<1> QED
  BY <1>2

LEMMA GreatestNumber ==
  ASSUME NEW n \in Nat, NEW S \in SUBSET (1 .. n), S # {}
  PROVE  \E m \in S : \A k \in S : k <= m
<1> DEFINE back == {n - x : x \in S}
<1>0. \A x \in S : x \in Int /\ x <= n /\ n - x \in Nat
  OBVIOUS
<1>1. back \in SUBSET Nat /\ back # {}
  BY <1>0
<1>2. PICK b \in back : \A k \in back : b <= k
  BY <1>1, LeastNumber
<1>3. PICK x \in S : b = n - x
  BY <1>2
<1>4. ASSUME NEW y \in S PROVE y <= x
  <2>1. n - y \in back
    OBVIOUS
  <2>2. b <= n - y
    BY <1>2, <2>1
  <2> QED
    BY <1>0, <1>3, <2>2
<1> QED
  BY <1>4

LEMMA MinIn ==
  ASSUME NEW S \in SUBSET Nat, S # {}
  PROVE  Min(S) \in S
BY LeastNumber DEF Min

LEMMA MaxIn ==
  ASSUME NEW n \in Nat, NEW S \in SUBSET (1 .. n), S # {}
  PROVE  Max(S) \in S
<1>1. \E m \in S : \A k \in S : m >= k
  <2>1. PICK m \in S : \A k \in S : k <= m
    BY GreatestNumber
  <2> QED
    BY <2>1
<1> QED
  BY <1>1 DEF Max

LEMMA UpToFinite ==
  ASSUME NEW n \in Nat
  PROVE  IsFiniteSet(1 .. n) /\ Cardinality(1 .. n) = n
<1>1. 1 \in Int /\ n \in Int /\ (n - 1) + 1 = n
  OBVIOUS
<1>2. IsFiniteSet(1 .. n) /\ Cardinality(1 .. n) = IF 1 > n THEN 0 ELSE (n - 1) + 1
  BY <1>1, FS_Interval, Zenon
<1> QED
  BY <1>1, <1>2

LEMMA FromZeroFinite ==
  ASSUME NEW n \in Nat
  PROVE  IsFiniteSet(0 .. n) /\ Cardinality(0 .. n) = n + 1
<1>1. 0 \in Int /\ n \in Int /\ (n - 0) + 1 = n + 1 /\ ~(0 > n)
  OBVIOUS
<1>2. IsFiniteSet(0 .. n) /\ Cardinality(0 .. n) = IF 0 > n THEN 0 ELSE (n - 0) + 1
  BY <1>1, FS_Interval, Zenon
<1> QED
  BY <1>1, <1>2

-----------------------------------------------------------------------------
(* Folds over finite sets *)

(* Only what the sets of at most n elements come to. *)
Small(S, n) == {s \in SUBSET S : Cardinality(s) <= n}

Folds(S, n, base, pick, step, g) ==
  g = [s \in Small(S, n) |->
         IF s = {} THEN base ELSE step[<<pick[s], g[s \ {pick[s]}]>>]]

Recursion(S, V, base, pick, step, g) ==
  /\ g \in [SUBSET S -> V]
  /\ g = [s \in SUBSET S |-> IF s = {} THEN base ELSE step[<<pick[s], g[s \ {pick[s]}]>>]]

(* A recursion that takes one element after another from a set has a solution. *)
LEMMA FoldExists ==
  ASSUME NEW S, IsFiniteSet(S), NEW V, NEW base \in V,
         NEW pick, \A s \in SUBSET S : s # {} => pick[s] \in s,
         NEW step \in [S \X V -> V]
  PROVE  \E g : Recursion(S, V, base, pick, step, g)
<1>1. \A s \in SUBSET S : IsFiniteSet(s) /\ Cardinality(s) \in Nat /\ Cardinality(s) <= Cardinality(S)
  BY FS_Subset, FS_CardinalityType
<1> DEFINE Bad == {n \in Nat : ~ \E g : g \in [Small(S, n) -> V] /\ Folds(S, n, base, pick, step, g)}
<1>2. Bad = {}
  <2> SUFFICES ASSUME Bad # {} PROVE FALSE
    OBVIOUS
  <2>1. PICK n \in Bad : \A k \in Bad : n <= k
    BY LeastNumber
  <2>2. CASE n = 0
    <3>1. \A s \in Small(S, 0) : s = {}
      <4> SUFFICES ASSUME NEW s \in Small(S, 0) PROVE s = {}
        OBVIOUS
      <4>1. IsFiniteSet(s) /\ Cardinality(s) = 0
        BY <1>1 DEF Small
      <4> QED
        BY <4>1, FS_EmptySet
    <3> DEFINE g == [s \in Small(S, 0) |-> base]
    <3>2. g = [s \in Small(S, 0) |-> IF s = {} THEN base ELSE step[<<pick[s], g[s \ {pick[s]}]>>]]
      BY <3>1
    <3>3. g \in [Small(S, 0) -> V]
      OBVIOUS
    <3> HIDE DEF g
    <3> QED
      BY <2>1, <2>2, <3>2, <3>3 DEF Folds
  <2>3. CASE n # 0
    <3>1. n \in Nat /\ n - 1 \in Nat /\ n - 1 \notin Bad
      BY <2>1, <2>3
    <3>2. PICK f : f \in [Small(S, n - 1) -> V] /\ Folds(S, n - 1, base, pick, step, f)
      BY <3>1
    <3> DEFINE e(s) == IF s = {} THEN base ELSE step[<<pick[s], f[s \ {pick[s]}]>>]
               g == [s \in Small(S, n) |-> e(s)]
    <3>3. \A s \in Small(S, n - 1) : s \in Small(S, n) /\ f[s] = e(s)
      <4> SUFFICES ASSUME NEW s \in Small(S, n - 1) PROVE s \in Small(S, n) /\ f[s] = e(s)
        OBVIOUS
      <4>1. s \in Small(S, n)
        BY <1>1, <3>1 DEF Small
      <4>2. f = [t \in Small(S, n - 1) |-> e(t)]
        BY <3>2 DEF Folds
      <4> HIDE DEF e
      <4> QED
        BY <4>1, <4>2
    <3>4. ASSUME NEW s \in Small(S, n), s # {}
          PROVE  pick[s] \in S /\ s \ {pick[s]} \in Small(S, n - 1)
      <4>1. s \in SUBSET S /\ pick[s] \in s
        BY <3>4 DEF Small
      <4>2. Cardinality(s \ {pick[s]}) = Cardinality(s) - 1
        BY <1>1, <4>1, FS_RemoveElement
      <4>3. Cardinality(s) <= n /\ Cardinality(s) \in Nat
        BY <1>1, <4>1 DEF Small
      <4> QED
        BY <3>1, <4>1, <4>2, <4>3 DEF Small
    <3>5. ASSUME NEW s \in Small(S, n)
          PROVE  e(s) \in V /\ e(s) = IF s = {} THEN base ELSE step[<<pick[s], g[s \ {pick[s]}]>>]
      <4>1. CASE s = {}
        BY <4>1
      <4>2. CASE s # {}
        <5>1. pick[s] \in S /\ s \ {pick[s]} \in Small(S, n - 1)
          BY <3>4, <4>2
        <5>2. f[s \ {pick[s]}] \in V /\ g[s \ {pick[s]}] = f[s \ {pick[s]}]
          BY <3>2, <3>3, <5>1
        <5>3. <<pick[s], f[s \ {pick[s]}]>> \in S \X V
          BY <5>1, <5>2
        <5> HIDE DEF g
        <5> QED
          BY <4>2, <5>2, <5>3
      <4> QED
        BY <4>1, <4>2
    <3>6. g \in [Small(S, n) -> V]
      BY <3>5
    <3>7. g = [s \in Small(S, n) |-> IF s = {} THEN base ELSE step[<<pick[s], g[s \ {pick[s]}]>>]]
      <4>1. g = [s \in Small(S, n) |-> e(s)]
        OBVIOUS
      <4> HIDE DEF e, g
      <4> QED
        BY <3>5, <4>1
    <3> HIDE DEF g
    <3> QED
      BY <2>1, <3>6, <3>7 DEF Folds
  <2> QED
    BY <2>2, <2>3
<1>3. Cardinality(S) \in Nat
  BY FS_CardinalityType
<1>4. PICK g : g \in [Small(S, Cardinality(S)) -> V] /\ Folds(S, Cardinality(S), base, pick, step, g)
  BY <1>2, <1>3
<1>5. Small(S, Cardinality(S)) = SUBSET S
  BY <1>1 DEF Small
<1> QED
  BY <1>4, <1>5 DEF Folds, Recursion

(* What holds of nothing and is kept by each element holds of the whole set. *)
LEMMA FoldInside ==
  ASSUME NEW S, IsFiniteSet(S), NEW V, NEW g, g[{}] \in V,
         \A s \in SUBSET S : s # {} => \E x \in s : g[s \ {x}] \in V => g[s] \in V
  PROVE  g[S] \in V
<1>1. \A s \in SUBSET S : IsFiniteSet(s) /\ Cardinality(s) \in Nat
  BY FS_Subset, FS_CardinalityType
<1> DEFINE Bad == {Cardinality(s) : s \in {t \in SUBSET S : g[t] \notin V}}
<1> SUFFICES ASSUME g[S] \notin V PROVE FALSE
  OBVIOUS
<1>2. Bad \in SUBSET Nat /\ Bad # {}
  BY <1>1
<1>3. PICK n \in Bad : \A k \in Bad : n <= k
  BY <1>2, LeastNumber
<1>4. PICK s \in SUBSET S : g[s] \notin V /\ n = Cardinality(s)
  BY <1>3
<1>5. s # {}
  BY <1>4
<1>6. PICK x \in s : g[s \ {x}] \in V => g[s] \in V
  BY <1>5
<1>7. s \ {x} \in SUBSET S /\ g[s \ {x}] \notin V
  BY <1>4, <1>6
<1>8. Cardinality(s \ {x}) \in Bad
  BY <1>7
<1>9. Cardinality(s \ {x}) = Cardinality(s) - 1 /\ Cardinality(s) \in Nat
  BY <1>1, FS_RemoveElement
<1>10. n <= Cardinality(s \ {x})
  BY <1>3, <1>8
<1> HIDE DEF Bad
<1> QED
  BY <1>4, <1>9, <1>10


-----------------------------------------------------------------------------
(* Chains *)

Climbs(aliases, id, n, f) == f = [k \in 0 .. n |-> IF k = 0 THEN id ELSE Pred(aliases, f[k - 1])]

Steps(aliases, n, f) == \A k \in 1 .. n : f[k] = Pred(aliases, f[k - 1])

LEMMA ClimbUnrolled ==
  ASSUME NEW aliases, NEW id, NEW n \in Nat, NEW f, Climbs(aliases, id, n, f)
  PROVE  f[0] = id /\ Steps(aliases, n, f)
<1> DEFINE e(k) == IF k = 0 THEN id ELSE Pred(aliases, f[k - 1])
<1>1. f = [k \in 0 .. n |-> e(k)]
  BY DEF Climbs
<1> HIDE DEF e
<1>2. \A k \in 0 .. n : f[k] = e(k)
  BY <1>1
<1>3. 0 \in 0 .. n /\ \A k \in 1 .. n : k \in 0 .. n /\ k # 0
  OBVIOUS
<1>4. f[0] = e(0) /\ \A k \in 1 .. n : f[k] = e(k) /\ k # 0
  BY <1>2, <1>3
<1> QED
  BY <1>4 DEF e, Steps

LEMMA ClimbExists ==
  ASSUME NEW aliases, NEW id, NEW m \in Nat
  PROVE  \E f : Climbs(aliases, id, m, f)
<1> DEFINE Bad == {n \in Nat : ~ \E f : Climbs(aliases, id, n, f)}
<1> SUFFICES ASSUME Bad # {} PROVE FALSE
  OBVIOUS
<1>1. PICK n \in Bad : \A j \in Bad : n <= j
  BY LeastNumber
<1>2. CASE n = 0
  <2> DEFINE f == [k \in 0 .. 0 |-> id]
  <2>1. f = [k \in 0 .. 0 |-> IF k = 0 THEN id ELSE Pred(aliases, f[k - 1])]
    <3>1. \A k \in 0 .. 0 : k = 0
      OBVIOUS
    <3> QED
      BY <3>1
  <2> HIDE DEF f
  <2> QED
    BY <1>1, <1>2, <2>1 DEF Climbs
<1>3. CASE n # 0
  <2>1. n \in Nat /\ n - 1 \in Nat /\ n - 1 \notin Bad
    BY <1>1, <1>3
  <2>2. PICK f : Climbs(aliases, id, n - 1, f)
    BY <2>1
  <2> DEFINE last == Pred(aliases, f[n - 1])
             e(k) == IF k = n THEN last ELSE f[k]
             g == [k \in 0 .. n |-> e(k)]
  <2> HIDE DEF last
  <2>3. \A k \in 0 .. n : g[k] = e(k)
    OBVIOUS
  <2> DEFINE G(k) == IF k = 0 THEN id ELSE Pred(aliases, g[k - 1])
  <2>4. ASSUME NEW k \in 0 .. n PROVE e(k) = G(k)
    <3> HIDE DEF g
    <3>1. CASE k = 0
      <4>1. f[0] = id
        BY <2>1, <2>2, ClimbUnrolled
      <4> QED
        BY <3>1, <4>1, <1>3
    <3>2. CASE k # 0 /\ k # n
      <4>1. k \in 1 .. n - 1 /\ k - 1 \in 0 .. n /\ k - 1 # n
        BY <3>2, <2>1
      <4>2. f[k] = Pred(aliases, f[k - 1])
        <5>1. Steps(aliases, n - 1, f)
          BY <2>1, <2>2, ClimbUnrolled
        <5> QED
          BY <4>1, <5>1 DEF Steps
      <4>3. g[k - 1] = f[k - 1]
        BY <4>1, <2>3
      <4> QED
        BY <3>2, <4>2, <4>3
    <3>3. CASE k = n
      <4>1. n - 1 \in 0 .. n /\ n - 1 # n
        BY <2>1
      <4>2. g[n - 1] = f[n - 1]
        BY <4>1, <2>3
      <4> QED
        BY <3>3, <4>2, <1>3 DEF last
    <3> QED
      BY <3>1, <3>2, <3>3
  <2>5. g = [k \in 0 .. n |-> G(k)]
    <3> HIDE DEF e, G
    <3>1. g = [k \in 0 .. n |-> e(k)]
      OBVIOUS
    <3> HIDE DEF g
    <3> QED
      BY <2>4, <3>1
  <2> HIDE DEF g
  <2>6. Climbs(aliases, id, n, g)
    BY <2>5 DEF Climbs
  <2> QED
    BY <1>1, <2>6
<1> QED
  BY <1>2, <1>3

(* The path a climb takes. *)
Path(aliases, id, n, f) ==
  /\ f[0] = id
  /\ Steps(aliases, n, f)
  /\ Climb(aliases, id, n) = {f[k] : k \in 0 .. n} \ {0}

(* The climb is what its recursion says. *)
LEMMA ClimbIs ==
  ASSUME NEW aliases, NEW id, NEW n \in Nat
  PROVE  \E f : Path(aliases, id, n, f)
<1>1. PICK f : Climbs(aliases, id, n, f)
  BY ClimbExists
<1> DEFINE Fits(g) == g = [k \in 0 .. n |-> IF k = 0 THEN id ELSE Pred(aliases, g[k - 1])]
           F == CHOOSE g : Fits(g)
<1>2. Fits(f)
  BY <1>1 DEF Climbs
<1>3. Climb(aliases, id, n) = {F[k] : k \in 0 .. n} \ {0}
  BY DEF Climb
<1> HIDE DEF Fits
<1>4. Fits(F)
  BY <1>2
<1> HIDE DEF F
<1>5. Climbs(aliases, id, n, F)
  BY <1>4 DEF Fits, Climbs
<1> QED
  BY <1>3, <1>5, ClimbUnrolled DEF Path

(* Aliases D, each of which follows another one or none. *)
Linked(aliases, D) == \A id \in D : aliases[id].pred \in D \cup {0}

(* No set of them follows only itself: a ring would be one. *)
Ends(aliases, D) ==
  \A S \in SUBSET D : S # {} => \E x \in S : aliases[x].pred \notin S

(* A path stays among the aliases, and is at none of them twice. *)
LEMMA PathInside ==
  ASSUME NEW aliases, NEW D, 0 \notin D, Linked(aliases, D),
         NEW n \in Nat, NEW f, f[0] \in D \cup {0}, Steps(aliases, n, f)
  PROVE  \A k \in 0 .. n : f[k] \in D \cup {0}
<1> DEFINE Bad == {k \in Nat : k <= n /\ f[k] \notin D \cup {0}}
<1> SUFFICES ASSUME Bad # {} PROVE FALSE
  OBVIOUS
<1>1. PICK k \in Bad : \A j \in Bad : k <= j
  BY LeastNumber
<1>2. k # 0
  BY <1>1
<1>3. k \in 1 .. n /\ k - 1 \in Nat /\ k - 1 \notin Bad /\ k - 1 <= n
  BY <1>1, <1>2
<1>4. f[k - 1] \in D \cup {0}
  BY <1>3
<1>5. f[k] = Pred(aliases, f[k - 1])
  BY <1>3 DEF Steps
<1>6. f[k] \in D \cup {0}
  BY <1>4, <1>5 DEF Pred, Linked
<1> QED
  BY <1>1, <1>6

LEMMA PathDistinct ==
  ASSUME NEW aliases, NEW D, 0 \notin D, Linked(aliases, D), Ends(aliases, D),
         NEW n \in Nat, NEW f, Steps(aliases, n, f),
         \A k \in 0 .. n : f[k] \in D,
         NEW i \in 0 .. n, NEW j \in 0 .. n, i # j
  PROVE  f[i] # f[j]
<1> SUFFICES ASSUME NEW a \in 0 .. n, NEW b \in 0 .. n, a < b, f[a] = f[b] PROVE FALSE
  OBVIOUS
<1> DEFINE S == {f[k] : k \in a .. b - 1}
<1>1. S \in SUBSET D /\ S # {}
  BY a \in a .. b - 1
<1>2. PICK x \in S : aliases[x].pred \notin S
  BY <1>1 DEF Ends
<1>3. PICK k \in a .. b - 1 : x = f[k]
  BY <1>2
<1>4. k + 1 \in 1 .. n /\ (k + 1) - 1 = k
  BY <1>3
<1>5. f[k + 1] = aliases[x].pred
  <2>1. f[k + 1] = Pred(aliases, f[k])
    BY <1>4 DEF Steps
  <2> QED
    BY <1>1, <1>3, <2>1 DEF Pred
<1>6. CASE k + 1 = b
  <2>1. f[a] \in S
    BY a \in a .. b - 1
  <2> QED
    BY <1>2, <1>5, <1>6, <2>1
<1>7. CASE k + 1 # b
  <2>1. k + 1 \in a .. b - 1
    BY <1>3, <1>7
  <2> QED
    BY <1>2, <1>5, <2>1
<1> QED
  BY <1>6, <1>7

(* The aliases before one are a set that leads nowhere else. *)
LEMMA AncestorsClosed ==
  ASSUME NEW aliases, NEW m \in Nat, DOMAIN aliases \subseteq 1 .. m,
         Linked(aliases, DOMAIN aliases), Ends(aliases, DOMAIN aliases),
         NEW id \in DOMAIN aliases
  PROVE  /\ id \in Ancestors(aliases, id)
         /\ Ancestors(aliases, id) \subseteq DOMAIN aliases
         /\ \A a \in Ancestors(aliases, id) :
              aliases[a].pred \in Ancestors(aliases, id) \cup {0}
<1> DEFINE D == DOMAIN aliases
           N == Cardinality(D)
<1>1. IsFiniteSet(D) /\ N \in Nat /\ 0 \notin D
  BY UpToFinite, FS_Subset, FS_CardinalityType
<1> HIDE DEF N
<1>0. PICK f : Path(aliases, id, N, f)
  <2>1. N \in Nat
    BY <1>1
  <2> QED
    BY <2>1, ClimbIs
<1>2. f[0] = id /\ Steps(aliases, N, f) /\ Climb(aliases, id, N) = {f[k] : k \in 0 .. N} \ {0}
  BY <1>0 DEF Path
<1> DEFINE A == {f[k] : k \in 0 .. N} \ {0}
<1>3. Ancestors(aliases, id) = A
  BY <1>2 DEF Ancestors, N
<1>4. \A k \in 0 .. N : f[k] \in D \cup {0}
  BY <1>1, <1>2, PathInside
<1>5. \E k \in 0 .. N : f[k] = 0
  <2> SUFFICES ASSUME \A k \in 0 .. N : f[k] \in D PROVE FALSE
    BY <1>4
  <2> DEFINE h == [k \in 0 .. N |-> f[k]]
  <2>1. h \in [0 .. N -> D]
    OBVIOUS
  <2>2. IsFiniteSet(0 .. N) /\ Cardinality(D) < Cardinality(0 .. N)
    BY <1>1, FromZeroFinite DEF N
  <2>3. PICK i, j \in 0 .. N : i # j /\ h[i] = h[j]
    <3> HIDE DEF h, D
    <3> QED
      BY <1>1, <2>1, <2>2, FS_PigeonHole
  <2>4. f[i] = f[j]
    BY <2>3
  <2> QED
    BY <1>1, <1>2, <2>3, <2>4, PathDistinct
<1> DEFINE Zero == {k \in 0 .. N : f[k] = 0}
<1>6. Zero \in SUBSET Nat /\ Zero # {}
  BY <1>1, <1>5
<1>7. PICK z \in Zero : \A k \in Zero : z <= k
  BY <1>6, LeastNumber
<1>8. ASSUME NEW k \in 0 .. N, k >= z PROVE f[k] = 0
  <2> DEFINE Bad == {i \in Nat : i <= N /\ i >= z /\ f[i] # 0}
  <2> SUFFICES ASSUME Bad # {} PROVE FALSE
    BY <1>1, <1>8
  <2>1. PICK i \in Bad : \A j \in Bad : i <= j
    BY LeastNumber
  <2>2. i # z
    BY <1>7, <2>1
  <2>3. i \in 1 .. N /\ i - 1 \in Nat /\ i - 1 \notin Bad /\ i - 1 <= N /\ i - 1 >= z
    BY <1>1, <1>7, <2>1, <2>2
  <2>4. f[i - 1] = 0
    BY <2>3
  <2>5. f[i] = Pred(aliases, f[i - 1])
    BY <1>2, <2>3 DEF Steps
  <2> QED
    BY <2>1, <2>4, <2>5 DEF Pred
<1>9. ASSUME NEW a \in A PROVE aliases[a].pred \in A \cup {0}
  <2>1. PICK k \in 0 .. N : a = f[k] /\ a # 0
    OBVIOUS
  <2>2. k < z /\ k + 1 \in 1 .. N /\ k + 1 \in 0 .. N /\ (k + 1) - 1 = k
    BY <1>1, <1>7, <1>8, <2>1
  <2>3. f[k + 1] = Pred(aliases, f[k])
    BY <1>2, <2>2 DEF Steps
  <2>4. f[k + 1] = aliases[a].pred
    BY <2>1, <2>3 DEF Pred
  <2> QED
    BY <2>2, <2>4
<1>10. id \in A
  BY <1>1, <1>2
<1>11. A \subseteq D
  BY <1>4
<1> QED
  BY <1>3, <1>9, <1>10, <1>11

(* Aliases D of which only those in W follow another one, which then has the *)
(* name that N gives to both; no ring, if no integer is written too often.   *)
Sound(aliases, D, N, W) ==
  /\ aliases \in [D -> Alias]
  /\ Linked(aliases, D)
  /\ ShortChains => Ends(aliases, D)
  /\ \A id \in D : aliases[id].pred # 0 => id \in W /\ N[aliases[id].pred] = N[id]

(* What changes lines and registers changes no chain. *)
LEMMA SameChains ==
  ASSUME NEW D, NEW N, NEW W, NEW M, NEW V, NEW as, Sound(as, D, N, W),
         \A id \in D : M[id] = N[id] /\ (id \in W => id \in V),
         NEW bs \in [D -> Alias], \A id \in D : bs[id].pred = as[id].pred
  PROVE  Sound(bs, D, M, V)
<1>1. Linked(bs, D)
  BY DEF Sound, Linked
<1>2. ShortChains => Ends(bs, D)
  BY DEF Sound, Ends
<1>3. ASSUME NEW id \in D, bs[id].pred # 0 PROVE id \in V /\ M[bs[id].pred] = M[id]
  BY <1>1, <1>3 DEF Sound, Linked
<1> QED
  BY <1>1, <1>2, <1>3 DEF Sound

(* An edge to a chain without the alias closes no ring. *)
LEMMA EdgeEnds ==
  ASSUME NEW m \in Nat, NEW D \in SUBSET (1 .. m), NEW as \in [D -> Alias],
         Linked(as, D), Ends(as, D), NEW id \in D, NEW pred \in D,
         id \notin Ancestors(as, pred)
  PROVE  Ends([as EXCEPT ![id].pred = pred], D)
<1> DEFINE bs == [as EXCEPT ![id].pred = pred]
           C == Ancestors(as, pred)
<1>1. \A x \in D : bs[x].pred = IF x = id THEN pred ELSE as[x].pred
  BY DEF Alias
<1>2. pred \in C /\ C \subseteq D /\ \A a \in C : as[a].pred \in C \cup {0}
  BY AncestorsClosed
<1>3. id \notin C
  OBVIOUS
<1> HIDE DEF bs, C
<1> SUFFICES ASSUME NEW S \in SUBSET D, S # {}, \A x \in S : bs[x].pred \in S
             PROVE  FALSE
  BY DEF Ends, bs
<1>4. id \in S
  <2>1. PICK x \in S : as[x].pred \notin S
    BY DEF Ends
  <2> QED
    BY <1>1, <2>1
<1>5. pred \in S \cap C
  BY <1>1, <1>2, <1>4
<1>6. PICK x \in S \cap C : as[x].pred \notin S \cap C
  BY <1>5 DEF Ends
<1>7. as[x].pred \in S
  BY <1>1, <1>3, <1>6
<1>8. as[x].pred \in C
  <2>1. 0 \notin S
    OBVIOUS
  <2> QED
    BY <1>2, <1>6, <1>7, <2>1
<1> QED
  BY <1>6, <1>7, <1>8

LEMMA EdgeSound ==
  ASSUME NEW m \in Nat, NEW D \in SUBSET (1 .. m), NEW N, NEW W,
         NEW as, Sound(as, D, N, W), NEW id \in D \cap W, NEW pred \in D,
         N[pred] = N[id], ShortChains => id \notin Ancestors(as, pred)
  PROVE  Sound([as EXCEPT ![id].pred = pred], D, N, W)
<1> DEFINE bs == [as EXCEPT ![id].pred = pred]
<1>1. as \in [D -> Alias] /\ Linked(as, D)
  BY DEF Sound
<1>2. bs \in [D -> Alias]
  <2>1. pred \in Nat
    OBVIOUS
  <2>2. as[id] \in Alias
    <3>1. id \in D
      OBVIOUS
    <3> QED
      BY <1>1, <3>1, Zenon
  <2>3. [as[id] EXCEPT !.pred = pred] \in Alias
    BY <2>1, <2>2 DEF Alias
  <2> QED
    BY <1>1, <2>3
<1>3. \A x \in D : bs[x].pred = IF x = id THEN pred ELSE as[x].pred
  BY <1>1 DEF Alias
<1>4. ShortChains => Ends(bs, D)
  BY <1>1, EdgeEnds DEF Sound
<1> HIDE DEF bs
<1>5. Linked(bs, D)
  BY <1>1, <1>3 DEF Linked
<1>6. \A x \in D : bs[x].pred # 0 => x \in W /\ N[bs[x].pred] = N[x]
  BY <1>3 DEF Sound
<1>7. Sound(bs, D, N, W)
  BY <1>2, <1>4, <1>5, <1>6 DEF Sound
<1> QED
  BY <1>7 DEF bs

LEMMA ChainedSound ==
  ASSUME NEW m \in Nat, NEW D \in SUBSET (1 .. m), NEW N, NEW W,
         NEW as, Sound(as, D, N, W), NEW id \in D, NEW pred \in D \cup {0},
         pred # 0 => id \in W /\ N[pred] = N[id]
  PROVE  Sound(Chained(as, id, pred), D, N, W)
BY EdgeSound DEF Chained

LEMMA RenamedSound ==
  ASSUME NEW m \in Nat, NEW D \in SUBSET (1 .. m), NEW N, NEW W,
         NEW as, Sound(as, D, N, W), NEW old \in D, NEW new \in D, N[old] = N[new],
         NEW id \in D \cap W, N[id] = N[old]
  PROVE  Sound(Renamed(as, id, old, new), D, N, W)
<1>1. as[old].pred \in D \cup {0}
  BY DEF Sound, Linked
<1>2. as[old].pred # 0 => N[as[old].pred] = N[id]
  BY DEF Sound
<1>3. Sound(Chained(as, id, new), D, N, W)
  BY ChainedSound
<1>4. Sound(Chained(as, id, as[old].pred), D, N, W)
  BY <1>1, <1>2, ChainedSound
<1> QED
  BY <1>3, <1>4 DEF Renamed

LEMMA InheritedSound ==
  ASSUME NEW m \in Nat, NEW D \in SUBSET (1 .. m), NEW N, NEW W,
         NEW as, Sound(as, D, N, W), NEW old \in D, NEW new \in D, N[old] = N[new],
         old \in W => new \in W
  PROVE  Sound(Inherited(as, old, new), D, N, W)
<1>1. as[old].pred \in D \cup {0}
  BY DEF Sound, Linked
<1>2. as[old].pred # 0 => new \in W /\ N[as[old].pred] = N[new]
  BY DEF Sound
<1>3. Sound(Chained(as, new, as[old].pred), D, N, W)
  BY <1>1, <1>2, ChainedSound
<1> QED
  BY <1>3 DEF Inherited


LEMMA AllRenamedSound ==
  ASSUME NEW m \in Nat, NEW D \in SUBSET (1 .. m), NEW N, NEW W,
         NEW as, Sound(as, D, N, W), NEW old \in D, NEW new \in D, N[old] = N[new]
  PROVE  Sound(AllRenamed(as, old, new), D, N, W)
<1> DEFINE F == Followers(as, old)
           V == {bs \in [D -> Alias] : Sound(bs, D, N, W)}
           step == [p \in F \X V |-> Renamed(p[2], p[1], old, new)]
           pick == [s \in SUBSET F |-> Max(s)]
           Fits(g) == g = [s \in SUBSET F |->
             IF s = {} THEN as ELSE Renamed(g[s \ {Max(s)}], Max(s), old, new)]
           G == CHOOSE g : Fits(g)
<1>1. as \in [D -> Alias] /\ as \in V
  BY DEF Sound
<1>2. F \in SUBSET (1 .. m) /\ F \subseteq D /\ \A id \in F : id \in W /\ N[id] = N[old]
  <2>1. F \subseteq D /\ \A id \in F : as[id].pred = old
    BY <1>1 DEF Followers
  <2>2. old # 0
    OBVIOUS
  <2> HIDE DEF F
  <2> QED
    BY <2>1, <2>2 DEF Sound
<1>3. IsFiniteSet(F)
  BY <1>2, UpToFinite, FS_Subset
<1> HIDE DEF F, V
<1>4. \A s \in SUBSET F : s # {} => pick[s] \in s /\ Max(s) \in s /\ pick[s] = Max(s)
  BY <1>2, MaxIn
<1>5. ASSUME NEW id \in F, NEW bs \in V PROVE Renamed(bs, id, old, new) \in V
  <2>1. id \in D \cap W /\ N[id] = N[old] /\ Sound(bs, D, N, W)
    BY <1>2 DEF V
  <2>2. Sound(Renamed(bs, id, old, new), D, N, W)
    BY <2>1, RenamedSound
  <2> QED
    BY <2>2 DEF V, Sound
<1>6. step \in [F \X V -> V] /\ \A id \in F, bs \in V : step[<<id, bs>>] = Renamed(bs, id, old, new)
  BY <1>5
<1> HIDE DEF step, pick
<1>7. PICK g : Recursion(F, V, as, pick, step, g)
  BY <1>1, <1>3, <1>4, <1>6, FoldExists
<1>8. ASSUME NEW s \in SUBSET F, s # {}
      PROVE  step[<<pick[s], g[s \ {pick[s]}]>>] = Renamed(g[s \ {Max(s)}], Max(s), old, new)
  <2>1. Max(s) \in F /\ s \ {Max(s)} \in SUBSET F /\ pick[s] = Max(s)
    BY <1>4, <1>8
  <2>2. g[s \ {Max(s)}] \in V
    BY <1>7, <2>1 DEF Recursion
  <2> QED
    BY <1>6, <2>1, <2>2
<1>9. Fits(g)
  <2> DEFINE a(s) == IF s = {} THEN as ELSE step[<<pick[s], g[s \ {pick[s]}]>>]
             b(s) == IF s = {} THEN as ELSE Renamed(g[s \ {Max(s)}], Max(s), old, new)
  <2>1. \A s \in SUBSET F : a(s) = b(s)
    BY <1>8
  <2>2. g = [s \in SUBSET F |-> a(s)]
    BY <1>7 DEF Recursion
  <2> HIDE DEF a, b
  <2>3. g = [s \in SUBSET F |-> b(s)]
    BY <2>1, <2>2
  <2> QED
    BY <2>3 DEF b
<1>10. AllRenamed(as, old, new) = G[F]
  BY DEF AllRenamed, MapThenFoldSet, F
<1>11. Fits(G)
  <2> HIDE DEF Fits
  <2> QED
    BY <1>9
<1> HIDE DEF G
<1>12. G[{}] \in V /\ \A s \in SUBSET F : s # {} => G[s] = Renamed(G[s \ {Max(s)}], Max(s), old, new)
  <2> DEFINE b(s) == IF s = {} THEN as ELSE Renamed(G[s \ {Max(s)}], Max(s), old, new)
  <2>1. G = [s \in SUBSET F |-> b(s)]
    BY <1>11
  <2> HIDE DEF b
  <2>2. \A s \in SUBSET F : G[s] = b(s)
    BY <2>1
  <2> QED
    BY <1>1, <2>2 DEF b
<1>13. ASSUME NEW s \in SUBSET F, s # {} PROVE \E x \in s : G[s \ {x}] \in V => G[s] \in V
  <2>1. Max(s) \in s /\ Max(s) \in F
    BY <1>4, <1>13
  <2>2. G[s \ {Max(s)}] \in V => G[s] \in V
    BY <1>5, <1>12, <1>13, <2>1
  <2> QED
    BY <2>1, <2>2
<1>14. G[F] \in V
  BY <1>3, <1>12, <1>13, FoldInside
<1> QED
  BY <1>10, <1>14 DEF V


LEMMA ReleasedSound ==
  ASSUME NEW m \in Nat, NEW D \in SUBSET (1 .. m), NEW N, NEW W,
         NEW as, Sound(as, D, N, W), NEW old \in D, NEW new \in D, N[old] = N[new],
         old \in W => new \in W
  PROVE  Sound(Released(as, old, new), D \ {old}, N, W)
<1> DEFINE all == AllRenamed(Inherited(as, old, new), old, new)
           E == D \ {old}
           bs == [id \in E |-> [all[id] EXCEPT !.pred = IF @ = old THEN 0 ELSE @]]
<1>1. DOMAIN as = D
  BY DEF Sound
<1>2. Released(as, old, new) = bs
  BY <1>1 DEF Released
<1>3. Sound(all, D, N, W)
  BY InheritedSound, AllRenamedSound
<1> HIDE DEF all
<1>4. ASSUME NEW id \in E
      PROVE  /\ bs[id] \in Alias
             /\ bs[id].pred = IF all[id].pred = old THEN 0 ELSE all[id].pred
  <2>1. all[id] \in Alias
    BY <1>3 DEF Sound
  <2>2. bs[id] = [all[id] EXCEPT !.pred = IF @ = old THEN 0 ELSE @]
    OBVIOUS
  <2> HIDE DEF bs, E
  <2> QED
    BY <2>1, <2>2 DEF Alias
<1>5. bs \in [E -> Alias]
  BY <1>4
<1> HIDE DEF bs
<1>6. \A id \in E : bs[id].pred \in E \cup {0} /\ (bs[id].pred # 0 => bs[id].pred = all[id].pred)
  BY <1>3, <1>4 DEF Sound, Linked
<1>7. ASSUME Ends(all, D) PROVE Ends(bs, E)
  <2> SUFFICES ASSUME NEW S \in SUBSET E, S # {}, \A x \in S : bs[x].pred \in S PROVE FALSE
    BY DEF Ends
  <2>1. S \in SUBSET D /\ 0 \notin S
    OBVIOUS
  <2>2. \A x \in S : all[x].pred \in S
    BY <1>6, <2>1
  <2> QED
    BY <1>7, <2>1, <2>2 DEF Ends
<1>8. \A id \in E : bs[id].pred # 0 => id \in W /\ N[bs[id].pred] = N[id]
  BY <1>3, <1>6 DEF Sound
<1> QED
  BY <1>2, <1>3, <1>5, <1>6, <1>7, <1>8 DEF Sound, Linked

-----------------------------------------------------------------------------
(* The heap *)

(* The aliases that some occurrence writes. *)
Written(of) == {of[a] : a \in {b \in Place : Arg(b).write}}

(* Each occurrence that has an alias has the name of its alias. *)
HeapFits(h, D, N) ==
  /\ DOMAIN h = {"aliases", "of", "next"}
  /\ h.next \in Nat \ {0}
  /\ D \subseteq 1 .. h.next - 1
  /\ N \in [D -> Name]
  /\ h.of \in [Place -> D \cup {0}]
  /\ Sound(h.aliases, D, N, Written(h.of))
  /\ \A a \in Place : h.of[a] # 0 => N[h.of[a]] = Arg(a).name

HeapOK(h) == \E D, N : HeapFits(h, D, N)

(* No occurrence loses its alias. *)
Keeps(h, g) == \A a \in Place : h.of[a] # 0 => g.of[a] # 0

LEMMA SamePlaces ==
  ASSUME program' = program
  PROVE  Place' = Place /\ Line' = Line /\ Code' = Code /\ \A a : Arg(a)' = Arg(a)
BY DEF Place, Line, Code, Arg

LEMMA SameHeap ==
  ASSUME program' = program, NEW h, HeapOK(h), heap' = h
  PROVE  HeapOK(heap)'
<1>1. Place' = Place /\ Code' = Code /\ Alias' = Alias
  BY SamePlaces DEF Alias
<1>2. \A a : Arg(a)' = Arg(a)
  BY SamePlaces
<1>3. PICK D, N : HeapFits(h, D, N)
  BY DEF HeapOK
<1>4. Written(heap.of)' = Written(h.of)
  BY <1>1 DEF Written, Arg
<1>5. Sound(heap.aliases, D, N, Written(heap.of))'
  BY <1>1, <1>3, <1>4 DEF HeapFits, Sound
<1>6. (\A a \in Place : heap.of[a] # 0 => N[heap.of[a]] = Arg(a).name)'
  BY <1>1, <1>3 DEF HeapFits, Arg
<1>7. HeapFits(heap, D, N)'
  BY <1>1, <1>3, <1>5, <1>6 DEF HeapFits
<1> QED
  BY <1>7 DEF HeapOK


LEMMA MergedFits ==
  ASSUME NEW h, NEW D, NEW N, HeapFits(h, D, N), NEW new \in D, NEW old \in D, N[new] = N[old]
  PROVE  HeapOK(Merged(h, new, old)) /\ Keeps(h, Merged(h, new, old))
<1>1. CASE old = new
  BY <1>1 DEF Merged, HeapOK, Keeps
<1>2. CASE old # new
  <2> DEFINE absorbed == [h.aliases EXCEPT
               ![new].lines = @ \cup h.aliases[old].lines,
               ![new].reg   = IF h.aliases[old].reg # 0 THEN h.aliases[old].reg ELSE @]
             of == [a \in DOMAIN h.of |-> IF h.of[a] = old THEN new ELSE h.of[a]]
             released == Released(absorbed, old, new)
             g == [aliases |-> released, of |-> of, next |-> h.next]
             E == D \ {old}
             M == [id \in E |-> N[id]]
             m == h.next - 1
             W == Written(h.of)
             V == W \cup Written(of)
  <2>1. g = Merged(h, new, old)
    BY <1>2 DEF Merged
  <2>2. m \in Nat /\ D \in SUBSET (1 .. m) /\ h.next \in Nat \ {0}
    BY DEF HeapFits
  <2>3. h.aliases \in [D -> Alias] /\ Sound(h.aliases, D, N, W)
    BY DEF HeapFits, Sound
  <2>4. absorbed \in [D -> Alias] /\ \A id \in D : absorbed[id].pred = h.aliases[id].pred
    <3>1. h.aliases[new] \in Alias /\ h.aliases[old] \in Alias
      BY <2>3
    <3> DEFINE b == [h.aliases[new] EXCEPT !.lines = @ \cup h.aliases[old].lines,
                       !.reg = IF h.aliases[old].reg # 0 THEN h.aliases[old].reg ELSE @]
    <3>2. b \in Alias /\ b.pred = h.aliases[new].pred
      BY <3>1 DEF Alias
    <3>3. absorbed = [h.aliases EXCEPT ![new] = b]
      BY <2>3, <3>1 DEF Alias
    <3> HIDE DEF b, absorbed
    <3> QED
      BY <2>3, <3>2, <3>3
  <2>5. of \in [Place -> E \cup {0}] /\ \A a \in Place : of[a] = IF h.of[a] = old THEN new ELSE h.of[a]
    <3>1. h.of \in [Place -> D \cup {0}] /\ DOMAIN h.of = Place
      BY DEF HeapFits
    <3>2. \A a \in Place : h.of[a] \in D \cup {0}
      BY <3>1
    <3>3. of = [a \in Place |-> IF h.of[a] = old THEN new ELSE h.of[a]]
      BY <3>1
    <3> HIDE DEF of
    <3> QED
      BY <1>2, <3>2, <3>3
  <2> HIDE DEF absorbed, of, m
  <2>6. old \in V => new \in V
    <3>1. old \notin Written(of)
      BY <1>2, <2>5 DEF Written
    <3>2. old \in W => new \in Written(of)
      BY <2>5 DEF Written
    <3> QED
      BY <3>1, <3>2
  <2>7. Sound(absorbed, D, N, V)
    <3> HIDE DEF W, V
    <3>1. \A id \in D : id \in W => id \in V
      BY DEF V
    <3> QED
      BY <2>3, <2>4, <3>1, SameChains
  <2>8. Sound(released, E, N, V)
    <3> HIDE DEF V
    <3> QED
      BY <1>2, <2>2, <2>6, <2>7, ReleasedSound
  <2> HIDE DEF released
  <2>9. \A id \in E : id \in V => id \in Written(of)
    BY <2>5 DEF Written
  <2>10. Sound(released, E, M, Written(of))
    <3>1. \A id \in E : M[id] = N[id]
      OBVIOUS
    <3>2. released \in [E -> Alias]
      BY <2>8 DEF Sound
    <3> HIDE DEF E, M, V
    <3> QED
      BY <2>8, <2>9, <3>1, <3>2, SameChains
  <2>11. \A a \in Place : of[a] # 0 => M[of[a]] = Arg(a).name
    <3>1. \A a \in Place : h.of[a] # 0 => N[h.of[a]] = Arg(a).name
      BY DEF HeapFits
    <3>2. 0 \notin E /\ new \in E /\ 0 \notin D /\ old # 0
      BY <1>2, <2>2
    <3>3. \A a \in Place : of[a] # 0 => of[a] \in E /\ h.of[a] # 0
      BY <2>5, <3>2
    <3>4. \A a \in Place : of[a] # 0 => N[of[a]] = N[h.of[a]]
      BY <2>5
    <3> QED
      BY <3>1, <3>3, <3>4
  <2>12. M \in [E -> Name]
    <3>1. N \in [D -> Name]
      BY DEF HeapFits
    <3> QED
      BY <3>1
  <2>13. E \subseteq 1 .. g.next - 1 /\ g.next \in Nat \ {0}
    BY <2>2 DEF m
  <2>14. HeapFits(g, E, M)
    <3> HIDE DEF E, M
    <3> QED
      BY <2>5, <2>10, <2>11, <2>12, <2>13 DEF HeapFits
  <2>15. Keeps(h, g)
    BY <2>2, <2>5 DEF Keeps
  <2> HIDE DEF g
  <2> QED
    BY <2>1, <2>14, <2>15 DEF HeapOK
<1> QED
  BY <1>1, <1>2


-----------------------------------------------------------------------------
(* The program *)

LEMMA ProgramTyped ==
  ASSUME program \in Programs
  PROVE  /\ Code \in Seq(Token) /\ Len(Code) \in Nat /\ DOMAIN Code = 1 .. Len(Code)
         /\ \A i \in DOMAIN Code :
              /\ Code[i] \in Token
              /\ Code[i].args \in Seq(Argument)
              /\ Len(Code[i].args) \in Nat
              /\ DOMAIN Code[i].args = 1 .. Len(Code[i].args)
              /\ Code[i].branch # "NONE" => Code[i].target \in DOMAIN Code
<1>1. Code \in Seq(Token)
  BY ProgramAssumption DEF Code
<1>2. Len(Code) \in Nat /\ DOMAIN Code = 1 .. Len(Code) /\ \A i \in DOMAIN Code : Code[i] \in Token
  BY <1>1
<1>3. \A i \in DOMAIN Code : Code[i].branch # "NONE" => Code[i].target \in DOMAIN Code
  BY ProgramAssumption DEF Code
<1>4. \A i \in DOMAIN Code : Code[i].args \in Seq(Argument)
  BY <1>2 DEF Token
<1> QED
  BY <1>1, <1>2, <1>3, <1>4

LEMMA PlaceTyped ==
  ASSUME program \in Programs, NEW a \in Place
  PROVE  /\ a[1] \in DOMAIN Code /\ a[2] \in DOMAIN Code[a[1]].args /\ a = <<a[1], a[2]>>
         /\ a[1] \in 1 .. Len(Code)
         /\ Arg(a) \in Argument /\ Arg(a).name \in Name
         /\ Arg(a).fields \in SUBSET Field /\ Arg(a).write \in BOOLEAN
         /\ a # NoPlace
<1>1. PICK i \in DOMAIN Code : a \in {i} \X DOMAIN Code[i].args
  BY DEF Place
<1>2. a = <<a[1], a[2]>> /\ a[1] = i /\ a[2] \in DOMAIN Code[i].args
  BY <1>1
<1>3. Code[i].args \in Seq(Argument) /\ i \in 1 .. Len(Code)
  BY ProgramTyped
<1>4. Arg(a) \in Argument
  BY <1>2, <1>3 DEF Arg
<1> QED
  BY <1>2, <1>3, <1>4 DEF Argument, NoPlace

LEMMA LinesInside ==
  ASSUME program \in Programs, NEW st \in NameState, NEW i \in Line
  PROVE  LinesToHere(st, i) \in SUBSET Line
<1>1. Len(Code) \in Nat
  BY ProgramTyped
<1>2. i \in 1 .. Len(Code) + 1
  BY DEF Line
<1>3. st.crossed \in SUBSET Line /\ st.entry \in Nat /\ st.dep \in Place \cup {NoPlace}
  BY DEF NameState
<1>4. st.dep # NoPlace => st.dep[1] \in 1 .. Len(Code)
  BY <1>3, PlaceTyped
<1>5. st.entry # 0 => st.entry .. i \subseteq Line
  BY <1>1, <1>2, <1>3 DEF Line
<1>6. st.dep # NoPlace => st.dep[1] .. i \subseteq Line
  BY <1>1, <1>2, <1>4 DEF Line
<1> QED
  BY <1>3, <1>5, <1>6 DEF LinesToHere

-----------------------------------------------------------------------------
(* An occurrence gets its alias *)

(* What a walker knows of a name. *)
StateFits(n, st, of) ==
  /\ st \in NameState
  /\ st.dep # NoPlace => of[st.dep] # 0 /\ Arg(st.dep).name = n
  /\ st.fields # {} => st.entry # 0 \/ st.dep # NoPlace

(* The aliases that the occurrences have stay. *)
Extends(h, g) == \A a \in Place : h.of[a] # 0 => g.of[a] = h.of[a]

LEMMA WithAliasFits ==
  ASSUME program \in Programs, NEW h, HeapOK(h), NEW a \in Place,
         NEW st, StateFits(Arg(a).name, st, h.of), NEW depend \in BOOLEAN
  PROVE  LET g == WithAlias(h, a, st, depend)
         IN HeapOK(g) /\ Extends(h, g) /\ g.of[a] # 0
<1>1. PICK D, N : HeapFits(h, D, N)
  BY DEF HeapOK
<1>2. /\ h.of \in [Place -> D \cup {0}] /\ h.next \in Nat \ {0} /\ D \subseteq 1 .. h.next - 1
      /\ N \in [D -> Name] /\ Sound(h.aliases, D, N, Written(h.of))
      /\ h.aliases \in [D -> Alias]
      /\ DOMAIN h = {"aliases", "of", "next"}
      /\ \A b \in Place : h.of[b] # 0 => N[h.of[b]] = Arg(b).name
  BY <1>1 DEF HeapFits, Sound
<1>3. CASE h.of[a] # 0
  BY <1>3 DEF WithAlias, Extends
<1>4. CASE h.of[a] = 0 /\ depend /\ st.dep # NoPlace
  <2> DEFINE id == h.of[st.dep]
             of == [h.of EXCEPT ![a] = id]
             g == [h EXCEPT !.of = of]
  <2>1. st.dep \in Place /\ id \in D /\ id # 0 /\ N[id] = Arg(a).name
    BY <1>2, <1>4 DEF StateFits, NameState
  <2>2. of \in [Place -> D \cup {0}] /\ \A b \in Place : of[b] = IF b = a THEN id ELSE h.of[b]
    BY <1>2, <2>1
  <2>3. WithAlias(h, a, st, depend) = g
    BY <1>2, <1>4 DEF WithAlias
  <2>4. g.aliases = h.aliases /\ g.of = of /\ g.next = h.next /\ DOMAIN g = {"aliases", "of", "next"}
    BY <1>2
  <2> HIDE DEF id, of, g
  <2>5. \A x \in D : x \in Written(h.of) => x \in Written(of)
    <3> SUFFICES ASSUME NEW x \in D, x \in Written(h.of) PROVE x \in Written(of)
      OBVIOUS
    <3>1. PICK b \in Place : Arg(b).write /\ x = h.of[b]
      BY DEF Written
    <3>2. b # a
      BY <1>2, <1>4, <3>1
    <3> QED
      BY <2>2, <3>1, <3>2 DEF Written
  <2>6. Sound(h.aliases, D, N, Written(of))
    BY <1>2, <2>5, SameChains
  <2>7. HeapFits(g, D, N)
    BY <1>2, <2>1, <2>2, <2>4, <2>6 DEF HeapFits
  <2>8. Extends(h, g) /\ g.of[a] # 0
    BY <1>4, <2>1, <2>2, <2>4 DEF Extends
  <2> QED
    BY <2>3, <2>7, <2>8 DEF HeapOK
<1>5. CASE h.of[a] = 0 /\ ~(depend /\ st.dep # NoPlace)
  <2> DEFINE id == h.next
             E == D \cup {id}
             fresh == [integer |-> Arg(a).name \in IntegerName, lines |-> {}, pred |-> 0, reg |-> 0]
             as == [x \in E |-> IF x = id THEN fresh ELSE h.aliases[x]]
             of == [h.of EXCEPT ![a] = id]
             M == [x \in E |-> IF x = id THEN Arg(a).name ELSE N[x]]
             g == [aliases |-> as, of |-> of, next |-> id + 1]
  <2>1. DOMAIN h.aliases = D
    BY <1>2
  <2>2. WithAlias(h, a, st, depend) = g
    BY <1>5, <2>1 DEF WithAlias
  <2>3. id \notin D /\ id # 0 /\ E \subseteq 1 .. (id + 1) - 1 /\ id + 1 \in Nat \ {0} /\ 0 \notin D
    <3>1. id \in Nat \ {0} /\ \A x \in D : x \in 1 .. id - 1
      BY <1>2
    <3>2. id \in Int /\ id >= 1 /\ (id + 1) - 1 = id /\ id + 1 \in Nat \ {0}
      BY <3>1
    <3> HIDE DEF id
    <3>3. \A x \in D : x \in Int /\ x >= 1 /\ x < id
      BY <3>1
    <3>4. \A x \in D \cup {id} : x \in 1 .. id
      BY <3>2, <3>3
    <3> QED
      BY <3>2, <3>3, <3>4
  <2>4. fresh \in Alias /\ fresh.pred = 0
    BY RegisterAssumption DEF Alias
  <2>5. of \in [Place -> E \cup {0}] /\ \A b \in Place : of[b] = IF b = a THEN id ELSE h.of[b]
    BY <1>2
  <2>6. as \in [E -> Alias] /\ as[id] = fresh /\ \A x \in D : as[x] = h.aliases[x]
    <3> HIDE DEF fresh
    <3> QED
      BY <1>2, <2>3, <2>4
  <2>7. M \in [E -> Name] /\ M[id] = Arg(a).name /\ \A x \in D : M[x] = N[x]
    BY <1>2, <2>3, PlaceTyped
  <2>8. Linked(as, E)
    BY <1>2, <2>4, <2>6 DEF Sound, Linked
  <2>9. ASSUME ShortChains PROVE Ends(as, E)
    <3> SUFFICES ASSUME NEW S \in SUBSET E, S # {}, \A x \in S : as[x].pred \in S PROVE FALSE
      BY DEF Ends
    <3>1. id \notin S
      BY <2>3, <2>4, <2>6
    <3>2. S \in SUBSET D
      BY <3>1
    <3>3. PICK x \in S : h.aliases[x].pred \notin S
      BY <1>2, <2>9, <3>2 DEF Sound, Ends
    <3> QED
      BY <2>6, <3>2, <3>3
  <2> HIDE DEF fresh, as, of, M
  <2>10. ASSUME NEW x \in E, as[x].pred # 0
         PROVE  x \in Written(of) /\ M[as[x].pred] = M[x]
    <3>1. x \in D /\ h.aliases[x].pred \in D /\ h.aliases[x].pred # 0
      BY <1>2, <2>4, <2>6, <2>10 DEF Sound, Linked
    <3>2. x \in Written(h.of) /\ N[h.aliases[x].pred] = N[x]
      BY <1>2, <3>1 DEF Sound
    <3>3. PICK b \in Place : Arg(b).write /\ x = h.of[b]
      BY <3>2 DEF Written
    <3>4. x \in Written(of)
      BY <1>5, <2>3, <2>5, <3>1, <3>3 DEF Written
    <3> QED
      BY <2>6, <2>7, <3>1, <3>2, <3>4
  <2>11. Sound(as, E, M, Written(of))
    BY <2>6, <2>8, <2>9, <2>10 DEF Sound
  <2>12. \A b \in Place : of[b] # 0 => M[of[b]] = Arg(b).name
    BY <1>2, <2>5, <2>7
  <2>13. HeapFits(g, E, M)
    BY <2>3, <2>5, <2>7, <2>11, <2>12 DEF HeapFits
  <2>14. Extends(h, g) /\ g.of[a] # 0
    BY <1>5, <2>3, <2>5 DEF Extends
  <2> HIDE DEF g
  <2> QED
    BY <2>2, <2>13, <2>14 DEF HeapOK
<1> QED
  BY <1>3, <1>4, <1>5


LEMMA LivedFits ==
  ASSUME program \in Programs, NEW h, HeapOK(h), NEW a \in Place,
         NEW st, StateFits(Arg(a).name, st, h.of), NEW depend \in BOOLEAN
  PROVE  LET g == Lived(h, a, st, depend)
         IN HeapOK(g) /\ Extends(h, g) /\ g.of[a] # 0
<1> DEFINE given == WithAlias(h, a, st, depend)
           id == given.of[a]
           lines == IF depend THEN LinesToHere(st, a[1]) ELSE {a[1]}
           alias == [given.aliases[id] EXCEPT
                       !.reg = IF depend /\ st.input # 0 THEN st.input ELSE @, !.lines = @ \cup lines]
           as == [given.aliases EXCEPT ![id] = alias]
           g == [given EXCEPT !.aliases = as]
<1>1. HeapOK(given) /\ Extends(h, given) /\ id # 0
  BY WithAliasFits
<1>2. PICK D, N : HeapFits(given, D, N)
  BY <1>1 DEF HeapOK
<1> HIDE DEF given
<1>3. given.aliases \in [D -> Alias] /\ DOMAIN given = {"aliases", "of", "next"}
  BY <1>2 DEF HeapFits, Sound
<1>4. id \in D
  BY <1>1, <1>2 DEF HeapFits
<1>5. lines \in SUBSET Line
  <2>1. a[1] \in 1 .. Len(Code) /\ Len(Code) \in Nat
    BY PlaceTyped, ProgramTyped
  <2>2. a[1] \in Line
    BY <2>1 DEF Line
  <2> QED
    BY <2>2, LinesInside DEF StateFits
<1>6. alias \in Alias /\ alias.pred = given.aliases[id].pred
  <2>1. given.aliases[id] \in Alias
    BY <1>3, <1>4
  <2>2. st.input \in 0 .. Registers
    BY DEF StateFits, NameState
  <2> HIDE DEF lines
  <2> QED
    BY <1>5, <2>1, <2>2 DEF Alias
<1>7. Lived(h, a, st, depend) = g
  BY DEF Lived, given
<1> HIDE DEF alias, id
<1>8. as \in [D -> Alias] /\ \A x \in D : as[x].pred = given.aliases[x].pred
  BY <1>3, <1>4, <1>6
<1>9. g.aliases = as /\ g.of = given.of /\ g.next = given.next /\ DOMAIN g = {"aliases", "of", "next"}
  BY <1>3
<1> HIDE DEF as, g
<1>10. Sound(as, D, N, Written(given.of))
  <2>1. Sound(given.aliases, D, N, Written(given.of))
    BY <1>2 DEF HeapFits
  <2> QED
    BY <1>8, <2>1, SameChains
<1>11. HeapFits(g, D, N)
  BY <1>2, <1>9, <1>10 DEF HeapFits
<1> QED
  BY <1>1, <1>7, <1>9, <1>11 DEF HeapOK, Extends, id

LEMMA JoinedFits ==
  ASSUME program \in Programs, NEW h, HeapOK(h), NEW a \in Place, h.of[a] # 0,
         NEW st, StateFits(Arg(a).name, st, h.of), NEW depend \in BOOLEAN
  PROVE  LET g == Joined(h, a, st, depend)
         IN HeapOK(g) /\ Keeps(h, g)
<1>1. CASE depend /\ st.dep # NoPlace
  <2>1. PICK D, N : HeapFits(h, D, N)
    BY DEF HeapOK
  <2>2. st.dep \in Place /\ h.of[st.dep] # 0 /\ Arg(st.dep).name = Arg(a).name
    BY <1>1 DEF StateFits, NameState
  <2>3. h.of[a] \in D /\ h.of[st.dep] \in D /\ N[h.of[a]] = N[h.of[st.dep]]
    BY <2>1, <2>2 DEF HeapFits
  <2> QED
    BY <1>1, <2>1, <2>3, MergedFits DEF Joined
<1>2. CASE ~(depend /\ st.dep # NoPlace)
  BY <1>2 DEF Joined, Keeps
<1> QED
  BY <1>1, <1>2

(* A name that is met has an alias, in front of what it was and behind. *)
LEMMA UpdatedFits ==
  ASSUME program \in Programs, NEW h, HeapOK(h), NEW a \in Place,
         NEW st, StateFits(Arg(a).name, st, h.of), NEW depend \in BOOLEAN
  PROVE  LET g == Joined(Lived(h, a, st, depend), a, st, depend)
         IN HeapOK(g) /\ Keeps(h, g) /\ g.of[a] # 0
<1> DEFINE lived == Lived(h, a, st, depend)
           g == Joined(lived, a, st, depend)
<1>1. HeapOK(lived) /\ Extends(h, lived) /\ lived.of[a] # 0
  BY LivedFits
<1> HIDE DEF lived
<1>2. StateFits(Arg(a).name, st, lived.of)
  BY <1>1 DEF StateFits, NameState, Extends
<1>3. HeapOK(g) /\ Keeps(lived, g)
  BY <1>1, <1>2, JoinedFits
<1>4. Keeps(h, g) /\ g.of[a] # 0
  BY <1>1, <1>3 DEF Keeps, Extends
<1> QED
  BY <1>3, <1>4 DEF lived

LEMMA MetFits ==
  ASSUME NEW n, NEW st, NEW of, StateFits(n, st, of),
         NEW a \in Place, of[a] # 0, Arg(a).name = n, a # NoPlace
  PROVE  /\ StateFits(n, MetAt(st, a), of)
         /\ \A fields \in SUBSET Field : StateFits(n, [MetAt(st, a) EXCEPT !.fields = fields], of)
<1>1. 0 \in 0 .. Registers
  BY RegisterAssumption
<1>2. st \in NameState
  BY DEF StateFits
<1>3. /\ MetAt(st, a) \in NameState
      /\ MetAt(st, a).dep = a /\ MetAt(st, a).fields = st.fields
  BY <1>1, <1>2 DEF MetAt, NameState
<1>4. ASSUME NEW fields \in SUBSET Field
      PROVE  /\ [MetAt(st, a) EXCEPT !.fields = fields] \in NameState
             /\ [MetAt(st, a) EXCEPT !.fields = fields].dep = a
  BY <1>3 DEF NameState
<1> QED
  BY <1>3, <1>4 DEF StateFits


-----------------------------------------------------------------------------
(* The order of the places *)

LEMMA PlacesFinite ==
  ASSUME program \in Programs
  PROVE  IsFiniteSet(Place)
<1> DEFINE Row(i) == {i} \X DOMAIN Code[i].args
           rows == {Row(i) : i \in DOMAIN Code}
           f == [i \in DOMAIN Code |-> Row(i)]
<1>1. IsFiniteSet(DOMAIN Code)
  BY ProgramTyped, UpToFinite
<1>2. ASSUME NEW i \in DOMAIN Code PROVE IsFiniteSet(Row(i))
  <2>1. IsFiniteSet({i})
    BY FS_Singleton
  <2>2. IsFiniteSet(DOMAIN Code[i].args)
    BY ProgramTyped, UpToFinite
  <2> QED
    BY <2>1, <2>2, FS_Product
<1>3. f \in Surjection(DOMAIN Code, rows)
  <2> HIDE DEF Row
  <2> QED
    BY DEF Surjection
<1>4. IsFiniteSet(rows)
  <2> HIDE DEF f, rows
  <2> QED
    BY <1>1, <1>3, FS_Surjection
<1>5. Place = UNION rows
  BY DEF Place
<1>6. \A T \in rows : IsFiniteSet(T)
  BY <1>2
<1> HIDE DEF rows
<1> QED
  BY <1>4, <1>5, <1>6, FS_UNION

LEMMA LastOfIn ==
  ASSUME program \in Programs, NEW S \in SUBSET Place, S # {}
  PROVE  LastOf(S) \in S
<1> DEFINE lines == {a[1] : a \in S}
<1>1. Len(Code) \in Nat /\ lines \in SUBSET (1 .. Len(Code)) /\ lines # {}
  BY PlaceTyped, ProgramTyped
<1>2. PICK i \in lines : \A k \in lines : k <= i
  BY <1>1, GreatestNumber
<1> DEFINE args == {a[2] : a \in {b \in S : b[1] = i}}
<1>3. i \in DOMAIN Code
  BY <1>1, <1>2, ProgramTyped
<1>4. /\ Len(Code[i].args) \in Nat
      /\ args \in SUBSET (1 .. Len(Code[i].args)) /\ args # {}
  BY <1>2, <1>3, PlaceTyped, ProgramTyped
<1>5. PICK j \in args : \A k \in args : k <= j
  BY <1>4, GreatestNumber
<1>6. PICK a \in S : a[1] = i /\ a[2] = j
  BY <1>5
<1>7. i \in Int /\ j \in Int
  BY <1>1, <1>2, <1>4, <1>5
<1>8. ASSUME NEW b \in S PROVE ~Above(a, b)
  <2>1. b[1] \in lines /\ b[1] <= i /\ b[1] \in Int
    BY <1>1, <1>2
  <2>2. b[1] = i => b[2] \in args /\ b[2] <= j /\ b[2] \in Int
    BY <1>4, <1>5
  <2> HIDE DEF lines, args
  <2> QED
    BY <1>6, <1>7, <2>1, <2>2 DEF Above
<1> QED
  BY <1>6, <1>8 DEF LastOf

LEMMA FirstOfIn ==
  ASSUME program \in Programs, NEW S \in SUBSET Place, S # {}
  PROVE  FirstOf(S) \in S
<1> DEFINE lines == {a[1] : a \in S}
<1>1. lines \in SUBSET Nat /\ lines # {}
  BY PlaceTyped, ProgramTyped
<1>2. PICK i \in lines : \A k \in lines : i <= k
  BY <1>1, LeastNumber
<1> DEFINE args == {a[2] : a \in {b \in S : b[1] = i}}
<1>3. i \in DOMAIN Code
  BY <1>1, <1>2, PlaceTyped
<1>4. args \in SUBSET Nat /\ args # {}
  <2>1. DOMAIN Code[i].args \subseteq Nat
    BY <1>3, ProgramTyped
  <2> QED
    BY <1>2, <2>1, PlaceTyped
<1>5. PICK j \in args : \A k \in args : j <= k
  BY <1>4, LeastNumber
<1>6. PICK a \in S : a[1] = i /\ a[2] = j
  BY <1>5
<1>7. i \in Int /\ j \in Int
  BY <1>1, <1>2, <1>4, <1>5
<1>8. ASSUME NEW b \in S PROVE ~Above(b, a)
  <2>1. b[1] \in lines /\ i <= b[1] /\ b[1] \in Int
    BY <1>1, <1>2
  <2>2. b[1] = i => b[2] \in args /\ j <= b[2] /\ b[2] \in Int
    BY <1>4, <1>5
  <2> HIDE DEF lines, args
  <2> QED
    BY <1>6, <1>7, <2>1, <2>2 DEF Above
<1> QED
  BY <1>6, <1>8 DEF FirstOf


-----------------------------------------------------------------------------
(* Loops *)

LEMMA AllTiedSound ==
  ASSUME program \in Programs, NEW m \in Nat, NEW D \in SUBSET (1 .. m), NEW N, NEW W,
         NEW h, Sound(h.aliases, D, N, W), NEW holders, NEW F \in SUBSET Place,
         \A a \in F : /\ h.of[a] \in D \cap W /\ holders[Arg(a).name] \in D
                      /\ N[holders[Arg(a).name]] = N[h.of[a]]
  PROVE  Sound(AllTied(h, holders, F), D, N, W)
<1> DEFINE V == {bs \in [D -> Alias] : Sound(bs, D, N, W)}
           T(a, bs) == Tie(bs, h.of[a], holders[Arg(a).name])
           step == [p \in F \X V |-> T(p[1], p[2])]
           pick == [s \in SUBSET F |-> LastOf(s)]
           Fits(g) == g = [s \in SUBSET F |->
             IF s = {} THEN h.aliases
             ELSE Tie(g[s \ {LastOf(s)}], h.of[LastOf(s)], holders[Arg(LastOf(s)).name])]
           G == CHOOSE g : Fits(g)
<1>1. h.aliases \in V
  BY DEF Sound
<1>2. IsFiniteSet(F)
  BY PlacesFinite, FS_Subset
<1> HIDE DEF V
<1>3. \A s \in SUBSET F : s # {} => pick[s] \in s /\ LastOf(s) \in s /\ pick[s] = LastOf(s)
  BY LastOfIn
<1>4. ASSUME NEW a \in F, NEW bs \in V PROVE T(a, bs) \in V
  <2>1. Sound(bs, D, N, W)
    BY DEF V
  <2>2. Sound(Chained(bs, h.of[a], holders[Arg(a).name]), D, N, W)
    BY <2>1, ChainedSound
  <2>3. Sound(T(a, bs), D, N, W)
    BY <2>1, <2>2 DEF Tie
  <2> HIDE DEF T
  <2> QED
    BY <2>3 DEF V, Sound
<1> HIDE DEF T
<1>5. step \in [F \X V -> V] /\ \A a \in F, bs \in V : step[<<a, bs>>] = T(a, bs)
  BY <1>4
<1> HIDE DEF step, pick
<1>6. PICK g : Recursion(F, V, h.aliases, pick, step, g)
  BY <1>1, <1>2, <1>3, <1>5, FoldExists
<1>7. ASSUME NEW s \in SUBSET F, s # {}
      PROVE  step[<<pick[s], g[s \ {pick[s]}]>>] = T(LastOf(s), g[s \ {LastOf(s)}])
  <2>1. LastOf(s) \in F /\ s \ {LastOf(s)} \in SUBSET F /\ pick[s] = LastOf(s)
    BY <1>3, <1>7
  <2>2. g[s \ {LastOf(s)}] \in V
    BY <1>6, <2>1 DEF Recursion
  <2> QED
    BY <1>5, <2>1, <2>2
<1>8. Fits(g)
  <2> DEFINE a(s) == IF s = {} THEN h.aliases ELSE step[<<pick[s], g[s \ {pick[s]}]>>]
             b(s) == IF s = {} THEN h.aliases ELSE T(LastOf(s), g[s \ {LastOf(s)}])
  <2>1. \A s \in SUBSET F : a(s) = b(s)
    BY <1>7
  <2>2. g = [s \in SUBSET F |-> a(s)]
    BY <1>6 DEF Recursion
  <2> HIDE DEF a, b
  <2>3. g = [s \in SUBSET F |-> b(s)]
    BY <2>1, <2>2
  <2> QED
    BY <2>3 DEF b, T
<1>9. AllTied(h, holders, F) = G[F]
  BY DEF AllTied, MapThenFoldSet
<1>10. Fits(G)
  <2> HIDE DEF Fits
  <2> QED
    BY <1>8
<1> HIDE DEF G
<1>11. G[{}] \in V /\ \A s \in SUBSET F : s # {} => G[s] = T(LastOf(s), G[s \ {LastOf(s)}])
  <2> DEFINE b(s) == IF s = {} THEN h.aliases ELSE T(LastOf(s), G[s \ {LastOf(s)}])
  <2>1. G = [s \in SUBSET F |-> b(s)]
    BY <1>10 DEF T
  <2> HIDE DEF b
  <2>2. \A s \in SUBSET F : G[s] = b(s)
    BY <2>1
  <2> QED
    BY <1>1, <2>2 DEF b
<1>12. ASSUME NEW s \in SUBSET F, s # {} PROVE \E x \in s : G[s \ {x}] \in V => G[s] \in V
  <2>1. LastOf(s) \in s /\ LastOf(s) \in F
    BY <1>3, <1>12
  <2>2. G[s \ {LastOf(s)}] \in V => G[s] \in V
    BY <1>4, <1>11, <1>12, <2>1
  <2> QED
    BY <2>1, <2>2
<1>13. G[F] \in V
  BY <1>2, <1>11, <1>12, FoldInside
<1> QED
  BY <1>9, <1>13 DEF V

LEMMA TiedFits ==
  ASSUME program \in Programs, NEW h, HeapOK(h), NEW body \in SUBSET (DOMAIN Code), NEW carried
  PROVE  HeapOK(Tied(h, body, carried)) /\ Extends(h, Tied(h, body, carried))
<1> DEFINE places == UNION {Occurrences(i, h) : i \in body}
           read == {a \in places : h.of[a] \in carried}
           holders == Holders(h, read)
           F == Loose(h, places, holders)
           as == AllTied(h, holders, F)
           g == [h EXCEPT !.aliases = as]
<1>1. PICK D, N : HeapFits(h, D, N)
  BY DEF HeapOK
<1> DEFINE m == h.next - 1
           W == Written(h.of)
<1>2. m \in Nat /\ D \in SUBSET (1 .. m) /\ Sound(h.aliases, D, N, W)
  BY <1>1 DEF HeapFits
<1>3. \A a \in places : a \in Place /\ h.of[a] # 0
  BY DEF Occurrences, PlacesAt, Place
<1>4. \A a \in places : h.of[a] \in D /\ N[h.of[a]] = Arg(a).name
  BY <1>1, <1>3 DEF HeapFits
<1> HIDE DEF places, m
<1>5. ASSUME NEW n \in DOMAIN holders PROVE holders[n] \in D /\ N[holders[n]] = n
  <2> DEFINE S == {a \in read : Arg(a).name = n}
  <2>1. DOMAIN holders = {Arg(a).name : a \in read}
    BY DEF Holders
  <2>2. S # {} /\ S \in SUBSET Place
    BY <1>3, <2>1
  <2>3. FirstOf(S) \in S
    BY <2>2, FirstOfIn
  <2>4. holders[n] = h.of[FirstOf(S)]
    BY <2>1 DEF Holders
  <2> QED
    BY <1>4, <2>3, <2>4
<1> HIDE DEF read, holders
<1>6. \A a \in F : a \in places /\ Arg(a).write /\ Arg(a).name \in DOMAIN holders
  BY DEF Loose
<1>7. F \in SUBSET Place
  BY <1>3, <1>6
<1>8. \A a \in F : /\ h.of[a] \in D \cap W /\ holders[Arg(a).name] \in D
                   /\ N[holders[Arg(a).name]] = N[h.of[a]]
  BY <1>3, <1>4, <1>5, <1>6 DEF Written
<1> HIDE DEF F
<1>9. Sound(as, D, N, W)
  <2> HIDE DEF W
  <2> QED
    BY <1>2, <1>7, <1>8, AllTiedSound
<1>10. Tied(h, body, carried) = g
  BY DEF Tied, F, holders, read, places
<1> HIDE DEF as
<1>11. g.aliases = as /\ g.of = h.of /\ g.next = h.next /\ DOMAIN g = {"aliases", "of", "next"}
  BY <1>1 DEF HeapFits
<1> HIDE DEF g
<1>12. HeapFits(g, D, N)
  BY <1>1, <1>9, <1>11 DEF HeapFits
<1> QED
  BY <1>10, <1>11, <1>12 DEF HeapOK, Extends


-----------------------------------------------------------------------------
(* The write of an integer *)

Agree(f, c, e, d) == \A m \in Nat : m <= c /\ m <= d => f[m] = e[m]

From(as, id, n, f) == f[0] = id /\ Steps(as, n, f)

LEMMA PathsAgree ==
  ASSUME NEW as, NEW id, NEW c \in Nat, NEW f, From(as, id, c, f),
         NEW d \in Nat, NEW e, From(as, id, d, e)
  PROVE  Agree(f, c, e, d)
<1> SUFFICES ASSUME NEW m \in Nat, m <= c, m <= d PROVE f[m] = e[m]
  BY DEF Agree
<1> DEFINE Bad == {k \in Nat : k <= m /\ f[k] # e[k]}
<1> SUFFICES ASSUME Bad # {} PROVE FALSE
  OBVIOUS
<1>1. PICK k \in Bad : \A j \in Bad : k <= j
  BY LeastNumber
<1>2. k # 0
  BY <1>1 DEF From
<1>3. k \in 1 .. c /\ k \in 1 .. d /\ k - 1 \in Nat /\ k - 1 <= m /\ k - 1 \notin Bad
  BY <1>1, <1>2
<1>4. f[k - 1] = e[k - 1]
  BY <1>3
<1>5. f[k] = Pred(as, f[k - 1]) /\ e[k] = Pred(as, e[k - 1])
  BY <1>3 DEF From, Steps
<1> QED
  BY <1>1, <1>4, <1>5

(* A path that comes to an alias has been at aliases alone. *)
LEMMA PathBefore ==
  ASSUME NEW as, NEW D, 0 \notin D, Linked(as, D), NEW c \in Nat, NEW f, Steps(as, c, f),
         f[0] \in D, NEW m \in 0 .. c, f[m] \in D
  PROVE  \A k \in 0 .. m : f[k] \in D
<1>1. \A k \in 0 .. c : f[k] \in D \cup {0}
  BY PathInside
<1> DEFINE Z == {k \in 1 .. m : f[k] = 0}
<1>2. Z = {}
  <2> SUFFICES ASSUME Z # {} PROVE FALSE
    OBVIOUS
  <2>1. m \in Nat /\ Z \in SUBSET (1 .. m)
    OBVIOUS
  <2>2. PICK z \in Z : \A k \in Z : k <= z
    BY <2>1, GreatestNumber
  <2>3. z # m
    BY <2>2
  <2>4. z + 1 \in 1 .. m /\ z + 1 \in 1 .. c /\ (z + 1) - 1 = z /\ z + 1 \notin Z
    BY <2>2, <2>3
  <2>5. f[z + 1] = Pred(as, f[z])
    BY <2>4 DEF Steps
  <2> QED
    BY <2>2, <2>4, <2>5 DEF Pred
<1> QED
  BY <1>1, <1>2

(* A write that does not see itself on the chain is not on it. *)
LEMMA SeesTheEnd ==
  ASSUME program \in Programs, ShortChains, NEW h, NEW D, NEW N, HeapFits(h, D, N),
         NEW n \in IntegerName, NEW id \in D \cap Written(h.of), N[id] = n,
         NEW before \in D, N[before] = n,
         id \notin Climb(h.aliases, before, Hops - 1)
  PROVE  id \notin Ancestors(h.aliases, before)
<1> DEFINE as == h.aliases
           C == Cardinality(D)
           writes == WritesOf(Code, n)
<1>1. /\ h.next - 1 \in Nat /\ D \in SUBSET (1 .. h.next - 1) /\ 0 \notin D
      /\ Linked(as, D) /\ Ends(as, D) /\ DOMAIN as = D
      /\ \A x \in D : as[x].pred # 0 => x \in Written(h.of) /\ N[as[x].pred] = N[x]
      /\ \A a \in Place : h.of[a] # 0 => N[h.of[a]] = Arg(a).name
  BY DEF HeapFits, Sound
<1>2. C \in Nat
  BY <1>1, UpToFinite, FS_Subset, FS_CardinalityType
<1>3. IsFiniteSet(writes) /\ Cardinality(writes) \in Nat /\ Cardinality(writes) <= Hops
      /\ writes = {a \in Place : Arg(a).write /\ Arg(a).name = n}
  <2>1. writes = {a \in Place : Arg(a).write /\ Arg(a).name = n}
    BY DEF WritesOf, Place, Arg
  <2>2. IsFiniteSet(writes)
    BY <2>1, PlacesFinite, FS_Subset
  <2>3. Cardinality(writes) <= Hops
    BY DEF ShortChains, Code
  <2> QED
    BY <2>1, <2>2, <2>3, FS_CardinalityType
<1>4. \A x \in Written(h.of) : x \in D /\ N[x] = n => \E a \in writes : h.of[a] = x
  BY <1>1, <1>3 DEF Written
<1>5. Hops \in Nat /\ Hops # 0
  <2>1. writes # {}
    BY <1>4
  <2>2. Cardinality(writes) # 0
    BY <1>3, <2>1, FS_EmptySet
  <2> QED
    BY <1>3, <2>2, HopsAssumption
<1> HIDE DEF writes, C
<1> SUFFICES ASSUME id \in Ancestors(as, before) PROVE FALSE
  OBVIOUS
<1>6. PICK f : Path(as, before, C, f)
  BY <1>2, ClimbIs
<1>7. f[0] = before /\ Steps(as, C, f) /\ Climb(as, before, C) = {f[k] : k \in 0 .. C} \ {0}
  BY <1>6 DEF Path
<1>8. PICK m \in 0 .. C : f[m] = id
  BY <1>1, <1>7 DEF Ancestors, C
<1>9. \A k \in 0 .. m : f[k] \in D
  BY <1>1, <1>2, <1>7, <1>8, PathBefore
<1>10. m >= Hops
  <2> SUFFICES ASSUME m < Hops PROVE FALSE
    BY <1>2, <1>5
  <2>1. Hops - 1 \in Nat /\ m \in 0 .. Hops - 1 /\ m \in Nat /\ m <= C
    BY <1>2, <1>5
  <2>2. PICK e : Path(as, before, Hops - 1, e)
    BY <2>1, ClimbIs
  <2>3. e[0] = before /\ Steps(as, Hops - 1, e)
        /\ Climb(as, before, Hops - 1) = {e[k] : k \in 0 .. Hops - 1} \ {0}
    BY <2>2 DEF Path
  <2>4. f[m] = e[m]
    <3> HIDE DEF as
    <3>1. From(as, before, C, f) /\ From(as, before, Hops - 1, e)
      BY <1>7, <2>3 DEF From
    <3>2. m <= Hops - 1
      BY <2>1
    <3> DEFINE d == Hops - 1
    <3>3. d \in Nat /\ m <= d /\ From(as, before, d, e)
      BY <2>1, <3>1, <3>2
    <3> HIDE DEF d
    <3>4. C \in Nat /\ m \in Nat /\ m <= C
      BY <1>2, <2>1
    <3>5. Agree(f, C, e, d)
      BY <3>1, <3>3, <3>4, PathsAgree
    <3> QED
      BY <3>3, <3>4, <3>5 DEF Agree
  <2> QED
    BY <1>1, <1>8, <2>1, <2>3, <2>4
<1>11. \A k \in 0 .. m : N[f[k]] = n
  <2> DEFINE Bad == {k \in Nat : k <= m /\ N[f[k]] # n}
  <2> SUFFICES ASSUME Bad # {} PROVE FALSE
    OBVIOUS
  <2>1. PICK k \in Bad : \A j \in Bad : k <= j
    BY LeastNumber
  <2>2. k # 0
    BY <1>7, <2>1
  <2>3. k \in 1 .. C /\ k - 1 \in 0 .. m /\ k \in 0 .. m /\ k - 1 \notin Bad
    BY <1>2, <2>1, <2>2
  <2>4. N[f[k - 1]] = n
    BY <2>3
  <2>5. f[k - 1] \in D /\ f[k] \in D
    BY <1>9, <2>3
  <2>6. f[k] = as[f[k - 1]].pred /\ f[k] # 0
    BY <1>1, <1>7, <2>3, <2>5 DEF Steps, Pred
  <2> HIDE DEF as
  <2>7. N[f[k]] = N[f[k - 1]]
    BY <1>1, <2>5, <2>6
  <2> QED
    BY <2>1, <2>4, <2>7
<1>12. ASSUME NEW k \in 0 .. m PROVE f[k] \in Written(h.of)
  <2>1. CASE k = m
    BY <1>8, <2>1
  <2>2. CASE k # m
    <3>1. k + 1 \in 1 .. C /\ (k + 1) - 1 = k /\ k + 1 \in 0 .. m
      BY <1>2, <2>2
    <3>2. f[k] \in D /\ f[k + 1] \in D
      BY <1>9, <3>1
    <3>3. f[k + 1] = as[f[k]].pred /\ f[k + 1] # 0
      <4>1. f[k + 1] = Pred(as, f[k])
        BY <1>7, <3>1 DEF Steps
      <4> QED
        BY <1>1, <3>2, <4>1 DEF Pred
    <3> HIDE DEF as
    <3> QED
      BY <1>1, <3>2, <3>3
  <2> QED
    BY <2>1, <2>2
<1> DEFINE q == [k \in 0 .. Hops |-> CHOOSE a \in writes : h.of[a] = f[k]]
<1>13. ASSUME NEW k \in 0 .. Hops PROVE k \in 0 .. m /\ q[k] \in writes /\ h.of[q[k]] = f[k]
  <2>1. k \in 0 .. m
    BY <1>2, <1>5, <1>10
  <2>2. \E a \in writes : h.of[a] = f[k]
    BY <1>4, <1>9, <1>11, <1>12, <2>1
  <2> QED
    BY <2>1, <2>2
<1> HIDE DEF q
<1>14. q \in [0 .. Hops -> writes]
  BY <1>13 DEF q
<1>15. IsFiniteSet(0 .. Hops) /\ Cardinality(writes) < Cardinality(0 .. Hops)
  BY <1>3, <1>5, FromZeroFinite
<1>16. PICK i, j \in 0 .. Hops : i # j /\ q[i] = q[j]
  <2>1. IsFiniteSet(writes)
    BY <1>3
  <2> DEFINE S == 0 .. Hops
  <2>2. IsFiniteSet(S) /\ Cardinality(writes) < Cardinality(S) /\ q \in [S -> writes]
    BY <1>14, <1>15
  <2> HIDE DEF S
  <2>3. \E i, j \in S : i # j /\ q[i] = q[j]
    BY <2>1, <2>2, FS_PigeonHole
  <2> QED
    BY <2>3 DEF S
<1>17. f[i] = f[j] /\ i \in 0 .. m /\ j \in 0 .. m
  BY <1>13, <1>16
<1>18. m \in Nat /\ Steps(as, m, f)
  <2>1. m \in Nat /\ \A k \in 1 .. m : k \in 1 .. C
    BY <1>2
  <2>2. Steps(as, C, f)
    BY <1>7
  <2> HIDE DEF as
  <2> QED
    BY <2>1, <2>2 DEF Steps
<1>19. 0 \notin D /\ Linked(as, D) /\ Ends(as, D)
  BY <1>1
<1> HIDE DEF as
<1>20. f[i] # f[j]
  BY <1>9, <1>16, <1>17, <1>18, <1>19, PathDistinct
<1> QED
  BY <1>17, <1>20

LEMMA FollowsFits ==
  ASSUME program \in Programs, NEW h, HeapOK(h), NEW a \in Place,
         Arg(a).write, Arg(a).name \in IntegerName,
         NEW dep \in Place, h.of[a] # 0, h.of[dep] # 0, Arg(dep).name = Arg(a).name,
         h.of[a] \notin Climb(h.aliases, h.of[dep], Hops - 1)
  PROVE  LET g == [h EXCEPT !.aliases[h.of[a]].pred = h.of[dep]]
         IN HeapOK(g) /\ Extends(h, g)
<1> DEFINE id == h.of[a]
           before == h.of[dep]
           as == [h.aliases EXCEPT ![id].pred = before]
           g == [h EXCEPT !.aliases = as]
<1>1. PICK D, N : HeapFits(h, D, N)
  BY DEF HeapOK
<1>2. /\ id \in D \cap Written(h.of) /\ N[id] = Arg(a).name
      /\ before \in D /\ N[before] = Arg(a).name
  BY <1>1 DEF HeapFits, Written
<1>3. ShortChains => id \notin Ancestors(h.aliases, before)
  <2> HIDE DEF id, before
  <2> QED
    BY <1>1, <1>2, SeesTheEnd DEF id, before
<1>4. h.next - 1 \in Nat /\ D \in SUBSET (1 .. h.next - 1) /\ Sound(h.aliases, D, N, Written(h.of))
  BY <1>1 DEF HeapFits
<1>5. Sound(as, D, N, Written(h.of))
  <2> HIDE DEF id, before
  <2> QED
    BY <1>2, <1>3, <1>4, EdgeSound
<1>6. [h EXCEPT !.aliases[h.of[a]].pred = h.of[dep]] = g
  OBVIOUS
<1> HIDE DEF as
<1>7. g.aliases = as /\ g.of = h.of /\ g.next = h.next /\ DOMAIN g = {"aliases", "of", "next"}
  BY <1>1 DEF HeapFits
<1> HIDE DEF g
<1>8. HeapFits(g, D, N)
  BY <1>1, <1>5, <1>7 DEF HeapFits
<1> QED
  BY <1>6, <1>7, <1>8 DEF HeapOK, Extends


-----------------------------------------------------------------------------
(* The walkers *)

Args(i) == IF i <= Len(Code) THEN Len(Code[i].args) ELSE 0

(* A walker is at a token or the exit, and what it knows of a name has an alias. *)
WalkerSet(of) ==
  {w \in [at : Line, arg : Nat, branches : SUBSET (Nat \X Nat), names : [Name -> NameState]] :
     /\ w.arg <= Args(w.at)
     /\ \A n \in Name : StateFits(n, w.names[n], of)}

Passes == {"walk", "loops", "chains", "rest", "run", "failed"}

Inv ==
  /\ program \in Programs
  /\ HeapOK(heap)
  /\ walkers \in Seq(WalkerSet(heap.of))
  /\ pass \in Passes
  /\ cursor \in Nat \ {0}
  /\ pc \in Nat \ {0}
  /\ held \in [Register -> [Field -> Name \cup {Nothing}]]

LEMMA WalkersKept ==
  ASSUME NEW h, NEW g, Keeps(h, g)
  PROVE  WalkerSet(h.of) \subseteq WalkerSet(g.of)
<1>1. ASSUME NEW n, NEW st, StateFits(n, st, h.of) PROVE StateFits(n, st, g.of)
  BY <1>1 DEF StateFits, NameState, Keeps
<1> QED
  BY <1>1 DEF WalkerSet

LEMMA SameWalkers ==
  ASSUME program' = program, NEW h, NEW ws \in Seq(WalkerSet(h.of)), heap' = h, walkers' = ws
  PROVE  (walkers \in Seq(WalkerSet(heap.of)))'
<1>1. Place' = Place /\ Line' = Line /\ Code' = Code
  BY SamePlaces
<1>2. NameState' = NameState
  BY <1>1 DEF NameState
<1>3. ASSUME NEW n, NEW st PROVE StateFits(n, st, heap.of)' <=> StateFits(n, st, h.of)
  BY <1>1, <1>2 DEF StateFits, Arg
<1>4. ASSUME NEW i PROVE Args(i)' = Args(i)
  BY <1>1 DEF Args
<1>5. WalkerSet(heap.of)' = WalkerSet(h.of)
  BY <1>1, <1>2, <1>3, <1>4 DEF WalkerSet
<1> QED
  BY <1>5

LEMMA InvKept ==
  ASSUME Inv, program' = program,
         NEW h, HeapOK(h), heap' = h, NEW ws \in Seq(WalkerSet(h.of)), walkers' = ws,
         pass' \in Passes, cursor' \in Nat \ {0}, pc' \in Nat \ {0},
         held' \in [Register -> [Field -> Name \cup {Nothing}]]
  PROVE  Inv'
BY SameHeap, SameWalkers DEF Inv

LEMMA WalkerTyped ==
  ASSUME Inv, walkers # <<>>
  PROVE  /\ Walker \in WalkerSet(heap.of)
         /\ Walker.at \in Line /\ Walker.arg \in Nat
         /\ 1 \in DOMAIN walkers /\ Tail(walkers) \in Seq(WalkerSet(heap.of))
         /\ \A n \in Name : StateFits(n, State(n), heap.of)
         /\ Walker.arg > 0 => Here \in Place
<1>1. walkers \in Seq(WalkerSet(heap.of)) /\ program \in Programs
  BY DEF Inv
<1>2. Walker \in WalkerSet(heap.of) /\ 1 \in DOMAIN walkers /\ Tail(walkers) \in Seq(WalkerSet(heap.of))
  BY <1>1 DEF Walker
<1>3. Walker.at \in Line /\ Walker.arg \in Nat /\ Walker.arg <= Args(Walker.at)
  BY <1>2 DEF WalkerSet
<1>4. \A n \in Name : StateFits(n, State(n), heap.of)
  BY <1>2 DEF WalkerSet, State
<1>5. ASSUME Walker.arg > 0 PROVE Here \in Place
  <2>1. Walker.at <= Len(Code) /\ Walker.arg <= Len(Code[Walker.at].args)
    BY <1>3, <1>5 DEF Args
  <2>2. Walker.at \in DOMAIN Code
    BY <1>1, <1>3, <2>1, ProgramTyped DEF Line
  <2>3. Walker.arg \in DOMAIN Code[Walker.at].args
    BY <1>1, <1>3, <1>5, <2>1, <2>2, ProgramTyped
  <2> QED
    BY <2>2, <2>3 DEF Here, Place
<1> QED
  BY <1>2, <1>3, <1>4, <1>5

LEMMA PastFits ==
  ASSUME Inv, walkers # <<>>, Walker.arg > 0, NEW g, Keeps(heap, g),
         NEW n \in Name, NEW st, StateFits(n, st, g.of)
  PROVE  Past(n, st) \in Seq(WalkerSet(g.of))
<1> DEFINE w == [Walker EXCEPT !.arg = @ - 1, !.names[n] = st]
<1>1. WalkerSet(heap.of) \subseteq WalkerSet(g.of)
  BY WalkersKept
<1>2. Walker \in WalkerSet(g.of) /\ walkers \in Seq(WalkerSet(g.of))
  BY <1>1, WalkerTyped DEF Inv
<1>3. Walker.arg \in Nat /\ st \in NameState /\ Walker.at \in Line
  BY WalkerTyped DEF StateFits
<1>4. /\ w \in [at : Line, arg : Nat, branches : SUBSET (Nat \X Nat), names : [Name -> NameState]]
      /\ w.at = Walker.at /\ w.arg = Walker.arg - 1
      /\ \A k \in Name : w.names[k] = IF k = n THEN st ELSE Walker.names[k]
  <2> DEFINE v == Walker
             names == [v.names EXCEPT ![n] = st]
  <2>1. /\ v \in [at : Line, arg : Nat, branches : SUBSET (Nat \X Nat), names : [Name -> NameState]]
        /\ v.arg \in Nat /\ v.arg - 1 \in Nat
    BY <1>2, <1>3 DEF WalkerSet
  <2>2. w = [v EXCEPT !.arg = v.arg - 1, !.names = names]
    OBVIOUS
  <2> HIDE DEF v, w
  <2>3. names \in [Name -> NameState] /\ \A k \in Name : names[k] = IF k = n THEN st ELSE v.names[k]
    BY <1>3, <2>1
  <2> HIDE DEF names
  <2>4. w \in [at : Line, arg : Nat, branches : SUBSET (Nat \X Nat), names : [Name -> NameState]]
    BY <2>1, <2>2, <2>3
  <2>5. w.at = v.at /\ w.arg = v.arg - 1 /\ w.names = names
    BY <2>1, <2>2
  <2> QED
    BY <2>3, <2>4, <2>5 DEF v
<1>5. Args(Walker.at) \in Nat
  <2>1. program \in Programs
    BY DEF Inv
  <2>2. Walker.at <= Len(Code) => Walker.at \in DOMAIN Code
    BY <1>3, <2>1, ProgramTyped DEF Line
  <2> QED
    BY <2>1, <2>2, ProgramTyped DEF Args
<1>6. Walker.arg <= Args(Walker.at) /\ \A k \in Name : StateFits(k, Walker.names[k], g.of)
  BY <1>2 DEF WalkerSet
<1> HIDE DEF w
<1>7. w.arg <= Args(w.at)
  BY <1>3, <1>4, <1>5, <1>6
<1>8. \A k \in Name : StateFits(k, w.names[k], g.of)
  BY <1>4, <1>6
<1>9. w \in WalkerSet(g.of)
  BY <1>4, <1>7, <1>8 DEF WalkerSet
<1>10. [walkers EXCEPT ![1] = w] \in Seq(WalkerSet(g.of))
  BY <1>2, <1>9
<1> QED
  BY <1>10 DEF Past, w


LEMMA MovedFits ==
  ASSUME program \in Programs, NEW of, NEW i \in Line,
         NEW w \in [at : Line, arg : Nat, branches : SUBSET (Nat \X Nat), names : [Name -> NameState]],
         \A n \in Name : StateFits(n, w.names[n], of)
  PROVE  MovedTo(w, i) \in WalkerSet(of)
<1>1. Args(i) \in Nat
  <2>1. i <= Len(Code) => i \in DOMAIN Code
    BY ProgramTyped DEF Line
  <2> QED
    BY <2>1, ProgramTyped DEF Args
<1>2. MovedTo(w, i) = [w EXCEPT !.at = i, !.arg = Args(i)]
  BY DEF MovedTo, Args
<1> DEFINE v == [w EXCEPT !.at = i, !.arg = Args(i)]
<1>3. /\ v \in [at : Line, arg : Nat, branches : SUBSET (Nat \X Nat), names : [Name -> NameState]]
      /\ v.at = i /\ v.arg = Args(i) /\ v.names = w.names
  BY <1>1
<1> HIDE DEF v
<1>4. v \in WalkerSet(of)
  BY <1>1, <1>3 DEF WalkerSet
<1> QED
  BY <1>2, <1>4 DEF v

LEMMA AtBranchTyped ==
  ASSUME Inv, NEW kind, AtBranch(kind)
  PROVE  /\ program \in Programs /\ walkers # <<>>
         /\ Walker.at \in DOMAIN Code /\ Walker.at \in Nat /\ Walker.at + 1 \in Line
         /\ kind # "NONE" => Target \in DOMAIN Code /\ Target \in Line /\ Target \in Nat \ {0}
<1>1. program \in Programs /\ walkers # <<>> /\ Walker.at <= Len(Code) /\ Code[Walker.at].branch = kind
  BY DEF Inv, AtBranch, Walking
<1>2. Walker.at \in 1 .. Len(Code) /\ Len(Code) \in Nat
  BY <1>1, WalkerTyped, ProgramTyped DEF Line
<1>3. Walker.at \in DOMAIN Code
  BY <1>1, <1>2, ProgramTyped
<1>4. kind # "NONE" => Target \in DOMAIN Code
  BY <1>1, <1>3, ProgramTyped DEF Target
<1>5. \A i \in DOMAIN Code : i \in Line /\ i \in Nat \ {0}
  BY <1>1, ProgramTyped DEF Line
<1> QED
  BY <1>1, <1>2, <1>3, <1>4, <1>5 DEF Line

LEMMA TracedFits ==
  ASSUME Inv, NEW kind \in {"CONDITIONAL", "JUMP"}, AtBranch(kind),
         NEW n, NEW st, NEW of, StateFits(n, st, of)
  PROVE  StateFits(n, Traced(st), of)
<1>1. CASE st.fields = {}
  BY <1>1 DEF Traced
<1>2. CASE st.fields # {}
  <2>1. program \in Programs /\ Walker.at \in 1 .. Len(Code) /\ Len(Code) \in Nat /\ Target \in Nat \ {0}
    BY AtBranchTyped, ProgramTyped
  <2>2. st \in NameState /\ (st.entry # 0 \/ st.dep # NoPlace)
    BY <1>2 DEF StateFits
  <2> DEFINE top == IF st.entry = 0 THEN st.dep[1] ELSE st.entry
             crossed == st.crossed \cup (top .. Walker.at + 1)
  <2>3. st.crossed \in SUBSET Line /\ st.entry \in Nat /\ st.dep \in Place \cup {NoPlace}
    BY <2>2 DEF NameState
  <2>4. top \in Nat \ {0}
    BY <2>1, <2>2, <2>3, PlaceTyped
  <2>5. crossed \in SUBSET Line
    <3> HIDE DEF top
    <3> QED
      BY <2>1, <2>3, <2>4 DEF Line
  <2>6. Traced(st) = [st EXCEPT !.crossed = crossed, !.entry = Target]
    BY <1>2 DEF Traced
  <2> HIDE DEF crossed
  <2>7. /\ Traced(st) \in NameState
        /\ Traced(st).dep = st.dep /\ Traced(st).entry # 0
    <3> DEFINE t == Target
    <3>1. t \in Nat /\ t # 0
      BY <2>1
    <3> HIDE DEF t
    <3> QED
      BY <2>2, <2>5, <2>6, <3>1 DEF NameState, t
  <2> QED
    BY <2>7 DEF StateFits
<1> QED
  BY <1>1, <1>2

LEMMA StoredTyped ==
  ASSUME Inv, NEW kind \in {"CONDITIONAL", "JUMP"}, AtBranch(kind)
  PROVE  /\ StoreBranch(Walker) \in
              [at : Line, arg : Nat, branches : SUBSET (Nat \X Nat), names : [Name -> NameState]]
         /\ StoreBranch(Walker).at = Walker.at
         /\ StoreBranch(Walker).names = Walker.names
<1>1. Walker \in [at : Line, arg : Nat, branches : SUBSET (Nat \X Nat), names : [Name -> NameState]]
  BY AtBranchTyped, WalkerTyped DEF WalkerSet
<1>2. <<Walker.at, Target>> \in Nat \X Nat
  BY AtBranchTyped
<1> DEFINE v == Walker
           b == <<v.at, Target>>
<1>3. StoreBranch(Walker) = [v EXCEPT !.branches = @ \cup {b}]
  BY DEF StoreBranch
<1>4. v \in [at : Line, arg : Nat, branches : SUBSET (Nat \X Nat), names : [Name -> NameState]]
      /\ b \in Nat \X Nat
  BY <1>1, <1>2
<1> HIDE DEF v, b
<1> QED
  BY <1>3, <1>4 DEF v

LEMMA TurnedFits ==
  ASSUME Inv, NEW kind \in {"CONDITIONAL", "JUMP"}, AtBranch(kind)
  PROVE  Turned(StoreBranch(Walker)) \in WalkerSet(heap.of)
<1> DEFINE w == StoreBranch(Walker)
           names == [n \in Name |-> Traced(w.names[n])]
           v == [w EXCEPT !.names = names]
<1>1. w \in [at : Line, arg : Nat, branches : SUBSET (Nat \X Nat), names : [Name -> NameState]]
      /\ w.names = Walker.names
  BY StoredTyped
<1>2. program \in Programs /\ Target \in Line
  BY AtBranchTyped
<1>3. ASSUME NEW n \in Name PROVE StateFits(n, Traced(w.names[n]), heap.of)
  <2>1. StateFits(n, State(n), heap.of)
    BY AtBranchTyped, WalkerTyped
  <2>2. w.names[n] = State(n)
    BY <1>1 DEF State
  <2> QED
    BY <2>1, <2>2, TracedFits
<1> HIDE DEF w
<1>4. names \in [Name -> NameState] /\ \A n \in Name : names[n] = Traced(w.names[n])
  BY <1>3 DEF StateFits
<1>5. \A n \in Name : StateFits(n, names[n], heap.of)
  BY <1>3, <1>4
<1>6. Turned(w) = MovedTo(v, Target)
  BY DEF Turned
<1> HIDE DEF names
<1>7. v \in [at : Line, arg : Nat, branches : SUBSET (Nat \X Nat), names : [Name -> NameState]]
      /\ v.names = names
  BY <1>1, <1>4
<1> HIDE DEF v
<1>8. MovedTo(v, Target) \in WalkerSet(heap.of)
  BY <1>2, <1>5, <1>7, MovedFits
<1> QED
  BY <1>6, <1>8 DEF w

(* Lines and registers change, the chains do not. *)
LEMMA ReAliased ==
  ASSUME NEW h, HeapOK(h), NEW as,
         \A D : h.aliases \in [D -> Alias] =>
                  as \in [D -> Alias] /\ \A id \in D : as[id].pred = h.aliases[id].pred
  PROVE  LET g == [h EXCEPT !.aliases = as]
         IN HeapOK(g) /\ g.of = h.of
<1> DEFINE g == [h EXCEPT !.aliases = as]
<1>1. PICK D, N : HeapFits(h, D, N)
  BY DEF HeapOK
<1>2. Sound(h.aliases, D, N, Written(h.of))
  BY <1>1 DEF HeapFits
<1>3. h.aliases \in [D -> Alias]
  BY <1>2 DEF Sound
<1>4. Sound(as, D, N, Written(h.of))
  <2>1. as \in [D -> Alias] /\ \A id \in D : as[id].pred = h.aliases[id].pred
    BY <1>3
  <2> QED
    BY <1>2, <2>1, SameChains
<1>5. g.aliases = as /\ g.of = h.of /\ g.next = h.next /\ DOMAIN g = {"aliases", "of", "next"}
  BY <1>1 DEF HeapFits
<1> HIDE DEF g
<1>6. HeapFits(g, D, N)
  BY <1>1, <1>4, <1>5 DEF HeapFits
<1> QED
  BY <1>5, <1>6 DEF HeapOK, g

LEMMA LivingFits ==
  ASSUME NEW h, HeapOK(h), NEW ids, NEW lines \in SUBSET Line
  PROVE  LET g == [h EXCEPT !.aliases = LivingOn(@, ids, lines)]
         IN HeapOK(g) /\ g.of = h.of
<1> DEFINE as == LivingOn(h.aliases, ids, lines)
<1>1. ASSUME NEW D, h.aliases \in [D -> Alias]
      PROVE  as \in [D -> Alias] /\ \A id \in D : as[id].pred = h.aliases[id].pred
  <2>1. as = [id \in D |-> IF id \in ids THEN [h.aliases[id] EXCEPT !.lines = @ \cup lines]
                           ELSE h.aliases[id]]
    BY <1>1 DEF LivingOn
  <2>2. ASSUME NEW a \in Alias
        PROVE  [a EXCEPT !.lines = @ \cup lines] \in Alias
               /\ [a EXCEPT !.lines = @ \cup lines].pred = a.pred
    BY DEF Alias
  <2> HIDE DEF as
  <2> QED
    BY <1>1, <2>1, <2>2
<1> HIDE DEF as
<1>2. LET g == [h EXCEPT !.aliases = as] IN HeapOK(g) /\ g.of = h.of
  BY <1>1, ReAliased
<1> QED
  BY <1>2 DEF as

LEMMA RegisterFits ==
  ASSUME HeapOK(heap), NEW chain, NEW reg \in 0 .. Registers
  PROVE  HeapOK(WithRegister(chain, reg)) /\ WithRegister(chain, reg).of = heap.of
<1> DEFINE h == heap
           as == [id \in DOMAIN h.aliases |->
                    IF id \in chain THEN [h.aliases[id] EXCEPT !.reg = reg] ELSE h.aliases[id]]
<1>1. ASSUME NEW D, h.aliases \in [D -> Alias]
      PROVE  as \in [D -> Alias] /\ \A id \in D : as[id].pred = h.aliases[id].pred
  <2>1. as = [id \in D |-> IF id \in chain THEN [h.aliases[id] EXCEPT !.reg = reg] ELSE h.aliases[id]]
    BY <1>1
  <2>2. ASSUME NEW a \in Alias
        PROVE  [a EXCEPT !.reg = reg] \in Alias /\ [a EXCEPT !.reg = reg].pred = a.pred
    BY DEF Alias
  <2> HIDE DEF as
  <2> QED
    BY <1>1, <2>1, <2>2
<1> HIDE DEF as
<1>2. LET g == [h EXCEPT !.aliases = as] IN HeapOK(g) /\ g.of = h.of
  BY <1>1, ReAliased
<1>3. WithRegister(chain, reg) = [h EXCEPT !.aliases = as]
  BY DEF WithRegister, as
<1> QED
  BY <1>2, <1>3

LEMMA ExtendedFits ==
  ASSUME Inv, NEW kind \in {"CONDITIONAL", "JUMP"}, AtBranch(kind),
         NEW h, h = IF Backward THEN LoopExtended ELSE heap
  PROVE  HeapOK(h) /\ h.of = heap.of
<1>1. HeapOK(heap)
  BY DEF Inv
<1>2. (Target .. Walker.at + 1) \in SUBSET Line
  <2>1. Len(Code) \in Nat /\ Walker.at + 1 \in Line /\ Target \in Line
    BY AtBranchTyped, ProgramTyped
  <2> QED
    BY <2>1 DEF Line
<1> DEFINE loop == Target .. Walker.at + 1
           met  == {heap.of[State(n).dep] : n \in {m \in Name : State(m).dep # NoPlace}}
           ids  == {id \in met : /\ \E l \in heap.aliases[id].lines : l < Target
                                 /\ heap.aliases[id].lines \cap loop # {}}
           g    == [heap EXCEPT !.aliases = LivingOn(@, ids, loop)]
<1>3. LoopExtended = g
  BY DEF LoopExtended
<1> HIDE DEF loop, ids
<1>4. HeapOK(g) /\ g.of = heap.of
  BY <1>1, <1>2, LivingFits DEF loop
<1> QED
  BY <1>1, <1>3, <1>4


-----------------------------------------------------------------------------
(* The actions *)

LEMMA ReadKept ==
  ASSUME Inv, ReadArgument
  PROVE  Inv'
<1> DEFINE a == Here
           n == Arg(a).name
           st == State(n)
           g == Joined(Lived(heap, a, st, TRUE), a, st, TRUE)
<1>1. /\ program \in Programs /\ HeapOK(heap) /\ walkers # <<>> /\ Walker.arg > 0
      /\ walkers \in Seq(WalkerSet(heap.of))
  BY DEF Inv, ReadArgument, Walking
<1>2. a \in Place
  BY <1>1, WalkerTyped
<1>3. n \in Name /\ a # NoPlace
  BY <1>1, <1>2, PlaceTyped
<1>4. StateFits(n, st, heap.of)
  BY <1>1, <1>3, WalkerTyped
<1>5. HeapOK(g) /\ Keeps(heap, g) /\ g.of[a] # 0
  <2> HIDE DEF a, st
  <2> QED
    BY <1>1, <1>2, <1>4, UpdatedFits
<1>6. StateFits(n, st, g.of)
  BY <1>4, <1>5 DEF StateFits, NameState, Keeps
<1>7. StateFits(n, MetAt(st, a), g.of)
  <2> HIDE DEF a, st, g
  <2> QED
    BY <1>2, <1>3, <1>5, <1>6, MetFits
<1>8. Past(n, MetAt(st, a)) \in Seq(WalkerSet(g.of))
  <2> HIDE DEF a, n, st, g
  <2> QED
    BY <1>1, <1>3, <1>5, <1>7, PastFits
<1>9. /\ program' = program /\ cursor' = cursor /\ pc' = pc /\ held' = held
      /\ \/ pass' = "failed" /\ walkers' = walkers /\ heap' = heap
         \/ pass' = pass /\ heap' = g /\ walkers' = Past(n, MetAt(st, a))
  BY DEF ReadArgument
<1>10. pass' \in Passes /\ cursor' \in Nat \ {0} /\ pc' \in Nat \ {0}
       /\ held' \in [Register -> [Field -> Name \cup {Nothing}]]
  BY <1>9 DEF Inv, Passes
<1> HIDE DEF a, n, st, g
<1> QED
  BY <1>1, <1>5, <1>8, <1>9, <1>10, InvKept

LEMMA WriteFloatKept ==
  ASSUME Inv, WriteFloat
  PROVE  Inv'
<1> DEFINE a == Here
           n == Arg(a).name
           st == State(n)
           depend == ~(st.fields \subseteq Arg(a).fields)
           g == Joined(Lived(heap, a, st, depend), a, st, depend)
           met == [MetAt(st, a) EXCEPT !.fields = st.fields \cup Arg(a).fields]
<1>1. /\ program \in Programs /\ HeapOK(heap) /\ walkers # <<>> /\ Walker.arg > 0
      /\ walkers \in Seq(WalkerSet(heap.of))
  BY DEF Inv, WriteFloat, Walking
<1>2. a \in Place
  BY <1>1, WalkerTyped
<1>3. n \in Name /\ a # NoPlace /\ Arg(a).fields \in SUBSET Field
  BY <1>1, <1>2, PlaceTyped
<1>4. StateFits(n, st, heap.of) /\ st.fields \in SUBSET Field
  BY <1>1, <1>3, WalkerTyped DEF StateFits, NameState
<1>5. HeapOK(g) /\ Keeps(heap, g) /\ g.of[a] # 0
  <2>1. depend \in BOOLEAN
    OBVIOUS
  <2> HIDE DEF a, st, depend
  <2> QED
    BY <1>1, <1>2, <1>4, <2>1, UpdatedFits
<1>6. StateFits(n, st, g.of)
  BY <1>4, <1>5 DEF StateFits, NameState, Keeps
<1>7. StateFits(n, met, g.of)
  <2>1. st.fields \cup Arg(a).fields \in SUBSET Field
    BY <1>3, <1>4
  <2> HIDE DEF a, st, g
  <2> QED
    BY <1>2, <1>3, <1>5, <1>6, <2>1, MetFits
<1>8. Past(n, met) \in Seq(WalkerSet(g.of))
  <2> HIDE DEF a, n, st, g, met
  <2> QED
    BY <1>1, <1>3, <1>5, <1>7, PastFits
<1>9. /\ program' = program /\ cursor' = cursor /\ pc' = pc /\ held' = held /\ pass' = pass
      /\ heap' = g /\ walkers' = Past(n, met)
  BY DEF WriteFloat
<1>10. pass' \in Passes /\ cursor' \in Nat \ {0} /\ pc' \in Nat \ {0}
       /\ held' \in [Register -> [Field -> Name \cup {Nothing}]]
  BY <1>9 DEF Inv, Passes
<1> HIDE DEF a, n, st, g, met
<1> QED
  BY <1>1, <1>5, <1>8, <1>9, <1>10, InvKept

LEMMA WriteIntegerKept ==
  ASSUME Inv, WriteInteger
  PROVE  Inv'
<1> DEFINE a == Here
           n == Arg(a).name
           st == State(n)
           updated == Lived(heap, a, st, FALSE)
           id == updated.of[a]
           before == IF st.dep = NoPlace THEN 0 ELSE heap.of[st.dep]
           follows == /\ before \notin {0, id}
                      /\ updated.aliases[id].pred = 0
                      /\ id \notin Climb(updated.aliases, before, Hops - 1)
           g == IF follows THEN [updated EXCEPT !.aliases[id].pred = before] ELSE updated
           met == [MetAt(st, a) EXCEPT !.fields = Field]
<1>1. /\ program \in Programs /\ HeapOK(heap) /\ walkers # <<>> /\ Walker.arg > 0
      /\ walkers \in Seq(WalkerSet(heap.of)) /\ Arg(a).write /\ n \in IntegerName
  BY DEF Inv, WriteInteger, Walking
<1>2. a \in Place
  BY <1>1, WalkerTyped
<1>3. n \in Name /\ a # NoPlace
  BY <1>1, <1>2, PlaceTyped
<1>4. StateFits(n, st, heap.of)
  BY <1>1, <1>3, WalkerTyped
<1>5. HeapOK(updated) /\ Extends(heap, updated) /\ updated.of[a] # 0
  <2> HIDE DEF a, st
  <2> QED
    BY <1>1, <1>2, <1>4, LivedFits
<1>6. HeapOK(g) /\ Extends(heap, g) /\ g.of[a] # 0
  <2>1. CASE ~follows
    BY <1>5, <2>1
  <2>2. CASE follows
    <3>1. st.dep # NoPlace
      BY <2>2
    <3>2. /\ st.dep \in Place /\ heap.of[st.dep] # 0 /\ Arg(st.dep).name = n
          /\ before = heap.of[st.dep]
      BY <1>4, <3>1 DEF StateFits, NameState
    <3>3. before = updated.of[st.dep] /\ updated.of[st.dep] # 0
      BY <1>5, <3>2 DEF Extends
    <3> DEFINE dep == st.dep
               k == [updated EXCEPT !.aliases[updated.of[a]].pred = updated.of[dep]]
    <3>4. g = k
      BY <2>2, <3>3
    <3>5. updated.of[a] \notin Climb(updated.aliases, updated.of[dep], Hops - 1)
      BY <2>2, <3>3
    <3>6. dep \in Place /\ updated.of[dep] # 0 /\ Arg(dep).name = Arg(a).name
      BY <3>2, <3>3
    <3> HIDE DEF updated, a, dep
    <3>7. HeapOK(k) /\ Extends(updated, k)
      BY <1>1, <1>2, <1>5, <3>5, <3>6, FollowsFits
    <3> HIDE DEF k
    <3> QED
      BY <1>2, <1>5, <3>4, <3>7 DEF Extends
  <2> QED
    BY <2>1, <2>2
<1> HIDE DEF g
<1>7. Keeps(heap, g)
  BY <1>6 DEF Keeps, Extends
<1>8. StateFits(n, st, g.of)
  BY <1>4, <1>7 DEF StateFits, NameState, Keeps
<1>9. StateFits(n, met, g.of)
  <2>1. Field \in SUBSET Field
    OBVIOUS
  <2> HIDE DEF a, st
  <2> QED
    BY <1>2, <1>3, <1>6, <1>8, <2>1, MetFits
<1>10. Past(n, met) \in Seq(WalkerSet(g.of))
  <2> HIDE DEF a, n, st, met
  <2> QED
    BY <1>1, <1>3, <1>7, <1>9, PastFits
<1>11. /\ program' = program /\ cursor' = cursor /\ pc' = pc /\ held' = held /\ pass' = pass
       /\ heap' = g /\ walkers' = Past(n, met)
  BY DEF WriteInteger, g
<1>12. pass' \in Passes /\ cursor' \in Nat \ {0} /\ pc' \in Nat \ {0}
       /\ held' \in [Register -> [Field -> Name \cup {Nothing}]]
  BY <1>11 DEF Inv, Passes
<1> HIDE DEF a, n, st, met
<1> QED
  BY <1>1, <1>6, <1>10, <1>11, <1>12, InvKept


(* The rest of the walk changes no chain. *)
LEMMA WalkKept ==
  ASSUME Inv,
         StepOn \/ StopAtConditional \/ Fork \/ StopAtJump \/ Jump \/ Exit \/ EndWalk
  PROVE  Inv'
<1>1. /\ program \in Programs /\ HeapOK(heap) /\ walkers \in Seq(WalkerSet(heap.of))
      /\ pass \in Passes /\ cursor \in Nat \ {0} /\ pc \in Nat \ {0}
      /\ held \in [Register -> [Field -> Name \cup {Nothing}]]
  BY DEF Inv
<1>2. ASSUME NEW kind, AtBranch(kind)
      PROVE  /\ 1 \in DOMAIN walkers /\ Tail(walkers) \in Seq(WalkerSet(heap.of))
             /\ MovedTo(Walker, Walker.at + 1) \in WalkerSet(heap.of)
  <2>1. walkers # <<>> /\ Walker.at + 1 \in Line
    BY <1>2, AtBranchTyped
  <2>2. 1 \in DOMAIN walkers /\ Tail(walkers) \in Seq(WalkerSet(heap.of)) /\ Walker \in WalkerSet(heap.of)
    BY <2>1, WalkerTyped
  <2> DEFINE v == Walker
             i == v.at + 1
  <2>3. /\ v \in [at : Line, arg : Nat, branches : SUBSET (Nat \X Nat), names : [Name -> NameState]]
        /\ \A n \in Name : StateFits(n, v.names[n], heap.of)
    BY <2>2 DEF WalkerSet
  <2>4. i \in Line
    BY <2>1
  <2> HIDE DEF v, i
  <2>5. MovedTo(v, i) \in WalkerSet(heap.of)
    BY <1>1, <2>3, <2>4, MovedFits
  <2> QED
    BY <2>2, <2>5 DEF v, i
<1>3. CASE StepOn
  <2>1. AtBranch("NONE") /\ walkers' = [walkers EXCEPT ![1] = MovedTo(Walker, Walker.at + 1)]
    BY <1>3 DEF StepOn, Walker
  <2>2. UNCHANGED <<program, heap, visits, pass, cursor, pc, held>>
    BY <1>3 DEF StepOn
  <2> DEFINE w == MovedTo(Walker, Walker.at + 1)
             ws == [walkers EXCEPT ![1] = w]
  <2>3. w \in WalkerSet(heap.of)
    BY <1>2, <2>1
  <2> HIDE DEF w
  <2>4. ws \in Seq(WalkerSet(heap.of))
    BY <1>1, <1>2, <2>1, <2>3
  <2> QED
    BY <1>1, <2>1, <2>2, <2>4, InvKept DEF w
<1>4. CASE StopAtConditional
  <2> DEFINE h == IF Backward THEN LoopExtended ELSE heap
  <2>1. AtBranch("CONDITIONAL") /\ walkers' = Tail(walkers) /\ heap' = h
    BY <1>4 DEF StopAtConditional
  <2>2. UNCHANGED <<program, visits, pass, cursor, pc, held>>
    BY <1>4 DEF StopAtConditional
  <2>3. HeapOK(h) /\ h.of = heap.of
    BY <2>1, ExtendedFits
  <2> HIDE DEF h
  <2> QED
    BY <1>1, <1>2, <2>1, <2>2, <2>3, InvKept
<1>5. CASE Fork
  <2> DEFINE h == IF Backward THEN LoopExtended ELSE heap
             stored == StoreBranch(Walker)
             onward == MovedTo(stored, stored.at + 1)
             first == [walkers EXCEPT ![1] = onward]
             ws == Append(first, Turned(stored))
  <2>1. AtBranch("CONDITIONAL") /\ walkers' = ws /\ heap' = h
    BY <1>5 DEF Fork
  <2>2. UNCHANGED <<program, pass, cursor, pc, held>>
    BY <1>5 DEF Fork
  <2>3. HeapOK(h) /\ h.of = heap.of
    BY <2>1, ExtendedFits
  <2>4. Turned(stored) \in WalkerSet(heap.of)
    BY <2>1, TurnedFits
  <2>5. onward \in WalkerSet(heap.of)
    <3>1. /\ stored \in [at : Line, arg : Nat, branches : SUBSET (Nat \X Nat), names : [Name -> NameState]]
          /\ stored.at = Walker.at /\ stored.names = Walker.names
      BY <2>1, StoredTyped
    <3>2. stored.at + 1 \in Line /\ walkers # <<>>
      BY <2>1, <3>1, AtBranchTyped
    <3>3. \A n \in Name : StateFits(n, stored.names[n], heap.of)
      BY <3>1, <3>2, WalkerTyped DEF State
    <3> DEFINE i == stored.at + 1
    <3>4. i \in Line
      BY <3>2
    <3> HIDE DEF stored, i
    <3>5. MovedTo(stored, i) \in WalkerSet(heap.of)
      BY <1>1, <3>1, <3>3, <3>4, MovedFits
    <3> QED
      BY <3>5 DEF i
  <2>6. ws \in Seq(WalkerSet(heap.of))
    <3> DEFINE t == Turned(stored)
    <3>1. t \in WalkerSet(heap.of) /\ 1 \in DOMAIN walkers
      BY <1>2, <2>1, <2>4
    <3> HIDE DEF onward, t
    <3>2. first \in Seq(WalkerSet(heap.of))
      BY <1>1, <2>5, <3>1
    <3> HIDE DEF first
    <3>3. Append(first, t) \in Seq(WalkerSet(heap.of))
      BY <3>1, <3>2
    <3> QED
      BY <3>3 DEF t
  <2> HIDE DEF h, ws
  <2> QED
    BY <1>1, <2>1, <2>2, <2>3, <2>6, InvKept
<1>6. CASE StopAtJump
  <2> DEFINE h == IF Backward THEN LoopExtended ELSE heap
  <2>1. AtBranch("JUMP") /\ walkers' = Tail(walkers) /\ heap' = h
    BY <1>6 DEF StopAtJump
  <2>2. UNCHANGED <<program, visits, pass, cursor, pc, held>>
    BY <1>6 DEF StopAtJump
  <2>3. HeapOK(h) /\ h.of = heap.of
    BY <2>1, ExtendedFits
  <2> HIDE DEF h
  <2> QED
    BY <1>1, <1>2, <2>1, <2>2, <2>3, InvKept
<1>7. CASE Jump
  <2> DEFINE t == Turned(StoreBranch(Walker))
             ws == [walkers EXCEPT ![1] = t]
  <2>1. AtBranch("JUMP") /\ walkers' = ws
    BY <1>7 DEF Jump, Walker
  <2>2. UNCHANGED <<program, heap, visits, pass, cursor, pc, held>>
    BY <1>7 DEF Jump
  <2>3. t \in WalkerSet(heap.of)
    BY <2>1, TurnedFits
  <2> HIDE DEF t
  <2>4. ws \in Seq(WalkerSet(heap.of))
    BY <1>1, <1>2, <2>1, <2>3
  <2> HIDE DEF ws
  <2> QED
    BY <1>1, <2>1, <2>2, <2>4, InvKept
<1>8. CASE Exit
  <2>1. walkers # <<>> /\ walkers' = Tail(walkers)
    BY <1>8 DEF Exit, Walking
  <2>2. UNCHANGED <<program, heap, visits, pass, cursor, pc, held>>
    BY <1>8 DEF Exit
  <2> QED
    BY <1>1, <2>1, <2>2, WalkerTyped, InvKept
<1>9. CASE EndWalk
  <2>1. pass' \in Passes /\ UNCHANGED <<program, walkers, heap, visits, cursor, pc, held>>
    BY <1>9 DEF EndWalk, Passes
  <2> QED
    BY <1>1, <2>1, InvKept
<1> QED
  BY <1>3, <1>4, <1>5, <1>6, <1>7, <1>8, <1>9

LEMMA ExtendLoopKept ==
  ASSUME Inv, ExtendLoop
  PROVE  Inv'
<1>1. /\ program \in Programs /\ HeapOK(heap) /\ walkers \in Seq(WalkerSet(heap.of))
      /\ pass \in Passes /\ cursor \in Nat \ {0} /\ pc \in Nat \ {0}
      /\ held \in [Register -> [Field -> Name \cup {Nothing}]]
  BY DEF Inv
<1>2. /\ cursor' = cursor + 1 /\ cursor <= Len(Code)
      /\ UNCHANGED <<program, walkers, visits, pass, pc, held>>
  BY DEF ExtendLoop
<1>3. \E h : heap' = h /\ HeapOK(h) /\ Keeps(heap, h)
  <2>1. CASE heap' = heap
    BY <1>1, <2>1 DEF Keeps
  <2>2. CASE heap' # heap
    <3>1. /\ IsBackEdge(cursor)
          /\ heap' = Tied(LoopLived(heap, cursor), Body(cursor), Carried(Body(cursor), heap))
      BY <2>2 DEF ExtendLoop
    <3>2. Len(Code) \in Nat /\ cursor \in DOMAIN Code /\ Code[cursor].target \in DOMAIN Code
      BY <1>1, <1>2, <3>1, ProgramTyped DEF IsBackEdge
    <3>3. Body(cursor) \in SUBSET (DOMAIN Code) /\ Body(cursor) \in SUBSET Line
      <4>1. DOMAIN Code = 1 .. Len(Code)
        BY <1>1, ProgramTyped
      <4> QED
        BY <3>2, <4>1 DEF Body, Line
    <3> DEFINE lived == LoopLived(heap, cursor)
               carried == Carried(Body(cursor), heap)
               body == Body(cursor)
    <3>4. HeapOK(lived) /\ lived.of = heap.of
      <4> DEFINE ids == LiveIn(Body(cursor), heap)
                 g == [heap EXCEPT !.aliases = LivingOn(@, ids, body)]
      <4>1. lived = g
        BY DEF LoopLived
      <4>2. body \in SUBSET Line
        BY <3>3
      <4> HIDE DEF ids, body, lived
      <4>3. HeapOK(g) /\ g.of = heap.of
        BY <1>1, <4>2, LivingFits
      <4> QED
        BY <4>1, <4>3
    <3>5. body \in SUBSET (DOMAIN Code)
      BY <3>3
    <3> HIDE DEF lived, carried, body
    <3>6. HeapOK(Tied(lived, body, carried)) /\ Extends(lived, Tied(lived, body, carried))
      BY <1>1, <3>4, <3>5, TiedFits
    <3>7. Keeps(heap, Tied(lived, body, carried))
      BY <3>4, <3>6 DEF Keeps, Extends
    <3> QED
      BY <3>1, <3>6, <3>7 DEF lived, carried, body
  <2> QED
    BY <2>1, <2>2
<1>4. PICK h : heap' = h /\ HeapOK(h) /\ Keeps(heap, h)
  BY <1>3
<1>5. walkers \in Seq(WalkerSet(h.of))
  <2>1. WalkerSet(heap.of) \subseteq WalkerSet(h.of)
    BY <1>4, WalkersKept
  <2> QED
    BY <1>1, <2>1
<1>6. cursor' \in Nat \ {0}
  BY <1>1, <1>2
<1> QED
  BY <1>1, <1>2, <1>4, <1>5, <1>6, InvKept

LEMMA RegistersKept ==
  ASSUME Inv, PlaceChain \/ PlaceAlias \/ SkipAlias \/ NextPass
  PROVE  Inv'
<1>1. /\ program \in Programs /\ HeapOK(heap) /\ walkers \in Seq(WalkerSet(heap.of))
      /\ pass \in Passes /\ cursor \in Nat \ {0} /\ pc \in Nat \ {0}
      /\ held \in [Register -> [Field -> Name \cup {Nothing}]]
      /\ cursor + 1 \in Nat \ {0}
  BY DEF Inv
<1>2. ASSUME NEW chain, NEW S \in SUBSET (1 .. Registers), S # {}
      PROVE  HeapOK(WithRegister(chain, Min(S))) /\ WithRegister(chain, Min(S)).of = heap.of
  <2>1. S \in SUBSET Nat /\ S \subseteq 0 .. Registers
    BY RegisterAssumption
  <2>2. Min(S) \in 0 .. Registers
    BY <1>2, <2>1, MinIn
  <2> QED
    BY <1>1, <2>2, RegisterFits DEF WithRegister
<1>3. CASE PlaceChain
  <2> DEFINE S == FreeRegisters(ChainOf(cursor))
             h == WithRegister(ChainOf(cursor), Min(S))
  <2>1. S \in SUBSET (1 .. Registers)
    BY DEF FreeRegisters
  <2>2. S # {} /\ heap' = h /\ cursor' = cursor + 1
        /\ UNCHANGED <<program, walkers, visits, pass, pc, held>>
    BY <1>3 DEF PlaceChain
  <2> HIDE DEF S
  <2>3. HeapOK(h) /\ h.of = heap.of
    BY <1>2, <2>1, <2>2
  <2> HIDE DEF h
  <2> QED
    BY <1>1, <2>2, <2>3, InvKept
<1>4. CASE PlaceAlias
  <2> DEFINE S == IF Preferred(cursor) # {} THEN Preferred(cursor) ELSE FreeRegisters({cursor})
             h == WithRegister({cursor}, Min(S))
  <2>1. S \in SUBSET (1 .. Registers)
    BY DEF FreeRegisters, Preferred
  <2>2. /\ \/ S = {} /\ pass' = "failed" /\ UNCHANGED <<heap, cursor>>
           \/ S # {} /\ heap' = h /\ cursor' = cursor + 1 /\ UNCHANGED pass
        /\ UNCHANGED <<program, walkers, visits, pc, held>>
    BY <1>4 DEF PlaceAlias
  <2> HIDE DEF S
  <2>3. S # {} => HeapOK(h) /\ h.of = heap.of
    BY <1>2, <2>1
  <2> HIDE DEF h
  <2>4. pass' \in Passes /\ cursor' \in Nat \ {0}
    BY <1>1, <2>2 DEF Passes
  <2>5. CASE S = {}
    BY <1>1, <2>2, <2>4, <2>5, InvKept
  <2>6. CASE S # {}
    BY <1>1, <2>2, <2>3, <2>4, <2>6, InvKept
  <2> QED
    BY <2>5, <2>6
<1>5. CASE SkipAlias
  <2>1. cursor' = cursor + 1 /\ UNCHANGED <<program, walkers, heap, visits, pass, pc, held>>
    BY <1>5 DEF SkipAlias
  <2> QED
    BY <1>1, <2>1, InvKept
<1>6. CASE NextPass
  <2>1. pass' \in Passes /\ cursor' = 1 /\ UNCHANGED <<program, walkers, heap, visits, pc, held>>
    BY <1>6 DEF NextPass, Passes
  <2> QED
    BY <1>1, <2>1, InvKept
<1> QED
  BY <1>3, <1>4, <1>5, <1>6


LEMMA RunKept ==
  ASSUME Inv, RunToken
  PROVE  Inv'
<1> DEFINE V == [Register -> [Field -> Name \cup {Nothing}]]
           F == {a \in PlacesAt(pc) : Arg(a).write}
           T(a, regs) == AfterWrite(regs, a)
           pick == [s \in SUBSET F |-> CHOOSE x \in s : TRUE]
           step == [p \in F \X V |-> T(p[1], p[2])]
           Fits(g) == g = [s \in SUBSET F |->
             IF s = {} THEN held
             ELSE T(CHOOSE x \in s : TRUE, g[s \ {CHOOSE x \in s : TRUE}])]
           G == CHOOSE g : Fits(g)
<1>1. /\ program \in Programs /\ HeapOK(heap) /\ walkers \in Seq(WalkerSet(heap.of))
      /\ pass \in Passes /\ cursor \in Nat \ {0} /\ pc \in Nat \ {0}
      /\ held \in V
  BY DEF Inv
<1>2. pc \in DOMAIN Code
  <2>1. pc <= Len(Code)
    BY DEF RunToken, Running
  <2>2. DOMAIN Code = 1 .. Len(Code) /\ Len(Code) \in Nat
    BY <1>1, ProgramTyped
  <2> QED
    BY <1>1, <2>1, <2>2
<1>3. F \in SUBSET Place
  BY <1>2 DEF PlacesAt, Place
<1>4. IsFiniteSet(F)
  BY <1>1, <1>3, PlacesFinite, FS_Subset
<1>5. ASSUME NEW a \in F, NEW regs \in V PROVE T(a, regs) \in V
  <2>1. Arg(a).name \in Name
    BY <1>1, <1>3, PlaceTyped
  <2>2. \A r \in Register, f \in Field : regs[r][f] \in Name \cup {Nothing}
    OBVIOUS
  <2> HIDE DEF F
  <2> QED
    BY <2>1, <2>2 DEF AfterWrite
<1> HIDE DEF T, F, V
<1>6. \A s \in SUBSET F : s # {} => pick[s] \in s /\ pick[s] = CHOOSE x \in s : TRUE
  OBVIOUS
<1>7. step \in [F \X V -> V] /\ \A a \in F, regs \in V : step[<<a, regs>>] = T(a, regs)
  BY <1>5
<1> HIDE DEF step, pick
<1>8. PICK g : Recursion(F, V, held, pick, step, g)
  BY <1>1, <1>4, <1>6, <1>7, FoldExists
<1>9. ASSUME NEW s \in SUBSET F, s # {}
      PROVE  step[<<pick[s], g[s \ {pick[s]}]>>] = T(pick[s], g[s \ {pick[s]}])
  <2>1. pick[s] \in F /\ s \ {pick[s]} \in SUBSET F
    BY <1>6, <1>9
  <2>2. g[s \ {pick[s]}] \in V
    BY <1>8, <2>1 DEF Recursion
  <2> QED
    BY <1>7, <2>1, <2>2
<1>10. Fits(g)
  <2> DEFINE a(s) == IF s = {} THEN held ELSE step[<<pick[s], g[s \ {pick[s]}]>>]
             b(s) == IF s = {} THEN held
                     ELSE T(CHOOSE x \in s : TRUE, g[s \ {CHOOSE x \in s : TRUE}])
  <2>1. \A s \in SUBSET F : a(s) = b(s)
    BY <1>6, <1>9
  <2>2. g = [s \in SUBSET F |-> a(s)]
    BY <1>8 DEF Recursion
  <2> HIDE DEF a, b
  <2>3. g = [s \in SUBSET F |-> b(s)]
    BY <2>1, <2>2
  <2> QED
    BY <2>3 DEF b
<1>11. held' = G[F]
  BY DEF RunToken, FoldSet, MapThenFoldSet, F, T
<1>12. Fits(G)
  <2> HIDE DEF Fits
  <2> QED
    BY <1>10
<1> HIDE DEF G
<1>13. G[{}] \in V /\ \A s \in SUBSET F : s # {} => G[s] = T(pick[s], G[s \ {pick[s]}])
  <2> DEFINE b(s) == IF s = {} THEN held
                     ELSE T(CHOOSE x \in s : TRUE, G[s \ {CHOOSE x \in s : TRUE}])
  <2>1. G = [s \in SUBSET F |-> b(s)]
    BY <1>12
  <2> HIDE DEF b
  <2>2. \A s \in SUBSET F : G[s] = b(s)
    BY <2>1
  <2> QED
    BY <1>1, <1>6, <2>2 DEF b
<1>14. ASSUME NEW s \in SUBSET F, s # {} PROVE \E x \in s : G[s \ {x}] \in V => G[s] \in V
  <2>1. pick[s] \in s /\ pick[s] \in F
    BY <1>6, <1>14
  <2>2. G[s \ {pick[s]}] \in V => G[s] \in V
    BY <1>5, <1>13, <1>14, <2>1
  <2> QED
    BY <2>1, <2>2
<1>15. G[F] \in V
  BY <1>4, <1>13, <1>14, FoldInside
<1>16. pc' \in Nat \ {0}
  <2>1. Code[pc].branch # "NONE" => Code[pc].target \in Nat \ {0}
    BY <1>1, <1>2, ProgramTyped
  <2>2. pc + 1 \in Nat \ {0}
    BY <1>1
  <2> QED
    BY <2>1, <2>2 DEF RunToken
<1>17. UNCHANGED <<program, walkers, heap, visits, pass, cursor>>
  BY DEF RunToken
<1> QED
  BY <1>1, <1>11, <1>15, <1>16, <1>17, InvKept DEF V

-----------------------------------------------------------------------------
(* The initial states *)

LEMMA InputTyped ==
  ASSUME program \in Programs, NEW n \in Name
  PROVE  InputRegister(n) \in 0 .. Registers
<1> DEFINE S == {k \in DOMAIN program.inputs :
                   /\ k <= SelectInSeq(program.inputs, LAMBDA m : m = n)
                   /\ (program.inputs[k] \in IntegerName) = (n \in IntegerName)}
           kind == IF n \in IntegerName THEN IntegerName ELSE Name \ IntegerName
           all == {k \in DOMAIN program.inputs : program.inputs[k] \in kind}
<1>1. program.inputs \in Seq(Name) /\ Cardinality(all) <= Registers
  BY ProgramAssumption
<1>2. IsFiniteSet(DOMAIN program.inputs) /\ \A k \in DOMAIN program.inputs : program.inputs[k] \in Name
  <2>1. Len(program.inputs) \in Nat /\ DOMAIN program.inputs = 1 .. Len(program.inputs)
    BY <1>1
  <2> QED
    BY <1>1, <2>1, UpToFinite
<1>3. S \subseteq all
  BY <1>2
<1>4. IsFiniteSet(all) /\ Cardinality(all) \in Nat
  BY <1>2, FS_Subset, FS_CardinalityType
<1> HIDE DEF all
<1>5. Cardinality(S) \in Nat /\ Cardinality(S) <= Cardinality(all)
  <2> HIDE DEF S
  <2> QED
    BY <1>3, <1>4, FS_Subset, FS_CardinalityType
<1>6. InputRegister(n) \in {0, Cardinality(S)}
  BY DEF InputRegister
<1> HIDE DEF S
<1> QED
  BY <1>1, <1>4, <1>5, <1>6, RegisterAssumption

LEMMA InitInv ==
  ASSUME Init
  PROVE  Inv
<1>1. program \in Programs /\ pass = "walk" /\ cursor = 1 /\ pc = 1
  BY DEF Init
<1>2. HeapFits(heap, {}, [x \in {} |-> Nothing])
  <2> DEFINE N == [x \in {} |-> Nothing]
             of == [a \in Place |-> 0]
             as == <<>>
  <2>1. heap = [aliases |-> as, of |-> of, next |-> 1]
    BY DEF Init
  <2>2. of \in [Place -> {} \cup {0}] /\ \A a \in Place : of[a] = 0
    OBVIOUS
  <2>3. as \in [{} -> Alias] /\ N \in [{} -> Name]
    OBVIOUS
  <2>4. Sound(as, {}, N, Written(of))
    BY <2>3 DEF Sound, Linked, Ends
  <2> HIDE DEF as, of, N
  <2>5. /\ DOMAIN heap = {"aliases", "of", "next"}
        /\ heap.aliases = as /\ heap.of = of /\ heap.next = 1
    BY <2>1
  <2> QED
    BY <2>2, <2>3, <2>4, <2>5 DEF HeapFits, N
<1>3. FirstWalker \in WalkerSet(heap.of)
  <2> DEFINE met(n) == [ fields  |-> IF InputRegister(n) # 0 THEN Field ELSE {},
                         dep     |-> NoPlace,
                         input   |-> InputRegister(n),
                         crossed |-> {},
                         entry   |-> IF InputRegister(n) # 0 THEN 1 ELSE 0 ]
             names == [n \in Name |-> met(n)]
             w == [at |-> 1, arg |-> 0, branches |-> {}, names |-> names]
  <2>1. ASSUME NEW n \in Name PROVE StateFits(n, met(n), heap.of)
    <3>1. InputRegister(n) \in 0 .. Registers
      BY <1>1, InputTyped
    <3> QED
      BY <3>1 DEF StateFits, NameState
  <2>2. FirstWalker = MovedTo(w, 1)
    BY DEF FirstWalker
  <2> HIDE DEF met
  <2>3. names \in [Name -> NameState] /\ \A n \in Name : names[n] = met(n)
    BY <2>1 DEF StateFits
  <2> HIDE DEF names
  <2>4. 1 \in Line
    BY <1>1, ProgramTyped DEF Line
  <2>5. /\ w \in [at : Line, arg : Nat, branches : SUBSET (Nat \X Nat), names : [Name -> NameState]]
        /\ w.names = names
    BY <2>3, <2>4
  <2>6. \A n \in Name : StateFits(n, w.names[n], heap.of)
    BY <2>1, <2>3, <2>5
  <2> HIDE DEF w
  <2>7. MovedTo(w, 1) \in WalkerSet(heap.of)
    BY <1>1, <2>4, <2>5, <2>6, MovedFits
  <2> QED
    BY <2>2, <2>7
<1>4. walkers \in Seq(WalkerSet(heap.of))
  <2>1. walkers = <<FirstWalker>>
    BY DEF Init
  <2> QED
    BY <1>3, <2>1
<1>5. held \in [Register -> [Field -> Name \cup {Nothing}]]
  <2> DEFINE In(r) == {n \in Name : InputRegister(n) = r[2] /\ KindOf(n) = r[1]}
             V(r) == IF \E n \in Name : InputRegister(n) = r[2] /\ KindOf(n) = r[1]
                     THEN CHOOSE n \in Name : InputRegister(n) = r[2] /\ KindOf(n) = r[1]
                     ELSE Nothing
  <2>1. \A r \in Register : V(r) \in Name \cup {Nothing}
    OBVIOUS
  <2>2. held = [r \in Register |-> [f \in Field |-> V(r)]]
    BY DEF Init
  <2> HIDE DEF V
  <2> QED
    BY <2>1, <2>2
<1> QED
  BY <1>1, <1>2, <1>4, <1>5 DEF Inv, HeapOK, Passes

-----------------------------------------------------------------------------
(* The theorems *)

LEMMA InvNext ==
  ASSUME Inv, [Next]_vars
  PROVE  Inv'
<1>1. CASE UNCHANGED vars
  <2>1. UNCHANGED <<program, walkers, heap, pass, cursor, pc, held>>
    BY <1>1 DEF vars
  <2>2. /\ HeapOK(heap) /\ walkers \in Seq(WalkerSet(heap.of)) /\ pass \in Passes
        /\ cursor \in Nat \ {0} /\ pc \in Nat \ {0}
        /\ held \in [Register -> [Field -> Name \cup {Nothing}]]
    BY DEF Inv
  <2> QED
    BY <2>1, <2>2, InvKept
<1>2. CASE Next
  BY <1>2, ReadKept, WriteFloatKept, WriteIntegerKept, WalkKept, ExtendLoopKept, RegistersKept, RunKept
     DEF Next, Step
<1> QED
  BY <1>1, <1>2

LEMMA InvTyped ==
  ASSUME Inv
  PROVE  TypeOK
<1>1. PICK D, N : HeapFits(heap, D, N)
  BY DEF Inv, HeapOK
<1>2. Aliases \in [D -> Alias] /\ Linked(Aliases, D) /\ heap.of \in [Place -> D \cup {0}]
  BY <1>1 DEF HeapFits, Sound, Aliases
<1>3. \A k \in DOMAIN walkers : walkers[k].names \in [Name -> NameState]
  <2>1. \A k \in DOMAIN walkers : walkers[k] \in WalkerSet(heap.of)
    BY DEF Inv
  <2> QED
    BY <2>1 DEF WalkerSet
<1>4. \A id \in DOMAIN Aliases : Aliases[id] \in Alias /\ Aliases[id].pred \in DOMAIN Aliases \cup {0}
  BY <1>2 DEF Linked
<1>5. heap.of \in [Place -> DOMAIN Aliases \cup {0}]
  BY <1>2
<1> QED
  BY <1>3, <1>4, <1>5 DEF Inv, Passes, TypeOK

LEMMA InvEnds ==
  ASSUME ShortChains, Inv
  PROVE  ChainsEnd
<1>1. PICK D, N : HeapFits(heap, D, N)
  BY DEF Inv, HeapOK
<1>2. /\ DOMAIN Aliases = D /\ Linked(Aliases, D) /\ Ends(Aliases, D)
      /\ heap.next - 1 \in Nat /\ D \subseteq 1 .. heap.next - 1
  BY <1>1 DEF HeapFits, Sound, Aliases
<1>3. ASSUME NEW id \in D PROVE ~OnRing(Aliases, id)
  <2> DEFINE A == Ancestors(Aliases, id)
  <2>1. /\ id \in A /\ A \subseteq D
        /\ \A a \in A : Aliases[a].pred \in A \cup {0}
    BY <1>2, AncestorsClosed
  <2> HIDE DEF A
  <2>2. PICK a \in A : Aliases[a].pred \notin A
    BY <1>2, <2>1 DEF Ends
  <2>3. Aliases[a].pred = 0
    BY <2>1, <2>2
  <2> QED
    BY <2>3 DEF OnRing, A
<1> QED
  BY <1>2, <1>3 DEF ChainsEnd

(* What the allocator keeps has its type: the alias of each occurrence and    *)
(* the one each alias follows exist, whatever is merged and released.         *)
THEOREM TypeOKCorrect == Spec => []TypeOK
<1>1. Init => Inv
  BY InitInv
<1>2. Inv /\ [Next]_vars => Inv'
  BY InvNext
<1>3. Inv => TypeOK
  BY InvTyped
<1> QED
  BY <1>1, <1>2, <1>3, PTL DEF Spec

(* No chain of aliases becomes a ring, whatever is merged, released, tied and *)
(* written in what order (trySetSameNamePredecessor, releaseAlias,            *)
(* writeInteger), if no integer is written more often than a write looks up   *)
(* its chain.                                                                 *)
THEOREM ChainsEndCorrect ==
  ASSUME ShortChains
  PROVE  Spec => []ChainsEnd
<1>1. Init => Inv
  BY InitInv
<1>2. Inv /\ [Next]_vars => Inv'
  BY InvNext
<1>3. Inv => ChainsEnd
  BY InvEnds
<1> QED
  BY <1>1, <1>2, <1>3, PTL DEF Spec

=============================================================================
