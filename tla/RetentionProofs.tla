--------------------------- MODULE RetentionProofs ---------------------------
(***************************************************************************)
(* Proofs about Billing and Retention, for any organisations, identifiers, *)
(* clocks, page sizes and lengths of calls and runs: the books (one grant  *)
(* per paid invoice, no entry deleted early), what is left of a purged     *)
(* organisation, the links, the archives and the files of batches.         *)
(***************************************************************************)
EXTENDS Retention, FiniteSetTheorems, WellFoundedInduction, TLAPS

-----------------------------------------------------------------------------
(* Sets of identifiers: their least and greatest elements, and pages.      *)

LEMMA LeastExists ==
    ASSUME NEW S, S \subseteq Nat, S # {}
    PROVE  \E n \in S : \A k \in S : n <= k
  <1>1. \E n \in S : \A k \in S : ~(<<k, n>> \in OpToRel(<, Nat))
    BY NatLessThanWellFounded, WFMin, Zenon
  <1>2. \A k, n \in S : <<k, n>> \in OpToRel(<, Nat) <=> k < n
    BY DEF OpToRel
  <1>3. PICK n \in S : \A k \in S : ~(k < n)
    BY <1>1, <1>2
  <1>4. QED
    BY <1>3

LEMMA MinIsLeast ==
    ASSUME NEW S, S \subseteq Nat, S # {}
    PROVE  Min(S) \in S /\ \A k \in S : Min(S) <= k
  BY LeastExists DEF Min

\* Of a finite set, the element with the fewest above it has none above it.
LEMMA GreatestExists ==
    ASSUME NEW S, S \subseteq Nat, S # {}, IsFiniteSet(S)
    PROVE  \E n \in S : \A k \in S : n >= k
  <1> DEFINE Above(n) == {k \in S : k > n}
             Sizes    == {Cardinality(Above(n)) : n \in S}
  <1>1. \A n \in S : IsFiniteSet(Above(n)) /\ Cardinality(Above(n)) \in Nat
    BY FS_Subset, FS_CardinalityType
  <1>2. Sizes \subseteq Nat /\ Sizes # {}
    BY <1>1
  <1>3. PICK c \in Sizes : \A d \in Sizes : c <= d
    BY <1>2, LeastExists
  <1>4. PICK m \in S : Cardinality(Above(m)) = c
    BY <1>3
  <1>5. ASSUME NEW k \in S, k > m
        PROVE  FALSE
    <2>0. m \in Nat /\ k \in Nat /\ \A j \in S : j \in Nat
      OBVIOUS
    <2>1. Above(k) \subseteq Above(m) /\ k \notin Above(k) /\ k \in Above(m)
      <3>1. \A j \in S : j > k => j > m
        BY <1>5, <2>0
      <3>2. ~(k > k)
        BY <2>0
      <3>3. QED
        BY <1>5, <3>1, <3>2
    <2>a. PICK A, B : A = Above(m) /\ B = Above(k)
      OBVIOUS
    <2>b. B \in SUBSET A /\ A # B /\ IsFiniteSet(A)
      BY <1>1, <2>1, <2>a
    <2>c. Cardinality(B) <= Cardinality(A) /\ Cardinality(A) # Cardinality(B)
      BY <2>b, FS_Subset, Zenon
    <2>2. Cardinality(Above(k)) # Cardinality(Above(m)) /\ Cardinality(Above(k)) <= Cardinality(Above(m))
      BY <2>a, <2>c
    <2>3. Cardinality(Above(k)) \in Sizes
      OBVIOUS
    <2> HIDE DEF Above, Sizes
    <2>4. QED
      BY <1>1, <1>3, <1>4, <2>2, <2>3
  <1>6. QED
    BY <1>5

LEMMA MaxIsGreatest ==
    ASSUME NEW S, S \subseteq Nat, S # {}, IsFiniteSet(S)
    PROVE  Max(S) \in S /\ \A k \in S : Max(S) >= k
  BY GreatestExists DEF Max

\* One keyset page: what it leaves for later is beyond it, and a page that is
\* not full leaves nothing.
LEMMA PageSplits ==
    ASSUME NEW ids, ids \subseteq Nat \ {0}, IsFiniteSet(ids), NEW after \in Nat,
           NEW p, p = page(ids, after)
    PROVE  /\ p.rows \subseteq ids /\ p.next \in Nat
           /\ p.next = 0 => \A i \in ids : i > after => i \in p.rows
           /\ p.next # 0 => \A i \in ids : i > after => i \in p.rows \/ i > p.next
  <1> DEFINE rest     == {i \in ids : i > after}
             Below(i) == {j \in rest : j < i}
             next     == {i \in rest : Cardinality(Below(i)) < PageSize}
  <1>1. p = [rows |-> next, next |-> IF Cardinality(next) < PageSize THEN 0 ELSE Max(next)]
    BY DEF page
  <1>2. rest \subseteq Nat /\ IsFiniteSet(rest) /\ next \subseteq rest
    BY FS_Subset
  <1>3. IsFiniteSet(next) /\ Cardinality(next) \in Nat
    BY <1>2, FS_Subset, FS_CardinalityType
  <1>4. \A i \in rest : IsFiniteSet(Below(i)) /\ Cardinality(Below(i)) \in Nat
    BY <1>2, FS_Subset, FS_CardinalityType
  <1>5. PageSize \in Nat \ {0}
    BY RetentionAssumption
  <1>6. CASE Cardinality(next) < PageSize
    <2>1. SUFFICES ASSUME rest \ next # {} PROVE FALSE
      BY <1>1, <1>6
    <2>2. PICK m \in rest \ next : \A k \in rest \ next : m <= k
      BY <1>2, <2>1, LeastExists
    <2>3. Below(m) \in SUBSET next
      BY <1>2, <2>2
    <2>4. Cardinality(Below(m)) <= Cardinality(next)
      <3> HIDE DEF Below, next
      <3>1. QED
        BY <1>3, <2>3, FS_Subset
    <2>5. ~(Cardinality(Below(m)) < PageSize)
      BY <2>2
    <2>6. QED
      BY <1>3, <1>4, <1>5, <1>6, <2>2, <2>4, <2>5
  <1>7. CASE ~(Cardinality(next) < PageSize)
    <2>1. next # {}
      <3> HIDE DEF next
      <3>1. Cardinality({}) = 0
        BY FS_EmptySet
      <3>2. QED
        BY <1>5, <1>7, <3>1
    <2>2. PICK m \in next : m = Max(next) /\ \A k \in next : m >= k
      BY <1>2, <1>3, <2>1, MaxIsGreatest
    <2>3. ASSUME NEW i \in rest, ~(i > m)
          PROVE  i \in next
      <3>1. Below(i) \in SUBSET Below(m)
        BY <1>2, <2>3
      <3>2. Cardinality(Below(i)) <= Cardinality(Below(m))
        BY <1>4, <3>1, FS_Subset
      <3>3. Cardinality(Below(m)) < PageSize
        BY <2>2
      <3>4. QED
        BY <1>2, <1>4, <1>5, <3>2, <3>3
    <2>4. m \in Nat /\ m # 0
      BY <1>2, <2>2
    <2>5. QED
      BY <1>1, <1>7, <2>2, <2>3, <2>4
  <1>8. QED
    BY <1>6, <1>7

\* The next identifier is a new one.
LEMMA FreshIsNew ==
    ASSUME NEW id \in Fresh
    PROVE  id \in Ids /\ id \notin used
  <1>1. Ids \ used # {} /\ id = Min(Ids \ used)
    BY DEF Fresh
  <1>2. Ids \ used \subseteq Nat
    BY BillingAssumption
  <1>3. QED
    BY <1>1, <1>2, MinIsLeast

-----------------------------------------------------------------------------
(* Sums over finite sets of entries.                                       *)

\* Induction over the subsets of a finite set, as a fact about sets: a family
\* that holds every set whose proper subsets it holds, holds them all.
LEMMA FiniteSubsets ==
    ASSUME NEW S, IsFiniteSet(S), NEW G,
           \A T \in SUBSET S : (\A u \in SUBSET T : u # T => u \in G) => T \in G
    PROVE  \A T \in SUBSET S : T \in G
  <1> DEFINE Bad == {T \in SUBSET S : T \notin G}
             Sizes == {Cardinality(T) : T \in Bad}
  <1>1. SUFFICES ASSUME Bad # {} PROVE FALSE
    OBVIOUS
  <1>2. \A T \in SUBSET S : IsFiniteSet(T) /\ Cardinality(T) \in Nat
    BY FS_Subset, FS_CardinalityType
  <1>3. Sizes \subseteq Nat /\ Sizes # {}
    BY <1>1, <1>2
  <1>4. PICK n \in Sizes : \A k \in Sizes : n <= k
    BY <1>3, LeastExists
  <1>5. PICK T \in Bad : Cardinality(T) = n
    BY <1>4
  <1>6. ASSUME NEW u \in SUBSET T, u # T
        PROVE  u \in G
    <2>1. T \in SUBSET S /\ u \in SUBSET S /\ IsFiniteSet(T)
      BY <1>2
    <2>2. Cardinality(u) <= Cardinality(T) /\ Cardinality(T) # Cardinality(u)
      BY <1>6, <2>1, FS_Subset
    <2>3. Cardinality(u) \notin Sizes
      BY <1>2, <1>4, <1>5, <2>1, <2>2
    <2>4. QED
      BY <2>1, <2>3
  <1>7. T \in G
    BY <1>6
  <1>8. QED
    BY <1>5, <1>7

\* What MapThenSumSet computes by recursion on the subsets of S.
Pick1(s) == CHOOSE x \in s : TRUE
Sums(f, S) == f = [s \in SUBSET S |-> IF s = {} THEN 0 ELSE Pick1(s).delta + f[s \ {Pick1(s)}]]

LEMMA TotalUnfolds ==
    ASSUME NEW S
    PROVE  Total(S) = (CHOOSE f : Sums(f, S))[S]
  BY DEF Total, MapThenSumSet, MapThenFoldSet, Sums, Pick1

LEMMA Picked ==
    ASSUME NEW s, s # {}
    PROVE  Pick1(s) \in s /\ s \ {Pick1(s)} \in SUBSET s /\ s \ {Pick1(s)} # s
  <1>1. Pick1(s) \in s
    BY DEF Pick1
  <1>2. QED
    BY <1>1

\* The equation has at most one solution.
LEMMA SumsUnique ==
    ASSUME NEW S, IsFiniteSet(S), NEW f, NEW g, Sums(f, S), Sums(g, S)
    PROVE  f = g
  <1>0. DOMAIN f = SUBSET S /\ DOMAIN g = SUBSET S
        /\ f = [s \in SUBSET S |-> f[s]] /\ g = [s \in SUBSET S |-> g[s]]
    BY DEF Sums
  <1> DEFINE G == {T \in SUBSET S : f[T] = g[T]}
  <1>1. ASSUME NEW T \in SUBSET S, \A u \in SUBSET T : u # T => u \in G
        PROVE  T \in G
    <2>1. CASE T = {}
      <3>1. f[T] = 0 /\ g[T] = 0
        BY <2>1 DEF Sums
      <3>2. QED
        BY <3>1
    <2>2. CASE T # {}
      <3>1. PICK x, u : x = Pick1(T) /\ u = T \ {x}
        OBVIOUS
      <3>2. u \in SUBSET T /\ u # T
        BY <2>2, <3>1, Picked
      <3>3. f[u] = g[u]
        BY <1>1, <3>2
      <3>4. f[T] = x.delta + f[u] /\ g[T] = x.delta + g[u]
        BY <2>2, <3>1 DEF Sums
      <3>5. QED
        BY <3>3, <3>4
    <2>3. QED
      BY <2>1, <2>2
  <1>2. \A T \in SUBSET S : T \in G
    <2> HIDE DEF G
    <2>1. QED
      BY <1>1, FiniteSubsets
  <1>3. QED
    BY <1>0, <1>2

\* A solution for a set is one for its subsets.
LEMMA SumsRestrict ==
    ASSUME NEW S, NEW T \in SUBSET S, NEW f, Sums(f, S)
    PROVE  Sums([s \in SUBSET T |-> f[s]], T)
  <1>1. PICK g : g = [s \in SUBSET T |-> f[s]]
    OBVIOUS
  <1>2. ASSUME NEW s \in SUBSET T
        PROVE  g[s] = IF s = {} THEN 0 ELSE Pick1(s).delta + g[s \ {Pick1(s)}]
    <2>1. s \in SUBSET S /\ s \ {Pick1(s)} \in SUBSET T
      OBVIOUS
    <2>2. f[s] = IF s = {} THEN 0 ELSE Pick1(s).delta + f[s \ {Pick1(s)}]
      BY <2>1 DEF Sums
    <2>3. QED
      BY <1>1, <2>1, <2>2
  <1>3. QED
    BY <1>1, <1>2 DEF Sums

\* It has one for every finite set.
LEMMA SumsExist ==
    ASSUME NEW S, IsFiniteSet(S)
    PROVE  \E f : Sums(f, S)
  <1> DEFINE G == {T \in SUBSET S : \E f : Sums(f, T)}
  <1>1. ASSUME NEW T \in SUBSET S, \A u \in SUBSET T : u # T => u \in G
        PROVE  T \in G
    <2> DEFINE of(u) == (CHOOSE f : Sums(f, u))
               h == [s \in SUBSET T |-> IF s = {} THEN 0
                                        ELSE Pick1(s).delta + of(s \ {Pick1(s)})[s \ {Pick1(s)}]]
    <2>0. IsFiniteSet(T)
      BY FS_Subset
    <2>1. ASSUME NEW u \in SUBSET T, u # T
          PROVE  Sums(of(u), u)
      <3>1. \E f : Sums(f, u)
        BY <1>1, <2>1
      <3>2. QED
        BY <3>1
    <2>2. ASSUME NEW u \in SUBSET T, u # T
          PROVE  h[u] = of(u)[u]
      <3>1. CASE u = {}
        <4>1. PICK g : g = of(u)
          OBVIOUS
        <4>2. Sums(g, u)
          BY <2>1, <2>2, <4>1
        <4>3. g[u] = 0
          BY <3>1, <4>2 DEF Sums
        <4>4. QED
          BY <3>1, <4>1, <4>3
      <3>2. CASE u # {}
        <4>1. PICK x, v, g, k : x = Pick1(u) /\ v = u \ {x} /\ g = of(u) /\ k = of(v)
          OBVIOUS
        <4>2. v \in SUBSET u /\ v # u /\ v \in SUBSET T /\ v # T /\ IsFiniteSet(v)
          BY <2>0, <3>2, <4>1, Picked, FS_Subset
        <4>3. Sums(g, u) /\ Sums(k, v)
          BY <2>1, <2>2, <4>1, <4>2
        <4>4. k = [s \in SUBSET v |-> g[s]]
          <5>1. PICK r : r = [s \in SUBSET v |-> g[s]]
            OBVIOUS
          <5>2. Sums(r, v)
            BY <4>2, <4>3, <5>1, SumsRestrict
          <5>3. k = r
            BY <4>2, <4>3, <5>2, SumsUnique
          <5>4. QED
            BY <5>1, <5>3
        <4>5. k[v] = g[v]
          BY <4>4
        <4>6. g[u] = x.delta + g[v]
          BY <3>2, <4>1, <4>3 DEF Sums
        <4>7. h[u] = x.delta + k[v]
          BY <3>2, <4>1
        <4>8. QED
          BY <4>1, <4>5, <4>6, <4>7
      <3>3. QED
        BY <3>1, <3>2
    <2>3. ASSUME NEW s \in SUBSET T
          PROVE  h[s] = IF s = {} THEN 0 ELSE Pick1(s).delta + h[s \ {Pick1(s)}]
      <3>1. CASE s = {}
        BY <3>1
      <3>2. CASE s # {}
        <4>1. PICK x, v, k : x = Pick1(s) /\ v = s \ {x} /\ k = of(v)
          OBVIOUS
        <4>2. v \in SUBSET T /\ v # T
          BY <3>2, <4>1, Picked
        <4>3. h[v] = k[v]
          BY <2>2, <4>1, <4>2
        <4>4. h[s] = x.delta + k[v]
          BY <3>2, <4>1
        <4>5. QED
          BY <3>2, <4>1, <4>3, <4>4
      <3>3. QED
        BY <3>1, <3>2
    <2>4. PICK f : f = h
      OBVIOUS
    <2> HIDE DEF h
    <2>5. \A s \in SUBSET T : f[s] = IF s = {} THEN 0 ELSE Pick1(s).delta + f[s \ {Pick1(s)}]
      BY <2>3, <2>4
    <2>6. f = [s \in SUBSET T |-> f[s]]
      BY <2>4 DEF h
    <2>7. Sums(f, T)
      BY <2>5, <2>6 DEF Sums
    <2>8. QED
      BY <2>7
  <1>2. \A T \in SUBSET S : T \in G
    <2> HIDE DEF G
    <2>1. QED
      BY <1>1, FiniteSubsets
  <1>3. QED
    BY <1>2

\* The recursive equation of Total, one chosen element at a time.
LEMMA TotalPicks ==
    ASSUME NEW S, IsFiniteSet(S)
    PROVE  /\ S = {} => Total(S) = 0
           /\ S # {} => Total(S) = Pick1(S).delta + Total(S \ {Pick1(S)})
  <1>1. PICK f : f = (CHOOSE g : Sums(g, S))
    OBVIOUS
  <1>2. Sums(f, S) /\ Total(S) = f[S]
    BY <1>1, SumsExist, TotalUnfolds
  <1>3. CASE S = {}
    BY <1>2, <1>3 DEF Sums
  <1>4. CASE S # {}
    <2>1. PICK x, v : x = Pick1(S) /\ v = S \ {x}
      OBVIOUS
    <2>2. v \in SUBSET S /\ IsFiniteSet(v)
      BY <2>1, FS_Subset
    <2>3. PICK k : k = (CHOOSE g : Sums(g, v))
      OBVIOUS
    <2>4. Sums(k, v) /\ Total(v) = k[v]
      BY <2>2, <2>3, SumsExist, TotalUnfolds
    <2>5. k = [s \in SUBSET v |-> f[s]]
      <3>1. PICK r : r = [s \in SUBSET v |-> f[s]]
        OBVIOUS
      <3>2. Sums(r, v)
        BY <1>2, <2>2, <3>1, SumsRestrict
      <3>3. k = r
        BY <2>2, <2>4, <3>2, SumsUnique
      <3>4. QED
        BY <3>1, <3>3
    <2>6. k[v] = f[v]
      BY <2>5
    <2>7. f[S] = x.delta + f[v]
      BY <1>2, <1>4, <2>1 DEF Sums
    <2>8. QED
      BY <1>2, <1>4, <2>1, <2>4, <2>6, <2>7
  <1>5. QED
    BY <1>3, <1>4

LEMMA TotalEmpty == Total({}) = 0
  BY TotalPicks, FS_EmptySet

\* A sum of integers is one.
LEMMA TotalIsInt ==
    ASSUME NEW S, IsFiniteSet(S), \A e \in S : e.delta \in Int
    PROVE  Total(S) \in Int
  <1> DEFINE G == {T \in SUBSET S : Total(T) \in Int}
  <1>1. ASSUME NEW T \in SUBSET S, \A u \in SUBSET T : u # T => u \in G
        PROVE  T \in G
    <2>0. IsFiniteSet(T)
      BY FS_Subset
    <2>1. CASE T = {}
      BY <2>1, TotalEmpty
    <2>2. CASE T # {}
      <3>1. PICK x, v : x = Pick1(T) /\ v = T \ {x}
        OBVIOUS
      <3>2. x \in T /\ v \in SUBSET T /\ v # T
        BY <2>2, <3>1, Picked
      <3>3. Total(v) \in Int /\ x.delta \in Int
        BY <1>1, <3>2
      <3>4. Total(T) = x.delta + Total(v)
        BY <2>0, <2>2, <3>1, TotalPicks
      <3>5. QED
        BY <3>3, <3>4
    <2>3. QED
      BY <2>1, <2>2
  <1>2. \A T \in SUBSET S : T \in G
    <2> HIDE DEF G
    <2>1. QED
      BY <1>1, FiniteSubsets
  <1>3. QED
    BY <1>2

\* Whichever element is taken out first.
LEMMA TotalRemove ==
    ASSUME NEW S, IsFiniteSet(S), \A e \in S : e.delta \in Int, NEW y \in S
    PROVE  Total(S) = Total(S \ {y}) + y.delta
  <1> DEFINE G == {T \in SUBSET S : \A z \in T : Total(T) = Total(T \ {z}) + z.delta}
  <1>1. ASSUME NEW T \in SUBSET S, \A u \in SUBSET T : u # T => u \in G
        PROVE  T \in G
    <2> SUFFICES ASSUME NEW z \in T PROVE Total(T) = Total(T \ {z}) + z.delta
      OBVIOUS
    <2>0. \A u \in SUBSET T : IsFiniteSet(u) /\ Total(u) \in Int
      <3>1. ASSUME NEW u \in SUBSET T PROVE IsFiniteSet(u) /\ Total(u) \in Int
        <4>1. u \in SUBSET S
          OBVIOUS
        <4>2. IsFiniteSet(u)
          BY <4>1, FS_Subset
        <4>3. \A e \in u : e.delta \in Int
          BY <4>1
        <4>4. QED
          BY <4>2, <4>3, TotalIsInt
      <3>2. QED
        BY <3>1
    <2>1. PICK x, v, w, q : x = Pick1(T) /\ v = T \ {x} /\ w = T \ {z} /\ q = (T \ {x}) \ {z}
      OBVIOUS
    <2>2. x \in T /\ v \in SUBSET T /\ v # T /\ w \in SUBSET T /\ w # T /\ q \in SUBSET T
      BY <2>1, Picked
    <2>3. Total(T) = x.delta + Total(v)
      BY <2>0, <2>1, TotalPicks
    <2>4. x.delta \in Int /\ z.delta \in Int /\ Total(v) \in Int /\ Total(w) \in Int /\ Total(q) \in Int
      BY <2>0, <2>2
    <2>5. CASE x = z
      BY <2>1, <2>3, <2>4, <2>5
    <2>6. CASE x # z
      <3>1. v \in G /\ w \in G /\ z \in v /\ x \in w
        BY <1>1, <2>1, <2>2, <2>6
      <3>2. v \ {z} = q /\ w \ {x} = q
        BY <2>1
      <3>3. Total(v) = Total(q) + z.delta /\ Total(w) = Total(q) + x.delta
        BY <3>1, <3>2
      <3>4. Total(T) = Total(w) + z.delta
        BY <2>3, <2>4, <3>3
      <3>5. QED
        BY <2>1, <3>4
    <2>7. QED
      BY <2>5, <2>6
  <1>2. \A T \in SUBSET S : T \in G
    <2> HIDE DEF G
    <2>1. QED
      BY <1>1, FiniteSubsets
  <1>3. S \in G
    BY <1>2
  <1>4. QED
    BY <1>3

\* A set split in two sums to the two sums.
LEMMA TotalSplits ==
    ASSUME NEW A, NEW B, IsFiniteSet(A), IsFiniteSet(B), A \cap B = {},
           \A e \in A \cup B : e.delta \in Int
    PROVE  Total(A \cup B) = Total(A) + Total(B)
  <1> DEFINE G == {T \in SUBSET B : Total(A \cup T) = Total(A) + Total(T)}
  <1>0. Total(A) \in Int
    BY TotalIsInt
  <1>1. ASSUME NEW T \in SUBSET B, \A u \in SUBSET T : u # T => u \in G
        PROVE  T \in G
    <2>1. CASE T = {}
      <3>1. A \cup T = A
        BY <2>1
      <3>2. QED
        BY <1>0, <2>1, <3>1, TotalEmpty
    <2>2. CASE T # {}
      <3>1. PICK x \in T : TRUE
        BY <2>2
      <3>2. PICK v, AT, Av : v = T \ {x} /\ AT = A \cup T /\ Av = A \cup v
        OBVIOUS
      <3>3. v \in SUBSET T /\ v # T /\ v \in SUBSET B /\ x \notin A /\ AT \ {x} = Av /\ x \in AT
        BY <3>1, <3>2
      <3>4. IsFiniteSet(T) /\ IsFiniteSet(v)
        BY <3>3, FS_Subset
      <3>5. IsFiniteSet(AT)
        BY <3>2, <3>4, FS_Union
      <3>6. (\A e \in AT : e.delta \in Int) /\ (\A e \in T : e.delta \in Int) /\ (\A e \in v : e.delta \in Int)
        BY <3>2
      <3>7. Total(AT) = Total(Av) + x.delta
        BY <3>3, <3>5, <3>6, TotalRemove
      <3>8. Total(T) = Total(v) + x.delta
        BY <3>1, <3>2, <3>4, <3>6, TotalRemove
      <3>9. Total(Av) = Total(A) + Total(v)
        BY <1>1, <3>2, <3>3
      <3>10. Total(v) \in Int /\ x.delta \in Int
        BY <3>1, <3>4, <3>6, TotalIsInt
      <3>11. Total(AT) = Total(A) + Total(T)
        BY <1>0, <3>7, <3>8, <3>9, <3>10
      <3>12. QED
        BY <3>2, <3>11
    <2>3. QED
      BY <2>1, <2>2
  <1>2. \A T \in SUBSET B : T \in G
    <2> HIDE DEF G
    <2>1. QED
      BY <1>1, FiniteSubsets
  <1>3. B \in G
    BY <1>2
  <1>4. QED
    BY <1>3

-----------------------------------------------------------------------------
(* The books *)

LEMMA Constants ==
    /\ Horizon \in Nat /\ LedgerRetention \in Nat
    /\ Ids \subseteq Nat \ {0} /\ IsFiniteSet(Ids) /\ Amounts \subseteq Nat
  BY BillingAssumption

LEMMA Positive ==
    ASSUME NEW id \in Ids
    PROVE  id \in Nat /\ id > 0
  <1>1. id \in Nat \ {0}
    BY Constants
  <1>2. QED
    BY <1>1

LEMMA TimesAreNaturals ==
    /\ 0 \in Times /\ Times \subseteq Nat /\ Never \in Nat
    /\ \A t \in Times : t <= Horizon /\ (t < Horizon => t + 1 \in Times)
  BY Constants DEF Times, Never

\* An entry may join the ledger: a new identifier and, for a grant, a new
\* reference.
LEMMA Booked ==
    ASSUME BooksInv, NEW entry \in Entry, Append1(entry), entry.id \in Ids,
           entry.reason # "grant" \/
             (/\ entry.ref = grantReference(entry.delta, Plain(entry.ref.note.text))
              /\ Unreferenced(entry.org, entry.ref))
    PROVE  BooksInv'
  <1>1. ledger' = ledger \cup {entry} /\ used' = used \cup {entry.id} /\ UNCHANGED <<clock, org>>
    BY DEF Append1
  <1>2. BooksTypeOK'
    BY <1>1 DEF BooksInv, BooksTypeOK
  <1>3. GrantsAreNamed'
    BY <1>1 DEF BooksInv, GrantsAreNamed
  <1>4. GrantedOnce'
    <2>1. SUFFICES ASSUME NEW e \in ledger', NEW f \in ledger',
                          e.reason = "grant", f.reason = "grant", e.org = f.org,
                          e.delta = f.delta, e.ref.note.text = f.ref.note.text
                   PROVE  e = f
      BY DEF GrantedOnce
    <2>2. e.ref = f.ref
      BY <1>3, <2>1 DEF GrantsAreNamed
    <2>3. CASE e \in ledger /\ f \in ledger
      BY <2>1, <2>3 DEF BooksInv, GrantedOnce
    <2>4. CASE e = entry /\ f \in ledger
      BY <2>1, <2>2, <2>4 DEF Unreferenced, EntriesOf
    <2>5. CASE f = entry /\ e \in ledger
      BY <2>1, <2>2, <2>5 DEF Unreferenced, EntriesOf
    <2>6. QED
      BY <1>1, <2>3, <2>4, <2>5
  <1>5. QED
    BY <1>2, <1>3, <1>4 DEF BooksInv

LEMMA GrantBooked ==
    ASSUME BooksInv, NEW o \in Orgs, NEW id \in Ids, billingGrantCommand(o, id)
    PROVE  /\ BooksInv'
           /\ UNCHANGED <<clock, org>> /\ used' = used \cup {id}
           /\ \E e \in Entry : e.id = id /\ e.org = o /\ ledger' = ledger \cup {e}
  <1>1. PICK credits \in Amounts, typed \in Notes : grantCreditsWithAudit(o, credits, typed, id)
    BY DEF billingGrantCommand
  <1>2. PICK note : note = Trim(typed)
    OBVIOUS
  <1>3. note \in Notes /\ note = Plain(note.text)
    BY <1>2 DEF Notes, Trim, Plain
  <1>4. PICK ref : ref = grantReference(credits, note)
    OBVIOUS
  <1>5. ref \in Reference /\ ref.note = note
    BY <1>3, <1>4, BillingAssumption DEF grantReference, Reference
  <1>6. PICK e : e = [id |-> id, org |-> o, delta |-> credits, reason |-> "grant",
                      ref |-> ref, at |-> clock]
    OBVIOUS
  <1>7. e \in Entry /\ e.id = id /\ e.org = o /\ e.delta = credits /\ e.ref = ref
    BY <1>5, <1>6, Constants DEF Entry, BooksInv, BooksTypeOK
  <1>8. Append1(e) /\ Unreferenced(o, ref)
    BY <1>1, <1>2, <1>4, <1>6 DEF grantCreditsWithAudit
  <1>9. e.ref = grantReference(e.delta, Plain(e.ref.note.text))
    BY <1>3, <1>4, <1>5, <1>7
  <1>10. BooksInv'
    BY <1>7, <1>8, <1>9, Booked
  <1>11. QED
    BY <1>7, <1>8, <1>10 DEF Append1

LEMMA BooksStep == BooksInv /\ [BillingNext]_books => BooksInv'
  <1> SUFFICES ASSUME BooksInv, [BillingNext]_books PROVE BooksInv'
    OBVIOUS
  <1>1. ASSUME NEW o \in Orgs, NEW id \in Fresh, billingGrantCommand(o, id)
        PROVE  BooksInv'
    BY <1>1, FreshIsNew, GrantBooked
  <1>n. Plain("") \in Notes
    BY DEF Plain, Notes
  <1>2. ASSUME NEW o \in Orgs, NEW id \in Fresh, NEW reason \in CONSUMPTION_REASONS,
               Spend(o, reason, id)
        PROVE  BooksInv'
    <2>1. PICK ref : ref = [kind |-> IF reason = "batch_check" THEN "batch" ELSE "check",
                            of |-> id, note |-> Plain("")]
      OBVIOUS
    <2>2. id \in Ids /\ id \in Nat
      BY FreshIsNew, BillingAssumption
    <2>3. ref \in Reference
      BY <1>n, <2>1, <2>2 DEF Reference
    <2>4. PICK e : e = [id |-> id, org |-> o, delta |-> -1, reason |-> reason, ref |-> ref, at |-> clock]
      OBVIOUS
    <2>5. e \in Entry /\ e.reason # "grant" /\ e.id = id
      BY <2>2, <2>3, <2>4 DEF Entry, CONSUMPTION_REASONS, BooksInv, BooksTypeOK
    <2>6. Append1(e)
      BY <1>2, <2>1, <2>4 DEF Spend
    <2>7. QED
      BY <2>2, <2>5, <2>6, Booked
  <1>3. ASSUME NEW o \in Orgs, NEW id \in Fresh, NEW batch \in ledger, Refund(o, batch, id)
        PROVE  BooksInv'
    <2>1. PICK ref : ref = [kind |-> "refund", of |-> batch.id, note |-> Plain("")]
      OBVIOUS
    <2>2. id \in Ids /\ batch.id \in Nat
      BY FreshIsNew, BillingAssumption DEF BooksInv, BooksTypeOK, Entry
    <2>3. ref \in Reference
      BY <1>n, <2>1, <2>2 DEF Reference
    <2>4. PICK e : e = [id |-> id, org |-> o, delta |-> 1, reason |-> "refund", ref |-> ref, at |-> clock]
      OBVIOUS
    <2>5. e \in Entry /\ e.reason # "grant" /\ e.id = id
      BY <2>2, <2>3, <2>4 DEF Entry, BooksInv, BooksTypeOK
    <2>6. Append1(e)
      BY <1>3, <2>1, <2>4 DEF Refund
    <2>7. QED
      BY <2>2, <2>5, <2>6, Booked
  <1>4. ASSUME NEW o \in Orgs, softDeleteOrganization(o)
        PROVE  BooksInv'
    <2>1. PICK row : row = [org[o] EXCEPT !.state = "deleted", !.deletedAt = clock]
      OBVIOUS
    <2>2. row \in OrgRow
      BY <2>1 DEF BooksInv, BooksTypeOK, OrgRow
    <2>3. org' = [org EXCEPT ![o] = row] /\ UNCHANGED <<clock, ledger, used>>
      BY <1>4, <2>1 DEF softDeleteOrganization
    <2>4. BooksTypeOK'
      BY <2>2, <2>3 DEF BooksInv, BooksTypeOK
    <2>5. GrantsAreNamed' /\ GrantedOnce'
      BY <2>3 DEF BooksInv, GrantsAreNamed, GrantedOnce
    <2>6. QED
      BY <2>4, <2>5 DEF BooksInv
  <1>5. ASSUME ledger' \subseteq ledger, UNCHANGED <<org, used>>, clock' \in Times
        PROVE  BooksInv'
    <2>1. BooksTypeOK'
      BY <1>5 DEF BooksInv, BooksTypeOK
    <2>2. GrantsAreNamed' /\ GrantedOnce'
      BY <1>5 DEF BooksInv, GrantsAreNamed, GrantedOnce
    <2>3. QED
      BY <2>1, <2>2 DEF BooksInv
  <1>6. clock \in Times
    BY DEF BooksInv, BooksTypeOK
  <1>7. CASE purgeExpiredLedgerEntries
    BY <1>5, <1>6, <1>7 DEF purgeExpiredLedgerEntries
  <1>8. CASE BookTick
    <2>1. clock' \in Times
      BY <1>6, <1>8, TimesAreNaturals DEF BookTick
    <2>2. QED
      BY <1>5, <1>8, <2>1 DEF BookTick
  <1>9. CASE UNCHANGED books
    BY <1>5, <1>6, <1>9 DEF books
  <1>10. QED
    BY <1>1, <1>2, <1>3, <1>4, <1>7, <1>8, <1>9 DEF BillingNext, Book

LEMMA BooksInit == BillingInit => BooksInv
  <1> SUFFICES ASSUME BillingInit PROVE BooksInv
    OBVIOUS
  <1>1. 0 \in Times /\ NewOrg(1) \in OrgRow
    BY TimesAreNaturals DEF NewOrg, OrgRow
  <1>2. QED
    BY <1>1 DEF BillingInit, BooksInv, BooksTypeOK, GrantsAreNamed, GrantedOnce

\* What the database lets a purge delete is past the accounting retention by
\* the clock of the database, whatever cutoff the worker's clock computed.
LEMMA PurgeKeepsYoung ==
    ASSUME ledger \subseteq Entry, clock \in Times, NEW now, ~PurgeRaises(now),
           ledger' = ledger \ PurgeTargets(now)
    PROVE  \A e \in ledger \ ledger' : e.at + LedgerRetention <= clock
  <1>1. SUFFICES ASSUME NEW e \in ledger, e \in PurgeTargets(now)
                 PROVE  e.at + LedgerRetention <= clock
    OBVIOUS
  <1>2. e.at <= clock - LedgerRetention
    BY <1>1 DEF PurgeRaises, OldEnough
  <1>3. e.at \in Nat /\ clock \in Nat /\ LedgerRetention \in Nat
    <2>1. e.at \in Times
      BY DEF Entry
    <2>2. QED
      BY <2>1, Constants, TimesAreNaturals
  <1>4. QED
    BY <1>2, <1>3

\* The books: for any number of organisations, invoices and re-runs of
\* billing:grant, one grant at most per paid invoice and amount.
THEOREM GrantsAreUnique == BillingSpec => []GrantedOnce
  <1>1. BooksInv => GrantedOnce
    BY DEF BooksInv
  <1>2. QED
    BY <1>1, BooksInit, BooksStep, PTL DEF BillingSpec

\* Whatever grants, spends, refunds and purges happen, leap days included, an
\* entry goes only when the accounting retention is over.
THEOREM LedgerIsKept == BillingSpec => LedgerKept
  <1>1. ASSUME BooksInv, [BillingNext]_books
        PROVE  [\A e \in ledger \ ledger' : e.at + LedgerRetention <= clock]_books
    <2>1. CASE purgeExpiredLedgerEntries
      BY <1>1, <2>1, PurgeKeepsYoung DEF purgeExpiredLedgerEntries, BooksInv, BooksTypeOK
    <2>2. CASE ledger \subseteq ledger'
      BY <2>2
    <2>3. CASE \E o \in Orgs, id \in Fresh : Book(o, id)
      <3>1. \E e : Append1(e)
        BY <2>3 DEF Book, billingGrantCommand, grantCreditsWithAudit, Spend, Refund
      <3>2. QED
        BY <2>2, <3>1 DEF Append1
    <2>4. QED
      BY <1>1, <2>1, <2>2, <2>3 DEF BillingNext, softDeleteOrganization, BookTick, books
  <1>2. QED
    BY <1>1, BooksInit, BooksStep, PTL DEF BillingSpec, LedgerKept

-----------------------------------------------------------------------------
(* The views of the ledger.                                                *)

LEMMA OrgEntries ==
    ASSUME BooksInv, EntriesAreDistinct, NEW o \in Orgs
    PROVE  /\ IsFiniteSet(EntriesOf(o)) /\ EntriesOf(o) \subseteq ledger
           /\ \A e \in EntriesOf(o) :
                /\ e.delta \in Int /\ e.at \in Nat /\ e.id \in Nat /\ e.at <= clock /\ e.org = o
                /\ e.reason \in {"grant", "single_check", "batch_check", "refund"}
           /\ \A e, f \in EntriesOf(o) : e.id = f.id => e = f
           /\ clock \in Nat
  <1>1. EntriesOf(o) \subseteq ledger /\ \A e \in EntriesOf(o) : e.org = o
    BY DEF EntriesOf
  <1>2. IsFiniteSet(EntriesOf(o))
    BY <1>1, FS_Subset DEF EntriesAreDistinct
  <1>3. ASSUME NEW e \in ledger
        PROVE  /\ e.delta \in Int /\ e.at \in Nat /\ e.id \in Nat
               /\ e.reason \in {"grant", "single_check", "batch_check", "refund"}
    <2>1. e \in Entry
      BY DEF BooksInv, BooksTypeOK
    <2>2. e.delta \in Int /\ e.at \in Times /\ e.id \in Ids
          /\ e.reason \in {"grant", "single_check", "batch_check", "refund"}
      BY <2>1 DEF Entry
    <2>3. QED
      BY <2>2, TimesAreNaturals, Constants
  <1>4. clock \in Nat
    BY TimesAreNaturals DEF BooksInv, BooksTypeOK
  <1>5. QED
    BY <1>1, <1>2, <1>3, <1>4 DEF EntriesAreDistinct

\* The sum of a part of an organisation's ledger.
LEMMA PartSums ==
    ASSUME BooksInv, EntriesAreDistinct, NEW o \in Orgs, NEW A \in SUBSET EntriesOf(o)
    PROVE  IsFiniteSet(A) /\ Total(A) \in Int
  <1>1. IsFiniteSet(A)
    BY OrgEntries, FS_Subset
  <1>2. \A e \in A : e.delta \in Int
    BY OrgEntries
  <1>3. QED
    BY <1>1, <1>2, TotalIsInt

LEMMA PartsAdd ==
    ASSUME BooksInv, EntriesAreDistinct, NEW o \in Orgs,
           NEW A \in SUBSET EntriesOf(o), NEW B \in SUBSET EntriesOf(o), A \cap B = {}
    PROVE  Total(A \cup B) = Total(A) + Total(B)
  <1>1. IsFiniteSet(A) /\ IsFiniteSet(B)
    BY PartSums
  <1>2. \A e \in A \cup B : e.delta \in Int
    BY OrgEntries
  <1>3. QED
    BY <1>1, <1>2, TotalSplits

Earlier(o, m) == {e \in EntriesOf(o) : e.at < m * MonthLength}
During(o, m) == {e \in EntriesOf(o) : InMonth(m, e.at)}
Because(o, m, reasons) == {e \in During(o, m) : e.reason \in reasons}

LEMMA StatementLines ==
    ASSUME NEW o, NEW m
    PROVE  /\ getMonthlyStatement(o, m).opening = Total(Earlier(o, m))
           /\ getMonthlyStatement(o, m).granted = Total(Because(o, m, {"grant"}))
           /\ getMonthlyStatement(o, m).consumed = -Total(Because(o, m, CONSUMPTION_REASONS))
           /\ getMonthlyStatement(o, m).refunded = Total(Because(o, m, {"refund"}))
           /\ getMonthlyStatement(o, m).closing = Total(Earlier(o, m)) + Total(During(o, m))
  BY DEF getMonthlyStatement, Earlier, During, Because

LEMMA MonthBounds ==
    ASSUME NEW m \in Nat
    PROVE  m * MonthLength \in Nat /\ (m + 1) * MonthLength = m * MonthLength + MonthLength
           /\ MonthLength \in Nat \ {0}
  <1>1. MonthLength \in Nat \ {0}
    BY BillingAssumption
  <1>2. PICK n \in Nat \ {0} : n = MonthLength
    BY <1>1
  <1>3. m * n \in Nat /\ (m + 1) * n = m * n + n
    OBVIOUS
  <1>4. QED
    BY <1>2, <1>3

\* A statement closes where the next one opens.
LEMMA MonthsChain ==
    ASSUME BooksInv, EntriesAreDistinct, NEW o \in Orgs, NEW m \in Nat
    PROVE  getMonthlyStatement(o, m).closing = getMonthlyStatement(o, m + 1).opening
  <1>1. PICK lo, hi \in Nat : lo = m * MonthLength /\ hi = (m + 1) * MonthLength /\ lo < hi
    BY MonthBounds
  <1>2. Earlier(o, m + 1) = Earlier(o, m) \cup During(o, m) /\ Earlier(o, m) \cap During(o, m) = {}
    BY <1>1, OrgEntries DEF Earlier, During, InMonth
  <1>3. Earlier(o, m) \in SUBSET EntriesOf(o) /\ During(o, m) \in SUBSET EntriesOf(o)
    BY DEF Earlier, During
  <1>4. QED
    BY <1>2, <1>3, PartsAdd, StatementLines

\* A statement adds up line by line.
LEMMA LinesAddUp ==
    ASSUME BooksInv, EntriesAreDistinct, NEW o \in Orgs, NEW m \in Nat
    PROVE  LET s == getMonthlyStatement(o, m)
           IN  s.closing = s.opening + s.granted - s.consumed + s.refunded
  <1>1. PICK M, g, c, r : /\ M = During(o, m) /\ g = Because(o, m, {"grant"})
                          /\ c = Because(o, m, CONSUMPTION_REASONS) /\ r = Because(o, m, {"refund"})
    OBVIOUS
  <1>2. M \in SUBSET EntriesOf(o) /\ Earlier(o, m) \in SUBSET EntriesOf(o)
    BY <1>1 DEF During, Earlier
  <1>3. M = (g \cup c) \cup r /\ g \cap c = {} /\ (g \cup c) \cap r = {}
        /\ g \in SUBSET EntriesOf(o) /\ c \in SUBSET EntriesOf(o) /\ r \in SUBSET EntriesOf(o)
        /\ (g \cup c) \in SUBSET EntriesOf(o)
    BY <1>1, <1>2, OrgEntries DEF Because, CONSUMPTION_REASONS
  <1>4. Total(M) = Total(g) + Total(c) + Total(r)
    <2>1. Total(M) = Total(g \cup c) + Total(r)
      BY <1>3, PartsAdd
    <2>2. Total(g \cup c) = Total(g) + Total(c)
      BY <1>3, PartsAdd
    <2>3. QED
      BY <2>1, <2>2
  <1>5. Total(Earlier(o, m)) \in Int /\ Total(g) \in Int /\ Total(c) \in Int /\ Total(r) \in Int
    BY <1>2, <1>3, PartSums
  <1>6. /\ getMonthlyStatement(o, m).opening = Total(Earlier(o, m))
        /\ getMonthlyStatement(o, m).granted = Total(g)
        /\ getMonthlyStatement(o, m).consumed = -Total(c)
        /\ getMonthlyStatement(o, m).refunded = Total(r)
        /\ getMonthlyStatement(o, m).closing = Total(Earlier(o, m)) + Total(M)
    BY <1>1, StatementLines
  <1>7. QED
    BY <1>4, <1>5, <1>6

\* The statement of the current month closes at the balance, with the sums of
\* the month to date.
LEMMA CurrentAgrees ==
    ASSUME BooksInv, EntriesAreDistinct, NEW o \in Orgs
    PROVE  LET current == getMonthlyStatement(o, clock \div MonthLength)
               summary == getBillingSummary(o, clock)
           IN  /\ current.closing = summary.balance
               /\ current.granted = summary.granted
               /\ current.consumed = summary.consumed
  <1>1. clock \in Nat /\ MonthLength \in Nat \ {0}
    BY OrgEntries, BillingAssumption
  <1>2. PICK m \in Nat : m = clock \div MonthLength
    BY <1>1
  <1>3. m * MonthLength <= clock /\ clock < (m + 1) * MonthLength
    BY <1>1, <1>2
  <1>4. PICK lo, hi \in Nat : lo = m * MonthLength /\ hi = (m + 1) * MonthLength
                              /\ lo <= clock /\ clock < hi
    BY <1>3, MonthBounds
  <1>5. monthStartUtc(clock) = lo
    BY <1>2, <1>4 DEF monthStartUtc
  <1>6. During(o, m) = {e \in EntriesOf(o) : lo <= e.at /\ e.at <= clock}
    BY <1>1, <1>4, OrgEntries DEF During, InMonth
  <1>7. EntriesOf(o) = Earlier(o, m) \cup During(o, m) /\ Earlier(o, m) \cap During(o, m) = {}
        /\ Earlier(o, m) \in SUBSET EntriesOf(o) /\ During(o, m) \in SUBSET EntriesOf(o)
    BY <1>1, <1>4, <1>6, OrgEntries DEF Earlier
  <1>8. Total(EntriesOf(o)) = Total(Earlier(o, m)) + Total(During(o, m))
    BY <1>7, PartsAdd
  <1>9. /\ getBillingSummary(o, clock).balance = Total(EntriesOf(o))
        /\ getBillingSummary(o, clock).granted = Total({e \in During(o, m) : e.reason = "grant"})
        /\ getBillingSummary(o, clock).consumed = -Total({e \in During(o, m) : e.reason \in CONSUMPTION_REASONS})
    BY <1>5, <1>6 DEF getBillingSummary, getCreditBalance
  <1>10. Because(o, m, {"grant"}) = {e \in During(o, m) : e.reason = "grant"}
         /\ Because(o, m, CONSUMPTION_REASONS) = {e \in During(o, m) : e.reason \in CONSUMPTION_REASONS}
    BY DEF Because
  <1>11. QED
    BY <1>2, <1>8, <1>9, <1>10, StatementLines

\* The order of a ledger, (created_at, id), is total.
OlderThan(e, f) == e.at < f.at \/ (e.at = f.at /\ e.id < f.id)

LEMMA UpToIsOrder ==
    ASSUME BooksInv, EntriesAreDistinct, NEW o \in Orgs
    PROVE  /\ \A e, f \in EntriesOf(o) : e \in UpTo(f) <=> e = f \/ OlderThan(e, f)
           /\ \A f \in EntriesOf(o) : UpTo(f) \subseteq EntriesOf(o) /\ f \in UpTo(f)
           /\ \A e, f \in EntriesOf(o) : e = f \/ OlderThan(e, f) \/ OlderThan(f, e)
           /\ \A e, f, g \in EntriesOf(o) : OlderThan(e, f) /\ OlderThan(f, g) => OlderThan(e, g)
           /\ \A e \in EntriesOf(o) : ~OlderThan(e, e)
  <1>1. \A e \in EntriesOf(o) : e.at \in Nat /\ e.id \in Nat /\ e.org = o
    BY OrgEntries
  <1>2. \A e, f \in EntriesOf(o) : e.id = f.id => e = f
    BY OrgEntries
  <1>3. ASSUME NEW e \in EntriesOf(o), NEW f \in EntriesOf(o)
        PROVE  /\ e \in UpTo(f) <=> e = f \/ OlderThan(e, f)
               /\ e = f \/ OlderThan(e, f) \/ OlderThan(f, e)
    <2>1. e \in UpTo(f) <=> (e.at < f.at \/ (e.at = f.at /\ e.id <= f.id))
      BY <1>1 DEF UpTo
    <2>2. QED
      BY <1>1, <1>2, <2>1 DEF OlderThan
  <1>4. \A f \in EntriesOf(o) : UpTo(f) \subseteq EntriesOf(o) /\ f \in UpTo(f)
    BY <1>1 DEF UpTo
  <1>5. \A e, f, g \in EntriesOf(o) : OlderThan(e, f) /\ OlderThan(f, g) => OlderThan(e, g)
    BY <1>1 DEF OlderThan
  <1>6. \A e \in EntriesOf(o) : ~OlderThan(e, e)
    BY <1>1 DEF OlderThan
  <1>7. QED
    BY <1>3, <1>4, <1>5, <1>6

\* A running balance continues the one before it.
LEMMA RunningContinues ==
    ASSUME BooksInv, EntriesAreDistinct, NEW o \in Orgs,
           NEW e \in EntriesOf(o), NEW f \in EntriesOf(o), UpTo(f) \ UpTo(e) = {f}
    PROVE  runningBalance(f) = runningBalance(e) + f.delta
  <1>1. f \notin UpTo(e)
    OBVIOUS
  <1>2. OlderThan(e, f)
    BY <1>1, UpToIsOrder
  <1>3. UpTo(e) \subseteq UpTo(f)
    <2> SUFFICES ASSUME NEW g \in UpTo(e) PROVE g \in UpTo(f)
      OBVIOUS
    <2>1. g \in EntriesOf(o)
      BY UpToIsOrder
    <2>2. g = e \/ OlderThan(g, e)
      BY <2>1, UpToIsOrder
    <2>3. OlderThan(g, f)
      BY <1>2, <2>1, <2>2, UpToIsOrder
    <2>4. QED
      BY <2>1, <2>3, UpToIsOrder
  <1>4. PICK U, V : U = UpTo(e) /\ V = UpTo(f)
    OBVIOUS
  <1>5. V \ {f} = U /\ f \in V /\ V \in SUBSET EntriesOf(o)
    BY <1>1, <1>3, <1>4, UpToIsOrder
  <1>6. IsFiniteSet(V) /\ \A g \in V : g.delta \in Int
    BY <1>5, PartSums, OrgEntries
  <1>7. Total(V) = Total(U) + f.delta
    BY <1>5, <1>6, TotalRemove
  <1>8. QED
    BY <1>4, <1>7 DEF runningBalance

\* A set of rows that is not empty has a newest one, and it is the page of one.
LEMMA NewestIsOne ==
    ASSUME BooksInv, EntriesAreDistinct, NEW o \in Orgs,
           NEW found \in SUBSET EntriesOf(o), found # {}
    PROVE  \E c \in found : /\ Newest(found, 1) = {c}
                           /\ \A e \in found : e = c \/ OlderThan(e, c)
  <1> DEFINE Newer(e) == {f \in found : e \in UpTo(f) \ {f}}
             Sizes == {Cardinality(Newer(e)) : e \in found}
  <1>0. IsFiniteSet(found)
    BY PartSums
  <1>1. \A e \in found : Newer(e) = {f \in found : OlderThan(e, f)}
    BY UpToIsOrder
  <1>2. \A e \in found : IsFiniteSet(Newer(e)) /\ Cardinality(Newer(e)) \in Nat
    BY <1>0, FS_Subset, FS_CardinalityType
  <1>3. Sizes \subseteq Nat /\ Sizes # {}
    BY <1>2
  <1>4. PICK n \in Sizes : \A k \in Sizes : n <= k
    BY <1>3, LeastExists
  <1>5. PICK c \in found : Cardinality(Newer(c)) = n
    BY <1>4
  <1>6. ASSUME NEW f \in found, OlderThan(c, f)
        PROVE  FALSE
    <2>1. PICK A, B : A = Newer(c) /\ B = Newer(f)
      OBVIOUS
    <2>2. B \in SUBSET A
      BY <1>1, <1>6, <2>1, UpToIsOrder
    <2>3. f \in A /\ f \notin B
      BY <1>1, <1>6, <2>1, UpToIsOrder
    <2>4. IsFiniteSet(A) /\ Cardinality(A) = n /\ Cardinality(B) \in Nat /\ Cardinality(B) \in Sizes
      BY <1>2, <1>5, <2>1
    <2>5. Cardinality(B) <= Cardinality(A) /\ Cardinality(A) # Cardinality(B)
      BY <2>2, <2>3, <2>4, FS_Subset
    <2> HIDE DEF Sizes, Newer
    <2>6. QED
      BY <1>3, <1>4, <2>4, <2>5
  <1>7. \A e \in found : e = c \/ OlderThan(e, c)
    BY <1>6, UpToIsOrder
  <1>8. ASSUME NEW e \in found
        PROVE  Cardinality(Newer(e)) < 1 <=> e = c
    <2>1. PICK A : A = Newer(e)
      OBVIOUS
    <2>2. IsFiniteSet(A) /\ Cardinality(A) \in Nat
      BY <1>2, <2>1
    <2>3. Cardinality(A) < 1 <=> A = {}
      BY <2>2, FS_EmptySet
    <2>4. A = {} <=> e = c
      BY <1>1, <1>6, <1>7, <2>1, UpToIsOrder
    <2>5. QED
      BY <2>1, <2>3, <2>4
  <1>9. Newest(found, 1) = {c}
    BY <1>8 DEF Newest
  <1>10. QED
    BY <1>7, <1>9

\* One page of GET /v1/usage: no entry twice, and only what the coarser clock
\* of the cursor cannot tell from the page's last entry is passed over.
LEMMA PagesAgree ==
    ASSUME BooksInv, EntriesAreDistinct, NEW o \in Orgs, NEW unit \in 1 .. 2, NEW cursor
    PROVE  LET sheet == getUsageSummary(o, cursor, 1, unit)
               rest == IF sheet.next = {} THEN {} ELSE Beyond(o, sheet.next)
           IN  /\ sheet.balance = getCreditBalance(o)
               /\ rest \cap sheet.entries = {}
               /\ \A e \in Beyond(o, cursor) \ rest : \E f \in sheet.entries :
                      e.at \div unit = f.at \div unit /\ (unit = 1 => e = f)
  <1>1. PICK sheet : sheet = getUsageSummary(o, cursor, 1, unit)
    OBVIOUS
  <1>2. PICK rest : rest = IF sheet.next = {} THEN {} ELSE Beyond(o, sheet.next)
    OBVIOUS
  <1>3. /\ sheet.balance = getCreditBalance(o)
        /\ rest \cap sheet.entries = {}
        /\ \A e \in Beyond(o, cursor) \ rest : \E f \in sheet.entries :
               e.at \div unit = f.at \div unit /\ (unit = 1 => e = f)
    <2>1. PICK found, top : found = Beyond(o, cursor) /\ top = Newest(found, 1)
      OBVIOUS
    <2>2. /\ sheet.balance = getCreditBalance(o) /\ sheet.entries = top
          /\ sheet.next = IF found = top THEN {}
                         ELSE encodeCursor(CHOOSE e \in top : UpTo(e) \cap top = {e}, unit)
      BY <1>1, <2>1 DEF getUsageSummary
    <2>3. found \in SUBSET EntriesOf(o) /\ top \subseteq found
      BY <2>1 DEF Beyond, Newest
    <2>4. CASE found = top
      BY <1>2, <2>1, <2>2, <2>4
    <2>5. CASE found # top
      <3>1. PICK c \in found : top = {c} /\ \A e \in found : e = c \/ OlderThan(e, c)
        BY <2>1, <2>3, <2>5, NewestIsOne
      <3>2. UpTo(c) \cap top = {c}
        BY <2>3, <3>1, UpToIsOrder
      <3>3. (CHOOSE e \in top : UpTo(e) \cap top = {e}) = c
        BY <3>1, <3>2
      <3>4. PICK t : t = (c.at \div unit) * unit
        OBVIOUS
      <3>5. sheet.next = {[at |-> t, id |-> c.id]}
        BY <2>2, <2>5, <3>3, <3>4 DEF encodeCursor
      <3>6. \A e \in EntriesOf(o) : e \in rest <=> e.at < t \/ (e.at = t /\ e.id < c.id)
        <4>1. PICK k : k = [at |-> t, id |-> c.id]
          OBVIOUS
        <4>2. k.at = t /\ k.id = c.id /\ sheet.next = {k}
          BY <3>5, <4>1
        <4>3. rest = Beyond(o, {k})
          BY <1>2, <4>2
        <4>4. QED
          BY <4>2, <4>3 DEF Beyond
      <3>7. \A e \in found : e.at \in Nat /\ e.id \in Nat
        BY <2>3, OrgEntries
      <3>8. t \in Nat /\ t <= c.at
        BY <3>4, <3>7
      <3>9. c \notin rest
        BY <2>3, <3>6, <3>7, <3>8
      <3>10. ASSUME NEW e \in found, e \notin rest
             PROVE  e.at \div unit = c.at \div unit /\ (unit = 1 => e = c)
        <4>1. e.at <= c.at
          BY <3>1, <3>7 DEF OlderThan
        <4>2. ~(e.at < t) /\ ~(e.at = t /\ e.id < c.id)
          BY <2>3, <3>6, <3>10
        <4>3. e.at \div unit = c.at \div unit
          <5>1. PICK a, b \in Nat : a = e.at /\ b = c.at
            BY <3>7
          <5>2. a <= b /\ (b \div unit) * unit <= a
            BY <3>4, <3>8, <4>1, <4>2, <5>1
          <5>3. a \div unit = b \div unit
            <6>1. CASE unit = 1
              BY <5>2, <6>1
            <6>2. CASE unit = 2
              BY <5>2, <6>2
            <6>3. QED
              BY <6>1, <6>2
          <5>4. QED
            BY <5>1, <5>3
        <4>4. ASSUME unit = 1 PROVE e = c
          <5>1. t = c.at
            BY <3>4, <3>7, <4>4
          <5>2. e.at = c.at /\ ~(e.id < c.id)
            BY <3>7, <4>1, <4>2, <5>1
          <5>3. ~OlderThan(e, c)
            BY <3>7, <5>2 DEF OlderThan
          <5>4. QED
            BY <3>1, <5>3
        <4>5. QED
          BY <4>3, <4>4
      <3>11. rest \cap sheet.entries = {}
        BY <2>2, <3>1, <3>9
      <3>12. QED
        BY <2>1, <2>2, <3>1, <3>10, <3>11
    <2>6. QED
      BY <2>4, <2>5
  <1>4. QED
    BY <1>1, <1>2, <1>3

\* All views of a ledger whose entries are distinct agree.
LEMMA ViewsAgree ==
    ASSUME BooksInv, EntriesAreDistinct
    PROVE  BooksAgree
  <1> SUFFICES ASSUME NEW o \in Orgs
      PROVE LET current == getMonthlyStatement(o, clock \div MonthLength)
                shown   == billingPage(o)
        IN  /\ \A m \in Months :
                   LET s == getMonthlyStatement(o, m)
                   IN  /\ s.closing = getMonthlyStatement(o, m + 1).opening
                       /\ s.closing = s.opening + s.granted - s.consumed + s.refunded
            /\ current.closing = shown.summary.balance
            /\ current.granted = shown.summary.granted
            /\ current.consumed = shown.summary.consumed
            /\ \A running \in shown.newest : running = shown.summary.balance
            /\ \A from \in Times :
                   LET usage == usagePage(o, from)
                   IN  /\ usage.balance = shown.summary.balance
                       /\ \A x, y \in usage.ledger :
                              UpTo(y.entry) \ UpTo(x.entry) = {y.entry} =>
                                  y.running = x.running + y.entry.delta
            /\ \A unit \in 1 .. 2 :
                 \A cursor \in {{}} \cup {encodeCursor(e, unit) : e \in EntriesOf(o)} :
                   LET sheet == getUsageSummary(o, cursor, 1, unit)
                       rest == IF sheet.next = {} THEN {} ELSE Beyond(o, sheet.next)
                   IN  /\ sheet.balance = shown.summary.balance
                       /\ rest \cap sheet.entries = {}
                       /\ \A e \in Beyond(o, cursor) \ rest : \E f \in sheet.entries :
                              e.at \div unit = f.at \div unit /\ (unit = 1 => e = f)
    BY DEF BooksAgree
  <1>1. PICK shown : shown = billingPage(o)
    OBVIOUS
  <1>2. /\ shown.summary = getBillingSummary(o, clock) /\ shown.summary.balance = getCreditBalance(o)
        /\ shown.newest = {runningBalance(e) : e \in {f \in EntriesOf(o) : UpTo(f) = EntriesOf(o)}}
    BY <1>1 DEF billingPage, getBillingSummary
  <1>3. ASSUME NEW m \in Months
        PROVE  LET s == getMonthlyStatement(o, m)
               IN  /\ s.closing = getMonthlyStatement(o, m + 1).opening
                   /\ s.closing = s.opening + s.granted - s.consumed + s.refunded
    <2>1. m \in Nat
      <3>1. Horizon \in Nat /\ MonthLength \in Nat \ {0}
        BY BillingAssumption
      <3>2. QED
        BY <3>1 DEF Months
    <2>2. QED
      BY <2>1, MonthsChain, LinesAddUp
  <1>4. LET current == getMonthlyStatement(o, clock \div MonthLength)
        IN  /\ current.closing = shown.summary.balance
            /\ current.granted = shown.summary.granted
            /\ current.consumed = shown.summary.consumed
    BY <1>2, CurrentAgrees
  <1>5. \A running \in shown.newest : running = shown.summary.balance
    BY <1>2 DEF runningBalance, getCreditBalance
  <1>6. ASSUME NEW from \in Times
        PROVE  LET usage == usagePage(o, from)
               IN  /\ usage.balance = shown.summary.balance
                   /\ \A x, y \in usage.ledger :
                          UpTo(y.entry) \ UpTo(x.entry) = {y.entry} =>
                              y.running = x.running + y.entry.delta
    <2>1. /\ usagePage(o, from).balance = getCreditBalance(o)
          /\ usagePage(o, from).ledger =
               {[entry |-> e, running |-> runningBalance(e)] : e \in {f \in EntriesOf(o) : f.at >= from}}
      BY DEF usagePage
    <2>2. ASSUME NEW x \in usagePage(o, from).ledger, NEW y \in usagePage(o, from).ledger,
                 UpTo(y.entry) \ UpTo(x.entry) = {y.entry}
          PROVE  y.running = x.running + y.entry.delta
      <3>1. PICK e \in EntriesOf(o) : x.entry = e /\ x.running = runningBalance(e)
        BY <2>1
      <3>2. PICK f \in EntriesOf(o) : y.entry = f /\ y.running = runningBalance(f)
        BY <2>1
      <3>3. runningBalance(f) = runningBalance(e) + f.delta
        BY <2>2, <3>1, <3>2, RunningContinues
      <3>4. QED
        BY <3>1, <3>2, <3>3
    <2>3. QED
      BY <1>2, <2>1, <2>2
  <1>7. ASSUME NEW unit \in 1 .. 2, NEW cursor
        PROVE  LET sheet == getUsageSummary(o, cursor, 1, unit)
                   rest == IF sheet.next = {} THEN {} ELSE Beyond(o, sheet.next)
               IN  /\ sheet.balance = shown.summary.balance
                   /\ rest \cap sheet.entries = {}
                   /\ \A e \in Beyond(o, cursor) \ rest : \E f \in sheet.entries :
                          e.at \div unit = f.at \div unit /\ (unit = 1 => e = f)
    BY <1>2, PagesAgree
  <1>8. QED
    BY <1>1, <1>3, <1>4, <1>5, <1>6, <1>7

\* Entries get new identifiers and the present tick, and none is rewritten.
LEMMA DistinctStep == BooksInv /\ EntriesAreDistinct /\ [BillingNext]_books => EntriesAreDistinct'
  <1> SUFFICES ASSUME BooksInv, EntriesAreDistinct, [BillingNext]_books PROVE EntriesAreDistinct'
    OBVIOUS
  <1>0. clock \in Nat /\ \A e \in ledger : e.at \in Nat
    BY TimesAreNaturals DEF BooksInv, BooksTypeOK, Entry
  <1>1. ASSUME NEW id \in Fresh, NEW entry, Append1(entry), entry.id = id, entry.at = clock
        PROVE  EntriesAreDistinct'
    <2>1. ledger' = ledger \cup {entry} /\ used' = used \cup {id} /\ clock' = clock
      BY <1>1 DEF Append1
    <2>2. id \notin used
      BY FreshIsNew
    <2>3. IsFiniteSet(ledger')
      BY <2>1, FS_AddElement DEF EntriesAreDistinct
    <2>4. \A e, f \in ledger' : e.id = f.id => e = f
      BY <1>1, <2>1, <2>2 DEF EntriesAreDistinct
    <2>5. \A e \in ledger' : e.id \in used' /\ e.at <= clock'
      BY <1>0, <1>1, <2>1 DEF EntriesAreDistinct
    <2>6. QED
      BY <2>3, <2>4, <2>5 DEF EntriesAreDistinct
  <1>2. ASSUME NEW o \in Orgs, NEW id \in Fresh, Book(o, id)
        PROVE  EntriesAreDistinct'
    <2>1. \E entry : Append1(entry) /\ entry.id = id /\ entry.at = clock
      <3>1. CASE billingGrantCommand(o, id)
        <4>1. PICK credits \in Amounts, typed \in Notes : grantCreditsWithAudit(o, credits, typed, id)
          BY <3>1 DEF billingGrantCommand
        <4>2. PICK e : e = [id |-> id, org |-> o, delta |-> credits, reason |-> "grant",
                            ref |-> grantReference(credits, Trim(typed)), at |-> clock]
          OBVIOUS
        <4>3. Append1(e) /\ e.id = id /\ e.at = clock
          BY <4>1, <4>2 DEF grantCreditsWithAudit
        <4>4. QED
          BY <4>3
      <3>2. ASSUME NEW reason, Spend(o, reason, id)
            PROVE  \E entry : Append1(entry) /\ entry.id = id /\ entry.at = clock
        <4>1. PICK e : e = [id |-> id, org |-> o, delta |-> -1, reason |-> reason,
                            ref |-> [kind |-> IF reason = "batch_check" THEN "batch" ELSE "check",
                                     of |-> id, note |-> Plain("")],
                            at |-> clock]
          OBVIOUS
        <4>2. Append1(e) /\ e.id = id /\ e.at = clock
          BY <3>2, <4>1 DEF Spend
        <4>3. QED
          BY <4>2
      <3>3. ASSUME NEW batch, Refund(o, batch, id)
            PROVE  \E entry : Append1(entry) /\ entry.id = id /\ entry.at = clock
        <4>1. PICK e : e = [id |-> id, org |-> o, delta |-> 1, reason |-> "refund",
                            ref |-> [kind |-> "refund", of |-> batch.id, note |-> Plain("")],
                            at |-> clock]
          OBVIOUS
        <4>2. Append1(e) /\ e.id = id /\ e.at = clock
          BY <3>3, <4>1 DEF Refund
        <4>3. QED
          BY <4>2
      <3>4. QED
        BY <1>2, <3>1, <3>2, <3>3 DEF Book
    <2>2. QED
      BY <1>1, <2>1
  <1>3. ASSUME ledger' \subseteq ledger, used' = used, clock' \in {clock, clock + 1}
        PROVE  EntriesAreDistinct'
    <2>1. IsFiniteSet(ledger')
      BY <1>3, FS_Subset DEF EntriesAreDistinct
    <2>2. QED
      BY <1>0, <1>3, <2>1 DEF EntriesAreDistinct
  <1>4. QED
    BY <1>2, <1>3 DEF BillingNext, softDeleteOrganization, purgeExpiredLedgerEntries, BookTick, books

\* Through every grant, spend, refund, purge and deletion, for any number of
\* organisations and entries and any length of a month, the statements, the
\* summary, the running balances and the pages of the usage list show one ledger.
THEOREM BooksAlwaysAgree == BillingSpec => []BooksAgree
  <1>1. BillingInit => EntriesAreDistinct
    BY FS_EmptySet DEF BillingInit, EntriesAreDistinct
  <1>2. BillingSpec => [](BooksInv /\ EntriesAreDistinct)
    BY <1>1, BooksInit, BooksStep, DistinctStep, PTL DEF BillingSpec
  <1>3. BooksInv /\ EntriesAreDistinct => BooksAgree
    BY ViewsAgree
  <1>4. QED
    BY <1>2, <1>3, PTL

-----------------------------------------------------------------------------
(* Retention: what every step may rely on                                  *)

LEMMA Durations ==
    /\ Retentions \subseteq Nat /\ DefaultRetention \in Nat /\ LeadRetention \in Nat
    /\ Grace \in Nat /\ LinkTtl \in Nat /\ StatementTtl \in Nat /\ MaxCall \in Nat
    /\ MaxCall < Grace /\ LinkTtl < Grace /\ StatementTtl < Grace
    /\ MaxSweep \in Nat /\ MaxFaults \in Nat
  BY RetentionAssumption

\* The types, field by field.
LEMMA Typed ==
    ASSUME TypeOK
    PROVE  /\ clock \in Nat
           /\ \A r \in rows : r.id \in Ids /\ r.org \in Orgs \cup {NoOrg} /\ r.expires \in Nat
           /\ \A x \in objects : x.id \in Ids /\ x.org \in Orgs /\ x.at \in Nat
                                 /\ x.kind \in {"input", "export", "statement"}
           /\ \A c \in calls : /\ c.id \in Ids /\ c.org \in Orgs /\ c.at \in Nat /\ c.after \in Nat
                               /\ c.category \in 0 .. 3 /\ c.copied \subseteq Ids /\ c.there \subseteq Ids
                               /\ c.kind \in {"batch", "statement", "export"}
           /\ \A l \in links : l.id \in Ids /\ l.until \in Nat
           /\ \A o \in Orgs : org[o].deletedAt \in Nat /\ org[o].retention \in Nat
                              /\ org[o].state \in {"active", "deleted", "purged", "removed"}
           /\ sweep.now \in Nat /\ sweep.due \subseteq Orgs /\ sweep.current \subseteq Orgs
           /\ sweep.page \subseteq Ids /\ sweep.keys \subseteq Object
           /\ \A x \in sweep.keys : x.id \in Ids /\ x.org \in Orgs /\ x.at \in Nat
  <1>1. Times \subseteq Nat
    BY TimesAreNaturals
  <1>2. clock \in Nat /\ \A o \in Orgs : org[o].deletedAt \in Nat /\ org[o].retention \in Nat
                              /\ org[o].state \in {"active", "deleted", "purged", "removed"}
    BY <1>1 DEF TypeOK, BooksTypeOK, OrgRow
  <1>3. \A r \in rows : r.id \in Ids /\ r.org \in Orgs \cup {NoOrg} /\ r.expires \in Nat
    BY DEF TypeOK, Row
  <1>4. \A x \in Object : x.id \in Ids /\ x.org \in Orgs /\ x.at \in Nat
                           /\ x.kind \in {"input", "export", "statement"}
    BY <1>1 DEF Object
  <1>5. \A c \in calls : /\ c.id \in Ids /\ c.org \in Orgs /\ c.at \in Nat /\ c.after \in Nat
                         /\ c.category \in 0 .. 3 /\ c.copied \subseteq Ids /\ c.there \subseteq Ids
                         /\ c.kind \in {"batch", "statement", "export"}
    BY <1>1 DEF TypeOK, Call
  <1>6. \A l \in links : l.id \in Ids /\ l.until \in Nat
    BY DEF TypeOK
  <1>7. /\ sweep.now \in Nat /\ sweep.due \subseteq Orgs /\ sweep.current \subseteq Orgs
        /\ sweep.page \subseteq Ids /\ sweep.keys \subseteq Object
    BY <1>1 DEF TypeOK, Sweep
  <1>8. objects \subseteq Object
    BY DEF TypeOK
  <1>9. QED
    BY <1>2, <1>3, <1>4, <1>5, <1>6, <1>7, <1>8

\* No call outlives the grace period: an organisation that is due has none.
LEMMA NoCallsDue ==
    ASSUME IndInv, NEW c \in calls
    PROVE  c.org \notin sweep.due \cup sweep.current
  <1>1. SUFFICES ASSUME c.org \in sweep.due \cup sweep.current PROVE FALSE
    OBVIOUS
  <1>2. org[c.org].state = "deleted" /\ org[c.org].deletedAt + Grace <= sweep.now /\ sweep.now <= clock
    BY <1>1 DEF IndInv, DueOK
  <1>3. c.at <= org[c.org].deletedAt /\ clock <= c.at + MaxCall
    BY <1>2 DEF IndInv, CallTimesOK, Active
  <1>4. c.at \in Nat /\ clock \in Nat /\ sweep.now \in Nat /\ org[c.org].deletedAt \in Nat
    BY Typed DEF IndInv
  <1>5. QED
    BY <1>2, <1>3, <1>4, Durations

\* A link to what the sweep is about to delete is past its time.
LEMMA KeysAreDead ==
    ASSUME IndInv, At("batchObjects") \/ At("orgObjects") \/ At("exportObjects"),
           NEW x \in sweep.keys, NEW l \in links, Backs(x, l)
    PROVE  ~(clock <= l.until)
  <1>1. /\ x.at \in Nat /\ clock \in Nat /\ sweep.now \in Nat /\ l.until \in Nat
        /\ org[x.org].deletedAt \in Nat
    BY Typed DEF IndInv
  <1>2. sweep.now <= clock
    BY DEF IndInv, DueOK
  <1>3. CASE At("batchObjects")
    BY <1>3 DEF IndInv, KeysOK, Backs
  <1>4. CASE At("orgObjects")
    <2>1. x.org \in sweep.current
      BY <1>4 DEF IndInv, KeysOK
    <2>2. org[x.org].state = "deleted" /\ org[x.org].deletedAt + Grace <= sweep.now
      BY <2>1 DEF IndInv, DueOK
    <2>3. l.until < org[x.org].deletedAt + Grace
      BY <2>2 DEF Backs, Active
    <2>4. QED
      BY <1>1, <1>2, <2>2, <2>3, Durations
  <1>5. CASE At("exportObjects")
    <2>1. x.kind = "export" /\ x.at + LinkTtl < sweep.now
      BY <1>5 DEF IndInv, KeysOK
    <2>2. l.until <= x.at + LinkTtl
      BY <2>1 DEF Backs
    <2>3. QED
      BY <1>1, <1>2, <2>1, <2>2, Durations
  <1>6. QED
    BY <1>3, <1>4, <1>5

\* What the pagers select, without the table of categories.
LEMMA Selected ==
    ASSUME NEW o, NEW id
    PROVE  /\ id \in Exported(o, 1) <=> \E r \in rows : r.org = o /\ r.kind = "check" /\ r.id = id
           /\ id \in Exported(o, 2) <=> \E r \in rows : r.org = o /\ r.kind = "batch" /\ r.id = id
           /\ id \in Exported(o, 3) <=> \E e \in ledger : e.org = o /\ e.id = id
  <1>1. Categories[1] = "check" /\ Categories[2] = "batch" /\ Categories[3] = "ledger"
    BY DEF Categories
  <1>2. QED
    BY <1>1 DEF Exported, EntriesOf

\* No row is new, but rows may go or be marked.
RowsFrom == \A r \in rows' : \E q \in rows : q.id = r.id /\ q.org = r.org /\ q.kind = r.kind

\* Batches stay.
BatchesKept == \A r \in rows : r.kind = "batch" => r \in rows'

LEMMA SelectedBefore ==
    ASSUME RowsFrom, ledger' \subseteq ledger,
           NEW o, NEW category \in 1 .. 3, NEW id \in Exported(o, category)'
    PROVE  id \in Exported(o, category)
  <1>1. (id \in Exported(o, 1))' <=> \E r \in rows' : r.org = o /\ r.kind = "check" /\ r.id = id
    BY Selected DEF Exported, Categories, EntriesOf
  <1>2. (id \in Exported(o, 2))' <=> \E r \in rows' : r.org = o /\ r.kind = "batch" /\ r.id = id
    BY Selected DEF Exported, Categories, EntriesOf
  <1>3. (id \in Exported(o, 3))' <=> \E e \in ledger' : e.org = o /\ e.id = id
    BY Selected DEF Exported, Categories, EntriesOf
  <1>4. category = 1 \/ category = 2 \/ category = 3
    OBVIOUS
  <1>5. QED
    BY <1>1, <1>2, <1>3, <1>4, Selected DEF RowsFrom

-----------------------------------------------------------------------------
(* Frames: steps that only take away.                                      *)

\* Nothing is inserted, stored or begun: identifiers stay distinct, and what
\* an export has not copied stays ahead of it.
LEMMA Shrink ==
    ASSUME IndInv, RowsFrom, objects' \subseteq objects, ledger' \subseteq ledger,
           calls' \subseteq calls, used' = used,
           \A id \in sweep'.page : id \in sweep.page \/ \E r \in rows : r.id = id
    PROVE  /\ GrantsAreNamed' /\ GrantedOnce'
           /\ IdsOK' /\ CallIdsOK' /\ RowObjectsOK' /\ ExportsOK'
  <1>1. GrantsAreNamed' /\ GrantedOnce'
    BY DEF IndInv, GrantsAreNamed, GrantedOnce
  <1>2. IdsOK'
    BY DEF IndInv, IdsOK, RowsFrom
  <1>3. CallIdsOK'
    BY DEF IndInv, CallIdsOK, RowsFrom
  <1>4. RowObjectsOK'
    BY DEF IndInv, RowObjectsOK, RowsFrom
  <1>5. ExportsOK'
    <2>1. SUFFICES ASSUME NEW call \in calls', call.kind = "export", NEW category \in 1 .. 3,
                          NEW id \in call.there, id \in Exported(call.org, category)'
                   PROVE  id \in call.copied \/ Ahead(call, category, id)
      BY DEF ExportsOK, Ahead
    <2>2. PICK o : o = call.org
      OBVIOUS
    <2>3. id \in Exported(o, category)'
      BY <2>1, <2>2
    <2>4. id \in Exported(o, category)
      BY <2>3, SelectedBefore
    <2>5. QED
      BY <2>1, <2>2, <2>4 DEF IndInv, ExportsOK
  <1>6. QED
    BY <1>1, <1>2, <1>3, <1>4, <1>5

\* The calls and organisations as they are, at the same time.
LEMMA CallTimesFrame ==
    ASSUME IndInv, calls' \subseteq calls, UNCHANGED <<clock, org>>
    PROVE  CallTimesOK'
  BY DEF IndInv, CallTimesOK, Active

LEMMA DueFrame ==
    ASSUME IndInv, UNCHANGED <<clock, org, sweep>>
    PROVE  DueOK'
  BY DEF IndInv, DueOK

LEMMA KeysFrame ==
    ASSUME IndInv, objects' \subseteq objects, UNCHANGED sweep
    PROVE  KeysOK'
  BY DEF IndInv, KeysOK, At

LEMMA TracksFrame ==
    ASSUME IndInv, objects' \subseteq objects, BatchesKept, UNCHANGED org
    PROVE  TracksOK'
  BY DEF IndInv, TracksOK, BatchesKept, Active

LEMMA LinksFrame ==
    ASSUME IndInv, links' \subseteq links, objects \subseteq objects', UNCHANGED <<clock, org>>
    PROVE  LinksOK'
  BY DEF IndInv, LinksOK, Backs, Active

LEMMA PurgedFrame ==
    ASSUME IndInv, RowsFrom, objects' \subseteq objects, UNCHANGED org
    PROVE  PurgedIsEmpty'
  BY DEF IndInv, PurgedIsEmpty, RowsFrom, UnderPrefix

\* A step of the sweep that lists or moves on.
LEMMA SweepMoves ==
    ASSUME IndInv, UNCHANGED <<clock, org, ledger, used, rows, objects, links, calls>>,
           faults' \in 0 .. MaxFaults, sweep' \in Sweep, DueOK', KeysOK',
           \A id \in sweep'.page : id \in sweep.page \/ \E r \in rows : r.id = id
    PROVE  IndInv'
  <1>1. RowsFrom /\ BatchesKept
    BY DEF RowsFrom, BatchesKept
  <1>2. /\ GrantsAreNamed' /\ GrantedOnce'
        /\ IdsOK' /\ CallIdsOK' /\ RowObjectsOK' /\ ExportsOK'
    BY <1>1, Shrink
  <1>3. TypeOK'
    BY DEF IndInv, TypeOK, BooksTypeOK
  <1>4. CallTimesOK' /\ TracksOK' /\ LinksOK' /\ PurgedIsEmpty'
    BY <1>1, CallTimesFrame, TracksFrame, LinksFrame, PurgedFrame
  <1>5. QED
    BY <1>2, <1>3, <1>4 DEF IndInv

\* A step that removes rows, other than those of a batch with a file.
LEMMA RowsGo ==
    ASSUME IndInv, UNCHANGED <<clock, org, ledger, used, objects, links, calls, faults>>,
           RowsFrom, rows' \subseteq Row, TracksOK', sweep' \in Sweep, DueOK', KeysOK',
           \A id \in sweep'.page : id \in sweep.page \/ \E r \in rows : r.id = id
    PROVE  IndInv'
  <1>1. /\ GrantsAreNamed' /\ GrantedOnce'
        /\ IdsOK' /\ CallIdsOK' /\ RowObjectsOK' /\ ExportsOK'
    BY Shrink
  <1>2. TypeOK'
    BY DEF IndInv, TypeOK, BooksTypeOK
  <1>3. CallTimesOK' /\ LinksOK' /\ PurgedIsEmpty'
    BY CallTimesFrame, LinksFrame, PurgedFrame
  <1>4. QED
    BY <1>1, <1>2, <1>3 DEF IndInv

\* A deletion of listed keys, complete or not.
LEMMA ObjectsGo ==
    ASSUME IndInv, At("batchObjects") \/ At("orgObjects") \/ At("exportObjects"),
           UNCHANGED <<clock, org, ledger, used, rows, links, calls>>,
           objects' \subseteq objects, \A x \in objects : x \in objects' \/ x \in sweep.keys,
           faults' \in 0 .. MaxFaults, sweep' \in Sweep, DueOK', KeysOK',
           \A id \in sweep'.page : id \in sweep.page \/ \E r \in rows : r.id = id
    PROVE  IndInv'
  <1>1. RowsFrom /\ BatchesKept
    BY DEF RowsFrom, BatchesKept
  <1>2. /\ GrantsAreNamed' /\ GrantedOnce'
        /\ IdsOK' /\ CallIdsOK' /\ RowObjectsOK' /\ ExportsOK'
    BY <1>1, Shrink
  <1>3. TypeOK'
    BY DEF IndInv, TypeOK, BooksTypeOK
  <1>4. CallTimesOK' /\ TracksOK' /\ PurgedIsEmpty'
    BY <1>1, CallTimesFrame, TracksFrame, PurgedFrame
  <1>5. LinksOK'
    <2>1. SUFFICES ASSUME NEW l \in links, clock <= l.until
                   PROVE  \E x \in objects' : Backs(x, l)
      BY DEF LinksOK, Backs, Active
    <2>2. PICK x \in objects : Backs(x, l)
      BY <2>1 DEF IndInv, LinksOK
    <2>3. x \notin sweep.keys
      BY <2>1, <2>2, KeysAreDead
    <2>4. QED
      BY <2>2, <2>3
  <1>6. QED
    BY <1>2, <1>3, <1>4, <1>5 DEF IndInv

-----------------------------------------------------------------------------
(* The steps of the sweep                                                  *)

\* The run is over: nothing is listed any more.
LEMMA IdleOK ==
    /\ Idle \in Sweep /\ Idle.step = "idle" /\ Idle.page = {} /\ Idle.keys = {}
    /\ Idle.due = {} /\ Idle.current = {} /\ Idle.now = 0
  BY TimesAreNaturals DEF Idle, Sweep, Steps

LEMMA IdleFrame ==
    ASSUME IndInv, sweep' = Idle, UNCHANGED clock
    PROVE  DueOK' /\ KeysOK'
  <1>1. 0 <= clock
    BY Typed DEF IndInv
  <1>2. DueOK'
    BY <1>1, IdleOK DEF DueOK
  <1>3. KeysOK'
    BY IdleOK DEF KeysOK, At
  <1>4. QED
    BY <1>2, <1>3

\* A step to one where nothing is listed, with the same organisations due.
Bare == {"checks", "batches", "orgs", "nextOrg", "relist", "leads", "exports", "ledger", "retire"}

LEMMA GotoFrame ==
    ASSUME IndInv, NEW step \in Bare, Goto(step), UNCHANGED <<clock, org>>
    PROVE  sweep' \in Sweep /\ DueOK' /\ KeysOK' /\ sweep'.page = sweep.page
  <1>1. sweep \in Sweep
    BY DEF IndInv, TypeOK
  <1>2. /\ sweep' \in Sweep /\ sweep'.step = step /\ sweep'.page = sweep.page /\ sweep'.now = sweep.now
        /\ sweep'.due = sweep.due /\ sweep'.current = sweep.current
    BY <1>1 DEF Goto, Sweep, Steps, Bare
  <1>3. DueOK'
    BY <1>2 DEF IndInv, DueOK
  <1>4. KeysOK'
    BY <1>2 DEF KeysOK, At, Bare
  <1>5. QED
    BY <1>2, <1>3, <1>4

LEMMA StartSweepOK == IndInv /\ StartSweep => IndInv'
  <1> SUFFICES ASSUME IndInv, StartSweep PROVE IndInv'
    OBVIOUS
  <1>1. UNCHANGED <<clock, org, ledger, used, rows, objects, links, calls, faults>>
    BY DEF StartSweep, books
  <1>2. clock \in Times /\ faults \in 0 .. MaxFaults
    BY DEF IndInv, TypeOK, BooksTypeOK
  <1>3. /\ sweep' \in Sweep /\ sweep'.page = {} /\ sweep'.due = {} /\ sweep'.current = {}
        /\ sweep'.now = clock /\ sweep'.step = "checks"
    BY <1>2 DEF StartSweep, Idle, Sweep, Steps
  <1>4. DueOK'
    BY <1>1, <1>3, Typed DEF IndInv, DueOK
  <1>5. KeysOK'
    BY <1>3 DEF KeysOK, At
  <1>6. QED
    BY <1>1, <1>2, <1>3, <1>4, <1>5, SweepMoves

LEMMA PurgeRowsOK == IndInv /\ (purgeExpiredChecks \/ purgeExpiredLeads) => IndInv'
  <1> SUFFICES ASSUME IndInv, purgeExpiredChecks \/ purgeExpiredLeads PROVE IndInv'
    OBVIOUS
  <1>1. UNCHANGED <<clock, org, ledger, used, objects, links, calls, faults>>
    BY DEF purgeExpiredChecks, purgeExpiredLeads, books
  <1>2. PICK step \in Bare : Goto(step)
    BY DEF purgeExpiredChecks, purgeExpiredLeads, Bare
  <1>3. sweep' \in Sweep /\ DueOK' /\ KeysOK' /\ sweep'.page = sweep.page
    BY <1>1, <1>2, GotoFrame
  <1>4. rows' \subseteq rows /\ BatchesKept
    BY DEF purgeExpiredChecks, purgeExpiredLeads, Expired, BatchesKept
  <1>5. RowsFrom /\ rows' \subseteq Row
    BY <1>4 DEF RowsFrom, IndInv, TypeOK
  <1>6. TracksOK'
    BY <1>1, <1>4, TracksFrame
  <1>7. QED
    BY <1>1, <1>3, <1>5, <1>6, RowsGo

LEMMA listExpiredBatchesOK == IndInv /\ listExpiredBatches => IndInv'
  <1> SUFFICES ASSUME IndInv, listExpiredBatches PROVE IndInv'
    OBVIOUS
  <1>1. UNCHANGED <<clock, org, ledger, used, rows, objects, links, calls, faults>>
    BY DEF listExpiredBatches, books
  <1>2. faults' \in 0 .. MaxFaults
    BY <1>1 DEF IndInv, TypeOK
  <1>3. CASE Goto("orgs")
    <2>1. sweep' \in Sweep /\ DueOK' /\ KeysOK' /\ sweep'.page = sweep.page
      BY <1>1, <1>3, GotoFrame DEF Bare
    <2>2. QED
      BY <1>1, <1>2, <2>1, SweepMoves
  <1>4. CASE \E listed \in SUBSET Expired("batch") :
               sweep' = [sweep EXCEPT !.step = "batchObjects", !.page = {b.id : b \in listed},
                                      !.keys = KeysOf(listed)]
    <2>1. PICK listed \in SUBSET Expired("batch") :
               sweep' = [sweep EXCEPT !.step = "batchObjects", !.page = {b.id : b \in listed},
                                      !.keys = KeysOf(listed)]
      BY <1>4
    <2>2. listed \subseteq rows
      BY DEF Expired
    <2>3. PICK P, K : P = {b.id : b \in listed} /\ K = KeysOf(listed)
      OBVIOUS
    <2>4. P \subseteq Ids /\ \A id \in P : \E r \in rows : r.id = id
      BY <2>2, <2>3, Typed DEF IndInv
    <2>5. K \subseteq Object /\ K \subseteq objects /\ \A x \in objects : x.id \in P => x \in K
      BY <2>3 DEF KeysOf, IndInv, TypeOK
    <2>6. \A x \in K : x.kind = "input"
      <3>1. \A x \in K : x \in objects /\ \E r \in rows : r.id = x.id
        BY <2>2, <2>3 DEF KeysOf
      <3>2. QED
        BY <3>1 DEF IndInv, RowObjectsOK
    <2>7. sweep \in Sweep
      BY DEF IndInv, TypeOK
    <2>8. /\ sweep' \in Sweep /\ sweep'.step = "batchObjects" /\ sweep'.page = P /\ sweep'.keys = K
          /\ sweep'.now = sweep.now /\ sweep'.due = sweep.due /\ sweep'.current = sweep.current
      BY <2>1, <2>3, <2>4, <2>5, <2>7 DEF Sweep, Steps
    <2>9. DueOK'
      BY <1>1, <2>8 DEF IndInv, DueOK
    <2>10. KeysOK'
      BY <1>1, <2>5, <2>6, <2>8 DEF KeysOK, At
    <2>11. QED
      BY <1>1, <1>2, <2>4, <2>8, <2>9, <2>10, SweepMoves
  <1>5. QED
    BY <1>3, <1>4 DEF listExpiredBatches

LEMMA deleteObjectsOK ==
    IndInv /\ (deleteBatchObjects \/ deleteOrgObjects \/ deleteExportObjects) => IndInv'
  <1> SUFFICES ASSUME IndInv,
                      NEW step, NEW next, deleteObjects(step, next),
                      <<step, next>> \in {<<"batchObjects", "batchRows">>, <<"orgObjects", "relist">>,
                                          <<"exportObjects", "ledger">>}
               PROVE  IndInv'
    BY DEF deleteBatchObjects, deleteOrgObjects, deleteExportObjects
  <1>1. /\ At(step) /\ objects' = objects \ sweep.keys
        /\ UNCHANGED <<clock, org, ledger, used, rows, links, calls, faults>>
    BY DEF deleteObjects, books
  <1>2. faults' \in 0 .. MaxFaults
    BY <1>1 DEF IndInv, TypeOK
  <1>3. sweep \in Sweep
    BY DEF IndInv, TypeOK
  <1>4. /\ step \in {"batchObjects", "orgObjects", "exportObjects"} /\ next \in Steps
        /\ next \in {"batchRows", "relist", "ledger"} /\ (next = "batchRows" => step = "batchObjects")
    BY DEF Steps
  <1>5. /\ sweep' \in Sweep /\ sweep'.step = next /\ sweep'.page = sweep.page /\ sweep'.keys = {}
        /\ sweep'.now = sweep.now /\ sweep'.due = sweep.due /\ sweep'.current = sweep.current
    BY <1>3, <1>4 DEF deleteObjects, Sweep
  <1>6. DueOK'
    BY <1>1, <1>5 DEF IndInv, DueOK
  <1>7. KeysOK'
    <2>1. next = "batchRows" => \A x \in objects' : x.id \notin sweep.page
      BY <1>1, <1>4 DEF IndInv, KeysOK, At
    <2>2. QED
      BY <1>4, <1>5, <2>1 DEF KeysOK, At
  <1>8. At("batchObjects") \/ At("orgObjects") \/ At("exportObjects")
    BY <1>1, <1>4 DEF At
  <1>9. QED
    BY <1>1, <1>2, <1>5, <1>6, <1>7, <1>8, ObjectsGo

LEMMA deleteBatchesByIdsOK == IndInv /\ deleteBatchesByIds => IndInv'
  <1> SUFFICES ASSUME IndInv, deleteBatchesByIds PROVE IndInv'
    OBVIOUS
  <1>1. /\ At("batchRows") /\ rows' = {r \in rows : r.id \notin sweep.page}
        /\ UNCHANGED <<clock, org, ledger, used, objects, links, calls, faults>>
    BY DEF deleteBatchesByIds, books
  <1>2. sweep \in Sweep
    BY DEF IndInv, TypeOK
  <1>3. /\ sweep' \in Sweep /\ sweep'.step = "batches" /\ sweep'.page = {}
        /\ sweep'.now = sweep.now /\ sweep'.due = sweep.due /\ sweep'.current = sweep.current
    BY <1>2 DEF deleteBatchesByIds, Sweep, Steps
  <1>4. DueOK'
    BY <1>1, <1>3 DEF IndInv, DueOK
  <1>5. KeysOK'
    BY <1>3 DEF KeysOK, At
  <1>6. RowsFrom /\ rows' \subseteq Row
    BY <1>1 DEF RowsFrom, IndInv, TypeOK
  <1>7. TracksOK'
    <2>1. \A x \in objects : x.id \notin sweep.page
      BY <1>1 DEF IndInv, KeysOK
    <2>2. QED
      BY <1>1, <2>1 DEF IndInv, TracksOK, Active
  <1>8. QED
    BY <1>1, <1>3, <1>4, <1>5, <1>6, <1>7, RowsGo

LEMMA WithDueTyped ==
    ASSUME IndInv, NEW due, due \subseteq Orgs, sweep' = WithDue(due)
    PROVE  /\ sweep' \in Sweep /\ sweep'.step \in {"leads", "nextOrg"} /\ sweep'.page = sweep.page
           /\ sweep'.now = sweep.now /\ sweep'.due = due /\ sweep'.current = {}
  <1>1. sweep \in Sweep
    BY DEF IndInv, TypeOK
  <1>2. QED
    BY <1>1 DEF WithDue, Sweep, Steps

LEMMA listOrganizationsDueForPurgeOK == IndInv /\ listOrganizationsDueForPurge => IndInv'
  <1> SUFFICES ASSUME IndInv, listOrganizationsDueForPurge PROVE IndInv'
    OBVIOUS
  <1>1. UNCHANGED <<clock, org, ledger, used, rows, objects, links, calls, faults>>
    BY DEF listOrganizationsDueForPurge, books
  <1>2. faults' \in 0 .. MaxFaults
    BY <1>1 DEF IndInv, TypeOK
  <1>3. PICK due : due = {o \in Orgs : org[o].state = "deleted" /\ org[o].deletedAt <= sweep.now - Grace}
    OBVIOUS
  <1>4. sweep' = WithDue(due) /\ due \subseteq Orgs
    BY <1>3 DEF listOrganizationsDueForPurge
  <1>5. /\ sweep' \in Sweep /\ sweep'.step \in {"leads", "nextOrg"} /\ sweep'.page = sweep.page
        /\ sweep'.now = sweep.now /\ sweep'.due = due /\ sweep'.current = {}
    BY <1>4, WithDueTyped
  <1>6. \A o \in due : org[o].state = "deleted" /\ org[o].deletedAt + Grace <= sweep.now
    BY <1>3, Typed, Durations DEF IndInv
  <1>7. DueOK'
    BY <1>1, <1>5, <1>6 DEF IndInv, DueOK
  <1>8. KeysOK'
    BY <1>5 DEF KeysOK, At
  <1>9. QED
    BY <1>1, <1>2, <1>5, <1>7, <1>8, SweepMoves

LEMMA listKeysOK == IndInv /\ (\E o \in Orgs : listKeys(o)) => IndInv'
  <1> SUFFICES ASSUME IndInv, NEW o \in Orgs, listKeys(o) PROVE IndInv'
    OBVIOUS
  <1>1. o \in sweep.due /\ UNCHANGED <<clock, org, ledger, used, rows, objects, links, calls, faults>>
    BY DEF listKeys, books
  <1>2. sweep \in Sweep /\ faults' \in 0 .. MaxFaults
    BY <1>1 DEF IndInv, TypeOK
  <1>3. PICK K : K = UnderPrefix(o)
    OBVIOUS
  <1>4. K \subseteq Object /\ \A x \in K : x.org = o
    BY <1>3 DEF UnderPrefix, IndInv, TypeOK
  <1>5. /\ sweep' \in Sweep /\ sweep'.step \in {"relist", "orgObjects"} /\ sweep'.page = sweep.page
        /\ sweep'.keys = K /\ sweep'.now = sweep.now /\ sweep'.due = sweep.due \ {o}
        /\ sweep'.current = {o}
    BY <1>2, <1>3, <1>4 DEF listKeys, Sweep, Steps
  <1>6. DueOK'
    BY <1>1, <1>5 DEF IndInv, DueOK
  <1>7. KeysOK'
    BY <1>4, <1>5 DEF KeysOK, At
  <1>8. QED
    BY <1>1, <1>2, <1>5, <1>6, <1>7, SweepMoves

LEMMA relistKeysOK == IndInv /\ (\E o \in Orgs : relistKeys(o)) => IndInv'
  <1> SUFFICES ASSUME IndInv, NEW o \in Orgs, relistKeys(o) PROVE IndInv'
    OBVIOUS
  <1>1. o \in sweep.current /\ UNCHANGED <<clock, org, ledger, used, rows, objects, links, calls, faults>>
    BY DEF relistKeys, books
  <1>2. sweep \in Sweep /\ faults' \in 0 .. MaxFaults
    BY <1>1 DEF IndInv, TypeOK
  <1>3. CASE sweep' = Idle
    <2>1. DueOK' /\ KeysOK'
      BY <1>1, <1>3, IdleFrame
    <2>2. QED
      BY <1>1, <1>2, <1>3, <2>1, IdleOK, SweepMoves
  <1>4. CASE UnderPrefix(o) = {} /\ sweep' = [sweep EXCEPT !.step = "purge"]
    <2>1. /\ sweep' \in Sweep /\ sweep'.step = "purge" /\ sweep'.page = sweep.page
          /\ sweep'.now = sweep.now /\ sweep'.due = sweep.due /\ sweep'.current = sweep.current
      BY <1>2, <1>4 DEF Sweep, Steps
    <2>2. DueOK'
      BY <1>1, <2>1 DEF IndInv, DueOK
    <2>3. sweep.current = {o}
      BY <1>1 DEF IndInv, DueOK
    <2>4. KeysOK'
      BY <1>1, <1>4, <2>1, <2>3 DEF KeysOK, At, UnderPrefix
    <2>5. QED
      BY <1>1, <1>2, <2>1, <2>2, <2>4, SweepMoves
  <1>5. QED
    BY <1>3, <1>4 DEF relistKeys

LEMMA hardDeleteOrganizationDataOK == IndInv /\ (\E o \in Orgs : hardDeleteOrganizationData(o)) => IndInv'
  <1> SUFFICES ASSUME IndInv, NEW o \in Orgs, hardDeleteOrganizationData(o) PROVE IndInv'
    OBVIOUS
  <1>1. /\ At("purge") /\ o \in sweep.current /\ rows' = {r \in rows : r.org # o}
        /\ org' = [org EXCEPT ![o].state = "purged"] /\ sweep' = WithDue(sweep.due)
        /\ UNCHANGED <<clock, ledger, used, objects, links, calls, faults>>
    BY DEF hardDeleteOrganizationData
  <1>2. org \in [Orgs -> OrgRow] /\ sweep.due \subseteq Orgs
    BY Typed DEF IndInv, TypeOK, BooksTypeOK
  <1>3. /\ org' \in [Orgs -> OrgRow] /\ org'[o].state = "purged"
        /\ \A p \in Orgs : p # o => org'[p] = org[p]
    BY <1>1, <1>2 DEF OrgRow
  <1>4. /\ sweep' \in Sweep /\ sweep'.step \in {"leads", "nextOrg"} /\ sweep'.page = sweep.page
        /\ sweep'.now = sweep.now /\ sweep'.due = sweep.due /\ sweep'.current = {}
    BY <1>1, <1>2, WithDueTyped
  <1>5. o \notin sweep.due
    BY <1>1 DEF IndInv, DueOK
  <1>6. \A x \in objects : x.org # o /\ x.org \in Orgs
    BY <1>1, Typed DEF IndInv, KeysOK
  <1>7. \A c \in calls : c.org # o /\ c.org \in Orgs
    BY <1>1, NoCallsDue, Typed DEF IndInv
  <1>8. RowsFrom
    BY <1>1 DEF RowsFrom
  <1>9. /\ GrantsAreNamed' /\ GrantedOnce'
        /\ IdsOK' /\ CallIdsOK' /\ RowObjectsOK' /\ ExportsOK'
    BY <1>1, <1>4, <1>8, Shrink
  <1>10. TypeOK'
    BY <1>1, <1>3, <1>4 DEF IndInv, TypeOK, BooksTypeOK
  <1>11. CallTimesOK'
    BY <1>1, <1>3, <1>7 DEF IndInv, CallTimesOK, Active
  <1>12. DueOK'
    BY <1>1, <1>2, <1>3, <1>4, <1>5 DEF IndInv, DueOK
  <1>13. KeysOK'
    BY <1>4 DEF KeysOK, At
  <1>14. TracksOK'
    BY <1>1, <1>3, <1>6 DEF IndInv, TracksOK, Active
  <1>15. LinksOK'
    BY <1>1, <1>3, <1>6 DEF IndInv, LinksOK, Backs, Active
  <1>16. PurgedIsEmpty'
    BY <1>1, <1>3, <1>6 DEF IndInv, PurgedIsEmpty, UnderPrefix
  <1>17. QED
    BY <1>9, <1>10, <1>11, <1>12, <1>13, <1>14, <1>15, <1>16 DEF IndInv

LEMMA listStaleExportsOK == IndInv /\ listStaleExports => IndInv'
  <1> SUFFICES ASSUME IndInv, listStaleExports PROVE IndInv'
    OBVIOUS
  <1>1. UNCHANGED <<clock, org, ledger, used, rows, objects, links, calls, faults>>
    BY DEF listStaleExports, books
  <1>2. sweep \in Sweep /\ faults' \in 0 .. MaxFaults
    BY <1>1 DEF IndInv, TypeOK
  <1>3. PICK K : K = {x \in objects : Stale(x)}
    OBVIOUS
  <1>4. K \subseteq Object /\ \A x \in K : x.kind = "export" /\ x.at + LinkTtl < sweep.now
    <2>1. \A x \in K : x \in objects /\ x.kind = "export" /\ sweep.now - x.at > LinkTtl
      BY <1>3 DEF Stale
    <2>2. QED
      BY <2>1, Typed, Durations DEF IndInv, TypeOK
  <1>5. /\ sweep' \in Sweep /\ sweep'.step \in {"ledger", "exportObjects"} /\ sweep'.page = sweep.page
        /\ sweep'.keys = K /\ sweep'.now = sweep.now /\ sweep'.due = sweep.due
        /\ sweep'.current = sweep.current
    BY <1>2, <1>3, <1>4 DEF listStaleExports, Sweep, Steps
  <1>6. DueOK'
    BY <1>1, <1>5 DEF IndInv, DueOK
  <1>7. KeysOK'
    BY <1>4, <1>5 DEF KeysOK, At
  <1>8. QED
    BY <1>1, <1>2, <1>5, <1>6, <1>7, SweepMoves

LEMMA purgeLedgerOK == IndInv /\ purgeLedger => IndInv'
  <1> SUFFICES ASSUME IndInv, purgeLedger PROVE IndInv'
    OBVIOUS
  <1>1. UNCHANGED <<clock, org, used, rows, objects, links, calls, faults>>
    BY DEF purgeLedger
  <1>2. ledger' \subseteq ledger
    BY DEF purgeLedger
  <1>3. sweep' \in Sweep /\ DueOK' /\ KeysOK' /\ (sweep'.page = {} \/ sweep'.page = sweep.page)
    <2>1. CASE sweep' = Idle
      BY <1>1, <2>1, IdleOK, IdleFrame
    <2>2. CASE Goto("retire")
      BY <1>1, <2>2, GotoFrame DEF Bare
    <2>3. QED
      BY <2>1, <2>2 DEF purgeLedger
  <1>4. RowsFrom /\ BatchesKept
    BY <1>1 DEF RowsFrom, BatchesKept
  <1>5. /\ GrantsAreNamed' /\ GrantedOnce'
        /\ IdsOK' /\ CallIdsOK' /\ RowObjectsOK' /\ ExportsOK'
    BY <1>1, <1>2, <1>3, <1>4, Shrink
  <1>6. TypeOK'
    BY <1>1, <1>2, <1>3 DEF IndInv, TypeOK, BooksTypeOK
  <1>7. CallTimesOK' /\ TracksOK' /\ LinksOK' /\ PurgedIsEmpty'
    BY <1>1, <1>4, CallTimesFrame, TracksFrame, LinksFrame, PurgedFrame
  <1>8. QED
    BY <1>3, <1>5, <1>6, <1>7 DEF IndInv

LEMMA deleteRetiredOrganizationsOK == IndInv /\ deleteRetiredOrganizations => IndInv'
  <1> SUFFICES ASSUME IndInv, deleteRetiredOrganizations PROVE IndInv'
    OBVIOUS
  <1>1. /\ sweep' = Idle
        /\ UNCHANGED <<clock, ledger, used, rows, objects, links, calls, faults>>
    BY DEF deleteRetiredOrganizations
  <1>2. org \in [Orgs -> OrgRow]
    BY DEF IndInv, TypeOK, BooksTypeOK
  <1>3. /\ DOMAIN org' = Orgs
        /\ \A o \in Orgs : \/ org'[o] = org[o]
                           \/ org[o].state = "purged" /\ org'[o] = [org[o] EXCEPT !.state = "removed"]
    BY DEF deleteRetiredOrganizations
  <1>4. \A o \in Orgs : /\ org'[o] \in OrgRow
                        /\ \/ org'[o] = org[o]
                           \/ org[o].state = "purged" /\ org'[o].state = "removed"
    BY <1>2, <1>3 DEF OrgRow
  <1>5. org' \in [Orgs -> OrgRow]
    BY <1>4 DEF deleteRetiredOrganizations
  <1>6. RowsFrom /\ DueOK' /\ KeysOK'
    BY <1>1, IdleFrame DEF RowsFrom
  <1>7. /\ GrantsAreNamed' /\ GrantedOnce'
        /\ IdsOK' /\ CallIdsOK' /\ RowObjectsOK' /\ ExportsOK'
    BY <1>1, <1>6, IdleOK, Shrink
  <1>8. TypeOK'
    BY <1>1, <1>5, IdleOK DEF IndInv, TypeOK, BooksTypeOK
  <1>9. (\A c \in calls : c.org \in Orgs) /\ (\A x \in objects : x.org \in Orgs)
    BY Typed DEF IndInv
  <1>10. CallTimesOK'
    BY <1>1, <1>4, <1>9 DEF IndInv, CallTimesOK, Active
  <1>11. TracksOK'
    BY <1>1, <1>4, <1>9 DEF IndInv, TracksOK, Active
  <1>12. LinksOK'
    BY <1>1, <1>4, <1>9 DEF IndInv, LinksOK, Backs, Active
  <1>13. PurgedIsEmpty'
    BY <1>1, <1>4 DEF IndInv, PurgedIsEmpty, UnderPrefix
  <1>14. QED
    BY <1>6, <1>7, <1>8, <1>10, <1>11, <1>12, <1>13 DEF IndInv

LEMMA SweepFailsOK == IndInv /\ SweepFails => IndInv'
  <1> SUFFICES ASSUME IndInv, SweepFails PROVE IndInv'
    OBVIOUS
  <1>1. sweep' = Idle /\ UNCHANGED <<clock, org, ledger, used, rows, links, calls>>
    BY DEF SweepFails, books
  <1>2. faults' \in 0 .. MaxFaults
    BY Durations DEF SweepFails, IndInv, TypeOK
  <1>3. DueOK' /\ KeysOK' /\ sweep' \in Sweep /\ sweep'.page = {}
    BY <1>1, IdleFrame, IdleOK
  <1>4. CASE objects' = objects
    BY <1>1, <1>2, <1>3, <1>4, SweepMoves
  <1>5. CASE At("batchObjects") \/ At("orgObjects") \/ At("exportObjects")
    <2>1. objects' \subseteq objects /\ \A x \in objects : x \in objects' \/ x \in sweep.keys
      BY DEF SweepFails
    <2>2. QED
      BY <1>1, <1>2, <1>3, <1>5, <2>1, ObjectsGo
  <1>6. QED
    BY <1>4, <1>5 DEF SweepFails

LEMMA TickOK == IndInv /\ Tick => IndInv'
  <1> SUFFICES ASSUME IndInv, Tick PROVE IndInv'
    OBVIOUS
  <1>1. /\ clock < Horizon /\ clock' = clock + 1 /\ \A call \in calls : clock < call.at + MaxCall
        /\ UNCHANGED <<org, ledger, used, rows, objects, links, calls, sweep, faults>>
    BY DEF Tick
  <1>2. RowsFrom /\ BatchesKept
    BY <1>1 DEF RowsFrom, BatchesKept
  <1>3. /\ GrantsAreNamed' /\ GrantedOnce'
        /\ IdsOK' /\ CallIdsOK' /\ RowObjectsOK' /\ ExportsOK'
    BY <1>1, <1>2, Shrink
  <1>4. clock \in Times /\ clock \in Nat
    BY Typed DEF IndInv, TypeOK, BooksTypeOK
  <1>5. clock' \in Times
    BY <1>1, <1>4, TimesAreNaturals
  <1>6. TypeOK'
    BY <1>1, <1>5 DEF IndInv, TypeOK, BooksTypeOK
  <1>7. KeysOK' /\ TracksOK' /\ PurgedIsEmpty'
    BY <1>1, <1>2, KeysFrame, TracksFrame, PurgedFrame
  <1>8. CallTimesOK'
    <2>1. \A c \in calls : c.at <= clock + 1 /\ clock + 1 <= c.at + MaxCall
      <3>1. \A c \in calls : c.at \in Nat /\ c.at <= clock /\ clock < c.at + MaxCall
        BY <1>1, Typed DEF IndInv, CallTimesOK
      <3>2. QED
        BY <1>4, <3>1, Durations
    <2>2. QED
      BY <1>1, <2>1 DEF IndInv, CallTimesOK, Active
  <1>9. DueOK'
    <2>1. sweep.now <= clock + 1
      BY <1>4, Typed DEF IndInv, DueOK
    <2>2. QED
      BY <1>1, <2>1 DEF IndInv, DueOK
  <1>10. LinksOK'
    <2>1. SUFFICES ASSUME NEW l \in links, clock + 1 <= l.until
                   PROVE  \E x \in objects : Backs(x, l)'
      BY <1>1 DEF LinksOK
    <2>2. clock <= l.until /\ l.until \in Nat
      BY <1>4, <2>1, Typed DEF IndInv
    <2>3. PICK x \in objects : Backs(x, l)
      BY <2>2 DEF IndInv, LinksOK
    <2>4. l.until < clock + Grace => l.until < clock' + Grace
      BY <1>1, <1>4, <2>2, Durations
    <2>5. Backs(x, l)'
      BY <1>1, <2>3, <2>4 DEF Backs, Active
    <2>6. QED
      BY <2>5
  <1>11. QED
    BY <1>3, <1>6, <1>7, <1>8, <1>9, <1>10 DEF IndInv

-----------------------------------------------------------------------------
(* The product, and the calls that end                                     *)

\* Rows and entries may join under other identifiers than those an archive is
\* about.
LEMMA SelectedThere ==
    ASSUME NEW o, NEW category \in 1 .. 3, NEW id \in Exported(o, category)',
           \A r \in rows' : r.id = id => \E q \in rows : q.id = r.id /\ q.org = r.org /\ q.kind = r.kind,
           \A e \in ledger' : e.id = id => e \in ledger
    PROVE  id \in Exported(o, category)
  <1>1. (id \in Exported(o, 1))' <=> \E r \in rows' : r.org = o /\ r.kind = "check" /\ r.id = id
    BY DEF Exported, Categories, EntriesOf
  <1>2. (id \in Exported(o, 2))' <=> \E r \in rows' : r.org = o /\ r.kind = "batch" /\ r.id = id
    BY DEF Exported, Categories, EntriesOf
  <1>3. (id \in Exported(o, 3))' <=> \E e \in ledger' : e.org = o /\ e.id = id
    BY DEF Exported, Categories, EntriesOf
  <1>4. category = 1 \/ category = 2 \/ category = 3
    OBVIOUS
  <1>5. QED
    BY <1>1, <1>2, <1>3, <1>4, Selected

LEMMA ExportsGrow ==
    ASSUME IndInv, calls' \subseteq calls,
           \A call \in calls' : \A id \in call.there :
             /\ \A r \in rows' : r.id = id => \E q \in rows : q.id = r.id /\ q.org = r.org /\ q.kind = r.kind
             /\ \A e \in ledger' : e.id = id => e \in ledger
    PROVE  ExportsOK'
  <1>1. SUFFICES ASSUME NEW call \in calls', call.kind = "export", NEW category \in 1 .. 3,
                        NEW id \in call.there, id \in Exported(call.org, category)'
                 PROVE  id \in call.copied \/ Ahead(call, category, id)
    BY DEF ExportsOK, Ahead
  <1>2. PICK o : o = call.org
    OBVIOUS
  <1>3. id \in Exported(o, category)'
    BY <1>1, <1>2
  <1>4. id \in Exported(o, category)
    BY <1>3, SelectedThere
  <1>5. QED
    BY <1>1, <1>2, <1>4 DEF IndInv, ExportsOK

LEMMA InsertOK ==
    ASSUME IndInv, NEW id \in Fresh, NEW kind \in {"check", "invoice", "lead"}, NEW o, NEW expires \in Nat,
           o = NoOrg \/ (o \in Orgs /\ Active(o)), Insert(id, kind, o, expires)
    PROVE  IndInv'
  <1>0. id \in Ids /\ id \notin used
    BY FreshIsNew
  <1>1. PICK row : row = NewRow(id, kind, o, expires)
    OBVIOUS
  <1>2. row \in Row /\ row.id = id /\ row.kind = kind /\ row.org = o
    BY <1>0, <1>1 DEF NewRow, Row
  <1>3. /\ rows' = rows \cup {row} /\ used' = used \cup {id}
        /\ UNCHANGED <<clock, org, ledger, objects, links, calls, sweep, faults>>
    BY <1>1 DEF Insert
  <1>4. TypeOK'
    BY <1>0, <1>2, <1>3 DEF IndInv, TypeOK, BooksTypeOK
  <1>5. GrantsAreNamed' /\ GrantedOnce'
    BY <1>3 DEF IndInv, GrantsAreNamed, GrantedOnce
  <1>6. IdsOK'
    BY <1>2, <1>3 DEF IndInv, IdsOK
  <1>7. CallIdsOK'
    BY <1>0, <1>2, <1>3 DEF IndInv, IdsOK, CallIdsOK
  <1>8. RowObjectsOK'
    BY <1>0, <1>2, <1>3 DEF IndInv, IdsOK, RowObjectsOK
  <1>9. ExportsOK'
    BY <1>0, <1>2, <1>3, ExportsGrow DEF IndInv, IdsOK
  <1>10. CallTimesOK' /\ DueOK' /\ KeysOK' /\ LinksOK'
    BY <1>3, CallTimesFrame, DueFrame, KeysFrame, LinksFrame
  <1>11. TracksOK'
    BY <1>3, TracksFrame DEF BatchesKept
  <1>12. PurgedIsEmpty'
    BY <1>2, <1>3, RetentionAssumption DEF IndInv, PurgedIsEmpty, UnderPrefix, Active, NoOrg
  <1>13. QED
    BY <1>4, <1>5, <1>6, <1>7, <1>8, <1>9, <1>10, <1>11, <1>12 DEF IndInv

LEMMA InsertionsOK ==
    ASSUME IndInv, NEW id \in Fresh,
           \/ \E o \in Orgs : CreateCheck(o, id) \/ postInvoiceRequest(o, id)
           \/ SubmitLead(id)
    PROVE  IndInv'
  <1>1. ASSUME NEW o \in Orgs, CreateCheck(o, id)
        PROVE  IndInv'
    <2>1. clock + org[o].retention \in Nat
      BY Typed DEF IndInv
    <2>2. QED
      BY <1>1, <2>1, InsertOK DEF CreateCheck
  <1>2. ASSUME NEW o \in Orgs, postInvoiceRequest(o, id)
        PROVE  IndInv'
    BY <1>2, TimesAreNaturals, InsertOK DEF postInvoiceRequest, requireSession, createInvoiceRequest
  <1>3. CASE SubmitLead(id)
    <2>1. clock + LeadRetention \in Nat
      BY Typed, Durations DEF IndInv
    <2>2. QED
      BY <1>3, <2>1, InsertOK DEF SubmitLead
  <1>4. QED
    BY <1>1, <1>2, <1>3

LEMMA EraseLeadOK == IndInv /\ (\E row \in rows : EraseLead(row)) => IndInv'
  <1> SUFFICES ASSUME IndInv, NEW row \in rows, EraseLead(row) PROVE IndInv'
    OBVIOUS
  <1>1. PICK erased : erased = [row EXCEPT !.erased = TRUE]
    OBVIOUS
  <1>2. row.kind = "lead" /\ row \in Row
    BY DEF EraseLead, IndInv, TypeOK
  <1>3. erased \in Row /\ erased.id = row.id /\ erased.kind = row.kind /\ erased.org = row.org
    BY <1>1, <1>2 DEF Row
  <1>4. /\ rows' = (rows \ {row}) \cup {erased}
        /\ UNCHANGED <<clock, org, ledger, used, objects, links, calls, sweep, faults>>
    BY <1>1 DEF EraseLead, books
  <1>5. RowsFrom /\ rows' \subseteq Row /\ BatchesKept
    BY <1>2, <1>3, <1>4 DEF RowsFrom, BatchesKept, IndInv, TypeOK
  <1>6. sweep' \in Sweep /\ DueOK' /\ KeysOK' /\ TracksOK'
    BY <1>4, <1>5, DueFrame, KeysFrame, TracksFrame DEF IndInv, TypeOK
  <1>7. QED
    BY <1>4, <1>5, <1>6, RowsGo

\* A step that changes an organisation's row only, and neither revives it nor
\* purges it.
LEMMA OrgChanges ==
    ASSUME IndInv, NEW o \in Orgs, Active(o), NEW row \in OrgRow, org' = [org EXCEPT ![o] = row],
           row.state = "active" \/ (row.state = "deleted" /\ row.deletedAt = clock),
           UNCHANGED <<clock, ledger, used, rows, objects, links, calls, sweep, faults>>
    PROVE  IndInv'
  <1>1. org \in [Orgs -> OrgRow]
    BY DEF IndInv, TypeOK, BooksTypeOK
  <1>2. org' \in [Orgs -> OrgRow] /\ org'[o] = row /\ \A p \in Orgs : p # o => org'[p] = org[p]
    BY <1>1
  <1>3. RowsFrom
    BY DEF RowsFrom
  <1>4. /\ GrantsAreNamed' /\ GrantedOnce'
        /\ IdsOK' /\ CallIdsOK' /\ RowObjectsOK' /\ ExportsOK'
    BY <1>3, Shrink
  <1>5. TypeOK'
    BY <1>2 DEF IndInv, TypeOK, BooksTypeOK
  <1>6. (\A c \in calls : c.org \in Orgs) /\ (\A x \in objects : x.org \in Orgs)
    BY Typed DEF IndInv
  <1>7. CallTimesOK'
    BY <1>2, <1>6 DEF IndInv, CallTimesOK, Active
  <1>8. DueOK'
    <2>1. \A p \in sweep.due \cup sweep.current : p \in Orgs /\ p # o
      BY Typed DEF IndInv, DueOK, Active
    <2>2. QED
      BY <1>2, <2>1 DEF IndInv, DueOK
  <1>9. KeysOK'
    BY KeysFrame
  <1>10. TracksOK'
    BY <1>2, <1>6 DEF IndInv, TracksOK, Active
  <1>11. LinksOK'
    BY <1>2, <1>6 DEF IndInv, LinksOK, Backs, Active
  <1>12. PurgedIsEmpty'
    BY <1>2 DEF IndInv, PurgedIsEmpty, UnderPrefix
  <1>13. QED
    BY <1>4, <1>5, <1>7, <1>8, <1>9, <1>10, <1>11, <1>12 DEF IndInv

LEMMA OrgActionsOK == IndInv /\ (\E o \in Orgs : postSettings(o) \/ deleteOrganization(o)) => IndInv'
  <1> SUFFICES ASSUME IndInv, NEW o \in Orgs, postSettings(o) \/ deleteOrganization(o) PROVE IndInv'
    OBVIOUS
  <1>0. org \in [Orgs -> OrgRow] /\ org[o] \in OrgRow /\ clock \in Times
    BY DEF IndInv, TypeOK, BooksTypeOK
  <1>1. CASE postSettings(o)
    <2>1. PICK days \in Retentions : updateOrgSettings(o, days)
      BY <1>1 DEF postSettings
    <2>2. PICK row : row = [org[o] EXCEPT !.retention = days]
      OBVIOUS
    <2>3. Active(o) /\ row \in OrgRow /\ row.state = "active"
      BY <1>0, <2>1, <2>2, Durations DEF updateOrgSettings, OrgRow, Active
    <2>4. /\ org' = [org EXCEPT ![o] = row]
          /\ UNCHANGED <<clock, ledger, used, rows, objects, links, calls, sweep, faults>>
      BY <1>0, <2>1, <2>2 DEF updateOrgSettings
    <2>5. QED
      BY <2>3, <2>4, OrgChanges
  <1>2. CASE deleteOrganization(o)
    <2>1. PICK row : row = [org[o] EXCEPT !.state = "deleted", !.deletedAt = clock]
      OBVIOUS
    <2>2. row \in OrgRow /\ row.state = "deleted" /\ row.deletedAt = clock
      BY <1>0, <2>1 DEF OrgRow
    <2>3. /\ Active(o) /\ org' = [org EXCEPT ![o] = row]
          /\ UNCHANGED <<clock, ledger, used, rows, objects, links, calls, sweep, faults>>
      BY <1>2, <2>1 DEF deleteOrganization, softDeleteOrganization
    <2>4. QED
      BY <2>2, <2>3, OrgChanges
  <1>3. QED
    BY <1>1, <1>2

LEMMA GrantOK == IndInv /\ (\E o \in Orgs, id \in Fresh : Grant(o, id)) => IndInv'
  <1> SUFFICES ASSUME IndInv, NEW o \in Orgs, NEW id \in Fresh, Grant(o, id) PROVE IndInv'
    OBVIOUS
  <1>0. id \in Ids /\ id \notin used
    BY FreshIsNew
  <1>1. BooksInv
    BY DEF IndInv, TypeOK, BooksInv
  <1>2. /\ BooksInv' /\ UNCHANGED <<clock, org>> /\ used' = used \cup {id}
        /\ \E e \in Entry : e.id = id /\ e.org = o /\ ledger' = ledger \cup {e}
    BY <1>0, <1>1, GrantBooked DEF Grant
  <1>3. PICK e \in Entry : e.id = id /\ ledger' = ledger \cup {e}
    BY <1>2
  <1>4. UNCHANGED <<rows, objects, links, calls, sweep, faults>>
    BY DEF Grant
  <1>5. TypeOK' /\ GrantsAreNamed' /\ GrantedOnce'
    BY <1>2, <1>4 DEF IndInv, TypeOK, BooksInv
  <1>6. IdsOK'
    BY <1>2, <1>3, <1>4 DEF IndInv, IdsOK
  <1>7. CallIdsOK'
    BY <1>0, <1>3, <1>4 DEF IndInv, IdsOK, CallIdsOK
  <1>8. RowObjectsOK'
    BY <1>4 DEF IndInv, RowObjectsOK
  <1>9. ExportsOK'
    BY <1>0, <1>3, <1>4, ExportsGrow DEF IndInv, IdsOK
  <1>10. RowsFrom /\ BatchesKept
    BY <1>4 DEF RowsFrom, BatchesKept
  <1>11. CallTimesOK' /\ DueOK' /\ KeysOK' /\ TracksOK' /\ LinksOK' /\ PurgedIsEmpty'
    BY <1>2, <1>4, <1>10, CallTimesFrame, DueFrame, KeysFrame, TracksFrame, LinksFrame, PurgedFrame
  <1>12. QED
    BY <1>5, <1>6, <1>7, <1>8, <1>9, <1>11 DEF IndInv

\* What the pagers select are identifiers in use.
LEMMA SelectedUsed ==
    ASSUME IndInv, NEW o, NEW category \in 1 .. 3
    PROVE  /\ Exported(o, category) \subseteq used /\ Exported(o, category) \subseteq Ids
           /\ \A c \in calls : c.id \notin Exported(o, category)
  <1>1. used \subseteq Ids
    BY DEF IndInv, TypeOK, BooksTypeOK
  <1>2. ASSUME NEW id \in Exported(o, category)
        PROVE  id \in used /\ \A c \in calls : c.id # id
    <2>1. category = 1 \/ category = 2 \/ category = 3
      OBVIOUS
    <2>2. (\E r \in rows : r.id = id) \/ (\E e \in ledger : e.id = id)
      BY <1>2, <2>1, Selected
    <2>3. QED
      BY <2>2 DEF IndInv, IdsOK, CallIdsOK
  <1>3. QED
    BY <1>1, <1>2

LEMMA PresentUsed ==
    ASSUME IndInv, NEW o
    PROVE  /\ Present(o) \subseteq used /\ Present(o) \subseteq Ids
           /\ \A c \in calls : c.id \notin Present(o)
  <1>1. DOMAIN Categories = 1 .. 3
    BY DEF Categories
  <1>2. \A id \in Present(o) : \E category \in 1 .. 3 : id \in Exported(o, category)
    BY <1>1 DEF Present
  <1>3. QED
    BY <1>2, SelectedUsed

LEMMA BeginCallOK ==
    ASSUME IndInv, NEW o \in Orgs, NEW id \in Fresh, NEW kind \in {"batch", "statement", "export"},
           BeginCall(kind, o, id)
    PROVE  IndInv'
  <1>0. id \in Ids /\ id \notin used /\ id # 0
    BY FreshIsNew, Constants
  <1>1. PICK P : P = IF kind = "export" THEN Present(o) ELSE {}
    OBVIOUS
  <1>2. P \subseteq used /\ P \subseteq Ids /\ \A c \in calls : c.id \notin P
    BY <1>1, PresentUsed
  <1>3. PICK new : new = NewCall(kind, o, id)
    OBVIOUS
  <1>4. clock \in Times /\ clock \in Nat
    BY Typed DEF IndInv, TypeOK, BooksTypeOK
  <1>5. /\ new.id = id /\ new.kind = kind /\ new.org = o /\ new.at = clock /\ new.after = 0
        /\ new.copied = {} /\ new.there = P /\ (kind = "export" => new.category = 1)
    BY <1>1, <1>3 DEF NewCall
  <1>6. new \in Call
    BY <1>0, <1>1, <1>2, <1>3, <1>4 DEF NewCall, Call
  <1>7. /\ Active(o) /\ calls' = calls \cup {new} /\ used' = used \cup {id}
        /\ UNCHANGED <<clock, org, ledger, rows, objects, links, sweep, faults>>
    BY <1>3 DEF BeginCall
  <1>8. TypeOK'
    BY <1>0, <1>6, <1>7 DEF IndInv, TypeOK, BooksTypeOK
  <1>9. GrantsAreNamed' /\ GrantedOnce' /\ RowObjectsOK'
    BY <1>7 DEF IndInv, GrantsAreNamed, GrantedOnce, RowObjectsOK
  <1>10. IdsOK'
    BY <1>2, <1>5, <1>7 DEF IndInv, IdsOK
  <1>11. CallIdsOK'
    <2>1. \A c \in calls : c.id # id /\ id \notin c.there
      BY <1>0 DEF IndInv, IdsOK
    <2>2. /\ id \notin sweep.page /\ (\A r \in rows : r.id # id) /\ (\A x \in objects : x.id # id)
          /\ \A e \in ledger : e.id # id
      BY <1>0 DEF IndInv, IdsOK
    <2>3. id \notin P
      BY <1>0, <1>2
    <2>4. QED
      BY <1>2, <1>5, <1>7, <2>1, <2>2, <2>3 DEF IndInv, CallIdsOK
  <1>12. CallTimesOK'
    <2>1. clock <= clock /\ clock <= clock + MaxCall
      BY <1>4, Durations
    <2>2. QED
      BY <1>5, <1>7, <2>1 DEF IndInv, CallTimesOK, Active
  <1>13. ExportsOK'
    <2>1. SUFFICES ASSUME NEW call \in calls', call.kind = "export", NEW category \in 1 .. 3,
                          NEW i \in call.there, i \in Exported(call.org, category)'
                   PROVE  i \in call.copied \/ Ahead(call, category, i)
      BY DEF ExportsOK, Ahead
    <2>0. PICK q : q = call.org
      OBVIOUS
    <2>a. i \in Exported(q, category)'
      BY <2>1, <2>0
    <2>2. i \in Exported(call.org, category)
      BY <1>7, <2>0, <2>a DEF Exported, EntriesOf
    <2>3. CASE call \in calls
      BY <2>1, <2>2, <2>3 DEF IndInv, ExportsOK
    <2>4. CASE call = new
      <3>0. i \in Ids
        BY <1>2, <1>5, <2>1, <2>4
      <3>1. i \in Nat /\ i > 0
        BY <3>0, Positive
      <3>2. call.category = 1 /\ call.after = 0
        BY <1>5, <2>1, <2>4
      <3>3. QED
        BY <3>1, <3>2 DEF Ahead
    <2>5. QED
      BY <1>7, <2>3, <2>4
  <1>14. RowsFrom /\ BatchesKept
    BY <1>7 DEF RowsFrom, BatchesKept
  <1>15. DueOK' /\ KeysOK' /\ TracksOK' /\ LinksOK' /\ PurgedIsEmpty'
    BY <1>7, <1>14, DueFrame, KeysFrame, TracksFrame, LinksFrame, PurgedFrame
  <1>16. QED
    BY <1>8, <1>9, <1>10, <1>11, <1>12, <1>13, <1>15 DEF IndInv

LEMMA postStatementLinkOK == IndInv /\ (\E object \in objects : postStatementLink(object)) => IndInv'
  <1> SUFFICES ASSUME IndInv, NEW object \in objects, postStatementLink(object) PROVE IndInv'
    OBVIOUS
  <1>1. PICK l : l = [id |-> object.id, until |-> clock + StatementTtl]
    OBVIOUS
  <1>2. /\ Active(object.org) /\ object.kind = "statement" /\ links' = links \cup {l}
        /\ UNCHANGED <<clock, org, ledger, used, rows, objects, calls, sweep, faults>>
    BY <1>1 DEF postStatementLink, requireSession, books
  <1>3. object.id \in Ids /\ clock \in Nat
    BY Typed DEF IndInv
  <1>4. l.id = object.id /\ l.until = clock + StatementTtl /\ l \in [id : Ids, until : Nat]
    BY <1>1, <1>3, Durations
  <1>5. RowsFrom /\ BatchesKept
    BY <1>2 DEF RowsFrom, BatchesKept
  <1>6. /\ GrantsAreNamed' /\ GrantedOnce'
        /\ IdsOK' /\ CallIdsOK' /\ RowObjectsOK' /\ ExportsOK'
    BY <1>2, <1>5, Shrink
  <1>7. TypeOK'
    BY <1>2, <1>4 DEF IndInv, TypeOK, BooksTypeOK
  <1>8. CallTimesOK' /\ DueOK' /\ KeysOK' /\ TracksOK' /\ PurgedIsEmpty'
    BY <1>2, <1>5, CallTimesFrame, DueFrame, KeysFrame, TracksFrame, PurgedFrame
  <1>9. LinksOK'
    <2>1. l.until < clock + Grace
      BY <1>3, <1>4, Durations
    <2>2. Backs(object, l)
      BY <1>2, <1>4, <2>1 DEF Backs
    <2>3. QED
      BY <1>2, <2>2 DEF IndInv, LinksOK, Backs, Active
  <1>10. QED
    BY <1>6, <1>7, <1>8, <1>9 DEF IndInv

\* A call that ends with an object in storage and, for a batch whose
\* organisation is active, with its row.
LEMMA StoreOK ==
    ASSUME IndInv, NEW call \in calls, NEW kind \in {"input", "export", "statement"},
           NEW added, added \subseteq Row,
           \A r \in added : r.id = call.id /\ r.org = call.org /\ r.kind = "batch" /\ kind = "input",
           added = {} \/ Active(call.org),
           kind = "input" /\ Active(call.org) => added # {},
           calls' = calls \ {call}, rows' = rows \cup added, uploadStream(call, kind),
           UNCHANGED <<clock, org, ledger, used, sweep>>,
           faults' \in 0 .. MaxFaults, links' \subseteq [id : Ids, until : Nat], LinksOK'
    PROVE  IndInv'
  <1>1. PICK x : x = NewObject(call, kind)
    OBVIOUS
  <1>2. call \in Call /\ call.id \in Ids /\ call.org \in Orgs /\ call.at \in Times
    BY DEF IndInv, TypeOK, Call
  <1>3. x \in Object /\ x.id = call.id /\ x.kind = kind /\ x.org = call.org
    BY <1>1, <1>2 DEF NewObject, Object
  <1>4. objects' = objects \cup {x}
    BY <1>1 DEF uploadStream
  <1>5. TypeOK'
    BY <1>3, <1>4 DEF IndInv, TypeOK, BooksTypeOK
  <1>6. GrantsAreNamed' /\ GrantedOnce'
    BY DEF IndInv, GrantsAreNamed, GrantedOnce
  <1>7. /\ call.id \in used /\ call.id \notin sweep.page
        /\ \A r \in rows : r.id # call.id
        /\ \A d \in calls : call.id \notin d.there /\ (d # call => d.id # call.id)
    BY DEF IndInv, IdsOK, CallIdsOK
  <1>8. IdsOK'
    BY <1>3, <1>4, <1>7 DEF IndInv, IdsOK
  <1>9. CallIdsOK'
    BY <1>3, <1>4, <1>7 DEF IndInv, CallIdsOK
  <1>10. RowObjectsOK'
    <2>1. \A y \in objects : y.id # call.id
      BY DEF IndInv, CallIdsOK
    <2>2. QED
      BY <1>3, <1>4, <1>7, <2>1 DEF IndInv, RowObjectsOK
  <1>11. ExportsOK'
    BY <1>7, ExportsGrow
  <1>12. CallTimesOK' /\ DueOK'
    BY CallTimesFrame, DueFrame
  <1>13. KeysOK'
    <2>1. x.org \notin sweep.current
      BY <1>3, NoCallsDue
    <2>2. QED
      BY <1>3, <1>4, <1>7, <2>1 DEF IndInv, KeysOK, At
  <1>14. TracksOK'
    <2>1. SUFFICES ASSUME NEW y \in objects', y.kind = "input", Active(y.org)
                   PROVE  \E r \in rows' : r.kind = "batch" /\ r.id = y.id /\ r.org = y.org
      BY DEF TracksOK, Active
    <2>2. CASE y \in objects
      BY <2>1, <2>2 DEF IndInv, TracksOK
    <2>3. CASE y = x
      BY <1>3, <2>1, <2>3
    <2>4. QED
      BY <1>4, <2>2, <2>3
  <1>15. PurgedIsEmpty'
    <2>1. org[call.org].state \in {"active", "deleted"}
      BY DEF IndInv, CallTimesOK, Active
    <2>2. QED
      BY <1>3, <1>4, <2>1 DEF IndInv, PurgedIsEmpty, UnderPrefix
  <1>16. QED
    BY <1>5, <1>6, <1>8, <1>9, <1>10, <1>11, <1>12, <1>13, <1>14, <1>15 DEF IndInv

LEMMA createBatchOK == IndInv /\ (\E call \in calls : createBatch(call)) => IndInv'
  <1> SUFFICES ASSUME IndInv, NEW call \in calls, createBatch(call) PROVE IndInv'
    OBVIOUS
  <1>1. /\ calls' = calls \ {call}
        /\ UNCHANGED <<clock, org, ledger, used, links, sweep, faults>>
    BY DEF createBatch, books
  <1>2. faults' \in 0 .. MaxFaults /\ links' \subseteq [id : Ids, until : Nat]
    BY <1>1 DEF IndInv, TypeOK
  <1>3. CASE Active(call.org)
    <2>1. PICK row : row = NewRow(call.id, "batch", call.org, clock + org[call.org].retention)
      OBVIOUS
    <2>2. call.id \in Ids /\ call.org \in Orgs /\ clock + org[call.org].retention \in Nat
      BY Typed DEF IndInv
    <2>3. row \in Row /\ row.id = call.id /\ row.org = call.org /\ row.kind = "batch"
      BY <2>1, <2>2 DEF NewRow, Row
    <2>4. uploadStream(call, "input") /\ rows' = rows \cup {row}
      BY <1>3, <2>1 DEF createBatch
    <2>5. objects \subseteq objects'
      BY <2>4 DEF uploadStream
    <2>6. LinksOK'
      BY <1>1, <2>5, LinksFrame
    <2>7. PICK added : added = {row}
      OBVIOUS
    <2>8. /\ added \subseteq Row /\ added # {} /\ rows' = rows \cup added
          /\ \A r \in added : r.id = call.id /\ r.org = call.org /\ r.kind = "batch" /\ "input" = "input"
      BY <2>3, <2>4, <2>7
    <2>9. QED
      BY <1>1, <1>2, <1>3, <2>4, <2>6, <2>8, StoreOK
  <1>4. CASE ~Active(call.org)
    <2>1. UNCHANGED <<objects, rows>>
      BY <1>4 DEF createBatch
    <2>2. RowsFrom /\ BatchesKept
      BY <2>1 DEF RowsFrom, BatchesKept
    <2>3. /\ GrantsAreNamed' /\ GrantedOnce'
          /\ IdsOK' /\ CallIdsOK' /\ RowObjectsOK' /\ ExportsOK'
      BY <1>1, <2>1, <2>2, Shrink
    <2>4. TypeOK'
      BY <1>1, <2>1 DEF IndInv, TypeOK, BooksTypeOK
    <2>5. CallTimesOK' /\ DueOK' /\ KeysOK' /\ TracksOK' /\ LinksOK' /\ PurgedIsEmpty'
      BY <1>1, <2>1, <2>2, CallTimesFrame, DueFrame, KeysFrame, TracksFrame, LinksFrame, PurgedFrame
    <2>6. QED
      BY <2>3, <2>4, <2>5 DEF IndInv
  <1>5. QED
    BY <1>3, <1>4

LEMMA StoredOnlyOK ==
    IndInv /\ (\E call \in calls : createBatchUncleaned(call) \/ billingStatementCommand(call)) => IndInv'
  <1> SUFFICES ASSUME IndInv, NEW call \in calls,
                      createBatchUncleaned(call) \/ billingStatementCommand(call)
               PROVE  IndInv'
    OBVIOUS
  <1>1. PICK kind \in {"input", "statement"} :
          uploadStream(call, kind) /\ (kind = "input" => ~Active(call.org))
    BY DEF createBatchUncleaned, billingStatementCommand
  <1>2. calls' = calls \ {call} /\ UNCHANGED <<clock, org, ledger, used, rows, links, sweep>>
    BY DEF createBatchUncleaned, billingStatementCommand, books
  <1>3. faults' \in 0 .. MaxFaults
    BY Durations DEF createBatchUncleaned, billingStatementCommand, IndInv, TypeOK
  <1>4. links' \subseteq [id : Ids, until : Nat]
    BY <1>2 DEF IndInv, TypeOK
  <1>5. objects \subseteq objects'
    BY <1>1 DEF uploadStream
  <1>6. LinksOK'
    BY <1>2, <1>5, LinksFrame
  <1>7. PICK added : added = {}
    OBVIOUS
  <1>8. /\ added \subseteq Row /\ rows' = rows \cup added
        /\ \A r \in added : r.id = call.id /\ r.org = call.org /\ r.kind = "batch" /\ kind = "input"
    BY <1>2, <1>7
  <1>9. QED
    BY <1>1, <1>2, <1>3, <1>4, <1>6, <1>7, <1>8, StoreOK

LEMMA buildOrgDataExportOK == IndInv /\ (\E call \in calls : buildOrgDataExport(call)) => IndInv'
  <1> SUFFICES ASSUME IndInv, NEW call \in calls, buildOrgDataExport(call) PROVE IndInv'
    OBVIOUS
  <1>1. PICK l : l = [id |-> call.id, until |-> call.at + LinkTtl]
    OBVIOUS
  <1>2. /\ calls' = calls \ {call} /\ uploadStream(call, "export") /\ links' = links \cup {l}
        /\ UNCHANGED <<clock, org, ledger, used, rows, sweep, faults>>
    BY <1>1 DEF buildOrgDataExport, books
  <1>3. call.id \in Ids /\ call.at \in Nat /\ clock \in Nat /\ org[call.org].deletedAt \in Nat
    BY Typed DEF IndInv
  <1>4. l.id = call.id /\ l.until = call.at + LinkTtl /\ l \in [id : Ids, until : Nat]
    BY <1>1, <1>3, Durations
  <1>5. faults' \in 0 .. MaxFaults /\ links' \subseteq [id : Ids, until : Nat]
    BY <1>2, <1>4 DEF IndInv, TypeOK
  <1>6. PICK x : x = NewObject(call, "export")
    OBVIOUS
  <1>7. /\ x.id = call.id /\ x.kind = "export" /\ x.org = call.org /\ x.at = call.at
        /\ objects' = objects \cup {x}
    BY <1>2, <1>6 DEF NewObject, uploadStream
  <1>8. Backs(x, l)
    <2>1. l.until <= x.at + LinkTtl
      BY <1>3, <1>4, <1>7, Durations
    <2>2. CASE Active(call.org)
      <3>1. call.at <= clock
        BY DEF IndInv, CallTimesOK
      <3>2. l.until < clock + Grace
        BY <1>3, <1>4, <3>1, Durations
      <3>3. QED
        BY <1>4, <1>7, <2>1, <2>2, <3>2 DEF Backs
    <2>3. CASE org[call.org].state = "deleted" /\ call.at <= org[call.org].deletedAt
      <3>1. l.until < org[call.org].deletedAt + Grace
        BY <1>3, <1>4, <2>3, Durations
      <3>2. QED
        BY <1>4, <1>7, <2>1, <2>3, <3>1 DEF Backs
    <2>4. QED
      BY <2>2, <2>3 DEF IndInv, CallTimesOK
  <1>9. LinksOK'
    BY <1>2, <1>7, <1>8 DEF IndInv, LinksOK, Backs, Active
  <1>10. PICK added : added = {}
    OBVIOUS
  <1>11. /\ added \subseteq Row /\ rows' = rows \cup added
         /\ \A r \in added : r.id = call.id /\ r.org = call.org /\ r.kind = "batch" /\ "export" = "input"
    BY <1>2, <1>10
  <1>12. QED
    BY <1>2, <1>5, <1>9, <1>10, <1>11, StoreOK

\* A page copied: what it leaves is ahead of where the export goes on.
LEMMA CopyPageOK == IndInv /\ (\E call \in calls : CopyPage(call)) => IndInv'
  <1> SUFFICES ASSUME IndInv, NEW call \in calls, CopyPage(call) PROVE IndInv'
    OBVIOUS
  <1>1. PICK o, k, E : o = call.org /\ k = call.category /\ E = Exported(call.org, call.category)
    OBVIOUS
  <1>2. PICK p : p = page(E, call.after)
    OBVIOUS
  <1>3. PICK new : new = [call EXCEPT !.copied = @ \cup p.rows, !.after = p.next,
                                      !.category = IF p.next # 0 THEN @ ELSE IF @ = 3 THEN 0 ELSE @ + 1]
    OBVIOUS
  <1>4. /\ call.kind = "export" /\ k \in 1 .. 3 /\ calls' = (calls \ {call}) \cup {new}
        /\ UNCHANGED <<clock, org, ledger, used, rows, objects, links, sweep, faults>>
    BY <1>1, <1>2, <1>3 DEF CopyPage, books
  <1>5. E \subseteq Ids /\ E = Exported(o, k)
    BY <1>1, <1>4, SelectedUsed
  <1>6. E \subseteq Nat \ {0} /\ IsFiniteSet(E)
    BY <1>5, Constants, FS_Subset
  <1>7. call.after \in Nat
    BY Typed DEF IndInv
  <1>8. /\ p.rows \subseteq E /\ p.next \in Nat
        /\ p.next = 0 => \A i \in E : i > call.after => i \in p.rows
        /\ p.next # 0 => \A i \in E : i > call.after => i \in p.rows \/ i > p.next
    <2>1. PICK a \in Nat : a = call.after
      BY <1>7
    <2>2. p = page(E, a)
      BY <1>2, <2>1
    <2>3. E \subseteq Nat \ {0} /\ IsFiniteSet(E)
      BY <1>6
    <2>4. /\ p.rows \subseteq E /\ p.next \in Nat
          /\ p.next = 0 => \A i \in E : i > a => i \in p.rows
          /\ p.next # 0 => \A i \in E : i > a => i \in p.rows \/ i > p.next
      BY <2>2, <2>3, PageSplits
    <2>5. QED
      BY <2>1, <2>4
  <1>9. PICK next : next = IF p.next # 0 THEN k ELSE IF k = 3 THEN 0 ELSE k + 1
    OBVIOUS
  <1>10. next \in 0 .. 3
    BY <1>4, <1>9
  <1>11. call \in Call
    BY DEF IndInv, TypeOK
  <1>12. /\ new.id = call.id /\ new.kind = call.kind /\ new.org = o /\ new.at = call.at
         /\ new.there = call.there /\ new.copied = call.copied \cup p.rows /\ new.after = p.next
         /\ new.category = next
    BY <1>1, <1>3, <1>9, <1>11 DEF Call
  <1>13. new \in Call
    BY <1>1, <1>3, <1>5, <1>8, <1>9, <1>10, <1>11 DEF Call
  <1>14. TypeOK'
    BY <1>4, <1>13 DEF IndInv, TypeOK, BooksTypeOK
  <1>15. GrantsAreNamed' /\ GrantedOnce' /\ RowObjectsOK'
    BY <1>4 DEF IndInv, GrantsAreNamed, GrantedOnce, RowObjectsOK
  <1>16. IdsOK'
    BY <1>4, <1>12 DEF IndInv, IdsOK
  <1>17. CallIdsOK'
    BY <1>4, <1>12 DEF IndInv, CallIdsOK
  <1>18. CallTimesOK'
    BY <1>1, <1>4, <1>12 DEF IndInv, CallTimesOK, Active
  <1>19. ExportsOK'
    <2>1. SUFFICES ASSUME NEW c \in calls', c.kind = "export", NEW category \in 1 .. 3,
                          NEW i \in c.there, i \in Exported(c.org, category)'
                   PROVE  i \in c.copied \/ Ahead(c, category, i)
      BY DEF ExportsOK, Ahead
    <2>0. PICK q : q = c.org
      OBVIOUS
    <2>a. i \in Exported(q, category)'
      BY <2>0, <2>1
    <2>2. i \in Exported(c.org, category)
      BY <1>4, <2>0, <2>a DEF Exported, EntriesOf
    <2>3. CASE c \in calls
      BY <2>1, <2>2, <2>3 DEF IndInv, ExportsOK
    <2>4. CASE c = new
      <3>1. i \in call.there /\ i \in Exported(o, category)
        BY <1>12, <2>1, <2>2, <2>4
      <3>2. i \in call.copied \/ Ahead(call, category, i)
        BY <1>1, <1>4, <3>1 DEF IndInv, ExportsOK
      <3>3. CASE i \in call.copied
        BY <1>12, <2>4, <3>3
      <3>4. CASE Ahead(call, category, i)
        <4>1. i \in Ids
          BY <3>1, SelectedUsed
        <4>2. i \in Nat /\ i > 0
          BY <4>1, Positive
        <4>3. category > k \/ (category = k /\ i > call.after)
          BY <1>1, <3>4 DEF Ahead
        <4>4. CASE category = k /\ i > call.after
          <5>1. i \in E
            BY <1>5, <3>1, <4>4
          <5>2. CASE i \in p.rows
            BY <1>12, <2>4, <5>2
          <5>3. CASE p.next # 0 /\ i > p.next
            <6>1. c.category = category /\ i > c.after
              BY <1>9, <1>12, <2>4, <4>4, <5>3
            <6>2. QED
              BY <6>1 DEF Ahead
          <5>4. QED
            BY <1>8, <4>4, <5>1, <5>2, <5>3
        <4>5. CASE category > k
          <5>1. k = 1 \/ k = 2
            BY <1>4, <4>5
          <5>2. CASE p.next # 0
            <6>1. c.category = k
              BY <1>9, <1>12, <2>4, <5>2
            <6>2. QED
              BY <4>5, <5>1, <6>1 DEF Ahead
          <5>3. CASE p.next = 0
            <6>1. c.category = k + 1 /\ c.after = 0
              BY <1>9, <1>12, <2>4, <5>1, <5>3
            <6>2. category = k + 1 \/ category > k + 1
              BY <4>5, <5>1
            <6>3. QED
              BY <4>2, <5>1, <6>1, <6>2 DEF Ahead
          <5>4. QED
            BY <5>2, <5>3
        <4>6. QED
          BY <4>3, <4>4, <4>5
      <3>5. QED
        BY <3>2, <3>3, <3>4
    <2>5. QED
      BY <1>4, <2>3, <2>4
  <1>20. RowsFrom /\ BatchesKept
    BY <1>4 DEF RowsFrom, BatchesKept
  <1>21. DueOK' /\ KeysOK' /\ TracksOK' /\ LinksOK' /\ PurgedIsEmpty'
    BY <1>4, <1>20, DueFrame, KeysFrame, TracksFrame, LinksFrame, PurgedFrame
  <1>22. QED
    BY <1>14, <1>15, <1>16, <1>17, <1>18, <1>19, <1>21 DEF IndInv

LEMMA InitOK == Init => IndInv
  <1> SUFFICES ASSUME Init PROVE IndInv
    OBVIOUS
  <1>1. PICK o \in Orgs : rows = {NewRow(id, "check", o, DefaultRetention) : id \in Stock}
    BY DEF Init
  <1>2. /\ clock = 0 /\ used = Stock /\ ledger = {} /\ objects = {} /\ links = {} /\ calls = {}
        /\ sweep = Idle /\ faults = 0 /\ org = [p \in Orgs |-> NewOrg(DefaultRetention)]
    BY DEF Init
  <1>3. Stock \subseteq Ids
    BY RetentionAssumption
  <1>4. \A r \in rows : r \in Row /\ r.id \in Stock
    <2> SUFFICES ASSUME NEW r \in rows PROVE r \in Row /\ r.id \in Stock
      OBVIOUS
    <2>1. PICK id \in Stock : r = NewRow(id, "check", o, DefaultRetention)
      BY <1>1
    <2>2. DefaultRetention \in Nat
      BY Durations
    <2>3. r = [id |-> id, kind |-> "check", org |-> o, expires |-> DefaultRetention, erased |-> FALSE]
      BY <2>1 DEF NewRow
    <2>4. id \in Ids /\ o \in Orgs \cup {NoOrg}
      BY <1>3
    <2>5. r \in Row
      BY <2>2, <2>3, <2>4 DEF Row
    <2>6. r.id = id
      BY <2>3
    <2>7. QED
      BY <2>5, <2>6
  <1>5. org \in [Orgs -> OrgRow] /\ \A p \in Orgs : org[p].state = "active"
    BY <1>2, TimesAreNaturals, Durations DEF NewOrg, OrgRow
  <1>6. TypeOK
    BY <1>2, <1>3, <1>4, <1>5, TimesAreNaturals, Durations, IdleOK DEF TypeOK, BooksTypeOK
  <1>7. GrantsAreNamed /\ GrantedOnce /\ CallIdsOK /\ RowObjectsOK /\ CallTimesOK
    BY <1>2 DEF GrantsAreNamed, GrantedOnce, CallIdsOK, RowObjectsOK, CallTimesOK
  <1>8. IdsOK
    BY <1>2, <1>4, IdleOK DEF IdsOK
  <1>9. DueOK /\ KeysOK
    BY <1>2, IdleOK DEF DueOK, KeysOK, At
  <1>10. TracksOK /\ LinksOK /\ ExportsOK
    BY <1>2 DEF TracksOK, LinksOK, ExportsOK
  <1>11. PurgedIsEmpty
    BY <1>5 DEF PurgedIsEmpty
  <1>12. QED
    BY <1>6, <1>7, <1>8, <1>9, <1>10, <1>11 DEF IndInv

-----------------------------------------------------------------------------

LEMMA StepOK == IndInv /\ [Next]_vars => IndInv'
  <1> SUFFICES ASSUME IndInv, [Next]_vars PROVE IndInv'
    OBVIOUS
  <1>1. CASE UNCHANGED vars
    <2>1. UNCHANGED <<clock, org, ledger, used, rows, objects, links, calls, sweep, faults>>
      BY <1>1 DEF vars
    <2>2. DueOK' /\ KeysOK'
      BY <2>1, DueFrame, KeysFrame
    <2>3. sweep' \in Sweep /\ faults' \in 0 .. MaxFaults
      BY <2>1 DEF IndInv, TypeOK
    <2>4. QED
      BY <2>1, <2>2, <2>3, SweepMoves
  <1>2. CASE Product
    BY <1>2, InsertionsOK, EraseLeadOK, OrgActionsOK, GrantOK, BeginCallOK, postStatementLinkOK DEF Product
  <1>3. CASE EndCall
    BY <1>3, createBatchOK, StoredOnlyOK, CopyPageOK, buildOrgDataExportOK DEF EndCall
  <1>4. CASE SweepStep
    BY <1>4, StartSweepOK, PurgeRowsOK, listExpiredBatchesOK, deleteObjectsOK, deleteBatchesByIdsOK,
       listOrganizationsDueForPurgeOK, listKeysOK, relistKeysOK, hardDeleteOrganizationDataOK,
       listStaleExportsOK, purgeLedgerOK, deleteRetiredOrganizationsOK DEF SweepStep
  <1>5. CASE Faults
    BY <1>5, StoredOnlyOK, SweepFailsOK DEF Faults
  <1>6. CASE Tick
    BY <1>6, TickOK
  <1>7. QED
    BY <1>1, <1>2, <1>3, <1>4, <1>5, <1>6 DEF Next

\* Whatever the product writes, the calls under way end, the sweep lists,
\* deletes and fails half-way, and however long it takes within the bounds,
\* the inductive invariant of Retention holds.
THEOREM RetentionInductive == Spec => []IndInv
  BY InitOK, StepOK, PTL DEF Spec

\* The rows, objects, links, calls and the run of the sweep keep their types.
THEOREM RetentionTypeCorrect == Spec => []TypeOK
  <1>1. IndInv => TypeOK
    BY DEF IndInv
  <1>2. QED
    BY <1>1, RetentionInductive, PTL

\* Nothing but its ledger is left of a purged organisation: no upload begun
\* before its deletion ends after its purge.
THEOREM PurgeLeavesNothing == Spec => []PurgedIsEmpty
  <1>1. IndInv => PurgedIsEmpty
    BY DEF IndInv
  <1>2. QED
    BY <1>1, RetentionInductive, PTL

\* Links to archives and statements work until the time their owner was told.
THEOREM LinksWork == Spec => []LinkWorks
  <1>1. IndInv => LinkWorks
    BY DEF IndInv, LinksOK, LinkWorks, Backs
  <1>2. QED
    BY <1>1, RetentionInductive, PTL

\* A finished archive holds whatever was there all the time, for every page
\* size and whatever came and went between pages.
THEOREM ExportsAreComplete == Spec => []ExportIsComplete
  <1>1. ASSUME IndInv PROVE ExportIsComplete
    <2>1. SUFFICES ASSUME NEW call \in calls, call.kind = "export", call.category = 0,
                          NEW id \in call.there, id \in Present(call.org)
                   PROVE  id \in call.copied
      BY DEF ExportIsComplete
    <2>2. DOMAIN Categories = 1 .. 3
      BY DEF Categories
    <2>3. PICK category \in 1 .. 3 : id \in Exported(call.org, category)
      BY <2>1, <2>2 DEF Present
    <2>4. id \in call.copied \/ Ahead(call, category, id)
      BY <1>1, <2>1, <2>3 DEF IndInv, ExportsOK
    <2>5. QED
      BY <2>1, <2>4 DEF Ahead
  <1>2. QED
    BY <1>1, RetentionInductive, PTL

\* No batch file of an organisation in use is without the row that names it.
THEOREM BatchFilesAreTracked == Spec => []FilesAreTracked
  <1>1. IndInv => FilesAreTracked
    BY DEF IndInv, TracksOK, FilesAreTracked
  <1>2. QED
    BY <1>1, RetentionInductive, PTL

\* With the sweep running for as long as it does, on the worker's `now`, the
\* ledger still loses no entry early.
THEOREM SweepKeepsLedger == Spec => LedgerKept
  <1>1. ASSUME IndInv, [Next]_vars
        PROVE  [\A e \in ledger \ ledger' : e.at + LedgerRetention <= clock]_books
    <2>0. ledger \subseteq Entry /\ clock \in Times
      BY <1>1 DEF IndInv, TypeOK, BooksTypeOK
    <2>1. CASE ledger \subseteq ledger'
      BY <2>1
    <2>2. CASE purgeLedger
      <3>1. CASE ~PurgeRaises(sweep.now) /\ ledger' = ledger \ PurgeTargets(sweep.now)
        BY <2>0, <3>1, PurgeKeepsYoung
      <3>2. QED
        BY <2>1, <2>2, <3>1 DEF purgeLedger
    <2>3. CASE \E o \in Orgs, id \in Fresh : Grant(o, id)
      <3>1. \E e : Append1(e)
        BY <2>3 DEF Grant, billingGrantCommand, grantCreditsWithAudit
      <3>2. QED
        BY <2>1, <3>1 DEF Append1
    <2>4. ledger' = ledger \/ purgeLedger \/ \E o \in Orgs, id \in Fresh : Grant(o, id)
      <3>1. CASE Product
        BY <3>1 DEF Product, CreateCheck, postInvoiceRequest, createInvoiceRequest, Insert, SubmitLead,
           BeginCall, EraseLead, postStatementLink, postSettings, updateOrgSettings, deleteOrganization,
           softDeleteOrganization, books
      <3>2. CASE EndCall \/ Faults
        BY <3>2 DEF EndCall, Faults, createBatch, billingStatementCommand, CopyPage, buildOrgDataExport,
           createBatchUncleaned, SweepFails, books
      <3>3. CASE SweepStep
        BY <3>3 DEF SweepStep, StartSweep, purgeExpiredChecks, listExpiredBatches, deleteBatchObjects,
           deleteBatchesByIds, listOrganizationsDueForPurge, listKeys, relistKeys,
           hardDeleteOrganizationData, deleteOrgObjects, purgeExpiredLeads, listStaleExports,
           deleteExportObjects, deleteRetiredOrganizations, deleteObjects, books
      <3>4. CASE Tick \/ UNCHANGED vars
        BY <3>4 DEF Tick, vars
      <3>5. QED
        BY <1>1, <3>1, <3>2, <3>3, <3>4 DEF Next
    <2>5. QED
      BY <2>1, <2>2, <2>3, <2>4
  <1>2. QED
    BY <1>1, RetentionInductive, PTL DEF Spec, LedgerKept
=============================================================================
