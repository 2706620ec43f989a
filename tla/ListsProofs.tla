---------------------------- MODULE ListsProofs ----------------------------
(***************************************************************************)
(* What the proofs about the data path need to know of lists: counting and *)
(* numbering, folds and sums over finite sets, and what sorted, max, the   *)
(* comprehensions and the seen set of Lists return.                        *)
(***************************************************************************)
EXTENDS Lists, FiniteSetTheorems, SequenceTheorems, TLAPS

(* Counting.  Two things the provers do not know of the numbers: that a    *)
(* set of them has a least one, and that counting what comes before each   *)
(* element of an ordered set numbers the set.                              *)

LEMMA LeastNatural ==
    ASSUME NEW T \in SUBSET Nat, T # {}
    PROVE  \E m \in T : \A n \in T : m <= n
<1> DEFINE Upto == {0..k : k \in T}
<1>1. Upto \subseteq FiniteSubsetsOf(Nat) /\ Upto # {}
    <2>1. ASSUME NEW k \in T
          PROVE  0..k \in FiniteSubsetsOf(Nat)
        <3>1. IsFiniteSet(0..k) /\ 0..k \in SUBSET Nat
            BY FS_Interval
        <3> QED
            BY <3>1 DEF FiniteSubsetsOf
    <2> QED
        BY <2>1
<1>2. PICK x \in Upto : \A y \in Upto : <<y, x>> \notin StrictSubsetOrdering(Nat)
    BY <1>1, FS_StrictSubsetOrderingWellFounded, WFMin
<1>3. PICK m \in T : x = 0..m
    BY <1>2
<1>4. ASSUME NEW n \in T, n < m
      PROVE  FALSE
    <2>1. (0..n) \subseteq (0..m) /\ m \in 0..m /\ m \notin 0..n
        BY <1>4
    <2>2. <<0..n, 0..m>> \in StrictSubsetOrdering(Nat)
        BY <2>1 DEF StrictSubsetOrdering
    <2> QED
        BY <1>2, <1>3, <2>2
<1> QED
    BY <1>4

(* Induction up to a number, as a set of numbers.                          *)
LEMMA StepByStep ==
    ASSUME NEW N \in Nat, NEW P, 0 \in P, \A k \in 1..N : k - 1 \in P => k \in P
    PROVE  \A k \in 0..N : k \in P
<1> DEFINE Wrong == {k \in 0..N : k \notin P}
<1> SUFFICES ASSUME Wrong # {} PROVE FALSE
    OBVIOUS
<1>1. Wrong \in SUBSET Nat
    OBVIOUS
<1>2. PICK k \in Wrong : \A j \in Wrong : k <= j
    BY <1>1, LeastNatural
<1>3. k # 0
    BY <1>2
<1>4. k \in 1..N /\ k - 1 \in 0..N /\ ~(k <= k - 1)
    BY <1>3
<1>5. k - 1 \in P
    BY <1>2, <1>4
<1> QED
    BY <1>2, <1>4, <1>5

\* A strict total order on a set, as a set of pairs.
Orders(S, E) ==
    /\ \A x \in S : <<x, x>> \notin E
    /\ \A x, y, z \in S : <<x, y>> \in E /\ <<y, z>> \in E => <<x, z>> \in E
    /\ \A x, y \in S : x # y => <<x, y>> \in E \/ <<y, x>> \in E

Before(S, E, x) == {y \in S : <<y, x>> \in E}

LEMMA MoreBefore ==
    ASSUME NEW S, IsFiniteSet(S), NEW E, Orders(S, E),
           NEW x \in S, NEW y \in S, <<x, y>> \in E
    PROVE  /\ Cardinality(Before(S, E, x)) \in Nat /\ Cardinality(Before(S, E, y)) \in Nat
           /\ Cardinality(Before(S, E, x)) < Cardinality(Before(S, E, y))
<1>1. IsFiniteSet(Before(S, E, y)) /\ IsFiniteSet(Before(S, E, x))
    BY FS_Subset DEF Before
<1>2. Before(S, E, x) \subseteq Before(S, E, y)
    BY DEF Before, Orders
<1>3. x \in Before(S, E, y) /\ x \notin Before(S, E, x)
    BY DEF Before, Orders
<1>4. /\ Cardinality(Before(S, E, x)) \in Nat /\ Cardinality(Before(S, E, y)) \in Nat
    BY <1>1, FS_CardinalityType
<1>5. /\ Cardinality(Before(S, E, x)) <= Cardinality(Before(S, E, y))
      /\ Cardinality(Before(S, E, x)) # Cardinality(Before(S, E, y))
    BY <1>1, <1>2, <1>3, FS_Subset
<1> QED
    BY <1>4, <1>5

LEMMA CountingNumbers ==
    ASSUME NEW S, IsFiniteSet(S), NEW E, Orders(S, E)
    PROVE  /\ Cardinality(S) \in Nat
           /\ \A k \in 1..Cardinality(S) :
                \E x \in S : Cardinality(Before(S, E, x)) = k - 1
           /\ \A x \in S : Cardinality(Before(S, E, x)) \in 0..(Cardinality(S) - 1)
           /\ \A x, y \in S :
                Cardinality(Before(S, E, x)) = Cardinality(Before(S, E, y)) => x = y
           /\ \A x, y \in S :
                Cardinality(Before(S, E, x)) < Cardinality(Before(S, E, y)) => <<x, y>> \in E
<1> DEFINE n == Cardinality(S)
           place == [x \in S |-> Cardinality(Before(S, E, x)) + 1]
<1>1. n \in Nat
    BY FS_CardinalityType
<1>2. ASSUME NEW x \in S
      PROVE  /\ Cardinality(Before(S, E, x)) \in Nat
             /\ Cardinality(Before(S, E, x)) + 1 <= n
    <2>1. IsFiniteSet(Before(S, E, x)) /\ Cardinality(Before(S, E, x)) \in Nat
        BY FS_Subset, FS_CardinalityType DEF Before
    <2>2. Before(S, E, x) \subseteq S /\ x \notin Before(S, E, x)
        BY DEF Before, Orders
    <2>3. Cardinality(Before(S, E, x)) <= n /\ Cardinality(Before(S, E, x)) # n
        BY <2>2, FS_Subset
    <2> QED
        BY <1>1, <2>1, <2>3
<1>3. ASSUME NEW x \in S, NEW y \in S, x # y
      PROVE  Cardinality(Before(S, E, x)) # Cardinality(Before(S, E, y))
    <2>1. CASE <<x, y>> \in E
        BY <2>1, MoreBefore
    <2>2. CASE <<y, x>> \in E
        BY <2>2, MoreBefore
    <2> QED
        BY <1>3, <2>1, <2>2 DEF Orders
<1>4. place \in Injection(S, 1..n)
    <2>1. place \in [S -> 1..n]
        BY <1>1, <1>2
    <2>2. \A x, y \in S : place[x] = place[y] => x = y
        BY <1>2, <1>3
    <2> QED
        BY <2>1, <2>2 DEF Injection, IsInjective
<1>5. IsFiniteSet(1..n) /\ Cardinality(1..n) = n
    BY <1>1, FS_Interval
<1>6. place \in Surjection(S, 1..n)
    BY <1>4, <1>5, FS_Injection
<1>7. ASSUME NEW k \in 1..n
      PROVE  \E x \in S : Cardinality(Before(S, E, x)) = k - 1
    <2>1. PICK x \in S : place[x] = k
        BY <1>6 DEF Surjection
    <2> QED
        BY <1>2, <2>1
<1>8. ASSUME NEW x \in S, NEW y \in S,
             Cardinality(Before(S, E, x)) < Cardinality(Before(S, E, y))
      PROVE  <<x, y>> \in E
    <2>1. CASE <<y, x>> \in E
        BY <1>2, <1>8, <2>1, MoreBefore
    <2>2. x # y
        BY <1>2, <1>8
    <2> QED
        BY <2>1, <2>2 DEF Orders
<1> QED
    BY <1>1, <1>2, <1>3, <1>7, <1>8

-----------------------------------------------------------------------------
\* The community modules define FlattenSeq by a recursive function: whatever satisfies its
\* equations is what it computes.
Flattens(g, s, n) == g[1] = s[1] /\ \A i \in 2..n : g[i] = g[i - 1] \o s[i]

LEMMA Flattened ==
    ASSUME NEW n, n \in Nat, n # 0, NEW s, Len(s) = n, NEW X, NEW g, g \in [1..n -> X],
           Flattens(g, s, n)
    PROVE  FlattenSeq(s) = g[n]
<1> USE DEF Flattens
<1> DEFINE Solves(f) == f = [i \in 1..n |-> IF i = 1 THEN s[i] ELSE f[i - 1] \o s[i]]
           f == CHOOSE f : Solves(f)
<1>1. Solves(g)
    <2>1. ASSUME NEW i \in 1..n
          PROVE  g[i] = IF i = 1 THEN s[i] ELSE g[i - 1] \o s[i]
        <3>1. i = 1 \/ i \in 2..n
            OBVIOUS
        <3> QED
            BY <3>1
    <2> QED
        BY <2>1
<1>2. FlattenSeq(s) = f[n]
    <2>1. Len(s) # 0
        OBVIOUS
    <2> QED
        BY <2>1, Zenon DEF FlattenSeq
<1>3. Solves(f)
    BY <1>1
<1>4. \A i \in 1..n : f[i] = IF i = 1 THEN s[i] ELSE f[i - 1] \o s[i]
    BY <1>3
<1> HIDE DEF f, Solves
<1> DEFINE Wrong == {i \in 1..n : f[i] # g[i]}
<1>5. ASSUME Wrong # {} PROVE FALSE
    <2> Wrong \in SUBSET Nat
        OBVIOUS
    <2> HIDE DEF Wrong
    <2>1. PICK m \in Wrong : \A i \in Wrong : m <= i
        BY <1>5, LeastNatural
    <2> USE DEF Wrong
    <2>2. m # 1
        BY <1>4, <2>1
    <2>3. m \in 2..n /\ m - 1 \in 1..n /\ m - 1 \notin Wrong
        BY <2>1, <2>2
    <2>4. f[m] = f[m - 1] \o s[m] /\ g[m] = g[m - 1] \o s[m]
        BY <1>4, <2>3
    <2> QED
        BY <2>1, <2>3, <2>4
<1> QED
    BY <1>2, <1>5

LEMMA AppendedOne ==
    ASSUME NEW n \in Nat, NEW X, NEW f \in [1..n -> X], NEW e
    PROVE  /\ Len(Append(f, e)) = n + 1
           /\ Append(f, e) = [k \in 1..(n + 1) |-> Append(f, e)[k]]
           /\ Append(f, e)[n + 1] = e
           /\ \A k \in 1..n : Append(f, e)[k] = f[k]
<1>1. f \in Seq(X \cup {e}) /\ e \in X \cup {e} /\ Len(f) = n
    BY SeqDef
<1>2. PICK g : g = Append(f, e)
    OBVIOUS
<1>3. /\ g \in Seq(X \cup {e}) /\ Len(g) = n + 1 /\ g[n + 1] = e
      /\ \A k \in 1..n : g[k] = f[k]
    BY <1>1, <1>2, AppendProperties
<1>4. g = [k \in 1..(n + 1) |-> g[k]]
    <2>1. g \in [1..(n + 1) -> X \cup {e}]
        BY <1>3, LenProperties
    <2> QED
        BY <2>1
<1> QED
    BY <1>2, <1>3, <1>4, Zenon

-----------------------------------------------------------------------------
(* Folds.  The community modules fold a set by a recursive function over   *)
(* its subsets: pick takes an element of a subset, next adds it to what    *)
(* came of the rest.  Such a function exists for every finite set.         *)
Foldable(D, X, base, pick, next) ==
    /\ IsFiniteSet(D) /\ base \in X
    /\ \A s \in SUBSET D : s # {} => pick[s] \in s
    /\ \A x \in D : \A a \in X : next[x][a] \in X

IsFold(f, D, X, base, pick, next) ==
    /\ f \in [SUBSET D -> X]
    /\ \A s \in SUBSET D :
        f[s] = IF s = {} THEN base ELSE next[pick[s]][f[s \ {pick[s]}]]

LEMMA SetFold ==
    ASSUME NEW D, NEW X, NEW base, NEW pick, NEW next, Foldable(D, X, base, pick, next)
    PROVE  \E f : IsFold(f, D, X, base, pick, next)
<1> DEFINE Below(m) == {s \in SUBSET D : Cardinality(s) <= m}
           Solves(f, m) ==
                /\ f \in [Below(m) -> X]
                /\ \A s \in Below(m) :
                    f[s] = IF s = {} THEN base ELSE next[pick[s]][f[s \ {pick[s]}]]
           Wrong == {m \in Nat : ~\E f : Solves(f, m)}
<1> USE DEF Foldable
<1>1. ASSUME NEW s \in SUBSET D
      PROVE  /\ IsFiniteSet(s) /\ Cardinality(s) \in Nat
             /\ s # {} => /\ pick[s] \in s /\ s \ {pick[s]} \in SUBSET D
                          /\ Cardinality(s \ {pick[s]}) = Cardinality(s) - 1
             /\ Cardinality(s) <= 0 => s = {}
             /\ Cardinality(s) <= Cardinality(D) /\ Cardinality(D) \in Nat
    <2>1. IsFiniteSet(s) /\ Cardinality(s) <= Cardinality(D)
        BY FS_Subset
    <2>2. Cardinality(s) \in Nat /\ Cardinality(D) \in Nat
        BY <2>1, FS_CardinalityType
    <2>3. Cardinality(s) = 0 => s = {}
        BY <2>1, FS_EmptySet
    <2>4. ASSUME s # {}
          PROVE  pick[s] \in s /\ Cardinality(s \ {pick[s]}) = Cardinality(s) - 1
        <3>1. pick[s] \in s
            BY <2>4
        <3> QED
            BY <2>1, <3>1, FS_RemoveElement
    <2> QED
        BY <2>1, <2>2, <2>3, <2>4
<1>2. ASSUME NEW m \in Nat, NEW g, m # 0 => Solves(g, m - 1)
      PROVE  \E f : Solves(f, m)
    <2> DEFINE F(s) == IF s = {} THEN base ELSE next[pick[s]][g[s \ {pick[s]}]]
               f == [s \in Below(m) |-> F(s)]
    <2>1. ASSUME NEW s \in Below(m), s # {}
          PROVE  m # 0 /\ s \ {pick[s]} \in Below(m - 1) /\ pick[s] \in D
        <3>1. s \in SUBSET D /\ Cardinality(s) <= m
            OBVIOUS
        <3>2. /\ Cardinality(s) \in Nat
              /\ pick[s] \in s /\ s \ {pick[s]} \in SUBSET D
              /\ Cardinality(s \ {pick[s]}) = Cardinality(s) - 1
              /\ ~(Cardinality(s) <= 0)
            BY <1>1, <2>1, <3>1, Zenon
        <3> QED
            BY <3>1, <3>2
    <2>2. ASSUME NEW s \in Below(m) PROVE F(s) \in X
        <3>1. CASE s = {}
            BY <3>1
        <3>2. CASE s # {}
            <4>1. g[s \ {pick[s]}] \in X
                BY <1>2, <2>1, <3>2
            <4> QED
                BY <2>1, <3>2, <4>1
        <3> QED
            BY <3>1, <3>2
    <2>3. ASSUME m # 0, NEW t \in Below(m - 1)
          PROVE  t \in Below(m) /\ g[t] = F(t)
        <3>1. t \in Below(m)
            <4>1. t \in SUBSET D /\ Cardinality(t) <= m - 1
                OBVIOUS
            <4>2. Cardinality(t) \in Nat
                BY <1>1, <4>1, Zenon
            <4> QED
                BY <4>1, <4>2
        <3> QED
            BY <1>2, <2>3, <3>1
    <2> HIDE DEF Below
    <2>4. f \in [Below(m) -> X]
        BY <2>2
    <2>5. ASSUME NEW s \in Below(m)
          PROVE  f[s] = IF s = {} THEN base ELSE next[pick[s]][f[s \ {pick[s]}]]
        <3>1. f[s] = F(s)
            OBVIOUS
        <3>2. CASE s # {}
            <4>1. f[s \ {pick[s]}] = g[s \ {pick[s]}]
                BY <2>1, <2>3, <3>2
            <4> QED
                BY <3>1, <3>2, <4>1
        <3> QED
            BY <3>1, <3>2
    <2>6. Solves(f, m)
        BY <2>4, <2>5
    <2> QED
        BY <2>6
<1> HIDE DEF Solves
<1>3. ASSUME Wrong # {} PROVE FALSE
    <2>1. PICK m \in Wrong : \A n \in Wrong : m <= n
        BY <1>3, LeastNatural
    <2>2. m # 0 => \E g : Solves(g, m - 1)
        BY <2>1
    <2>3. PICK g : m # 0 => Solves(g, m - 1)
        BY <2>2
    <2> QED
        BY <1>2, <2>1, <2>3
<1>4. PICK f : Solves(f, Cardinality(D))
    BY <1>1, <1>3
<1>5. Below(Cardinality(D)) = SUBSET D
    BY <1>1
<1> QED
    BY <1>4, <1>5 DEF Solves, IsFold

(* The first and the last number of a set of them. *)
LEMMA MinOfNumbers ==
    ASSUME NEW T \in SUBSET Nat, T # {}
    PROVE  Min(T) \in T /\ \A k \in T : Min(T) <= k
<1>1. \E m \in T : \A k \in T : m <= k
    BY LeastNatural
<1> QED
    BY <1>1 DEF Min

LEMMA MaxOfNumbers ==
    ASSUME NEW N \in Nat, NEW T \in SUBSET (1..N), T # {}
    PROVE  Max(T) \in T /\ \A k \in T : Max(T) >= k
<1> DEFINE U == {m \in Nat : N - m \in T}
<1>1. PICK x \in T : TRUE
    OBVIOUS
<1>2. N - x \in U
    BY <1>1
<1>3. PICK m \in U : \A k \in U : m <= k
    BY <1>2, LeastNatural
<1>4. N - m \in T /\ \A k \in T : N - m >= k
    <2>1. ASSUME NEW k \in T PROVE N - m >= k
        <3>1. k \in Int /\ m \in Int /\ N \in Int
            BY <1>3
        <3>2. N - k \in U
            OBVIOUS
        <3>3. m <= N - k
            BY <1>3, <3>2
        <3> HIDE DEF U
        <3> QED
            BY <3>1, <3>3
    <2> QED
        BY <1>3, <2>1
<1> QED
    BY <1>4 DEF Max

LEMMA InitialSegment ==
    ASSUME NEW n \in Nat, NEW T \in SUBSET (1..n),
           \A i \in T : \A j \in 1..i : j \in T
    PROVE  Cardinality(T) \in 0..n /\ T = 1..Cardinality(T)
<1> DEFINE U == {i \in Nat \ {0} : i \notin T}
<1>1. n + 1 \in U
    OBVIOUS
<1>2. PICK m \in U : \A k \in U : m <= k
    BY <1>1, LeastNatural
<1>3. m \in 1..(n + 1) /\ T = 1..(m - 1)
    <2>1. m <= n + 1
        BY <1>1, <1>2
    <2>2. \A i \in 1..(m - 1) : i \in T
        BY <1>2
    <2>3. ASSUME NEW i \in T PROVE i \in 1..(m - 1)
        <3>1. ~(m <= i)
            <4>1. SUFFICES ASSUME m <= i PROVE m \in T
                BY <1>2
            <4> QED
                BY <1>2, <4>1
        <3> QED
            BY <1>2, <3>1
    <2>4. T = 1..(m - 1)
        BY <2>2, <2>3
    <2> QED
        BY <1>2, <2>1, <2>4
<1>4. Cardinality(1..(m - 1)) = m - 1
    BY <1>3, FS_Interval
<1> QED
    BY <1>3, <1>4

LEMMA AppendedAbove ==
    ASSUME NEW p \in Seq(Nat), NEW n \in Nat, \A k \in DOMAIN p : p[k] < n,
           \A j, k \in DOMAIN p : j < k => p[j] < p[k]
    PROVE  /\ Append(p, n) \in Seq(Nat) /\ ToSet(Append(p, n)) = ToSet(p) \cup {n}
           /\ \A j, k \in DOMAIN Append(p, n) : j < k => Append(p, n)[j] < Append(p, n)[k]
<1>1. PICK m \in Nat : m = Len(p) /\ DOMAIN p = 1..m
    BY LenProperties
<1>2. PICK q : q = Append(p, n)
    OBVIOUS
<1>3. /\ q \in Seq(Nat) /\ DOMAIN q = 1..(m + 1) /\ q[m + 1] = n
      /\ \A k \in 1..m : q[k] = p[k]
    BY <1>1, <1>2
<1>4. \A k \in 1..(m + 1) : k = m + 1 \/ k \in 1..m
    OBVIOUS
<1>5. ToSet(q) = ToSet(p) \cup {n}
    <2>1. ToSet(q) \subseteq ToSet(p) \cup {n}
        BY <1>1, <1>3, <1>4 DEF ToSet
    <2>2. n \in ToSet(q)
        <3>1. m + 1 \in 1..(m + 1)
            OBVIOUS
        <3> QED
            BY <1>3, <3>1 DEF ToSet
    <2>3. ASSUME NEW x \in ToSet(p) PROVE x \in ToSet(q)
        <3>1. PICK k \in 1..m : p[k] = x
            BY <1>1 DEF ToSet
        <3>2. k \in 1..(m + 1) /\ q[k] = x
            BY <1>3, <3>1
        <3> QED
            BY <1>3, <3>2 DEF ToSet
    <2> QED
        BY <2>1, <2>2, <2>3
<1>6. ASSUME NEW j \in 1..(m + 1), NEW k \in 1..(m + 1), j < k PROVE q[j] < q[k]
    <2>1. j \in 1..m
        BY <1>6
    <2>2. CASE k = m + 1
        BY <1>1, <1>3, <2>1, <2>2
    <2>3. CASE k \in 1..m
        BY <1>1, <1>3, <1>6, <2>1, <2>3
    <2> QED
        BY <1>4, <2>2, <2>3
<1> QED
    BY <1>2, <1>3, <1>5, <1>6


Numbered(S, E) ==
    /\ \A k \in 1..Cardinality(S) : \E x \in S : Cardinality(Before(S, E, x)) = k - 1
    /\ \A x \in S : Cardinality(Before(S, E, x)) \in 0..(Cardinality(S) - 1)
    /\ \A x, y \in S : Cardinality(Before(S, E, x)) = Cardinality(Before(S, E, y)) => x = y
    /\ \A x, y \in S :
            Cardinality(Before(S, E, x)) < Cardinality(Before(S, E, y)) => <<x, y>> \in E

LEMMA OrderNumbers ==
    ASSUME NEW S, IsFiniteSet(S), NEW E, Orders(S, E)
    PROVE  Numbered(S, E)
BY CountingNumbers DEF Numbered

\* At each place stands the element with as many before it.
CountsBefore(c, S, E) ==
    /\ c = [k \in 1..Cardinality(S) |-> c[k]]
    /\ \A k \in 1..Cardinality(S) : \A x \in S :
        Cardinality(Before(S, E, x)) = k - 1 =>
            c[k] \in S /\ Cardinality(Before(S, E, c[k])) = k - 1

LinesUp(c, S, E) ==
    /\ c \in [1..Cardinality(S) -> S]
    /\ \A x \in S : \E k \in 1..Cardinality(S) : c[k] = x
    /\ \A j, k \in 1..Cardinality(S) : j < k => <<c[j], c[k]>> \in E

(* What Arranged makes of an ordered set.                                  *)
LEMMA ArrangedBy ==
    ASSUME NEW S, IsFiniteSet(S), NEW E, Orders(S, E), NEW c,
           CountsBefore(c, S, E)
    PROVE  Cardinality(S) \in Nat /\ LinesUp(c, S, E)
<1>1. Numbered(S, E)
    BY OrderNumbers
<1>2. PICK m \in Nat : m = Cardinality(S)
    BY FS_CardinalityType
<1> DEFINE N(x) == Cardinality(Before(S, E, x))
<1>3. /\ \A k \in 1..m : \E x \in S : N(x) = k - 1
      /\ \A x \in S : N(x) \in 0..(m - 1)
      /\ \A x, y \in S : N(x) = N(y) => x = y
      /\ \A x, y \in S : N(x) < N(y) => <<x, y>> \in E
    BY <1>1, <1>2, Zenon DEF Numbered
<1> HIDE DEF N
<1>4. /\ c = [k \in 1..m |-> c[k]]
      /\ \A k \in 1..m : \A x \in S : N(x) = k - 1 => c[k] \in S /\ N(c[k]) = k - 1
    BY <1>2, Zenon DEF N, CountsBefore
<1>5. \A k \in 1..m : c[k] \in S /\ N(c[k]) = k - 1
    BY <1>3, <1>4
<1>6. c \in [1..m -> S]
    BY <1>4, <1>5
<1>7. ASSUME NEW x \in S PROVE \E k \in 1..m : c[k] = x
    <2>1. PICK v \in Nat : v = N(x) /\ v + 1 \in 1..m
        BY <1>3
    <2>2. PICK k \in 1..m : k = v + 1 /\ k - 1 = v
        BY <2>1
    <2>3. c[k] \in S /\ N(c[k]) = k - 1
        BY <1>5
    <2>4. N(c[k]) = N(x)
        BY <2>1, <2>2, <2>3
    <2> QED
        BY <1>3, <2>3, <2>4
<1>8. ASSUME NEW j \in 1..m, NEW k \in 1..m, j < k PROVE <<c[j], c[k]>> \in E
    <2>1. PICK x \in S, y \in S : x = c[j] /\ y = c[k] /\ N(x) = j - 1 /\ N(y) = k - 1
        BY <1>5
    <2>2. N(x) < N(y)
        BY <1>8, <2>1
    <2> QED
        BY <1>3, <2>1, <2>2
<1> QED
    BY <1>2, <1>6, <1>7, <1>8 DEF LinesUp

\* The numbers of a set, from the least to the greatest.
InOrder(c, m, T) ==
    /\ c \in [1..m -> T]
    /\ \A j, k \in 1..m : j < k => c[j] < c[k]
    /\ \A t \in T : \E k \in 1..m : c[k] = t

(* What Arranged makes of a finite set of numbers.                         *)
LEMMA AscendingNumbers ==
    ASSUME NEW T, IsFiniteSet(T), T \subseteq Int
    PROVE  /\ Cardinality(T) \in Nat /\ InOrder(Ascending(T), Cardinality(T), T)
           /\ \A k \in 1..Cardinality(T) :
                Cardinality({u \in T : u < Ascending(T)[k]}) = k - 1
<1> DEFINE E == {p \in T \X T : p[1] < p[2]}
           m == Cardinality(T)
           N(x) == Cardinality({y \in T : y < x})
           At(k) == CHOOSE x \in T : N(x) = k - 1
           c == [k \in 1..m |-> At(k)]
<1>1. IsFiniteSet(T) /\ m \in Nat
    BY FS_CardinalityType
<1>2. Orders(T, E)
    BY DEF Orders
<1>3. \A x \in T : Before(T, E, x) = {y \in T : y < x}
    BY DEF Before
<1>4. /\ \A k \in 1..Cardinality(T) : \E x \in T : N(x) = k - 1
      /\ \A x \in T : N(x) \in 0..(Cardinality(T) - 1)
      /\ \A x, y \in T : N(x) = N(y) => x = y
      /\ \A x, y \in T : N(x) < N(y) => <<x, y>> \in E
    <2> HIDE DEF E, N, At, m, c
    <2>1. Numbered(T, E)
        BY <1>1, <1>2, OrderNumbers, Zenon
    <2>2. \A x \in T : Cardinality(Before(T, E, x)) = N(x)
        BY <1>3 DEF N
    <2> QED
        BY <2>1, <2>2 DEF Numbered
<1>5. Ascending(T) = c
    BY DEF Ascending, Arranged
<1> HIDE DEF N
<1>6. \A k \in 1..m : At(k) \in T /\ N(At(k)) = k - 1
    BY <1>4
<1>10. m = Cardinality(T)
    OBVIOUS
<1> HIDE DEF m, At
<1>7. c \in [1..m -> T] /\ \A k \in 1..m : N(c[k]) = k - 1
    BY <1>6
<1> HIDE DEF c
<1>8. ASSUME NEW j \in 1..m, NEW k \in 1..m, j < k PROVE c[j] < c[k]
    <2>1. c[j] \in T /\ c[k] \in T /\ N(c[j]) < N(c[k])
        BY <1>1, <1>7, <1>8
    <2>2. <<c[j], c[k]>> \in E
        BY <1>4, <2>1
    <2> QED
        BY <2>2
<1>9. ASSUME NEW t \in T PROVE \E k \in 1..m : c[k] = t
    <2>1. N(t) + 1 \in 1..m /\ N(t) \in Nat
        BY <1>1, <1>4, <1>10
    <2>2. c[N(t) + 1] \in T /\ N(c[N(t) + 1]) = N(t)
        BY <1>7, <2>1
    <2>3. c[N(t) + 1] = t
        BY <1>4, <2>2
    <2> QED
        BY <2>1, <2>3
<1>11. \A k \in 1..m : Cardinality({u \in T : u < c[k]}) = k - 1
    BY <1>7 DEF N
<1>12. InOrder(c, m, T)
    BY <1>7, <1>8, <1>9 DEF InOrder
<1> QED
    BY <1>1, <1>5, <1>10, <1>11, <1>12

(* A set of places, and Chosen of a list.                                  *)
LEMMA ArrangedNumbers ==
    ASSUME NEW n \in Nat, NEW T, T \subseteq 1..n
    PROVE  /\ Cardinality(T) \in 0..n /\ InOrder(Ascending(T), Cardinality(T), T)
           /\ \A k \in 1..Cardinality(T) :
                Cardinality({u \in T : u < Ascending(T)[k]}) = k - 1
<1>1. IsFiniteSet(T) /\ Cardinality(T) \in 0..n
    <2>1. IsFiniteSet(1..n) /\ Cardinality(1..n) = n
        BY FS_Interval
    <2>2. IsFiniteSet(T) /\ Cardinality(T) <= n
        BY <2>1, FS_Subset
    <2> QED
        BY <2>2, FS_CardinalityType
<1>2. T \subseteq Int
    OBVIOUS
<1> QED
    BY <1>1, <1>2, AscendingNumbers

LEMMA ChosenPlaces ==
    ASSUME NEW n \in Nat, NEW s, DOMAIN s = 1..n, NEW T, T \subseteq 1..n
    PROVE  LET m == Cardinality(T)
               c == Ascending(T)
           IN  /\ m \in 0..n /\ InOrder(c, m, T)
               /\ Chosen(s, T) = [k \in 1..m |-> s[c[k]]]
               /\ T = 1..n => m = n /\ \A k \in 1..n : c[k] = k
<1> DEFINE m == Cardinality(T)
           c == Ascending(T)
<1>3. /\ m \in 0..n /\ InOrder(c, m, T)
      /\ \A k \in 1..m : Cardinality({u \in T : u < c[k]}) = k - 1
    BY ArrangedNumbers
<1>1. Chosen(s, T) = LET order == c IN [k \in DOMAIN order |-> s[order[k]]]
    BY Zenon DEF Chosen
<1>2. m = Cardinality(T)
    OBVIOUS
<1> HIDE DEF m, c
<1>4. c \in [1..m -> T]
    BY <1>3 DEF InOrder
<1>5. Chosen(s, T) = [k \in 1..m |-> s[c[k]]]
    <2>1. DOMAIN c = 1..m
        BY <1>4
    <2> QED
        BY <1>1, <2>1
<1>6. ASSUME T = 1..n PROVE m = n /\ \A k \in 1..n : c[k] = k
    <2>1. m = n
        <3>1. Cardinality(1..n) = n
            BY FS_Interval
        <3> QED
            BY <1>2, <1>6, <3>1
    <2>2. ASSUME NEW k \in 1..n PROVE c[k] = k
        <3>1. c[k] \in 1..n
            BY <1>4, <1>6, <2>1
        <3>2. PICK i \in 1..n : i = c[k]
            BY <3>1
        <3>3. {u \in T : u < i} = 1..(i - 1)
            BY <1>6
        <3>4. Cardinality(1..(i - 1)) = i - 1
            <4>1. i - 1 \in Int /\ 1 \in Int
                OBVIOUS
            <4> QED
                BY <4>1, FS_Interval
        <3>5. Cardinality({u \in T : u < i}) = k - 1
            BY <1>3, <2>1, <3>2
        <3>6. i - 1 = k - 1
            BY <3>3, <3>4, <3>5, Zenon
        <3> QED
            BY <3>2, <3>6
    <2> QED
        BY <2>1, <2>2
<1> QED
    BY <1>3, <1>5, <1>6 DEF m, c

(* A comprehension keeps elements, all of them only if all are to be kept. *)
LEMMA ChosenElements ==
    ASSUME NEW n \in Nat, NEW X, NEW s, DOMAIN s = 1..n, NEW T, T \subseteq 1..n,
           \A t \in T : s[t] \in X
    PROVE  /\ Chosen(s, T) \in Seq(X) /\ Len(Chosen(s, T)) = Cardinality(T)
           /\ Cardinality(T) \in 0..n
           /\ ToSet(Chosen(s, T)) = {s[t] : t \in T}
           /\ Cardinality(T) = n => T = 1..n
           /\ T = 1..n /\ s \in [1..n -> X] => Chosen(s, T) = s
<1> DEFINE m == Cardinality(T)
           c == Ascending(T)
<1>2. /\ m \in 0..n /\ InOrder(c, m, T)
      /\ Chosen(s, T) = [k \in 1..m |-> s[c[k]]]
      /\ T = 1..n => m = n /\ \A k \in 1..n : c[k] = k
    BY ChosenPlaces
<1>1. m = Cardinality(T)
    OBVIOUS
<1> HIDE DEF m, c
<1>3. PICK r : r = Chosen(s, T)
    OBVIOUS
<1>4. r = [k \in 1..m |-> s[c[k]]]
    BY <1>2, <1>3, Zenon
<1>5. /\ c \in [1..m -> T]
      /\ \A t \in T : \E k \in 1..m : c[k] = t
    BY <1>2 DEF InOrder
<1>6. r \in [1..m -> X]
    BY <1>4, <1>5
<1>7. r \in Seq(X) /\ Len(r) = m
    BY <1>2, <1>6, SeqDef, LenProperties
<1>8. ToSet(r) = {s[t] : t \in T}
    <2>1. ToSet(r) = {r[k] : k \in 1..m}
        BY <1>4 DEF ToSet
    <2>2. \A k \in 1..m : r[k] = s[c[k]] /\ c[k] \in T
        BY <1>4, <1>5
    <2>3. \A t \in T : \E k \in 1..m : r[k] = s[t]
        BY <1>5, <2>2
    <2> QED
        BY <2>1, <2>2, <2>3
<1>9. ASSUME T = 1..n, s \in [1..n -> X] PROVE r = s
    <2>1. m = n /\ \A k \in 1..n : r[k] = s[k]
        BY <1>2, <1>4, <1>9
    <2>2. r \in [1..n -> X]
        BY <1>6, <2>1
    <2> QED
        BY <1>9, <2>1, <2>2
<1>10. ASSUME Cardinality(T) = n PROVE T = 1..n
    <2>1. IsFiniteSet(1..n) /\ Cardinality(1..n) = n
        BY FS_Interval
    <2> QED
        BY <1>10, <2>1, FS_Subset
<1> QED
    BY <1>1, <1>2, <1>3, <1>7, <1>8, <1>9, <1>10

(* Tuples of one length are in a total order. *)
LEMMA PrecedesIrreflexive ==
    ASSUME NEW m \in Nat, NEW a \in [1..m -> Int]
    PROVE  ~Precedes(a, a)
BY DEF Precedes

LEMMA PrecedesTransitive ==
    ASSUME NEW m \in Nat,
           NEW a \in [1..m -> Int], NEW b \in [1..m -> Int], NEW c \in [1..m -> Int],
           Precedes(a, b), Precedes(b, c)
    PROVE  Precedes(a, c)
<1>1. PICK i \in 1..m : a[i] < b[i] /\ \A j \in 1..(i - 1) : a[j] = b[j]
    BY DEF Precedes
<1>2. PICK k \in 1..m : b[k] < c[k] /\ \A j \in 1..(k - 1) : b[j] = c[j]
    BY DEF Precedes
<1>3. \A j \in 1..m : a[j] \in Int /\ b[j] \in Int /\ c[j] \in Int
    OBVIOUS
<1>4. CASE i <= k
    <2>1. a[i] < c[i]
        <3>1. b[i] <= c[i]
            <4>1. i = k => b[i] < c[i]
                BY <1>2
            <4>2. i # k => b[i] = c[i]
                BY <1>2, <1>4
            <4> QED
                BY <1>3, <4>1, <4>2
        <3> QED
            BY <1>1, <1>3, <3>1
    <2>2. \A j \in 1..(i - 1) : a[j] = c[j]
        BY <1>1, <1>2, <1>4
    <2> QED
        BY <2>1, <2>2 DEF Precedes
<1>5. CASE k < i
    <2>1. a[k] < c[k]
        BY <1>1, <1>2, <1>5
    <2>2. \A j \in 1..(k - 1) : a[j] = c[j]
        BY <1>1, <1>2, <1>5
    <2> QED
        BY <2>1, <2>2 DEF Precedes
<1> QED
    BY <1>4, <1>5

LEMMA PrecedesTotal ==
    ASSUME NEW m \in Nat, NEW a \in [1..m -> Int], NEW b \in [1..m -> Int], a # b
    PROVE  Precedes(a, b) \/ Precedes(b, a)
<1> DEFINE D == {i \in 1..m : a[i] # b[i]}
<1>1. D # {}
    OBVIOUS
<1>2. D \in SUBSET Nat
    OBVIOUS
<1>3. PICK i \in D : \A j \in D : i <= j
    BY <1>1, <1>2, LeastNatural
<1>4. \A j \in 1..(i - 1) : a[j] = b[j] /\ b[j] = a[j]
    BY <1>3
<1>5. i \in 1..m /\ (a[i] < b[i] \/ b[i] < a[i])
    BY <1>3
<1> QED
    BY <1>4, <1>5 DEF Precedes

\* The place in a list of what comes first, second, and so on by its key.
SortsBy(at, key, n) ==
    /\ at \in [1..n -> 1..n]
    /\ \A i, j \in 1..n : at[i] = at[j] => i = j
    /\ \A k \in 1..n : \E i \in 1..n : at[i] = k
    /\ \A i, j \in 1..n : i < j =>
            \/ Precedes(key[at[i]], key[at[j]])
            \/ key[at[i]] = key[at[j]] /\ at[i] < at[j]

Reordered(s, at, n) == [i \in 1..n |-> s[at[i]]]

(* sorted is a permutation in the order of the keys, and stable. *)
LEMMA SortedPlaces ==
    ASSUME NEW n \in Nat, NEW m \in Nat, NEW key \in [1..n -> [1..m -> Int]],
           NEW s, DOMAIN s = 1..n
    PROVE  \E at : SortsBy(at, key, n) /\ Sorted(s, key) = Reordered(s, at, n)
<1> DEFINE Earlier(j, k) == \/ Precedes(key[j], key[k])
                            \/ (j < k /\ ~Precedes(key[k], key[j]))
           place == [k \in DOMAIN s |-> 1 + Cardinality({j \in DOMAIN s : Earlier(j, k)})]
           At(i) == CHOOSE k \in DOMAIN s : place[k] = i
           at == [i \in 1..n |-> At(i)]
           D == 1..n
           E == {p \in D \X D : Earlier(p[1], p[2])}
<1>1. \A j, k \in D : Earlier(j, k) <=> Precedes(key[j], key[k]) \/ (key[j] = key[k] /\ j < k)
    <2> SUFFICES ASSUME NEW j \in D, NEW k \in D
                 PROVE  Earlier(j, k) <=> Precedes(key[j], key[k]) \/ (key[j] = key[k] /\ j < k)
        OBVIOUS
    <2>1. key[j] \in [1..m -> Int] /\ key[k] \in [1..m -> Int]
        OBVIOUS
    <2>2. key[j] # key[k] => Precedes(key[j], key[k]) \/ Precedes(key[k], key[j])
        BY <2>1, PrecedesTotal
    <2>3. ~Precedes(key[j], key[j])
        BY <2>1, PrecedesIrreflexive
    <2> QED
        BY <2>2, <2>3
<1>2. Sorted(s, key) = [i \in DOMAIN s |-> s[At(i)]]
    BY Zenon DEF Sorted
<1>3. IsFiniteSet(D) /\ Cardinality(D) = n
    BY FS_Interval
<1>4. Orders(D, E)
    <2>1. \A j, k \in D : <<j, k>> \in E <=>
                Precedes(key[j], key[k]) \/ (key[j] = key[k] /\ j < k)
        BY <1>1
    <2> HIDE DEF E, Earlier
    <2>2. \A x \in D : <<x, x>> \notin E
        <3> SUFFICES ASSUME NEW x \in D PROVE <<x, x>> \notin E
            OBVIOUS
        <3>1. key[x] \in [1..m -> Int]
            OBVIOUS
        <3>2. ~Precedes(key[x], key[x])
            BY <3>1, PrecedesIrreflexive
        <3> QED
            BY <2>1, <3>2
    <2>3. ASSUME NEW x \in D, NEW y \in D, NEW z \in D, <<x, y>> \in E, <<y, z>> \in E
          PROVE  <<x, z>> \in E
        <3>1. key[x] \in [1..m -> Int] /\ key[y] \in [1..m -> Int] /\ key[z] \in [1..m -> Int]
            OBVIOUS
        <3>2. Precedes(key[x], key[y]) /\ Precedes(key[y], key[z]) => Precedes(key[x], key[z])
            BY <3>1, PrecedesTransitive
        <3> QED
            BY <2>1, <2>3, <3>2
    <2>4. ASSUME NEW x \in D, NEW y \in D, x # y
          PROVE  <<x, y>> \in E \/ <<y, x>> \in E
        <3>1. key[x] \in [1..m -> Int] /\ key[y] \in [1..m -> Int]
            OBVIOUS
        <3>2. key[x] # key[y] => Precedes(key[x], key[y]) \/ Precedes(key[y], key[x])
            BY <3>1, PrecedesTotal
        <3> QED
            BY <2>1, <2>4, <3>2
    <2> HIDE DEF D
    <2> QED
        BY <2>2, <2>3, <2>4 DEF Orders
<1>5. Numbered(D, E)
    <2> HIDE DEF D, E
    <2> QED
        BY <1>3, <1>4, OrderNumbers
<1>6. ASSUME NEW k \in D PROVE place[k] = 1 + Cardinality(Before(D, E, k))
    <2>1. {j \in DOMAIN s : Earlier(j, k)} = Before(D, E, k)
        BY DEF Before
    <2> HIDE DEF E, Earlier
    <2> QED
        BY <2>1
<1> HIDE DEF place, E, Earlier
<1>7. /\ \A i \in D : \E k \in D : place[k] = i
      /\ \A k \in D : place[k] \in D
      /\ \A j, k \in D : place[j] = place[k] => j = k
      /\ \A j, k \in D : place[j] < place[k] => <<j, k>> \in E
    <2>1. /\ \A i \in 1..Cardinality(D) : \E x \in D : Cardinality(Before(D, E, x)) = i - 1
          /\ \A x \in D : Cardinality(Before(D, E, x)) \in 0..(Cardinality(D) - 1)
          /\ \A x, y \in D : Cardinality(Before(D, E, x)) = Cardinality(Before(D, E, y)) => x = y
          /\ \A x, y \in D :
                Cardinality(Before(D, E, x)) < Cardinality(Before(D, E, y)) => <<x, y>> \in E
        BY <1>5 DEF Numbered
    <2> DEFINE C(x) == Cardinality(Before(D, E, x))
    <2>2. /\ \A i \in 1..n : \E x \in D : C(x) = i - 1
          /\ \A x \in D : C(x) \in 0..(n - 1) /\ place[x] = 1 + C(x)
          /\ \A x, y \in D : C(x) = C(y) => x = y
          /\ \A x, y \in D : C(x) < C(y) => <<x, y>> \in E
        BY <1>3, <1>6, <2>1
    <2> HIDE DEF C
    <2>3. \A i \in D : \E k \in D : place[k] = i
        <3> SUFFICES ASSUME NEW i \in 1..n PROVE \E k \in D : place[k] = i
            OBVIOUS
        <3>1. PICK k \in D : C(k) = i - 1
            BY <2>2
        <3>2. place[k] = 1 + (i - 1)
            BY <2>2, <3>1
        <3> QED
            BY <3>2
    <2>4. ASSUME NEW j \in D, NEW k \in D
          PROVE  /\ place[j] \in D
                 /\ place[j] = place[k] => j = k
                 /\ place[j] < place[k] => <<j, k>> \in E
        <3>1. /\ C(j) \in 0..(n - 1) /\ C(k) \in 0..(n - 1)
              /\ place[j] = 1 + C(j) /\ place[k] = 1 + C(k)
            BY <2>2
        <3>2. place[j] = place[k] => C(j) = C(k)
            BY <3>1
        <3>3. place[j] < place[k] => C(j) < C(k)
            BY <3>1
        <3>4. place[j] \in 1..n
            BY <3>1
        <3> QED
            BY <2>2, <3>2, <3>3, <3>4
    <2> QED
        BY <2>3, <2>4
<1>8. \A i \in D : At(i) \in D /\ place[At(i)] = i
    BY <1>7
<1> HIDE DEF At
<1>9. at \in [1..n -> 1..n] /\ \A i \in 1..n : place[at[i]] = i
    BY <1>8
<1>10. Sorted(s, key) = [i \in 1..n |-> s[at[i]]]
    BY <1>2
<1> HIDE DEF at
<1>11. \A k \in 1..n : \E i \in 1..n : at[i] = k
    <2> SUFFICES ASSUME NEW k \in 1..n PROVE \E i \in 1..n : at[i] = k
        OBVIOUS
    <2>1. place[k] \in 1..n
        BY <1>7
    <2>2. at[place[k]] \in 1..n /\ place[at[place[k]]] = place[k]
        BY <1>9, <2>1
    <2>3. at[place[k]] = k
        BY <1>7, <2>2
    <2> QED
        BY <2>1, <2>3
<1>12. ASSUME NEW i \in 1..n, NEW j \in 1..n, i < j
       PROVE  \/ Precedes(key[at[i]], key[at[j]])
              \/ key[at[i]] = key[at[j]] /\ at[i] < at[j]
    <2>1. at[i] \in D /\ at[j] \in D /\ place[at[i]] < place[at[j]]
        BY <1>9, <1>12
    <2>2. <<at[i], at[j]>> \in E
        BY <1>7, <2>1
    <2>3. Earlier(at[i], at[j])
        BY <2>2 DEF E
    <2> QED
        BY <1>1, <2>1, <2>3
<1>13. SortsBy(at, key, n)
    BY <1>9, <1>11, <1>12 DEF SortsBy
<1>14. Sorted(s, key) = Reordered(s, at, n)
    BY <1>10 DEF Reordered
<1> HIDE DEF at
<1> QED
    BY <1>13, <1>14

Keys(n, m) == [1..n -> [1..m -> Int]]

SortsTo(r, s, n, X) == r \in [1..n -> X] /\ ToSet(r) = ToSet(s)

(* A sorted list has the elements of the list. *)
LEMMA SortedElements ==
    ASSUME NEW n \in Nat, NEW m \in Nat, NEW key \in Keys(n, m),
           NEW X, NEW s, s \in [1..n -> X]
    PROVE  SortsTo(Sorted(s, key), s, n, X)
<1>1. DOMAIN s = 1..n /\ key \in [1..n -> [1..m -> Int]]
    BY DEF Keys
<1>2. PICK at : SortsBy(at, key, n) /\ Sorted(s, key) = Reordered(s, at, n)
    BY <1>1, SortedPlaces, Zenon
<1>3. at \in [1..n -> 1..n] /\ \A k \in 1..n : \E i \in 1..n : at[i] = k
    BY <1>2 DEF SortsBy
<1>4. PICK r : r = Sorted(s, key)
    OBVIOUS
<1>5. r = [i \in 1..n |-> s[at[i]]]
    BY <1>2, <1>4 DEF Reordered
<1>6. r \in [1..n -> X]
    BY <1>3, <1>5
<1>7. ToSet(r) = {r[i] : i \in 1..n} /\ ToSet(s) = {s[k] : k \in 1..n}
    BY <1>1, <1>5 DEF ToSet
<1>8. \A i \in 1..n : r[i] = s[at[i]] /\ at[i] \in 1..n
    BY <1>3, <1>5
<1>9. \A k \in 1..n : \E i \in 1..n : r[i] = s[k]
    <2>1. ASSUME NEW k \in 1..n PROVE \E i \in 1..n : r[i] = s[k]
        <3>1. PICK i \in 1..n : at[i] = k
            BY <1>3
        <3> QED
            BY <1>8, <3>1
    <2> QED
        BY <2>1
<1>10. ToSet(r) = ToSet(s)
    <2>1. {r[i] : i \in 1..n} \subseteq {s[k] : k \in 1..n}
        BY <1>8
    <2>2. {s[k] : k \in 1..n} \subseteq {r[i] : i \in 1..n}
        BY <1>9
    <2> QED
        BY <1>7, <2>1, <2>2
<1> QED
    BY <1>4, <1>6, <1>10 DEF SortsTo

\* A list of one number.
LEMMA OneNumber ==
    ASSUME NEW a \in Int
    PROVE  <<a>> \in [1..1 -> Int] /\ <<a>>[1] = a
<1>1. <<a>> = [i \in 1..1 |-> a]
    OBVIOUS
<1> QED
    BY <1>1

(* A maximum by a weak order, and the first of them. *)
WeaklyOrders(S, E) ==
    /\ \A x, y \in S : <<x, y>> \in E => <<y, x>> \notin E
    /\ \A x, y, z \in S : <<x, y>> \in E => <<x, z>> \in E \/ <<z, y>> \in E

LEMMA FirstGreatest ==
    ASSUME NEW n \in Nat \ {0}, NEW E, WeaklyOrders(1..n, E)
    PROVE  \E k \in 1..n : /\ \A j \in 1..n : <<j, k>> \notin E
                           /\ \A j \in 1..(k - 1) : <<k, j>> \in E
<1> DEFINE D == 1..n
           Count(x) == Cardinality(Before(D, E, x))
           Counts == {Count(x) : x \in D}
<1>1. \A x \in D : IsFiniteSet(Before(D, E, x)) /\ Count(x) \in Nat
    <2>1. IsFiniteSet(D)
        BY FS_Interval
    <2> QED
        BY <2>1, FS_Subset, FS_CardinalityType DEF Before
<1>2. Counts \in SUBSET Nat /\ Counts # {}
    <2>1. 1 \in D
        OBVIOUS
    <2> QED
        BY <1>1, <2>1
<1>3. PICK x \in D : \A y \in D : Count(x) <= Count(y)
    <2> HIDE DEF Counts
    <2>1. PICK c \in Counts : \A d \in Counts : c <= d
        BY <1>2, LeastNatural
    <2> QED
        BY <2>1 DEF Counts
<1>4. ASSUME NEW y \in D, <<y, x>> \in E PROVE FALSE
    <2>1. Before(D, E, y) \subseteq Before(D, E, x)
        BY <1>4 DEF WeaklyOrders, Before
    <2>2. y \in Before(D, E, x) /\ y \notin Before(D, E, y)
        BY <1>4 DEF WeaklyOrders, Before
    <2>3. Count(y) <= Count(x) /\ Count(y) # Count(x)
        BY <1>1, <2>1, <2>2, FS_Subset
    <2> QED
        BY <1>1, <1>3, <2>3
<1> DEFINE M == {k \in D : \A j \in D : <<j, k>> \notin E}
<1>5. M \in SUBSET Nat /\ M # {}
    <2>1. x \in M
        BY <1>3, <1>4
    <2>2. \A k \in M : k \in Nat
        OBVIOUS
    <2> HIDE DEF M
    <2> QED
        BY <2>1, <2>2
<1>6. PICK k \in M : \A j \in M : k <= j
    BY <1>5, LeastNatural
<1>7. ASSUME NEW j \in 1..(k - 1) PROVE <<k, j>> \in E
    <2>1. j \in D /\ j \notin M
        BY <1>6
    <2>2. PICK i \in D : <<i, j>> \in E
        BY <2>1
    <2> QED
        BY <1>6, <2>1, <2>2 DEF WeaklyOrders
<1> QED
    BY <1>6, <1>7

(* Induction over the subsets of a finite set, as a set of them. *)
LEMMA SubsetInduction ==
    ASSUME NEW D, IsFiniteSet(D), NEW P,
           {} \in P, \A s \in SUBSET D : \A x \in s : s \ {x} \in P => s \in P
    PROVE  \A s \in SUBSET D : s \in P
<1> DEFINE Wrong == {k \in Nat : \E s \in SUBSET D : Cardinality(s) = k /\ s \notin P}
<1>1. ASSUME NEW s \in SUBSET D PROVE IsFiniteSet(s) /\ Cardinality(s) \in Nat
    BY FS_Subset, FS_CardinalityType
<1>2. ASSUME Wrong # {} PROVE FALSE
    <2> Wrong \in SUBSET Nat
        OBVIOUS
    <2> HIDE DEF Wrong
    <2>1. PICK k \in Wrong : \A i \in Wrong : k <= i
        BY <1>2, LeastNatural
    <2> USE DEF Wrong
    <2>2. PICK s \in SUBSET D : Cardinality(s) = k /\ s \notin P
        BY <2>1
    <2>3. PICK x \in s : s \ {x} \notin P
        BY <2>2
    <2>4. s \ {x} \in SUBSET D
        OBVIOUS
    <2>5. Cardinality(s \ {x}) = k - 1 /\ Cardinality(s \ {x}) \in Nat
        BY <1>1, <2>2, <2>4, FS_RemoveElement
    <2>6. k - 1 \in Wrong
        BY <2>3, <2>4, <2>5
    <2> QED
        BY <2>1, <2>5, <2>6
<1> QED
    BY <1>1, <1>2

(* Sums.  A sum does not depend on the element that the community modules' *)
(* fold chooses next.                                                      *)
Sums(F, f, D) ==
    /\ F \in [SUBSET D -> Int]
    /\ F[{}] = 0
    /\ \A s \in SUBSET D : \A x \in s : F[s] = f[x] + F[s \ {x}]

LEMMA SumsExist ==
    ASSUME NEW D, IsFiniteSet(D), NEW f \in [D -> Int]
    PROVE  \E F : Sums(F, f, D)
<1> DEFINE pick == [s \in SUBSET D |-> CHOOSE x \in s : TRUE]
           next == [x \in D |-> [a \in Int |-> f[x] + a]]
<1>1. PICK F : IsFold(F, D, Int, 0, pick, next)
    <2>1. \A s \in SUBSET D : s # {} => pick[s] \in s
        OBVIOUS
    <2>2. \A x \in D : \A a \in Int : next[x][a] \in Int
        OBVIOUS
    <2> HIDE DEF pick, next
    <2>3. Foldable(D, Int, 0, pick, next)
        BY <2>1, <2>2 DEF Foldable
    <2> QED
        BY <2>3, SetFold, Zenon
<1>2. F \in [SUBSET D -> Int]
    BY <1>1 DEF IsFold
<1>3. ASSUME NEW s \in SUBSET D, s # {}
      PROVE  pick[s] \in s /\ F[s] = f[pick[s]] + F[s \ {pick[s]}]
    <2>1. pick[s] \in s
        BY <1>3
    <2>2. F[s] = next[pick[s]][F[s \ {pick[s]}]]
        BY <1>1, <1>3 DEF IsFold
    <2>3. pick[s] \in D /\ s \ {pick[s]} \in SUBSET D
        BY <2>1
    <2> HIDE DEF pick
    <2> QED
        BY <1>2, <2>1, <2>2, <2>3
<1>4. F[{}] = 0
    BY <1>1 DEF IsFold
<1> HIDE DEF pick, next
<1> DEFINE Right(s) == \A x \in s : F[s] = f[x] + F[s \ {x}]
           Wrong == {k \in Nat : \E s \in SUBSET D : Cardinality(s) = k /\ ~Right(s)}
<1>5. ASSUME NEW s \in SUBSET D PROVE IsFiniteSet(s) /\ Cardinality(s) \in Nat
    BY FS_Subset, FS_CardinalityType
<1>6. ASSUME Wrong # {} PROVE FALSE
    <2> Wrong \in SUBSET Nat
        OBVIOUS
    <2> HIDE DEF Wrong
    <2>1. PICK k \in Wrong : \A i \in Wrong : k <= i
        BY <1>6, LeastNatural
    <2> USE DEF Wrong
    <2>2. PICK s \in SUBSET D : Cardinality(s) = k /\ ~Right(s)
        BY <2>1
    <2>3. PICK x \in s : F[s] # f[x] + F[s \ {x}]
        BY <2>2
    <2>4. s # {} /\ pick[s] \in s /\ F[s] = f[pick[s]] + F[s \ {pick[s]}]
        BY <1>3, <2>3
    <2>5. PICK y : y = pick[s]
        OBVIOUS
    <2>6. y \in s /\ F[s] = f[y] + F[s \ {y}] /\ y # x
        BY <2>3, <2>4, <2>5
    <2>7. \A t \in SUBSET D : Cardinality(t) = k - 1 => Right(t)
        <3> HIDE DEF Right
        <3> SUFFICES ASSUME NEW t \in SUBSET D, Cardinality(t) = k - 1 PROVE Right(t)
            OBVIOUS
        <3>1. Cardinality(t) \in Nat /\ k \in Nat
            BY <1>5, <2>1
        <3>2. Cardinality(t) \notin Wrong
            BY <2>1, <3>1
        <3> QED
            BY <3>1, <3>2
    <2>8. /\ s \ {y} \in SUBSET D /\ s \ {x} \in SUBSET D /\ s \ {x, y} \in SUBSET D
          /\ x \in s \ {y} /\ y \in s \ {x}
          /\ (s \ {y}) \ {x} = s \ {x, y} /\ (s \ {x}) \ {y} = s \ {x, y}
        BY <2>6
    <2>9. Cardinality(s \ {y}) = k - 1 /\ Cardinality(s \ {x}) = k - 1
        BY <1>5, <2>2, <2>6, FS_RemoveElement
    <2>10. F[s \ {y}] = f[x] + F[s \ {x, y}] /\ F[s \ {x}] = f[y] + F[s \ {x, y}]
        BY <2>7, <2>8, <2>9
    <2>11. f[x] \in Int /\ f[y] \in Int /\ F[s \ {x, y}] \in Int
        BY <1>2, <2>6, <2>8
    <2> QED
        BY <2>3, <2>6, <2>10, <2>11
<1>7. ASSUME NEW s \in SUBSET D PROVE Right(s)
    <2> HIDE DEF Right
    <2> QED
        BY <1>5, <1>6
<1> QED
    BY <1>2, <1>4, <1>7 DEF Sums

(* Two functions that are sums are equal, so every sum is what SumFunctionOnSet computes. *)
LEMMA SumIsFold ==
    ASSUME NEW D, IsFiniteSet(D), NEW f \in [D -> Int], NEW F, Sums(F, f, D)
    PROVE  SumFunctionOnSet(f, D) = F[D]
<1> DEFINE Rec(g, s) == IF s = {} THEN 0
                        ELSE LET x == CHOOSE y \in s : TRUE IN f[x] + g[s \ {x}]
           Solves(g) == g = [s \in SUBSET D |-> Rec(g, s)]
           iter == CHOOSE g : Solves(g)
<1>1. SumFunctionOnSet(f, D) = iter[D]
    BY Zenon DEF SumFunctionOnSet, FoldFunctionOnSet, MapThenFoldSet
<1>2. \A s \in SUBSET D : F[s] = Rec(F, s)
    <2> SUFFICES ASSUME NEW s \in SUBSET D PROVE F[s] = Rec(F, s)
        OBVIOUS
    <2>1. CASE s = {}
        BY <2>1 DEF Sums
    <2>2. CASE s # {}
        <3>1. PICK x : x = CHOOSE y \in s : TRUE
            OBVIOUS
        <3>2. x \in s
            BY <2>2, <3>1
        <3>3. F[s] = f[x] + F[s \ {x}]
            BY <3>2 DEF Sums
        <3> QED
            BY <2>2, <3>1, <3>3, Zenon
    <2> QED
        BY <2>1, <2>2
<1>3. Solves(F)
    <2>1. F = [s \in SUBSET D |-> F[s]]
        BY DEF Sums
    <2> HIDE DEF Rec
    <2> QED
        BY <1>2, <2>1
<1>4. Solves(iter)
    BY <1>3
<1>5. \A s \in SUBSET D : iter[s] = Rec(iter, s)
    <2> HIDE DEF Rec, iter
    <2> QED
        BY <1>4
<1> HIDE DEF iter, Solves
<1> DEFINE Wrong == {k \in Nat : \E s \in SUBSET D : Cardinality(s) = k /\ iter[s] # F[s]}
<1>6. ASSUME NEW s \in SUBSET D PROVE IsFiniteSet(s) /\ Cardinality(s) \in Nat
    BY FS_Subset, FS_CardinalityType
<1>7. ASSUME Wrong # {} PROVE FALSE
    <2> Wrong \in SUBSET Nat
        OBVIOUS
    <2> HIDE DEF Wrong
    <2>1. PICK k \in Wrong : \A i \in Wrong : k <= i
        BY <1>7, LeastNatural
    <2> USE DEF Wrong
    <2>2. PICK s \in SUBSET D : Cardinality(s) = k /\ iter[s] # F[s]
        BY <2>1
    <2>3. iter[s] = Rec(iter, s) /\ F[s] = Rec(F, s)
        BY <1>2, <1>5
    <2>4. s # {}
        BY <2>2, <2>3
    <2>5. PICK x : x = CHOOSE y \in s : TRUE
        OBVIOUS
    <2>6. iter[s] = f[x] + iter[s \ {x}] /\ F[s] = f[x] + F[s \ {x}]
        BY <2>3, <2>4, <2>5, Zenon
    <2>7. x \in s /\ s \ {x} \in SUBSET D
        BY <2>4, <2>5
    <2>8. Cardinality(s \ {x}) = k - 1 /\ Cardinality(s \ {x}) \in Nat
        BY <1>6, <2>2, <2>7, FS_RemoveElement
    <2>9. k - 1 \notin Wrong
        BY <2>1, <2>8
    <2>10. iter[s \ {x}] = F[s \ {x}]
        BY <2>7, <2>8, <2>9
    <2> QED
        BY <2>2, <2>6, <2>10
<1>8. iter[D] = F[D]
    <2>1. D \in SUBSET D
        OBVIOUS
    <2> QED
        BY <1>6, <1>7, <2>1
<1> QED
    BY <1>1, <1>8

LEMMA SumRules ==
    ASSUME NEW D, IsFiniteSet(D), NEW f \in [D -> Int]
    PROVE  \E F : Sums(F, f, D) /\ SumFunction(f) = F[D] /\ F[D] \in Int
<1>1. PICK F : Sums(F, f, D)
    BY SumsExist
<1>2. SumFunctionOnSet(f, D) = F[D]
    BY <1>1, SumIsFold
<1>3. DOMAIN f = D
    OBVIOUS
<1>4. SumFunction(f) = SumFunctionOnSet(f, D)
    BY <1>3, Zenon DEF SumFunction
<1>5. F[D] \in Int
    <2>1. D \in SUBSET D
        OBVIOUS
    <2> QED
        BY <1>1, <2>1 DEF Sums
<1> QED
    BY <1>1, <1>2, <1>4, <1>5

(* A sum grows with its terms; where one term is greater by some amount, so is the sum. *)
LEMMA SumGrows ==
    ASSUME NEW D, IsFiniteSet(D), NEW f \in [D -> Int], NEW g \in [D -> Int],
           \A x \in D : f[x] <= g[x]
    PROVE  /\ SumFunction(f) \in Int /\ SumFunction(g) \in Int
           /\ SumFunction(f) <= SumFunction(g)
           /\ \A x \in D : SumFunction(f) + (g[x] - f[x]) <= SumFunction(g)
<1>1. PICK F : Sums(F, f, D) /\ SumFunction(f) = F[D] /\ F[D] \in Int
    BY SumRules
<1>2. PICK G : Sums(G, g, D) /\ SumFunction(g) = G[D] /\ G[D] \in Int
    BY SumRules
<1> DEFINE P == {s \in SUBSET D : F[s] <= G[s]}
<1>3. /\ \A s \in SUBSET D : F[s] \in Int /\ G[s] \in Int
      /\ F[{}] = 0 /\ G[{}] = 0
      /\ \A s \in SUBSET D : \A x \in s : F[s] = f[x] + F[s \ {x}] /\ G[s] = g[x] + G[s \ {x}]
    BY <1>1, <1>2 DEF Sums
<1>4. {} \in P
    BY <1>3
<1>5. ASSUME NEW s \in SUBSET D, NEW x \in s, s \ {x} \in P PROVE s \in P
    <2>1. s \ {x} \in SUBSET D /\ F[s \ {x}] <= G[s \ {x}] /\ x \in D
        BY <1>5
    <2>2. F[s] = f[x] + F[s \ {x}] /\ G[s] = g[x] + G[s \ {x}] /\ f[x] <= g[x]
        BY <1>3, <2>1
    <2>3. f[x] \in Int /\ g[x] \in Int /\ F[s \ {x}] \in Int /\ G[s \ {x}] \in Int
        BY <1>3, <2>1
    <2> QED
        BY <2>1, <2>2, <2>3
<1>6. \A s \in SUBSET D : F[s] <= G[s]
    <2> HIDE DEF P
    <2>1. \A s \in SUBSET D : s \in P
        BY <1>4, <1>5, SubsetInduction
    <2> QED
        BY <2>1 DEF P
<1>7. ASSUME NEW x \in D PROVE F[D] + (g[x] - f[x]) <= G[D]
    <2>1. D \in SUBSET D /\ D \ {x} \in SUBSET D
        OBVIOUS
    <2>2. F[D] = f[x] + F[D \ {x}] /\ G[D] = g[x] + G[D \ {x}] /\ F[D \ {x}] <= G[D \ {x}]
        BY <1>3, <1>6, <2>1
    <2>3. f[x] \in Int /\ g[x] \in Int /\ F[D \ {x}] \in Int /\ G[D \ {x}] \in Int
        BY <1>3, <2>1
    <2> QED
        BY <2>2, <2>3
<1>8. F[D] <= G[D]
    BY <1>6
<1> QED
    BY <1>1, <1>2, <1>7, <1>8

LEMMA SumScaled ==
    ASSUME NEW D, IsFiniteSet(D), NEW f \in [D -> Int], NEW c \in Int
    PROVE  SumFunction([x \in D |-> c * f[x]]) = c * SumFunction(f)
<1> DEFINE g == [x \in D |-> c * f[x]]
<1>1. g \in [D -> Int]
    OBVIOUS
<1>2. PICK F : Sums(F, f, D) /\ SumFunction(f) = F[D] /\ F[D] \in Int
    BY SumRules
<1>3. PICK G : Sums(G, g, D) /\ SumFunction(g) = G[D] /\ G[D] \in Int
    <2> HIDE DEF g
    <2> QED
        BY <1>1, SumRules
<1> DEFINE P == {s \in SUBSET D : G[s] = c * F[s]}
<1>4. /\ \A s \in SUBSET D : F[s] \in Int /\ G[s] \in Int
      /\ F[{}] = 0 /\ G[{}] = 0
      /\ \A s \in SUBSET D : \A x \in s :
            F[s] = f[x] + F[s \ {x}] /\ G[s] = c * f[x] + G[s \ {x}]
    BY <1>2, <1>3 DEF Sums
<1>5. {} \in P
    BY <1>4
<1>6. ASSUME NEW s \in SUBSET D, NEW x \in s, s \ {x} \in P PROVE s \in P
    <2>1. s \ {x} \in SUBSET D /\ G[s \ {x}] = c * F[s \ {x}] /\ x \in D
        BY <1>6
    <2>2. F[s] = f[x] + F[s \ {x}] /\ G[s] = c * f[x] + G[s \ {x}]
        BY <1>4, <2>1
    <2>3. PICK a \in Int, b \in Int : a = f[x] /\ b = F[s \ {x}]
        BY <1>4, <2>1
    <2>4. c * a + c * b = c * (a + b)
        OBVIOUS
    <2>5. G[s] = c * F[s]
        BY <2>1, <2>2, <2>3, <2>4
    <2> QED
        BY <2>5
<1>7. D \in P
    <2> HIDE DEF P
    <2>1. D \in SUBSET D
        OBVIOUS
    <2> QED
        BY <1>5, <1>6, <2>1, SubsetInduction
<1> QED
    BY <1>2, <1>3, <1>7

-----------------------------------------------------------------------------
(* A function on 1..n is a list.                                           *)
LEMMA FunctionList ==
    ASSUME NEW n \in Nat, NEW X, NEW s, s \in [1..n -> X]
    PROVE  s \in Seq(X) /\ Len(s) = n /\ DOMAIN s = 1..n
<1>1. s \in Seq(X)
    BY SeqDef
<1>2. DOMAIN s = 1..n /\ DOMAIN s = 1..Len(s) /\ Len(s) \in Nat
    BY <1>1, LenProperties
<1> QED
    BY <1>1, <1>2

LEMMA ListElements ==
    ASSUME NEW X, NEW s, s \in Seq(X)
    PROVE  /\ Len(s) \in Nat /\ DOMAIN s = 1..Len(s) /\ s \in [1..Len(s) -> X]
           /\ \A k \in 1..Len(s) : s[k] \in X /\ s[k] \in ToSet(s)
           /\ ToSet(s) = {s[k] : k \in 1..Len(s)} /\ ToSet(s) \subseteq X
<1>1. Len(s) \in Nat /\ DOMAIN s = 1..Len(s) /\ s \in [1..Len(s) -> X]
    BY LenProperties
<1> QED
    BY <1>1 DEF ToSet

LEMMA ConcatElements ==
    ASSUME NEW X, NEW s, s \in Seq(X), NEW t, t \in Seq(X)
    PROVE  s \o t \in Seq(X) /\ Len(s \o t) = Len(s) + Len(t)
           /\ ToSet(s \o t) = ToSet(s) \cup ToSet(t)
<1>1. PICK r : r = s \o t
    OBVIOUS
<1>2. /\ r \in Seq(X) /\ Len(r) = Len(s) + Len(t)
      /\ \A i \in 1..Len(s) : r[i] = s[i]
      /\ \A i \in (Len(s) + 1)..(Len(s) + Len(t)) : r[i] = t[i - Len(s)]
    <2>1. /\ s \o t \in Seq(X) /\ Len(s \o t) = Len(s) + Len(t)
          /\ \A i \in 1..(Len(s) + Len(t)) :
                (s \o t)[i] = IF i <= Len(s) THEN s[i] ELSE t[i - Len(s)]
        BY ConcatProperties
    <2>2. Len(s) \in Nat /\ Len(t) \in Nat
        BY LenProperties
    <2>3. \A i \in 1..(Len(s) + Len(t)) :
                r[i] = IF i <= Len(s) THEN s[i] ELSE t[i - Len(s)]
        BY <1>1, <2>1
    <2> QED
        BY <1>1, <2>1, <2>2, <2>3
<1>3. /\ Len(s) \in Nat /\ Len(t) \in Nat
      /\ ToSet(s) = {s[k] : k \in 1..Len(s)} /\ ToSet(t) = {t[k] : k \in 1..Len(t)}
      /\ ToSet(r) = {r[k] : k \in 1..Len(r)}
    BY <1>2, ListElements
<1>4. ToSet(r) \subseteq ToSet(s) \cup ToSet(t)
    <2> SUFFICES ASSUME NEW i \in 1..(Len(s) + Len(t)) PROVE r[i] \in ToSet(s) \cup ToSet(t)
        BY <1>2, <1>3
    <2>1. CASE i <= Len(s)
        BY <1>2, <1>3, <2>1
    <2>2. CASE i > Len(s)
        <3>1. i - Len(s) \in 1..Len(t) /\ i \in (Len(s) + 1)..(Len(s) + Len(t))
            BY <1>3, <2>2
        <3>2. r[i] = t[i - Len(s)]
            BY <1>2, <3>1
        <3> QED
            BY <1>3, <3>1, <3>2
    <2> QED
        BY <1>3, <2>1, <2>2
<1>5. ToSet(s) \subseteq ToSet(r)
    <2>1. \A i \in 1..Len(s) : i \in 1..Len(r) /\ r[i] = s[i]
        BY <1>2, <1>3
    <2> QED
        BY <1>3, <2>1
<1>6. ToSet(t) \subseteq ToSet(r)
    <2> SUFFICES ASSUME NEW k \in 1..Len(t) PROVE t[k] \in ToSet(r)
        BY <1>3
    <2>1. k + Len(s) \in (Len(s) + 1)..(Len(s) + Len(t)) /\ (k + Len(s)) - Len(s) = k
          /\ k + Len(s) \in 1..Len(r)
        BY <1>2, <1>3
    <2>2. r[k + Len(s)] = t[k]
        BY <1>2, <2>1
    <2> QED
        BY <1>3, <2>1, <2>2
<1> QED
    BY <1>1, <1>2, <1>4, <1>5, <1>6

(* The parts of a list that a fold from the left has been through.         *)
LEMMA Segments ==
    ASSUME NEW N \in Nat
    PROVE  /\ IsFiniteSet(1..N) /\ 1..0 = {}
           /\ \A T \in SUBSET (1..N) : T # {} => Max(T) \in T
           /\ \A k \in 1..N : /\ 1..k \in SUBSET (1..N) /\ 1..k # {}
                              /\ Max(1..k) = k /\ (1..k) \ {k} = 1..(k - 1)
<1>1. IsFiniteSet(1..N)
    <2>1. 1 \in Int /\ N \in Int
        OBVIOUS
    <2> QED
        BY <2>1, FS_Interval
<1>2. \A T \in SUBSET (1..N) : T # {} => Max(T) \in T /\ \A k \in T : Max(T) >= k
    BY MaxOfNumbers
<1>3. ASSUME NEW k \in 1..N
      PROVE  /\ 1..k \in SUBSET (1..N) /\ 1..k # {}
             /\ Max(1..k) = k /\ (1..k) \ {k} = 1..(k - 1)
    <2>1. 1..k \in SUBSET (1..N) /\ 1..k # {} /\ k \in 1..k
        OBVIOUS
    <2>2. PICK m : m = Max(1..k)
        OBVIOUS
    <2>3. m \in 1..k /\ m >= k
        BY <1>2, <2>1, <2>2
    <2>4. m = k
        BY <2>3
    <2> QED
        BY <2>1, <2>2, <2>4
<1> QED
    BY <1>1, <1>2, <1>3

\* What a fold from the left does at each element.
FoldsLeft(f, N, X, base, next) ==
    /\ f \in [SUBSET (1..N) -> X]
    /\ f[{}] = base
    /\ \A s \in SUBSET (1..N) : s # {} =>
            /\ Max(s) \in 1..N /\ f[s \ {Max(s)}] \in X
            /\ f[s] = next[Max(s)][f[s \ {Max(s)}]]

LEMMA LeftFold ==
    ASSUME NEW N \in Nat, NEW X, NEW base, base \in X, NEW next,
           \A k \in 1..N : \A a \in X : next[k][a] \in X
    PROVE  \E f : FoldsLeft(f, N, X, base, next)
<1> DEFINE D == 1..N
           pick == [s \in SUBSET D |-> Max(s)]
<1>1. IsFiniteSet(D) /\ \A s \in SUBSET D : s # {} => Max(s) \in s
    BY Segments
<1>2. \A s \in SUBSET D : pick[s] = Max(s)
    OBVIOUS
<1> HIDE DEF pick, D
<1>3. Foldable(D, X, base, pick, next)
    BY <1>1, <1>2 DEF Foldable, D
<1>4. PICK f : IsFold(f, D, X, base, pick, next)
    BY <1>3, SetFold, Zenon
<1>5. /\ f \in [SUBSET D -> X]
      /\ \A s \in SUBSET D : f[s] = IF s = {} THEN base ELSE next[pick[s]][f[s \ {pick[s]}]]
    BY <1>4, Zenon DEF IsFold
<1>6. f[{}] = base
    BY <1>5
<1>7. ASSUME NEW s \in SUBSET D, s # {}
      PROVE  /\ Max(s) \in D /\ f[s \ {Max(s)}] \in X
             /\ f[s] = next[Max(s)][f[s \ {Max(s)}]]
    <2>1. Max(s) \in s
        BY <1>1, <1>7
    <2>2. s \ {Max(s)} \in SUBSET D
        OBVIOUS
    <2> QED
        BY <1>2, <1>5, <1>7, <2>1, <2>2
<1> QED
    BY <1>5, <1>6, <1>7, Zenon DEF FoldsLeft, D

\* What is flattened after each list.
FlattensTo(g, s, n, X) ==
    /\ g \in [0..n -> Seq(X)] /\ g[0] = <<>>
    /\ \A k \in 1..n : g[k] = g[k - 1] \o s[k]

LEMMA FlattenedSteps ==
    ASSUME NEW n \in Nat, NEW X, NEW s, s \in [1..n -> Seq(X)]
    PROVE  \E g : FlattensTo(g, s, n, X) /\ FlattenSeq(s) = g[n]
<1> DEFINE next == [k \in 1..n |-> [a \in Seq(X) |-> a \o s[k]]]
<1>1. \A k \in 1..n : s[k] \in Seq(X)
    OBVIOUS
<1>2. <<>> \in Seq(X)
    OBVIOUS
<1>3. \A k \in 1..n : \A a \in Seq(X) : next[k][a] = a \o s[k] /\ next[k][a] \in Seq(X)
    BY <1>1, ConcatElements
<1> HIDE DEF next
<1>4. PICK f : FoldsLeft(f, n, Seq(X), <<>>, next)
    BY <1>2, <1>3, LeftFold
<1>5. ASSUME NEW k \in 1..n
      PROVE  /\ f[1..(k - 1)] \in Seq(X) /\ f[1..k] \in Seq(X)
             /\ f[1..k] = f[1..(k - 1)] \o s[k]
    <2>1. 1..k \in SUBSET (1..n) /\ 1..k # {} /\ Max(1..k) = k /\ (1..k) \ {k} = 1..(k - 1)
        BY Segments
    <2>2. f[1..k] = next[k][f[1..(k - 1)]] /\ f[1..(k - 1)] \in Seq(X)
        BY <1>4, <2>1 DEF FoldsLeft
    <2>3. f[1..k] \in Seq(X)
        BY <1>4, <2>1 DEF FoldsLeft
    <2> QED
        BY <1>3, <2>2, <2>3
<1>6. f[1..0] = <<>>
    <2>1. 1..0 = {}
        OBVIOUS
    <2> QED
        BY <1>4, <2>1 DEF FoldsLeft
<1>7. Len(s) = n
    BY FunctionList
<1>8. FlattenSeq(s) = f[1..n]
    <2>1. CASE n = 0
        <3>1. s = <<>>
            BY <2>1
        <3> QED
            BY <1>6, <1>7, <2>1, <3>1 DEF FlattenSeq
    <2>2. CASE n # 0
        <3> DEFINE g == [k \in 1..n |-> f[1..k]]
        <3>1. g \in [1..n -> Seq(X)]
            BY <1>5
        <3>2. \A i \in 2..n : g[i] = g[i - 1] \o s[i]
            <4> SUFFICES ASSUME NEW i \in 2..n PROVE g[i] = g[i - 1] \o s[i]
                OBVIOUS
            <4>1. i \in 1..n /\ i - 1 \in 1..n
                OBVIOUS
            <4>2. g[i] = f[1..i] /\ g[i - 1] = f[1..(i - 1)]
                BY <4>1
            <4> HIDE DEF g
            <4> QED
                BY <1>5, <4>1, <4>2
        <3>3. g[1] = s[1]
            <4>1. 1 \in 1..n /\ g[1] = f[1..1] /\ 1..(1 - 1) = 1..0
                BY <2>2
            <4>2. f[1..1] = f[1..0] \o s[1]
                BY <1>5, <4>1
            <4>3. <<>> \o s[1] = s[1]
                BY <1>1, <4>1, EmptySeq, ConcatEmptySeq
            <4> QED
                BY <1>6, <4>1, <4>2, <4>3
        <3>4. n \in 1..n
            BY <2>2
        <3>5. g[n] = f[1..n]
            BY <3>4
        <3> HIDE DEF g
        <3>6. Flattens(g, s, n)
            BY <3>2, <3>3 DEF Flattens
        <3>7. FlattenSeq(s) = g[n]
            BY <1>7, <2>2, <3>1, <3>6, Flattened
        <3> QED
            BY <3>5, <3>7
    <2> QED
        BY <2>1, <2>2
<1> DEFINE h == [k \in 0..n |-> f[1..k]]
<1>9. ASSUME NEW k \in 0..n PROVE h[k] = f[1..k] /\ f[1..k] \in Seq(X)
    <2>1. 1..k \in SUBSET (1..n)
        OBVIOUS
    <2> QED
        BY <1>4, <2>1 DEF FoldsLeft
<1>10. h \in [0..n -> Seq(X)]
    BY <1>9
<1>11. h[0] = <<>> /\ h[n] = FlattenSeq(s)
    BY <1>6, <1>8, <1>9
<1>12. ASSUME NEW k \in 1..n PROVE h[k] = h[k - 1] \o s[k]
    <2>1. k \in 0..n /\ k - 1 \in 0..n
        OBVIOUS
    <2> HIDE DEF h
    <2> QED
        BY <1>5, <1>9, <2>1
<1> HIDE DEF h
<1>13. FlattensTo(h, s, n, X)
    BY <1>10, <1>11, <1>12 DEF FlattensTo
<1> QED
    BY <1>11, <1>13

LEMMA FlattenedList ==
    ASSUME NEW n \in Nat, NEW X, NEW s, s \in [1..n -> Seq(X)]
    PROVE  /\ FlattenSeq(s) \in Seq(X)
           /\ \A x : x \in ToSet(FlattenSeq(s)) <=> \E i \in 1..n : x \in ToSet(s[i])
<1>1. PICK g : FlattensTo(g, s, n, X) /\ FlattenSeq(s) = g[n]
    BY FlattenedSteps
<1>2. g[0] = <<>> /\ \A k \in 0..n : g[k] \in Seq(X)
    BY <1>1 DEF FlattensTo
<1>3. \A k \in 1..n : g[k] = g[k - 1] \o s[k] /\ s[k] \in Seq(X)
    BY <1>1 DEF FlattensTo
<1> DEFINE In(k, x) == \E i \in 1..k : x \in ToSet(s[i])
           Good(k) == \A x : x \in ToSet(g[k]) <=> In(k, x)
           P == {k \in 0..n : Good(k)}
<1>4. Good(0)
    <2>1. ToSet(g[0]) = {}
        BY <1>2 DEF ToSet
    <2> QED
        BY <2>1
<1>5. ASSUME NEW k \in 1..n, Good(k - 1) PROVE Good(k)
    <2>1. PICK a, b, c : a = g[k - 1] /\ b = g[k] /\ c = s[k]
        OBVIOUS
    <2>2. a \in Seq(X) /\ c \in Seq(X) /\ b = a \o c
        <3>1. k - 1 \in 0..n
            OBVIOUS
        <3> QED
            BY <1>2, <1>3, <2>1, <3>1
    <2>3. ToSet(b) = ToSet(a) \cup ToSet(c)
        BY <2>2, ConcatElements
    <2>4. \A x : x \in ToSet(a) <=> In(k - 1, x)
        BY <1>5, <2>1, Zenon
    <2>5. \A x : In(k, x) <=> In(k - 1, x) \/ x \in ToSet(c)
        BY <2>1
    <2> HIDE DEF In
    <2>6. \A x : x \in ToSet(b) <=> In(k, x)
        BY <2>3, <2>4, <2>5
    <2> QED
        BY <2>1, <2>6, Zenon
<1> HIDE DEF Good
<1>6. 0 \in P /\ \A k \in 1..n : k - 1 \in P => k \in P
    BY <1>4, <1>5
<1> HIDE DEF P
<1>7. n \in P
    <2>1. \A k \in 0..n : k \in P
        BY <1>6, StepByStep, Zenon
    <2> QED
        BY <2>1
<1>8. Good(n)
    BY <1>7 DEF P
<1>9. g[n] \in Seq(X)
    BY <1>2
<1> QED
    BY <1>1, <1>8, <1>9, Zenon DEF Good

(* The order of keys is a weak one on what has them.                       *)
KeyOrder(n, key) == {e \in (1..n) \X (1..n) : Precedes(key[e[1]], key[e[2]])}

LEMMA KeysOrder ==
    ASSUME NEW n \in Nat, NEW m \in Nat, NEW key \in Keys(n, m)
    PROVE  WeaklyOrders(1..n, KeyOrder(n, key))
<1>1. ASSUME NEW j \in 1..n, NEW k \in 1..n
      PROVE  <<j, k>> \in KeyOrder(n, key) <=> Precedes(key[j], key[k])
    BY DEF KeyOrder
<1>2. \A k \in 1..n : key[k] \in [1..m -> Int]
    BY DEF Keys
<1>3. ASSUME NEW x \in 1..n, NEW y \in 1..n, <<x, y>> \in KeyOrder(n, key),
             <<y, x>> \in KeyOrder(n, key)
      PROVE  FALSE
    <2>1. PICK a \in [1..m -> Int], b \in [1..m -> Int] : a = key[x] /\ b = key[y]
        BY <1>2
    <2>2. Precedes(a, b) /\ Precedes(b, a)
        BY <1>1, <1>3, <2>1
    <2>3. Precedes(a, a)
        BY <2>2, PrecedesTransitive
    <2> QED
        BY <2>3, PrecedesIrreflexive
<1>4. ASSUME NEW x \in 1..n, NEW y \in 1..n, NEW z \in 1..n, <<x, y>> \in KeyOrder(n, key)
      PROVE  <<x, z>> \in KeyOrder(n, key) \/ <<z, y>> \in KeyOrder(n, key)
    <2>1. PICK a \in [1..m -> Int], b \in [1..m -> Int], c \in [1..m -> Int] :
            a = key[x] /\ b = key[y] /\ c = key[z]
        BY <1>2
    <2>2. Precedes(a, b)
        BY <1>1, <1>4, <2>1
    <2>3. Precedes(a, c) \/ Precedes(c, b)
        <3>1. CASE a = c
            BY <2>2, <3>1
        <3>2. CASE a # c
            <4>1. Precedes(a, c) \/ Precedes(c, a)
                BY <3>2, PrecedesTotal
            <4>2. Precedes(c, a) => Precedes(c, b)
                BY <2>2, PrecedesTransitive
            <4> QED
                BY <4>1, <4>2
        <3> QED
            BY <3>1, <3>2
    <2> QED
        BY <1>1, <2>1, <2>3
<1> QED
    BY <1>3, <1>4 DEF WeaklyOrders

\* A list of three numbers.
LEMMA ThreeNumbers ==
    ASSUME NEW a \in Int, NEW b \in Int, NEW c \in Int
    PROVE  <<a, b, c>> \in [1..3 -> Int]
OBVIOUS

(* What a comprehension with an if returns: as many as are chosen.         *)
LEMMA FilteredList ==
    ASSUME NEW X, NEW s \in Seq(X), NEW T, T \subseteq DOMAIN s
    PROVE  /\ Chosen(s, T) \in Seq(X) /\ Len(Chosen(s, T)) = Cardinality(T)
           /\ Cardinality(T) \in Nat /\ ToSet(Chosen(s, T)) = {s[t] : t \in T}
           /\ (T = {} <=> Chosen(s, T) = <<>>)
<1>1. PICK N \in Nat : N = Len(s) /\ DOMAIN s = 1..N /\ \A k \in 1..N : s[k] \in X
    BY ListElements
<1>2. PICK r : r = Chosen(s, T)
    OBVIOUS
<1>3. /\ r \in Seq(X) /\ Len(r) = Cardinality(T) /\ Cardinality(T) \in 0..N
      /\ ToSet(r) = {s[t] : t \in T}
    <2>1. T \subseteq 1..N /\ \A t \in T : s[t] \in X
        BY <1>1
    <2> QED
        BY <1>1, <1>2, <2>1, ChosenElements
<1>4. ToSet(r) = {} <=> T = {}
    BY <1>3
<1>5. ToSet(r) = {} <=> r = <<>>
    <2>1. PICK L \in Nat : L = Len(r) /\ ToSet(r) = {r[k] : k \in 1..L}
        BY <1>3, ListElements
    <2>2. r = <<>> <=> L = 0
        BY <1>3, <2>1, EmptySeq
    <2>3. ToSet(r) = {} <=> L = 0
        <3>1. CASE L = 0
            BY <2>1, <3>1
        <3>2. CASE L # 0
            <4>1. 1 \in 1..L
                BY <3>2
            <4>2. r[1] \in ToSet(r)
                BY <2>1, <4>1
            <4> QED
                BY <3>2, <4>2
        <3> QED
            BY <3>1, <3>2
    <2> QED
        BY <2>2, <2>3
<1>6. Chosen(s, T) \in Seq(X) /\ Len(Chosen(s, T)) = Cardinality(T)
    BY <1>2, <1>3
<1>7. Cardinality(T) \in Nat /\ ToSet(Chosen(s, T)) = {s[t] : t \in T}
    BY <1>2, <1>3
<1>8. T = {} <=> Chosen(s, T) = <<>>
    BY <1>2, <1>4, <1>5
<1> QED
    BY <1>6, <1>7, <1>8

LEMMA ThreeElements ==
    ASSUME NEW a, NEW b, NEW c
    PROVE  IsFiniteSet({a, b, c})
<1>1. IsFiniteSet({a}) /\ IsFiniteSet({b}) /\ IsFiniteSet({c})
    BY FS_Singleton
<1>2. IsFiniteSet({a} \cup {b})
    BY <1>1, FS_Union
<1>3. IsFiniteSet({a} \cup {b} \cup {c})
    BY <1>1, <1>2, FS_Union
<1> QED
    BY <1>3

\* A sum of natural numbers is one.
LEMMA SumOfNaturals ==
    ASSUME NEW D, IsFiniteSet(D), NEW f \in [D -> Nat]
    PROVE  SumFunction(f) \in Nat
<1>1. f \in [D -> Int] /\ \A x \in D : f[x] >= 0
    OBVIOUS
<1>Z. PICK c \in Int : c = 0
    OBVIOUS
<1> DEFINE z == [x \in D |-> c * f[x]]
<1>2. z \in [D -> Int] /\ \A x \in D : z[x] = 0
    BY <1>1, <1>Z
<1>3. SumFunction(z) = c * SumFunction(f)
    BY <1>1, SumScaled, Zenon
<1> HIDE DEF z
<1>4. SumFunction(f) \in Int /\ SumFunction(z) <= SumFunction(f)
    <2>1. \A x \in D : z[x] <= f[x]
        BY <1>1, <1>2
    <2> QED
        BY <1>1, <1>2, <2>1, SumGrows
<1>5. SumFunction(z) = 0
    BY <1>3, <1>4, <1>Z
<1> QED
    BY <1>4, <1>5
=============================================================================
