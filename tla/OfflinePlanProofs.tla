------------------------- MODULE OfflinePlanProofs -------------------------
(***************************************************************************)
(* The two halves of SpeedPlanOffline (SpeedPlan.c:154-222) for every line *)
(* and every section: what is made of a plan, found or stored, and the     *)
(* search, for any number of wolves, rounds and places and any cost.       *)
(***************************************************************************)
EXTENDS OfflinePlan, Search, FiniteSetTheorems, SequenceTheorems, WellFoundedInduction, TLAPS

-----------------------------------------------------------------------------
(* A set of numbers has a least one. *)
LEMMA LeastOf ==
  ASSUME NEW S \in SUBSET Nat, S # {}
  PROVE  Min(S) \in S /\ \A i \in S : Min(S) <= i
<1>. DEFINE R == {ss \in Nat \X Nat : ss[1] < ss[2]}
<1>1. \E x \in S : \A y \in S : ~(<<y, x>> \in R)
  <2>1. IsWellFoundedOn(R, Nat)
    BY NatLessThanWellFounded, Zenon DEF OpToRel
  <2>2. S \subseteq Nat
    OBVIOUS
  <2>. HIDE DEF R
  <2>. QED BY <2>1, <2>2, WFMin, Zenon
<1>2. ASSUME NEW x \in S, NEW y \in S, ~(<<y, x>> \in R)
      PROVE  x <= y
  <2>1. x \in Nat /\ y \in Nat
    OBVIOUS
  <2>. QED BY <1>2, <2>1
<1>3. \E x \in S : \A y \in S : x <= y
  BY <1>1, <1>2
<1>. HIDE DEF R
<1>. QED BY <1>3, Zenon DEF Min

(* Of one set each number has fewer below it than a greater one. *)
Below(S, i) == {j \in S : j < i}

LEMMA BelowGrows ==
  ASSUME NEW S \in SUBSET Int, IsFiniteSet(S)
  PROVE  /\ \A i \in S : Cardinality(Below(S, i)) \in 0..(Cardinality(S) - 1)
         /\ \A i, k \in S : i < k => Cardinality(Below(S, i)) < Cardinality(Below(S, k))
<1>1. Cardinality(S) \in Nat
  BY FS_CardinalityType
<1>2. ASSUME NEW i \in S
      PROVE  /\ IsFiniteSet(Below(S, i)) /\ Cardinality(Below(S, i)) \in Nat
             /\ Cardinality(Below(S, i)) < Cardinality(S)
  <2>1. Below(S, i) \in SUBSET S /\ i \notin Below(S, i)
    BY DEF Below
  <2>2. /\ IsFiniteSet(Below(S, i)) /\ Cardinality(Below(S, i)) <= Cardinality(S)
        /\ Cardinality(S) = Cardinality(Below(S, i)) => S = Below(S, i)
    BY <2>1, FS_Subset
  <2>3. Cardinality(Below(S, i)) \in Nat
    BY <2>2, FS_CardinalityType
  <2>. QED BY <1>1, <2>1, <2>2, <2>3
<1>3. ASSUME NEW i \in S, NEW k \in S, i < k
      PROVE  Cardinality(Below(S, i)) < Cardinality(Below(S, k))
  <2>1. Below(S, i) \cup {i} \in SUBSET Below(S, k) /\ i \notin Below(S, i)
    <3>1. i \in Int /\ k \in Int
      OBVIOUS
    <3>2. \A j \in S : j < i => j < k
      BY <1>3, <3>1
    <3>3. \A j \in Below(S, i) \cup {i} : j \in Below(S, k)
      BY <1>3, <3>2 DEF Below
    <3>4. i \notin Below(S, i)
      BY <3>1 DEF Below
    <3>. QED BY <3>3, <3>4
  <2>2. Cardinality(Below(S, i) \cup {i}) <= Cardinality(Below(S, k))
    BY <1>2, <2>1, FS_Subset
  <2>3. Cardinality(Below(S, i) \cup {i}) = Cardinality(Below(S, i)) + 1
    BY <1>2, <2>1, FS_AddElement
  <2>4. Cardinality(Below(S, i)) \in Nat /\ Cardinality(Below(S, k)) \in Nat
    BY <1>2
  <2>. QED BY <2>2, <2>3, <2>4
<1>. QED BY <1>1, <1>2, <1>3

(* A set that is counted comes out in order, and whole. *)
LEMMA CountedIs ==
  ASSUME NEW S \in SUBSET Int, IsFiniteSet(S)
  PROVE  /\ Cardinality(S) \in Nat
         /\ Counted(S) \in [1..Cardinality(S) -> S]
         /\ \A m, n \in 1..Cardinality(S) : m < n => Counted(S)[m] < Counted(S)[n]
         /\ \A i \in S : \E n \in 1..Cardinality(S) : Counted(S)[n] = i
<1>. DEFINE c == Cardinality(S)
            rank(i) == Cardinality(Below(S, i))
            f == [i \in S |-> rank(i)]
            T == 0..(c - 1)
<1>1. c \in Nat
  BY FS_CardinalityType
<1>2. \A i \in S : rank(i) \in T
  BY BelowGrows
<1>3. \A i, k \in S : i < k => rank(i) < rank(k)
  BY BelowGrows
<1>4. \A i, k \in S : rank(i) = rank(k) => i = k
  <2>. SUFFICES ASSUME NEW i \in S, NEW k \in S, i # k PROVE rank(i) # rank(k)
    OBVIOUS
  <2>1. rank(i) \in Int /\ rank(k) \in Int /\ i \in Int /\ k \in Int
    BY <1>1, <1>2
  <2>2. (i < k => rank(i) < rank(k)) /\ (k < i => rank(k) < rank(i))
    BY <1>3
  <2>. QED BY <2>1, <2>2
<1>5. f \in Injection(S, T)
  <2>1. f \in [S -> T]
    BY <1>2
  <2>2. \A i, k \in S : f[i] = f[k] => i = k
    BY <1>4
  <2>. QED BY <2>1, <2>2 DEF Injection, IsInjective
<1>6. IsFiniteSet(T) /\ Cardinality(T) = c
  BY <1>1, FS_Interval
<1>7. \A k \in T : \E i \in S : rank(i) = k
  <2>1. f \in Surjection(S, T)
    <3>. HIDE DEF f, T, c
    <3>1. Cardinality(S) = Cardinality(T)
      BY <1>6 DEF c
    <3>. QED BY <1>5, <1>6, <3>1, FS_Injection
  <2>2. \A k \in T : \E i \in S : f[i] = k
    BY <2>1 DEF Surjection
  <2>. QED BY <2>2
<1>8. ASSUME NEW n \in 1..c
      PROVE  Counted(S)[n] \in S /\ rank(Counted(S)[n]) = n - 1
  <2>1. n - 1 \in T
    BY <1>1
  <2>2. \E i \in S : rank(i) = n - 1
    BY <1>7, <2>1
  <2>3. Counted(S)[n] = CHOOSE i \in S : rank(i) = n - 1
    BY DEF Counted, Below
  <2>. HIDE DEF rank
  <2>. QED BY <2>2, <2>3
<1>9. ASSUME NEW m \in 1..c, NEW n \in 1..c, m < n
      PROVE  Counted(S)[m] < Counted(S)[n]
  <2>1. /\ Counted(S)[m] \in S /\ rank(Counted(S)[m]) = m - 1
        /\ Counted(S)[n] \in S /\ rank(Counted(S)[n]) = n - 1
    BY <1>8
  <2>2. Counted(S)[m] \in Int /\ Counted(S)[n] \in Int /\ m \in Int /\ n \in Int
    <3>. HIDE DEF rank
    <3>1. Counted(S)[m] \in Int /\ Counted(S)[n] \in Int
      BY <2>1
    <3>2. m \in Int /\ n \in Int
      BY <1>1
    <3>. QED BY <3>1, <3>2
  <2>3. Counted(S)[n] < Counted(S)[m] => n - 1 < m - 1
    BY <1>3, <2>1
  <2>4. Counted(S)[n] = Counted(S)[m] => n - 1 = m - 1
    BY <2>1
  <2>. QED BY <1>9, <2>2, <2>3, <2>4
<1>10. ASSUME NEW i \in S PROVE \E n \in 1..c : Counted(S)[n] = i
  <2>1. rank(i) \in T
    BY <1>2
  <2>2. rank(i) + 1 \in 1..c /\ (rank(i) + 1) - 1 = rank(i)
    BY <1>1, <2>1
  <2>3. Counted(S)[rank(i) + 1] \in S /\ rank(Counted(S)[rank(i) + 1]) = rank(i)
    BY <1>8, <2>2
  <2>4. Counted(S)[rank(i) + 1] = i
    BY <1>4, <2>3
  <2>. QED BY <2>2, <2>4
<1>11. Counted(S) \in [1..c -> S]
  <2>. DEFINE value(n) == CHOOSE i \in S : rank(i) = n - 1
  <2>1. Counted(S) = [n \in 1..c |-> value(n)]
    BY DEF Counted, Below
  <2>2. \A n \in 1..c : value(n) \in S
    BY <1>8, <2>1
  <2>. HIDE DEF value
  <2>. QED BY <2>1, <2>2
<1>. QED BY <1>1, <1>9, <1>10, <1>11

-----------------------------------------------------------------------------
(* What holds at 0, and at each number when it holds at the one before,    *)
(* holds up to n; and down from b, likewise.                               *)
LEMMA UpTo ==
  ASSUME NEW n \in Nat, NEW S, 0 \in S, \A i \in 1..n : i - 1 \in S => i \in S
  PROVE  \A i \in 0..n : i \in S
<1>. DEFINE out == {i \in 0..n : i \notin S}
<1>. SUFFICES ASSUME out # {} PROVE FALSE
  OBVIOUS
<1>1. out \in SUBSET Nat
  OBVIOUS
<1>2. PICK m \in out : \A i \in out : m <= i
  <2>. HIDE DEF out
  <2>. QED BY <1>1, LeastOf
<1>3. m \in 0..n /\ m \notin S
  OBVIOUS
<1>4. m # 0
  BY <1>3
<1>5. m \in 1..n /\ m - 1 \in 0..n /\ ~(m <= m - 1)
  BY <1>3, <1>4
<1>6. m - 1 \notin out
  BY <1>2, <1>5
<1>. QED BY <1>3, <1>5, <1>6

LEMMA DownFrom ==
  ASSUME NEW a \in Int, NEW b \in Int, a <= b, NEW S,
         b \in S, \A i \in a..(b - 1) : i + 1 \in S => i \in S
  PROVE  \A i \in a..b : i \in S
<1>. DEFINE n == b - a
            R == {i \in 0..n : b - i \in S}
<1>1. n \in Nat /\ 0 \in R
  OBVIOUS
<1>2. ASSUME NEW i \in 1..n, i - 1 \in R PROVE i \in R
  <2>1. b - i \in a..(b - 1) /\ (b - i) + 1 = b - (i - 1) /\ i \in 0..n
    OBVIOUS
  <2>. QED BY <1>2, <2>1
<1>3. \A i \in 0..n : i \in R
  <2>. HIDE DEF R, n
  <2>. QED BY <1>1, <1>2, UpTo
<1>4. \A i \in a..b : b - i \in 0..n /\ b - (b - i) = i
  OBVIOUS
<1>5. ASSUME NEW i \in a..b PROVE i \in S
  <2>1. b - (b - i) \in S
    BY <1>3, <1>4
  <2>. QED BY <1>4, <2>1
<1>. QED BY <1>5

IsUpwards(f, n, start, next) ==
  f = [i \in 0..n |-> IF i = 0 THEN start ELSE next[<<i, f[i - 1]>>]]

IsDownwards(f, a, b, start, next) ==
  f = [i \in a..b |-> IF i = b THEN start ELSE next[<<i, f[i + 1]>>]]

(* A function may be defined upwards: each value from the one before, in   *)
(* the set given for its place.                                            *)
LEMMA Upwards ==
  ASSUME NEW n \in Nat, NEW V, NEW start, NEW next,
         start \in V[0], \A i \in 1..n : \A v \in V[i - 1] : next[<<i, v>>] \in V[i]
  PROVE  \E f : IsUpwards(f, n, start, next) /\ \A i \in 0..n : f[i] \in V[i]
<1>. DEFINE Is(f, m) == /\ f = [i \in 0..m |-> IF i = 0 THEN start ELSE next[<<i, f[i - 1]>>]]
                        /\ \A i \in 0..m : f[i] \in V[i]
            S == {m \in 0..n : \E f : Is(f, m)}
<1>1. 0 \in S
  <2>. DEFINE f == [i \in 0..0 |-> start]
  <2>1. f = [i \in 0..0 |-> IF i = 0 THEN start ELSE next[<<i, f[i - 1]>>]]
    OBVIOUS
  <2>2. \A i \in 0..0 : f[i] \in V[i]
    OBVIOUS
  <2>3. Is(f, 0)
    BY <2>1, <2>2
  <2>. HIDE DEF Is, f
  <2>. QED BY <2>3
<1>2. ASSUME NEW m \in 1..n, m - 1 \in S PROVE m \in S
  <2>1. PICK f : Is(f, m - 1)
    BY <1>2
  <2>. DEFINE g == [i \in 0..m |-> IF i = m THEN next[<<m, f[m - 1]>>] ELSE f[i]]
  <2>2. m - 1 \in 0..(m - 1) /\ m # 0 /\ m - 1 # m
    OBVIOUS
  <2>3. f[m - 1] \in V[m - 1]
    BY <2>1, <2>2
  <2>4. \A i \in 0..(m - 1) : i \in 0..m /\ i # m /\ (i # 0 => i - 1 \in 0..(m - 1))
    OBVIOUS
  <2>5. \A i \in 0..(m - 1) : g[i] = f[i]
    BY <2>4
  <2>6. m \in 0..m /\ g[m] = next[<<m, f[m - 1]>>]
    OBVIOUS
  <2>. HIDE DEF g
  <2>7. ASSUME NEW i \in 0..m
        PROVE  /\ g[i] = IF i = 0 THEN start ELSE next[<<i, g[i - 1]>>]
               /\ g[i] \in V[i]
    <3>1. CASE i = m
      <4>1. g[m - 1] = f[m - 1]
        BY <2>2, <2>5
      <4>2. g[m] = next[<<m, g[m - 1]>>]
        BY <2>6, <4>1
      <4>3. g[m] \in V[m]
        BY <1>2, <2>3, <2>6
      <4>. QED BY <2>2, <3>1, <4>2, <4>3, Zenon
    <3>2. CASE i # m
      <4>1. i \in 0..(m - 1)
        BY <3>2
      <4>2. f[i] = (IF i = 0 THEN start ELSE next[<<i, f[i - 1]>>]) /\ f[i] \in V[i]
        BY <2>1, <4>1
      <4>3. g[i] = f[i] /\ (i # 0 => g[i - 1] = f[i - 1])
        BY <2>4, <2>5, <4>1
      <4>. QED BY <4>2, <4>3
    <3>. QED BY <3>1, <3>2
  <2>8. g = [i \in 0..m |-> g[i]]
    BY DEF g
  <2>9. g = [i \in 0..m |-> IF i = 0 THEN start ELSE next[<<i, g[i - 1]>>]]
    BY <2>7, <2>8
  <2>10. Is(g, m)
    BY <2>7, <2>9
  <2>11. m \in 0..n
    OBVIOUS
  <2>. HIDE DEF Is
  <2>. QED BY <2>10, <2>11
<1>3. n \in S
  <2>. HIDE DEF S
  <2>1. \A i \in 0..n : i \in S
    BY <1>1, <1>2, UpTo
  <2>. QED BY <2>1
<1>4. PICK f : Is(f, n)
  <2>. HIDE DEF Is
  <2>. QED BY <1>3
<1>. QED BY <1>4 DEF IsUpwards

(* And downwards: each value from the one after. *)
LEMMA Downwards ==
  ASSUME NEW a \in Int, NEW b \in Int, a <= b, NEW V, NEW start, NEW next,
         start \in V[b], \A i \in a..(b - 1) : \A v \in V[i + 1] : next[<<i, v>>] \in V[i]
  PROVE  \E f : IsDownwards(f, a, b, start, next) /\ \A i \in a..b : f[i] \in V[i]
<1>. DEFINE n == b - a
            W == [m \in 0..n |-> V[b - m]]
            back == [p \in (1..n) \X (UNION {W[m] : m \in 0..n}) |-> next[<<b - p[1], p[2]>>]]
<1>1. n \in Nat /\ 0 \in 0..n /\ b - 0 = b
  OBVIOUS
<1>2. start \in W[0]
  BY <1>1
<1>3. ASSUME NEW i \in 1..n, NEW v \in W[i - 1]
      PROVE  back[<<i, v>>] = next[<<b - i, v>>] /\ back[<<i, v>>] \in W[i]
  <2>1. i - 1 \in 0..n /\ i \in 0..n /\ b - i \in a..(b - 1) /\ b - (i - 1) = (b - i) + 1
    OBVIOUS
  <2>2. v \in V[(b - i) + 1] /\ v \in UNION {W[m] : m \in 0..n}
    BY <2>1
  <2>3. <<i, v>> \in (1..n) \X (UNION {W[m] : m \in 0..n}) /\ <<i, v>>[1] = i /\ <<i, v>>[2] = v
    BY <2>2
  <2>. DEFINE D == (1..n) \X (UNION {W[m] : m \in 0..n})
  <2>4. \A p \in D : back[p] = next[<<b - p[1], p[2]>>]
    OBVIOUS
  <2>5. back[<<i, v>>] = next[<<b - i, v>>]
    <3>. HIDE DEF back, W, n, D
    <3>1. <<i, v>> \in D
      BY <2>3 DEF D
    <3>2. back[<<i, v>>] = next[<<b - <<i, v>>[1], <<i, v>>[2]>>]
      BY <2>4, <3>1
    <3>. QED BY <3>2
  <2>6. next[<<b - i, v>>] \in V[b - i]
    BY <2>1, <2>2
  <2>7. W[i] = V[b - i]
    BY <2>1
  <2>. QED BY <2>5, <2>6, <2>7
<1>4. PICK h : IsUpwards(h, n, start, back) /\ \A m \in 0..n : h[m] \in W[m]
  <2>1. \A i \in 1..n : \A v \in W[i - 1] : back[<<i, v>>] \in W[i]
    BY <1>3
  <2>. HIDE DEF W, back, n
  <2>. QED BY <1>1, <1>2, <2>1, Upwards
<1>. USE DEF IsUpwards
<1>. DEFINE f == [i \in a..b |-> h[b - i]]
<1>5. \A i \in a..b : b - i \in 0..n /\ b - (b - i) = i
  OBVIOUS
<1>6. ASSUME NEW i \in a..b
      PROVE  f[i] = (IF i = b THEN start ELSE next[<<i, f[i + 1]>>]) /\ f[i] \in V[i]
  <2>1. f[i] = h[b - i] /\ W[b - i] = V[i]
    BY <1>5
  <2>2. f[i] \in V[i]
    BY <1>4, <1>5, <2>1
  <2>3. CASE i = b
    <3>1. b - i = 0
      BY <2>3
    <3>2. h[0] = start
      BY <1>1, <1>4
    <3>. QED BY <2>1, <2>2, <2>3, <3>1, <3>2
  <2>4. CASE i # b
    <3>1. b - i \in 1..n /\ i + 1 \in a..b /\ b - (i + 1) = (b - i) - 1 /\ (b - i) - 1 \in 0..n
          /\ b - (b - i) = i /\ b - i # 0
      BY <2>4
    <3>2. f[i + 1] = h[(b - i) - 1]
      BY <3>1
    <3>3. h[(b - i) - 1] \in W[(b - i) - 1]
      BY <1>4, <3>1
    <3>4. h[b - i] = back[<<b - i, h[(b - i) - 1]>>]
      BY <1>4, <1>5, <3>1
    <3>5. back[<<b - i, h[(b - i) - 1]>>] = next[<<b - (b - i), h[(b - i) - 1]>>]
      <4>. HIDE DEF back, W, n
      <4>. QED BY <1>3, <3>1, <3>3
    <3>. QED BY <2>1, <2>2, <2>4, <3>1, <3>2, <3>4, <3>5
  <2>. QED BY <2>3, <2>4
<1>7. f = [i \in a..b |-> f[i]]
  OBVIOUS
<1>. HIDE DEF f
<1>8. f = [i \in a..b |-> IF i = b THEN start ELSE next[<<i, f[i + 1]>>]]
  BY <1>6, <1>7
<1>. QED BY <1>6, <1>8 DEF IsDownwards

-----------------------------------------------------------------------------
(* Products and quotients.                                                 *)
LEMMA StepsMonotone ==
  ASSUME NEW i \in Nat, NEW j \in Nat, NEW step \in Nat, i <= j
  PROVE  i * step <= j * step /\ i * step \in Nat
<1>1. PICK d \in Nat : j = i + d
  <2>1. j - i \in Nat /\ j = i + (j - i)
    OBVIOUS
  <2>. QED BY <2>1
<1>2. j * step = i * step + d * step
  BY <1>1
<1>3. d * step \in Nat /\ i * step \in Nat
  OBVIOUS
<1>. QED BY <1>2, <1>3

LEMMA Quotient ==
  ASSUME NEW i \in Int, NEW step \in Nat \ {0}
  PROVE  (i * step) \div step = i
OBVIOUS

LEMMA Remainder ==
  ASSUME NEW a \in Nat, NEW w \in Nat, a < w
  PROVE  (a % w) = a
BY SMT

LEMMA Division ==
  ASSUME NEW a \in Nat, NEW b \in Nat \ {0}
  PROVE  a \div b \in Nat /\ (a \div b) * b <= a /\ a < (a \div b) * b + b
OBVIOUS

-----------------------------------------------------------------------------
(* A table with a work at each step, not all of it traction, and one whose *)
(* steps lie in the section: it can be divided.                            *)
IsWorked(t, dim, step) ==
  /\ dim \in Nat /\ step \in Nat \ {0}
  /\ DOMAIN t = 0..dim
  /\ \E i \in 0..dim : t[i].flag # Traction

IsTable(t, dim, step, s) == IsWorked(t, dim, step) /\ dim * step <= Length(s)

IsSection(s) ==
  /\ s.begin \in Nat /\ s.end \in Nat
  /\ Length(s) \in Nat \ {0} /\ Length(s) < Word

ChangeSet(t, dim) == {i \in 0..dim : t[i].flag # IF i = 0 THEN Traction ELSE t[i - 1].flag}

(* The work changes first where the traction of the start ends. *)
LEMMA TractionEndIsChange ==
  ASSUME NEW t, NEW dim \in Nat, DOMAIN t = 0..dim,
         \E i \in 0..dim : t[i].flag # Traction
  PROVE  /\ TractionEnd(t) \in ChangeSet(t, dim)
         /\ \A i \in ChangeSet(t, dim) : TractionEnd(t) <= i
<1>. DEFINE S == {i \in DOMAIN t : t[i].flag # Traction}
            e == Min(S)
<1>1. S \in SUBSET Nat /\ S # {}
  OBVIOUS
<1>2. e \in S /\ \A i \in S : e <= i
  <2>. HIDE DEF S
  <2>. QED BY <1>1, LeastOf
<1>3. TractionEnd(t) = e
  BY DEF TractionEnd, Min
<1>4. \A i \in 0..dim : i < e => t[i].flag = Traction
  <2>. SUFFICES ASSUME NEW i \in 0..dim, i < e, i \in S PROVE FALSE
    OBVIOUS
  <2>1. e <= i /\ e \in Nat
    BY <1>1, <1>2
  <2>. HIDE DEF S, e
  <2>. QED BY <2>1
<1>. HIDE DEF e
<1>5. e \in ChangeSet(t, dim)
  <2>1. CASE e = 0
    BY <1>2, <2>1 DEF ChangeSet
  <2>2. CASE e # 0
    <3>1. e - 1 \in 0..dim /\ e - 1 < e
      BY <1>2, <2>2
    <3>2. t[e - 1].flag = Traction
      BY <1>4, <3>1
    <3>. QED BY <1>2, <2>2, <3>2 DEF ChangeSet
  <2>. QED BY <2>1, <2>2
<1>6. ASSUME NEW i \in ChangeSet(t, dim), i < e PROVE FALSE
  <2>1. i \in 0..dim /\ t[i].flag = Traction
    BY <1>4, <1>6 DEF ChangeSet
  <2>2. i # 0 /\ t[i - 1].flag # Traction
    BY <2>1 DEF ChangeSet
  <2>3. i - 1 \in 0..dim /\ i - 1 < e
    BY <1>2, <1>6, <2>1, <2>2
  <2>. QED BY <1>4, <2>2, <2>3
<1>7. e \in Int /\ ChangeSet(t, dim) \subseteq Int
  BY <1>1, <1>2 DEF ChangeSet
<1>. QED BY <1>3, <1>5, <1>6, <1>7

LEMMA ChangesAre ==
  ASSUME NEW t, NEW dim \in Nat
  PROVE  /\ ChangeSet(t, dim) \in SUBSET Int /\ IsFiniteSet(ChangeSet(t, dim))
         /\ Changes(t, dim) = Counted(ChangeSet(t, dim))
<1>1. ChangeSet(t, dim) \in SUBSET (0..dim)
  BY DEF ChangeSet
<1>2. IsFiniteSet(0..dim)
  BY FS_Interval
<1>3. IsFiniteSet(ChangeSet(t, dim))
  BY <1>1, <1>2, FS_Subset
<1>4. 0..dim \subseteq Int
  OBVIOUS
<1>. QED BY <1>1, <1>3, <1>4 DEF Changes, ChangeSet

-----------------------------------------------------------------------------
LEMMA PostIsAlong ==
  ASSUME NEW s, IsSection(s), NEW x \in Int
  PROVE  Along(s, Post(s, x)) = x
BY DEF IsSection, Along, Post

LEMMA PostEnds ==
  ASSUME NEW s, IsSection(s)
  PROVE  Post(s, Length(s)) = s.end
BY DEF IsSection, Length, Post

(* Two entries, so many, and one, joined. *)
Joined(V, a, b, z, c, r) ==
  /\ a \in Seq(V) /\ Len(a) = 2
  /\ b \in Seq(V) /\ c \in Nat /\ Len(b) = c
  /\ z \in Seq(V) /\ Len(z) = 1
  /\ r = a \o b \o z

LEMMA ThreeJoined ==
  ASSUME NEW V, NEW a, NEW b, NEW z, NEW c, NEW r, Joined(V, a, b, z, c, r)
  PROVE  /\ Len(r) = c + 3 /\ DOMAIN r = 1..(c + 3)
         /\ r[1] = a[1] /\ r[2] = a[2] /\ r[c + 3] = z[1]
         /\ \A n \in 1..c : r[n + 2] = b[n]
<1>. USE DEF Joined
<1>. DEFINE ab == a \o b
<1>1. r = ab \o z
  OBVIOUS
<1>2. /\ ab \in Seq(V) /\ Len(ab) = c + 2
      /\ \A i \in 1..(c + 2) : ab[i] = IF i <= 2 THEN a[i] ELSE b[i - 2]
  <2>1. \A i \in 1 .. Len(a) + Len(b) : ab[i] = IF i <= Len(a) THEN a[i] ELSE b[i - Len(a)]
    BY ConcatProperties
  <2>2. ab \in Seq(V) /\ Len(ab) = Len(a) + Len(b)
    BY ConcatProperties
  <2>3. Len(a) + Len(b) = c + 2
    OBVIOUS
  <2>. HIDE DEF ab
  <2>. QED BY <2>1, <2>2, <2>3
<1>. HIDE DEF ab
<1>3. /\ r \in Seq(V) /\ Len(r) = c + 3
      /\ \A i \in 1..(c + 3) : r[i] = IF i <= c + 2 THEN ab[i] ELSE z[i - (c + 2)]
  <2>1. ab \in Seq(V)
    BY <1>2
  <2>2. /\ ab \o z \in Seq(V) /\ Len(ab \o z) = Len(ab) + Len(z)
        /\ \A i \in 1 .. Len(ab) + Len(z) :
             (ab \o z)[i] = IF i <= Len(ab) THEN ab[i] ELSE z[i - Len(ab)]
    BY <2>1, ConcatProperties
  <2>3. /\ r \in Seq(V) /\ Len(r) = Len(ab) + Len(z)
        /\ \A i \in 1 .. Len(ab) + Len(z) :
             r[i] = IF i <= Len(ab) THEN ab[i] ELSE z[i - Len(ab)]
    BY <1>1, <2>2
  <2>4. Len(ab) + Len(z) = c + 3
    BY <1>2
  <2>. QED BY <1>2, <2>3, <2>4
<1>4. r[1] = a[1] /\ r[2] = a[2]
  <2>1. {1, 2} \subseteq 1..(c + 2) /\ {1, 2} \subseteq 1..(c + 3)
    OBVIOUS
  <2>. QED BY <1>2, <1>3, <2>1
<1>5. r[c + 3] = z[1]
  <2>1. c + 3 \in 1..(c + 3) /\ ~(c + 3 <= c + 2) /\ (c + 3) - (c + 2) = 1
    OBVIOUS
  <2>2. r[c + 3] = z[(c + 3) - (c + 2)]
    BY <1>3, <2>1, Zenon
  <2>. QED BY <2>1, <2>2
<1>6. \A n \in 1..c : r[n + 2] = b[n]
  <2>. SUFFICES ASSUME NEW n \in 1..c PROVE r[n + 2] = b[n]
    OBVIOUS
  <2>1. /\ n + 2 \in 1..(c + 3) /\ n + 2 \in 1..(c + 2)
        /\ n + 2 <= c + 2 /\ ~(n + 2 <= 2) /\ (n + 2) - 2 = n
    OBVIOUS
  <2>. QED BY <1>2, <1>3, <2>1, Zenon
<1>7. DOMAIN r = 1..(c + 3)
  BY <1>3
<1>. QED BY <1>3, <1>4, <1>5, <1>6, <1>7

(* Where the recommendations of a table are. *)
LEMMA RecommendationsAre ==
  ASSUME NEW t, NEW dim, NEW step, NEW s, IsWorked(t, dim, step)
  PROVE  LET r == Recommendations(t, dim, step, s)
             c == Cardinality(ChangeSet(t, dim))
             e == TractionEnd(t)
             changes == Counted(ChangeSet(t, dim))
         IN  /\ c \in Nat /\ Len(r) = c + 3 /\ DOMAIN r = 1..(c + 3)
             /\ r[1].post = Post(s, (e \div 3) * step)
             /\ r[2].post = Post(s, ((2 * e) \div 3) * step)
             /\ \A n \in 1..c : r[n + 2].post = Post(s, changes[n] * step)
             /\ r[c + 3].post = Post(s, Length(s))
             /\ \A n \in DOMAIN r : r[n].index \in 0..dim
<1>. DEFINE Advised(i, work) == [post |-> Post(s, i * step), speed |-> t[i].speed,
                                 work |-> work, index |-> i]
            e == TractionEnd(t)
            changes == Counted(ChangeSet(t, dim))
            c == Cardinality(ChangeSet(t, dim))
            first == <<Advised(e \div 3, Traction), Advised((2 * e) \div 3, Traction)>>
            middle == [n \in 1..c |-> Advised(changes[n], t[changes[n]].flag)]
            stop == <<[post |-> Post(s, Length(s)), speed |-> 0, work |-> NoWork, index |-> dim]>>
            r == Recommendations(t, dim, step, s)
            V == {first[1], first[2], stop[1]} \cup {middle[n] : n \in 1..c}
<1>1. c \in Nat /\ changes \in [1..c -> ChangeSet(t, dim)]
  BY ChangesAre, CountedIs DEF IsWorked
<1>2. r = first \o middle \o stop
  <2>1. Changes(t, dim) = changes /\ DOMAIN changes = 1..c
    BY <1>1, ChangesAre DEF IsWorked
  <2>. QED BY <2>1 DEF Recommendations
<1>3. first \in Seq(V) /\ Len(first) = 2
  OBVIOUS
<1>4. middle \in Seq(V) /\ Len(middle) = c
  BY <1>1
<1>5. stop \in Seq(V) /\ Len(stop) = 1
  OBVIOUS
<1>6. /\ first[1].post = Post(s, (e \div 3) * step) /\ first[2].post = Post(s, ((2 * e) \div 3) * step)
      /\ \A n \in 1..c : middle[n].post = Post(s, changes[n] * step)
      /\ stop[1].post = Post(s, Length(s))
  OBVIOUS
<1>8. /\ first[1].index \in 0..dim /\ first[2].index \in 0..dim /\ stop[1].index \in 0..dim
      /\ \A n \in 1..c : middle[n].index \in 0..dim
  <2>1. dim \in Nat /\ ChangeSet(t, dim) \subseteq 0..dim
    BY DEF IsWorked, ChangeSet
  <2>2. e \in 0..dim
    BY <2>1, TractionEndIsChange DEF IsWorked
  <2>3. e \div 3 \in 0..dim /\ (2 * e) \div 3 \in 0..dim
    <3>. HIDE DEF e
    <3>. QED BY <2>1, <2>2
  <2>4. \A n \in 1..c : changes[n] \in 0..dim
    <3>. HIDE DEF changes, c
    <3>. QED BY <1>1, <2>1
  <2>. HIDE DEF e, changes, c
  <2>. QED BY <2>1, <2>3, <2>4
<1>. HIDE DEF first, middle, stop, V, changes, e, c, r
<1>7. /\ Len(r) = c + 3 /\ DOMAIN r = 1..(c + 3)
      /\ r[1] = first[1] /\ r[2] = first[2] /\ r[c + 3] = stop[1]
      /\ \A n \in 1..c : r[n + 2] = middle[n]
  <2>1. Joined(V, first, middle, stop, c, r)
    BY <1>1, <1>2, <1>3, <1>4, <1>5 DEF Joined
  <2>. QED BY <2>1, ThreeJoined
<1>9. \A n \in 1..(c + 3) : r[n].index \in 0..dim
  <2>. SUFFICES ASSUME NEW n \in 1..(c + 3) PROVE r[n].index \in 0..dim
    OBVIOUS
  <2>1. CASE n \in {1, 2, c + 3}
    BY <1>7, <1>8, <2>1
  <2>2. CASE n \notin {1, 2, c + 3}
    <3>1. n - 2 \in 1..c /\ (n - 2) + 2 = n
      BY <1>1, <2>2
    <3>. QED BY <1>7, <1>8, <3>1
  <2>. QED BY <2>1, <2>2
<1>. QED BY <1>1, <1>6, <1>7, <1>9 DEF r, c, e, changes

(* A sequence of recommendations that is in order. *)
InOrderOf(s, r) ==
  /\ Len(r) \in Nat \ {0} /\ DOMAIN r = 1..Len(r)
  /\ \A n \in DOMAIN r : \E x \in 0..Length(s) : r[n].post = Post(s, x)
  /\ \A m, n \in DOMAIN r : m < n => Along(s, r[m].post) <= Along(s, r[n].post)
  /\ r[Len(r)].post = Post(s, Length(s))

LEMMA RecommendationsInOrder ==
  ASSUME NEW t, NEW dim, NEW step, NEW s, IsSection(s), IsTable(t, dim, step, s)
  PROVE  InOrderOf(s, Recommendations(t, dim, step, s))
<1>. DEFINE r == Recommendations(t, dim, step, s)
            c == Cardinality(ChangeSet(t, dim))
            e == TractionEnd(t)
            changes == Counted(ChangeSet(t, dim))
            way(n) == IF n = 1 THEN (e \div 3) * step
                      ELSE IF n = 2 THEN ((2 * e) \div 3) * step
                      ELSE IF n = c + 3 THEN Length(s)
                      ELSE changes[n - 2] * step
<1>1. /\ c \in Nat /\ Len(r) = c + 3 /\ DOMAIN r = 1..(c + 3)
      /\ r[1].post = Post(s, (e \div 3) * step)
      /\ r[2].post = Post(s, ((2 * e) \div 3) * step)
      /\ \A n \in 1..c : r[n + 2].post = Post(s, changes[n] * step)
      /\ r[c + 3].post = Post(s, Length(s))
  BY RecommendationsAre DEF IsTable
<1>2. /\ dim \in Nat /\ step \in Nat /\ dim * step <= Length(s) /\ Length(s) \in Nat
  BY DEF IsTable, IsWorked, IsSection
<1>3. /\ changes \in [1..c -> ChangeSet(t, dim)]
      /\ \A m, n \in 1..c : m < n => changes[m] < changes[n]
      /\ \A i \in ChangeSet(t, dim) : \E n \in 1..c : changes[n] = i
  BY <1>2, ChangesAre, CountedIs
<1>4. e \in ChangeSet(t, dim) /\ \A i \in ChangeSet(t, dim) : e <= i
  BY <1>2, TractionEndIsChange DEF IsTable, IsWorked
<1>5. ChangeSet(t, dim) \subseteq 0..dim
  BY DEF ChangeSet
<1>. HIDE DEF r, c, e, changes
<1>6. \A n \in 1..c : changes[n] \in 0..dim /\ e <= changes[n]
  BY <1>3, <1>4, <1>5
<1>7. /\ e \in 0..dim
      /\ e \div 3 \in Nat /\ (2 * e) \div 3 \in Nat
      /\ e \div 3 <= (2 * e) \div 3 /\ (2 * e) \div 3 <= e
  BY <1>2, <1>4, <1>5
<1>8. \A n \in 1..(c + 3) : r[n].post = Post(s, way(n))
  <2>. SUFFICES ASSUME NEW n \in 1..(c + 3) PROVE r[n].post = Post(s, way(n))
    OBVIOUS
  <2>1. CASE n \in {1, 2, c + 3}
    BY <1>1, <2>1
  <2>2. CASE n \notin {1, 2, c + 3}
    <3>1. n - 2 \in 1..c /\ (n - 2) + 2 = n
      BY <1>1, <2>2
    <3>2. r[(n - 2) + 2].post = Post(s, changes[n - 2] * step)
      BY <1>1, <3>1
    <3>. QED BY <2>2, <3>1, <3>2
  <2>. QED BY <2>1, <2>2
<1>9. \A i \in 0..dim : i * step \in 0..Length(s)
  <2>. SUFFICES ASSUME NEW i \in 0..dim PROVE i * step \in 0..Length(s)
    OBVIOUS
  <2>1. i * step <= dim * step /\ i * step \in Nat /\ dim * step \in Nat
    BY <1>2, StepsMonotone
  <2>. QED BY <1>2, <2>1
<1>10. \A n \in 1..(c + 3) : way(n) \in 0..Length(s)
  <2>. SUFFICES ASSUME NEW n \in 1..(c + 3) PROVE way(n) \in 0..Length(s)
    OBVIOUS
  <2>1. CASE n \in {1, 2, c + 3}
    <3>1. e \div 3 \in 0..dim /\ (2 * e) \div 3 \in 0..dim
      BY <1>2, <1>7
    <3>. QED BY <1>2, <1>9, <2>1, <3>1
  <2>2. CASE n \notin {1, 2, c + 3}
    <3>1. n - 2 \in 1..c
      BY <1>1, <2>2
    <3>. QED BY <1>6, <1>9, <2>2, <3>1
  <2>. QED BY <2>1, <2>2
<1>11. ASSUME NEW m \in 1..(c + 3), NEW n \in 1..(c + 3), m < n
       PROVE  way(m) <= way(n)
  <2>. DEFINE at(k) == IF k = 1 THEN e \div 3
                       ELSE IF k = 2 THEN (2 * e) \div 3
                       ELSE changes[k - 2]
  <2>1. CASE n = c + 3
    <3>1. way(n) = Length(s)
      BY <1>1, <2>1
    <3>2. way(m) \in 0..Length(s)
      BY <1>10
    <3>. HIDE DEF way
    <3>. QED BY <1>2, <3>1, <3>2
  <2>2. CASE n # c + 3
    <3>1. m \in 1..(c + 2) /\ n \in 2..(c + 2)
      BY <1>1, <1>11, <2>2
    <3>2. /\ m # 1 /\ m # 2 => m - 2 \in 1..c
          /\ n # 2 => n - 2 \in 1..c
      BY <1>1, <1>11, <3>1
    <3>3. at(m) \in Nat /\ at(n) \in Nat
      BY <1>2, <1>6, <1>7, <1>11, <3>1, <3>2
    <3>4. at(m) <= at(n)
      <4>1. CASE m \in {1, 2}
        BY <1>2, <1>6, <1>7, <1>11, <3>1, <3>2, <4>1
      <4>2. CASE m \notin {1, 2}
        <5>1. m - 2 \in 1..c /\ n - 2 \in 1..c /\ m - 2 < n - 2 /\ n # 1 /\ n # 2
          BY <1>1, <1>11, <3>1, <3>2, <4>2
        <5>2. changes[m - 2] < changes[n - 2] /\ changes[m - 2] \in Int /\ changes[n - 2] \in Int
          BY <1>3, <1>6, <5>1
        <5>. QED BY <4>2, <5>1, <5>2
      <4>. QED BY <4>1, <4>2
    <3>5. way(m) = at(m) * step /\ way(n) = at(n) * step
      BY <1>1, <3>1
    <3>. HIDE DEF at, way
    <3>6. at(m) * step <= at(n) * step
      BY <1>2, <3>3, <3>4, StepsMonotone
    <3>. QED BY <3>5, <3>6
  <2>. QED BY <2>1, <2>2
<1>12. \A n \in 1..(c + 3) : Along(s, r[n].post) = way(n)
  <2>. HIDE DEF way
  <2>1. 0..Length(s) \subseteq Int
    OBVIOUS
  <2>. QED BY <1>8, <1>10, <2>1, PostIsAlong
<1>. HIDE DEF way
<1>13. /\ Len(r) \in Nat \ {0} /\ DOMAIN r = 1..Len(r)
       /\ r[Len(r)].post = Post(s, Length(s))
  BY <1>1
<1>14. \A n \in DOMAIN r : \E x \in 0..Length(s) : r[n].post = Post(s, x)
  BY <1>1, <1>8, <1>10
<1>15. \A m, n \in DOMAIN r : m < n => Along(s, r[m].post) <= Along(s, r[n].post)
  BY <1>1, <1>11, <1>12
<1>. QED BY <1>13, <1>14, <1>15 DEF InOrderOf, r

-----------------------------------------------------------------------------
(* What the driver is told next of recommendations in order is the first   *)
(* that lies ahead.                                                        *)
LEMMA NextIsAhead ==
  ASSUME NEW s, IsSection(s), Word \in Nat, NEW r, InOrderOf(s, r), NEW t, NEW step,
         NEW x \in 0..(Length(s) - 1)
  PROVE  LET post == Post(s, x)
             next == NextRecommendation(t, r, step, s, post)
             ahead == {n \in DOMAIN r : Along(s, r[n].post) > Along(s, post)}
         IN  /\ next.distance \in 1..Length(s)
             /\ \E n \in ahead :
                  /\ \A m \in ahead : n <= m
                  /\ next.distance = Along(s, r[n].post) - Along(s, post)
                  /\ next.speed = r[n].speed /\ next.work = r[n].work
                  /\ next.countdown = TimeByIndex(t, Along(s, post) \div step, r[n].index, step)
<1>. DEFINE post == Post(s, x)
            next == NextRecommendation(t, r, step, s, post)
            way(n) == Along(s, r[n].post)
            ahead == {n \in DOMAIN r : way(n) > Along(s, post)}
            found == Found(r, s, post)
            N == Len(r)
            k == Min(ahead)
<1>1. Length(s) \in Nat \ {0} /\ Length(s) < Word /\ x \in Int
  BY DEF IsSection
<1>2. Along(s, post) = x
  BY <1>1, PostIsAlong
<1>3. N \in Nat \ {0} /\ DOMAIN r = 1..N
  BY DEF InOrderOf
<1>4. \A n \in 1..N : way(n) \in 0..Length(s)
  <2>1. \A n \in 1..N : \E y \in 0..Length(s) : r[n].post = Post(s, y)
    BY DEF InOrderOf
  <2>2. \A y \in 0..Length(s) : Along(s, Post(s, y)) = y
    <3>1. \A y \in 0..Length(s) : y \in Int
      OBVIOUS
    <3>. QED BY <3>1, PostIsAlong
  <2>. QED BY <2>1, <2>2
<1>5. \A m, n \in 1..N : m < n => way(m) <= way(n)
  BY <1>3 DEF InOrderOf
<1>6. way(N) = Length(s)
  BY <1>1, PostIsAlong DEF InOrderOf
<1>. HIDE DEF way, N, post
<1>7. ahead = {n \in 1..N : way(n) > x}
  BY <1>2, <1>3
<1>8. k \in ahead /\ \A n \in ahead : k <= n
  <2>1. ahead \in SUBSET Nat /\ ahead # {}
    BY <1>1, <1>3, <1>6, <1>7
  <2>. HIDE DEF ahead
  <2>. QED BY <2>1, LeastOf
<1>. HIDE DEF ahead, k
<1>9. k \in 1..N /\ way(k) > x
  BY <1>7, <1>8
<1>10. found = {k}
  <2>. DEFINE passed == {n \in 1..(N - 1) : x >= way(n) /\ ~(x >= way(n + 1))}
  <2>1. found = IF ~(x >= way(1)) THEN {1} ELSE {n + 1 : n \in passed}
    BY <1>2 DEF Found, IsPast, way, N
  <2>2. CASE ~(x >= way(1))
    <3>1. 1 \in ahead
      BY <1>1, <1>3, <1>4, <1>7, <2>2
    <3>2. k <= 1
      BY <1>8, <3>1
    <3>3. k = 1
      BY <1>3, <1>9, <3>2
    <3>. QED BY <2>1, <2>2, <3>3
  <2>3. CASE x >= way(1)
    <3>1. k # 1
      BY <1>1, <1>4, <1>9, <2>3
    <3>2. k - 1 \in 1..(N - 1) /\ k - 1 \in 1..N /\ k - 1 < k /\ (k - 1) + 1 = k
      BY <1>3, <1>9, <3>1
    <3>3. ~(k <= k - 1)
      BY <1>3, <1>9
    <3>4. k - 1 \notin ahead
      BY <1>8, <3>3
    <3>5. x >= way(k - 1)
      BY <1>1, <1>4, <1>7, <3>2, <3>4
    <3>6. k - 1 \in passed
      BY <1>1, <1>4, <1>9, <3>2, <3>5
    <3>7. ASSUME NEW n \in passed PROVE n + 1 = k
      <4>1. n \in 1..N /\ n + 1 \in 1..N /\ x >= way(n) /\ ~(x >= way(n + 1))
        BY <1>3
      <4>2. n + 1 \in ahead
        BY <1>1, <1>4, <1>7, <4>1
      <4>3. k <= n + 1
        BY <1>8, <4>2
      <4>4. ASSUME k < n + 1 PROVE FALSE
        <5>1. k < n \/ k = n
          BY <1>3, <1>9, <4>1, <4>4
        <5>2. way(k) <= way(n)
          BY <1>4, <1>5, <1>9, <4>1, <5>1
        <5>. QED BY <1>1, <1>4, <1>9, <4>1, <5>2
      <4>. QED BY <1>3, <1>9, <4>1, <4>3, <4>4
    <3>8. {n + 1 : n \in passed} = {k}
      <4>. HIDE DEF passed
      <4>. QED BY <3>2, <3>6, <3>7
    <3>. QED BY <2>1, <2>3, <3>8
  <2>. QED BY <2>2, <2>3
<1>11. Min({k}) = k
  <2>1. {k} \in SUBSET Nat /\ {k} # {}
    BY <1>3, <1>9
  <2>2. Min({k}) \in {k}
    BY <2>1, LeastOf
  <2>. QED BY <2>2
<1>12. r[k].post = Post(s, way(k))
  <2>1. PICK y \in 0..Length(s) : r[k].post = Post(s, y)
    BY <1>3, <1>9 DEF InOrderOf
  <2>2. y \in Int
    OBVIOUS
  <2>3. way(k) = y
    BY <2>1, <2>2, PostIsAlong DEF way
  <2>. QED BY <2>1, <2>3
<1>13. (IF s.down THEN r[k].post - post ELSE post - r[k].post) = way(k) - x
  <2>1. way(k) \in Int
    BY <1>4, <1>9
  <2>. QED BY <1>1, <1>12, <2>1 DEF Post, IsSection, post
<1>14. /\ next.distance = (IF s.down THEN r[k].post - post ELSE post - r[k].post) % Word
       /\ next.speed = r[k].speed /\ next.work = r[k].work
      /\ next.countdown = TimeByIndex(t, Along(s, post) \div step, r[k].index, step)
  <2>1. Found(r, s, post) # {} /\ Min(Found(r, s, post)) = k
    BY <1>10, <1>11
  <2>. HIDE DEF found
  <2>. QED BY <2>1 DEF NextRecommendation
<1>15. way(k) - x \in 1..Length(s) /\ way(k) - x \in Nat /\ way(k) - x < Word
  BY <1>1, <1>4, <1>9
<1>16. next.distance = way(k) - x
  BY <1>13, <1>14, <1>15, Remainder
<1>17. next.distance = way(k) - Along(s, post)
  BY <1>2, <1>16
<1>18. next.distance \in 1..Length(s)
  BY <1>15, <1>16
<1>. HIDE DEF next
<1>19. \E n \in ahead :
         /\ \A m \in ahead : n <= m
         /\ next.distance = way(n) - Along(s, post)
         /\ next.speed = r[n].speed /\ next.work = r[n].work
         /\ next.countdown = TimeByIndex(t, Along(s, post) \div step, r[n].index, step)
  BY <1>8, <1>14, <1>17
<1>. QED BY <1>18, <1>19 DEF next, post, ahead, way

-----------------------------------------------------------------------------
(* The time that is left does not grow on the way.                         *)
LEMMA TimeFalls ==
  ASSUME NEW t, NEW end \in Nat, NEW step \in Nat, \A i \in 0..end : t[i].speed \in Nat
  PROVE  /\ \A i \in 0..end : TimeFrom(t, end, step)[i] \in Nat
         /\ \A i, j \in 0..end : i <= j => TimeFrom(t, end, step)[j] <= TimeFrom(t, end, step)[i]
<1>. DEFINE Pair(i) == t[i].speed + t[i + 1].speed
            more(i) == IF Pair(i) = 0 THEN 0 ELSE (20 * step) \div Pair(i)
            next == [p \in (0..end) \X Nat |-> IF p[1] >= end - 1 THEN 0 ELSE p[2] + more(p[1])]
            V == [i \in 0..end |-> Nat]
            Is(g) == g = [i \in 0..end |-> IF i >= end - 1 THEN 0 ELSE g[i + 1] + more(i)]
            rest == TimeFrom(t, end, step)
<1>1. ASSUME NEW i \in 0..(end - 1) PROVE more(i) \in Nat
  <2>1. i \in 0..end /\ i + 1 \in 0..end
    OBVIOUS
  <2>2. Pair(i) \in Nat
    BY <2>1
  <2>3. 20 * step \in Nat
    OBVIOUS
  <2>. HIDE DEF Pair
  <2>. QED BY <2>2, <2>3, Division
<1>. HIDE DEF more
<1>2. ASSUME NEW i \in 0..(end - 1), NEW v \in Nat
      PROVE  next[<<i, v>>] = (IF i >= end - 1 THEN 0 ELSE v + more(i)) /\ next[<<i, v>>] \in Nat
  <2>1. i \in 0..end
    OBVIOUS
  <2>2. next[<<i, v>>] = IF i >= end - 1 THEN 0 ELSE v + more(i)
    BY <2>1
  <2>3. more(i) \in Nat
    BY <1>1
  <2>. HIDE DEF next
  <2>. QED BY <2>2, <2>3
<1>3. PICK f : IsDownwards(f, 0, end, 0, next) /\ \A i \in 0..end : f[i] \in V[i]
  <2>1. 0 \in V[end]
    OBVIOUS
  <2>2. \A i \in 0..(end - 1) : \A v \in V[i + 1] : next[<<i, v>>] \in V[i]
    <3>1. \A i \in 0..(end - 1) : i \in 0..end /\ i + 1 \in 0..end
      OBVIOUS
    <3>2. \A i \in 0..end : V[i] = Nat
      OBVIOUS
    <3>. HIDE DEF next, V
    <3>. QED BY <1>2, <3>1, <3>2
  <2>3. 0 \in Int /\ end \in Int /\ 0 <= end
    OBVIOUS
  <2>. HIDE DEF next, V
  <2>. QED BY <2>1, <2>2, <2>3, Downwards
<1>4. Is(f)
  <2>1. ASSUME NEW i \in 0..end
        PROVE  f[i] = IF i >= end - 1 THEN 0 ELSE f[i + 1] + more(i)
    <3>1. f[i] = IF i = end THEN 0 ELSE next[<<i, f[i + 1]>>]
      BY <1>3 DEF IsDownwards
    <3>2. CASE i = end
      BY <3>1, <3>2
    <3>3. CASE i # end
      <4>1. i \in 0..(end - 1) /\ i + 1 \in 0..end
        BY <3>3
      <4>2. f[i + 1] \in Nat
        BY <1>3, <4>1
      <4>3. next[<<i, f[i + 1]>>] = IF i >= end - 1 THEN 0 ELSE f[i + 1] + more(i)
        <5>. HIDE DEF next
        <5>. QED BY <1>2, <4>1, <4>2
      <4>. QED BY <3>1, <3>3, <4>3
    <3>. QED BY <3>2, <3>3
  <2>2. f = [i \in 0..end |-> f[i]]
    BY <1>3 DEF IsDownwards
  <2>. HIDE DEF next, V
  <2>. QED BY <2>1, <2>2
<1>5. rest = CHOOSE g : Is(g)
  BY DEF TimeFrom, more
<1>6. Is(rest)
  <2>. HIDE DEF Is, rest
  <2>. QED BY <1>4, <1>5
<1>. HIDE DEF rest
<1>7. ASSUME NEW i \in 0..end
      PROVE  rest[i] = IF i >= end - 1 THEN 0 ELSE rest[i + 1] + more(i)
  BY <1>6
<1>8. \A i \in 0..end : rest[i] \in Nat
  <2>. DEFINE S == {i \in 0..end : rest[i] \in Nat}
  <2>1. end \in S
    BY <1>7
  <2>2. ASSUME NEW i \in 0..(end - 1), i + 1 \in S PROVE i \in S
    <3>1. i \in 0..end /\ rest[i + 1] \in Nat /\ more(i) \in Nat
      BY <1>1, <2>2
    <3>2. rest[i] = IF i >= end - 1 THEN 0 ELSE rest[i + 1] + more(i)
      BY <1>7, <3>1
    <3>. QED BY <3>1, <3>2
  <2>3. \A i \in 0..end : i \in S
    <3>. HIDE DEF S
    <3>1. 0 \in Int /\ end \in Int /\ 0 <= end
      OBVIOUS
    <3>2. \A i \in 0..(end - 1) : i + 1 \in S => i \in S
      BY <2>2
    <3>. QED BY <2>1, <3>1, <3>2, DownFrom
  <2>. QED BY <2>3
<1>9. ASSUME NEW i \in 0..end, NEW j \in 0..end, i <= j
      PROVE  rest[j] <= rest[i]
  <2>. DEFINE S == {m \in 0..j : rest[j] <= rest[m]}
  <2>1. j \in S
    BY <1>8
  <2>2. ASSUME NEW m \in 0..(j - 1), m + 1 \in S PROVE m \in S
    <3>1. m \in 0..end /\ m + 1 \in 0..end /\ m \in 0..j /\ m \in 0..(end - 1)
      OBVIOUS
    <3>2. more(m) \in Nat /\ rest[m] \in Nat /\ rest[m + 1] \in Nat /\ rest[j] \in Nat
      BY <1>1, <1>8, <3>1
    <3>3. rest[j] <= rest[m + 1]
      BY <2>2
    <3>4. rest[m] = IF m >= end - 1 THEN 0 ELSE rest[m + 1] + more(m)
      BY <1>7, <3>1
    <3>5. m + 1 <= end - 1 \/ rest[m + 1] = 0
      BY <1>7, <3>1
    <3>. QED BY <3>1, <3>2, <3>3, <3>4, <3>5
  <2>3. \A m \in 0..j : m \in S
    <3>. HIDE DEF S
    <3>1. 0 \in Int /\ j \in Int /\ 0 <= j
      OBVIOUS
    <3>2. \A m \in 0..(j - 1) : m + 1 \in S => m \in S
      BY <2>2
    <3>. QED BY <2>1, <3>1, <3>2, DownFrom
  <2>. QED BY <1>9, <2>3
<1>. QED BY <1>8, <1>9 DEF rest

LEMMA CountdownFalls ==
  ASSUME NEW t, NEW end \in Nat, NEW step \in Nat, \A i \in 0..end : t[i].speed \in Nat,
         NEW b \in Nat, NEW c \in Nat, b <= c
  PROVE  /\ TimeByIndex(t, b, end, step) \in Nat
         /\ TimeByIndex(t, c, end, step) <= TimeByIndex(t, b, end, step)
<1>. DEFINE rest == TimeFrom(t, end, step)
<1>1. /\ \A i \in 0..end : rest[i] \in Nat
      /\ \A i, j \in 0..end : i <= j => rest[j] <= rest[i]
  BY TimeFalls
<1>. HIDE DEF rest
<1>2. ASSUME NEW i \in Nat
      PROVE  TimeByIndex(t, i, end, step) = IF i >= end THEN 0 ELSE 10 + rest[i]
  BY DEF TimeByIndex, rest
<1>3. ~(b >= end) => b \in 0..end
  OBVIOUS
<1>4. ~(c >= end) => c \in 0..end
  OBVIOUS
<1>. QED BY <1>1, <1>2, <1>3, <1>4

-----------------------------------------------------------------------------
(* At a step of the plan there is nothing to interpolate. *)
CanBeShown(t, dim, step, s) ==
  /\ IsSection(s) /\ dim \in Nat /\ step \in Nat \ {0}
  /\ \A i \in 0..dim : t[i].speed \in Int

LEMMA TargetAtStep ==
  ASSUME NEW t, NEW dim, NEW step, NEW s, CanBeShown(t, dim, step, s),
         NEW i \in 1..(dim - 1), NEW x, x = i * step
  PROVE  /\ TargetSpeed(t, dim, step, s, Post(s, x)).speed = t[i].speed
         /\ TargetSpeed(t, dim, step, s, Post(s, x)).flag = t[i].flag
<1>. DEFINE target == TargetSpeed(t, dim, step, s, Post(s, x))
<1>1. /\ dim \in Nat /\ step \in Nat \ {0} /\ IsSection(s)
      /\ i \in Nat /\ i \in Int /\ i # 0 /\ ~(i >= dim)
      /\ i \in 0..dim /\ i + 1 \in 0..dim
  BY DEF CanBeShown
<1>2. t[i].speed \in Int /\ t[i + 1].speed \in Int
  BY <1>1 DEF CanBeShown
<1>3. x \in Int /\ x > 0
  <2>1. 1 * step <= i * step /\ i * step \in Nat
    BY <1>1, StepsMonotone
  <2>. QED BY <1>1, <2>1
<1>4. x \div step = i
  BY <1>1, Quotient
<1>5. (t[i].speed * step + (x - i * step) * (t[i + 1].speed - t[i].speed)) \div step = t[i].speed
  <2>1. x - i * step = 0
    BY <1>3
  <2>2. 0 * (t[i + 1].speed - t[i].speed) = 0
    BY <1>2
  <2>3. t[i].speed * step \in Int
    BY <1>1, <1>2
  <2>4. t[i].speed * step + (x - i * step) * (t[i + 1].speed - t[i].speed) = t[i].speed * step
    BY <2>1, <2>2, <2>3
  <2>. QED BY <1>1, <1>2, <2>4, Quotient
<1>6. Along(s, Post(s, x)) = x
  BY <1>1, <1>3, PostIsAlong
<1>7. target = [speed |-> (t[i].speed * step + (x - i * step) * (t[i + 1].speed - t[i].speed)) \div step,
                flag |-> t[i].flag, value |-> t[i].value]
  BY <1>1, <1>3, <1>4, <1>6 DEF TargetSpeed
<1>. QED BY <1>5, <1>7

-----------------------------------------------------------------------------
(* The sections and the tables that are made of them can be divided. *)
LEMMA SectionsAre ==
  ASSUME NEW s \in Sections
  PROVE  IsSection(s) /\ Word \in Nat
<1>1. /\ LineLength \in Nat /\ Word \in Nat /\ Word > LineLength
      /\ s.begin \in 0..LineLength /\ s.end \in 0..LineLength /\ Length(s) > Wide
  BY PlanAssumption
<1>2. Wide \in Nat
  BY EnvelopeAssumption
<1>3. s.begin \in Nat /\ s.end \in Nat /\ Length(s) \in Int /\ Length(s) <= LineLength
  BY <1>1 DEF Length
<1>. QED BY <1>1, <1>2, <1>3 DEF IsSection

LEMMA StepSizeType ==
  ASSUME NEW length
  PROVE  StepSize(length) \in Nat \ {0} /\ StepSize(length) >= 2 * Sample
BY EnvelopeAssumption, LineAssumption DEF StepSize

LEMMA StepsFit ==
  ASSUME NEW length \in Nat \ {0}, NEW step \in Nat \ {0}
  PROVE  /\ LastStep(length, step) \in Nat /\ LastStep(length, step) * step \in Nat
         /\ LastStep(length, step) * step < length
         /\ length <= LastStep(length, step) * step + step
<1>. DEFINE q == (length + step - 1) \div step
            p == q * step
<1>1. length + step - 1 \in Nat
  OBVIOUS
<1>2. q \in Nat /\ p <= length + step - 1 /\ length + step - 1 < p + step
  BY <1>1, Division
<1>3. p \in Nat /\ (q = 0 => p = 0) /\ (q - 1) * step = p - step
  BY <1>2
<1>. HIDE DEF p, q
<1>4. q # 0
  BY <1>2, <1>3
<1>5. /\ q - 1 \in Nat /\ (q - 1) * step \in Nat
      /\ (q - 1) * step < length /\ length <= (q - 1) * step + step
  BY <1>2, <1>3, <1>4
<1>. QED BY <1>5 DEF LastStep, q

LEMMA FoundTable ==
  ASSUME NEW p, p.dim \in Nat
  PROVE  DOMAIN Run(p) = 0..p.dim /\ Run(p)[p.dim].flag # Traction
<1>1. p.dim \in 0..p.dim /\ ~(p.dim < p.dim)
  OBVIOUS
<1>. QED BY <1>1 DEF Run, Braking, Traction

LEMMA StoredTableIs ==
  ASSUME NEW s \in Sections
  PROVE  LET t == StoredTable(Stored(s), s)
             dim == Cardinality(DOMAIN t) - 1
         IN  /\ DOMAIN t = 0..dim /\ IsTable(t, dim, Row, s)
             /\ \A i \in 0..dim : t[i].speed \in Nat /\ t[i].flag \in Flags /\ t[i].value \in Nat
<1>. DEFINE rows == Stored(s)
            I == {i \in DOMAIN rows : Along(s, rows[i].post) \in 0..Length(s)}
            inside == Counted(I)
            c == Cardinality(I)
            row(n) == inside[IF s.down THEN n ELSE c + 1 - n]
            t == StoredTable(rows, s)
            dim == Cardinality(DOMAIN t) - 1
<1>1. /\ Row \in Nat \ {0}
      /\ IsFiniteSet(DOMAIN rows) /\ DOMAIN rows \subseteq Nat
      /\ \A i \in DOMAIN rows : /\ rows[i].post \in Int /\ rows[i].speed \in Nat
                               /\ rows[i].flag \in Flags /\ rows[i].value \in Nat
      /\ \A i, j \in DOMAIN rows : rows[j].post - rows[i].post = Row * (j - i)
      /\ \E i \in I : rows[i].flag # Traction
  BY StoredAssumption DEF Flags
<1>. HIDE DEF rows
<1>2. I \in SUBSET Int /\ I \subseteq Nat /\ I \subseteq DOMAIN rows /\ IsFiniteSet(I) /\ I # {}
  <2>1. IsFiniteSet(I)
    BY <1>1, FS_Subset
  <2>. QED BY <1>1, <2>1
<1>. HIDE DEF I
<1>3. /\ c \in Nat /\ inside \in [1..c -> I]
      /\ \A m, n \in 1..c : m < n => inside[m] < inside[n]
      /\ \A i \in I : \E n \in 1..c : inside[n] = i
  BY <1>2, CountedIs
<1>. HIDE DEF inside, c
<1>4. c # 0
  <2>1. \E n \in 1..c : TRUE
    BY <1>2, <1>3
  <2>. QED BY <2>1
<1>5. Len(inside) = c /\ DOMAIN inside = 1..c
  BY <1>3
<1>6. /\ DOMAIN t = 0..(c - 1)
      /\ \A i \in 0..(c - 1) : /\ t[i].flag = rows[row(i + 1)].flag
                              /\ t[i].speed \in Nat /\ t[i].flag \in Flags /\ t[i].value \in Nat
  <2>. DEFINE passed == [n \in 1..c |-> rows[row(n)]]
              stands(i) == i < HeadRows /\ passed[i + 1].speed = 0 /\ i + 1 < c
  <2>1. /\ DOMAIN Met(s, I) = 1..c
        /\ \A n \in 1..c : Met(s, I)[n] = row(n)
    BY DEF Met, inside, c
  <2>2. Len(passed) = c
    BY <1>3
  <2>3. t = [i \in 0..(c - 1) |->
               [speed |-> passed[IF stands(i) THEN i + 2 ELSE i + 1].speed,
                flag |-> passed[i + 1].flag,
                value |-> passed[i + 1].value]]
    <3>. DEFINE P == [n \in DOMAIN Met(s, I) |-> rows[Met(s, I)[n]]]
    <3>1. P = passed
      BY <2>1
    <3>2. t = LET stand(i) == i < HeadRows /\ P[i + 1].speed = 0 /\ i + 1 < Len(P)
              IN  [i \in 0..(Len(P) - 1) |->
                     [speed |-> P[IF stand(i) THEN i + 2 ELSE i + 1].speed,
                      flag |-> P[i + 1].flag,
                      value |-> P[i + 1].value]]
      BY DEF StoredTable, I
    <3>. HIDE DEF P, passed
    <3>. QED BY <2>2, <3>1, <3>2
  <2>4. \A i \in 0..(c - 1) : i + 1 \in 1..c
    BY <1>3
  <2>5. \A i \in 0..(c - 1) : passed[i + 1] = rows[row(i + 1)]
    BY <2>4
  <2>6. \A n \in 1..c : /\ passed[n].speed \in Nat /\ passed[n].flag \in Flags
                       /\ passed[n].value \in Nat
    <3>. SUFFICES ASSUME NEW n \in 1..c
                  PROVE  /\ passed[n].speed \in Nat /\ passed[n].flag \in Flags
                         /\ passed[n].value \in Nat
      OBVIOUS
    <3>1. (IF s.down THEN n ELSE c + 1 - n) \in 1..c
      BY <1>3
    <3>2. row(n) \in DOMAIN rows
      BY <1>2, <1>3, <3>1
    <3>3. passed[n] = rows[row(n)]
      OBVIOUS
    <3>. HIDE DEF passed, row
    <3>. QED BY <1>1, <3>2, <3>3
  <2>. HIDE DEF passed, row
  <2>7. \A i \in 0..(c - 1) : (IF stands(i) THEN i + 2 ELSE i + 1) \in 1..c
    BY <1>3
  <2>. HIDE DEF stands
  <2>. QED BY <2>3, <2>4, <2>5, <2>6, <2>7
<1>. HIDE DEF t
<1>7. dim = c - 1
  <2>1. Cardinality(0..(c - 1)) = c
    BY <1>3, <1>4, FS_Interval
  <2>. QED BY <1>3, <1>6, <2>1
<1>8. \E i \in 0..(c - 1) : t[i].flag # Traction
  <2>1. PICK j \in I : rows[j].flag # Traction
    BY <1>1
  <2>2. PICK n \in 1..c : inside[n] = j
    BY <1>3
  <2>. DEFINE i == IF s.down THEN n - 1 ELSE c - n
  <2>3. i \in 0..(c - 1) /\ (IF s.down THEN i + 1 ELSE c + 1 - (i + 1)) = n
    BY <1>3
  <2>4. t[i].flag = rows[j].flag
    BY <1>6, <2>2, <2>3
  <2>. QED BY <2>1, <2>3, <2>4
<1>9. (c - 1) * Row <= Length(s)
  <2>. DEFINE lo == inside[1]
              hi == inside[c]
              d == hi - lo
  <2>1. 1 \in 1..c /\ c \in 1..c
    BY <1>3, <1>4
  <2>2. lo \in I /\ hi \in I
    BY <1>3, <2>1
  <2>3. lo \in Nat /\ hi \in Nat
    BY <1>2, <2>2
  <2>. HIDE DEF lo, hi
  <2>4. I \subseteq lo..hi
    <3>. SUFFICES ASSUME NEW i \in I PROVE i \in lo..hi
      OBVIOUS
    <3>1. PICK n \in 1..c : inside[n] = i
      BY <1>3
    <3>2. n = 1 \/ 1 < n
      BY <1>3
    <3>3. n = c \/ n < c
      BY <1>3
    <3>4. lo <= i
      BY <1>2, <1>3, <2>1, <2>3, <3>1, <3>2 DEF lo
    <3>5. i <= hi
      BY <1>2, <1>3, <2>1, <2>3, <3>1, <3>3 DEF hi
    <3>. QED BY <1>2, <2>3, <3>4, <3>5
  <2>5. lo <= hi
    BY <2>2, <2>3, <2>4
  <2>6. c - 1 <= d
    <3>1. IsFiniteSet(lo..hi) /\ Cardinality(lo..hi) = hi - lo + 1
      BY <2>3, <2>5, FS_Interval
    <3>2. Cardinality(I) <= Cardinality(lo..hi)
      BY <2>4, <3>1, FS_Subset
    <3>. QED BY <1>3, <2>3, <3>1, <3>2 DEF c
  <2>7. d \in Nat /\ c - 1 \in Nat
    BY <1>3, <1>4, <2>3, <2>5
  <2>8. rows[hi].post - rows[lo].post = Row * d /\ rows[hi].post \in Int /\ rows[lo].post \in Int
    BY <1>1, <2>2 DEF I
  <2>9. Along(s, rows[hi].post) \in 0..Length(s) /\ Along(s, rows[lo].post) \in 0..Length(s)
    BY <2>2 DEF I
  <2>10. IsSection(s)
    BY SectionsAre
  <2>. HIDE DEF d
  <2>11. rows[hi].post - rows[lo].post <= Length(s)
    BY <2>8, <2>9, <2>10 DEF Along, IsSection
  <2>12. (c - 1) * Row <= d * Row /\ (c - 1) * Row \in Nat
    BY <1>1, <2>6, <2>7, StepsMonotone
  <2>13. Row * d = d * Row /\ d * Row \in Nat
    BY <1>1, <2>7
  <2>14. Length(s) \in Nat
    BY <2>10 DEF IsSection
  <2>. QED BY <2>8, <2>11, <2>12, <2>13, <2>14
<1>10. c - 1 \in Nat
  BY <1>3, <1>4
<1>. QED BY <1>1, <1>6, <1>7, <1>8, <1>9, <1>10 DEF IsTable, IsWorked, t, rows

-----------------------------------------------------------------------------
(* What a state has been made of: the step size is that of the section, a  *)
(* table found ends where the steps of the section do, a table stored is   *)
(* the one of the section, and the recommendations are those of the table. *)
PlanInv ==
  /\ section \in Sections
  /\ mode \in 0..2 /\ (mode # 0 <=> pc = "divided")
  /\ pc \in {"ready", "bounded", "run", "divided"} =>
       /\ {"step", "dim"} \subseteq DOMAIN plan
       /\ plan.step = StepSize(Length(section))
  /\ pc \in {"ready", "bounded", "run"} \/ mode = 1 =>
       plan.dim = LastStep(Length(section), plan.step)
  /\ pc = "run" \/ mode = 1 => DOMAIN table = 0..plan.dim /\ table[plan.dim].flag # Traction
  /\ mode = 2 => /\ table = StoredTable(Stored(section), section)
                 /\ plan.dim = Cardinality(DOMAIN table) - 1
  /\ pc = "divided" => recs = Recommendations(table, plan.dim, plan.step, section)

LEMMA PlanInvInit == Init => PlanInv
BY DEF Init, PlanInv

LEMMA PlanInvNext == PlanInv /\ [Next]_vars => PlanInv'
<1>. SUFFICES ASSUME PlanInv, [Next]_vars PROVE PlanInv'
  OBVIOUS
<1>1. CASE ReadFiles
  BY <1>1, Zenon DEF PlanInv, ReadFiles
<1>2. CASE FileMissing
  BY <1>2 DEF PlanInv, FileMissing
<1>3. CASE SampleLine
  BY <1>3 DEF PlanInv, SampleLine
<1>4. CASE BaseData
  <2>1. /\ plan'.step = StepSize(Length(section)) /\ {"step", "dim"} \subseteq DOMAIN plan'
        /\ plan'.dim = LastStep(Length(section), plan'.step)
    BY <1>4 DEF BaseData
  <2>. QED BY <1>4, <2>1 DEF PlanInv, BaseData
<1>5. CASE Model
  <2>1. /\ plan'.step = plan.step /\ plan'.dim = plan.dim
        /\ {"step", "dim"} \subseteq DOMAIN plan'
    BY <1>5 DEF Model, PlanInv
  <2>. QED BY <1>5, <2>1 DEF PlanInv, Model
<1>6. CASE Solve
  <2>1. /\ plan'.step = plan.step /\ plan'.dim = plan.dim
        /\ {"step", "dim"} \subseteq DOMAIN plan'
        /\ table' = Run(plan')
    BY <1>6 DEF Solve, PlanInv
  <2>2. Length(section) \in Nat \ {0} /\ plan.step \in Nat \ {0}
    BY <1>6, SectionsAre, StepSizeType DEF PlanInv, Solve, IsSection
  <2>3. plan'.dim \in Nat
    BY <1>6, <2>1, <2>2, StepsFit DEF PlanInv, Solve
  <2>4. DOMAIN table' = 0..plan'.dim /\ table'[plan'.dim].flag # Traction
    BY <2>1, <2>3, FoundTable
  <2>5. pc' = "run" /\ pc = "bounded" /\ UNCHANGED <<section, recs, mode>>
    BY <1>6 DEF Solve
  <2>. QED BY <2>1, <2>4, <2>5 DEF PlanInv
<1>7. CASE Divide
  BY <1>7 DEF PlanInv, Divide
<1>8. CASE DivideStored
  BY <1>8 DEF PlanInv, DivideStored
<1>9. CASE Report
  BY <1>9 DEF PlanInv, Report
<1>10. CASE UNCHANGED vars
  BY <1>10 DEF PlanInv, vars
<1>. QED BY <1>1, <1>2, <1>3, <1>4, <1>5, <1>6, <1>7, <1>8, <1>9, <1>10 DEF Next

(* A plan that stands has steps, and one whose steps are as far apart as   *)
(* it says can be divided.                                                 *)
LEMMA DividedIs ==
  ASSUME PlanInv, pc = "divided"
  PROVE  /\ IsSection(section) /\ Word \in Nat
         /\ plan.dim \in Nat /\ plan.step \in Nat \ {0}
         /\ IsWorked(table, plan.dim, plan.step)
         /\ Stepped => IsTable(table, plan.dim, plan.step, section)
         /\ recs = Recommendations(table, plan.dim, plan.step, section)
<1>1. /\ section \in Sections /\ mode \in {1, 2}
      /\ plan.step = StepSize(Length(section))
      /\ recs = Recommendations(table, plan.dim, plan.step, section)
  BY DEF PlanInv
<1>2. /\ IsSection(section) /\ Word \in Nat /\ plan.step \in Nat \ {0}
      /\ Length(section) \in Nat \ {0}
  BY <1>1, SectionsAre, StepSizeType DEF IsSection
<1>3. CASE mode = 1
  <2>1. /\ plan.dim = LastStep(Length(section), plan.step)
        /\ DOMAIN table = 0..plan.dim /\ table[plan.dim].flag # Traction
    BY <1>3 DEF PlanInv
  <2>2. plan.dim \in Nat /\ plan.dim * plan.step <= Length(section)
    <3>1. /\ plan.dim \in Nat /\ plan.dim * plan.step \in Nat
          /\ plan.dim * plan.step < Length(section)
      BY <1>2, <2>1, StepsFit
    <3>. DEFINE p == plan.dim * plan.step
    <3>2. p \in Nat /\ p < Length(section)
      BY <3>1
    <3>. HIDE DEF p
    <3>3. p <= Length(section)
      BY <1>2, <3>2
    <3>. QED BY <3>1, <3>3 DEF p
  <2>3. plan.dim \in 0..plan.dim
    BY <2>2
  <2>. QED BY <1>1, <1>2, <2>1, <2>2, <2>3 DEF IsTable, IsWorked
<1>4. CASE mode = 2
  <2>1. IsTable(table, plan.dim, Row, section)
    BY <1>1, <1>4, StoredTableIs DEF PlanInv
  <2>. QED BY <1>1, <1>2, <1>4, <2>1 DEF IsTable, IsWorked, Stepped
<1>. QED BY <1>1, <1>3, <1>4

LEMMA PlanInvariance == Spec => []PlanInv
BY PlanInvInit, PlanInvNext, PTL DEF Spec

(* The recommendations of every plan, found or stored, of every line are   *)
(* in the order the train meets them, within the section, and end with its *)
(* stop.                                                                   *)
THEOREM AdviceInOrder == Spec => []AdviceOrdered
<1>1. PlanInv => AdviceOrdered
  <2>. SUFFICES ASSUME PlanInv, Divided, Stepped
                PROVE  /\ \A m, n \in DOMAIN recs :
                            m < n => Along(section, recs[m].post) <= Along(section, recs[n].post)
                       /\ \A n \in DOMAIN recs : recs[n].post \in Posts
                       /\ recs[Len(recs)].post = section.end
    BY DEF AdviceOrdered
  <2>1. IsSection(section) /\ InOrderOf(section, recs)
    BY DividedIs, RecommendationsInOrder DEF Divided
  <2>2. recs[Len(recs)].post = section.end
    BY <2>1, PostEnds DEF InOrderOf
  <2>. QED BY <2>1, <2>2 DEF InOrderOf, Posts
<1>. QED BY <1>1, PlanInvariance, PTL

(* Before the stop the driver is told the first recommendation ahead, and  *)
(* how far it is.                                                          *)
THEOREM NextIsTold == Spec => []AdviceIsNext
<1>1. PlanInv => AdviceIsNext
  <2>. SUFFICES ASSUME PlanInv, Divided, Stepped, NEW post \in Posts \ {section.end}
                PROVE  LET next == NextRecommendation(table, recs, plan.step, section, post)
                           ahead == {n \in DOMAIN recs :
                                       Along(section, recs[n].post) > Along(section, post)}
                       IN  /\ next.distance \in 1..Length(section)
                           /\ \E n \in ahead :
                                /\ \A m \in ahead : n <= m
                                /\ next.distance = Along(section, recs[n].post) - Along(section, post)
                                /\ next.speed = recs[n].speed /\ next.work = recs[n].work
    BY Zenon DEF AdviceIsNext
  <2>1. IsSection(section) /\ Word \in Nat /\ InOrderOf(section, recs)
    BY DividedIs, RecommendationsInOrder DEF Divided
  <2>2. PICK x \in 0..Length(section) : post = Post(section, x)
    BY DEF Posts
  <2>3. x \in 0..(Length(section) - 1)
    <3>1. x # Length(section)
      BY <2>1, <2>2, PostEnds
    <3>2. Length(section) \in Nat
      BY <2>1 DEF IsSection
    <3>. QED BY <3>1, <3>2
  <2>4. LET next == NextRecommendation(table, recs, plan.step, section, Post(section, x))
            ahead == {n \in DOMAIN recs :
                        Along(section, recs[n].post) > Along(section, Post(section, x))}
        IN  /\ next.distance \in 1..Length(section)
            /\ \E n \in ahead :
                 /\ \A m \in ahead : n <= m
                 /\ next.distance = Along(section, recs[n].post) - Along(section, Post(section, x))
                 /\ next.speed = recs[n].speed /\ next.work = recs[n].work
    BY <2>1, <2>3, NextIsAhead
  <2>. QED BY <2>2, <2>4
<1>. QED BY <1>1, PlanInvariance, PTL

-----------------------------------------------------------------------------
(* The files: a text is read as it was written.                            *)
LEMMA GreatestIs ==
  ASSUME NEW S \in SUBSET Int, NEW m \in S, \A i \in S : i <= m
  PROVE  Max(S) = m
<1>1. \A i \in S : m >= i
  OBVIOUS
<1>2. \A x \in S : (\A i \in S : x >= i) => x = m
  OBVIOUS
<1>. QED BY <1>1, <1>2 DEF Max

LEMMA LeastIs ==
  ASSUME NEW S \in SUBSET Int, NEW m \in S, \A i \in S : m <= i
  PROVE  Min(S) = m
<1>1. \A x \in S : (\A i \in S : x <= i) => x = m
  OBVIOUS
<1>. QED BY <1>1 DEF Min

LEMMA CellIs ==
  ASSUME NEW text, NEW n \in Nat \ {0}, text[n] # Blank
  PROVE  CellAt(text, n) = text[n]
<1>. DEFINE S == {p \in 1..n : text[p] # Blank}
<1>1. S \in SUBSET Int /\ n \in S /\ \A i \in S : i <= n
  OBVIOUS
<1>2. Max(S) = n
  <2>. HIDE DEF S
  <2>. QED BY <1>1, GreatestIs
<1>. QED BY <1>2 DEF CellAt

(* A cell of row i lies in the part of the text that row takes. *)
LEMMA PlaceOfCell ==
  ASSUME NEW c \in Nat \ {0}, NEW n \in Nat \ {0}, NEW i \in 1..n, NEW j \in 1..c
  PROVE  LET p == 6 + i * c + j
         IN  /\ p \in 1..(6 + c * (n + 1)) /\ ~(p <= 6) /\ ~(p <= 6 + c)
             /\ (p - 7) \div c = i /\ ((p - 7) % c) + 1 = j
<1>. DEFINE a == i * c
            p == 6 + a + j
<1>1. a \in Nat /\ c <= a /\ a <= n * c /\ n * c \in Nat
  <2>1. 1 * c <= i * c /\ i * c <= n * c
    BY StepsMonotone
  <2>. QED BY <2>1
<1>2. c * (n + 1) = n * c + c
  OBVIOUS
<1>3. p - 7 = i * c + (j - 1)
  BY <1>1
<1>. HIDE DEF a
<1>4. p \in 1..(6 + c * (n + 1)) /\ ~(p <= 6) /\ ~(p <= 6 + c)
  BY <1>1, <1>2
<1>5. (p - 7) \div c = i /\ ((p - 7) % c) + 1 = j
  <2>. DEFINE b == p - 7
              q == b \div c
              r == b % c
  <2>1. b \in Nat /\ j - 1 \in 0..(c - 1) /\ b = i * c + (j - 1)
    BY <1>1, <1>3
  <2>. HIDE DEF b, p
  <2>2. q \in Nat /\ q * c <= b /\ b < q * c + c /\ b = c * q + r
    BY <2>1, Division
  <2>. HIDE DEF q
  <2>3. ~(q < i)
    <3>. SUFFICES ASSUME q < i PROVE FALSE
      OBVIOUS
    <3>1. (q + 1) * c <= i * c
      BY <2>2, StepsMonotone
    <3>2. (q + 1) * c = q * c + c /\ q * c \in Nat /\ i * c \in Nat
      BY <2>2
    <3>. QED BY <2>1, <2>2, <3>1, <3>2
  <2>4. ~(i < q)
    <3>. SUFFICES ASSUME i < q PROVE FALSE
      OBVIOUS
    <3>1. (i + 1) * c <= q * c
      BY <2>2, StepsMonotone
    <3>2. (i + 1) * c = i * c + c /\ q * c \in Nat /\ i * c \in Nat
      BY <2>2
    <3>. QED BY <2>1, <2>2, <3>1, <3>2
  <2>5. q = i
    BY <2>2, <2>3, <2>4
  <2>6. r \in Int /\ r = j - 1
    BY <2>1, <2>2, <2>5
  <2>. QED BY <2>5, <2>6 DEF q, r, b, p
<1>. QED BY <1>4, <1>5 DEF a

LEMMA TextIsRead ==
  ASSUME NEW label \in Int, NEW n \in Nat \ {0}, NEW c \in Nat \ {0}, NEW rows,
         Len(rows) = n, Len(rows[1]) = c
  PROVE  LET read == ReadCsvConfig(Text(label, rows))
         IN  /\ read.label = label /\ DOMAIN read.rows = 1..n
             /\ \A i \in 1..n, j \in 1..c :
                  rows[i][j] # Blank => read.rows[i][j] = rows[i][j]
<1>. DEFINE text == Text(label, rows)
            header == <<"label_flag", "rows", "columns", label, n, c>>
<1>1. \A p \in 1..(6 + c * (n + 1)) :
        text[p] = IF p <= 6 THEN header[p] ELSE IF p <= 6 + c THEN "name"
                  ELSE rows[(p - 7) \div c][((p - 7) % c) + 1]
  BY DEF Text
<1>2. c * (n + 1) \in Nat
  OBVIOUS
<1>. HIDE DEF text
<1>3. text[4] = label /\ text[5] = n /\ text[6] = c
  <2>1. {4, 5, 6} \subseteq 1..(6 + c * (n + 1))
    BY <1>2
  <2>2. header[4] = label /\ header[5] = n /\ header[6] = c
    OBVIOUS
  <2>. HIDE DEF header
  <2>. QED BY <1>1, <2>1, <2>2
<1>4. CellAt(text, 4) = label /\ CellAt(text, 5) = n /\ CellAt(text, 6) = c
  <2>1. label # Blank /\ n # Blank /\ c # Blank
    BY DataAssumption
  <2>. QED BY <1>3, <2>1, CellIs
<1>5. ASSUME NEW i \in 1..n, NEW j \in 1..c, rows[i][j] # Blank
      PROVE  CellAt(text, 6 + i * c + j) = rows[i][j]
  <2>. DEFINE p == 6 + i * c + j
  <2>1. /\ p \in 1..(6 + c * (n + 1)) /\ ~(p <= 6) /\ ~(p <= 6 + c)
        /\ (p - 7) \div c = i /\ ((p - 7) % c) + 1 = j
    BY PlaceOfCell
  <2>2. p \in Nat \ {0}
    <3>1. i * c \in Nat
      OBVIOUS
    <3>. QED BY <3>1
  <2>. HIDE DEF p
  <2>3. text[p] = rows[i][j]
    BY <1>1, <2>1
  <2>4. CellAt(text, p) = rows[i][j]
    BY <1>5, <2>2, <2>3, CellIs
  <2>. QED BY <2>4 DEF p
<1>6. ReadCsvConfig(text) =
        [label |-> label,
         rows |-> [i \in 1..n |-> [j \in 1..c |-> CellAt(text, 6 + i * c + j)]]]
  BY <1>4 DEF ReadCsvConfig
<1>. QED BY <1>5, <1>6 DEF text

(* The rows of zones with two or three columns come back as the zones.     *)
LEMMA ZonesAreRead ==
  ASSUME NEW V, Blank \notin V, V \subseteq Int, NEW z \in Seq([from : Nat, value : V]), Len(z) > 0,
         NEW c \in {2, 3}, NEW label \in Int, NEW rows,
         Len(rows) = Len(z), Len(rows[1]) = c,
         \A k \in DOMAIN z : rows[k][1] = z[k].from /\ rows[k][2] = z[k].value
  PROVE  LET read == ReadCsvConfig(Text(label, rows))
         IN  read.label = label /\ Zones(read.rows) = z
<1>. DEFINE read == ReadCsvConfig(Text(label, rows))
            n == Len(z)
<1>1. n \in Nat \ {0} /\ DOMAIN z = 1..n /\ \A k \in 1..n : z[k] \in [from : Nat, value : V]
  <2>. DEFINE R == [from : Nat, value : V]
  <2>1. z \in Seq(R)
    OBVIOUS
  <2>. HIDE DEF R
  <2>2. n \in Nat /\ DOMAIN z = 1..n /\ \A k \in 1..n : z[k] \in R
    BY <2>1
  <2>. QED BY <2>2 DEF R
<1>2. /\ read.label = label /\ DOMAIN read.rows = 1..n
      /\ \A i \in 1..n, j \in 1..c :
           rows[i][j] # Blank => read.rows[i][j] = rows[i][j]
  <2>1. c \in Nat \ {0}
    OBVIOUS
  <2>. HIDE DEF n
  <2>. QED BY <1>1, <2>1, TextIsRead DEF n
<1>. HIDE DEF read, n
<1>3. ASSUME NEW k \in 1..n
      PROVE  [from |-> read.rows[k][1], value |-> read.rows[k][2]] = z[k]
  <2>1. z[k].from \in Nat /\ z[k].value \in V /\ z[k] = [from |-> z[k].from, value |-> z[k].value]
    BY <1>1
  <2>2. rows[k][1] = z[k].from /\ rows[k][2] = z[k].value
    BY <1>1
  <2>3. rows[k][1] # Blank /\ rows[k][2] # Blank
    BY <2>1, <2>2, DataAssumption
  <2>4. 1 \in 1..c /\ 2 \in 1..c
    OBVIOUS
  <2>5. read.rows[k][1] = z[k].from /\ read.rows[k][2] = z[k].value
    BY <1>2, <2>2, <2>3, <2>4
  <2>. QED BY <2>1, <2>5
<1>4. Zones(read.rows) = [k \in 1..n |-> z[k]]
  BY <1>2, <1>3 DEF Zones
<1>5. z = [k \in 1..n |-> z[k]]
  BY <1>1
<1>. QED BY <1>2, <1>4, <1>5 DEF read

LEMMA FilesAreRead ==
  ASSUME zones \in [limits : LimitZones, slopes : SlopeZones]
  PROVE  LET texts == StaticDataRead(Texts)
         IN  /\ Zones(RowsOf(texts, SpeedLimits)) = zones.limits
             /\ Zones(RowsOf(texts, Gradients)) = zones.slopes
<1>. DEFINE L == zones.limits
            G == zones.slopes
            limits == [k \in DOMAIN L |-> <<L[k].from, L[k].value>>]
            slopes == [k \in DOMAIN G |-> <<G[k].from, G[k].value, Blank>>]
            texts == StaticDataRead(Texts)
<1>1. /\ L \in Seq([from : Nat, value : Nat]) /\ Len(L) > 0
      /\ G \in Seq([from : Nat, value : Int]) /\ Len(G) > 0
  BY FilesAssumption
<1>. HIDE DEF L, G
<1>2. /\ Len(limits) = Len(L) /\ Len(limits[1]) = 2
      /\ \A k \in DOMAIN L : limits[k][1] = L[k].from /\ limits[k][2] = L[k].value
  BY <1>1
<1>3. /\ Len(slopes) = Len(G) /\ Len(slopes[1]) = 3
      /\ \A k \in DOMAIN G : slopes[k][1] = G[k].from /\ slopes[k][2] = G[k].value
  BY <1>1
<1>4. /\ ReadCsvConfig(Text(SpeedLimits, limits)).label = SpeedLimits
      /\ Zones(ReadCsvConfig(Text(SpeedLimits, limits)).rows) = L
  <2>1. Blank \notin Nat /\ Nat \subseteq Int /\ SpeedLimits \in Int
    BY DataAssumption DEF SpeedLimits
  <2>. HIDE DEF limits
  <2>. QED BY <1>1, <1>2, <2>1, ZonesAreRead
<1>5. /\ ReadCsvConfig(Text(Gradients, slopes)).label = Gradients
      /\ Zones(ReadCsvConfig(Text(Gradients, slopes)).rows) = G
  <2>1. Blank \notin Int /\ Gradients \in Int
    BY DataAssumption DEF Gradients
  <2>. HIDE DEF slopes
  <2>. QED BY <1>1, <1>3, <2>1, ZonesAreRead
<1>6. texts = <<ReadCsvConfig(Text(SpeedLimits, limits)), ReadCsvConfig(Text(Gradients, slopes))>>
  BY DEF StaticDataRead, Texts, L, G
<1>. HIDE DEF limits, slopes
<1>7. DOMAIN texts = {1, 2} /\ texts[1].label = SpeedLimits /\ texts[2].label = Gradients
  BY <1>4, <1>5, <1>6
<1>8. Zones(RowsOf(texts, SpeedLimits)) = L
  <2>1. {n \in DOMAIN texts : texts[n].label = SpeedLimits} = {1}
    BY <1>7 DEF SpeedLimits, Gradients
  <2>2. Max({1}) = 1
    BY GreatestIs
  <2>3. RowsOf(texts, SpeedLimits) = texts[1].rows
    BY <2>1, <2>2 DEF RowsOf
  <2>. QED BY <1>4, <1>6, <2>3
<1>9. Zones(RowsOf(texts, Gradients)) = G
  <2>1. {n \in DOMAIN texts : texts[n].label = Gradients} = {2}
    BY <1>7 DEF SpeedLimits, Gradients
  <2>2. Max({2}) = 2
    BY GreatestIs
  <2>3. RowsOf(texts, Gradients) = texts[2].rows
    BY <2>1, <2>2 DEF RowsOf
  <2>. QED BY <1>5, <1>6, <2>3
<1>. QED BY <1>8, <1>9 DEF L, G

-----------------------------------------------------------------------------
(* The samples of a section. *)
LEMMA ProductsOrder ==
  ASSUME NEW i \in Int, NEW j \in Int, NEW step \in Nat \ {0}
  PROVE  /\ i <= j <=> i * step <= j * step
         /\ i < j <=> i * step + step <= j * step
<1>1. ASSUME NEW p \in Int, NEW q \in Int, p <= q PROVE p * step <= q * step
  <2>1. q - p \in Nat /\ q = p + (q - p)
    BY <1>1
  <2>. DEFINE d == q - p
  <2>2. d \in Nat /\ q = p + d
    BY <2>1
  <2>. HIDE DEF d
  <2>3. q * step = p * step + d * step /\ d * step \in Nat /\ p * step \in Int
    BY <2>2
  <2>. QED BY <2>3
<1>2. ASSUME NEW p \in Int, NEW q \in Int, p < q PROVE p * step + step <= q * step
  <2>1. p + 1 <= q /\ p + 1 \in Int
    BY <1>2
  <2>2. (p + 1) * step <= q * step
    BY <1>1, <2>1
  <2>3. (p + 1) * step = p * step + step
    OBVIOUS
  <2>. QED BY <2>2, <2>3
<1>3. i * step \in Int /\ j * step \in Int
  OBVIOUS
<1>4. i <= j => i * step <= j * step
  BY <1>1
<1>5. j < i => j * step + step <= i * step
  BY <1>2
<1>6. i < j => i * step + step <= j * step
  BY <1>2
<1>7. j <= i => j * step <= i * step
  BY <1>1
<1>. QED BY <1>3, <1>4, <1>5, <1>6, <1>7

LEMMA SamplesBetween ==
  ASSUME NEW l \in Nat, NEW h \in Nat, l + 2 * Sample < h, h <= LineLength
  PROVE  \E lo, hi \in Samples(LineLength) :
           /\ {i \in Samples(LineLength) : l <= i * Sample /\ i * Sample <= h} = lo..hi
           /\ lo <= hi
           /\ l <= lo * Sample /\ lo * Sample < l + Sample
           /\ h - 2 * Sample < hi * Sample /\ hi * Sample <= h
<1>. DEFINE S == Sample
            N == LineLength \div S
            lo == (l + S - 1) \div S
            e == h \div S
            hi == IF e <= N - 1 THEN e ELSE N - 1
<1>1. S \in Nat \ {0} /\ LineLength \in Nat
  BY LineAssumption, PlanAssumption
<1>. HIDE DEF S
<1>2. N \in Nat /\ N * S <= LineLength /\ LineLength < N * S + S
  BY <1>1, Division
<1>3. e \in Nat /\ e * S <= h /\ h < e * S + S
  BY <1>1, Division
<1>4. lo \in Nat /\ l <= lo * S /\ lo * S < l + S
  <2>1. l + S - 1 \in Nat
    BY <1>1
  <2>2. lo \in Nat /\ lo * S <= l + S - 1 /\ l + S - 1 < lo * S + S
    BY <1>1, <2>1, Division
  <2>3. lo * S \in Int
    BY <1>1, <2>2
  <2>. HIDE DEF lo
  <2>. QED BY <1>1, <2>2, <2>3
<1>. HIDE DEF N, e, lo
<1>5. (N - 1) * S = N * S - S /\ N * S \in Int /\ e * S \in Int /\ lo * S \in Int
  BY <1>1, <1>2, <1>3, <1>4
<1>6. l + 2 * S < h
  BY DEF S
<1>7. hi \in Int /\ hi * S <= h /\ h - 2 * S < hi * S
  <2>1. CASE e <= N - 1
    BY <1>1, <1>3, <1>5, <2>1
  <2>2. CASE ~(e <= N - 1)
    <3>1. hi = N - 1
      BY <2>2
    <3>2. N <= e
      BY <1>2, <1>3, <2>2
    <3>3. N * S <= e * S
      BY <1>1, <1>2, <1>3, <3>2, ProductsOrder
    <3>4. (N - 1) * S <= h /\ h - 2 * S < (N - 1) * S
      BY <1>1, <1>2, <1>3, <1>5, <3>3
    <3>. QED BY <1>2, <3>1, <3>4
  <2>. QED BY <2>1, <2>2
<1>8. lo <= hi
  <2>1. hi * S \in Int
    BY <1>1, <1>7
  <2>2. ~(hi * S + S <= lo * S)
    BY <1>1, <1>4, <1>5, <1>6, <1>7, <2>1
  <2>. HIDE DEF hi
  <2>3. ~(hi < lo)
    BY <1>1, <1>4, <1>7, <2>2, ProductsOrder
  <2>. QED BY <1>4, <1>7, <2>3
<1>9. lo \in 0..(N - 1) /\ hi \in 0..(N - 1)
  BY <1>2, <1>3, <1>4, <1>8
<1>10. ASSUME NEW i \in 0..(N - 1)
       PROVE  l <= i * S /\ i * S <= h <=> i \in lo..hi
  <2>1. i * S \in Int
    BY <1>1
  <2>2. lo <= i => l <= i * S
    <3>1. lo <= i => lo * S <= i * S
      BY <1>1, <1>4, ProductsOrder
    <3>. QED BY <1>4, <1>5, <2>1, <3>1
  <2>3. i < lo => ~(l <= i * S)
    <3>1. i < lo => i * S + S <= lo * S
      BY <1>1, <1>4, ProductsOrder
    <3>. QED BY <1>1, <1>4, <1>5, <2>1, <3>1
  <2>4. i <= hi => i * S <= h
    <3>1. hi * S \in Int
      BY <1>1, <1>7
    <3>2. i <= hi => i * S <= hi * S
      <4>. HIDE DEF hi
      <4>. QED BY <1>1, <1>7, ProductsOrder
    <3>. QED BY <1>7, <2>1, <3>1, <3>2
  <2>5. hi < i => ~(i * S <= h)
    <3>. SUFFICES ASSUME hi < i PROVE ~(i * S <= h)
      OBVIOUS
    <3>1. hi = e /\ e < i
      BY <1>2, <1>3
    <3>2. e * S + S <= i * S
      BY <1>1, <1>3, <3>1, ProductsOrder
    <3>. QED BY <1>1, <1>3, <1>5, <2>1, <3>2
  <2>. HIDE DEF hi
  <2>. QED BY <1>4, <1>7, <2>2, <2>3, <2>4, <2>5
<1>. HIDE DEF hi
<1>11. {i \in 0..(N - 1) : l <= i * S /\ i * S <= h} = lo..hi
  <2>1. lo..hi \subseteq 0..(N - 1)
    BY <1>2, <1>9
  <2>. QED BY <1>10, <2>1
<1>12. Samples(LineLength) = 0..(N - 1)
  BY DEF Samples, N, S
<1>. QED BY <1>4, <1>7, <1>8, <1>9, <1>11, <1>12 DEF S

(* An interval is counted from its lower end. *)
LEMMA IntervalCounted ==
  ASSUME NEW a \in Int, NEW b \in Int, a <= b
  PROVE  /\ IsFiniteSet(a..b) /\ Cardinality(a..b) = b - a + 1
         /\ \A n \in 1..(b - a + 1) : Counted(a..b)[n] = a + (n - 1)
<1>. DEFINE c == b - a + 1
            f == Counted(a..b)
<1>1. IsFiniteSet(a..b) /\ Cardinality(a..b) = c /\ c \in Nat \ {0}
  BY FS_Interval
<1>2. /\ f \in [1..c -> a..b]
      /\ \A m, n \in 1..c : m < n => f[m] < f[n]
  <2>1. a..b \in SUBSET Int
    OBVIOUS
  <2>. HIDE DEF c
  <2>. QED BY <1>1, <2>1, CountedIs
<1>. HIDE DEF f
<1>3. \A n \in 1..c : f[n] \in Int /\ a <= f[n] /\ f[n] <= b
  BY <1>2
<1>4. \A n \in 1..c : a + (n - 1) <= f[n]
  <2>. DEFINE T == {n \in 1..c : a + (n - 1) <= f[n]}
              U == {0} \cup T
  <2>1. ASSUME NEW i \in 1..c, i - 1 \in U PROVE i \in U
    <3>1. CASE i = 1
      BY <1>3, <3>1
    <3>2. CASE i # 1
      <4>1. i - 1 \in 1..c /\ i - 1 < i /\ i - 1 # 0
        BY <3>2
      <4>2. i - 1 \in T
        BY <2>1, <4>1
      <4>3. f[i - 1] < f[i] /\ f[i - 1] \in Int /\ f[i] \in Int
        BY <1>2, <1>3, <4>1
      <4>. QED BY <4>2, <4>3
    <3>. QED BY <3>1, <3>2
  <2>2. \A i \in 1..c : i - 1 \in U => i \in U
    BY <2>1
  <2>3. 0 \in U
    OBVIOUS
  <2>4. \A i \in 0..c : i \in U
    <3>. HIDE DEF U
    <3>. QED BY <1>1, <2>2, <2>3, UpTo
  <2>5. \A n \in 1..c : n \in 0..c /\ n # 0
    OBVIOUS
  <2>. QED BY <2>4, <2>5
<1>5. \A n \in 1..c : f[n] <= b - (c - n)
  <2>. DEFINE U == {n \in 1..c : f[n] <= b - (c - n)}
  <2>1. c \in U
    BY <1>1, <1>3
  <2>2. ASSUME NEW i \in 1..(c - 1), i + 1 \in U PROVE i \in U
    <3>1. i \in 1..c /\ i + 1 \in 1..c /\ i < i + 1
      BY <1>1
    <3>2. f[i] < f[i + 1] /\ f[i] \in Int /\ f[i + 1] \in Int
      BY <1>2, <1>3, <3>1
    <3>. QED BY <2>2, <3>1, <3>2
  <2>3. \A i \in 1..(c - 1) : i + 1 \in U => i \in U
    BY <2>2
  <2>4. 1 \in Int /\ c \in Int /\ 1 <= c
    BY <1>1
  <2>5. \A i \in 1..c : i \in U
    <3>. HIDE DEF U, c
    <3>. QED BY <2>1, <2>3, <2>4, DownFrom
  <2>. QED BY <2>5
<1>6. \A n \in 1..c : f[n] = a + (n - 1)
  BY <1>3, <1>4, <1>5
<1>. QED BY <1>1, <1>6 DEF f

(* How the samples of a section are passed: one after the other, from near *)
(* its beginning to near its end.                                          *)
IsPassing(s, p) ==
  /\ Len(p) \in Nat \ {0} /\ DOMAIN p = 1..Len(p)
  /\ \A n \in 1..Len(p) : /\ p[n] \in Samples(LineLength)
                          /\ p[n] = IF s.down THEN p[1] + (n - 1) ELSE p[1] - (n - 1)
                          /\ Along(s, p[n] * Sample) \in 0..Length(s)
                          /\ Along(s, p[n] * Sample) = Along(s, p[1] * Sample) + (n - 1) * Sample
  /\ Along(s, p[1] * Sample) < 2 * Sample
  /\ Along(s, p[Len(p)] * Sample) > Length(s) - 2 * Sample
  /\ \A x \in Nat : x + 2 * Sample < Length(s) => x \div Sample < Len(p)
  /\ ~s.down /\ s.begin \div Sample \in Samples(LineLength) => p[1] = s.begin \div Sample

LEMMA PassedAre ==
  ASSUME NEW s \in Sections, NEW t, DOMAIN t = Samples(LineLength)
  PROVE  IsPassing(s, Passed(t, s))
<1>. DEFINE l == IF s.down THEN s.begin ELSE s.end
            h == IF s.down THEN s.end ELSE s.begin
            P == {i \in Samples(LineLength) : Along(s, i * Sample) \in 0..Length(s)}
            p == Passed(t, s)
            S == Sample
<1>1. S \in Nat \ {0} /\ LineLength \in Nat
  BY LineAssumption, PlanAssumption
<1>2. l \in Nat /\ h \in Nat /\ l + 2 * Sample < h /\ h <= LineLength
  <2>1. s.begin \in 0..LineLength /\ s.end \in 0..LineLength /\ Length(s) > Wide
    BY PlanAssumption
  <2>2. Wide \in Nat /\ Wide >= 2 * Sample
    BY EnvelopeAssumption
  <2>. QED BY <1>1, <2>1, <2>2 DEF Length
<1>3. PICK lo \in Samples(LineLength), hi \in Samples(LineLength) :
           /\ {i \in Samples(LineLength) : l <= i * Sample /\ i * Sample <= h} = lo..hi
           /\ lo <= hi
           /\ l <= lo * Sample /\ lo * Sample < l + Sample
           /\ h - 2 * Sample < hi * Sample /\ hi * Sample <= h
  <2>. HIDE DEF l, h
  <2>. QED BY <1>2, SamplesBetween
<1>4. lo \in Nat /\ hi \in Nat /\ lo..hi \subseteq Samples(LineLength)
  BY <1>3 DEF Samples
<1>5. \A i \in Nat : /\ Along(s, i * Sample) = (IF s.down THEN i * Sample - l ELSE h - i * Sample)
                     /\ Along(s, i * Sample) \in 0..Length(s) <=> l <= i * Sample /\ i * Sample <= h
  <2>. SUFFICES ASSUME NEW i \in Nat
                PROVE /\ Along(s, i * Sample) = (IF s.down THEN i * Sample - l ELSE h - i * Sample)
                      /\ Along(s, i * Sample) \in 0..Length(s) <=> l <= i * Sample /\ i * Sample <= h
    OBVIOUS
  <2>. DEFINE z == i * Sample
  <2>1. z \in Nat
    BY <1>1
  <2>2. Along(s, z) = (IF s.down THEN z - l ELSE h - z) /\ Length(s) = h - l
    BY <1>2 DEF Along, Length
  <2>. HIDE DEF z, l, h
  <2>3. Along(s, z) \in 0..Length(s) <=> l <= z /\ z <= h
    BY <1>2, <2>1, <2>2
  <2>. QED BY <2>2, <2>3 DEF z
<1>6. P = lo..hi
  <2>1. Samples(LineLength) \subseteq Nat
    BY <1>1 DEF Samples
  <2>. HIDE DEF l, h
  <2>. QED BY <1>3, <1>5, <2>1
<1>. DEFINE c == hi - lo + 1
            f(n) == IF s.down THEN lo + (n - 1) ELSE hi - (n - 1)
<1>7. Cardinality(P) = c /\ \A n \in 1..c : Counted(P)[n] = lo + (n - 1)
  <2>1. /\ Cardinality(lo..hi) = hi - lo + 1
        /\ \A n \in 1..(hi - lo + 1) : Counted(lo..hi)[n] = lo + (n - 1)
    <3>1. lo \in Int /\ hi \in Int
      BY <1>4
    <3>. QED BY <1>3, <3>1, IntervalCounted
  <2>. HIDE DEF P
  <2>. QED BY <1>6, <2>1
<1>8. p = Met(s, P)
  BY DEF Passed
<1>. HIDE DEF P
<1>9. c \in Nat \ {0}
  BY <1>3, <1>4
<1>10. Met(s, P) = [n \in 1..c |-> Counted(P)[IF s.down THEN n ELSE c + 1 - n]]
  BY <1>7 DEF Met
<1>11. Len(p) = c /\ DOMAIN p = 1..c
  <2>. HIDE DEF c, p
  <2>. QED BY <1>8, <1>9, <1>10
<1>12. ASSUME NEW n \in 1..c PROVE p[n] = f(n) /\ f(n) \in lo..hi
  <2>1. p[n] = Counted(P)[IF s.down THEN n ELSE c + 1 - n]
    BY <1>8, <1>10
  <2>2. (IF s.down THEN n ELSE c + 1 - n) \in 1..c
    BY <1>9
  <2>. HIDE DEF p, P
  <2>3. p[n] = lo + ((IF s.down THEN n ELSE c + 1 - n) - 1)
    BY <1>7, <2>1, <2>2
  <2>4. f(n) = lo + ((IF s.down THEN n ELSE c + 1 - n) - 1) /\ f(n) \in lo..hi
    BY <1>4, <1>9
  <2>. QED BY <2>3, <2>4
<1>. HIDE DEF p, l, h
<1>13. 1 \in 1..c /\ c \in 1..c
  BY <1>9
<1>14. ASSUME NEW n \in 1..c
       PROVE  /\ p[n] \in Samples(LineLength)
              /\ p[n] = IF s.down THEN p[1] + (n - 1) ELSE p[1] - (n - 1)
              /\ Along(s, p[n] * Sample) \in 0..Length(s)
              /\ Along(s, p[n] * Sample) = Along(s, p[1] * Sample) + (n - 1) * Sample
  <2>1. p[n] = f(n) /\ f(n) \in lo..hi /\ f(n) \in Nat /\ p[1] = f(1) /\ f(1) \in lo..hi /\ f(1) \in Nat
    BY <1>4, <1>12, <1>13
  <2>2. p[n] \in Samples(LineLength)
    BY <1>4, <2>1
  <2>3. p[n] = IF s.down THEN p[1] + (n - 1) ELSE p[1] - (n - 1)
    BY <1>4, <2>1
  <2>4. Along(s, p[n] * Sample) \in 0..Length(s)
    <3>1. p[n] \in {i \in Samples(LineLength) : l <= i * Sample /\ i * Sample <= h}
      BY <1>3, <2>1
    <3>. QED BY <1>5, <2>1, <3>1
  <2>5. Along(s, p[n] * Sample) = Along(s, p[1] * Sample) + (n - 1) * Sample
    <3>1. n - 1 \in Nat /\ (n - 1) * Sample \in Nat
      BY <1>1
    <3>2. CASE s.down
      <4>1. (p[1] + (n - 1)) * Sample = p[1] * Sample + (n - 1) * Sample
        BY <1>1, <2>1
      <4>2. p[1] * Sample \in Nat
        BY <1>1, <2>1
      <4>3. Along(s, p[n] * Sample) = p[n] * Sample - l /\ Along(s, p[1] * Sample) = p[1] * Sample - l
        BY <1>5, <2>1, <3>2
      <4>. QED BY <1>2, <2>3, <3>1, <3>2, <4>1, <4>2, <4>3
    <3>3. CASE ~s.down
      <4>1. (p[1] - (n - 1)) * Sample = p[1] * Sample - (n - 1) * Sample
        BY <1>1, <2>1
      <4>2. p[1] * Sample \in Nat
        BY <1>1, <2>1
      <4>3. Along(s, p[n] * Sample) = h - p[n] * Sample /\ Along(s, p[1] * Sample) = h - p[1] * Sample
        BY <1>5, <2>1, <3>3
      <4>. QED BY <1>2, <2>3, <3>1, <3>3, <4>1, <4>2, <4>3
    <3>. QED BY <3>2, <3>3
  <2>. QED BY <2>2, <2>3, <2>4, <2>5
<1>15. lo * Sample \in Nat /\ hi * Sample \in Nat /\ Length(s) = h - l
  BY <1>1, <1>2, <1>4 DEF Length, h, l
<1>16. /\ Along(s, p[1] * Sample) = IF s.down THEN lo * Sample - l ELSE h - hi * Sample
       /\ Along(s, p[c] * Sample) = IF s.down THEN hi * Sample - l ELSE h - lo * Sample
  <2>1. /\ p[1] = IF s.down THEN lo ELSE hi
        /\ p[c] = IF s.down THEN hi ELSE lo
    BY <1>4, <1>12, <1>13
  <2>. QED BY <1>4, <1>5, <2>1
<1>17. /\ Along(s, p[1] * Sample) < 2 * Sample
       /\ Along(s, p[c] * Sample) > Length(s) - 2 * Sample
  BY <1>1, <1>2, <1>3, <1>15, <1>16
<1>18. ASSUME NEW x \in Nat, x + 2 * Sample < Length(s)
       PROVE  x \div Sample < c
  <2>. DEFINE q == x \div Sample
  <2>1. q \in Nat /\ q * Sample <= x
    BY <1>1, Division
  <2>. HIDE DEF q
  <2>2. (c - 1) * Sample = hi * Sample - lo * Sample
    BY <1>1, <1>4
  <2>3. q * Sample \in Nat /\ (c - 1) * Sample \in Int
    BY <1>1, <1>9, <2>1
  <2>4. x - Sample < (c - 1) * Sample
    BY <1>1, <1>2, <1>3, <1>15, <1>18, <2>2
  <2>5. ~(c - 1 < q)
    <3>1. c - 1 < q => (c - 1) * Sample + Sample <= q * Sample
      BY <1>1, <1>9, <2>1, ProductsOrder
    <3>. QED BY <1>1, <2>1, <2>3, <2>4, <3>1
  <2>6. q < c
    BY <1>9, <2>1, <2>5
  <2>. QED BY <2>6 DEF q
<1>19. ASSUME ~s.down, s.begin \div Sample \in Samples(LineLength)
       PROVE  p[1] = s.begin \div Sample
  <2>. DEFINE q == h \div Sample
  <2>1. h = s.begin
    BY <1>19 DEF h
  <2>2. q \in Nat /\ q * Sample <= h /\ h < q * Sample + Sample /\ q \in Samples(LineLength)
    BY <1>1, <1>2, <1>19, <2>1, Division
  <2>3. p[1] = hi
    BY <1>4, <1>12, <1>13, <1>19
  <2>. HIDE DEF q
  <2>4. l <= q * Sample
    <3>1. q * Sample \in Nat
      BY <1>1, <2>2
    <3>. QED BY <1>1, <1>2, <2>2, <3>1
  <2>5. q \in lo..hi
    BY <1>3, <2>2, <2>4
  <2>6. ~(q < hi)
    <3>1. q < hi => q * Sample + Sample <= hi * Sample
      BY <1>1, <1>4, <2>2, ProductsOrder
    <3>2. q * Sample \in Nat
      BY <1>1, <2>2
    <3>. QED BY <1>1, <1>2, <1>3, <1>15, <2>2, <3>1, <3>2
  <2>7. q = hi
    BY <1>4, <2>2, <2>5, <2>6
  <2>. QED BY <2>1, <2>3, <2>7 DEF q
<1>. QED BY <1>9, <1>11, <1>14, <1>17, <1>18, <1>19 DEF IsPassing, p

-----------------------------------------------------------------------------
(* What stands in the tables of the line. *)
LEMMA ZoneIsOne ==
  ASSUME NEW R, NEW z \in Seq(R), Len(z) > 0, NEW x
  PROVE  ZoneAt(z, x) \in DOMAIN z
<1>. DEFINE Z == {k \in DOMAIN z : \/ k = Len(z)
                                   \/ z[k].from <= x /\ x < z[k + 1].from}
<1>1. Z \in SUBSET Nat /\ Len(z) \in Z /\ Z \subseteq DOMAIN z
  OBVIOUS
<1>2. Min(Z) \in Z
  <2>. HIDE DEF Z
  <2>. QED BY <1>1, LeastOf
<1>3. ZoneAt(z, x) = Min(Z)
  BY DEF ZoneAt
<1>. HIDE DEF Z
<1>. QED BY <1>1, <1>2, <1>3

(* A limit in the tables is at most what it is in the file. *)
LEMMA ConversionIs ==
  ASSUME NEW a \in Nat
  PROVE  /\ InCms(a) \in Nat /\ InCms(a) * Kmh <= a * Cms
         /\ InTables(a) \in Nat /\ InTables(a) <= InCms(a)
<1>. DEFINE p == a * Cms
            q == InCms(a)
<1>1. Cms \in Nat \ {0} /\ Kmh \in Nat \ {0}
  BY LineAssumption
<1>2. p \in Nat
  BY <1>1
<1>3. q = p \div Kmh
  BY DEF InCms
<1>. HIDE DEF p, q
<1>4. q \in Nat /\ q * Kmh <= p
  BY <1>1, <1>2, <1>3, Division
<1>5. q % 65536 \in Nat /\ q % 65536 <= q
  BY <1>4
<1>. QED BY <1>4, <1>5 DEF p, q, InTables

LEMMA ConversionOrders ==
  ASSUME NEW a \in Nat, NEW b \in Nat, a <= b
  PROVE  InCms(a) <= InCms(b)
<1>. DEFINE u == a * Cms
            v == b * Cms
            p == u \div Kmh
            q == v \div Kmh
<1>1. Cms \in Nat \ {0} /\ Kmh \in Nat \ {0}
  BY LineAssumption
<1>2. u <= v /\ u \in Nat /\ v \in Nat
  <2>1. Cms \in Nat
    BY <1>1
  <2>. QED BY <2>1, StepsMonotone
<1>. HIDE DEF u, v
<1>3. /\ p \in Nat /\ p * Kmh <= u
      /\ q \in Nat /\ v < q * Kmh + Kmh
  BY <1>1, <1>2, Division
<1>. HIDE DEF p, q
<1>4. q < p => q * Kmh + Kmh <= p * Kmh
  BY <1>1, <1>3, ProductsOrder
<1>5. p * Kmh \in Nat /\ q * Kmh \in Nat
  BY <1>1, <1>3
<1>6. p <= q
  BY <1>1, <1>2, <1>3, <1>4, <1>5
<1>. QED BY <1>6 DEF InCms, p, q, u, v

(* The speeds up to one of the limits of the line files. *)
Allowed == UNION {0..limit : limit \in AllLimits}

IsLimits(t) ==
  /\ DOMAIN t = Samples(LineLength)
  /\ \A i \in DOMAIN t : t[i] \in AllLimits /\ t[i] \in Nat /\ t[i] >= Margin

LEMMA AllowedIs ==
  ASSUME LimitZones # {}
  PROVE
  /\ AllLimits \subseteq Nat /\ Allowed \subseteq Nat /\ 0 \in Allowed
  /\ \A l \in AllLimits : l \in Allowed
  /\ \A v \in Allowed, u \in Nat : u <= v => u \in Allowed
  /\ \A v \in Allowed : \E l \in AllLimits : v \in 0..l
<1>1. AllLimits \subseteq Nat
  <2>. SUFFICES ASSUME NEW z \in LimitZones, NEW k \in DOMAIN z PROVE z[k].value \in Nat
    BY ConversionIs DEF AllLimits
  <2>. DEFINE R == [from : Nat, value : Nat]
  <2>1. z \in Seq(R)
    BY FilesAssumption
  <2>2. z[k] \in R
    <3>. HIDE DEF R
    <3>. QED BY <2>1
  <2>. QED BY <2>2
<1>2. AllLimits # {}
  <2>1. PICK z \in LimitZones : TRUE
    OBVIOUS
  <2>. DEFINE R == [from : Nat, value : Nat]
  <2>2. z \in Seq(R) /\ Len(z) > 0
    BY FilesAssumption
  <2>3. 1 \in DOMAIN z
    <3>. HIDE DEF R
    <3>. QED BY <2>2
  <2>4. InTables(z[1].value) \in AllLimits
    BY <2>3 DEF AllLimits
  <2>. QED BY <2>4
<1>3. 0 \in Allowed
  <2>1. PICK l \in AllLimits : TRUE
    BY <1>2
  <2>2. 0 \in 0..l
    BY <1>1, <2>1
  <2>. QED BY <2>2 DEF Allowed
<1>4. \A l \in AllLimits : l \in Allowed
  <2>. SUFFICES ASSUME NEW l \in AllLimits PROVE l \in Allowed
    OBVIOUS
  <2>1. l \in 0..l
    BY <1>1
  <2>. QED BY <2>1 DEF Allowed
<1>5. \A v \in Allowed : v \in Nat /\ \E l \in AllLimits : v \in 0..l
  BY <1>1 DEF Allowed
<1>6. \A v \in Allowed, u \in Nat : u <= v => u \in Allowed
  <2>. SUFFICES ASSUME NEW v \in Allowed, NEW u \in Nat, u <= v PROVE u \in Allowed
    OBVIOUS
  <2>1. PICK l \in AllLimits : v \in 0..l
    BY <1>5
  <2>2. u \in 0..l
    BY <1>1, <2>1
  <2>. QED BY <2>2 DEF Allowed
<1>. QED BY <1>1, <1>3, <1>4, <1>5, <1>6

LEMMA ValueIs ==
  ASSUME NEW z \in LimitZones, NEW x
  PROVE  ValueAt(z, x) \in Nat
<1>. DEFINE R == [from : Nat, value : Nat]
<1>1. z \in Seq(R) /\ Len(z) > 0
  BY FilesAssumption
<1>2. ZoneAt(z, x) \in DOMAIN z
  <2>. HIDE DEF R
  <2>. QED BY <1>1, ZoneIsOne
<1>3. z[ZoneAt(z, x)] \in R
  <2>. HIDE DEF R
  <2>. QED BY <1>1, <1>2
<1>. QED BY <1>3 DEF ValueAt

LEMMA LimitsAre ==
  ASSUME NEW z \in LimitZones
  PROVE  IsLimits([i \in Samples(LineLength) |-> SpeedLimit(z, i * Sample)])
<1>. SUFFICES ASSUME NEW i \in Samples(LineLength)
              PROVE  /\ SpeedLimit(z, i * Sample) \in AllLimits /\ SpeedLimit(z, i * Sample) \in Nat
                     /\ SpeedLimit(z, i * Sample) >= Margin
  BY DEF IsLimits
<1>. DEFINE x == i * Sample
            a == ValueAt(z, x)
            b == ValueAt(z, TailOf(x))
            R == [from : Nat, value : Nat]
<1>1. z \in Seq(R) /\ Len(z) > 0
  BY FilesAssumption
<1>. HIDE DEF x, R
<1>2. a \in Nat /\ b \in Nat /\ InTables(a) \in AllLimits /\ InTables(b) \in AllLimits
  <2>1. ZoneAt(z, x) \in DOMAIN z /\ ZoneAt(z, TailOf(x)) \in DOMAIN z
    BY <1>1, ZoneIsOne
  <2>2. InTables(a) \in AllLimits /\ InTables(b) \in AllLimits
    BY <2>1 DEF ValueAt, AllLimits
  <2>. QED BY <2>2, ValueIs
<1>. HIDE DEF a, b
<1>3. AllLimits \subseteq Nat
  BY AllowedIs
<1>4. Min({a, b}) \in {a, b}
  <2>1. {a, b} \in SUBSET Nat /\ {a, b} # {}
    BY <1>2
  <2>. QED BY <2>1, LeastOf
<1>5. SpeedLimit(z, x) = InTables(Min({a, b}))
  BY DEF SpeedLimit, a, b
<1>6. SpeedLimit(z, i * Sample) >= Margin
  BY FilesAssumption
<1>. QED BY <1>2, <1>3, <1>4, <1>5, <1>6 DEF x

(* The pieces of a section: the last ends where the section does, and each *)
(* has a limit of the line, or less.                                       *)
IsPieces(s, p) ==
  /\ Len(p) \in Nat \ {0} /\ DOMAIN p = 1..Len(p)
  /\ \A n \in DOMAIN p : p[n].limit \in Allowed
  /\ p[Len(p)].to = Length(s)

LEMMA LastLimitIs ==
  ASSUME NEW s \in Sections, NEW t, IsLimits(t)
  PROVE  LastLimit(t, s) \in AllLimits
<1>1. Sample \in Nat \ {0} /\ LineLength \in Nat
  BY LineAssumption, PlanAssumption
<1>2. /\ s.begin \in 0..LineLength /\ s.end \in 0..LineLength
      /\ Length(s) > 2 * Sample
  <2>1. s.begin \in 0..LineLength /\ s.end \in 0..LineLength /\ Length(s) > Wide
    BY PlanAssumption
  <2>2. Wide \in Nat /\ Wide >= 2 * Sample
    BY EnvelopeAssumption
  <2>. QED BY <1>1, <2>1, <2>2 DEF Length
<1>. DEFINE q == s.end \div Sample
            N == LineLength \div Sample
<1>3. q \in Nat /\ q * Sample <= s.end /\ s.end < q * Sample + Sample
  BY <1>1, <1>2, Division
<1>4. N \in Nat /\ N * Sample <= LineLength /\ LineLength < N * Sample + Sample
  BY <1>1, Division
<1>5. Samples(LineLength) = 0..(N - 1)
  BY DEF Samples
<1>. HIDE DEF q, N
<1>6. q * Sample \in Nat /\ N * Sample \in Nat
  BY <1>1, <1>3, <1>4
<1>7. CASE s.down
  <2>1. q # 0
    <3>1. 0 * Sample = 0
      BY <1>1
    <3>2. s.end > Sample
      BY <1>1, <1>2, <1>7 DEF Length
    <3>. QED BY <1>1, <1>2, <1>3, <3>1, <3>2
  <2>2. ~(N < q)
    <3>1. N < q => N * Sample + Sample <= q * Sample
      BY <1>1, <1>3, <1>4, ProductsOrder
    <3>. QED BY <1>1, <1>2, <1>3, <1>4, <1>6, <3>1
  <2>3. q - 1 \in 0..(N - 1)
    BY <1>3, <1>4, <2>1, <2>2
  <2>. QED BY <1>5, <1>7, <2>3 DEF LastLimit, IsLimits, q
<1>8. CASE ~s.down
  <2>1. ~(N <= q)
    <3>1. N <= q => N * Sample <= q * Sample
      BY <1>1, <1>3, <1>4, ProductsOrder
    <3>2. s.end + 2 * Sample < LineLength
      BY <1>1, <1>2, <1>8 DEF Length
    <3>. QED BY <1>1, <1>2, <1>3, <1>4, <1>6, <3>1, <3>2
  <2>2. q \in 0..(N - 1)
    BY <1>3, <1>4, <2>1
  <2>. QED BY <1>5, <1>8, <2>2 DEF LastLimit, IsLimits, q
<1>. QED BY <1>7, <1>8

(* Where the limit changes on the way, and the pieces that end there. *)
ChangesAt(t, s) == {k \in DOMAIN Passed(t, s) : t[Passed(t, s)[k]] # LimitBefore(t, s, k)}

LEMMA PiecesFrom ==
  ASSUME NEW s \in Sections, NEW t, IsLimits(t)
  PROVE  LET C == ChangesAt(t, s)
             changes == Counted(C)
             m == Cardinality(C)
             p == Pieces(t, s)
         IN  /\ m \in Nat /\ changes \in [1..m -> C]
             /\ \A i, j \in 1..m : i < j => changes[i] < changes[j]
             /\ \A k \in C : \E n \in 1..m : changes[n] = k
             /\ Len(p) = m + 1 /\ DOMAIN p = 1..(m + 1)
             /\ \A n \in 1..m : /\ p[n].to = PieceEnd(s, Passed(t, s)[changes[n]])
                               /\ p[n].limit = Lowered(s, LimitBefore(t, s, changes[n]))
             /\ p[m + 1].to = Length(s) /\ p[m + 1].limit = LastLimit(t, s)
<1>. DEFINE passed == Passed(t, s)
            c == Len(passed)
            C == ChangesAt(t, s)
            changes == Counted(C)
            m == Cardinality(C)
            first == [n \in 1..m |->
                        [to |-> PieceEnd(s, passed[changes[n]]),
                         limit |-> Lowered(s, LimitBefore(t, s, changes[n]))]]
            last == [to |-> Length(s), limit |-> LastLimit(t, s)]
            V == {last} \cup {first[n] : n \in 1..m}
<1>1. c \in Nat \ {0} /\ DOMAIN passed = 1..c
  <2>1. IsPassing(s, passed)
    BY PassedAre DEF IsLimits
  <2>. HIDE DEF passed
  <2>. QED BY <2>1 DEF IsPassing
<1>2. C = {k \in 1..c : t[passed[k]] # LimitBefore(t, s, k)}
  BY <1>1 DEF ChangesAt
<1>. HIDE DEF passed, c
<1>3. /\ m \in Nat /\ changes \in [1..m -> C]
      /\ \A i, j \in 1..m : i < j => changes[i] < changes[j]
      /\ \A k \in C : \E n \in 1..m : changes[n] = k
  <2>1. C \in SUBSET (1..c) /\ IsFiniteSet(1..c)
    BY <1>1, <1>2, FS_Interval
  <2>2. 1..c \subseteq Int
    BY <1>1
  <2>. HIDE DEF C
  <2>3. C \in SUBSET Int /\ IsFiniteSet(C)
    BY <2>1, <2>2, FS_Subset
  <2>. QED BY <2>3, CountedIs
<1>4. Pieces(t, s) = Append(first, last)
  <2>1. Counted({k \in DOMAIN passed : t[passed[k]] # LimitBefore(t, s, k)}) = changes
    BY DEF ChangesAt, passed
  <2>2. DOMAIN changes = 1..m
    BY <1>3
  <2>. HIDE DEF changes, C, m
  <2>. QED BY <2>1, <2>2 DEF Pieces, passed
<1>5. first \in Seq(V) /\ Len(first) = m /\ last \in V
  <2>. HIDE DEF C, m, changes
  <2>. QED BY <1>3
<1>6. \A n \in 1..m : /\ first[n].to = PieceEnd(s, passed[changes[n]])
                      /\ first[n].limit = Lowered(s, LimitBefore(t, s, changes[n]))
  <2>. HIDE DEF C, m, changes
  <2>. QED OBVIOUS
<1>7. last.to = Length(s) /\ last.limit = LastLimit(t, s)
  OBVIOUS
<1>. HIDE DEF first, last, V, m, changes, C
<1>8. LET p == Append(first, last)
      IN  /\ Len(p) = m + 1 /\ DOMAIN p = 1..(m + 1)
          /\ \A n \in 1..m : p[n] = first[n]
          /\ p[m + 1] = last
  BY <1>3, <1>5
<1>. QED BY <1>3, <1>4, <1>6, <1>7, <1>8 DEF passed, m, changes, C

LEMMA PiecesAre ==
  ASSUME NEW s \in Sections, NEW t, IsLimits(t), LimitZones # {}
  PROVE  IsPieces(s, Pieces(t, s))
<1>. DEFINE passed == Passed(t, s)
            c == Len(passed)
            C == ChangesAt(t, s)
            changes == Counted(C)
            m == Cardinality(C)
            p == Pieces(t, s)
<1>1. IsPassing(s, passed)
  BY PassedAre DEF IsLimits
<1>2. c \in Nat \ {0} /\ C \subseteq 1..c
  <2>1. c \in Nat \ {0} /\ DOMAIN passed = 1..c
    <3>. HIDE DEF passed
    <3>. QED BY <1>1 DEF IsPassing
  <2>. QED BY <2>1 DEF ChangesAt
<1>3. /\ m \in Nat /\ changes \in [1..m -> C]
      /\ Len(p) = m + 1 /\ DOMAIN p = 1..(m + 1)
      /\ \A n \in 1..m : p[n].limit = Lowered(s, LimitBefore(t, s, changes[n]))
      /\ p[m + 1].to = Length(s) /\ p[m + 1].limit = LastLimit(t, s)
  BY PiecesFrom
<1>. HIDE DEF passed, c, C, changes, m, p
<1>5. ASSUME NEW k \in C PROVE Lowered(s, LimitBefore(t, s, k)) \in Allowed
  <2>1. \/ LimitBefore(t, s, k) \in AllLimits /\ LimitBefore(t, s, k) >= Margin
        \/ LimitBefore(t, s, k) = 0 /\ ~s.down
    <3>. DEFINE i == IF k = 1 THEN s.begin \div Sample ELSE passed[k - 1]
    <3>1. LimitBefore(t, s, k) = IF i \in DOMAIN t THEN t[i] ELSE 0
      BY DEF LimitBefore, passed
    <3>2. CASE i \in DOMAIN t
      BY <3>1, <3>2 DEF IsLimits
    <3>3. CASE i \notin DOMAIN t
      <4>1. k = 1
        <5>. SUFFICES ASSUME k # 1 PROVE FALSE
          OBVIOUS
        <5>1. k - 1 \in 1..c
          BY <1>2
        <5>2. passed[k - 1] \in Samples(LineLength)
          BY <1>1, <1>2, <5>1 DEF IsPassing, c
        <5>. QED BY <3>3, <5>2 DEF IsLimits
      <4>2. ~s.down
        <5>. SUFFICES ASSUME s.down PROVE FALSE
          OBVIOUS
        <5>. DEFINE b == s.begin \div Sample
                    N == LineLength \div Sample
        <5>1. Sample \in Nat \ {0} /\ LineLength \in Nat
          BY LineAssumption, PlanAssumption
        <5>2. s.begin \in Nat /\ s.begin + 2 * Sample < LineLength
          <6>1. s.begin \in 0..LineLength /\ s.end \in 0..LineLength /\ Length(s) > Wide
            BY PlanAssumption
          <6>2. Wide \in Nat /\ Wide >= 2 * Sample
            BY EnvelopeAssumption
          <6>. QED BY <5>1, <6>1, <6>2 DEF Length
        <5>3. b \in Nat /\ b * Sample <= s.begin
          BY <5>1, <5>2, Division
        <5>4. N \in Nat /\ LineLength < N * Sample + Sample
          BY <5>1, Division
        <5>5. b \notin 0..(N - 1)
          BY <3>3, <4>1 DEF IsLimits, Samples
        <5>. HIDE DEF b, N
        <5>6. N <= b
          BY <5>3, <5>4, <5>5
        <5>7. N * Sample <= b * Sample /\ N * Sample \in Nat /\ b * Sample \in Nat
          BY <5>1, <5>3, <5>4, <5>6, ProductsOrder
        <5>. QED BY <5>1, <5>2, <5>3, <5>4, <5>7
      <4>. QED BY <3>1, <3>3, <4>2
    <3>. QED BY <3>2, <3>3
  <2>2. AllLimits \subseteq Nat /\ 0 \in Allowed /\ (\A l \in AllLimits : l \in Allowed)
        /\ \A v \in Allowed, u \in Nat : u <= v => u \in Allowed
    BY AllowedIs
  <2>3. Margin \in Nat
    BY EnvelopeAssumption
  <2>. DEFINE b == LimitBefore(t, s, k)
  <2>. HIDE DEF b
  <2>4. Lowered(s, b) \in Allowed
    <3>1. CASE s.down
      <4>1. b \in AllLimits /\ b >= Margin
        BY <2>1, <3>1 DEF b
      <4>2. b \in Nat /\ b \in Allowed /\ b - Margin \in Nat /\ b - Margin <= b
        BY <2>2, <2>3, <4>1
      <4>. QED BY <2>2, <3>1, <4>2 DEF Lowered
    <3>2. CASE ~s.down
      BY <2>1, <2>2, <3>2 DEF Lowered, b
    <3>. QED BY <3>1, <3>2
  <2>. QED BY <2>4 DEF b
<1>6. \A n \in 1..m : p[n].limit \in Allowed
  BY <1>3, <1>5
<1>7. p[m + 1].limit \in Allowed
  BY <1>3, LastLimitIs, AllowedIs
<1>8. \A n \in 1..(m + 1) : n \in 1..m \/ n = m + 1
  BY <1>3
<1>. QED BY <1>3, <1>6, <1>7, <1>8 DEF IsPieces, p

-----------------------------------------------------------------------------
(* Roots and forces. *)
LEMMA RootIs ==
  ASSUME NEW n \in Nat
  PROVE  /\ Root(n) \in 0..n
         /\ Root(n) * Root(n) <= n /\ n < (Root(n) + 1) * (Root(n) + 1)
<1>. DEFINE S == {r \in Nat : n < (r + 1) * (r + 1)}
            m == Min(S)
<1>1. n \in S
  <2>1. (n + 1) * (n + 1) = n * n + 2 * n + 1 /\ n * n \in Nat
    OBVIOUS
  <2>. QED BY <2>1
<1>2. m \in S /\ \A r \in S : m <= r
  <2>1. S \in SUBSET Nat /\ S # {}
    BY <1>1
  <2>. HIDE DEF S
  <2>. QED BY <2>1, LeastOf
<1>. HIDE DEF m
<1>3. m \in Nat /\ m <= n /\ n < (m + 1) * (m + 1)
  BY <1>1, <1>2
<1>4. m * m <= n
  <2>1. CASE m = 0
    BY <2>1
  <2>2. CASE m # 0
    <3>1. m - 1 \in Nat /\ ~(m <= m - 1) /\ (m - 1) + 1 = m
      BY <1>3, <2>2
    <3>2. m - 1 \notin S
      BY <1>2, <3>1
    <3>3. ~(n < m * m)
      BY <3>1, <3>2
    <3>. QED BY <1>3, <3>3
  <2>. QED BY <2>1, <2>2
<1>5. \E r \in 0..n : r * r <= n /\ n < (r + 1) * (r + 1)
  BY <1>3, <1>4
<1>. QED BY <1>5 DEF Root

LEMMA RootBelow ==
  ASSUME NEW n \in Nat, NEW m \in Nat, n <= m * m
  PROVE  Root(n) <= m
<1>. DEFINE r == Root(n)
<1>1. r \in Nat /\ r * r <= n
  BY RootIs
<1>. HIDE DEF r
<1>2. ASSUME m < r PROVE FALSE
  <2>1. (m + 1) * (m + 1) <= r * (m + 1) /\ (m + 1) * r <= r * r
    <3>1. m + 1 <= r /\ m + 1 \in Nat
      BY <1>1, <1>2
    <3>. QED BY <1>1, <3>1, StepsMonotone
  <2>2. r * (m + 1) = (m + 1) * r /\ (m + 1) * (m + 1) = m * m + 2 * m + 1
        /\ m * m \in Nat /\ r * r \in Nat /\ (m + 1) * r \in Nat
    BY <1>1
  <2>. QED BY <1>1, <2>1, <2>2
<1>. QED BY <1>1, <1>2 DEF r

LEMMA RootAbove ==
  ASSUME NEW n \in Nat, NEW m \in Nat, m * m <= n
  PROVE  m <= Root(n)
<1>. DEFINE r == Root(n)
<1>1. r \in Nat /\ n < (r + 1) * (r + 1)
  BY RootIs
<1>. HIDE DEF r
<1>2. ASSUME r < m PROVE FALSE
  <2>1. (r + 1) * (r + 1) <= m * (r + 1) /\ (r + 1) * m <= m * m
    <3>1. r + 1 <= m /\ r + 1 \in Nat
      BY <1>1, <1>2
    <3>. QED BY <1>1, <3>1, StepsMonotone
  <2>2. m * (r + 1) = (r + 1) * m /\ (r + 1) * m \in Nat /\ (r + 1) * (r + 1) \in Nat
    BY <1>1
  <2>. QED BY <1>1, <2>1, <2>2
<1>. QED BY <1>1, <1>2 DEF r

(* Between two forces, neither of them less than so much, nor is it there. *)
LEMMA BetweenForces ==
  ASSUME NEW a \in Nat, NEW b \in Nat, a >= 2, b >= 2, NEW p \in Nat, NEW q \in Nat \ {0}
  PROVE  (a * p + b * q) \div (q + p) \in Nat /\ (a * p + b * q) \div (q + p) >= 2
<1>1. 2 * p <= a * p /\ 2 * q <= b * q
  BY StepsMonotone
<1>. DEFINE n == a * p + b * q
            d == q + p
            r == n \div d
<1>2. n \in Nat /\ 2 * d <= n /\ d \in Nat \ {0}
  BY <1>1
<1>. HIDE DEF n, d
<1>3. r \in Nat /\ r * d <= n /\ n < r * d + d
  BY <1>2, Division
<1>. HIDE DEF r
<1>4. ~(r < 2)
  <2>1. r < 2 => r * d + d <= 2 * d
    BY <1>2, <1>3, ProductsOrder
  <2>2. r * d \in Nat /\ 2 * d \in Nat
    BY <1>2, <1>3
  <2>. QED BY <1>2, <1>3, <2>1, <2>2
<1>. QED BY <1>3, <1>4 DEF r, n, d

LEMMA AccIs ==
  ASSUME NEW curve, IsForce(curve), NEW v \in Nat
  PROVE  AccBySpeed(curve, v) \in Nat /\ AccBySpeed(curve, v) >= 2
<1>. DEFINE N == Len(curve)
            K == {k \in 2..N : v <= curve[k].v}
            i == Min(K)
            R == [v : Int, a : Nat]
<1>1. curve \in Seq(R) /\ Len(curve) > 0
  BY DEF IsForce
<1>2. N \in Nat \ {0} /\ DOMAIN curve = 1..N /\ \A n \in 1..N : curve[n] \in R
  <2>. HIDE DEF R
  <2>. QED BY <1>1
<1>. HIDE DEF N
<1>3. \A n \in 1..N : curve[n].v \in Int /\ curve[n].a \in Nat /\ curve[n].a >= 2
  BY <1>2 DEF IsForce
<1>4. \A m, n \in 1..N : m < n => curve[m].v < curve[n].v
  BY <1>2 DEF IsForce
<1>5. 1 \in 1..N /\ N \in 1..N
  BY <1>2
<1>6. CASE v <= curve[1].v
  BY <1>3, <1>5, <1>6 DEF AccBySpeed
<1>7. CASE ~(v <= curve[1].v) /\ v >= curve[N].v
  BY <1>3, <1>5, <1>7 DEF AccBySpeed, N
<1>8. CASE ~(v <= curve[1].v) /\ ~(v >= curve[N].v)
  <2>1. N \in K /\ K \in SUBSET Nat
    BY <1>2, <1>3, <1>5, <1>8
  <2>2. i \in K /\ \A k \in K : i <= k
    <3>. HIDE DEF K
    <3>. QED BY <2>1, LeastOf
  <2>. HIDE DEF i
  <2>3. i \in 2..N /\ v <= curve[i].v
    BY <2>2
  <2>4. i - 1 \in 1..N /\ i \in 1..N /\ i - 1 < i /\ ~(i <= i - 1)
    BY <1>2, <2>3
  <2>5. ~(v <= curve[i - 1].v)
    <3>1. CASE i = 2
      <4>1. i - 1 = 1
        BY <3>1
      <4>. QED BY <1>8, <4>1
    <3>2. CASE i # 2
      <4>1. i - 1 \in 2..N /\ i - 1 \notin K
        BY <1>2, <2>2, <2>3, <2>4, <3>2
      <4>. QED BY <4>1
    <3>. QED BY <3>1, <3>2
  <2>. DEFINE a == curve[i - 1].a
              b == curve[i].a
              p == curve[i].v - v
              q == v - curve[i - 1].v
  <2>6. a \in Nat /\ b \in Nat /\ a >= 2 /\ b >= 2
    BY <1>3, <2>4
  <2>7. p \in Nat /\ q \in Nat \ {0} /\ curve[i].v - curve[i - 1].v = q + p
    BY <1>3, <2>3, <2>4, <2>5
  <2>8. AccBySpeed(curve, v) = (a * p + b * q) \div (curve[i].v - curve[i - 1].v)
    BY <1>8 DEF AccBySpeed, N, i
  <2>. HIDE DEF a, b, p, q
  <2>9. (a * p + b * q) \div (q + p) \in Nat /\ (a * p + b * q) \div (q + p) >= 2
    BY <2>6, <2>7, BetweenForces
  <2>10. AccBySpeed(curve, v) = (a * p + b * q) \div (q + p)
    BY <2>7, <2>8, Zenon
  <2>. QED BY <2>9, <2>10, Zenon
<1>. QED BY <1>6, <1>7, <1>8

Own == TrainStaticDataInit

LEMMA ForcesAre ==
  ASSUME NEW v \in Nat
  PROVE  /\ TractionAcc(Own, v) \in Nat \ {0} /\ BrakeAcc(Own, v) \in Nat \ {0}
         /\ PlannedBrake(Own, v) \in Nat
         /\ ResistanceAcc(Own.at_aw0, v) \in Nat
<1>1. /\ IsForce(Own.traction) /\ IsForce(Own.brake)
      /\ Own.at_aw0.a \in Nat /\ Own.at_aw0.b \in Nat /\ Own.at_aw0.c \in Nat
      /\ Own.at_aw0.weight \in Nat \ {0}
  BY TrainAssumption DEF Own
<1>2. \A n \in Nat : n >= 2 => (8 * n) \div 10 \in Nat \ {0} /\ (64 * n) \div 100 \in Nat
  OBVIOUS
<1>3. TractionAcc(Own, v) \in Nat \ {0}
  BY <1>1, <1>2, AccIs DEF TractionAcc
<1>4. BrakeAcc(Own, v) \in Nat \ {0}
  BY <1>1, <1>2, AccIs DEF BrakeAcc
<1>5. PlannedBrake(Own, v) \in Nat
  BY <1>1, <1>2, AccIs DEF PlannedBrake
<1>6. ResistanceAcc(Own.at_aw0, v) \in Nat
  <2>. DEFINE n == Own.at_aw0.a + Own.at_aw0.b * v + Own.at_aw0.c * v * v
  <2>1. n \in Nat
    BY <1>1
  <2>2. n \div Own.at_aw0.weight \in Nat
    <3>. HIDE DEF n
    <3>. QED BY <1>1, <2>1, Division
  <2>. QED BY <2>2 DEF ResistanceAcc
<1>. QED BY <1>3, <1>4, <1>5, <1>6

-----------------------------------------------------------------------------
(* The bound. *)
(* The speed a step earlier is not lower, by what was taken as the brake. *)
LEMMA BrakeUpIs ==
  ASSUME NEW v \in Nat, NEW step \in Nat
  PROVE  LET b == PlannedBrake(Own, v)
             u == BrakeUp(Own, v, step)
         IN  b \in Nat /\ u \in Nat /\ v <= u /\ u * u <= v * v + 2 * b * step
<1>. DEFINE b == PlannedBrake(Own, v)
            e == v * v + 2 * b * step
<1>1. b \in Nat
  BY ForcesAre
<1>2. e \in Nat /\ v * v <= e
  <2>. HIDE DEF b
  <2>1. 2 * b * step \in Nat /\ v * v \in Nat
    BY <1>1
  <2>. QED BY <2>1
<1>. HIDE DEF e, b
<1>3. Root(e) \in Nat /\ Root(e) * Root(e) <= e
  BY <1>2, RootIs
<1>4. v <= Root(e)
  BY <1>2, RootAbove
<1>. QED BY <1>1, <1>3, <1>4 DEF BrakeUp, e, b

(* A section cut into pieces, and the steps of its plan. *)
IsCut(s, p, step, dim) ==
  /\ s \in Sections /\ IsPieces(s, p)
  /\ step \in Nat \ {0} /\ dim \in Nat /\ dim * step < Length(s) /\ Length(s) \in Nat
  /\ LimitZones # {}

LEMMA PieceAtIs ==
  ASSUME NEW s, NEW p, NEW step, NEW dim, IsCut(s, p, step, dim)
  PROVE  LET at == PieceAt(p, step, dim)
         IN  /\ \A i \in 0..dim : at[i] \in 1..Len(p)
             /\ at[0] = 1
             /\ \A i \in 1..dim :
                  at[i] = IF i * step < p[at[i - 1]].to THEN at[i - 1] ELSE at[i - 1] + 1
<1>. DEFINE N == Len(p)
            next == [q \in (0..dim) \X (1..N) |->
                       IF q[1] * step < p[q[2]].to THEN q[2] ELSE q[2] + 1]
            V == [i \in 0..dim |-> 1..N]
            Is(g) == g = [i \in 0..dim |->
                            IF i = 0 THEN 1
                            ELSE IF i * step < p[g[i - 1]].to THEN g[i - 1] ELSE g[i - 1] + 1]
            at == PieceAt(p, step, dim)
<1>1. /\ N \in Nat \ {0} /\ p[N].to = Length(s) /\ dim \in Nat /\ step \in Nat
      /\ dim * step < Length(s) /\ Length(s) \in Nat
  BY DEF IsCut, IsPieces
<1>. HIDE DEF N
<1>2. ASSUME NEW i \in 1..dim, NEW k \in 1..N
      PROVE  (IF i * step < p[k].to THEN k ELSE k + 1) \in 1..N
  <2>1. CASE k = N
    <3>1. i * step <= dim * step /\ i * step \in Nat /\ dim * step \in Nat
      BY <1>1, StepsMonotone
    <3>2. i * step < p[k].to
      BY <1>1, <2>1, <3>1
    <3>. QED BY <3>2
  <2>2. CASE k # N
    BY <1>1, <2>2
  <2>. QED BY <2>1, <2>2
<1>3. ASSUME NEW i \in 1..dim, NEW k \in 1..N
      PROVE  next[<<i, k>>] = IF i * step < p[k].to THEN k ELSE k + 1
  BY <1>1
<1>4. PICK f : IsUpwards(f, dim, 1, next) /\ \A i \in 0..dim : f[i] \in V[i]
  <2>1. 1 \in V[0]
    BY <1>1
  <2>2. \A i \in 1..dim : \A v \in V[i - 1] : next[<<i, v>>] \in V[i]
    <3>1. \A i \in 1..dim : i \in 0..dim /\ i - 1 \in 0..dim
      BY <1>1
    <3>2. \A i \in 0..dim : V[i] = 1..N
      OBVIOUS
    <3>. HIDE DEF next, V
    <3>. QED BY <1>2, <1>3, <3>1, <3>2
  <2>. HIDE DEF next, V
  <2>. QED BY <1>1, <2>1, <2>2, Upwards
<1>5. Is(f)
  <2>1. ASSUME NEW i \in 0..dim
        PROVE  f[i] = IF i = 0 THEN 1
                      ELSE IF i * step < p[f[i - 1]].to THEN f[i - 1] ELSE f[i - 1] + 1
    <3>1. f[i] = IF i = 0 THEN 1 ELSE next[<<i, f[i - 1]>>]
      BY <1>4 DEF IsUpwards
    <3>2. CASE i # 0
      <4>1. i \in 1..dim /\ i - 1 \in 0..dim
        BY <1>1, <3>2
      <4>2. f[i - 1] \in 1..N
        BY <1>4, <4>1
      <4>3. next[<<i, f[i - 1]>>] = IF i * step < p[f[i - 1]].to THEN f[i - 1] ELSE f[i - 1] + 1
        <5>. HIDE DEF next
        <5>. QED BY <1>3, <4>1, <4>2
      <4>. QED BY <3>1, <3>2, <4>3
    <3>. QED BY <3>1, <3>2
  <2>2. f = [i \in 0..dim |-> f[i]]
    BY <1>4 DEF IsUpwards
  <2>. HIDE DEF next, V
  <2>. QED BY <2>1, <2>2
<1>6. at = CHOOSE g : Is(g)
  BY DEF PieceAt
<1>7. Is(at)
  <2>. HIDE DEF Is, at
  <2>. QED BY <1>5, <1>6
<1>. HIDE DEF at
<1>8. ASSUME NEW i \in 0..dim
      PROVE  at[i] = IF i = 0 THEN 1
                     ELSE IF i * step < p[at[i - 1]].to THEN at[i - 1] ELSE at[i - 1] + 1
  BY <1>7
<1>9. at[0] = 1 /\ \A i \in 1..dim :
         at[i] = IF i * step < p[at[i - 1]].to THEN at[i - 1] ELSE at[i - 1] + 1
  <2>1. 0 \in 0..dim /\ \A i \in 1..dim : i \in 0..dim /\ i # 0
    BY <1>1
  <2>. QED BY <1>8, <2>1
<1>10. \A i \in 0..dim : at[i] \in 1..N
  <2>. DEFINE U == {i \in 0..dim : at[i] \in 1..N}
  <2>1. 0 \in U
    BY <1>1, <1>9
  <2>2. ASSUME NEW i \in 1..dim, i - 1 \in U PROVE i \in U
    <3>1. i \in 0..dim /\ at[i - 1] \in 1..N
      BY <1>1, <2>2
    <3>2. (IF i * step < p[at[i - 1]].to THEN at[i - 1] ELSE at[i - 1] + 1) \in 1..N
      BY <1>2, <3>1
    <3>. QED BY <1>9, <3>1, <3>2
  <2>3. \A i \in 1..dim : i - 1 \in U => i \in U
    BY <2>2
  <2>4. \A i \in 0..dim : i \in U
    <3>. HIDE DEF U
    <3>. QED BY <1>1, <2>1, <2>3, UpTo
  <2>. QED BY <2>4
<1>. QED BY <1>9, <1>10 DEF at, N

(* A braking curve falls to the speed it brakes to. *)
LEMMA CurveFalls ==
  ASSUME NEW f, f.low \in Nat, f.index \in Nat, NEW step \in Nat
  PROVE  LET w == BrakingCurve(Own, f, step)
         IN  /\ w[f.index + 1] = f.low
             /\ \A k \in 1..(f.index + 1) : w[k] \in Nat
             /\ \A k \in 1..f.index : w[k] = BrakeUp(Own, w[k + 1], step) /\ w[k + 1] <= w[k]
<1>. DEFINE n == f.index
            up == [q \in (1..(n + 1)) \X Nat |-> BrakeUp(Own, q[2], step)]
            V == [k \in 1..(n + 1) |-> Nat]
            Is(g) == g = [k \in 1..(n + 1) |->
                            IF k > n THEN f.low ELSE BrakeUp(Own, g[k + 1], step)]
            w == BrakingCurve(Own, f, step)
<1>1. ASSUME NEW v \in Nat PROVE BrakeUp(Own, v, step) \in Nat /\ v <= BrakeUp(Own, v, step)
  BY BrakeUpIs
<1>2. n \in Nat
  OBVIOUS
<1>. HIDE DEF n
<1>3. ASSUME NEW k \in 1..(n + 1), NEW v \in Nat
      PROVE  up[<<k, v>>] = BrakeUp(Own, v, step)
  BY <1>2
<1>4. PICK g : IsDownwards(g, 1, n + 1, f.low, up) /\ \A k \in 1..(n + 1) : g[k] \in V[k]
  <2>1. f.low \in V[n + 1]
    BY <1>2
  <2>2. \A k \in 1..((n + 1) - 1) : \A v \in V[k + 1] : up[<<k, v>>] \in V[k]
    <3>1. \A k \in 1..((n + 1) - 1) : k \in 1..(n + 1) /\ k + 1 \in 1..(n + 1)
      BY <1>2
    <3>2. \A k \in 1..(n + 1) : V[k] = Nat
      OBVIOUS
    <3>3. \A k \in 1..(n + 1), v \in Nat : up[<<k, v>>] \in Nat
      <4>. HIDE DEF up
      <4>. QED BY <1>1, <1>3
    <3>. HIDE DEF up, V
    <3>. QED BY <3>1, <3>2, <3>3
  <2>3. 1 \in Int /\ n + 1 \in Int /\ 1 <= n + 1
    BY <1>2
  <2>. HIDE DEF up, V
  <2>. QED BY <2>1, <2>2, <2>3, Downwards
<1>5. Is(g)
  <2>1. ASSUME NEW k \in 1..(n + 1)
        PROVE  g[k] = IF k > n THEN f.low ELSE BrakeUp(Own, g[k + 1], step)
    <3>1. g[k] = IF k = n + 1 THEN f.low ELSE up[<<k, g[k + 1]>>]
      BY <1>4 DEF IsDownwards
    <3>2. k > n <=> k = n + 1
      BY <1>2
    <3>3. CASE k # n + 1
      <4>1. k + 1 \in 1..(n + 1)
        BY <1>2, <3>3
      <4>2. g[k + 1] \in Nat
        BY <1>4, <4>1
      <4>3. up[<<k, g[k + 1]>>] = BrakeUp(Own, g[k + 1], step)
        <5>. HIDE DEF up
        <5>. QED BY <1>3, <4>2
      <4>. QED BY <3>1, <3>2, <3>3, <4>3
    <3>. QED BY <3>1, <3>2, <3>3
  <2>2. g = [k \in 1..(n + 1) |-> g[k]]
    BY <1>4 DEF IsDownwards
  <2>. HIDE DEF up, V
  <2>. QED BY <2>1, <2>2
<1>6. w = CHOOSE h : Is(h)
  BY DEF BrakingCurve, n
<1>7. Is(w)
  <2>. HIDE DEF Is, w
  <2>. QED BY <1>5, <1>6
<1>. HIDE DEF w
<1>8. ASSUME NEW k \in 1..(n + 1)
      PROVE  w[k] = IF k > n THEN f.low ELSE BrakeUp(Own, w[k + 1], step)
  BY <1>7
<1>9. w[n + 1] = f.low
  BY <1>2, <1>8
<1>10. \A k \in 1..n : w[k] = BrakeUp(Own, w[k + 1], step)
  <2>1. \A k \in 1..n : k \in 1..(n + 1) /\ ~(k > n)
    BY <1>2
  <2>. QED BY <1>8, <2>1
<1>11. \A k \in 1..(n + 1) : w[k] \in Nat
  <2>. DEFINE U == {k \in 1..(n + 1) : w[k] \in Nat}
  <2>1. n + 1 \in U
    BY <1>2, <1>9
  <2>2. ASSUME NEW k \in 1..((n + 1) - 1), k + 1 \in U PROVE k \in U
    <3>1. k \in 1..n /\ k \in 1..(n + 1) /\ w[k + 1] \in Nat
      BY <1>2, <2>2
    <3>. QED BY <1>1, <1>10, <3>1
  <2>3. \A k \in 1..((n + 1) - 1) : k + 1 \in U => k \in U
    BY <2>2
  <2>4. 1 \in Int /\ n + 1 \in Int /\ 1 <= n + 1
    BY <1>2
  <2>5. \A k \in 1..(n + 1) : k \in U
    <3>. HIDE DEF U
    <3>. QED BY <2>1, <2>3, <2>4, DownFrom
  <2>. QED BY <2>5
<1>12. \A k \in 1..n : w[k + 1] <= w[k]
  <2>1. \A k \in 1..n : k + 1 \in 1..(n + 1)
    BY <1>2
  <2>. QED BY <1>1, <1>10, <1>11, <2>1
<1>. QED BY <1>9, <1>10, <1>11, <1>12 DEF w, n

(* Where the pieces are left, and what the limit falls to there. *)
Left(p, step, dim) == {i \in 0..dim : (i + 1) * step >= p[PieceAt(p, step, dim)[i]].to}

LEMMA FallsAre ==
  ASSUME NEW s, NEW p, NEW step, NEW dim, IsCut(s, p, step, dim),
         NEW f \in Falls(p, step, dim)
  PROVE  /\ f.low \in Nat /\ f.index \in Int /\ f.index <= dim
         /\ LET at == PieceAt(p, step, dim)
                ceiling == [i \in 0..dim |-> p[at[i]].limit]
            IN  \E i \in Left(p, step, dim) :
                  /\ f.high = CeilingBefore(f.low, ceiling, i)
                  /\ \/ /\ at[i] < Len(p) /\ p[at[i] + 1].limit < p[at[i]].limit
                        /\ f.low = p[at[i] + 1].limit /\ f.index = i
                     \/ at[i] = Len(p) /\ f.low = 0 /\ f.index = i - 1
<1>. DEFINE at == PieceAt(p, step, dim)
            ceiling == [i \in 0..dim |-> p[at[i]].limit]
            left == Left(p, step, dim)
            Fall(i, low, index) == [low |-> low, high |-> CeilingBefore(low, ceiling, i), index |-> index]
<1>1. /\ dim \in Nat /\ Len(p) \in Nat \ {0}
      /\ \A n \in 1..Len(p) : p[n].limit \in Nat
  BY AllowedIs DEF IsCut, IsPieces
<1>2. \A i \in 0..dim : at[i] \in 1..Len(p)
  BY PieceAtIs
<1>3. \/ \E i \in {i \in left : at[i] < Len(p) /\ p[at[i] + 1].limit < p[at[i]].limit} :
           f = Fall(i, p[at[i] + 1].limit, i)
      \/ \E i \in {i \in left : at[i] = Len(p)} : f = Fall(i, 0, i - 1)
  BY DEF Falls, Left
<1>4. left \subseteq 0..dim
  BY DEF Left
<1>. HIDE DEF at, left, ceiling
<1>5. CASE \E i \in {i \in left : at[i] < Len(p) /\ p[at[i] + 1].limit < p[at[i]].limit} :
             f = Fall(i, p[at[i] + 1].limit, i)
  <2>1. PICK i \in left : /\ at[i] < Len(p) /\ p[at[i] + 1].limit < p[at[i]].limit
                          /\ f = Fall(i, p[at[i] + 1].limit, i)
    BY <1>5
  <2>2. i \in 0..dim /\ at[i] + 1 \in 1..Len(p)
    BY <1>1, <1>2, <1>4, <2>1
  <2>3. f.low \in Nat /\ f.index \in Int /\ f.index <= dim
    BY <1>1, <2>1, <2>2
  <2>4. f.high = CeilingBefore(f.low, ceiling, i) /\ f.low = p[at[i] + 1].limit /\ f.index = i
    BY <2>1
  <2>. QED BY <2>1, <2>3, <2>4 DEF at, left, ceiling
<1>6. CASE \E i \in {i \in left : at[i] = Len(p)} : f = Fall(i, 0, i - 1)
  <2>1. PICK i \in left : at[i] = Len(p) /\ f = Fall(i, 0, i - 1)
    BY <1>6
  <2>2. i \in 0..dim
    BY <1>4
  <2>3. f.low \in Nat /\ f.index \in Int /\ f.index <= dim
    BY <1>1, <2>1, <2>2
  <2>4. f.high = CeilingBefore(f.low, ceiling, i) /\ f.low = 0 /\ f.index = i - 1
    BY <2>1
  <2>. QED BY <2>1, <2>3, <2>4 DEF at, left, ceiling
<1>. QED BY <1>3, <1>5, <1>6

(* The bound at a step: the limit of its piece or one of the braking       *)
(* curves below the limit they come from, whichever is least.              *)
LEMMA BoundIs ==
  ASSUME NEW s, NEW p, NEW step, NEW dim, IsCut(s, p, step, dim)
  PROVE  LET max == SpeedLimitMax(Own, p, step, dim)
             at == PieceAt(p, step, dim)
             Bends(f, i) == /\ i \in 1..f.index
                            /\ BrakingCurve(Own, f, step)[i] < f.high
         IN  /\ max[dim] = 0
             /\ \A i \in 0..dim : max[i] \in Allowed /\ max[i] <= p[at[i]].limit
             /\ \A i \in 0..(dim - 1), f \in Falls(p, step, dim) :
                  Bends(f, i) => max[i] <= BrakingCurve(Own, f, step)[i]
             /\ \A i \in 0..(dim - 1) :
                  \/ max[i] = p[at[i]].limit
                  \/ \E f \in Falls(p, step, dim) :
                       Bends(f, i) /\ max[i] = BrakingCurve(Own, f, step)[i]
<1>. DEFINE at == PieceAt(p, step, dim)
            falls == Falls(p, step, dim)
            w(f) == BrakingCurve(Own, f, step)
            Bends(f, i) == i \in 1..f.index /\ w(f)[i] < f.high
            max == SpeedLimitMax(Own, p, step, dim)
            B(i) == {w(f)[i] : f \in {f \in falls : Bends(f, i)}} \cup {p[at[i]].limit}
<1>1. /\ dim \in Nat /\ step \in Nat /\ Len(p) \in Nat \ {0}
      /\ \A n \in 1..Len(p) : p[n].limit \in Allowed
  BY DEF IsCut, IsPieces
<1>2. \A i \in 0..dim : at[i] \in 1..Len(p)
  BY PieceAtIs
<1>3. \A f \in falls, i \in Int : Bends(f, i) => w(f)[i] \in Nat
  <2>. SUFFICES ASSUME NEW f \in falls, NEW i \in 1..f.index PROVE w(f)[i] \in Nat
    OBVIOUS
  <2>1. f.low \in Nat /\ f.index \in Int
    BY FallsAre
  <2>2. f.index \in Nat /\ i \in 1..(f.index + 1)
    BY <2>1
  <2>. HIDE DEF falls
  <2>. QED BY <1>1, <2>1, <2>2, CurveFalls
<1>4. \A i \in 0..dim : max[i] = IF i = dim THEN 0 ELSE Min(B(i))
  <2>. DEFINE curve == [f \in falls |-> w(f)]
              Bounds_(i) == {curve[f][i] : f \in {f \in falls : i \in 1..f.index /\ curve[f][i] < f.high}}
  <2>1. \A f \in falls : curve[f] = w(f)
    OBVIOUS
  <2>2. max = [i \in 0..dim |-> IF i = dim THEN 0 ELSE Min(Bounds_(i) \cup {p[at[i]].limit})]
    BY DEF SpeedLimitMax
  <2>. HIDE DEF max, w, falls, curve, at
  <2>3. \A i \in 0..dim : Bounds_(i) = {w(f)[i] : f \in {f \in falls : Bends(f, i)}}
    BY <2>1
  <2>. HIDE DEF Bounds_
  <2>. QED BY <2>2, <2>3
<1>. HIDE DEF max, w, falls, at
<1>5. 0 \in Allowed /\ Allowed \subseteq Nat /\ \A v \in Allowed, u \in Nat : u <= v => u \in Allowed
  BY AllowedIs DEF IsCut
<1>6. ASSUME NEW i \in 0..(dim - 1)
      PROVE  /\ max[i] \in Nat /\ max[i] \in B(i)
             /\ \A b \in B(i) : max[i] <= b
  <2>1. i \in 0..dim /\ i # dim /\ i \in Int
    BY <1>1
  <2>2. B(i) \in SUBSET Nat /\ B(i) # {}
    BY <1>1, <1>2, <1>3, <1>5, <2>1
  <2>3. max[i] = Min(B(i))
    BY <1>4, <2>1
  <2>. HIDE DEF B
  <2>4. Min(B(i)) \in B(i) /\ \A b \in B(i) : Min(B(i)) <= b
    BY <2>2, LeastOf
  <2>. QED BY <2>2, <2>3, <2>4
<1>7. max[dim] = 0
  <2>1. dim \in 0..dim
    BY <1>1
  <2>. QED BY <1>4, <2>1
<1>8. ASSUME NEW i \in 0..dim PROVE max[i] \in Allowed /\ max[i] <= p[at[i]].limit
  <2>1. p[at[i]].limit \in Allowed /\ p[at[i]].limit \in Nat
    BY <1>1, <1>2, <1>5
  <2>2. CASE i = dim
    BY <1>5, <1>7, <2>1, <2>2
  <2>3. CASE i # dim
    <3>1. i \in 0..(dim - 1)
      BY <1>1, <2>3
    <3>2. max[i] \in Nat /\ max[i] <= p[at[i]].limit
      BY <1>6, <3>1
    <3>. QED BY <1>5, <2>1, <3>2
  <2>. QED BY <2>2, <2>3
<1>9. \A i \in 0..(dim - 1), f \in falls : Bends(f, i) => max[i] <= w(f)[i]
  BY <1>6
<1>10. \A i \in 0..(dim - 1) : \/ max[i] = p[at[i]].limit
                               \/ \E f \in falls : Bends(f, i) /\ max[i] = w(f)[i]
  BY <1>6
<1>. QED BY <1>7, <1>8, <1>9, <1>10 DEF max, w, falls, at

-----------------------------------------------------------------------------
(* What the line takes of a train. *)
LEMMA GradientIs ==
  ASSUME NEW y \in SlopeZones, NEW x \in Nat
  PROVE  EquivalentGradient(y, x) \in Int
<1>. DEFINE N == Len(y)
            tail == TailOf(x)
            Over(k) == tail < y[k].from /\ y[k].from < x
            Inside(k) == y[k].from <= tail /\ x <= y[k + 1].from
            hits == {k \in 1..(N - 1) : Over(k) \/ Inside(k)}
            k == Min(hits)
            R == [from : Nat, value : Int]
<1>1. y \in Seq(R) /\ N > 0 /\ y[1].from = 0
  BY FilesAssumption
<1>2. N \in Nat /\ \A m \in 1..N : y[m].from \in Nat /\ y[m].value \in Int
  <2>1. N \in Nat /\ \A m \in 1..N : y[m] \in R
    <3>. HIDE DEF R
    <3>. QED BY <1>1
  <2>. QED BY <2>1
<1>3. TrainLength \in Nat \ {0} /\ tail \in Nat
  BY LineAssumption DEF TailOf
<1>. HIDE DEF R, N
<1>4. EquivalentGradient(y, x) =
        IF hits = {} THEN 0
        ELSE IF Inside(k) THEN y[k].value
        ELSE (y[k].value * (x - y[k].from) + y[k - 1].value * (y[k].from - tail)) \div TrainLength
  BY DEF EquivalentGradient, N
<1>5. CASE hits # {}
  <2>1. k \in hits
    <3>1. hits \in SUBSET Nat
      BY <1>2
    <3>. HIDE DEF hits
    <3>. QED BY <1>5, <3>1, LeastOf
  <2>. HIDE DEF k
  <2>2. k \in 1..N /\ (Over(k) \/ Inside(k))
    BY <1>2, <2>1
  <2>3. CASE Inside(k)
    BY <1>2, <1>4, <1>5, <2>2, <2>3
  <2>4. CASE ~Inside(k)
    <3>1. tail < y[k].from
      BY <2>2, <2>4
    <3>2. k # 1
      BY <1>1, <1>3, <3>1
    <3>3. k - 1 \in 1..N
      BY <1>2, <2>2, <3>2
    <3>. DEFINE n == y[k].value * (x - y[k].from) + y[k - 1].value * (y[k].from - tail)
    <3>4. n \in Int
      <4>. DEFINE a == y[k].value
                  b == y[k - 1].value
                  c == y[k].from
      <4>1. a \in Int /\ b \in Int /\ c \in Int
        BY <1>2, <2>2, <3>3
      <4>. HIDE DEF a, b, c, tail
      <4>2. a * (x - c) + b * (c - tail) \in Int
        BY <1>3, <4>1
      <4>. QED BY <4>2 DEF a, b, c
    <3>. HIDE DEF n
    <3>5. n \div TrainLength \in Int
      BY <1>3, <3>4
    <3>6. EquivalentGradient(y, x) = n \div TrainLength
      BY <1>4, <1>5, <2>4 DEF n
    <3>. QED BY <3>5, <3>6
  <2>. QED BY <2>3, <2>4
<1>6. CASE hits = {}
  <2>. HIDE DEF hits
  <2>. QED BY <1>4, <1>6
<1>. QED BY <1>5, <1>6

LEMMA RadiusIs ==
  ASSUME NEW x
  PROVE  CurveRadius(RadiusZones, x) \in Nat
<1>. DEFINE R == [from : Nat, value : Nat]
            z == RadiusZones
<1>1. z \in Seq(R) /\ Len(z) > 0
  BY FilesAssumption
<1>. HIDE DEF R, z
<1>2. ZoneAt(z, x) \in DOMAIN z
  BY <1>1, ZoneIsOne
<1>3. z[ZoneAt(z, x)] \in R
  BY <1>1, <1>2
<1>4. z[ZoneAt(z, x)].value \in Nat
  BY <1>3 DEF R
<1>. QED BY <1>4 DEF CurveRadius, ValueAt, z

(* The gradients and the radii of the line files, sample by sample. *)
IsTaking(g, r, y) ==
  /\ y \in SlopeZones
  /\ g = [i \in Samples(LineLength) |-> EquivalentGradient(y, i * Sample)]
  /\ r = [i \in Samples(LineLength) |-> CurveRadius(RadiusZones, i * Sample)]

(* Along a section, two samples before its end, what slope and curve take. *)
LEMMA TakenAre ==
  ASSUME NEW s \in Sections, NEW g, NEW r, NEW y, IsTaking(g, r, y),
         NEW x \in Nat, x + 2 * Sample < Length(s)
  PROVE  /\ GradientAcc(Slopes(g, s), x) \in Int
         /\ CurveRadiusAcc(Radii(r, s), x) \in Nat
         /\ GradientAcc(Slopes(g, s), x) + CurveRadiusAcc(Radii(r, s), x) \in AllTaken
<1>. DEFINE p == Passed(g, s)
            m == x \div Sample
            i == p[m + 1]
<1>1. DOMAIN g = Samples(LineLength) /\ DOMAIN r = Samples(LineLength)
  BY DEF IsTaking
<1>2. IsPassing(s, p)
  BY <1>1, PassedAre
<1>3. Passed(r, s) = p
  BY <1>1 DEF Passed
<1>4. m \in Nat /\ m < Len(p)
  <2>1. m \in Nat
    BY LineAssumption, Division
  <2>. HIDE DEF p
  <2>2. m < Len(p)
    BY <1>2 DEF IsPassing
  <2>. QED BY <2>1, <2>2
<1>5. Len(p) \in Nat \ {0} /\ \A n \in 1..Len(p) : p[n] \in Samples(LineLength)
  BY <1>2 DEF IsPassing
<1>6. /\ Slopes(g, s) = [n \in 0..(Len(p) - 1) |-> IF s.down THEN g[p[n + 1]] ELSE -g[p[n + 1]]]
      /\ Radii(r, s) = [n \in 0..(Len(p) - 1) |-> r[p[n + 1]]]
  BY <1>3 DEF Slopes, Radii
<1>. HIDE DEF p, m
<1>7. m \in 0..(Len(p) - 1) /\ m + 1 \in 1..Len(p)
  BY <1>4, <1>5
<1>8. i \in Samples(LineLength)
  BY <1>5, <1>7
<1>. DEFINE gradient == EquivalentGradient(y, i * Sample)
            radius == CurveRadius(RadiusZones, i * Sample)
<1>9. Slopes(g, s)[m] = (IF s.down THEN gradient ELSE -gradient) /\ Radii(r, s)[m] = radius
  <2>1. Slopes(g, s)[m] = IF s.down THEN g[i] ELSE -g[i]
    BY <1>6, <1>7
  <2>2. Radii(r, s)[m] = r[i]
    BY <1>6, <1>7
  <2>3. g[i] = gradient /\ r[i] = radius
    <3>. HIDE DEF i
    <3>. QED BY <1>8 DEF IsTaking
  <2>. HIDE DEF i, gradient, radius
  <2>. QED BY <2>1, <2>2, <2>3
<1>10. gradient \in Int /\ radius \in Nat
  <2>1. i * Sample \in Nat
    BY <1>8, PlanAssumption, LineAssumption DEF Samples
  <2>. QED BY <2>1, GradientIs, RadiusIs DEF IsTaking
<1>. HIDE DEF i, gradient, radius
<1>11. radius # 0 => CurveFactor \div radius \in Nat
  BY <1>10, FilesAssumption, Division
<1>12. /\ GradientAcc(Slopes(g, s), x) = IF m > 0 THEN Slopes(g, s)[m] ELSE 0
       /\ CurveRadiusAcc(Radii(r, s), x) =
            IF m > 0 /\ Radii(r, s)[m] # 0 THEN CurveFactor \div Radii(r, s)[m] ELSE 0
  BY DEF GradientAcc, CurveRadiusAcc, m
<1>13. CASE m = 0
  <2>1. GradientAcc(Slopes(g, s), x) = 0 /\ CurveRadiusAcc(Radii(r, s), x) = 0
    BY <1>12, <1>13
  <2>. QED BY <2>1 DEF AllTaken
<1>14. CASE m # 0
  <2>. DEFINE a == IF s.down THEN gradient ELSE -gradient
              b == IF radius = 0 THEN 0 ELSE CurveFactor \div radius
  <2>1. m > 0
    BY <1>4, <1>14
  <2>2. GradientAcc(Slopes(g, s), x) = a
    BY <1>9, <1>12, <2>1
  <2>3. CurveRadiusAcc(Radii(r, s), x) = b
    BY <1>9, <1>12, <2>1
  <2>4. a \in Int /\ b \in Nat
    BY <1>10, <1>11
  <2>5. a + b \in AllTaken
    <3>1. a + b = Taken(y, i, s)
      BY DEF Taken, gradient, radius
    <3>2. y \in SlopeZones
      BY DEF IsTaking
    <3>. QED BY <1>8, <3>1, <3>2 DEF AllTaken
  <2>. HIDE DEF a, b
  <2>. QED BY <2>2, <2>3, <2>4, <2>5
<1>. QED BY <1>4, <1>13, <1>14

-----------------------------------------------------------------------------
(* The run. *)
LEMMA SpeedIs ==
  ASSUME NEW e \in Nat
  PROVE  /\ Speed(e) \in Nat /\ Energy(Speed(e)) \in Nat /\ Energy(Speed(e)) <= e
         /\ \A m \in Nat : e <= Energy(m) => Speed(e) <= m
<1>. DEFINE q == e \div 4
            r == Root(q)
<1>1. q \in Nat /\ q * 4 <= e
  BY Division
<1>. HIDE DEF q
<1>2. r \in Nat /\ r * r <= q
  BY <1>1, RootIs
<1>. HIDE DEF r
<1>3. 4 * r * r \in Nat /\ 4 * r * r <= e
  <2>. DEFINE a == r * r
  <2>1. a \in Nat /\ a <= q /\ 4 * r * r = 4 * a
    BY <1>2
  <2>. HIDE DEF a
  <2>. QED BY <1>1, <2>1
<1>4. ASSUME NEW m \in Nat, e <= 4 * m * m PROVE r <= m
  <2>. DEFINE b == m * m
  <2>1. b \in Nat /\ e <= 4 * b
    BY <1>4
  <2>. HIDE DEF b
  <2>2. q <= b
    BY <1>1, <2>1
  <2>3. q <= m * m
    BY <2>2 DEF b
  <2>. QED BY <1>1, <2>3, RootBelow DEF r
<1>5. Speed(e) = r /\ \A m \in Nat : Energy(m) = 4 * m * m
  BY DEF Speed, Energy, r, q
<1>. QED BY <1>2, <1>3, <1>4, <1>5

(* What the run of a section is made from. *)
IsRunnable(pl, s) ==
  /\ s \in Sections /\ LimitZones # {}
  /\ pl.train = Own
  /\ pl.step = StepSize(Length(s)) /\ pl.dim = LastStep(Length(s), pl.step)
  /\ \E g, r, y : IsTaking(g, r, y) /\ pl.slopes = Slopes(g, s) /\ pl.radii = Radii(r, s)
  /\ \A i \in 0..pl.dim : pl.max[i] \in Allowed

LEMMA RunnableIs ==
  ASSUME NEW pl, NEW s, IsRunnable(pl, s)
  PROVE  /\ pl.dim \in Nat /\ pl.step \in Nat \ {0} /\ pl.step \in {Short, Wide}
         /\ Length(s) \in Nat \ {0} /\ pl.dim * pl.step \in Nat /\ pl.dim * pl.step < Length(s)
         /\ \A i \in 0..(pl.dim - 1) :
              /\ i * pl.step \in Nat /\ GradientAcc(pl.slopes, i * pl.step) \in Int
              /\ CurveRadiusAcc(pl.radii, i * pl.step) \in Nat
              /\ GradientAcc(pl.slopes, i * pl.step) + CurveRadiusAcc(pl.radii, i * pl.step) \in AllTaken
         /\ \A i \in 0..pl.dim : pl.max[i] \in Nat
<1>. DEFINE step == pl.step
            dim == pl.dim
<1>1. s \in Sections /\ step = StepSize(Length(s)) /\ dim = LastStep(Length(s), step)
  BY DEF IsRunnable
<1>2. step \in Nat \ {0} /\ step >= 2 * Sample /\ step \in {Short, Wide}
  BY <1>1, StepSizeType DEF StepSize
<1>3. Length(s) \in Nat \ {0}
  BY <1>1, SectionsAre DEF IsSection
<1>. HIDE DEF step, dim
<1>4. dim \in Nat /\ dim * step \in Nat /\ dim * step < Length(s)
  BY <1>1, <1>2, <1>3, StepsFit
<1>5. ASSUME NEW i \in 0..(dim - 1)
      PROVE  /\ i * step \in Nat /\ GradientAcc(pl.slopes, i * step) \in Int
             /\ CurveRadiusAcc(pl.radii, i * step) \in Nat
             /\ GradientAcc(pl.slopes, i * step) + CurveRadiusAcc(pl.radii, i * step) \in AllTaken
  <2>1. i \in Nat /\ i < dim
    BY <1>4
  <2>2. i * step + step <= dim * step
    BY <1>2, <1>4, <2>1, ProductsOrder
  <2>3. i * step \in Nat
    BY <1>2, <2>1
  <2>. DEFINE x == i * step
              w == dim * step
  <2>4. x \in Nat /\ x + 2 * Sample < Length(s)
    <3>1. x \in Nat /\ w \in Nat /\ x + step <= w /\ w < Length(s)
      BY <1>4, <2>2, <2>3
    <3>. HIDE DEF x, w
    <3>. QED BY <1>2, <1>3, <3>1, LineAssumption
  <2>. HIDE DEF x
  <2>5. PICK g, r, y : IsTaking(g, r, y) /\ pl.slopes = Slopes(g, s) /\ pl.radii = Radii(r, s)
    BY DEF IsRunnable
  <2>6. /\ GradientAcc(Slopes(g, s), x) \in Int
        /\ CurveRadiusAcc(Radii(r, s), x) \in Nat
        /\ GradientAcc(Slopes(g, s), x) + CurveRadiusAcc(Radii(r, s), x) \in AllTaken
    BY <1>1, <2>4, <2>5, TakenAre
  <2>. QED BY <2>4, <2>5, <2>6 DEF x
<1>6. \A i \in 0..dim : pl.max[i] \in Nat
  <2>1. Allowed \subseteq Nat
    BY AllowedIs DEF IsRunnable
  <2>. QED BY <2>1 DEF IsRunnable, dim
<1>. QED BY <1>2, <1>3, <1>4, <1>5, <1>6 DEF step, dim

(* The states of a run: no faster than a limit of the line. *)
RunState == {r \in [e : Nat, k : Nat, flag : Flags, value : Nat] : Speed(r.e) \in Allowed}

LEMMA AddedIs ==
  ASSUME NEW pl, NEW s, IsRunnable(pl, s), NEW a \in Int
  PROVE  /\ Added(pl, a) \in Int
         /\ a \in Nat => Added(pl, a) \in Nat
         /\ a > 0 => Added(pl, a) > 0
         /\ \A b \in Int : Added(pl, a + b) = Added(pl, a) + Added(pl, b)
<1>. DEFINE m == 8 * pl.step
<1>1. m \in Nat \ {0} /\ \A b : Added(pl, b) = m * b
  <2>1. pl.step \in Nat \ {0}
    BY RunnableIs
  <2>. QED BY <2>1 DEF Added
<1>. HIDE DEF m
<1>2. m * a \in Int
  BY <1>1
<1>3. a \in Nat => m * a \in Nat
  BY <1>1
<1>4. a > 0 => m * a > 0
  BY <1>1
<1>5. \A b \in Int : m * (a + b) = m * a + m * b
  BY <1>1
<1>. QED BY <1>1, <1>2, <1>3, <1>4, <1>5

(* What is reached is not less than nothing. *)
LEMMA ReachedIs ==
  ASSUME NEW pl, NEW s, IsRunnable(pl, s), NEW r \in RunState, NEW i \in 0..(pl.dim - 1)
  PROVE  Reached(pl, r, i) \in Nat
<1>. DEFINE v == Speed(r.e)
            n == ResistanceAcc(Own.at_aw0, v)
            t == TractionAcc(Own, v)
            taken == GradientAcc(pl.slopes, i * pl.step) + CurveRadiusAcc(pl.radii, i * pl.step)
<1>1. r.e \in Nat /\ v \in Allowed
  BY DEF RunState
<1>2. v \in Nat /\ 4 * v * v \in Nat /\ 4 * v * v <= r.e
  BY <1>1, SpeedIs DEF Energy
<1>3. taken \in AllTaken /\ taken \in Int /\ pl.step \in {Short, Wide} /\ pl.step \in Nat \ {0}
  <2>1. /\ GradientAcc(pl.slopes, i * pl.step) \in Int
        /\ CurveRadiusAcc(pl.radii, i * pl.step) \in Nat
        /\ GradientAcc(pl.slopes, i * pl.step) + CurveRadiusAcc(pl.radii, i * pl.step) \in AllTaken
        /\ pl.step \in {Short, Wide} /\ pl.step \in Nat \ {0}
    BY RunnableIs
  <2>. QED BY <2>1
<1>4. Resisting(pl, i, v) = n + taken
  <2>1. /\ GradientAcc(pl.slopes, i * pl.step) \in Int
        /\ CurveRadiusAcc(pl.radii, i * pl.step) \in Nat
    BY RunnableIs
  <2>2. n \in Nat
    BY <1>2, ForcesAre
  <2>3. pl.train = Own
    BY DEF IsRunnable
  <2>. DEFINE a == GradientAcc(pl.slopes, i * pl.step)
              b == CurveRadiusAcc(pl.radii, i * pl.step)
  <2>4. Resisting(pl, i, v) = n + a + b
    BY <2>3 DEF Resisting
  <2>. HIDE DEF n, a, b
  <2>5. n + a + b = n + (a + b)
    BY <2>1, <2>2 DEF a, b
  <2>. QED BY <2>4, <2>5 DEF a, b
<1>. HIDE DEF taken
<1>5. n \in Nat /\ t \in Nat
  BY <1>2, ForcesAre
<1>6. 4 * v * v + 8 * pl.step * (t - n - taken) >= 0
  <2>1. PICK top \in AllLimits : v \in 0..top
    <3>1. LimitZones # {}
      BY DEF IsRunnable
    <3>. QED BY <1>1, <3>1, AllowedIs
  <2>. QED BY <1>3, <2>1, PullAssumption DEF Own
<1>. HIDE DEF v, n, t
<1>7. Added(pl, n + taken) \in Int /\ Added(pl, t) \in Int /\ Added(pl, t - n - taken) \in Int
      /\ Added(pl, t) = Added(pl, t - n - taken) + Added(pl, n + taken)
  <2>1. /\ n + taken \in Int /\ t \in Int /\ t - n - taken \in Int
        /\ t = (t - n - taken) + (n + taken)
    BY <1>3, <1>5
  <2>2. Added(pl, (t - n - taken) + (n + taken)) = Added(pl, t - n - taken) + Added(pl, n + taken)
    BY <2>1, AddedIs
  <2>3. Added(pl, n + taken) \in Int /\ Added(pl, t) \in Int /\ Added(pl, t - n - taken) \in Int
    BY <2>1, AddedIs
  <2>4. Added(pl, t) = Added(pl, (t - n - taken) + (n + taken))
    BY <2>1
  <2>. QED BY <2>2, <2>3, <2>4
<1>8. 4 * v * v + Added(pl, t - n - taken) >= 0
  BY <1>6 DEF Added
<1>. DEFINE rolled == r.e - Added(pl, n + taken)
<1>9. Reached(pl, r, i) = IF Pulls(pl, r, i) THEN rolled + Added(pl, t)
                          ELSE IF rolled > 0 THEN rolled ELSE Creep
  <2>1. pl.train = Own
    BY DEF IsRunnable
  <2>. QED BY <1>4, <2>1 DEF Reached, v, t
<1>10. rolled \in Int /\ rolled + Added(pl, t) \in Nat
  <2>1. rolled + Added(pl, t) = r.e + Added(pl, t - n - taken)
    BY <1>1, <1>7
  <2>. DEFINE d == Added(pl, t - n - taken)
              a == 4 * v * v
  <2>2. d \in Int /\ a \in Nat /\ a <= r.e /\ a + d >= 0 /\ r.e \in Nat
    BY <1>1, <1>2, <1>7, <1>8
  <2>. HIDE DEF d, a
  <2>3. r.e + d \in Nat
    BY <2>2
  <2>. QED BY <1>1, <1>7, <2>1, <2>3 DEF d
<1>. HIDE DEF rolled
<1>11. (IF rolled > 0 THEN rolled ELSE Creep) \in Nat
  BY <1>10 DEF Creep
<1>. QED BY <1>9, <1>10, <1>11

(* The level that keeps to a bound the run would exceed. *)
LEMMA LevelIs ==
  ASSUME NEW pl, NEW s, IsRunnable(pl, s), NEW r \in RunState, NEW i \in 0..(pl.dim - 1),
         NEW top \in Nat
  PROVE  LET level == LevelAtBound(pl, r, i, top)
         IN  level.flag \in Flags /\ level.value \in Nat
<1>. DEFINE v == Speed(r.e)
            g == GradientAcc(pl.slopes, i * pl.step)
            c == CurveRadiusAcc(pl.radii, i * pl.step)
            n == ResistanceAcc(Own.at_aw0, v)
            need == top - r.e + Added(pl, g)
            rolling == top - r.e + Added(pl, Resisting(pl, i, v))
            pulling == Added(pl, TractionAcc(Own, v))
            brake == Added(pl, BrakeAcc(Own, v))
            value == (-100 * need) \div brake
            full == IF Pulls(pl, r, i) THEN rolling ELSE pulling
            kept == IF i > 0 /\ value - r.value \in -9..9 THEN r.value ELSE value
            L == LevelAtBound(pl, r, i, top)
<1>1. r.e \in Nat /\ r.value \in Nat
  BY DEF RunState
<1>2. v \in Nat
  BY <1>1, SpeedIs
<1>3. g \in Int /\ c \in Nat
  BY RunnableIs
<1>4. pl.train = Own
  BY DEF IsRunnable
<1>5. n \in Nat /\ TractionAcc(Own, v) \in Nat \ {0} /\ BrakeAcc(Own, v) \in Nat \ {0}
  BY <1>2, ForcesAre
<1>6. L = IF need > 0 THEN [flag |-> Traction, value |-> (100 * need) \div full]
          ELSE IF -5 * need > brake THEN [flag |-> Braking, value |-> kept]
          ELSE [flag |-> Coasting, value |-> 0]
  BY <1>4 DEF LevelAtBound
<1>7. Resisting(pl, i, v) = n + g + c
  BY <1>4 DEF Resisting
<1>. HIDE DEF L, v, g, c, n
<1>8. Added(pl, g) \in Int /\ need \in Int
  <2>1. Added(pl, g) \in Int
    BY <1>3, AddedIs
  <2>. QED BY <1>1, <2>1
<1>9. pulling \in Nat \ {0} /\ brake \in Nat \ {0}
  <2>1. TractionAcc(Own, v) \in Int /\ TractionAcc(Own, v) > 0 /\ TractionAcc(Own, v) \in Nat
        /\ BrakeAcc(Own, v) \in Int /\ BrakeAcc(Own, v) > 0 /\ BrakeAcc(Own, v) \in Nat
    BY <1>5
  <2>2. /\ Added(pl, TractionAcc(Own, v)) \in Nat /\ Added(pl, TractionAcc(Own, v)) > 0
        /\ Added(pl, BrakeAcc(Own, v)) \in Nat /\ Added(pl, BrakeAcc(Own, v)) > 0
    BY <2>1, AddedIs
  <2>. QED BY <2>2
<1>10. rolling \in Int /\ rolling >= need
  <2>1. n + c \in Nat /\ n + c \in Int /\ n + g + c = g + (n + c)
    BY <1>3, <1>5
  <2>2. Added(pl, n + c) \in Nat
    BY <2>1, AddedIs
  <2>3. Added(pl, g + (n + c)) = Added(pl, g) + Added(pl, n + c)
    BY <1>3, <2>1, AddedIs
  <2>4. rolling = top - r.e + (Added(pl, g) + Added(pl, n + c))
    BY <1>7, <2>1, <2>3
  <2>. QED BY <1>1, <1>8, <2>2, <2>4
<1>. HIDE DEF need, rolling, pulling, brake
<1>11. CASE need > 0
  <2>1. full \in Nat \ {0}
    BY <1>8, <1>9, <1>10, <1>11
  <2>2. 100 * need \in Nat
    BY <1>8, <1>11
  <2>. HIDE DEF full
  <2>. DEFINE d == 100 * need
  <2>3. d \div full \in Nat
    <3>. HIDE DEF d
    <3>1. d \in Nat
      BY <2>2 DEF d
    <3>. QED BY <2>1, <3>1, Division
  <2>4. L = [flag |-> Traction, value |-> d \div full]
    BY <1>6, <1>11
  <2>. HIDE DEF d
  <2>5. L.flag \in Flags /\ L.value \in Nat
    BY <2>3, <2>4 DEF Flags
  <2>. QED BY <2>5 DEF L
<1>12. CASE ~(need > 0)
  <2>1. -100 * need \in Nat
    BY <1>8, <1>12
  <2>. DEFINE d == -100 * need
  <2>2. value \in Nat
    <3>1. d \in Nat
      BY <2>1
    <3>2. value = d \div brake
      OBVIOUS
    <3>. HIDE DEF d, value
    <3>. QED BY <1>9, <3>1, <3>2, Division
  <2>3. kept \in Nat
    <3>. HIDE DEF value
    <3>. QED BY <1>1, <2>2
  <2>. HIDE DEF kept
  <2>4. \/ L = [flag |-> Braking, value |-> kept]
        \/ L = [flag |-> Coasting, value |-> 0]
    BY <1>6, <1>12
  <2>5. L.flag \in Flags /\ L.value \in Nat
    BY <2>3, <2>4 DEF Flags
  <2>. QED BY <2>5 DEF L
<1>. QED BY <1>8, <1>11, <1>12

(* A step of the run. *)
LEMMA RunStepIs ==
  ASSUME NEW pl, NEW s, IsRunnable(pl, s), NEW r \in RunState, NEW i \in 0..(pl.dim - 1)
  PROVE  LET next == RunStep(pl, r, i)
         IN  next \in RunState /\ next.e <= Energy(pl.max[i + 1])
<1>. DEFINE m == pl.max[i + 1]
            top == Energy(m)
            e == Reached(pl, r, i)
            least == IF e > top THEN top ELSE e
            level == IF e > top THEN LevelAtBound(pl, r, i, top)
                     ELSE IF Pulls(pl, r, i) THEN [flag |-> Traction, value |-> 80]
                     ELSE [flag |-> Coasting, value |-> 0]
            next == RunStep(pl, r, i)
<1>1. next = [e |-> least, k |-> NextSwitch(pl, r, i), flag |-> level.flag, value |-> level.value]
  BY DEF RunStep
<1>2. m \in Nat /\ m \in Allowed
  <2>1. i + 1 \in 0..pl.dim
    BY RunnableIs
  <2>. QED BY <2>1, RunnableIs DEF IsRunnable
<1>3. top \in Nat /\ e \in Nat
  <2>1. 4 * m * m \in Nat
    BY <1>2
  <2>. QED BY <2>1, ReachedIs DEF Energy
<1>. HIDE DEF m, next
<1>4. level.flag \in Flags /\ level.value \in Nat
  <2>1. LevelAtBound(pl, r, i, top).flag \in Flags /\ LevelAtBound(pl, r, i, top).value \in Nat
    <3>. HIDE DEF top
    <3>. QED BY <1>3, LevelIs
  <2>2. {Traction, Coasting} \subseteq Flags
    BY DEF Flags
  <2>. HIDE DEF top, e
  <2>. QED BY <2>1, <2>2
<1>. HIDE DEF level
<1>5. least \in Nat /\ least <= top
  <2>. HIDE DEF top, e
  <2>. QED BY <1>3
<1>. HIDE DEF least
<1>6. Speed(least) \in Allowed
  <2>1. Speed(least) \in Nat /\ Speed(least) <= m
    BY <1>2, <1>5, SpeedIs
  <2>2. LimitZones # {}
    BY DEF IsRunnable
  <2>. QED BY <1>2, <2>1, <2>2, AllowedIs
<1>7. NextSwitch(pl, r, i) \in Nat
  <2>1. r.k \in Nat /\ r.k + 1 \in Nat
    BY DEF RunState
  <2>. QED BY <2>1 DEF NextSwitch
<1>8. next \in RunState
  BY <1>1, <1>4, <1>5, <1>6, <1>7 DEF RunState
<1>9. next.e <= top
  BY <1>1, <1>5
<1>. QED BY <1>8, <1>9 DEF next, m

(* A run goes on step by step, within the bound. *)
LEMMA RunStatesAre ==
  ASSUME NEW pl, NEW s, IsRunnable(pl, s)
  PROVE  LET run == RunStates(pl)
         IN  /\ run[0] = [e |-> Creep, k |-> 1, flag |-> 0, value |-> 0]
             /\ \A i \in 0..pl.dim : run[i] \in RunState
             /\ \A i \in 1..pl.dim : /\ run[i] = RunStep(pl, run[i - 1], i - 1)
                                     /\ run[i].e <= Energy(pl.max[i])
<1>. DEFINE dim == pl.dim
            start == [e |-> Creep, k |-> 1, flag |-> 0, value |-> 0]
            next == [q \in (1..dim) \X RunState |-> RunStep(pl, q[2], q[1] - 1)]
            V == [i \in 0..dim |-> RunState]
            Is(g) == g = [i \in 0..dim |->
                            IF i = 0 THEN start ELSE RunStep(pl, g[i - 1], i - 1)]
            run == RunStates(pl)
<1>1. dim \in Nat
  BY RunnableIs
<1>2. start \in RunState
  <2>1. Speed(Creep) = 0
    <3>1. 1 <= Energy(1) /\ 1 \div 4 = 0
      BY DEF Energy
    <3>2. Root(0) \in 0..0
      BY RootIs
    <3>. QED BY <3>1, <3>2 DEF Speed, Creep
  <2>2. 0 \in Allowed
    BY AllowedIs DEF IsRunnable
  <2>3. start.e = Creep /\ start \in [e : Nat, k : Nat, flag : Flags, value : Nat]
    BY DEF Creep, Flags
  <2>. QED BY <2>1, <2>2, <2>3 DEF RunState
<1>. HIDE DEF start, dim
<1>3. ASSUME NEW i \in 1..dim, NEW r \in RunState
      PROVE  RunStep(pl, r, i - 1) \in RunState /\ RunStep(pl, r, i - 1).e <= Energy(pl.max[i])
  <2>1. i - 1 \in 0..(pl.dim - 1) /\ (i - 1) + 1 = i
    BY <1>1 DEF dim
  <2>. DEFINE k == i - 1
  <2>2. k \in 0..(pl.dim - 1) /\ k + 1 = i
    BY <2>1
  <2>. HIDE DEF k
  <2>3. RunStep(pl, r, k) \in RunState /\ RunStep(pl, r, k).e <= Energy(pl.max[k + 1])
    BY <2>2, RunStepIs
  <2>. QED BY <2>2, <2>3 DEF k
<1>4. ASSUME NEW i \in 1..dim, NEW r \in RunState
      PROVE  next[<<i, r>>] = RunStep(pl, r, i - 1)
  OBVIOUS
<1>5. PICK f : IsUpwards(f, dim, start, next) /\ \A i \in 0..dim : f[i] \in V[i]
  <2>1. start \in V[0]
    BY <1>1, <1>2
  <2>2. \A i \in 1..dim : \A r \in V[i - 1] : next[<<i, r>>] \in V[i]
    <3>1. \A i \in 1..dim : i \in 0..dim /\ i - 1 \in 0..dim
      BY <1>1
    <3>2. \A i \in 0..dim : V[i] = RunState
      OBVIOUS
    <3>. HIDE DEF next, V
    <3>. QED BY <1>3, <1>4, <3>1, <3>2
  <2>. HIDE DEF next, V
  <2>. QED BY <1>1, <2>1, <2>2, Upwards
<1>6. Is(f)
  <2>1. ASSUME NEW i \in 0..dim
        PROVE  f[i] = IF i = 0 THEN start ELSE RunStep(pl, f[i - 1], i - 1)
    <3>1. f[i] = IF i = 0 THEN start ELSE next[<<i, f[i - 1]>>]
      BY <1>5 DEF IsUpwards
    <3>2. CASE i # 0
      <4>1. i \in 1..dim /\ i - 1 \in 0..dim
        BY <1>1, <3>2
      <4>2. f[i - 1] \in RunState
        BY <1>5, <4>1
      <4>3. next[<<i, f[i - 1]>>] = RunStep(pl, f[i - 1], i - 1)
        <5>. HIDE DEF next
        <5>. QED BY <1>4, <4>1, <4>2
      <4>. QED BY <3>1, <3>2, <4>3
    <3>. QED BY <3>1, <3>2
  <2>2. f = [i \in 0..dim |-> f[i]]
    BY <1>5 DEF IsUpwards
  <2>. HIDE DEF next, V
  <2>. QED BY <2>1, <2>2
<1>7. run = CHOOSE g : Is(g)
  BY DEF RunStates, dim, start
<1>8. Is(run)
  <2>. HIDE DEF Is, run
  <2>. QED BY <1>6, <1>7
<1>. HIDE DEF run
<1>9. ASSUME NEW i \in 0..dim
      PROVE  run[i] = IF i = 0 THEN start ELSE RunStep(pl, run[i - 1], i - 1)
  BY <1>8
<1>10. run[0] = start /\ \A i \in 1..dim : run[i] = RunStep(pl, run[i - 1], i - 1)
  <2>1. 0 \in 0..dim /\ \A i \in 1..dim : i \in 0..dim /\ i # 0
    BY <1>1
  <2>. QED BY <1>9, <2>1
<1>11. \A i \in 0..dim : run[i] \in RunState
  <2>. DEFINE U == {i \in 0..dim : run[i] \in RunState}
  <2>1. 0 \in U
    BY <1>1, <1>2, <1>10
  <2>2. ASSUME NEW i \in 1..dim, i - 1 \in U PROVE i \in U
    <3>1. i \in 0..dim /\ run[i - 1] \in RunState
      BY <1>1, <2>2
    <3>. QED BY <1>3, <1>10, <3>1
  <2>3. \A i \in 1..dim : i - 1 \in U => i \in U
    BY <2>2
  <2>4. \A i \in 0..dim : i \in U
    <3>. HIDE DEF U
    <3>. QED BY <1>1, <2>1, <2>3, UpTo
  <2>. QED BY <2>4
<1>12. \A i \in 1..dim : run[i].e <= Energy(pl.max[i])
  <2>1. \A i \in 1..dim : i - 1 \in 0..dim
    BY <1>1
  <2>. QED BY <1>3, <1>10, <1>11, <2>1
<1>. QED BY <1>10, <1>11, <1>12 DEF run, start, dim

(* What is kept of a run: numbers, and no speed over the bound. *)
LEMMA RunIs ==
  ASSUME NEW pl, NEW s, IsRunnable(pl, s)
  PROVE  /\ DOMAIN Run(pl) = 0..pl.dim
         /\ \A i \in 0..pl.dim : /\ Run(pl)[i].speed \in Allowed /\ Run(pl)[i].speed \in Nat
                                 /\ Run(pl)[i].flag \in Flags
                                 /\ Run(pl)[i].value \in Nat
         /\ Run(pl)[0].speed = 0
         /\ \A i \in 1..pl.dim : Run(pl)[i].speed <= pl.max[i]
<1>. DEFINE run == RunStates(pl)
            t == Run(pl)
<1>1. pl.dim \in Nat /\ \A i \in 0..pl.dim : pl.max[i] \in Nat
  BY RunnableIs
<1>2. /\ run[0] = [e |-> Creep, k |-> 1, flag |-> 0, value |-> 0]
      /\ \A i \in 0..pl.dim : run[i] \in RunState
      /\ \A i \in 1..pl.dim : run[i].e <= Energy(pl.max[i])
  BY RunStatesAre
<1>3. t = [i \in 0..pl.dim |->
             [speed |-> Speed(run[i].e),
              flag |-> IF i < pl.dim THEN run[i + 1].flag ELSE Braking,
              value |-> IF i < pl.dim THEN run[i + 1].value ELSE 100]]
  BY DEF Run
<1>. HIDE DEF run, t
<1>4. \A i \in 0..pl.dim : /\ run[i].e \in Nat /\ run[i].flag \in Flags /\ run[i].value \in Nat
                           /\ Speed(run[i].e) \in Allowed
  BY <1>2 DEF RunState
<1>5. \A i \in 0..pl.dim : /\ t[i].speed = Speed(run[i].e)
                           /\ t[i].flag = IF i < pl.dim THEN run[i + 1].flag ELSE Braking
                           /\ t[i].value = IF i < pl.dim THEN run[i + 1].value ELSE 100
  BY <1>3
<1>6. \A i \in 0..pl.dim : /\ t[i].speed \in Allowed /\ t[i].speed \in Nat
                           /\ t[i].flag \in Flags /\ t[i].value \in Nat
  <2>. SUFFICES ASSUME NEW i \in 0..pl.dim
                PROVE  /\ t[i].speed \in Allowed /\ t[i].speed \in Nat
                       /\ t[i].flag \in Flags /\ t[i].value \in Nat
    OBVIOUS
  <2>1. Speed(run[i].e) \in Nat
    BY <1>4, SpeedIs
  <2>2. i < pl.dim => i + 1 \in 0..pl.dim
    BY <1>1
  <2>3. Braking \in Flags
    BY DEF Flags
  <2>. QED BY <1>4, <1>5, <2>1, <2>2, <2>3
<1>7. t[0].speed = 0
  <2>1. 0 \in 0..pl.dim
    BY <1>1
  <2>2. Speed(Creep) = 0
    <3>1. 1 \div 4 = 0
      OBVIOUS
    <3>2. Root(0) \in 0..0
      BY RootIs
    <3>. QED BY <3>1, <3>2 DEF Speed, Creep
  <2>. QED BY <1>2, <1>5, <2>1, <2>2
<1>8. \A i \in 1..pl.dim : t[i].speed <= pl.max[i]
  <2>. SUFFICES ASSUME NEW i \in 1..pl.dim PROVE t[i].speed <= pl.max[i]
    OBVIOUS
  <2>1. i \in 0..pl.dim
    BY <1>1
  <2>2. run[i].e \in Nat /\ run[i].e <= Energy(pl.max[i]) /\ pl.max[i] \in Nat
    BY <1>1, <1>2, <1>4, <2>1
  <2>3. Speed(run[i].e) <= pl.max[i]
    BY <2>2, SpeedIs
  <2>. QED BY <1>5, <2>1, <2>3
<1>. QED BY <1>3, <1>6, <1>7, <1>8 DEF t

-----------------------------------------------------------------------------
(* What is sent is numbers. *)

(* Between two speeds. *)
LEMMA BetweenSpeeds ==
  ASSUME NEW a \in Nat, NEW b \in Nat, NEW step \in Nat \ {0}, NEW d \in 0..(step - 1)
  PROVE  LET v == (a * step + d * (b - a)) \div step
         IN  v \in Nat /\ \A m \in Nat : a <= m /\ b <= m => v <= m
<1>. DEFINE c == step - d
            n == a * c + b * d
            v == n \div step
<1>1. c \in Nat /\ d \in Nat /\ c + d = step
  OBVIOUS
<1>2. a * step + d * (b - a) = n
  <2>1. a * step = a * c + a * d /\ d * (b - a) = b * d - a * d
    <3>1. step = c + d
      BY <1>1
    <3>. HIDE DEF c
    <3>2. a * (c + d) = a * c + a * d
      BY <1>1
    <3>3. d * (b - a) = b * d - a * d
      BY <1>1
    <3>. QED BY <3>1, <3>2, <3>3
  <2>. DEFINE p == a * step
              q == d * (b - a)
              ac == a * c
              ad == a * d
              bd == b * d
  <2>2. ac \in Nat /\ ad \in Nat /\ bd \in Nat /\ p = ac + ad /\ q = bd - ad
    BY <1>1, <2>1
  <2>. HIDE DEF p, q, ac, ad, bd
  <2>3. p + q = ac + bd
    BY <2>2
  <2>. QED BY <2>3 DEF p, q, ac, bd
<1>. HIDE DEF c
<1>3. n \in Nat
  BY <1>1
<1>4. ASSUME NEW m \in Nat, a <= m, b <= m
      PROVE  n <= m * step
  <2>1. a * c <= m * c /\ b * d <= m * d
    BY <1>1, <1>4, StepsMonotone
  <2>2. m * step = m * c + m * d
    BY <1>1
  <2>3. a * c \in Nat /\ b * d \in Nat /\ m * c \in Nat /\ m * d \in Nat
    BY <1>1
  <2>. QED BY <2>1, <2>2, <2>3
<1>. HIDE DEF n
<1>5. v \in Nat /\ v * step <= n
  BY <1>3, Division
<1>. HIDE DEF v
<1>6. ASSUME NEW m \in Nat, a <= m, b <= m
      PROVE  v <= m
  <2>1. n <= m * step
    BY <1>4, <1>6
  <2>2. v * step \in Nat /\ m * step \in Nat
    BY <1>5
  <2>3. v * step <= m * step
    BY <1>3, <1>5, <2>1, <2>2
  <2>. QED BY <1>5, <2>3, ProductsOrder
<1>. QED BY <1>2, <1>5, <1>6 DEF v

(* A target speed is 0, that of the next step in the first, or between     *)
(* those of two steps.                                                     *)
LEMMA TargetIs ==
  ASSUME NEW t, NEW dim \in Nat, NEW step \in Nat \ {0}, NEW s, IsSection(s),
         \A i \in 0..dim : t[i].speed \in Nat, NEW post \in Int
  PROVE  LET x == IF Along(s, post) > 0 THEN Along(s, post) ELSE 0
             i == x \div step
             v == TargetSpeed(t, dim, step, s, post).speed
         IN  /\ v \in Nat /\ x \in Nat /\ i \in Nat
             /\ i >= dim => v = 0
             /\ i = 0 /\ i < dim => v = t[1].speed
             /\ i > 0 /\ i < dim => \A m \in Nat : t[i].speed <= m /\ t[i + 1].speed <= m => v <= m
<1>. DEFINE x == IF Along(s, post) > 0 THEN Along(s, post) ELSE 0
            i == x \div step
            d == x - i * step
            between == (t[i].speed * step + d * (t[i + 1].speed - t[i].speed)) \div step
            v == TargetSpeed(t, dim, step, s, post).speed
<1>1. x \in Nat
  BY DEF Along, IsSection
<1>2. v = IF i >= dim THEN 0 ELSE IF i = 0 THEN t[1].speed ELSE between
  BY DEF TargetSpeed
<1>. HIDE DEF v, x
<1>3. i \in Nat /\ i * step <= x /\ x < i * step + step
  BY <1>1, Division
<1>. HIDE DEF i
<1>4. d \in 0..(step - 1)
  <2>1. i * step \in Nat
    BY <1>3
  <2>. QED BY <1>1, <1>3, <2>1
<1>. HIDE DEF d
<1>5. CASE i >= dim
  BY <1>1, <1>2, <1>3, <1>5 DEF v, x, i
<1>6. CASE i < dim /\ i = 0
  <2>1. 1 \in 0..dim /\ ~(i >= dim)
    BY <1>6
  <2>2. v = t[1].speed /\ v \in Nat
    BY <1>2, <1>6, <2>1
  <2>3. /\ v \in Nat /\ x \in Nat /\ i \in Nat /\ ~(i >= dim) /\ v = t[1].speed /\ ~(i > 0)
    BY <1>1, <1>3, <1>6, <2>1, <2>2
  <2>. QED BY <2>3 DEF v, x, i
<1>7. CASE i < dim /\ i > 0
  <2>1. i \in 0..dim /\ i + 1 \in 0..dim /\ ~(i >= dim) /\ i # 0
    BY <1>3, <1>7
  <2>. DEFINE a == t[i].speed
              b == t[i + 1].speed
  <2>2. a \in Nat /\ b \in Nat
    BY <2>1
  <2>. HIDE DEF a, b
  <2>3. v = (a * step + d * (b - a)) \div step
    BY <1>2, <2>1 DEF a, b
  <2>4. v \in Nat /\ \A m \in Nat : a <= m /\ b <= m => v <= m
    BY <1>4, <2>2, <2>3, BetweenSpeeds
  <2>5. /\ v \in Nat /\ x \in Nat /\ i \in Nat /\ ~(i >= dim) /\ i # 0
        /\ \A m \in Nat : t[i].speed <= m /\ t[i + 1].speed <= m => v <= m
    BY <1>1, <1>3, <2>1, <2>4 DEF a, b
  <2>. QED BY <2>5 DEF v, x, i
<1>8. i >= dim \/ (i < dim /\ i = 0) \/ (i < dim /\ i > 0)
  BY <1>3
<1>. QED BY <1>5, <1>6, <1>7, <1>8

(* The recommendations of a table have posts, and steps of it. *)
LEMMA RecommendationTypes ==
  ASSUME NEW s, IsSection(s), NEW t, NEW dim, NEW step, IsWorked(t, dim, step)
  PROVE  LET r == Recommendations(t, dim, step, s)
         IN  /\ Len(r) \in Nat \ {0} /\ DOMAIN r = 1..Len(r)
             /\ \A n \in DOMAIN r : r[n].post \in Int /\ r[n].index \in 0..dim
<1>. DEFINE r == Recommendations(t, dim, step, s)
            c == Cardinality(ChangeSet(t, dim))
            e == TractionEnd(t)
            changes == Counted(ChangeSet(t, dim))
<1>1. /\ c \in Nat /\ Len(r) = c + 3 /\ DOMAIN r = 1..(c + 3)
      /\ r[1].post = Post(s, (e \div 3) * step)
      /\ r[2].post = Post(s, ((2 * e) \div 3) * step)
      /\ \A n \in 1..c : r[n + 2].post = Post(s, changes[n] * step)
      /\ r[c + 3].post = Post(s, Length(s))
      /\ \A n \in DOMAIN r : r[n].index \in 0..dim
  BY RecommendationsAre
<1>2. \A x \in Int : Post(s, x) \in Int
  BY DEF Post, IsSection
<1>3. dim \in Nat /\ step \in Nat /\ ChangeSet(t, dim) \subseteq 0..dim
  BY DEF IsWorked, ChangeSet
<1>4. e \in 0..dim
  BY <1>3, TractionEndIsChange DEF IsWorked
<1>5. changes \in [1..c -> ChangeSet(t, dim)]
  BY <1>3, ChangesAre, CountedIs
<1>. HIDE DEF r, c, e, changes
<1>6. (e \div 3) * step \in Int /\ ((2 * e) \div 3) * step \in Int
  BY <1>3, <1>4
<1>7. \A n \in 1..c : changes[n] * step \in Int
  <2>. SUFFICES ASSUME NEW n \in 1..c PROVE changes[n] * step \in Int
    OBVIOUS
  <2>1. changes[n] \in Int
    BY <1>3, <1>5
  <2>. QED BY <1>3, <2>1
<1>8. \A n \in 1..(c + 3) : r[n].post \in Int
  <2>. SUFFICES ASSUME NEW n \in 1..(c + 3) PROVE r[n].post \in Int
    OBVIOUS
  <2>1. CASE n \in {1, 2, c + 3}
    <3>1. Length(s) \in Int
      BY DEF IsSection
    <3>. QED BY <1>1, <1>2, <1>6, <2>1, <3>1
  <2>2. CASE n \notin {1, 2, c + 3}
    <3>1. n - 2 \in 1..c /\ (n - 2) + 2 = n
      BY <1>1, <2>2
    <3>. QED BY <1>1, <1>2, <1>7, <3>1
  <2>. QED BY <2>1, <2>2
<1>. QED BY <1>1, <1>8 DEF r

LEMMA NextTypes ==
  ASSUME NEW s, IsSection(s), Word \in Nat, NEW t, NEW dim, NEW step, IsWorked(t, dim, step),
         \A i \in 0..dim : t[i].speed \in Nat,
         NEW post \in Int, Along(s, post) \in 0..Length(s)
  PROVE  LET next == NextRecommendation(t, Recommendations(t, dim, step, s), step, s, post)
         IN  next.distance \in 0..(Word - 1) /\ next.countdown \in Nat
<1>. DEFINE r == Recommendations(t, dim, step, s)
            next == NextRecommendation(t, r, step, s, post)
            found == Found(r, s, post)
            n == IF found = {} THEN 1 ELSE Min(found)
            left == IF s.down THEN r[n].post - post ELSE post - r[n].post
            b == Along(s, post) \div step
<1>1. /\ Len(r) \in Nat \ {0} /\ DOMAIN r = 1..Len(r)
      /\ \A k \in DOMAIN r : r[k].post \in Int /\ r[k].index \in 0..dim
  BY RecommendationTypes
<1>2. next.distance = (left % Word) /\ next.countdown = TimeByIndex(t, b, r[n].index, step)
  BY DEF NextRecommendation
<1>. HIDE DEF r, next
<1>3. found \in SUBSET Nat /\ found \subseteq 1..Len(r)
  BY <1>1 DEF Found
<1>. HIDE DEF found
<1>4. n \in 1..Len(r)
  <2>1. CASE found = {}
    BY <1>1, <2>1
  <2>2. CASE found # {}
    <3>1. Min(found) \in found
      BY <1>3, <2>2, LeastOf
    <3>2. Min(found) \in 1..Len(r)
      BY <1>3, <3>1, Zenon
    <3>. QED BY <2>2, <3>2
  <2>. QED BY <2>1, <2>2
<1>. HIDE DEF n
<1>5. left \in Int
  BY <1>1, <1>4
<1>6. Word > 0
  BY DEF IsSection
<1>7. left % Word \in 0..(Word - 1)
  <2>. HIDE DEF left
  <2>. QED BY <1>5, <1>6
<1>8. TimeByIndex(t, b, r[n].index, step) \in Nat
  <2>1. dim \in Nat /\ step \in Nat \ {0}
    BY DEF IsWorked
  <2>2. r[n].index \in 0..dim /\ r[n].index \in Nat
    BY <1>1, <1>4, <2>1
  <2>3. \A i \in 0..r[n].index : t[i].speed \in Nat
    BY <2>1, <2>2
  <2>4. b \in Nat /\ b <= b
    <3>1. Along(s, post) \in Nat
      OBVIOUS
    <3>2. b \in Nat
      BY <2>1, <3>1, Division
    <3>. HIDE DEF b
    <3>. QED BY <3>2
  <2>. HIDE DEF b
  <2>. QED BY <2>1, <2>2, <2>3, <2>4, CountdownFalls
<1>. QED BY <1>2, <1>7, <1>8 DEF next, r

-----------------------------------------------------------------------------
(* What the tables of a state have been made from: the files as they were  *)
(* written, through the text of them and its samples, the section, and     *)
(* what was computed of it since.                                          *)
MadeInv ==
  /\ pc \in {"files", "read", "tables", "ready", "bounded", "run", "divided", "stopped"}
  /\ zones \in [limits : LimitZones, slopes : SlopeZones]
  /\ pc \notin {"files", "stopped"} => csv.limits = zones.limits /\ csv.slopes = zones.slopes
  /\ pc \notin {"files", "read", "stopped"} =>
       /\ train = Own
       /\ lines = Sampled(zones.limits, zones.slopes, RadiusZones, LineLength)
  /\ pc \in {"ready", "bounded", "run", "divided"} =>
       /\ DOMAIN plan = {"train", "step", "dim", "slopes", "radii", "max", "switches"}
       /\ pieces = Pieces(lines.limit, section)
       /\ plan.train = train
       /\ plan.slopes = Slopes(lines.gradient, section)
       /\ plan.radii = Radii(lines.curve_radius, section)
  /\ pc \in {"bounded", "run"} \/ mode = 1 =>
       plan.max = SpeedLimitMax(train, pieces, plan.step, plan.dim)
  /\ pc = "run" \/ mode = 1 => table = Run(plan)

LEMMA MadeInvInit == Init => MadeInv
BY DEF Init, MadeInv

LEMMA MadeInvNext == MadeInv /\ PlanInv /\ [Next]_vars => MadeInv'
<1>. SUFFICES ASSUME MadeInv, PlanInv, [Next]_vars PROVE MadeInv'
  OBVIOUS
<1>0. mode # 0 <=> pc = "divided"
  BY DEF PlanInv
<1>1. CASE ReadFiles
  <2>1. zones \in [limits : LimitZones, slopes : SlopeZones]
    BY DEF MadeInv
  <2>2. csv'.limits = zones.limits /\ csv'.slopes = zones.slopes
    BY <1>1, <2>1, FilesAreRead DEF ReadFiles
  <2>3. pc = "files" /\ pc' = "read" /\ zones' = zones /\ mode' = mode
    BY <1>1 DEF ReadFiles
  <2>. QED BY <1>0, <2>1, <2>2, <2>3 DEF MadeInv
<1>2. CASE FileMissing
  BY <1>0, <1>2 DEF MadeInv, FileMissing
<1>3. CASE SampleLine
  <2>1. /\ zones \in [limits : LimitZones, slopes : SlopeZones]
        /\ csv.limits = zones.limits /\ csv.slopes = zones.slopes
    BY <1>3 DEF MadeInv, SampleLine
  <2>2. /\ train' = Own /\ lines' = Sampled(zones.limits, zones.slopes, RadiusZones, LineLength)
        /\ pc = "read" /\ pc' = "tables" /\ UNCHANGED <<zones, csv, mode>>
    BY <1>3, <2>1 DEF SampleLine, Own
  <2>. QED BY <1>0, <2>1, <2>2 DEF MadeInv
<1>4. CASE BaseData
  <2>1. /\ DOMAIN plan' = {"train", "step", "dim", "slopes", "radii", "max", "switches"}
        /\ pieces' = Pieces(lines.limit, section)
        /\ plan'.train = train
        /\ plan'.slopes = Slopes(lines.gradient, section)
        /\ plan'.radii = Radii(lines.curve_radius, section)
        /\ pc = "tables" /\ pc' = "ready"
        /\ UNCHANGED <<zones, csv, train, lines, section, table, mode>>
    BY <1>4 DEF BaseData
  <2>. QED BY <1>0, <2>1 DEF MadeInv
<1>5. CASE Model
  <2>1. /\ DOMAIN plan = {"train", "step", "dim", "slopes", "radii", "max", "switches"}
        /\ pc = "ready" /\ pc' = "bounded"
        /\ plan' = [plan EXCEPT !.max = SpeedLimitMax(train, pieces, plan.step, plan.dim)]
        /\ UNCHANGED <<zones, csv, train, lines, section, pieces, mode>>
    BY <1>5 DEF MadeInv, Model
  <2>2. /\ DOMAIN plan' = DOMAIN plan
        /\ plan'.train = plan.train /\ plan'.step = plan.step /\ plan'.dim = plan.dim
        /\ plan'.slopes = plan.slopes /\ plan'.radii = plan.radii
        /\ plan'.max = SpeedLimitMax(train, pieces, plan.step, plan.dim)
    BY <2>1
  <2>. QED BY <1>0, <2>1, <2>2 DEF MadeInv
<1>6. CASE Solve
  <2>1. /\ DOMAIN plan = {"train", "step", "dim", "slopes", "radii", "max", "switches"}
        /\ pc = "bounded" /\ pc' = "run"
        /\ \E w : plan' = [plan EXCEPT !.switches = w]
        /\ table' = Run(plan')
        /\ UNCHANGED <<zones, csv, train, lines, section, pieces, mode>>
    BY <1>6 DEF MadeInv, Solve
  <2>2. /\ DOMAIN plan' = DOMAIN plan
        /\ plan'.train = plan.train /\ plan'.step = plan.step /\ plan'.dim = plan.dim
        /\ plan'.slopes = plan.slopes /\ plan'.radii = plan.radii /\ plan'.max = plan.max
    BY <2>1
  <2>. QED BY <1>0, <2>1, <2>2 DEF MadeInv
<1>7. CASE Divide
  BY <1>7 DEF MadeInv, Divide
<1>8. CASE DivideStored
  <2>1. /\ DOMAIN plan = {"train", "step", "dim", "slopes", "radii", "max", "switches"}
        /\ pc = "run" /\ pc' = "divided" /\ mode' = 2
        /\ \E n : plan' = [plan EXCEPT !.dim = n]
        /\ UNCHANGED <<zones, csv, train, lines, section, pieces>>
    BY <1>8 DEF MadeInv, DivideStored
  <2>2. /\ DOMAIN plan' = DOMAIN plan
        /\ plan'.train = plan.train /\ plan'.slopes = plan.slopes /\ plan'.radii = plan.radii
    BY <2>1
  <2>. QED BY <2>1, <2>2 DEF MadeInv
<1>9. CASE Report
  BY <1>9 DEF MadeInv, Report
<1>10. CASE UNCHANGED vars
  BY <1>10 DEF MadeInv, vars
<1>. QED BY <1>1, <1>2, <1>3, <1>4, <1>5, <1>6, <1>7, <1>8, <1>9, <1>10 DEF Next

LEMMA MadeInvariance == Spec => []MadeInv
BY PlanInvariance, MadeInvInit, MadeInvNext, PTL DEF Spec

(* The plan of a section that is run is cut as the line is, and runnable.  *)
LEMMA RunnableNow ==
  ASSUME MadeInv, PlanInv, pc \in {"bounded", "run"} \/ mode = 1
  PROVE  /\ LimitZones # {} /\ section \in Sections /\ train = Own
         /\ IsLimits(lines.limit) /\ pieces = Pieces(lines.limit, section)
         /\ IsCut(section, pieces, plan.step, plan.dim)
         /\ IsRunnable(plan, section)
         /\ plan.max = SpeedLimitMax(Own, pieces, plan.step, plan.dim)
<1>1. /\ pc \in {"bounded", "run", "divided"}
      /\ section \in Sections
      /\ plan.step = StepSize(Length(section)) /\ plan.dim = LastStep(Length(section), plan.step)
  BY DEF PlanInv
<1>2. /\ zones \in [limits : LimitZones, slopes : SlopeZones]
      /\ train = Own /\ lines = Sampled(zones.limits, zones.slopes, RadiusZones, LineLength)
      /\ pieces = Pieces(lines.limit, section)
      /\ plan.train = train
      /\ plan.slopes = Slopes(lines.gradient, section)
      /\ plan.radii = Radii(lines.curve_radius, section)
      /\ plan.max = SpeedLimitMax(train, pieces, plan.step, plan.dim)
  BY <1>1 DEF MadeInv
<1>3. zones.limits \in LimitZones /\ zones.slopes \in SlopeZones
  BY <1>2
<1>4. /\ lines.limit = [i \in Samples(LineLength) |-> SpeedLimit(zones.limits, i * Sample)]
      /\ lines.gradient = [i \in Samples(LineLength) |-> EquivalentGradient(zones.slopes, i * Sample)]
      /\ lines.curve_radius = [i \in Samples(LineLength) |-> CurveRadius(RadiusZones, i * Sample)]
  BY <1>2 DEF Sampled
<1>5. IsLimits(lines.limit)
  BY <1>3, <1>4, LimitsAre
<1>6. IsPieces(section, pieces)
  <2>. DEFINE t == lines.limit
  <2>1. IsLimits(t) /\ pieces = Pieces(t, section)
    BY <1>2, <1>5
  <2>. HIDE DEF t
  <2>2. IsPieces(section, Pieces(t, section))
    BY <1>1, <1>3, <2>1, PiecesAre
  <2>. QED BY <2>1, <2>2
<1>7. IsCut(section, pieces, plan.step, plan.dim)
  <2>1. plan.step \in Nat \ {0}
    BY <1>1, StepSizeType
  <2>2. Length(section) \in Nat \ {0}
    BY <1>1, SectionsAre DEF IsSection
  <2>. DEFINE step == plan.step
              dim == plan.dim
  <2>3. step \in Nat \ {0} /\ dim = LastStep(Length(section), step)
    BY <1>1, <2>1
  <2>. HIDE DEF step, dim
  <2>4. dim \in Nat /\ dim * step < Length(section)
    BY <2>2, <2>3, StepsFit
  <2>. QED BY <1>1, <1>3, <1>6, <2>2, <2>3, <2>4 DEF IsCut, step, dim
<1>8. IsTaking(lines.gradient, lines.curve_radius, zones.slopes)
  BY <1>3, <1>4 DEF IsTaking
<1>9. \A i \in 0..plan.dim : plan.max[i] \in Allowed
  <2>. DEFINE step == plan.step
              dim == plan.dim
              max == plan.max
  <2>1. IsCut(section, pieces, step, dim) /\ max = SpeedLimitMax(Own, pieces, step, dim)
    BY <1>2, <1>7
  <2>. HIDE DEF step, dim, max
  <2>2. \A i \in 0..dim : SpeedLimitMax(Own, pieces, step, dim)[i] \in Allowed
    BY <2>1, BoundIs
  <2>3. \A i \in 0..dim : max[i] \in Allowed
    BY <2>1, <2>2
  <2>. QED BY <2>3 DEF dim, max
<1>10. IsRunnable(plan, section)
  <2>1. LimitZones # {}
    BY <1>3
  <2>2. \E g, r, y : IsTaking(g, r, y) /\ plan.slopes = Slopes(g, section) /\ plan.radii = Radii(r, section)
    BY <1>2, <1>8, Zenon
  <2>. QED BY <1>1, <1>2, <1>9, <2>1, <2>2 DEF IsRunnable
<1>. QED BY <1>1, <1>2, <1>3, <1>5, <1>7, <1>10

(* Every table, found or stored, holds numbers. *)
LEMMA TablesTyped ==
  ASSUME MadeInv, PlanInv, pc \in {"run", "divided"}
  PROVE  /\ DOMAIN table = 0..plan.dim
         /\ \A i \in 0..plan.dim : /\ table[i].speed \in Nat
                                   /\ table[i].flag \in Flags
                                   /\ table[i].value \in Nat
<1>1. CASE pc = "run" \/ mode = 1
  <2>1. IsRunnable(plan, section)
    BY <1>1, RunnableNow
  <2>2. table = Run(plan)
    BY <1>1 DEF MadeInv
  <2>. QED BY <2>1, <2>2, RunIs
<1>2. CASE mode = 2
  <2>1. /\ section \in Sections /\ table = StoredTable(Stored(section), section)
        /\ plan.dim = Cardinality(DOMAIN table) - 1
    BY <1>2 DEF PlanInv
  <2>. QED BY <2>1, StoredTableIs
<1>. QED BY <1>1, <1>2 DEF PlanInv

(* What has been sent is numbers. *)
SentTyped ==
  told # <<>> =>
    /\ told.app.countdown \in Nat
    /\ told.app.distance \in 0..(Word - 1)
    /\ told.signal.speed \in Nat

LEMMA SentTypedNext ==
  MadeInv /\ PlanInv /\ SentTyped /\ [Next]_vars => SentTyped'
<1>. SUFFICES ASSUME MadeInv, PlanInv, SentTyped, [Next]_vars PROVE SentTyped'
  OBVIOUS
<1>1. CASE Report
  <2>1. pc = "divided"
    BY <1>1 DEF Report
  <2>2. /\ IsSection(section) /\ Word \in Nat /\ plan.dim \in Nat /\ plan.step \in Nat \ {0}
        /\ IsWorked(table, plan.dim, plan.step)
        /\ recs = Recommendations(table, plan.dim, plan.step, section)
    BY <2>1, DividedIs
  <2>3. \A i \in 0..plan.dim : table[i].speed \in Nat
    BY <2>1, TablesTyped
  <2>4. PICK post \in TrainPosts, any \in AnySpeed :
          LET inside == Along(section, post) \in 0..Length(section)
              last == IF told = <<>> THEN NoAdvice ELSE told.app
              next == IF inside THEN NextRecommendation(table, recs, plan.step, section, post) ELSE last
          IN  told' = [post |-> post,
                       app |-> PeriodMsgToAPP(last, next, any, inside),
                       signal |-> TargetSpeed(table, plan.dim, plan.step, section, post)]
    BY <1>1 DEF Report
  <2>. DEFINE inside == Along(section, post) \in 0..Length(section)
              last == IF told = <<>> THEN NoAdvice ELSE told.app
              next == IF inside THEN NextRecommendation(table, recs, plan.step, section, post) ELSE last
              target == TargetSpeed(table, plan.dim, plan.step, section, post)
  <2>5. /\ told'.app.distance = IF inside THEN next.distance ELSE last.distance
        /\ told'.app.countdown = IF inside THEN next.countdown ELSE last.countdown
        /\ told'.signal = target
    BY <2>4 DEF PeriodMsgToAPP
  <2>6. post \in Int
    BY PlanAssumption
  <2>7. last.distance \in 0..(Word - 1) /\ last.countdown \in Nat
    <3>1. CASE told = <<>>
      <4>1. Word > 0
        BY <2>2 DEF IsSection
      <4>. QED BY <2>2, <3>1, <4>1 DEF NoAdvice
    <3>2. CASE told # <<>>
      BY <3>2 DEF SentTyped
    <3>. QED BY <3>1, <3>2
  <2>8. ASSUME inside PROVE next.distance \in 0..(Word - 1) /\ next.countdown \in Nat
    <3>. DEFINE n == NextRecommendation(table, recs, plan.step, section, post)
    <3>1. n.distance \in 0..(Word - 1) /\ n.countdown \in Nat
      BY <2>2, <2>3, <2>6, <2>8, NextTypes
    <3>2. next = n
      BY <2>8
    <3>. HIDE DEF n, next
    <3>. QED BY <3>1, <3>2
  <2>9. target.speed \in Nat
    BY <2>2, <2>3, <2>6, TargetIs
  <2>. HIDE DEF inside, last, next, target
  <2>. QED BY <2>5, <2>7, <2>8, <2>9 DEF SentTyped
<1>2. CASE UNCHANGED vars
  BY <1>2 DEF SentTyped, vars
<1>3. CASE ~Report /\ ~UNCHANGED vars
  <2>1. told' = told
    BY <1>3 DEF Next, ReadFiles, FileMissing, SampleLine, BaseData, Model, Solve, Divide, DivideStored
  <2>. QED BY <2>1 DEF SentTyped
<1>. QED BY <1>1, <1>2, <1>3

LEMMA SentInvariance == Spec => []SentTyped
<1>1. Init => SentTyped
  BY DEF Init, SentTyped
<1>. QED BY <1>1, MadeInvariance, PlanInvariance, SentTypedNext, PTL DEF Spec

(* Every table and every message of every line holds numbers: no speed,    *)
(* level, time or distance is less than nothing, from the text of the      *)
(* files to what is sent.                                                  *)
THEOREM TypeCorrect == Spec => []TypeOK
<1>1. MadeInv /\ PlanInv /\ SentTyped => TypeOK
  <2>. SUFFICES ASSUME MadeInv, PlanInv, SentTyped PROVE TypeOK
    OBVIOUS
  <2>1. /\ pc \in {"files", "read", "tables", "ready", "bounded", "run", "divided", "stopped"}
        /\ mode \in 0..2
    BY DEF MadeInv, PlanInv
  <2>2. pc \notin {"files", "read", "stopped"} => \A i \in Samples(LineLength) : lines.limit[i] \in Nat
    <3>. SUFFICES ASSUME pc \notin {"files", "read", "stopped"}
                  PROVE  \A i \in Samples(LineLength) : lines.limit[i] \in Nat
      OBVIOUS
    <3>1. /\ zones.limits \in LimitZones
          /\ lines = Sampled(zones.limits, zones.slopes, RadiusZones, LineLength)
      BY DEF MadeInv
    <3>2. lines.limit = [i \in Samples(LineLength) |-> SpeedLimit(zones.limits, i * Sample)]
      BY <3>1 DEF Sampled
    <3>3. IsLimits(lines.limit)
      BY <3>1, <3>2, LimitsAre
    <3>. QED BY <3>3 DEF IsLimits
  <2>3. pc \in {"run", "divided"} =>
          /\ DOMAIN table = 0..plan.dim
          /\ \A i \in 0..plan.dim : /\ table[i].speed \in Nat
                                    /\ table[i].flag \in Flags
                                    /\ table[i].value \in Nat
    BY TablesTyped
  <2>. QED BY <2>1, <2>2, <2>3 DEF TypeOK, SentTyped
<1>. QED BY <1>1, MadeInvariance, PlanInvariance, SentInvariance, PTL

-----------------------------------------------------------------------------
(* From one place to a later one, what comes next does not move back, and  *)
(* the same is not further away in time.                                   *)
LEMMA NextAdvances ==
  ASSUME NEW s, IsSection(s), Word \in Nat, NEW t, NEW dim, NEW step,
         IsTable(t, dim, step, s), \A i \in 0..dim : t[i].speed \in Nat,
         NEW x \in 0..(Length(s) - 1), NEW y \in 0..(Length(s) - 1), x <= y
  PROVE  LET r == Recommendations(t, dim, step, s)
             first == NextRecommendation(t, r, step, s, Post(s, x))
             then == NextRecommendation(t, r, step, s, Post(s, y))
         IN  /\ x + first.distance <= y + then.distance
             /\ x + first.distance = y + then.distance => then.countdown <= first.countdown
<1>. DEFINE r == Recommendations(t, dim, step, s)
            first == NextRecommendation(t, r, step, s, Post(s, x))
            then == NextRecommendation(t, r, step, s, Post(s, y))
            way(n) == Along(s, r[n].post)
            ahead(z) == {n \in DOMAIN r : way(n) > z}
<1>1. dim \in Nat /\ step \in Nat \ {0} /\ Length(s) \in Nat \ {0} /\ x \in Int /\ y \in Int
  BY DEF IsTable, IsWorked, IsSection
<1>2. InOrderOf(s, r)
  BY RecommendationsInOrder
<1>3. Along(s, Post(s, x)) = x /\ Along(s, Post(s, y)) = y
  BY <1>1, PostIsAlong
<1>4. /\ DOMAIN r = 1..Len(r) /\ Len(r) \in Nat
      /\ \A n \in DOMAIN r : way(n) \in Int /\ r[n].index \in 0..dim
      /\ \A m, n \in DOMAIN r : m < n => way(m) <= way(n)
  <2>1. \A n \in DOMAIN r : way(n) \in Int
    <3>. SUFFICES ASSUME NEW n \in DOMAIN r PROVE way(n) \in Int
      OBVIOUS
    <3>1. PICK z \in 0..Length(s) : r[n].post = Post(s, z)
      BY <1>2 DEF InOrderOf
    <3>. QED BY <3>1, PostIsAlong
  <2>2. \A n \in DOMAIN r : r[n].index \in 0..dim
    BY RecommendationsAre DEF IsTable
  <2>. HIDE DEF r
  <2>. QED BY <1>2, <2>1, <2>2 DEF InOrderOf
<1>5. ASSUME NEW z \in 0..(Length(s) - 1), Along(s, Post(s, z)) = z
      PROVE  LET next == NextRecommendation(t, r, step, s, Post(s, z))
             IN  \E n \in ahead(z) :
                   /\ \A m \in ahead(z) : n <= m
                   /\ next.distance = way(n) - z
                   /\ next.countdown = TimeByIndex(t, z \div step, r[n].index, step)
  <2>1. LET post == Post(s, z)
            next == NextRecommendation(t, r, step, s, post)
            all == {n \in DOMAIN r : Along(s, r[n].post) > Along(s, post)}
        IN  /\ next.distance \in 1..Length(s)
            /\ \E n \in all :
                 /\ \A m \in all : n <= m
                 /\ next.distance = Along(s, r[n].post) - Along(s, post)
                 /\ next.speed = r[n].speed /\ next.work = r[n].work
                 /\ next.countdown = TimeByIndex(t, Along(s, post) \div step, r[n].index, step)
    <3>. HIDE DEF r
    <3>. QED BY <1>2, NextIsAhead
  <2>. HIDE DEF r
  <2>. QED BY <1>5, <2>1
<1>. HIDE DEF r
<1>6. PICK k \in ahead(x) : /\ \A m \in ahead(x) : k <= m
                            /\ first.distance = way(k) - x
                            /\ first.countdown = TimeByIndex(t, x \div step, r[k].index, step)
  BY <1>3, <1>5
<1>7. PICK l \in ahead(y) : /\ \A m \in ahead(y) : l <= m
                            /\ then.distance = way(l) - y
                            /\ then.countdown = TimeByIndex(t, y \div step, r[l].index, step)
  BY <1>3, <1>5
<1>. HIDE DEF first, then, way
<1>8. way(k) \in Int /\ way(l) \in Int /\ k \in Nat /\ l \in Nat
  BY <1>4
<1>9. k <= l /\ way(k) <= way(l)
  <2>1. l \in ahead(x)
    BY <1>1, <1>8
  <2>2. k <= l
    BY <1>6, <2>1
  <2>3. k = l \/ k < l
    BY <1>8, <2>2
  <2>. QED BY <1>4, <1>8, <2>2, <2>3
<1>10. ASSUME way(k) = way(l)
       PROVE  then.countdown <= first.countdown
  <2>1. k \in ahead(y)
    BY <1>10
  <2>2. k = l
    BY <1>7, <1>8, <1>9, <2>1
  <2>3. r[k].index \in 0..dim /\ r[k].index \in Nat /\ \A i \in 0..r[k].index : t[i].speed \in Nat
    <3>1. r[k].index \in 0..dim
      BY <1>4
    <3>2. 0..r[k].index \subseteq 0..dim
      BY <1>1, <3>1
    <3>. QED BY <1>1, <3>1, <3>2
  <2>4. x \div step \in Nat /\ y \div step \in Nat /\ x \div step <= y \div step
    <3>. DEFINE p == x \div step
                q == y \div step
    <3>1. /\ p \in Nat /\ p * step <= x /\ x < p * step + step
          /\ q \in Nat /\ q * step <= y /\ y < q * step + step
      BY <1>1, Division
    <3>. HIDE DEF p, q
    <3>2. ASSUME q < p PROVE FALSE
      <4>1. q + 1 <= p /\ q + 1 \in Nat
        BY <3>1, <3>2
      <4>2. (q + 1) * step <= p * step
        BY <1>1, <3>1, <4>1, StepsMonotone
      <4>3. (q + 1) * step = q * step + step /\ q * step \in Nat /\ p * step \in Nat
        BY <1>1, <3>1
      <4>. QED BY <1>1, <3>1, <4>2, <4>3
    <3>3. p <= q
      BY <3>1, <3>2
    <3>. QED BY <3>1, <3>3 DEF p, q
  <2>5. TimeByIndex(t, y \div step, r[k].index, step) <= TimeByIndex(t, x \div step, r[k].index, step)
    BY <1>1, <2>3, <2>4, CountdownFalls
  <2>. QED BY <1>6, <1>7, <2>2, <2>5
<1>11. x + first.distance = way(k) /\ y + then.distance = way(l)
  BY <1>1, <1>6, <1>7, <1>8
<1>. QED BY <1>8, <1>9, <1>10, <1>11 DEF first, then, r

(* What was told last is what comes next where the train was then.         *)
ToldInv ==
  told # <<>> =>
    /\ pc = "divided" /\ told.post \in TrainPosts
    /\ Along(section, told.post) \in 0..Length(section) =>
         LET next == NextRecommendation(table, recs, plan.step, section, told.post)
         IN  told.app.distance = next.distance /\ told.app.countdown = next.countdown

LEMMA ToldInvInit == Init => ToldInv
BY DEF Init, ToldInv

(* What a message 204 says of the next recommendation. *)
LEMMA ReportTells ==
  ASSUME Report
  PROVE  /\ told'.post \in TrainPosts
         /\ told # <<>> => Along(section, told'.post) > Along(section, told.post)
         /\ Along(section, told'.post) \in 0..Length(section) =>
              LET next == NextRecommendation(table, recs, plan.step, section, told'.post)
              IN  told'.app.distance = next.distance /\ told'.app.countdown = next.countdown
<1>1. PICK post \in TrainPosts, any \in AnySpeed :
        LET inside == Along(section, post) \in 0..Length(section)
            last == IF told = <<>> THEN NoAdvice ELSE told.app
            next == IF inside THEN NextRecommendation(table, recs, plan.step, section, post) ELSE last
        IN  /\ told # <<>> => Along(section, post) > Along(section, told.post)
            /\ told' = [post |-> post,
                        app |-> PeriodMsgToAPP(last, next, any, inside),
                        signal |-> TargetSpeed(table, plan.dim, plan.step, section, post)]
  BY DEF Report
<1>2. /\ told'.post = post
      /\ told # <<>> => Along(section, post) > Along(section, told.post)
  BY <1>1
<1>3. ASSUME Along(section, post) \in 0..Length(section)
      PROVE  LET next == NextRecommendation(table, recs, plan.step, section, post)
             IN  told'.app.distance = next.distance /\ told'.app.countdown = next.countdown
  BY <1>1, <1>3 DEF PeriodMsgToAPP
<1>. QED BY <1>2, <1>3

LEMMA ToldInvNext == ToldInv /\ PlanInv /\ [Next]_vars => ToldInv'
<1>. SUFFICES ASSUME ToldInv, PlanInv, [Next]_vars PROVE ToldInv'
  OBVIOUS
<1>1. CASE Report
  <2>1. UNCHANGED <<pc, section, table, recs, plan>> /\ pc = "divided"
    BY <1>1 DEF Report
  <2>. QED BY <1>1, <2>1, ReportTells DEF ToldInv
<1>2. CASE UNCHANGED vars
  BY <1>2 DEF ToldInv, vars
<1>3. CASE ~Report /\ ~UNCHANGED vars
  <2>1. pc # "divided" /\ told' = told
    BY <1>3 DEF Next, ReadFiles, FileMissing, SampleLine, BaseData, Model, Solve, Divide, DivideStored
  <2>. QED BY <2>1 DEF ToldInv
<1>. QED BY <1>1, <1>2, <1>3

(* From one message 204 to the next, what the driver is told to come does  *)
(* not move back and, while it stays the same, is not said to be further   *)
(* away in time.                                                           *)
THEOREM NeverBack == Spec => AdviceAdvances
<1>. DEFINE Inside(m) == Along(section, m.post) \in 0..(Length(section) - 1)
            Outlook(m) == Along(section, m.post) + m.app.distance
            Advances == told # <<>> /\ Stepped /\ Inside(told) /\ Inside(told') =>
                          /\ Outlook(told) <= Outlook(told')
                          /\ Outlook(told) = Outlook(told') =>
                               told'.app.countdown <= told.app.countdown
<1>1. PlanInv /\ ToldInv /\ TypeOK /\ [Next]_vars => [Advances]_told
  <2>. SUFFICES ASSUME PlanInv, ToldInv, TypeOK, [Next]_vars, told' # told,
                       told # <<>>, Stepped, Inside(told), Inside(told')
                PROVE  /\ Outlook(told) <= Outlook(told')
                       /\ Outlook(told) = Outlook(told') =>
                            told'.app.countdown <= told.app.countdown
    OBVIOUS
  <2>1. Report
    BY DEF Next, vars, ReadFiles, FileMissing, SampleLine, BaseData, Model, Solve, Divide, DivideStored
  <2>2. /\ IsSection(section) /\ Word \in Nat /\ pc = "divided"
        /\ IsTable(table, plan.dim, plan.step, section)
        /\ recs = Recommendations(table, plan.dim, plan.step, section)
    BY <2>1, DividedIs DEF Report, Stepped
  <2>. DEFINE x == Along(section, told.post)
              y == Along(section, told'.post)
  <2>3. told.post \in Int /\ told'.post \in Int
    BY <2>1, ReportTells, PlanAssumption DEF ToldInv
  <2>4. told.post = Post(section, x) /\ told'.post = Post(section, y)
    BY <2>2, <2>3 DEF IsSection, Along, Post
  <2>5. x \in 0..(Length(section) - 1) /\ y \in 0..(Length(section) - 1) /\ x <= y
    <3>1. y > x
      BY <2>1, ReportTells
    <3>. QED BY <2>2, <3>1 DEF IsSection
  <2>6. x \in 0..Length(section) /\ y \in 0..Length(section)
    BY <2>2, <2>5 DEF IsSection
  <2>. HIDE DEF x, y
  <2>7. LET first == NextRecommendation(table, recs, plan.step, section, Post(section, x))
        IN  told.app.distance = first.distance /\ told.app.countdown = first.countdown
    BY <2>4, <2>6 DEF ToldInv, x
  <2>8. LET then == NextRecommendation(table, recs, plan.step, section, Post(section, y))
        IN  told'.app.distance = then.distance /\ told'.app.countdown = then.countdown
    BY <2>1, <2>4, <2>6, ReportTells DEF y
  <2>9. \A i \in 0..plan.dim : table[i].speed \in Nat
    BY <2>2 DEF TypeOK
  <2>10. LET first == NextRecommendation(table, recs, plan.step, section, Post(section, x))
             then == NextRecommendation(table, recs, plan.step, section, Post(section, y))
         IN  /\ x + first.distance <= y + then.distance
             /\ x + first.distance = y + then.distance => then.countdown <= first.countdown
    BY <2>2, <2>5, <2>9, NextAdvances
  <2>. QED BY <2>7, <2>8, <2>10 DEF x, y
<1>2. Advances <=> (LET In(m) == Along(section, m.post) \in 0..(Length(section) - 1)
                        Look(m) == Along(section, m.post) + m.app.distance
                    IN  told # <<>> /\ Stepped /\ In(told) /\ In(told') =>
                          /\ Look(told) <= Look(told')
                          /\ Look(told) = Look(told') => told'.app.countdown <= told.app.countdown)
  OBVIOUS
<1>3. Spec => []ToldInv
  BY PlanInvariance, ToldInvInit, ToldInvNext, PTL DEF Spec
<1>. HIDE DEF Advances
<1>. QED BY <1>1, <1>2, <1>3, PlanInvariance, TypeCorrect, PTL DEF Spec, AdviceAdvances

-----------------------------------------------------------------------------
(* The bound and the line. *)

(* Between two changes the limit is the same. *)
LEMMA SameBetween ==
  ASSUME NEW s \in Sections, NEW t, IsLimits(t),
         NEW b \in 1..Len(Passed(t, s)), NEW e \in b..Len(Passed(t, s)),
         \A k \in (b + 1)..e : k \notin ChangesAt(t, s)
  PROVE  \A k \in b..e : t[Passed(t, s)[k]] = t[Passed(t, s)[e]]
<1>. DEFINE p == Passed(t, s)
            c == Len(p)
            U == {k \in b..e : t[p[k]] = t[p[e]]}
<1>1. IsPassing(s, p)
  BY PassedAre DEF IsLimits
<1>2. \A k \in (b + 1)..e : k \notin ChangesAt(t, s)
  OBVIOUS
<1>3. b \in 1..c /\ e \in b..c
  OBVIOUS
<1>4. \A k \in DOMAIN p : k \notin ChangesAt(t, s) => t[p[k]] = LimitBefore(t, s, k)
  BY DEF ChangesAt
<1>5. \A k \in Int : k # 1 =>
        LimitBefore(t, s, k) = IF p[k - 1] \in DOMAIN t THEN t[p[k - 1]] ELSE 0
  BY DEF LimitBefore
<1>. HIDE DEF p, c
<1>6. /\ c \in Nat \ {0} /\ DOMAIN p = 1..c
      /\ \A n \in 1..c : p[n] \in DOMAIN t
  BY <1>1 DEF IsPassing, IsLimits, c
<1>7. b \in Nat /\ e \in Nat /\ b <= e /\ e <= c /\ 1 <= b
  BY <1>3, <1>6
<1>8. e \in U
  BY <1>7
<1>9. ASSUME NEW k \in b..(e - 1), k + 1 \in U PROVE k \in U
  <2>1. k + 1 \in (b + 1)..e /\ k + 1 # 1 /\ (k + 1) - 1 = k /\ k \in 1..c /\ k + 1 \in 1..c /\ k \in b..e
    BY <1>6, <1>7
  <2>2. t[p[k + 1]] = LimitBefore(t, s, k + 1)
    BY <1>2, <1>4, <1>6, <2>1
  <2>3. LimitBefore(t, s, k + 1) = t[p[k]]
    BY <1>5, <1>6, <2>1
  <2>4. t[p[k + 1]] = t[p[e]]
    BY <1>9
  <2>. QED BY <2>1, <2>2, <2>3, <2>4
<1>10. \A k \in b..(e - 1) : k + 1 \in U => k \in U
  BY <1>9
<1>11. \A k \in b..e : k \in U
  <2>. HIDE DEF U
  <2>1. b \in Int /\ e \in Int
    BY <1>7
  <2>. QED BY <1>7, <1>8, <1>10, <2>1, DownFrom
<1>. QED BY <1>11 DEF p

(* One of the samples passed lies around every position between two of     *)
(* them.                                                                   *)
LEMMA SampleNear ==
  ASSUME NEW s, NEW p, IsPassing(s, p), IsSection(s),
         NEW b \in 1..Len(p), NEW e \in b..Len(p), NEW q \in Nat,
         Along(s, p[b] * Sample) <= q + Sample, q < Along(s, p[e] * Sample) + 2 * Sample
  PROVE  \E k \in b..e : Along(s, p[k] * Sample) \in (q - 2 * Sample)..(q + Sample)
<1>. DEFINE A(k) == Along(s, p[k] * Sample)
            c == Len(p)
            d == q - A(b)
<1>1. Sample \in Nat \ {0}
  BY LineAssumption
<1>2. c \in Nat \ {0} /\ \A n \in 1..c : A(n) \in Nat /\ A(n) = A(1) + (n - 1) * Sample
  <2>1. Length(s) \in Nat
    BY DEF IsSection
  <2>. QED BY <2>1 DEF IsPassing
<1>3. b \in 1..c /\ e \in b..c /\ A(b) <= q + Sample /\ q < A(e) + 2 * Sample
  OBVIOUS
<1>. HIDE DEF A, c
<1>4. b \in Nat /\ e \in Nat /\ 1 <= b /\ b <= e /\ e <= c /\ e \in 1..c /\ 1 \in 1..c
  BY <1>2, <1>3
<1>5. A(b) \in Nat /\ A(e) \in Nat
  BY <1>2, <1>4
<1>6. CASE q <= A(b)
  BY <1>1, <1>3, <1>4, <1>5, <1>6 DEF A
<1>7. CASE A(e) <= q
  BY <1>1, <1>3, <1>4, <1>5, <1>7 DEF A
<1>8. CASE A(b) < q /\ q < A(e)
  <2>. DEFINE j == d \div Sample
              k == b + j
  <2>1. d \in Nat
    BY <1>5, <1>8
  <2>2. j \in Nat /\ j * Sample <= d /\ d < j * Sample + Sample
    <3>. HIDE DEF d
    <3>. QED BY <1>1, <2>1, Division
  <2>. HIDE DEF j
  <2>3. A(e) = A(b) + (e - b) * Sample
    <3>1. (e - 1) * Sample = (b - 1) * Sample + (e - b) * Sample
      BY <1>1, <1>4
    <3>2. (e - 1) * Sample \in Int /\ (b - 1) * Sample \in Int /\ (e - b) * Sample \in Int
      BY <1>1, <1>4
    <3>3. A(1) \in Nat /\ A(e) = A(1) + (e - 1) * Sample /\ A(b) = A(1) + (b - 1) * Sample
      BY <1>2, <1>3, <1>4
    <3>. QED BY <3>1, <3>2, <3>3
  <2>4. j * Sample \in Nat /\ (e - b) * Sample \in Int /\ e - b \in Int
    BY <1>1, <1>4, <2>2
  <2>5. ~(e - b < j)
    <3>1. e - b < j => (e - b) * Sample + Sample <= j * Sample
      BY <1>1, <2>2, <2>4, ProductsOrder
    <3>. QED BY <1>1, <1>5, <1>8, <2>2, <2>3, <2>4, <3>1
  <2>6. k \in b..e /\ k \in 1..c
    BY <1>2, <1>4, <2>2, <2>5
  <2>7. A(k) = A(b) + j * Sample
    <3>1. (k - 1) * Sample = (b - 1) * Sample + j * Sample
      BY <1>1, <1>4, <2>2
    <3>2. (b - 1) * Sample \in Int
      BY <1>1, <1>4
    <3>3. A(1) \in Nat /\ A(k) = A(1) + (k - 1) * Sample /\ A(b) = A(1) + (b - 1) * Sample
      BY <1>2, <1>3, <1>4, <2>6
    <3>. HIDE DEF k
    <3>. QED BY <2>4, <3>1, <3>2, <3>3
  <2>8. A(k) \in (q - 2 * Sample)..(q + Sample)
    <3>. HIDE DEF k
    <3>. QED BY <1>1, <1>5, <2>2, <2>4, <2>7
  <2>. HIDE DEF k
  <2>. QED BY <2>6, <2>8 DEF A
<1>. QED BY <1>5, <1>6, <1>7, <1>8

(* A piece ends within a sample of the first one with another limit.       *)
LEMMA EndsAre ==
  ASSUME NEW s \in Sections, NEW t, IsLimits(t), t[0] = t[1], NEW k \in ChangesAt(t, s)
  PROVE  LET e == PieceEnd(s, Passed(t, s)[k])
             a == Along(s, Passed(t, s)[k] * Sample)
         IN  /\ e \in Nat /\ a \in Nat
             /\ e = IF ~s.down THEN a + Sample ELSE IF a < Sample THEN 0 ELSE a - Sample
<1>. DEFINE p == Passed(t, s)
            c == Len(p)
            i == p[k]
            a == Along(s, i * Sample)
            e == PieceEnd(s, i)
<1>1. IsPassing(s, p)
  BY PassedAre DEF IsLimits
<1>2. k \in DOMAIN p /\ t[p[k]] # LimitBefore(t, s, k)
  BY DEF ChangesAt
<1>3. k # 1 => LimitBefore(t, s, k) = IF p[k - 1] \in DOMAIN t THEN t[p[k - 1]] ELSE 0
  BY DEF LimitBefore
<1>. HIDE DEF p, c
<1>4. c \in Nat \ {0} /\ k \in 1..c /\ k \in Nat
  BY <1>1, <1>2 DEF IsPassing, c
<1>5. Sample \in Nat \ {0} /\ s.begin \in Nat /\ s.end \in Nat /\ Length(s) \in Nat
  BY LineAssumption, SectionsAre DEF IsSection
<1>6. i \in Samples(LineLength) /\ a \in 0..Length(s) /\ i \in Nat
  <2>1. Samples(LineLength) \subseteq Nat
    BY DEF Samples
  <2>. QED BY <1>1, <1>4, <2>1 DEF IsPassing, c
<1>7. (i - 1) * Sample = i * Sample - Sample /\ i * Sample \in Nat
  BY <1>5, <1>6
<1>8. a = IF s.down THEN i * Sample - s.begin ELSE s.begin - i * Sample
  BY DEF Along
<1>9. CASE s.down
  <2>. DEFINE z == (i - 1) * Sample
  <2>1. e = IF s.begin > z THEN 0 ELSE z - s.begin
    BY <1>9 DEF PieceEnd
  <2>2. z \in Int /\ z - s.begin = a - Sample
    BY <1>5, <1>7, <1>8, <1>9
  <2>3. a \in Nat
    BY <1>5, <1>6
  <2>. HIDE DEF z, e, a, i
  <2>4. e = (IF a < Sample THEN 0 ELSE a - Sample) /\ e \in Nat
    BY <1>5, <2>1, <2>2, <2>3
  <2>. QED BY <1>9, <2>3, <2>4 DEF e, a, i, p
<1>10. CASE ~s.down /\ i # 0
  <2>1. e = s.begin - (i - 1) * Sample
    BY <1>10 DEF PieceEnd
  <2>2. a \in Nat /\ e = a + Sample
    BY <1>5, <1>6, <1>7, <1>8, <1>10, <2>1
  <2>. HIDE DEF e, a, i
  <2>3. e \in Nat
    BY <1>5, <2>2
  <2>. QED BY <1>10, <2>2, <2>3 DEF e, a, i, p
<1>11. ~(~s.down /\ i = 0)
  <2>. SUFFICES ASSUME ~s.down, i = 0 PROVE FALSE
    OBVIOUS
  <2>1. k # 1
    <3>. SUFFICES ASSUME k = 1 PROVE FALSE
      OBVIOUS
    <3>1. a < 2 * Sample
      BY <1>1 DEF IsPassing
    <3>2. a = s.begin
      <4>1. i * Sample = 0
        BY <1>5
      <4>. QED BY <1>5, <1>8, <4>1
    <3>3. Length(s) > 2 * Sample /\ Length(s) <= s.begin
      <4>1. Length(s) > Wide /\ Wide \in Nat /\ Wide >= 2 * Sample
        BY PlanAssumption, EnvelopeAssumption
      <4>2. Length(s) = s.begin - s.end
        BY DEF Length
      <4>. QED BY <1>5, <4>1, <4>2
    <3>. HIDE DEF a
    <3>. QED BY <1>5, <3>1, <3>2, <3>3
  <2>2. p[k - 1] = 1
    <3>1. k - 1 \in 1..c
      BY <1>4, <2>1
    <3>2. p[k - 1] = p[1] - ((k - 1) - 1) /\ p[k] = p[1] - (k - 1) /\ p[1] \in Samples(LineLength)
      BY <1>1, <1>4, <3>1 DEF IsPassing, c
    <3>3. p[1] \in Int
      BY <3>2 DEF Samples
    <3>. QED BY <1>4, <3>2, <3>3
  <2>3. 1 \in DOMAIN t
    <3>1. k - 1 \in 1..c
      BY <1>4, <2>1
    <3>2. p[k - 1] \in Samples(LineLength)
      BY <1>1, <3>1 DEF IsPassing, c
    <3>. QED BY <2>2, <3>2 DEF IsLimits
  <2>. QED BY <1>2, <1>3, <2>1, <2>2, <2>3
<1>. QED BY <1>9, <1>10, <1>11

(* A position of a plan has, around it, a sample of the line whose limit   *)
(* the piece it lies in keeps.                                             *)
LEMMA PieceIsNear ==
  ASSUME NEW s \in Sections, NEW t, IsLimits(t), t[0] = t[1],
         LastLimit(t, s) = t[Passed(t, s)[Len(Passed(t, s))]],
         NEW n \in 1..Len(Pieces(t, s)), NEW q \in Nat, q >= 2 * Sample,
         n > 1 => Pieces(t, s)[n - 1].to <= q,
         q < Pieces(t, s)[n].to
  PROVE  \/ Pieces(t, s)[n].limit = 0
         \/ \E i \in Samples(LineLength) :
              /\ Pieces(t, s)[n].limit <= t[i]
              /\ Along(s, i * Sample) \in (q - 2 * Sample)..(q + Sample)
<1>. DEFINE p == Passed(t, s)
            c == Len(p)
            C == ChangesAt(t, s)
            changes == Counted(C)
            m == Cardinality(C)
            P == Pieces(t, s)
            A(k) == Along(s, p[k] * Sample)
            b == IF n = 1 THEN 1 ELSE changes[n - 1]
            e == IF n = m + 1 THEN c ELSE changes[n] - 1
<1>1. IsPassing(s, p) /\ IsSection(s)
  BY PassedAre, SectionsAre DEF IsLimits
<1>2. /\ m \in Nat /\ changes \in [1..m -> C]
      /\ \A i, j \in 1..m : i < j => changes[i] < changes[j]
      /\ \A k \in C : \E j \in 1..m : changes[j] = k
      /\ Len(P) = m + 1
      /\ \A j \in 1..m : /\ P[j].to = PieceEnd(s, p[changes[j]])
                        /\ P[j].limit = Lowered(s, LimitBefore(t, s, changes[j]))
      /\ P[m + 1].to = Length(s) /\ P[m + 1].limit = LastLimit(t, s)
  BY PiecesFrom
<1>3. \A k \in C : /\ PieceEnd(s, p[k]) \in Nat /\ A(k) \in Nat
                   /\ PieceEnd(s, p[k]) = IF ~s.down THEN A(k) + Sample
                                          ELSE IF A(k) < Sample THEN 0 ELSE A(k) - Sample
  BY EndsAre
<1>4. \A k \in C : k \in DOMAIN p /\ t[p[k]] # LimitBefore(t, s, k)
  BY DEF ChangesAt
<1>5. /\ n \in 1..Len(P) /\ (n > 1 => P[n - 1].to <= q) /\ q < P[n].to
      /\ LastLimit(t, s) = t[p[c]]
  OBVIOUS
<1>6. \A k \in Int : LimitBefore(t, s, k) =
        LET i == IF k = 1 THEN s.begin \div Sample ELSE p[k - 1]
        IN  IF i \in DOMAIN t THEN t[i] ELSE 0
  BY DEF LimitBefore
<1>7. Sample \in Nat \ {0} /\ Length(s) \in Nat /\ Margin \in Nat
  BY LineAssumption, EnvelopeAssumption, <1>1 DEF IsSection
<1>8. ASSUME NEW e0 \in 1..c, NEW b0 \in 1..e0,
             A(b0) <= q + Sample, q < A(e0) + 2 * Sample,
             \A k \in (b0 + 1)..e0 : k \notin C,
             NEW limit, limit <= t[p[e0]]
      PROVE  \E i \in Samples(LineLength) :
               /\ limit <= t[i] /\ Along(s, i * Sample) \in (q - 2 * Sample)..(q + Sample)
  <2>0. c \in Nat
    <3>. HIDE DEF p
    <3>. QED BY <1>1 DEF IsPassing
  <2>1. b0 \in 1..c /\ e0 \in b0..c
    <3>. HIDE DEF c
    <3>. QED BY <2>0
  <2>2. \A k \in b0..e0 : t[p[k]] = t[p[e0]]
    BY <1>8, <2>1, SameBetween
  <2>3. PICK k \in b0..e0 : A(k) \in (q - 2 * Sample)..(q + Sample)
    <3>. HIDE DEF p
    <3>. QED BY <1>1, <1>8, <2>1, SampleNear
  <2>4. k \in 1..c
    <3>. HIDE DEF c
    <3>. QED BY <2>0, <2>1
  <2>5. p[k] \in Samples(LineLength)
    <3>. HIDE DEF p
    <3>. QED BY <1>1, <2>4 DEF IsPassing
  <2>6. limit <= t[p[k]]
    BY <1>8, <2>2
  <2>. QED BY <2>3, <2>5, <2>6
<1>. HIDE DEF p, c, C, changes, m, P
<1>9. /\ c \in Nat \ {0} /\ DOMAIN p = 1..c
      /\ \A k \in 1..c : p[k] \in Samples(LineLength) /\ A(k) \in 0..Length(s) /\ A(k) \in Nat
      /\ A(1) < 2 * Sample /\ A(c) > Length(s) - 2 * Sample
  BY <1>1, <1>7 DEF IsPassing, c
<1>. HIDE DEF A
<1>10. C \subseteq 1..c /\ \A j \in 1..m : changes[j] \in C /\ changes[j] \in Nat
  <2>1. C \subseteq 1..c
    BY <1>4, <1>9
  <2>2. \A j \in 1..m : changes[j] \in C
    BY <1>2
  <2>3. 1..c \subseteq Nat
    BY <1>9
  <2>. QED BY <2>1, <2>2, <2>3
<1>11. n \in Nat /\ 1 <= n /\ n <= m + 1
  BY <1>2, <1>5
<1>12. b \in 1..c /\ A(b) <= q + Sample
  <2>1. CASE n = 1
    BY <1>7, <1>9, <2>1
  <2>2. CASE n # 1
    <3>. DEFINE k == changes[n - 1]
    <3>1. n - 1 \in 1..m
      BY <1>2, <1>11, <2>2
    <3>2. k \in C /\ P[n - 1].to = PieceEnd(s, p[k]) /\ P[n - 1].to <= q
      BY <1>2, <1>5, <1>10, <1>11, <2>2, <3>1
    <3>. HIDE DEF k
    <3>3. A(k) <= q + Sample
      BY <1>3, <1>7, <3>2
    <3>4. b = k
      BY <2>2 DEF k
    <3>. HIDE DEF b
    <3>. QED BY <1>10, <3>2, <3>3, <3>4
  <2>. QED BY <2>1, <2>2
<1>13. \A k \in (b + 1)..e : k \notin C
  <2>. SUFFICES ASSUME NEW k \in (b + 1)..e, k \in C PROVE FALSE
    OBVIOUS
  <2>1. PICK j \in 1..m : changes[j] = k
    BY <1>2
  <2>2. e \in Int /\ b \in Int
    <3>1. n # m + 1 => n \in 1..m
      BY <1>2, <1>11
    <3>. QED BY <1>9, <1>10, <1>12, <3>1
  <2>3. ~(j >= n)
    <3>. SUFFICES ASSUME j >= n PROVE FALSE
      OBVIOUS
    <3>1. n \in 1..m /\ n # m + 1
      BY <1>2, <1>11, <2>1
    <3>2. changes[n] <= changes[j]
      <4>1. changes[n] \in Nat /\ changes[j] \in Nat
        BY <1>10, <2>1, <3>1
      <4>2. n < j => changes[n] < changes[j]
        BY <1>2, <2>1, <3>1
      <4>3. n < j \/ n = j
        BY <1>11, <2>1
      <4>. QED BY <4>1, <4>2, <4>3
    <3>3. k <= changes[n] - 1
      BY <2>2, <3>1
    <3>. QED BY <1>10, <2>1, <3>1, <3>2, <3>3
  <2>4. n # 1 /\ n - 1 \in 1..m /\ j <= n - 1
    BY <1>2, <1>11, <2>1, <2>3
  <2>5. changes[j] <= changes[n - 1]
    BY <1>2, <1>10, <2>1, <2>4
  <2>6. k > changes[n - 1]
    BY <1>10, <2>2, <2>4
  <2>. QED BY <1>10, <2>1, <2>4, <2>5, <2>6
<1>14. CASE n = m + 1
  <2>1. e = c /\ e \in 1..c /\ P[n].limit = t[p[e]] /\ q < A(e) + 2 * Sample
    BY <1>2, <1>5, <1>7, <1>9, <1>14
  <2>2. b \in 1..e
    BY <1>12, <2>1
  <2>3. t[p[e]] \in Nat
    BY <1>9, <2>1 DEF IsLimits
  <2>. HIDE DEF b, e
  <2>4. P[n].limit <= t[p[e]]
    BY <2>1, <2>3
  <2>. QED BY <1>8, <1>12, <1>13, <2>1, <2>2, <2>4 DEF P, p
<1>15. CASE n # m + 1 /\ P[n].limit # 0
  <2>. DEFINE k == changes[n]
  <2>1. n \in 1..m
    BY <1>2, <1>11, <1>15
  <2>2. /\ k \in C /\ k \in 1..c /\ k \in Nat
        /\ P[n].to = PieceEnd(s, p[k]) /\ P[n].limit = Lowered(s, LimitBefore(t, s, k))
    BY <1>2, <1>10, <2>1
  <2>3. e = k - 1
    BY <1>15
  <2>4. n # 1 => b < k
    <3>. SUFFICES ASSUME n # 1 PROVE b < k
      OBVIOUS
    <3>1. n - 1 \in 1..m /\ n - 1 < n
      BY <1>2, <1>11, <2>1
    <3>. QED BY <1>2, <2>1, <3>1
  <2>. HIDE DEF k, e
  <2>5. k # 1
    <3>. SUFFICES ASSUME k = 1 PROVE FALSE
      OBVIOUS
    <3>1. CASE s.down
      <4>1. A(k) \in Nat /\ P[n].to = IF A(k) < Sample THEN 0 ELSE A(k) - Sample
        BY <1>3, <2>2, <3>1
      <4>2. A(k) < 2 * Sample
        BY <1>9
      <4>. QED BY <1>5, <1>7, <4>1, <4>2
    <3>2. CASE ~s.down
      <4>. DEFINE i == s.begin \div Sample
      <4>1. LimitBefore(t, s, k) = IF i \in DOMAIN t THEN t[i] ELSE 0
        BY <1>6, <2>2
      <4>2. CASE i \in DOMAIN t
        <5>1. p[1] = i
          BY <1>1, <3>2, <4>2 DEF IsPassing, IsLimits
        <5>. QED BY <1>4, <2>2, <4>1, <4>2, <5>1
      <4>3. CASE i \notin DOMAIN t
        BY <1>15, <2>2, <3>2, <4>1, <4>3 DEF Lowered
      <4>. QED BY <4>2, <4>3
    <3>. QED BY <3>1, <3>2
  <2>6. e \in 1..c /\ b \in 1..e
    <3>1. b \in Nat /\ b <= e
      BY <1>9, <1>12, <2>2, <2>3, <2>4, <2>5
    <3>. HIDE DEF b
    <3>. QED BY <1>9, <1>12, <2>2, <2>3, <2>5, <3>1
  <2>. HIDE DEF b
  <2>7. A(k) = A(e) + Sample
    <3>1. A(k) = A(1) + (k - 1) * Sample /\ A(e) = A(1) + (e - 1) * Sample
      BY <1>1, <2>2, <2>6 DEF IsPassing, A, c
    <3>2. (k - 1) * Sample = (e - 1) * Sample + Sample /\ (e - 1) * Sample \in Int
      BY <1>7, <2>2, <2>3
    <3>3. A(1) \in Nat
      BY <1>9
    <3>. QED BY <1>7, <3>1, <3>2, <3>3
  <2>8. q < A(e) + 2 * Sample
    <3>1. A(k) \in Nat /\ A(e) \in Nat
      BY <1>9, <2>2, <2>6
    <3>. QED BY <1>3, <1>5, <1>7, <2>2, <2>7, <3>1
  <2>9. P[n].limit <= t[p[e]]
    <3>1. p[e] \in DOMAIN t /\ t[p[e]] \in Nat
      BY <1>9, <2>6 DEF IsLimits
    <3>2. LimitBefore(t, s, k) = t[p[e]]
      BY <1>6, <2>2, <2>3, <2>5, <3>1
    <3>. QED BY <1>7, <2>2, <3>1, <3>2 DEF Lowered
  <2>. QED BY <1>8, <1>12, <1>13, <2>6, <2>8, <2>9 DEF P, p
<1>. QED BY <1>14, <1>15 DEF P

(* Pieces that never end within one step: each step lies in the piece it   *)
(* has the limit of.                                                       *)
AreApart(p, step) ==
  /\ \A n \in DOMAIN p : p[n].to \in Nat
  /\ \A m, n \in DOMAIN p : m < n => p[m].to + step < p[n].to

LEMMA StepsInPieces ==
  ASSUME NEW s, NEW p, NEW step, NEW dim, IsCut(s, p, step, dim), AreApart(p, step)
  PROVE  LET at == PieceAt(p, step, dim)
         IN  \A j \in 1..dim : /\ at[j] > 1 => p[at[j] - 1].to <= j * step
                               /\ j * step < p[at[j]].to
<1>. DEFINE at == PieceAt(p, step, dim)
            U == {j \in 0..dim : /\ at[j] > 1 => p[at[j] - 1].to <= j * step
                                 /\ j > 0 => j * step < p[at[j]].to}
<1>1. /\ dim \in Nat /\ step \in Nat \ {0} /\ Len(p) \in Nat /\ DOMAIN p = 1..Len(p)
      /\ p[Len(p)].to = Length(s) /\ dim * step < Length(s) /\ Length(s) \in Nat
  BY DEF IsCut, IsPieces
<1>2. /\ \A i \in 0..dim : at[i] \in 1..Len(p)
      /\ at[0] = 1
      /\ \A i \in 1..dim : at[i] = IF i * step < p[at[i - 1]].to THEN at[i - 1] ELSE at[i - 1] + 1
  BY PieceAtIs
<1>3. /\ \A n \in 1..Len(p) : p[n].to \in Nat
      /\ \A m, n \in 1..Len(p) : m < n => p[m].to + step < p[n].to
  BY <1>1 DEF AreApart
<1>. HIDE DEF at
<1>4. 0 \in U
  BY <1>1, <1>2
<1>5. ASSUME NEW j \in 1..dim, j - 1 \in U PROVE j \in U
  <2>. DEFINE a == at[j - 1]
              x == j * step
              y == (j - 1) * step
  <2>1. j \in 0..dim /\ j - 1 \in 0..dim /\ a \in 1..Len(p) /\ at[j] \in 1..Len(p)
    BY <1>1, <1>2
  <2>2. x \in Nat /\ y \in Nat /\ x = y + step
    BY <1>1
  <2>3. /\ a > 1 => p[a - 1].to <= y
        /\ j - 1 > 0 => y < p[a].to
    BY <1>5
  <2>4. at[j] = IF x < p[a].to THEN a ELSE a + 1
    BY <1>2
  <2>5. j - 1 = 0 => y = 0
    BY <1>1
  <2>. HIDE DEF a, x, y, U
  <2>6. CASE x < p[a].to
    <3>1. a > 1 => p[a - 1].to <= x
      <4>1. a > 1 => p[a - 1].to \in Nat
        BY <1>1, <1>3, <2>1
      <4>. QED BY <1>1, <2>2, <2>3, <4>1
    <3>. QED BY <2>1, <2>4, <2>6, <3>1 DEF U, x
  <2>7. CASE ~(x < p[a].to)
    <3>1. at[j] = a + 1 /\ a + 1 \in 1..Len(p) /\ (a + 1) - 1 = a
      BY <2>1, <2>4, <2>7
    <3>2. p[a].to \in Nat /\ p[a + 1].to \in Nat /\ p[a].to + step < p[a + 1].to
      BY <1>1, <1>3, <2>1, <3>1
    <3>3. p[a].to <= x
      BY <2>2, <2>7, <3>2
    <3>4. y <= p[a].to
      BY <1>1, <2>1, <2>2, <2>3, <2>5, <3>2
    <3>5. x < p[a + 1].to
      BY <1>1, <2>2, <3>2, <3>4
    <3>. QED BY <2>1, <3>1, <3>3, <3>5 DEF U, x
  <2>. QED BY <2>6, <2>7
<1>6. \A j \in 1..dim : j - 1 \in U => j \in U
  BY <1>5
<1>7. \A j \in 0..dim : j \in U
  <2>. HIDE DEF U
  <2>. QED BY <1>1, <1>4, <1>6, UpTo
<1>8. \A j \in 1..dim : /\ at[j] > 1 => p[at[j] - 1].to <= j * step
                        /\ j * step < p[at[j]].to
  <2>1. \A j \in 1..dim : j \in 0..dim /\ j > 0
    BY <1>1
  <2>. QED BY <1>7, <2>1
<1>. QED BY <1>8 DEF at

(* The bound of every step but the first is a limit of the line nearby.    *)
LEMMA BoundIsNear ==
  ASSUME NEW s, NEW t, IsLimits(t), t[0] = t[1],
         LastLimit(t, s) = t[Passed(t, s)[Len(Passed(t, s))]],
         NEW step, NEW dim, IsCut(s, Pieces(t, s), step, dim), step >= 2 * Sample,
         AreApart(Pieces(t, s), step), NEW j \in 1..dim
  PROVE  LET bound == SpeedLimitMax(Own, Pieces(t, s), step, dim)[j]
         IN  \/ bound = 0
             \/ \E i \in Samples(LineLength) :
                  /\ bound <= t[i]
                  /\ Along(s, i * Sample) \in (j * step - 2 * Sample)..(j * step + Sample)
<1>. DEFINE p == Pieces(t, s)
            at == PieceAt(p, step, dim)
            n == at[j]
            q == j * step
            bound == SpeedLimitMax(Own, p, step, dim)[j]
<1>1. /\ s \in Sections /\ dim \in Nat /\ step \in Nat \ {0} /\ IsPieces(s, p) /\ Sample \in Nat \ {0}
      /\ IsCut(s, p, step, dim) /\ AreApart(p, step)
  BY LineAssumption DEF IsCut
<1>2. j \in 0..dim /\ j \in Nat /\ 1 <= j
  BY <1>1
<1>3. n \in 1..Len(p)
  <2>. HIDE DEF p
  <2>. QED BY <1>1, <1>2, PieceAtIs
<1>4. (n > 1 => p[n - 1].to <= q) /\ q < p[n].to
  <2>. HIDE DEF p
  <2>. QED BY <1>1, StepsInPieces
<1>5. bound \in Allowed /\ bound <= p[n].limit
  <2>. HIDE DEF p
  <2>. QED BY <1>1, <1>2, BoundIs
<1>6. bound \in Nat /\ p[n].limit \in Nat
  BY <1>1, <1>3, <1>5, AllowedIs DEF IsCut, IsPieces
<1>7. q \in Nat /\ q >= 2 * Sample
  <2>1. 1 * step <= j * step /\ j * step \in Nat /\ 1 * step = step
    BY <1>1, <1>2, StepsMonotone
  <2>. QED BY <1>1, <2>1
<1>. HIDE DEF n, q
<1>8. \/ p[n].limit = 0
      \/ \E i \in Samples(LineLength) :
           /\ p[n].limit <= t[i]
           /\ Along(s, i * Sample) \in (q - 2 * Sample)..(q + Sample)
  BY <1>1, <1>3, <1>4, <1>7, PieceIsNear
<1>9. \A i \in Samples(LineLength) : t[i] \in Nat
  BY DEF IsLimits
<1>. HIDE DEF p, bound
<1>10. CASE p[n].limit = 0
  <2>1. bound = 0
    BY <1>5, <1>6, <1>10
  <2>. QED BY <2>1 DEF bound, p
<1>11. CASE p[n].limit # 0
  <2>1. PICK i \in Samples(LineLength) :
               /\ p[n].limit <= t[i]
               /\ Along(s, i * Sample) \in (q - 2 * Sample)..(q + Sample)
    BY <1>8, <1>11
  <2>2. bound <= t[i]
    <3>1. t[i] \in Nat
      BY <1>9
    <3>. QED BY <1>5, <1>6, <2>1, <3>1
  <2>. QED BY <2>1, <2>2 DEF bound, p, q
<1>. QED BY <1>10, <1>11

(* The first zone of the limits is longer than a sample. *)
LEMMA FirstSamples ==
  ASSUME NEW z \in LimitZones
  PROVE  SpeedLimit(z, 0 * Sample) = SpeedLimit(z, 1 * Sample)
<1>. DEFINE R == [from : Nat, value : Nat]
<1>1. z \in Seq(R) /\ Len(z) > 0 /\ z[1].from = 0 /\ (Len(z) > 1 => z[2].from > Sample)
  BY FilesAssumption
<1>2. Len(z) \in Nat /\ DOMAIN z = 1..Len(z) /\ \A n \in 1..Len(z) : z[n].from \in Nat
  <2>1. Len(z) \in Nat /\ DOMAIN z = 1..Len(z) /\ \A n \in 1..Len(z) : z[n] \in R
    <3>. HIDE DEF R
    <3>. QED BY <1>1
  <2>. QED BY <2>1
<1>. HIDE DEF R
<1>3. Sample \in Nat \ {0} /\ TrainLength \in Nat \ {0}
  BY LineAssumption
<1>4. ASSUME NEW x \in 0..Sample PROVE ValueAt(z, x) = z[1].value
  <2>. DEFINE K == {k \in DOMAIN z : k = Len(z) \/ (z[k].from <= x /\ x < z[k + 1].from)}
  <2>1. 1 \in K /\ K \in SUBSET Nat
    <3>1. 1 \in DOMAIN z /\ x \in Nat
      BY <1>1, <1>2, <1>3
    <3>2. CASE Len(z) = 1
      BY <1>2, <3>1, <3>2
    <3>3. CASE Len(z) > 1
      <4>1. z[2].from \in Nat /\ z[1].from <= x /\ x < z[1 + 1].from
        BY <1>1, <1>2, <1>3, <3>1, <3>3
      <4>. QED BY <1>2, <3>1, <4>1
    <3>. QED BY <1>1, <1>2, <3>2, <3>3
  <2>2. \A k \in K : k >= 1
    BY <1>2
  <2>3. ZoneAt(z, x) = Min(K)
    BY DEF ZoneAt
  <2>. HIDE DEF K
  <2>4. Min(K) \in K /\ Min(K) <= 1
    BY <2>1, LeastOf
  <2>5. \A m \in K : m <= 1 => m = 1
    BY <2>1, <2>2
  <2>. QED BY <2>3, <2>4, <2>5 DEF ValueAt
<1>5. \A x \in 0..Sample : TailOf(x) \in 0..Sample
  BY <1>3 DEF TailOf
<1>6. 0 * Sample \in 0..Sample /\ 1 * Sample \in 0..Sample
  BY <1>3
<1>. QED BY <1>4, <1>5, <1>6 DEF SpeedLimit

(* Every piece ends at a natural number. *)
LEMMA PieceEndsAre ==
  ASSUME NEW s \in Sections, NEW t, IsLimits(t), t[0] = t[1]
  PROVE  \A n \in DOMAIN Pieces(t, s) : Pieces(t, s)[n].to \in Nat
<1>. DEFINE C == ChangesAt(t, s)
            changes == Counted(C)
            m == Cardinality(C)
            P == Pieces(t, s)
<1>1. /\ m \in Nat /\ changes \in [1..m -> C]
      /\ DOMAIN P = 1..(m + 1)
      /\ \A j \in 1..m : P[j].to = PieceEnd(s, Passed(t, s)[changes[j]])
      /\ P[m + 1].to = Length(s)
  BY PiecesFrom
<1>2. \A k \in C : PieceEnd(s, Passed(t, s)[k]) \in Nat
  BY EndsAre
<1>3. Length(s) \in Nat
  BY SectionsAre DEF IsSection
<1>. HIDE DEF C, changes, m, P
<1>4. \A j \in 1..m : P[j].to \in Nat
  BY <1>1, <1>2
<1>5. \A n \in 1..(m + 1) : n \in 1..m \/ n = m + 1
  BY <1>1
<1>. QED BY <1>1, <1>3, <1>4, <1>5 DEF P

(* The limit in the tables is within that of the line file, whichever way  *)
(* the train goes.                                                         *)
LEMMA LimitWithin ==
  ASSUME zones.limits \in LimitZones, NEW x
  PROVE  /\ SpeedLimit(zones.limits, x) \in Nat /\ LineLimit(x) \in Nat
         /\ SpeedLimit(zones.limits, x) <= LineLimit(x)
         /\ LineLimit(x) <= LimitAt(x)
<1>. DEFINE a == ValueAt(zones.limits, x)
            b == ValueAt(zones.limits, TailOf(x))
            m == Min({a, b})
            p == InCms(a)
            q == InCms(b)
<1>1. a \in Nat /\ b \in Nat
  BY ValueIs
<1>2. LimitAt(x) = p /\ LimitAt(TailOf(x)) = q /\ SpeedLimit(zones.limits, x) = InTables(m)
  BY DEF LimitAt, SpeedLimit
<1>. HIDE DEF a, b
<1>3. m \in Nat /\ m <= a /\ m <= b
  <2>1. {a, b} \in SUBSET Nat /\ {a, b} # {}
    BY <1>1
  <2>2. m \in {a, b} /\ \A c \in {a, b} : m <= c
    BY <2>1, LeastOf
  <2>. QED BY <1>1, <2>2
<1>. HIDE DEF m
<1>4. InTables(m) \in Nat /\ InTables(m) <= InCms(m) /\ InCms(m) \in Nat
  BY <1>3, ConversionIs
<1>5. p \in Nat /\ q \in Nat /\ InCms(m) <= p /\ InCms(m) <= q
  BY <1>1, <1>3, ConversionIs, ConversionOrders
<1>. HIDE DEF p, q
<1>6. InTables(m) <= p /\ InTables(m) <= q
  BY <1>4, <1>5
<1>7. Min({p, q}) \in {p, q} /\ \A c \in {p, q} : Min({p, q}) <= c
  <2>1. {p, q} \in SUBSET Nat /\ {p, q} # {}
    BY <1>5
  <2>. QED BY <2>1, LeastOf
<1>8. LineLimit(x) = Min({p, q}) \/ LineLimit(x) = p
  BY <1>2 DEF LineLimit
<1>. QED BY <1>2, <1>4, <1>5, <1>6, <1>7, <1>8

(* The limits of the samples are within those of the line files, and the   *)
(* pieces of a plan that was found are apart.                              *)
IsWithin(limit, i) ==
  limit \in Nat /\ LineLimit(i * Sample) \in Nat /\ limit <= LineLimit(i * Sample)

LEMMA ApartNow ==
  ASSUME MadeInv, PlanInv, Online, Apart
  PROVE  /\ \A i \in Samples(LineLength) : IsWithin(lines.limit[i], i)
         /\ lines.limit[0] = lines.limit[1]
         /\ AreApart(pieces, plan.step)
<1>. DEFINE t == lines.limit
            step == plan.step
            s == section
<1>1. mode = 1
  BY DEF Online
<1>2. s \in Sections /\ LimitZones # {} /\ IsLimits(t) /\ pieces = Pieces(t, s)
  BY <1>1, RunnableNow
<1>4. pc = "divided"
  BY DEF Online, Divided
<1>6. /\ zones.limits \in LimitZones
      /\ lines = Sampled(zones.limits, zones.slopes, RadiusZones, LineLength)
  BY <1>4 DEF MadeInv
<1>7. t = [i \in Samples(LineLength) |-> SpeedLimit(zones.limits, i * Sample)]
  BY <1>6 DEF Sampled
<1>8. \A i \in Samples(LineLength) : IsWithin(t[i], i)
  <2>1. \A i \in Samples(LineLength) : t[i] = SpeedLimit(zones.limits, i * Sample)
    BY <1>7
  <2>. HIDE DEF t
  <2>. QED BY <1>6, <2>1, LimitWithin DEF IsWithin
<1>9. t[0] = t[1]
  <2>1. 0 \in Samples(LineLength) /\ 1 \in Samples(LineLength)
    <3>. DEFINE N == LineLength \div Sample
    <3>1. Sample \in Nat \ {0} /\ LineLength \in Nat /\ LineLength > 2 * Sample
      <4>1. s.begin \in 0..LineLength /\ s.end \in 0..LineLength /\ Length(s) > Wide /\ LineLength \in Nat
        BY <1>2, PlanAssumption
      <4>2. Wide \in Nat /\ Wide >= 2 * Sample /\ Sample \in Nat \ {0}
        BY EnvelopeAssumption, LineAssumption
      <4>3. Length(s) <= LineLength /\ Length(s) \in Int
        BY <4>1 DEF Length
      <4>. HIDE DEF s
      <4>. QED BY <4>1, <4>2, <4>3
    <3>2. N \in Nat /\ LineLength < N * Sample + Sample
      BY <3>1, Division
    <3>. HIDE DEF N
    <3>3. N # 0 /\ N # 1
      <4>1. 0 * Sample = 0 /\ 1 * Sample = Sample
        BY <3>1
      <4>. QED BY <3>1, <3>2, <4>1
    <3>4. 0 \in 0..(N - 1) /\ 1 \in 0..(N - 1)
      BY <3>2, <3>3
    <3>. QED BY <3>4 DEF Samples, N
  <2>2. t[0] = SpeedLimit(zones.limits, 0 * Sample) /\ t[1] = SpeedLimit(zones.limits, 1 * Sample)
    BY <1>7, <2>1
  <2>. QED BY <1>6, <2>2, FirstSamples
<1>11. AreApart(pieces, step)
  <2>1. \A n \in DOMAIN pieces : pieces[n].to \in Nat
    <3>. HIDE DEF t, s
    <3>. QED BY <1>2, <1>9, PieceEndsAre
  <2>. QED BY <2>1 DEF AreApart, Apart
<1>. QED BY <1>8, <1>9, <1>11 DEF t, step, s

(* What holds of the plan that was found, and of the line it is for. *)
LEMMA OnlineNow ==
  ASSUME MadeInv, PlanInv, Online, Apart, EndSampled
  PROVE  /\ section \in Sections /\ IsSection(section)
         /\ plan.dim \in Nat /\ plan.step \in Nat \ {0} /\ plan.step >= 2 * Sample
         /\ \A i \in 0..plan.dim : table[i].speed \in Nat
         /\ \A j \in 1..plan.dim :
              \/ table[j].speed = 0
              \/ \E i \in Samples(LineLength) :
                   /\ table[j].speed <= lines.limit[i]
                   /\ Along(section, i * Sample)
                        \in (j * plan.step - 2 * Sample)..(j * plan.step + Sample)
         /\ \A i \in Samples(LineLength) : IsWithin(lines.limit[i], i)
<1>. DEFINE t == lines.limit
            step == plan.step
            dim == plan.dim
            s == section
            max == plan.max
<1>1. mode = 1
  BY DEF Online
<1>2. /\ s \in Sections /\ LimitZones # {} /\ IsLimits(t) /\ pieces = Pieces(t, s)
      /\ IsCut(s, pieces, step, dim) /\ IsRunnable(plan, s)
      /\ max = SpeedLimitMax(Own, pieces, step, dim)
  BY <1>1, RunnableNow
<1>3. table = Run(plan)
  BY <1>1 DEF MadeInv
<1>4. /\ pc = "divided" /\ step = StepSize(Length(s))
  BY DEF Online, Divided, PlanInv
<1>5. step \in Nat \ {0} /\ step >= 2 * Sample /\ dim \in Nat
  <2>1. StepSize(Length(s)) \in Nat \ {0} /\ StepSize(Length(s)) >= 2 * Sample
    BY StepSizeType
  <2>2. dim \in Nat
    BY <1>2, RunnableIs
  <2>. QED BY <1>4, <2>1, <2>2
<1>6. /\ \A i \in Samples(LineLength) : IsWithin(t[i], i)
      /\ t[0] = t[1] /\ AreApart(pieces, step)
  BY ApartNow
<1>7. \A i \in Samples(LineLength) : t[i] \in Nat
  BY <1>6 DEF IsWithin
<1>10. LastLimit(t, s) = t[Passed(t, s)[Len(Passed(t, s))]]
  BY DEF EndSampled
<1>12. /\ \A i \in 0..dim : table[i].speed \in Nat
       /\ \A i \in 1..dim : table[i].speed <= max[i]
  BY <1>2, <1>3, RunIs
<1>. HIDE DEF t, step, dim, s, max
<1>13. ASSUME NEW j \in 1..dim
       PROVE  \/ table[j].speed = 0
              \/ \E i \in Samples(LineLength) :
                   /\ table[j].speed <= t[i]
                   /\ Along(s, i * Sample) \in (j * step - 2 * Sample)..(j * step + Sample)
  <2>. DEFINE v == table[j].speed
              bound == max[j]
  <2>0. \/ bound = 0
        \/ \E i \in Samples(LineLength) :
             /\ bound <= t[i]
             /\ Along(s, i * Sample) \in (j * step - 2 * Sample)..(j * step + Sample)
    BY <1>2, <1>5, <1>6, <1>7, <1>10, BoundIsNear
  <2>1. v \in Nat /\ v <= bound
    <3>1. j \in 0..dim
      BY <1>5
    <3>. QED BY <1>12, <3>1
  <2>2. bound \in Nat
    <3>1. j \in 0..dim
      BY <1>5
    <3>2. bound \in Allowed
      BY <1>2, <3>1, BoundIs
    <3>. QED BY <1>2, <3>2, AllowedIs
  <2>. HIDE DEF v, bound
  <2>3. \A i \in Samples(LineLength) : bound <= t[i] => v <= t[i]
    BY <1>7, <2>1, <2>2
  <2>4. bound = 0 => v = 0
    BY <2>1
  <2>. QED BY <2>0, <2>3, <2>4 DEF v
<1>14. IsSection(s)
  BY <1>2, SectionsAre
<1>. QED BY <1>2, <1>5, <1>6, <1>12, <1>13, <1>14 DEF t, step, dim, s

(* The speed the signal system is told keeps to the limits the line files  *)
(* give where the head of the train is, and on the way down where its tail *)
(* is, to within a step and two samples, for every line, train, section    *)
(* and run: through the text of the files, their unit, the samples, the    *)
(* pieces, the steps, the braking curves and the interpolation.  Of where  *)
(* the tail is on the way up it says nothing (LineLimit).                  *)
THEOREM TargetWithinLimits == Spec => []TargetHeld
<1>1. MadeInv /\ PlanInv => TargetHeld
  <2>. SUFFICES ASSUME MadeInv, PlanInv, Online, Apart, EndSampled, NEW post \in Posts
                PROVE  \/ Target(post).speed = 0
                       \/ \E k \in Near(post) : Target(post).speed <= LineLimit(k * Sample)
    BY DEF TargetHeld
  <2>. DEFINE step == plan.step
              dim == plan.dim
              s == section
              a == Along(s, post)
              i == a \div step
              v == TargetSpeed(table, dim, step, s, post).speed
              W == (i * step - 2 * Sample)..((i + 1) * step + Sample)
              Kept(u) == u = 0 \/ \E k \in Samples(LineLength) :
                                     Along(s, k * Sample) \in W /\ u <= LineLimit(k * Sample)
  <2>1. /\ IsSection(s) /\ dim \in Nat /\ step \in Nat \ {0} /\ step >= 2 * Sample
        /\ \A j \in 0..dim : table[j].speed \in Nat
        /\ \A j \in 1..dim :
             \/ table[j].speed = 0
             \/ \E k \in Samples(LineLength) :
                  /\ table[j].speed <= lines.limit[k]
                  /\ Along(s, k * Sample) \in (j * step - 2 * Sample)..(j * step + Sample)
        /\ \A k \in Samples(LineLength) : IsWithin(lines.limit[k], k)
    BY OnlineNow
  <2>2. a \in Nat /\ post \in Int
    <3>1. PICK x \in 0..Length(s) : post = Post(s, x)
      BY DEF Posts
    <3>2. x \in Nat
      BY <2>1 DEF IsSection
    <3>3. a = x
      BY <2>1, <3>1, <3>2, PostIsAlong
    <3>. QED BY <2>1, <3>1, <3>2, <3>3 DEF Post, IsSection
  <2>3. /\ v \in Nat /\ i \in Nat
        /\ i >= dim => v = 0
        /\ i = 0 /\ i < dim => v = table[1].speed
        /\ i > 0 /\ i < dim => \A m \in Nat : table[i].speed <= m /\ table[i + 1].speed <= m => v <= m
    <3>1. (IF a > 0 THEN a ELSE 0) = a
      BY <2>2
    <3>2. /\ IsSection(s) /\ dim \in Nat /\ step \in Nat \ {0} /\ post \in Int
          /\ \A j \in 0..dim : table[j].speed \in Nat
      BY <2>1, <2>2
    <3>. HIDE DEF s, step, dim
    <3>3. LET x == IF a > 0 THEN a ELSE 0
              j == x \div step
          IN  /\ v \in Nat /\ x \in Nat /\ j \in Nat
              /\ j >= dim => v = 0
              /\ j = 0 /\ j < dim => v = table[1].speed
              /\ j > 0 /\ j < dim => \A m \in Nat : table[j].speed <= m /\ table[j + 1].speed <= m => v <= m
      BY <3>2, TargetIs
    <3>. HIDE DEF a, v
    <3>. QED BY <3>1, <3>3
  <2>4. Sample \in Nat \ {0}
    BY LineAssumption
  <2>. HIDE DEF v, i, a, step, dim, s
  <2>5. ASSUME NEW j \in 1..dim, j = i \/ j = i + 1
        PROVE  Kept(table[j].speed)
    <3>. DEFINE x == i * step
    <3>1. x \in Nat /\ (i + 1) * step = x + step
      BY <2>1, <2>3
    <3>2. j * step = x \/ j * step = x + step
      BY <2>5, <3>1
    <3>. HIDE DEF x
    <3>3. W = (x - 2 * Sample)..(x + step + Sample)
      BY <3>1 DEF x
    <3>. DEFINE y == j * step
    <3>4. (y - 2 * Sample)..(y + Sample) \subseteq W
      <4>. HIDE DEF y, W
      <4>1. y = x \/ y = x + step
        BY <3>2 DEF y
      <4>. QED BY <2>1, <2>4, <3>1, <3>3, <4>1
    <3>. HIDE DEF W
    <3>5. j \in 1..dim /\ j \in 0..dim
      BY <2>1
    <3>6. CASE table[j].speed = 0
      BY <3>6
    <3>7. CASE \E k \in Samples(LineLength) :
                 /\ table[j].speed <= lines.limit[k]
                 /\ Along(s, k * Sample) \in (j * step - 2 * Sample)..(j * step + Sample)
      <4>1. PICK k \in Samples(LineLength) :
                   /\ table[j].speed <= lines.limit[k]
                   /\ Along(s, k * Sample) \in (j * step - 2 * Sample)..(j * step + Sample)
        BY <3>7
      <4>2. table[j].speed \in Nat /\ IsWithin(lines.limit[k], k)
        BY <2>1, <3>5
      <4>3. table[j].speed <= LineLimit(k * Sample)
        BY <4>1, <4>2 DEF IsWithin
      <4>4. Along(s, k * Sample) \in W
        BY <3>4, <4>1
      <4>. QED BY <4>3, <4>4
    <3>. QED BY <2>1, <3>5, <3>6, <3>7
  <2>6. \A u, w \in Nat : u <= w /\ Kept(w) => Kept(u)
    <3>1. \A k \in Samples(LineLength) : LineLimit(k * Sample) \in Nat
      BY <2>1 DEF IsWithin
    <3>. HIDE DEF W
    <3>. QED BY <3>1
  <2>. HIDE DEF Kept
  <2>7. Kept(v)
    <3>1. CASE i >= dim
      BY <2>3, <3>1 DEF Kept
    <3>2. CASE i < dim /\ i = 0
      <4>1. 1 \in 1..dim /\ 1 = i + 1
        BY <2>1, <3>2
      <4>. QED BY <2>3, <2>5, <3>2, <4>1
    <3>3. CASE i < dim /\ i > 0
      <4>. DEFINE u == table[i].speed
                  w == table[i + 1].speed
      <4>1. /\ i \in 1..dim /\ i + 1 \in 1..dim
            /\ i \in 0..dim /\ i + 1 \in 0..dim
        BY <2>1, <2>3, <3>3
      <4>2. Kept(u) /\ Kept(w)
        BY <2>5, <4>1
      <4>3. u \in Nat /\ w \in Nat
        BY <2>1, <4>1
      <4>4. \A m \in Nat : u <= m /\ w <= m => v <= m
        BY <2>3, <3>3
      <4>. HIDE DEF u, w
      <4>5. CASE u <= w
        <5>1. v <= w
          BY <4>3, <4>4, <4>5
        <5>. QED BY <2>3, <2>6, <4>2, <4>3, <5>1
      <4>6. CASE w <= u
        <5>1. v <= u
          BY <4>3, <4>4, <4>6
        <5>. QED BY <2>3, <2>6, <4>2, <4>3, <5>1
      <4>. QED BY <4>3, <4>5, <4>6
    <3>. QED BY <2>1, <2>3, <3>1, <3>2, <3>3
  <2>. QED BY <2>7 DEF Kept, v, i, a, step, dim, s, Target, Near
<1>. QED BY <1>1, MadeInvariance, PlanInvariance, PTL

-----------------------------------------------------------------------------
(* What is told of a plan. *)

(* The curve shown to the driver and the target told to the signal system  *)
(* are one, in every plan of every line, and a curve that was found lies   *)
(* under the limits the driver is shown.                                   *)
THEOREM CurveIsTarget == Spec => []ShownIsTarget
<1>. DEFINE curve == CurveShown(table, plan.dim, plan.step, section)
            limits == InitMsg.speed_limit_info
<1>1. ASSUME PlanInv, TypeOK, Divided, NEW i \in 1..(plan.dim - 1)
      PROVE  /\ Target(curve[i].post).speed = curve[i].speed
             /\ Target(curve[i].post).flag = table[i].flag
             /\ curve[i].speed \in Nat
             /\ curve[i].post = Post(section, i * plan.step)
  <2>1. CanBeShown(table, plan.dim, plan.step, section)
    <3>1. IsSection(section) /\ plan.dim \in Nat /\ plan.step \in Nat \ {0}
      BY <1>1, DividedIs DEF Divided
    <3>2. \A k \in 0..plan.dim : table[k].speed \in Int
      BY <1>1 DEF TypeOK, Divided
    <3>. QED BY <3>1, <3>2 DEF CanBeShown
  <2>2. i \in 0..plan.dim
    BY <1>1, DividedIs DEF Divided
  <2>3. curve[i].post = Post(section, i * plan.step) /\ curve[i].speed = table[i].speed
    BY <2>2 DEF CurveShown
  <2>4. /\ TargetSpeed(table, plan.dim, plan.step, section,
                       Post(section, i * plan.step)).speed = table[i].speed
        /\ TargetSpeed(table, plan.dim, plan.step, section,
                       Post(section, i * plan.step)).flag = table[i].flag
    BY <2>1, TargetAtStep
  <2>5. table[i].speed \in Nat
    BY <1>1, <2>2 DEF TypeOK, Divided
  <2>. HIDE DEF curve
  <2>. QED BY <2>3, <2>4, <2>5 DEF Target
<1>. HIDE DEF curve
<1>2. ASSUME PlanInv, MadeInv, TypeOK, TargetHeld, Divided, NEW i \in 1..(plan.dim - 1),
             Online, Apart, EndSampled, curve[i].speed # 0
      PROVE  \E s \in Near(curve[i].post) :
               curve[i].speed * Kmh <= ValueAt(limits, s * Sample) * Cms
  <2>1. curve[i].post \in Posts
    <3>1. /\ IsSection(section) /\ plan.dim \in Nat /\ plan.step \in Nat \ {0}
          /\ plan.dim * plan.step <= Length(section)
      BY <1>2, DividedIs DEF Divided, Online, Stepped, IsTable
    <3>. DEFINE step == plan.step
                dim == plan.dim
                x == i * step
    <3>2. i \in Nat /\ i <= dim /\ dim \in Nat /\ step \in Nat
      BY <3>1
    <3>. HIDE DEF step, dim
    <3>3. x <= dim * step /\ x \in Nat /\ dim * step \in Nat
      BY <3>2, StepsMonotone
    <3>. HIDE DEF x
    <3>4. x \in 0..Length(section)
      BY <3>1, <3>3 DEF IsSection, dim, step
    <3>. QED BY <1>1, <1>2, <3>4 DEF Posts, x, step
  <2>. DEFINE u == curve[i].speed
  <2>2. u \in Nat /\ u # 0 /\ Target(curve[i].post).speed = u
    BY <1>1, <1>2
  <2>3. PICK k \in Near(curve[i].post) : u <= LineLimit(k * Sample)
    BY <1>2, <2>1, <2>2 DEF TargetHeld
  <2>. HIDE DEF u
  <2>4. zones.limits \in LimitZones /\ limits = zones.limits
    BY <1>2 DEF MadeInv, Divided, InitMsg
  <2>. HIDE DEF limits
  <2>. DEFINE a == ValueAt(zones.limits, k * Sample)
              q == InCms(a)
  <2>5. u <= q
    <3>1. LineLimit(k * Sample) \in Nat /\ LineLimit(k * Sample) <= LimitAt(k * Sample)
      BY <2>4, LimitWithin
    <3>2. LimitAt(k * Sample) = q
      BY DEF LimitAt
    <3>3. q \in Nat
      BY <2>4, ValueIs, ConversionIs
    <3>. HIDE DEF q
    <3>. QED BY <2>2, <2>3, <3>1, <3>2, <3>3
  <2>6. a \in Nat /\ q \in Nat /\ q * Kmh <= a * Cms /\ Kmh \in Nat /\ Cms \in Nat
    BY <2>4, ValueIs, ConversionIs, LineAssumption
  <2>7. u * Kmh <= a * Cms
    <3>. HIDE DEF q, a
    <3>1. u * Kmh <= q * Kmh
      BY <2>2, <2>5, <2>6, StepsMonotone
    <3>2. u * Kmh \in Nat /\ q * Kmh \in Nat /\ a * Cms \in Nat
      BY <2>2, <2>6
    <3>. QED BY <2>6, <3>1, <3>2
  <2>. QED BY <2>3, <2>4, <2>7 DEF u, a
<1>3. PlanInv /\ MadeInv /\ TypeOK /\ TargetHeld => ShownIsTarget
  BY <1>1, <1>2 DEF ShownIsTarget, curve, limits
<1>. QED BY <1>3, PlanInvariance, MadeInvariance, TypeCorrect, TargetWithinLimits, PTL

-----------------------------------------------------------------------------
(* The bound falls as the train can brake. *)
(* The limit a braking curve counts to is that of every step from the one  *)
(* it was found at to the fall.                                            *)
LEMMA CeilingIs ==
  ASSUME NEW low \in Nat, NEW ceiling, NEW i \in Nat, i >= 2,
         \A m \in 2..i : ceiling[m] \in Nat, ceiling[i] >= low
  PROVE  LET h == CeilingBefore(low, ceiling, i)
         IN  /\ h \in Nat /\ ceiling[i] <= h
             /\ i > 2 /\ ceiling[i - 1] >= ceiling[i] => ceiling[i - 1] <= h
<1>. DEFINE K == {k \in 2..i : \A m \in k..i :
                    /\ ceiling[m] >= low
                    /\ m < i => ceiling[m] >= ceiling[m + 1]}
            k0 == Min(K)
            h == CeilingBefore(low, ceiling, i)
<1>1. i \in K /\ K \in SUBSET Nat
  OBVIOUS
<1>2. k0 \in K /\ \A k \in K : k0 <= k
  <2>. HIDE DEF K
  <2>. QED BY <1>1, LeastOf
<1>3. h = ceiling[k0]
  BY <1>1 DEF CeilingBefore
<1>. HIDE DEF h, k0
<1>4. k0 \in 2..i /\ \A m \in k0..i : m < i => ceiling[m] >= ceiling[m + 1]
  BY <1>2
<1>5. k0 \in Nat /\ 2 <= k0 /\ k0 <= i /\ ceiling[k0] \in Nat
  BY <1>4
<1>6. \A m \in k0..i : ceiling[m] <= ceiling[k0]
  <2>. DEFINE n == i - k0
              S == {j \in 0..n : ceiling[k0 + j] <= ceiling[k0]}
  <2>1. n \in Nat /\ 0 \in S
    BY <1>5
  <2>2. ASSUME NEW j \in 1..n, j - 1 \in S PROVE j \in S
    <3>. DEFINE m == k0 + (j - 1)
    <3>1. m \in k0..i /\ m < i /\ m + 1 = k0 + j /\ m \in 2..i /\ m + 1 \in 2..i /\ j \in 0..n
      BY <1>5
    <3>2. ceiling[m] <= ceiling[k0]
      BY <2>2
    <3>3. ceiling[m] >= ceiling[m + 1] /\ ceiling[m] \in Nat /\ ceiling[m + 1] \in Nat
      BY <1>4, <3>1
    <3>. HIDE DEF m
    <3>4. ceiling[m + 1] <= ceiling[k0]
      BY <1>5, <3>2, <3>3
    <3>. QED BY <3>1, <3>4
  <2>3. \A j \in 1..n : j - 1 \in S => j \in S
    BY <2>2
  <2>4. \A j \in 0..n : j \in S
    <3>. HIDE DEF S, n
    <3>. QED BY <2>1, <2>3, UpTo
  <2>5. \A m \in k0..i : m - k0 \in 0..n /\ k0 + (m - k0) = m
    BY <1>5
  <2>. HIDE DEF n
  <2>. QED BY <2>4, <2>5
<1>7. ceiling[i] <= h
  BY <1>3, <1>5, <1>6
<1>8. ASSUME i > 2, ceiling[i - 1] >= ceiling[i] PROVE ceiling[i - 1] <= h
  <2>1. i - 1 \in K
    <3>1. i - 1 \in 2..i /\ \A m \in (i - 1)..i : m = i - 1 \/ m = i
      BY <1>8
    <3>2. ceiling[i - 1] \in Nat /\ ceiling[i] \in Nat /\ (i - 1) + 1 = i
      BY <3>1
    <3>. QED BY <1>8, <3>1, <3>2
  <2>2. k0 <= i - 1
    BY <1>2, <2>1
  <2>3. i - 1 \in k0..i
    BY <1>5, <2>2
  <2>. QED BY <1>3, <1>6, <2>3
<1>. QED BY <1>3, <1>5, <1>7, <1>8 DEF h

(* Pieces are long enough to brake in: see RoomToBrake. *)
IsRoom(p, step, dim) ==
  \A f \in Falls(p, step, dim) : \A i \in 2..(f.index - 1) :
    BrakingCurve(Own, f, step)[i + 1] < f.high => p[PieceAt(p, step, dim)[i]].limit <= f.high

(* A step whose limit is all there is to its bound: the fall into the next *)
(* lower one bounds the step before it.                                    *)
LEMMA FallBounds ==
  ASSUME NEW s, NEW p, NEW step, NEW dim, IsCut(s, p, step, dim), AreApart(p, step),
         Length(s) <= dim * step + step, NEW i \in 2..(dim - 1)
  PROVE  LET at == PieceAt(p, step, dim)
             max == SpeedLimitMax(Own, p, step, dim)
             low == IF i = dim - 1 THEN 0 ELSE p[at[i + 1]].limit
         IN  max[i] <= BrakeUp(Own, low, step)
<1>. DEFINE at == PieceAt(p, step, dim)
            max == SpeedLimitMax(Own, p, step, dim)
            low == IF i = dim - 1 THEN 0 ELSE p[at[i + 1]].limit
            c == [j \in 0..dim |-> p[at[j]].limit]
            up == BrakeUp(Own, low, step)
<1>1. /\ step \in Nat \ {0} /\ dim \in Nat /\ dim * step < Length(s) /\ Length(s) \in Nat
      /\ Len(p) \in Nat \ {0} /\ DOMAIN p = 1..Len(p) /\ p[Len(p)].to = Length(s)
      /\ \A n \in 1..Len(p) : p[n].limit \in Nat
  BY AllowedIs DEF IsCut, IsPieces
<1>2. /\ \A j \in 0..dim : at[j] \in 1..Len(p)
      /\ \A j \in 1..dim : at[j] = IF j * step < p[at[j - 1]].to THEN at[j - 1] ELSE at[j - 1] + 1
  BY PieceAtIs
<1>3. \A j \in 1..dim : j * step < p[at[j]].to
  BY StepsInPieces
<1>4. /\ \A j \in 0..dim : max[j] \in Nat /\ max[j] <= p[at[j]].limit
      /\ \A j \in 0..(dim - 1), f \in Falls(p, step, dim) :
           j \in 1..f.index /\ BrakingCurve(Own, f, step)[j] < f.high
             => max[j] <= BrakingCurve(Own, f, step)[j]
  BY BoundIs, AllowedIs DEF IsCut
<1>5. \A j \in 0..dim : c[j] = p[at[j]].limit
  OBVIOUS
<1>6. \A j, index \in Int, l \in Nat :
        /\ j \in 0..dim /\ (j + 1) * step >= p[at[j]].to
        /\ \/ at[j] < Len(p) /\ p[at[j] + 1].limit < p[at[j]].limit /\ l = p[at[j] + 1].limit /\ index = j
           \/ at[j] = Len(p) /\ l = 0 /\ index = j - 1
        => [low |-> l, high |-> CeilingBefore(l, c, j), index |-> index] \in Falls(p, step, dim)
  BY DEF Falls
<1>. HIDE DEF at, max, c
<1>7. i \in Nat /\ 2 <= i /\ i < dim /\ i \in 0..dim /\ i \in 0..(dim - 1) /\ i + 1 \in 0..dim /\ i + 1 \in 1..dim
  BY <1>1
<1>8. low \in Nat
  BY <1>1, <1>2, <1>7
<1>9. up \in Nat /\ low <= up
  BY <1>1, <1>8, BrakeUpIs
<1>10. \A j \in 0..dim : c[j] \in Nat
  BY <1>1, <1>2, <1>5
<1>. HIDE DEF low, up
<1>11. ASSUME NEW f \in Falls(p, step, dim), f.low = low, f.index = i,
              f.high \in Nat, c[i] <= f.high
       PROVE  max[i] <= up
  <2>. DEFINE w == BrakingCurve(Own, f, step)
  <2>1. f.low \in Nat /\ f.index \in Nat /\ i \in 1..f.index /\ step \in Nat
    BY <1>1, <1>7, <1>8, <1>11
  <2>2. w[f.index + 1] = f.low /\ \A k \in 1..f.index : w[k] = BrakeUp(Own, w[k + 1], step)
    <3>. HIDE DEF w
    <3>. QED BY <2>1, CurveFalls DEF w
  <2>3. w[i] = up
    <3>. HIDE DEF w
    <3>. QED BY <1>11, <2>1, <2>2 DEF up
  <2>4. max[i] \in Nat /\ max[i] <= c[i] /\ c[i] \in Nat
    BY <1>4, <1>5, <1>7, <1>10
  <2>5. up < f.high => max[i] <= up
    BY <1>4, <1>7, <2>1, <2>3
  <2>6. ~(up < f.high) => max[i] <= up
    BY <1>9, <1>11, <2>4
  <2>. QED BY <2>5, <2>6
<1>12. ASSUME i = dim - 1 PROVE max[i] <= up
  <2>. DEFINE h == CeilingBefore(0, c, dim)
              f == [low |-> 0, high |-> h, index |-> i]
  <2>1. dim \in 0..dim /\ dim \in 1..dim /\ dim \in Int /\ i \in Int /\ 0 \in Nat /\ i = dim - 1 /\ dim - 1 \in 0..dim
    BY <1>1, <1>7, <1>12
  <2>2. at[dim] = Len(p) /\ (dim + 1) * step >= p[at[dim]].to
    <3>. DEFINE x == dim * step
    <3>1. (dim + 1) * step = x + step /\ x \in Nat
      BY <1>1
    <3>2. x < p[at[dim]].to /\ at[dim] \in 1..Len(p)
      BY <1>2, <1>3, <2>1
    <3>3. Length(s) <= x + step
      OBVIOUS
    <3>. HIDE DEF x
    <3>4. at[dim] = Len(p)
      <4>1. CASE at[dim] < Len(p)
        <5>1. Len(p) \in DOMAIN p /\ at[dim] \in DOMAIN p
          BY <1>1, <3>2
        <5>2. p[at[dim]].to + step < p[Len(p)].to /\ p[at[dim]].to \in Nat
          BY <4>1, <5>1 DEF AreApart
        <5>. QED BY <1>1, <3>1, <3>2, <3>3, <5>2
      <4>. QED BY <1>1, <3>2, <4>1
    <3>. QED BY <1>1, <3>1, <3>3, <3>4
  <2>3. f \in Falls(p, step, dim)
    BY <1>6, <1>12, <2>1, <2>2
  <2>4. \A m \in 2..dim : c[m] \in Nat
    <3>1. \A m \in 2..dim : m \in 0..dim
      BY <1>1
    <3>. QED BY <1>10, <3>1
  <2>5. h \in Nat /\ c[dim] <= h /\ (dim > 2 /\ c[dim - 1] >= c[dim] => c[dim - 1] <= h)
    <3>1. dim \in Nat /\ dim >= 2 /\ c[dim] >= 0
      BY <1>1, <1>7, <1>10, <2>1
    <3>2. LET g == CeilingBefore(0, c, dim)
          IN  /\ g \in Nat /\ c[dim] <= g
              /\ dim > 2 /\ c[dim - 1] >= c[dim] => c[dim - 1] <= g
      BY <2>1, <2>4, <3>1, CeilingIs
    <3>. QED BY <3>2
  <2>6. low = 0
    BY <1>12 DEF low
  <2>. HIDE DEF h
  <2>7. c[i] <= h
    <3>1. c[dim] \in Nat /\ c[dim - 1] \in Nat /\ dim > 2
      BY <1>7, <1>10, <2>1
    <3>. QED BY <2>1, <2>5, <3>1
  <2>8. f.low = low /\ f.index = i /\ f.high = h
    BY <2>6
  <2>. HIDE DEF f
  <2>. QED BY <1>11, <2>3, <2>5, <2>7, <2>8
<1>13. ASSUME i # dim - 1 PROVE max[i] <= up
  <2>1. low = c[i + 1] /\ c[i] \in Nat /\ c[i + 1] \in Nat
    BY <1>5, <1>7, <1>10, <1>13 DEF low
  <2>2. ASSUME c[i + 1] >= c[i] PROVE max[i] <= up
    <3>1. max[i] <= c[i] /\ max[i] \in Nat
      BY <1>4, <1>5, <1>7
    <3>. QED BY <1>9, <2>1, <2>2, <3>1
  <2>3. ASSUME c[i + 1] < c[i] PROVE max[i] <= up
    <3>. DEFINE h == CeilingBefore(low, c, i)
                f == [low |-> low, high |-> h, index |-> i]
    <3>1. at[i + 1] = at[i] + 1 /\ (i + 1) * step >= p[at[i]].to
      <4>1. /\ at[i + 1] = IF (i + 1) * step < p[at[i]].to THEN at[i] ELSE at[i] + 1
            /\ at[i] \in 1..Len(p) /\ at[i + 1] \in 1..Len(p) /\ (i + 1) - 1 = i
        BY <1>2, <1>7
      <4>2. ~(at[i + 1] = at[i])
        BY <1>5, <1>7, <2>1, <2>3
      <4>3. (i + 1) * step \in Nat /\ p[at[i]].to \in Nat
        BY <1>1, <1>7, <4>1 DEF AreApart
      <4>. QED BY <4>1, <4>2, <4>3
    <3>2. at[i] < Len(p) /\ p[at[i] + 1].limit < p[at[i]].limit /\ low = p[at[i] + 1].limit
      <4>1. at[i] \in 1..Len(p) /\ at[i + 1] \in 1..Len(p)
        BY <1>2, <1>7
      <4>. QED BY <1>1, <1>5, <1>7, <2>1, <2>3, <3>1, <4>1
    <3>3. f \in Falls(p, step, dim)
      <4>1. i \in Int /\ i \in 0..dim
        BY <1>7
      <4>. QED BY <1>6, <1>8, <3>1, <3>2, <4>1
    <3>4. \A m \in 2..i : c[m] \in Nat
      <4>1. \A m \in 2..i : m \in 0..dim
        BY <1>1, <1>7
      <4>. QED BY <1>10, <4>1
    <3>5. h \in Nat /\ c[i] <= h
      <4>1. c[i] >= low
        BY <2>1, <2>3
      <4>2. LET g == CeilingBefore(low, c, i)
            IN  /\ g \in Nat /\ c[i] <= g
                /\ i > 2 /\ c[i - 1] >= c[i] => c[i - 1] <= g
        BY <1>7, <1>8, <3>4, <4>1, CeilingIs
      <4>. QED BY <4>2
    <3>. HIDE DEF h
    <3>6. f.low = low /\ f.index = i /\ f.high = h
      OBVIOUS
    <3>. HIDE DEF f
    <3>. QED BY <1>11, <3>3, <3>5, <3>6
  <2>. QED BY <2>1, <2>2, <2>3
<1>14. max[i] <= up
  BY <1>12, <1>13
<1>. QED BY <1>14 DEF max, up, low, at

(* From one step to the next the bound falls no more than the brake it was *)
(* bent with can follow.                                                   *)
LEMMA BoundBrakes ==
  ASSUME NEW s, NEW p, NEW step, NEW dim, IsCut(s, p, step, dim), AreApart(p, step),
         IsRoom(p, step, dim), Length(s) <= dim * step + step, NEW i \in 2..(dim - 1)
  PROVE  LET max == SpeedLimitMax(Own, p, step, dim)
         IN  max[i] \in Nat /\ max[i + 1] \in Nat /\ max[i] <= BrakeUp(Own, max[i + 1], step)
<1>. DEFINE at == PieceAt(p, step, dim)
            max == SpeedLimitMax(Own, p, step, dim)
            c == [j \in 0..dim |-> p[at[j]].limit]
            up == BrakeUp(Own, max[i + 1], step)
<1>1. /\ step \in Nat \ {0} /\ dim \in Nat
      /\ DOMAIN p = 1..Len(p) /\ \A n \in 1..Len(p) : p[n].limit \in Nat
  BY AllowedIs DEF IsCut, IsPieces
<1>2. /\ max[dim] = 0
      /\ \A j \in 0..dim : max[j] \in Nat /\ max[j] <= p[at[j]].limit
      /\ \A j \in 0..(dim - 1), f \in Falls(p, step, dim) :
           j \in 1..f.index /\ BrakingCurve(Own, f, step)[j] < f.high
             => max[j] <= BrakingCurve(Own, f, step)[j]
      /\ \A j \in 0..(dim - 1) :
           \/ max[j] = p[at[j]].limit
           \/ \E f \in Falls(p, step, dim) :
                /\ j \in 1..f.index /\ BrakingCurve(Own, f, step)[j] < f.high
                /\ max[j] = BrakingCurve(Own, f, step)[j]
  <2>1. LimitZones # {}
    BY DEF IsCut
  <2>2. /\ max[dim] = 0
        /\ \A j \in 0..dim : max[j] \in Allowed /\ max[j] <= p[at[j]].limit
        /\ \A j \in 0..(dim - 1), f \in Falls(p, step, dim) :
             j \in 1..f.index /\ BrakingCurve(Own, f, step)[j] < f.high
               => max[j] <= BrakingCurve(Own, f, step)[j]
        /\ \A j \in 0..(dim - 1) :
             \/ max[j] = p[at[j]].limit
             \/ \E f \in Falls(p, step, dim) :
                  /\ j \in 1..f.index /\ BrakingCurve(Own, f, step)[j] < f.high
                  /\ max[j] = BrakingCurve(Own, f, step)[j]
    BY BoundIs
  <2>. HIDE DEF max, at
  <2>. QED BY <2>1, <2>2, AllowedIs
<1>3. max[i] <= BrakeUp(Own, IF i = dim - 1 THEN 0 ELSE p[at[i + 1]].limit, step)
  BY FallBounds
<1>4. /\ \A j \in 0..dim : at[j] \in 1..Len(p)
      /\ \A j \in 0..dim : c[j] = p[at[j]].limit /\ c[j] \in Nat
  <2>1. \A j \in 0..dim : at[j] \in 1..Len(p)
    BY PieceAtIs
  <2>2. \A j \in 0..dim : c[j] = p[at[j]].limit
    OBVIOUS
  <2>. HIDE DEF at, c
  <2>. QED BY <1>1, <2>1, <2>2
<1>5. i \in Nat /\ 2 <= i /\ i < dim /\ i \in 0..dim /\ i + 1 \in 0..dim /\ i \in 0..(dim - 1)
  BY <1>1
<1>6. \A f \in Falls(p, step, dim) : \A j \in 2..(f.index - 1) :
        BrakingCurve(Own, f, step)[j + 1] < f.high => p[at[j]].limit <= f.high
  BY DEF IsRoom
<1>. HIDE DEF max, c
<1>7. ASSUME NEW f \in Falls(p, step, dim), i + 1 \in 1..f.index,
              BrakingCurve(Own, f, step)[i + 1] < f.high,
              max[i + 1] = BrakingCurve(Own, f, step)[i + 1]
      PROVE  max[i] <= up
  <2>. DEFINE w == BrakingCurve(Own, f, step)
  <2>1. f.low \in Nat /\ f.index \in Int /\ f.index <= dim
    BY FallsAre
  <2>2. PICK k \in Left(p, step, dim) :
          /\ f.high = CeilingBefore(f.low, c, k)
          /\ \/ /\ at[k] < Len(p) /\ p[at[k] + 1].limit < p[at[k]].limit
                /\ f.low = p[at[k] + 1].limit /\ f.index = k
             \/ at[k] = Len(p) /\ f.low = 0 /\ f.index = k - 1
    BY FallsAre DEF c
  <2>3. f.index \in Nat /\ f.index >= i + 1 /\ i \in 1..f.index /\ i \in 2..(f.index - 1)
    BY <1>5, <1>7, <2>1
  <2>4. k \in 0..dim
    BY DEF Left
  <2>5. f.high \in Nat
    <3>1. k \in Nat /\ k >= 2
      BY <1>1, <1>5, <2>2, <2>3, <2>4
    <3>2. \A m \in 2..k : c[m] \in Nat
      <4>1. \A m \in 2..k : m \in 0..dim
        BY <1>1, <2>4, <3>1
      <4>. QED BY <1>4, <4>1
    <3>3. c[k] >= f.low
      <4>1. at[k] \in 1..Len(p) /\ c[k] = p[at[k]].limit /\ c[k] \in Nat
        BY <1>4, <2>4
      <4>2. at[k] < Len(p) => p[at[k] + 1].limit \in Nat
        BY <1>1, <4>1
      <4>. QED BY <2>2, <4>1, <4>2
    <3>. QED BY <2>1, <2>2, <3>1, <3>2, <3>3, CeilingIs
  <2>6. /\ \A j \in 1..(f.index + 1) : w[j] \in Nat
        /\ \A j \in 1..f.index : w[j] = BrakeUp(Own, w[j + 1], step)
    <3>1. step \in Nat
      BY <1>1
    <3>. HIDE DEF w
    <3>. QED BY <2>1, <2>3, <3>1, CurveFalls DEF w
  <2>7. w[i] = up /\ w[i] \in Nat
    <3>1. i \in 1..(f.index + 1)
      BY <2>3
    <3>2. w[i] = BrakeUp(Own, w[i + 1], step) /\ w[i] \in Nat
      <4>. HIDE DEF w
      <4>. QED BY <2>3, <2>6, <3>1
    <3>. QED BY <1>7, <3>2
  <2>8. w[i] < f.high => max[i] <= w[i]
    BY <1>2, <1>5, <2>3
  <2>9. max[i] <= c[i] /\ c[i] <= f.high /\ max[i] \in Nat /\ c[i] \in Nat
    BY <1>2, <1>4, <1>5, <1>6, <1>7, <2>3
  <2>. HIDE DEF w, up
  <2>. QED BY <2>5, <2>7, <2>8, <2>9
<1>8. max[i] <= up
  <2>1. CASE i = dim - 1
    <3>1. i + 1 = dim
      BY <1>1, <2>1
    <3>. QED BY <1>2, <1>3, <2>1, <3>1
  <2>2. CASE i # dim - 1
    <3>1. i + 1 \in 0..(dim - 1)
      BY <1>1, <1>5, <2>2
    <3>2. CASE max[i + 1] = p[at[i + 1]].limit
      BY <1>3, <2>2, <3>2
    <3>3. CASE max[i + 1] # p[at[i + 1]].limit
      <4>1. PICK f \in Falls(p, step, dim) :
              /\ i + 1 \in 1..f.index /\ BrakingCurve(Own, f, step)[i + 1] < f.high
              /\ max[i + 1] = BrakingCurve(Own, f, step)[i + 1]
        BY <1>2, <3>1, <3>3
      <4>. HIDE DEF up
      <4>. QED BY <1>7, <4>1
    <3>. QED BY <3>2, <3>3
  <2>. QED BY <2>1, <2>2
<1>9. max[i] \in Nat /\ max[i + 1] \in Nat
  BY <1>2, <1>5
<1>. QED BY <1>8, <1>9 DEF up, max

(* The speed of an energy is not below one of no more energy. *)
LEMMA SpeedOfEnergy ==
  ASSUME NEW e \in Nat, NEW m \in Nat, Energy(m) <= e
  PROVE  m <= Speed(e)
<1>. DEFINE q == m * m
            n == e \div 4
<1>1. q \in Nat /\ Energy(m) = 4 * q
  BY DEF Energy
<1>. HIDE DEF q
<1>2. n \in Nat /\ q <= n
  BY <1>1
<1>3. m * m <= n
  BY <1>2 DEF q
<1>. HIDE DEF n
<1>4. m <= Root(n)
  BY <1>2, <1>3, RootAbove
<1>. QED BY <1>4 DEF Speed, n

(* Where the run brakes it comes to the bound, with the level of the step  *)
(* before or with the one worked out.                                      *)
LEMMA RunBrakes ==
  ASSUME NEW pl, NEW s, IsRunnable(pl, s), NEW i \in 1..(pl.dim - 1),
         Run(pl)[i].flag = Braking
  PROVE  LET e == RunStates(pl)[i].e
             v == Run(pl)[i].speed
             m == pl.max[i + 1]
             need == Energy(m) - e + Added(pl, GradientAcc(pl.slopes, i * pl.step))
             brake == Added(pl, BrakeAcc(Own, v))
         IN  /\ Run(pl)[i + 1].speed = m
             /\ v = Speed(e) /\ e \in Nat /\ e <= Energy(pl.max[i])
             /\ need < 0
             /\ \/ Run(pl)[i].value = Run(pl)[i - 1].value
                \/ Run(pl)[i].value = (-100 * need) \div brake
<1>. DEFINE run == RunStates(pl)
            t == Run(pl)
            r == run[i]
            v == t[i].speed
            m == pl.max[i + 1]
            top == Energy(m)
            g == Added(pl, GradientAcc(pl.slopes, i * pl.step))
            need == top - r.e + g
            brake == Added(pl, BrakeAcc(Own, v))
            L == LevelAtBound(pl, r, i, top)
<1>1. pl.dim \in Nat /\ pl.train = Own
  BY RunnableIs DEF IsRunnable
<1>2. /\ i \in 0..pl.dim /\ i - 1 \in 0..pl.dim /\ i + 1 \in 0..pl.dim /\ i + 1 \in 1..pl.dim
      /\ i \in 1..pl.dim /\ i \in 0..(pl.dim - 1) /\ i > 0 /\ i < pl.dim /\ i - 1 < pl.dim
      /\ (i + 1) - 1 = i /\ (i - 1) + 1 = i
  BY <1>1
<1>3. r \in RunState /\ run[i + 1] \in RunState /\ run[i + 1] = RunStep(pl, r, i) /\ r.e <= Energy(pl.max[i])
  BY <1>2, RunStatesAre
<1>4. t = [j \in 0..pl.dim |->
             [speed |-> Speed(run[j].e),
              flag |-> IF j < pl.dim THEN run[j + 1].flag ELSE Braking,
              value |-> IF j < pl.dim THEN run[j + 1].value ELSE 100]]
  BY DEF Run
<1>. HIDE DEF t, run
<1>5. /\ t[i].speed = Speed(r.e) /\ t[i + 1].speed = Speed(run[i + 1].e)
      /\ t[i].flag = run[i + 1].flag /\ t[i].value = run[i + 1].value /\ t[i - 1].value = r.value
  <2>1. \A j \in 0..pl.dim :
          /\ t[j].speed = Speed(run[j].e)
          /\ j < pl.dim => t[j].flag = run[j + 1].flag /\ t[j].value = run[j + 1].value
    BY <1>4
  <2>2. t[i].flag = run[i + 1].flag /\ t[i].value = run[i + 1].value
    BY <1>2, <2>1
  <2>. DEFINE k == i - 1
  <2>3. k \in 0..pl.dim /\ k < pl.dim /\ k + 1 = i
    BY <1>2
  <2>. HIDE DEF k
  <2>4. t[k].value = run[i].value
    BY <2>1, <2>3
  <2>. QED BY <1>2, <2>1, <2>2, <2>4 DEF k
<1>6. m \in Nat /\ g \in Int /\ r.e \in Nat
  <2>1. GradientAcc(pl.slopes, i * pl.step) \in Int
    BY <1>2, RunnableIs
  <2>2. g \in Int
    BY <2>1, AddedIs
  <2>. QED BY <1>2, <1>3, <2>2, RunnableIs DEF RunState
<1>. HIDE DEF m, g
<1>7. top \in Nat
  <2>1. 4 * m * m \in Nat
    BY <1>6
  <2>. QED BY <2>1 DEF Energy
<1>. DEFINE e == Reached(pl, r, i)
            level == IF e > top THEN L
                     ELSE IF Pulls(pl, r, i) THEN [flag |-> Traction, value |-> 80]
                     ELSE [flag |-> Coasting, value |-> 0]
<1>8. RunStep(pl, r, i) = [e |-> IF e > top THEN top ELSE e, k |-> NextSwitch(pl, r, i),
                           flag |-> level.flag, value |-> level.value]
  BY DEF RunStep, m
<1>. HIDE DEF L, e, top, r
<1>9. level.flag = Braking
  BY <1>3, <1>5, <1>8 DEF t
<1>10. e > top /\ level = L
  BY <1>9 DEF Traction, Coasting, Braking
<1>11. run[i + 1].e = top /\ L.flag = Braking /\ t[i].value = L.value
  BY <1>3, <1>5, <1>8, <1>9, <1>10
<1>12. t[i + 1].speed = m
  <2>1. Energy(m) = top /\ top <= Energy(m)
    BY <1>7 DEF top
  <2>2. Speed(top) \in Nat /\ Speed(top) <= m
    BY <1>6, <1>7, <2>1, SpeedIs
  <2>3. m <= Speed(top)
    BY <1>6, <1>7, <2>1, SpeedOfEnergy
  <2>. QED BY <1>5, <1>6, <1>11, <2>2, <2>3
<1>. DEFINE value == (-100 * need) \div brake
            kept == IF i > 0 /\ value - r.value \in -9..9 THEN r.value ELSE value
            full == IF Pulls(pl, r, i) THEN top - r.e + Added(pl, Resisting(pl, i, v))
                    ELSE Added(pl, TractionAcc(Own, v))
<1>13. L = IF need > 0 THEN [flag |-> Traction, value |-> (100 * need) \div full]
           ELSE IF -5 * need > brake THEN [flag |-> Braking, value |-> kept]
           ELSE [flag |-> Coasting, value |-> 0]
  BY <1>1, <1>5 DEF L, LevelAtBound, g
<1>14. brake \in Nat
  <2>1. v \in Nat
    BY <1>5, <1>6, SpeedIs
  <2>2. BrakeAcc(Own, v) \in Nat
    BY <2>1, ForcesAre
  <2>3. BrakeAcc(Own, v) \in Int
    BY <2>2
  <2>. QED BY <2>2, <2>3, AddedIs
<1>15. need \in Int
  BY <1>6, <1>7
<1>. HIDE DEF kept, full, need, brake
<1>16. ~(need > 0) /\ -5 * need > brake /\ L.value = kept
  BY <1>11, <1>13 DEF Traction, Coasting, Braking
<1>17. need < 0
  BY <1>14, <1>15, <1>16
<1>18. t[i].value = t[i - 1].value \/ t[i].value = (-100 * need) \div brake
  BY <1>5, <1>11, <1>16 DEF kept
<1>. QED BY <1>3, <1>5, <1>6, <1>12, <1>17, <1>18 DEF need, brake, top, g, m, t, run, r

(* The bound of a plan that was found, when its pieces have room to brake. *)
LEMMA BoundNow ==
  ASSUME MadeInv, PlanInv, Online, Apart, RoomToBrake
  PROVE  /\ train = Own /\ IsRunnable(plan, section) /\ table = Run(plan)
         /\ \A i \in 2..(plan.dim - 1) :
              /\ plan.max[i] \in Nat /\ plan.max[i + 1] \in Nat
              /\ plan.max[i] <= BrakeUp(Own, plan.max[i + 1], plan.step)
<1>. DEFINE s == section
            step == plan.step
            dim == plan.dim
            max == plan.max
<1>1. mode = 1
  BY DEF Online
<1>2. /\ s \in Sections /\ LimitZones # {} /\ train = Own
      /\ IsCut(s, pieces, step, dim) /\ IsRunnable(plan, s)
      /\ max = SpeedLimitMax(Own, pieces, step, dim)
  BY <1>1, RunnableNow
<1>3. table = Run(plan)
  BY <1>1 DEF MadeInv
<1>4. AreApart(pieces, step)
  BY ApartNow
<1>5. IsRoom(pieces, step, dim)
  BY <1>2 DEF RoomToBrake, IsRoom
<1>6. Length(s) <= dim * step + step
  <2>1. Length(s) \in Nat \ {0} /\ step \in Nat \ {0} /\ dim = LastStep(Length(s), step)
    BY <1>2, RunnableIs DEF IsRunnable
  <2>. DEFINE l == Length(s)
  <2>. HIDE DEF step, dim, l
  <2>2. l <= LastStep(l, step) * step + step
    BY <2>1, StepsFit DEF l
  <2>. QED BY <2>1, <2>2 DEF l
<1>. HIDE DEF s, step, dim, max
<1>7. \A i \in 2..(dim - 1) :
        max[i] \in Nat /\ max[i + 1] \in Nat /\ max[i] <= BrakeUp(Own, max[i + 1], step)
  BY <1>2, <1>4, <1>5, <1>6, BoundBrakes
<1>. QED BY <1>2, <1>3, <1>7 DEF s, step, dim, max

(* Wherever braking is advised the brake that was planned with brings the  *)
(* train from each speed of the plan to the next, for every line, train,   *)
(* section and run: the braking curves of all the falls ahead, none of     *)
(* which need be the next one, are followed by the run.                    *)
THEOREM BrakingSuffices == Spec => []Brakeable
<1>1. MadeInv /\ PlanInv => Brakeable
  <2>. SUFFICES ASSUME MadeInv, PlanInv, Online, Apart, RoomToBrake,
                       NEW i \in 2..(plan.dim - 1), table[i].flag = Braking
                PROVE  table[i].speed <= BrakeUp(train, table[i + 1].speed, plan.step)
    BY DEF Brakeable
  <2>1. /\ train = Own /\ IsRunnable(plan, section) /\ table = Run(plan)
        /\ plan.max[i] \in Nat /\ plan.max[i + 1] \in Nat
        /\ plan.max[i] <= BrakeUp(Own, plan.max[i + 1], plan.step)
    BY BoundNow
  <2>2. plan.dim \in Nat /\ plan.step \in Nat \ {0}
    BY <2>1, RunnableIs
  <2>3. i \in 1..(plan.dim - 1) /\ i \in 1..plan.dim /\ i \in 0..plan.dim
    BY <2>2
  <2>4. table[i + 1].speed = plan.max[i + 1]
    BY <2>1, <2>3, RunBrakes
  <2>5. table[i].speed \in Nat /\ table[i].speed <= plan.max[i]
    BY <2>1, <2>3, RunIs
  <2>. DEFINE up == BrakeUp(Own, plan.max[i + 1], plan.step)
  <2>6. up \in Nat
    BY <2>1, <2>2, BrakeUpIs
  <2>7. table[i].speed <= up
    <3>. HIDE DEF up
    <3>. QED BY <2>1, <2>5, <2>6 DEF up
  <2>. QED BY <2>1, <2>4, <2>7
<1>. QED BY <1>1, MadeInvariance, PlanInvariance, PTL

(* The brake that was planned with is enough for what the run takes off in *)
(* a step, and there is more of it at the speed before.                    *)
LEMMA LevelFits ==
  ASSUME NEW step \in {Short, Wide}, step \in Nat \ {0}, NEW top \in AllLimits, top \in Nat,
         NEW m \in 0..top, NEW n \in Nat, n <= BrakeUp(Own, m, step),
         NEW e \in Nat, e <= Energy(n), Energy(m) <= e
  PROVE  e - Energy(m) <= 8 * step * BrakeAcc(Own, Speed(e))
<1>. DEFINE v == Speed(e)
            b == PlannedBrake(Own, m)
            u == BrakeUp(Own, m, step)
            B == BrakeAcc(Own, v)
<1>1. m \in Nat /\ step \in Nat
  OBVIOUS
<1>2. b \in Nat /\ u \in Nat /\ m <= u /\ u * u <= m * m + 2 * b * step
  BY <1>1, BrakeUpIs
<1>3. v \in Nat /\ v <= n /\ m <= v
  BY <1>1, SpeedIs, SpeedOfEnergy
<1>4. v \in m..u
  <2>. HIDE DEF v, u
  <2>. QED BY <1>1, <1>2, <1>3 DEF u
<1>5. b <= B
  BY <1>4, BrakeAssumption DEF Own
<1>6. B \in Nat
  BY <1>3, ForcesAre
<1>7. n * n <= u * u /\ n * n \in Nat /\ u * u \in Nat
  <2>. HIDE DEF u
  <2>1. n <= u
    BY DEF u
  <2>2. n * n <= n * u
    BY <1>2, <2>1
  <2>3. n * u <= u * u
    BY <1>2, <2>1
  <2>. QED BY <1>2, <2>2, <2>3
<1>. HIDE DEF v, b, u, B
<1>8. step * b <= step * B /\ step * b \in Nat /\ step * B \in Nat
  BY <1>1, <1>2, <1>5, <1>6
<1>. DEFINE p == step * b
            q == step * B
            nn == n * n
            uu == u * u
            mm == m * m
<1>9. 2 * b * step = 2 * p /\ 8 * step * B = 8 * q
  BY <1>1, <1>2, <1>6
<1>10. Energy(n) = 4 * nn /\ Energy(m) = 4 * mm /\ mm \in Nat
  <2>1. 4 * n * n = 4 * (n * n) /\ 4 * m * m = 4 * (m * m) /\ m * m \in Nat
    BY <1>1
  <2>. QED BY <2>1 DEF Energy
<1>11. nn <= uu /\ uu <= mm + 2 * p /\ p <= q /\ nn \in Nat /\ uu \in Nat /\ p \in Nat /\ q \in Nat
  BY <1>2, <1>7, <1>8, <1>9
<1>. HIDE DEF p, q, nn, uu, mm
<1>12. e - Energy(m) <= 8 * q
  BY <1>10, <1>11
<1>. QED BY <1>9, <1>12 DEF q, B, v

(* A share of no more than all, in hundredths. *)
LEMMA Share ==
  ASSUME NEW d \in Nat, NEW b \in Nat \ {0}, d <= b
  PROVE  (100 * d) \div b \in 0..100
<1>. DEFINE q == (100 * d) \div b
<1>1. 100 * d \in Nat
  OBVIOUS
<1>2. q \in Nat /\ q * b <= 100 * d
  BY <1>1, Division
<1>. HIDE DEF q
<1>3. q <= 100
  <2>1. CASE q >= 101
    <3>1. 101 * b <= q * b
      BY <1>2, <2>1, ProductsOrder
    <3>. DEFINE x == q * b
    <3>2. x \in Nat
      BY <1>2
    <3>. HIDE DEF x
    <3>. QED BY <1>2, <3>1, <3>2 DEF x
  <2>. QED BY <1>2, <2>1
<1>. QED BY <1>2, <1>3 DEF q

(* The level of the brake that is shown is one the brake has, where the    *)
(* slope does not help: the bound leaves the run no more to take off in a  *)
(* step than the brake that was planned with does.                         *)
THEOREM LevelsFit == Spec => []LevelInRange
<1>1. MadeInv /\ PlanInv => LevelInRange
  <2>. SUFFICES ASSUME MadeInv, PlanInv, Online, Apart, RoomToBrake,
                       NEW i \in 2..(plan.dim - 1), table[i].flag = Braking,
                       GradientAcc(plan.slopes, i * plan.step) >= 0,
                       table[i - 1].value \in 0..100
                PROVE  table[i].value \in 0..100
    BY DEF LevelInRange
  <2>. DEFINE step == plan.step
              n == plan.max[i]
              m == plan.max[i + 1]
              g == GradientAcc(plan.slopes, i * plan.step)
              e == RunStates(plan)[i].e
              v == table[i].speed
              need == Energy(m) - e + Added(plan, g)
              brake == Added(plan, BrakeAcc(Own, v))
  <2>1. /\ IsRunnable(plan, section) /\ table = Run(plan)
        /\ n \in Nat /\ m \in Nat /\ n <= BrakeUp(Own, m, step)
    BY BoundNow
  <2>2. /\ plan.dim \in Nat /\ step \in Nat \ {0} /\ step \in {Short, Wide}
        /\ i \in 1..(plan.dim - 1) /\ i \in 0..(plan.dim - 1) /\ i + 1 \in 0..plan.dim
    <3>1. plan.dim \in Nat /\ step \in Nat \ {0} /\ step \in {Short, Wide}
      BY <2>1, RunnableIs
    <3>. QED BY <3>1
  <2>3. /\ v = Speed(e) /\ e \in Nat /\ e <= Energy(n) /\ need < 0
        /\ table[i].value = table[i - 1].value \/ table[i].value = (-100 * need) \div brake
    BY <2>1, <2>2, RunBrakes
  <2>4. g \in Int /\ Added(plan, g) \in Nat
    <3>1. g \in Int
      BY <2>1, <2>2, RunnableIs
    <3>2. g \in Nat
      BY <3>1
    <3>. QED BY <2>1, <3>1, <3>2, AddedIs
  <2>5. Energy(m) \in Nat
    <3>1. 4 * m * m \in Nat
      BY <2>1
    <3>. QED BY <3>1 DEF Energy
  <2>6. PICK top \in AllLimits : m \in 0..top /\ top \in Nat
    <3>1. LimitZones # {} /\ m \in Allowed
      BY <2>1, <2>2 DEF IsRunnable
    <3>. QED BY <3>1, AllowedIs
  <2>7. Energy(m) <= e
    <3>. DEFINE x == Energy(m)
                y == Added(plan, g)
    <3>1. x - e + y < 0 /\ x \in Nat /\ y \in Nat /\ e \in Nat
      BY <2>3, <2>4, <2>5
    <3>. HIDE DEF x, y, e
    <3>. QED BY <3>1 DEF x
  <2>8. e - Energy(m) <= 8 * step * BrakeAcc(Own, Speed(e))
    <3>. HIDE DEF e, m, n, step
    <3>. QED BY <2>1, <2>2, <2>3, <2>6, <2>7, LevelFits
  <2>9. e - Energy(m) <= brake
    BY <2>3, <2>8 DEF Added
  <2>10. brake \in Nat \ {0}
    <3>1. v \in Nat
      BY <2>3, SpeedIs
    <3>2. BrakeAcc(Own, v) \in Nat \ {0}
      BY <3>1, ForcesAre
    <3>3. BrakeAcc(Own, v) \in Int /\ BrakeAcc(Own, v) > 0
      BY <3>2
    <3>. QED BY <2>1, <3>2, <3>3, AddedIs
  <2>11. (-100 * need) \div brake \in 0..100
    <3>. DEFINE x == Energy(m)
                y == Added(plan, g)
                d == e + -(x + y)
    <3>1. x - e + y < 0 /\ x \in Nat /\ y \in Nat /\ e \in Nat /\ e - x <= brake
      BY <2>3, <2>4, <2>5, <2>9
    <3>2. need = x - e + y
      OBVIOUS
    <3>. HIDE DEF x, y, e, brake, need
    <3>3. d \in Nat /\ d <= brake /\ -100 * need = 100 * d
      BY <2>10, <3>1, <3>2
    <3>. HIDE DEF d
    <3>4. (100 * d) \div brake \in 0..100
      BY <2>10, <3>3, Share
    <3>. QED BY <3>3, <3>4
  <2>. HIDE DEF need, brake
  <2>. QED BY <2>3, <2>11
<1>. QED BY <1>1, MadeInvariance, PlanInvariance, PTL

-----------------------------------------------------------------------------
(* The search. *)

(* A rank that is not set has the score it started from; the first leader  *)
(* is set by the first wolf.                                               *)
UnsetIsWorst == \A r \in Ranks : ~Set(r) => score[r] = Worst
FirstIsSet == phase # "evaluate" \/ round > 0 \/ wolf > 0 => Set("alpha")

InRound == phase = "move" => round < Iterations

(* From Finish on, evaluate is the score of what the tables hold.          *)
Evaluated ==
  /\ phase \in {"choose", "done"} => tables # None /\ evaluate = cost[tables]
  /\ optimize_mode = 1 => phase = "done" /\ evaluate <= Limit

SearchInv ==
  /\ SearchTypeOK /\ InRound /\ FirstIsSet
  /\ UnsetIsWorst /\ LeadersRanked
  /\ LostOnlyUnled /\ Evaluated

(* What the loop over the wolves leaves in wolf and phase. *)
LEMMA NextWolfTypes ==
  ASSUME SearchTypeOK, NEW next \in {"evaluate", "move"}, NextWolf(next)
  PROVE  wolf' \in Wolves /\ phase' \in {"evaluate", "move", "choose", "done"}
BY SearchAssumption DEF NextWolf, SearchTypeOK, Wolves

LEMMA MovesInPosition == ASSUME SearchTypeOK PROVE Moves \subseteq Position
BY SearchAssumption DEF Moves, Clamp, Position, Places, SearchTypeOK, Means

LEMMA MovesToPlace ==
  ASSUME SearchTypeOK, AllSet, ~Lost
  PROVE  Moves \subseteq Places
BY SearchAssumption DEF Moves, Clamp, Position, Places, SearchTypeOK, Means

(* Each position costs a score. *)
LEMMA CostIsScore ==
  ASSUME SearchTypeOK, NEW m \in Wolves
  PROVE  cost[positions[m]] \in Scores
BY DEF SearchTypeOK

LEMMA AlphaIsSomewhere ==
  ASSUME SearchTypeOK, Set("alpha")
  PROVE  At("alpha") \in Position
BY DEF SearchTypeOK, Set, At, Ranks

(* The three ranks a score may win. *)
LEMMA WinsCases ==
  ASSUME NEW f \in Scores
  PROVE  /\ Wins("alpha", f) <=> f <= score.alpha
         /\ Wins("beta", f) <=> f > score.alpha /\ f < score.beta
         /\ Wins("delta", f) <=> f > score.alpha /\ f > score.beta /\ f < score.delta
BY DEF Wins

-----------------------------------------------------------------------------
LEMMA SearchInitHolds == SearchInit => SearchInv
<1>. SUFFICES ASSUME SearchInit PROVE SearchInv
  OBVIOUS
<1>1. SearchTypeOK
  <2>1. positions \in [Wolves -> Position]
    BY DEF SearchInit, Initialized, Position
  <2>2. Worst \in Scores /\ 0 \in Scores /\ 0 \in Wolves /\ 0 \in 0..Iterations
    BY SearchAssumption DEF Scores, Wolves
  <2>3. leader \in [Ranks -> Wolves \cup {None}] /\ score \in [Ranks -> Scores]
    BY <2>2 DEF SearchInit
  <2>4. phase \in {"evaluate", "move", "choose", "done"} /\ unled \in BOOLEAN
    BY DEF SearchInit
  <2>6. optimize_mode \in 0..2
    BY DEF SearchInit
  <2>7. tables \in Position \cup {None}
    BY DEF SearchInit
  <2>5. cost \in [Position -> Scores] /\ round \in 0..Iterations /\ wolf \in Wolves
        /\ evaluate \in Scores
    BY <2>2 DEF SearchInit
  <2>. QED BY <2>1, <2>3, <2>4, <2>5, <2>6, <2>7 DEF SearchTypeOK
<1>2. InRound /\ FirstIsSet /\ UnsetIsWorst /\ Evaluated
  BY DEF SearchInit, InRound, FirstIsSet, UnsetIsWorst, Evaluated, Set, Ranks
<1>3. LeadersRanked
  BY SearchAssumption DEF SearchInit, LeadersRanked, Set, Ranks
<1>4. LostOnlyUnled
  BY SearchAssumption DEF SearchInit, LostOnlyUnled, Initialized, Places
<1>. QED BY <1>1, <1>2, <1>3, <1>4 DEF SearchInv

(* An evaluation ranks one wolf. *)
LEMMA EvaluateStep == ASSUME SearchInv, Evaluate PROVE SearchInv'
<1>. USE DEF SearchInv
<1>. DEFINE f == cost[positions[wolf]]
<1>1. f \in Scores
  BY CostIsScore DEF SearchTypeOK
<1>2. score' = [r \in Ranks |-> IF Wins(r, f) THEN f ELSE score[r]]
  BY DEF Evaluate
<1>3. leader' = [r \in Ranks |-> IF Wins(r, f) THEN wolf ELSE leader[r]]
  BY DEF Evaluate
<1>4. wolf' \in Wolves /\ phase' \in {"evaluate", "move", "choose", "done"}
  BY NextWolfTypes DEF Evaluate
<1>5. SearchTypeOK'
  <2>1. score' \in [Ranks -> Scores]
    BY <1>1, <1>2 DEF SearchTypeOK
  <2>2. leader' \in [Ranks -> Wolves \cup {None}]
    BY <1>3 DEF SearchTypeOK
  <2>3. tables' \in Position
    BY DEF Evaluate, SearchTypeOK
  <2>. QED BY <1>4, <2>1, <2>2, <2>3 DEF Evaluate, SearchTypeOK
<1>6. InRound'
  BY DEF Evaluate, NextWolf, InRound
<1>7. None \notin Wolves
  BY SearchAssumption DEF Wolves
<1>8. wolf \in Wolves
  BY DEF SearchTypeOK
<1>9. /\ "alpha" \in Ranks /\ "beta" \in Ranks /\ "delta" \in Ranks
      /\ \A r \in Ranks : r = "alpha" \/ r = "beta" \/ r = "delta"
  BY DEF Ranks
<1>10. \A r \in Ranks : score[r] \in Scores
  BY DEF SearchTypeOK
<1>11. \A r \in Ranks : /\ score'[r] = IF Wins(r, f) THEN f ELSE score[r]
                        /\ Set(r)' <=> Wins(r, f) \/ Set(r)
  BY <1>2, <1>3, <1>7, <1>8 DEF Set
<1>12. UnsetIsWorst'
  BY <1>11 DEF UnsetIsWorst
<1>13. FirstIsSet'
  <2>1. CASE Set("alpha")
    BY <1>9, <1>11, <2>1 DEF FirstIsSet
  <2>2. CASE ~Set("alpha")
    <3>1. score.alpha = Worst
      BY <1>9, <2>2 DEF UnsetIsWorst
    <3>2. Wins("alpha", f)
      BY <1>1, <3>1, WinsCases, SearchAssumption DEF Scores
    <3>. QED BY <1>9, <1>11, <3>2 DEF FirstIsSet
  <2>. QED BY <2>1, <2>2
<1>14. LeadersRanked'
  <2>1. /\ score'.alpha = IF Wins("alpha", f) THEN f ELSE score.alpha
        /\ score'.beta = IF Wins("beta", f) THEN f ELSE score.beta
        /\ score'.delta = IF Wins("delta", f) THEN f ELSE score.delta
    BY <1>9, <1>11
  <2>2. /\ Set("beta")' <=> Wins("beta", f) \/ Set("beta")
        /\ Set("delta")' <=> Wins("delta", f) \/ Set("delta")
    BY <1>9, <1>11
  <2>3. f \in Int /\ score.alpha \in Int /\ score.beta \in Int /\ score.delta \in Int /\ f <= Worst
    BY <1>1, <1>9, <1>10, SearchAssumption DEF Scores
  <2>4. ~Set("beta") => score.beta = Worst
    BY <1>9 DEF UnsetIsWorst
  <2>. QED BY <1>1, <2>1, <2>2, <2>3, <2>4, WinsCases DEF LeadersRanked
<1>15. LostOnlyUnled'
  BY DEF Evaluate, LostOnlyUnled
<1>16. Evaluated'
  BY DEF Evaluate, NextWolf, Evaluated
<1>. QED BY <1>5, <1>6, <1>12, <1>13, <1>14, <1>15, <1>16

(* A move keeps a led pack between the bounds. *)
LEMMA MoveStep == ASSUME SearchInv, Move PROVE SearchInv'
<1>. USE DEF SearchInv
<1>1. PICK p \in Moves : positions' = [positions EXCEPT ![wolf] = p]
  BY DEF Move
<1>2. wolf' \in Wolves /\ phase' \in {"evaluate", "move", "choose", "done"}
  BY NextWolfTypes DEF Move
<1>3. SearchTypeOK'
  <2>1. positions' \in [Wolves -> Position]
    BY <1>1, MovesInPosition DEF SearchTypeOK
  <2>2. round' \in 0..Iterations
    BY SearchAssumption DEF Move, InRound, SearchTypeOK
  <2>3. unled' \in BOOLEAN
    BY DEF Move, SearchTypeOK
  <2>. QED BY <1>2, <2>1, <2>2, <2>3 DEF Move, SearchTypeOK
<1>4. InRound'
  BY DEF Move, NextWolf, InRound, SearchTypeOK
<1>5. FirstIsSet'
  BY DEF Move, FirstIsSet, Set
<1>6. UnsetIsWorst'
  BY DEF Move, UnsetIsWorst, Set
<1>7. LeadersRanked'
  BY DEF Move, LeadersRanked, Set
<1>8. LostOnlyUnled'
  <2>1. CASE unled \/ ~AllSet
    BY <2>1 DEF Move, LostOnlyUnled
  <2>2. CASE ~unled /\ AllSet
    <3>1. \A m \in Wolves : positions[m] # NaN
      BY <2>2 DEF LostOnlyUnled
    <3>2. \A r \in Ranks : leader[r] \in Wolves
      BY <2>2 DEF AllSet, Set, SearchTypeOK
    <3>3. ~Lost
      BY <3>1, <3>2 DEF Lost, At
    <3>4. p # NaN
      BY <2>2, <3>3, MovesToPlace, SearchAssumption DEF Places
    <3>. QED BY <1>1, <3>1, <3>4 DEF LostOnlyUnled, SearchTypeOK
  <2>. QED BY <2>1, <2>2 DEF SearchTypeOK
<1>9. Evaluated'
  BY DEF Move, NextWolf, Evaluated
<1>. QED BY <1>3, <1>4, <1>5, <1>6, <1>7, <1>8, <1>9

(* The last evaluation and the choice after it. *)
LEMMA FinishStep == ASSUME SearchInv, Finish PROVE SearchInv'
<1>. USE DEF SearchInv
<1>1. Set("alpha")
  BY SearchAssumption DEF Finish, FirstIsSet
<1>2. At("alpha") \in Position
  BY <1>1, AlphaIsSomewhere
<1>3. SearchTypeOK'
  BY <1>2 DEF Finish, SearchTypeOK
<1>4. InRound' /\ FirstIsSet' /\ UnsetIsWorst' /\ LeadersRanked' /\ LostOnlyUnled'
  BY <1>1 DEF Finish, InRound, FirstIsSet, UnsetIsWorst, LeadersRanked, LostOnlyUnled, Set
<1>5. Evaluated'
  BY <1>2, SearchAssumption DEF Finish, Evaluated, Position, Places
<1>. QED BY <1>3, <1>4, <1>5

LEMMA ChooseStep == ASSUME SearchInv, Choose PROVE SearchInv'
<1>. USE DEF SearchInv
<1>1. SearchTypeOK'
  BY DEF Choose, SearchTypeOK
<1>2. InRound' /\ FirstIsSet' /\ UnsetIsWorst' /\ LeadersRanked' /\ LostOnlyUnled'
  BY DEF Choose, InRound, FirstIsSet, UnsetIsWorst, LeadersRanked, LostOnlyUnled, Set
<1>3. Evaluated'
  BY SearchAssumption DEF Choose, Evaluated, SearchTypeOK, Scores
<1>. QED BY <1>1, <1>2, <1>3

LEMMA SearchInvariance == SearchSpec => []SearchInv
<1>1. SearchInv /\ [SearchNext]_searchVars => SearchInv'
  <2>. SUFFICES ASSUME SearchInv, [SearchNext]_searchVars PROVE SearchInv'
    OBVIOUS
  <2>1. CASE UNCHANGED searchVars
    BY <2>1 DEF searchVars, SearchInv, SearchTypeOK, InRound, FirstIsSet, UnsetIsWorst, LeadersRanked,
                LostOnlyUnled, Evaluated, Set
  <2>. QED BY <2>1, EvaluateStep, MoveStep, FinishStep, ChooseStep DEF SearchNext
<1>. QED BY SearchInitHolds, <1>1, PTL DEF SearchSpec

-----------------------------------------------------------------------------
(* Every candidate is a place between the bounds or no number, every score *)
(* fits, and no leader points elsewhere than to the pack                   *)
(* (SpeedPlan.c:628-697).                                                  *)
THEOREM SearchTypeCorrect == SearchSpec => []SearchTypeOK
BY SearchInvariance, PTL DEF SearchInv

(* The leaders stay ranked in every order of evaluation                    *)
(* (SpeedPlan.c:637-651).                                                  *)
THEOREM Ranked == SearchSpec => []LeadersRanked
BY SearchInvariance, PTL DEF SearchInv

(* A candidate is no number only after a move of a pack without three      *)
(* leaders (SpeedPlan.c:599-601, 681).                                     *)
THEOREM Led == SearchSpec => []LostOnlyUnled
BY SearchInvariance, PTL DEF SearchInv

(* The curve the driver is given meets the time to within Limit, or is the *)
(* stored one (SpeedPlan.c:701-716, 1316).                                 *)
THEOREM OnTime == SearchSpec => []OnTimeOrStored
<1>1. SearchInv => OnTimeOrStored
  BY DEF SearchInv, Evaluated, OnTimeOrStored
<1>. QED BY SearchInvariance, <1>1, PTL

-----------------------------------------------------------------------------
(* The pack of the second half *)

(* A set of places has a least and a greatest one. *)
LEMMA LeastOfPlaces ==
  ASSUME NEW S \in SUBSET Places, S # {}
  PROVE  Least(S) \in S /\ \A y \in S : Least(S) <= y
<1>. DEFINE R == {ss \in Nat \X Nat : ss[1] < ss[2]}
<1>1. S \in SUBSET Nat
  BY SearchAssumption DEF Places
<1>2. \E x \in S : \A y \in S : ~(<<y, x>> \in R)
  <2>1. IsWellFoundedOn(R, Nat)
    BY NatLessThanWellFounded, Zenon DEF OpToRel
  <2>. HIDE DEF R
  <2>. QED BY <1>1, <2>1, WFMin, Zenon
<1>3. PICK x \in S : \A y \in S : x <= y
  <2>1. ASSUME NEW x \in S, NEW y \in S, ~(<<y, x>> \in R)
        PROVE  x <= y
    BY <1>1, <2>1
  <2>. QED BY <1>2, <2>1
<1>4. \E z \in S : \A y \in S : z <= y
  BY <1>3
<1>. HIDE DEF R
<1>. QED BY <1>4, Zenon DEF Least

LEMMA MostOfPlaces ==
  ASSUME NEW S \in SUBSET Places, S # {}
  PROVE  Most(S) \in S /\ \A y \in S : Most(S) >= y
<1>. DEFINE T == {Top - x : x \in S}
<1>1. T \in SUBSET Places /\ T # {}
  <2>1. \A x \in S : Top - x \in Places
    BY SearchAssumption DEF Places
  <2>. QED BY <2>1
<1>2. PICK x \in S : Least(T) = Top - x
  <2>. HIDE DEF T
  <2>1. Least(T) \in T
    BY <1>1, LeastOfPlaces
  <2>. QED BY <2>1 DEF T
<1>3. \A y \in S : x >= y
  <2>. SUFFICES ASSUME NEW y \in S PROVE x >= y
    OBVIOUS
  <2>1. Top - y \in T
    OBVIOUS
  <2>2. Least(T) <= Top - y
    <3>. HIDE DEF T
    <3>. QED BY <1>1, <2>1, LeastOfPlaces
  <2>. QED BY <1>2, <2>2, SearchAssumption DEF Places
<1>4. \E z \in S : \A y \in S : z >= y
  BY <1>3
<1>. QED BY <1>4, Zenon DEF Most

(* The mean of three places lies between any two that enclose them. *)
LEMMA MeanIsBetween ==
  ASSUME NEW x \in Places, NEW y \in Places, NEW z \in Places,
         NEW low \in Places, NEW high \in Places,
         low <= x, low <= y, low <= z, x <= high, y <= high, z <= high,
         NEW p \in Means(x, y, z)
  PROVE  Clamp(p) \in Places /\ low <= Clamp(p) /\ Clamp(p) <= high
<1>1. p \in Int /\ 3 * p - (x + y + z) \in -2..2
  BY SearchAssumption DEF Means, Places
<1>2. low <= p /\ p <= high
  BY <1>1, SearchAssumption DEF Places
<1>. QED BY <1>1, <1>2, SearchAssumption DEF Clamp, Places

(* With the factor at 0 a move takes a wolf into the pack as it stands,    *)
(* and the others stay, so that the pack spreads no further: whichever     *)
(* leaders have moved already (SpeedPlan.c:658-697).                       *)
THEOREM Contracts == SearchSpec => PackContracts
<1>1. SearchTypeOK /\ [SearchNext]_searchVars =>
        [Move /\ round >= Half /\ AllSet /\ NaN \notin Pack
         => /\ NaN \notin Pack'
            /\ Least(Pack) <= Least(Pack')
            /\ Most(Pack') <= Most(Pack)]_searchVars
  <2>. SUFFICES ASSUME SearchTypeOK, Move, round >= Half, AllSet, NaN \notin Pack
                PROVE  /\ NaN \notin Pack'
                       /\ Least(Pack) <= Least(Pack')
                       /\ Most(Pack') <= Most(Pack)
    OBVIOUS
  <2>. DEFINE low == Least(Pack)
              high == Most(Pack)
  <2>1. \A m \in Wolves : positions[m] \in Places
    BY DEF SearchTypeOK, Position, Pack
  <2>2. wolf \in Wolves /\ positions \in [Wolves -> Position]
    BY DEF SearchTypeOK
  <2>3. Pack \in SUBSET Places /\ Pack # {}
    BY <2>1, <2>2 DEF Pack
  <2>4. /\ low \in Places /\ high \in Places
        /\ \A m \in Wolves : low <= positions[m] /\ positions[m] <= high
    <3>1. low \in Pack /\ \A y \in Pack : low <= y
      BY <2>3, LeastOfPlaces
    <3>2. high \in Pack /\ \A y \in Pack : high >= y
      BY <2>3, MostOfPlaces
    <3>3. \A m \in Wolves : positions[m] \in Pack
      BY DEF Pack
    <3>. HIDE DEF low, high
    <3>. QED BY <2>3, <3>1, <3>2, <3>3, SearchAssumption DEF Places
  <2>. HIDE DEF low, high
  <2>5. \A r \in Ranks : leader[r] \in Wolves
    BY DEF AllSet, Set, SearchTypeOK
  <2>6. ~Lost
    BY <2>1, <2>5, SearchAssumption DEF Lost, At, Places
  <2>7. PICK p \in Moves : positions' = [positions EXCEPT ![wolf] = p]
    BY DEF Move
  <2>8. ~(round < Half)
    BY SearchAssumption DEF SearchTypeOK
  <2>9. p \in Places /\ low <= p /\ p <= high
    <3>1. PICK x \in Means(At("alpha"), At("beta"), At("delta")) : p = Clamp(x)
      BY <2>6, <2>7, <2>8 DEF Moves
    <3>2. \A r \in Ranks : At(r) \in Places /\ low <= At(r) /\ At(r) <= high
      BY <2>1, <2>4, <2>5 DEF At
    <3>. QED BY <2>4, <3>1, <3>2, MeanIsBetween DEF Ranks
  <2>10. \A m \in Wolves : positions'[m] \in Places /\ low <= positions'[m] /\ positions'[m] <= high
    BY <2>1, <2>2, <2>4, <2>7, <2>9
  <2>11. Pack' \in SUBSET Places /\ Pack' # {}
    BY <2>2, <2>10 DEF Pack
  <2>12. \A y \in Pack' : low <= y /\ y <= high
    BY <2>10 DEF Pack
  <2>13. Least(Pack') \in Pack' /\ Most(Pack') \in Pack'
    BY <2>11, LeastOfPlaces, MostOfPlaces
  <2>14. NaN \notin Pack'
    <3>1. NaN \notin Places
      BY SearchAssumption DEF Places
    <3>. QED BY <2>11, <3>1
  <2>. QED BY <2>12, <2>13, <2>14 DEF low, high
<1>. QED BY SearchTypeCorrect, <1>1, PTL DEF SearchSpec, PackContracts
=============================================================================
