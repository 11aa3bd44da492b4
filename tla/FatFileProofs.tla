------------------------------ MODULE FatFileProofs ------------------------------
(******************************************************************************)
(* Proofs about FatFile, for every volume that is sound, every size of        *)
(* sector, cluster and read, and every path: while no read of the disk fails  *)
(* the handle in use is at its position, commands see what is on the volume,  *)
(* and the shell's directory is one; every handle is given back.              *)
(*                                                                            *)
(* The first part is about volumes alone: chains, pieces, look-ups and lists. *)
(* The second follows a command through them.                                 *)
(******************************************************************************)
EXTENDS FatFile, FiniteSetTheorems, WellFoundedInduction, TLAPS

\* A set of numbers has a least element.
LEMMA Least ==
    ASSUME NEW T \in SUBSET Nat, T # {}
    PROVE  \E m \in T : \A n \in T : m <= n
<1>1. PICK m \in T : \A n \in T : <<n, m>> \notin OpToRel(<, Nat)
  BY NatLessThanWellFounded, WFMin, Zenon
<1>2. \A n \in T : ~(n < m)
  BY <1>1 DEF OpToRel
<1>3. \A n \in T : n \in Nat /\ m \in Nat
  OBVIOUS
<1>4. \A n \in T : m <= n
  BY <1>2, <1>3
<1> QED BY <1>4

LEMMA MinIs ==
    ASSUME NEW T \in SUBSET Nat, T # {}
    PROVE  Min(T) \in T /\ \A n \in T : Min(T) <= n
BY Least DEF Min

\* The lesser of two.
LEMMA MinTwo ==
    ASSUME NEW a \in Int, NEW b \in Int
    PROVE  Min({a, b}) = IF a <= b THEN a ELSE b
<1> DEFINE m == IF a <= b THEN a ELSE b
<1>1. m \in {a, b} /\ \A y \in {a, b} : m <= y
  OBVIOUS
<1>2. \A x \in {a, b} : (\A y \in {a, b} : x <= y) => x = m
  OBVIOUS
<1>3. PICK x \in {a, b} : x = Min({a, b}) /\ \A y \in {a, b} : x <= y
  BY <1>1 DEF Min
<1> QED BY <1>2, <1>3

--------------------------------------------------------------------------------
\* A function that is defined by recursion on the numbers up to N.
Recurs(f, N, d, v) == f[0] = v /\ \A i \in 1 .. N : f[i] = d[<<i, f[i - 1]>>]

LEMMA Recursion ==
    ASSUME NEW S, NEW N \in Nat, NEW d \in [(1 .. N) \X S -> S], NEW v \in S
    PROVE  \E f \in [0 .. N -> S] : Recurs(f, N, d, v)
<1> DEFINE Path(f, n) == f[0] = v /\ \A i \in 1 .. n : f[i] = d[<<i, f[i - 1]>>]
           T == {n \in 0 .. N : ~ \E f \in [0 .. n -> S] : Path(f, n)}
<1>1. ASSUME T # {} PROVE FALSE
  <2>1. T \in SUBSET Nat
    OBVIOUS
  <2>2. PICK m \in T : \A n \in T : m <= n
    BY <1>1, <2>1, Least
  <2>3. m \in 0 .. N /\ ~ \E f \in [0 .. m -> S] : Path(f, m)
    BY <2>2
  <2>4. CASE m = 0
    <3> DEFINE f == [i \in 0 .. 0 |-> v]
    <3>1. f \in [0 .. m -> S] /\ Path(f, m)
      BY <2>4
    <3> QED BY <3>1, <2>3
  <2>5. CASE m > 0
    <3>1. m - 1 \in 0 .. N /\ ~(m <= m - 1)
      BY <2>3, <2>5
    <3>2. PICK f \in [0 .. m - 1 -> S] : Path(f, m - 1)
      BY <2>2, <3>1
    <3> DEFINE g == [i \in 0 .. m |-> IF i = m THEN d[<<m, f[m - 1]>>] ELSE f[i]]
    <3>3. f[m - 1] \in S /\ <<m, f[m - 1]>> \in (1 .. N) \X S
      BY <2>3, <2>5, <3>2
    <3>4. d[<<m, f[m - 1]>>] \in S
      BY <3>3
    <3>5. g \in [0 .. m -> S]
      BY <2>3, <3>2, <3>4
    <3>6. g[0] = v
      BY <2>3, <2>5, <3>2
    <3>7. ASSUME NEW i \in 1 .. m PROVE g[i] = d[<<i, g[i - 1]>>]
      <4>1. g[i - 1] = f[i - 1] /\ i \in 0 .. m
        BY <2>3, <2>5
      <4>2. CASE i = m
        <5>1. g[i] = d[<<m, f[m - 1]>>]
          BY <4>1, <4>2
        <5> QED BY <4>1, <4>2, <5>1
      <4>3. CASE i < m
        <5>1. g[i] = f[i] /\ i \in 1 .. m - 1
          BY <2>3, <4>3
        <5> QED BY <4>1, <5>1, <3>2
      <4> QED BY <2>3, <4>2, <4>3
    <3> QED BY <2>3, <3>5, <3>6, <3>7
  <2> QED BY <2>3, <2>4, <2>5
<1>2. N \notin T
  BY <1>1
<1> QED BY <1>2 DEF Recurs

--------------------------------------------------------------------------------
\* Division with remainder.
LEMMA Divide ==
    ASSUME NEW a \in Nat, NEW n \in Nat, n > 0
    PROVE  /\ a \div n \in Nat /\ a % n \in 0 .. n - 1
           /\ a = (a \div n) * n + (a % n)
OBVIOUS

\* Quotient and remainder are unique.
LEMMA DivideOne ==
    ASSUME NEW q \in Nat, NEW j \in Nat, NEW p \in Nat, NEW i \in Nat, NEW n \in Nat,
           j < n, i < n, q * n + j = p * n + i
    PROVE  q = p /\ j = i
<1>1. CASE q < p
  <2>1. p - q \in Nat /\ p - q >= 1 /\ p = q + (p - q)
    BY <1>1
  <2>2. \A d \in Nat : d >= 1 => d * n >= n
    <3>1. \A d \in Nat : d >= 1 => d * n = n + (d - 1) * n /\ d - 1 \in Nat
      OBVIOUS
    <3>2. \A d \in Nat : d * n \in Nat
      OBVIOUS
    <3> QED BY <3>1, <3>2
  <2>3. p * n = q * n + (p - q) * n
    BY <2>1
  <2>4. (p - q) * n >= n /\ q * n \in Nat /\ (p - q) * n \in Nat
    BY <2>1, <2>2
  <2> QED BY <2>3, <2>4
<1>2. CASE p < q
  <2>1. q - p \in Nat /\ q - p >= 1 /\ q = p + (q - p)
    BY <1>2
  <2>2. \A d \in Nat : d >= 1 => d * n >= n
    <3>1. \A d \in Nat : d >= 1 => d * n = n + (d - 1) * n /\ d - 1 \in Nat
      OBVIOUS
    <3>2. \A d \in Nat : d * n \in Nat
      OBVIOUS
    <3> QED BY <3>1, <3>2
  <2>3. q * n = p * n + (q - p) * n
    BY <2>1
  <2>4. (q - p) * n >= n /\ p * n \in Nat /\ (q - p) * n \in Nat
    BY <2>1, <2>2
  <2> QED BY <2>3, <2>4
<1>3. CASE q = p
  <2>1. q * n \in Nat
    OBVIOUS
  <2> QED BY <1>3, <2>1
<1> QED BY <1>1, <1>2, <1>3

\* So what a number is put together from can be taken out again.
LEMMA DivideBack ==
    ASSUME NEW q \in Nat, NEW n \in Nat, NEW j \in Nat, j < n
    PROVE  q * n + j \in Nat /\ (q * n + j) \div n = q /\ (q * n + j) % n = j
<1> DEFINE a == q * n + j
<1>1. q * n \in Nat /\ n > 0
  OBVIOUS
<1>2. a \in Nat
  BY <1>1
<1> DEFINE p == a \div n
           i == a % n
<1>3. p \in Nat /\ i \in 0 .. n - 1 /\ a = p * n + i
  BY <1>1, <1>2, Divide
<1> HIDE DEF p, i
<1>4. i \in Nat /\ i < n /\ q * n + j = p * n + i
  BY <1>3
<1>5. q = p /\ j = i
  BY <1>3, <1>4, DivideOne
<1> QED BY <1>2, <1>5 DEF p, i, a

--------------------------------------------------------------------------------
\* What the assumptions say of the sizes.
LEMMA Sizes ==
    /\ SECTOR_SIZE \in Nat \ {0} /\ SectorsPerCluster \in Nat \ {0}
    /\ ClusterSize \in Nat \ {0} /\ ClusterSize >= SECTOR_SIZE
    /\ ClusterSize = SectorsPerCluster * SECTOR_SIZE
    /\ CAT \in Nat \ {0} /\ EXISTING \in Nat \ {0} /\ MaxNames \in Nat
    /\ MAX_FILE_HANDLES \in Nat \ {0}
<1>1. /\ SECTOR_SIZE \in Nat \ {0} /\ SectorsPerCluster \in Nat \ {0}
      /\ CAT \in Nat \ {0} /\ EXISTING \in Nat \ {0} /\ MaxNames \in Nat
      /\ MAX_FILE_HANDLES \in Nat \ {0}
  BY FatFileAssumption
<1>2. ASSUME NEW a \in Nat \ {0}, NEW b \in Nat \ {0}
      PROVE  a * b = b * a /\ a * b \in Nat \ {0} /\ a * b >= a
  <2>1. b - 1 \in Nat /\ a * b = a * (b - 1) + a /\ a * (b - 1) \in Nat
    OBVIOUS
  <2> QED BY <2>1
<1> QED BY <1>1, <1>2 DEF ClusterSize

\* Multiples of a size.
LEMMA Multiples ==
    ASSUME NEW n \in Nat
    PROVE  /\ \A a \in Nat : a * n \in Nat /\ (a + 1) * n = a * n + n
           /\ \A a, b \in Nat : a <= b => a * n <= b * n
<1>1. \A a \in Nat : a * n \in Nat /\ (a + 1) * n = a * n + n
  OBVIOUS
<1>2. ASSUME NEW a \in Nat, NEW b \in Nat, a <= b PROVE a * n <= b * n
  <2>1. b - a \in Nat /\ b * n = a * n + (b - a) * n
    BY <1>2
  <2>2. (b - a) * n \in Nat /\ a * n \in Nat
    BY <1>1, <2>1
  <2> QED BY <2>1, <2>2
<1> QED BY <1>1, <1>2

\* A place in a cluster is in the cluster.
LEMMA InCluster ==
    ASSUME NEW s \in 0 .. SectorsPerCluster - 1, NEW j \in 0 .. SECTOR_SIZE
    PROVE  /\ s * SECTOR_SIZE \in Nat /\ s * SECTOR_SIZE + j <= ClusterSize
           /\ j < SECTOR_SIZE => s * SECTOR_SIZE + j < ClusterSize
           /\ (s + 1) * SECTOR_SIZE = s * SECTOR_SIZE + SECTOR_SIZE
           /\ s + 1 = SectorsPerCluster => (s + 1) * SECTOR_SIZE = ClusterSize
<1>1. /\ SECTOR_SIZE \in Nat /\ SectorsPerCluster \in Nat /\ s + 1 \in Nat /\ s \in Nat
      /\ s + 1 <= SectorsPerCluster
  BY Sizes
<1>2. /\ s * SECTOR_SIZE \in Nat /\ (s + 1) * SECTOR_SIZE = s * SECTOR_SIZE + SECTOR_SIZE
      /\ (s + 1) * SECTOR_SIZE <= SectorsPerCluster * SECTOR_SIZE
  BY <1>1, Multiples
<1> QED BY <1>1, <1>2, Sizes

\* The p-th piece of a chain, from 0, is piece j of sector s of cluster k.
Sits(p, k, s, j) ==
    /\ k \in Nat /\ s \in 0 .. SectorsPerCluster - 1 /\ j \in 0 .. SECTOR_SIZE - 1
    /\ p = k * ClusterSize + (s * SECTOR_SIZE + j)

LEMMA SitsIs ==
    ASSUME NEW p, NEW k, NEW s, NEW j, Sits(p, k, s, j)
    PROVE  /\ p \in Nat /\ p \div ClusterSize = k /\ p % ClusterSize = s * SECTOR_SIZE + j
           /\ (p % ClusterSize) \div SECTOR_SIZE = s /\ p % SECTOR_SIZE = j
<1> DEFINE r == s * SECTOR_SIZE + j
           C == ClusterSize
<1>1. /\ k \in Nat /\ s \in 0 .. SectorsPerCluster - 1 /\ s \in Nat /\ j \in Nat
      /\ j < SECTOR_SIZE /\ p = k * C + r /\ j \in 0 .. SECTOR_SIZE
  BY Sizes DEF Sits
<1>2. r \in Nat /\ r < C
  BY <1>1, InCluster
<1>3. C \in Nat /\ SECTOR_SIZE \in Nat /\ SectorsPerCluster \in Nat
  BY Sizes
<1>4. p = (k * SectorsPerCluster + s) * SECTOR_SIZE + j /\ k * SectorsPerCluster + s \in Nat
  <2>1. C = SectorsPerCluster * SECTOR_SIZE
    BY Sizes
  <2> HIDE DEF C
  <2>2. \A a, b, c, d, e \in Nat : a * (b * c) + (d * c + e) = (a * b + d) * c + e
    OBVIOUS
  <2>3. k * SectorsPerCluster + s \in Nat
    BY <1>1, <1>3
  <2> QED BY <1>1, <1>3, <2>1, <2>2, <2>3
<1> HIDE DEF C
<1>5. r \div SECTOR_SIZE = s
  BY <1>1, <1>3, DivideBack
<1> HIDE DEF r
<1>6. p \in Nat /\ p \div C = k /\ p % C = r
  <2>1. k * C + r \in Nat /\ (k * C + r) \div C = k /\ (k * C + r) % C = r
    BY <1>1, <1>2, <1>3, DivideBack, ZenonT(60)
  <2> QED BY <1>1, <2>1
<1>7. p % SECTOR_SIZE = j
  <2> DEFINE q == k * SectorsPerCluster + s
  <2>1. (q * SECTOR_SIZE + j) % SECTOR_SIZE = j
    <3>1. q \in Nat
      BY <1>4
    <3> HIDE DEF q
    <3> QED BY <1>1, <1>3, <3>1, DivideBack, ZenonT(60)
  <2> QED BY <1>4, <2>1
<1> QED BY <1>5, <1>6, <1>7 DEF r, C

LEMMA SitsSome ==
    ASSUME NEW p \in Nat
    PROVE  \E k, s, j : Sits(p, k, s, j)
<1> DEFINE k == p \div ClusterSize
           r == p % ClusterSize
           s == r \div SECTOR_SIZE
           j == r % SECTOR_SIZE
<1>1. /\ ClusterSize \in Nat /\ ClusterSize > 0 /\ SECTOR_SIZE \in Nat /\ SECTOR_SIZE > 0
      /\ SectorsPerCluster \in Nat /\ ClusterSize = SectorsPerCluster * SECTOR_SIZE
  BY Sizes
<1>2. k \in Nat /\ r \in Nat /\ r < ClusterSize /\ p = k * ClusterSize + r
  BY <1>1, Divide
<1> HIDE DEF k, r
<1>3. s \in Nat /\ j \in 0 .. SECTOR_SIZE - 1 /\ r = s * SECTOR_SIZE + j
  BY <1>1, <1>2, Divide
<1> HIDE DEF s, j
<1>4. s < SectorsPerCluster
  <2>1. ASSUME SectorsPerCluster <= s PROVE FALSE
    <3>1. SectorsPerCluster * SECTOR_SIZE <= s * SECTOR_SIZE /\ s * SECTOR_SIZE \in Nat
      BY <1>1, <1>3, <2>1, Multiples
    <3> QED BY <1>1, <1>2, <1>3, <3>1
  <2> QED BY <1>1, <1>3, <2>1
<1>5. Sits(p, k, s, j)
  BY <1>1, <1>2, <1>3, <1>4 DEF Sits
<1> QED BY <1>5

\* t pieces on, in the sector, in the next sector or in the next cluster.
LEMMA SitsNext ==
    ASSUME NEW p, NEW k, NEW s, NEW j, Sits(p, k, s, j), NEW t \in Nat
    PROVE  /\ j + t < SECTOR_SIZE => Sits(p + t, k, s, j + t)
           /\ j + t = SECTOR_SIZE /\ s + 1 < SectorsPerCluster => Sits(p + t, k, s + 1, 0)
           /\ j + t = SECTOR_SIZE /\ s + 1 >= SectorsPerCluster => Sits(p + t, k + 1, 0, 0)
<1>1. /\ k \in Nat /\ s \in 0 .. SectorsPerCluster - 1 /\ j \in 0 .. SECTOR_SIZE - 1
      /\ p = k * ClusterSize + (s * SECTOR_SIZE + j)
      /\ SECTOR_SIZE \in Nat \ {0} /\ SectorsPerCluster \in Nat \ {0} /\ ClusterSize \in Nat
  BY Sizes DEF Sits
<1>2. /\ s * SECTOR_SIZE \in Nat /\ (s + 1) * SECTOR_SIZE = s * SECTOR_SIZE + SECTOR_SIZE
      /\ s + 1 = SectorsPerCluster => (s + 1) * SECTOR_SIZE = ClusterSize
  BY <1>1, InCluster
<1>3. k * ClusterSize \in Nat /\ (k + 1) * ClusterSize = k * ClusterSize + ClusterSize
  BY <1>1, Multiples
<1>4. 0 * SECTOR_SIZE = 0
  BY <1>1
<1> DEFINE S == s * SECTOR_SIZE
           U == (s + 1) * SECTOR_SIZE
           K == k * ClusterSize
           L == (k + 1) * ClusterSize
<1>5. CASE j + t < SECTOR_SIZE
  <2>1. p + t = K + (S + (j + t)) /\ j + t \in 0 .. SECTOR_SIZE - 1
    BY <1>1, <1>2, <1>3, <1>5
  <2> QED BY <1>1, <1>5, <2>1 DEF Sits
<1>6. CASE j + t = SECTOR_SIZE /\ s + 1 < SectorsPerCluster
  <2>1. p + t = K + (U + 0)
    <3> HIDE DEF S, U, K
    <3>1. S \in Nat /\ K \in Nat /\ U = S + SECTOR_SIZE /\ p = K + (S + j)
      BY <1>1, <1>2, <1>3 DEF S, U, K
    <3> QED BY <1>1, <1>6, <3>1
  <2> QED BY <1>1, <1>6, <2>1 DEF Sits
<1>7. CASE j + t = SECTOR_SIZE /\ s + 1 >= SectorsPerCluster
  <2>1. p + t = L
    <3> HIDE DEF S, U, K, L
    <3>1. /\ S \in Nat /\ K \in Nat /\ U = S + SECTOR_SIZE /\ p = K + (S + j)
          /\ U = ClusterSize /\ L = K + ClusterSize
      BY <1>1, <1>2, <1>3, <1>7 DEF S, U, K, L
    <3> QED BY <1>1, <1>7, <3>1
  <2>2. L \in Nat /\ p + t = L + (0 * SECTOR_SIZE + 0) /\ k + 1 \in Nat
    BY <1>1, <1>3, <1>4, <2>1
  <2> QED BY <1>1, <1>7, <2>2 DEF Sits
<1> QED BY <1>1, <1>5, <1>6, <1>7

\* In front of the end of n clusters, or not.
LEMMA SitsBelow ==
    ASSUME NEW p, NEW k, NEW s, NEW j, Sits(p, k, s, j), NEW n \in Nat
    PROVE  /\ n * ClusterSize \in Nat
           /\ p < n * ClusterSize <=> k < n
           /\ k < n => \A t \in Nat : j + t <= SECTOR_SIZE => p + t <= n * ClusterSize
<1> DEFINE r == s * SECTOR_SIZE + j
           K == k * ClusterSize
           L == (k + 1) * ClusterSize
           N == n * ClusterSize
<1>1. /\ k \in Nat /\ s \in 0 .. SectorsPerCluster - 1 /\ j \in 0 .. SECTOR_SIZE /\ j < SECTOR_SIZE
      /\ p = K + r /\ SECTOR_SIZE \in Nat /\ ClusterSize \in Nat \ {0}
  BY Sizes DEF Sits
<1>2. r \in Nat /\ r < ClusterSize /\ \A t \in Nat : j + t <= SECTOR_SIZE => r + t <= ClusterSize
  <2>1. s * SECTOR_SIZE \in Nat /\ s * SECTOR_SIZE + SECTOR_SIZE <= ClusterSize
    BY <1>1, InCluster
  <2> QED BY <1>1, <2>1
<1>3. K \in Nat /\ N \in Nat /\ L = K + ClusterSize
  BY <1>1, Multiples
<1>4. k < n => L <= N
  <2>1. k < n => k + 1 \in Nat /\ k + 1 <= n
    BY <1>1
  <2> QED BY <1>1, <2>1, Multiples
<1>5. k >= n => N <= K
  BY <1>1, Multiples
<1> HIDE DEF r, K, L, N
<1>6. p < N <=> k < n
  BY <1>1, <1>2, <1>3, <1>4, <1>5
<1>7. k < n => \A t \in Nat : j + t <= SECTOR_SIZE => p + t <= N
  BY <1>1, <1>2, <1>3, <1>4
<1> QED BY <1>3, <1>6, <1>7 DEF N

\* Two functions that go on alike from the same beginning are alike.
GoAlike(f, g, N) == f[0] = g[0] /\ \A i \in 1 .. N : f[i - 1] = g[i - 1] => f[i] = g[i]
AreAlike(f, g, N) == \A i \in 0 .. N : f[i] = g[i]

LEMMA Alike ==
    ASSUME NEW N \in Nat, NEW f, NEW g, GoAlike(f, g, N)
    PROVE  AreAlike(f, g, N)
<1> DEFINE T == {i \in 0 .. N : f[i] # g[i]}
<1>1. ASSUME T # {} PROVE FALSE
  <2>1. T \in SUBSET Nat
    OBVIOUS
  <2>2. PICK m \in T : \A n \in T : m <= n
    BY <1>1, <2>1, Least
  <2>3. m \in 0 .. N /\ f[m] # g[m]
    BY <2>2
  <2>4. m \in 1 .. N /\ m - 1 \in 0 .. N /\ ~(m <= m - 1)
    BY <2>3 DEF GoAlike
  <2>5. f[m - 1] = g[m - 1]
    BY <2>2, <2>4
  <2> QED BY <2>3, <2>4, <2>5 DEF GoAlike
<1> QED BY <1>1 DEF AreAlike

--------------------------------------------------------------------------------
(* Volumes: chains.                                                           *)

\* What the assumptions say of a volume.
LEMMA VolumeFacts ==
    ASSUME NEW v \in Volumes
    PROVE  /\ Cardinality(DOMAIN v.next) \in Nat
           /\ 0 \notin DOMAIN v.next /\ EOC \notin DOMAIN v.next /\ EOC # 0
           /\ v.next \in [DOMAIN v.next -> DOMAIN v.next \cup {0, EOC}]
           /\ Unread \subseteq DOMAIN v.next \cup {0, EOC}
<1>1. /\ IsFiniteSet(DOMAIN v.next)
      /\ {0, EOC} \cap DOMAIN v.next = {} /\ EOC # 0
      /\ v.next \in [DOMAIN v.next -> DOMAIN v.next \cup {0, EOC}]
      /\ Unread \subseteq DOMAIN v.next \cup {0, EOC}
  BY FatFileAssumption
<1> QED BY <1>1, FS_CardinalityType

\* Links lead from a cluster to clusters, up to the end.
LEMMA LinksAre ==
    ASSUME NEW v \in Volumes, NEW c \in DOMAIN v.next \cup {0}
    PROVE  LET to == LinksFrom(v, c)
               N == Cardinality(DOMAIN v.next)
           IN  /\ to \in [0 .. N -> DOMAIN v.next \cup {0, EOC}] /\ to[0] = c
               /\ \A i \in 1 .. N : to[i] = IF to[i - 1] \in DOMAIN v.next
                                            THEN v.next[to[i - 1]] ELSE to[i - 1]
<1> DEFINE N == Cardinality(DOMAIN v.next)
           S == DOMAIN v.next \cup {0, EOC}
           Turn(u) == IF u \in DOMAIN v.next THEN v.next[u] ELSE u
           Unrolled(g) == [n \in 0 .. N |-> IF n = 0 THEN c ELSE Turn(g[n - 1])]
           to == CHOOSE g : g = Unrolled(g)
           d == [p \in (1 .. N) \X S |-> Turn(p[2])]
<1>1. N \in Nat /\ c \in S /\ \A u \in S : Turn(u) \in S
  BY VolumeFacts
<1>2. LinksFrom(v, c) = to
  BY DEF LinksFrom
<1> HIDE DEF Turn, N, S
<1>3. d \in [(1 .. N) \X S -> S]
  BY <1>1
<1>4. PICK f \in [0 .. N -> S] : Recurs(f, N, d, c)
  <2> HIDE DEF d
  <2> QED BY <1>1, <1>3, Recursion, Zenon
<1>5. \A i \in 1 .. N : f[i] = Turn(f[i - 1])
  <2> SUFFICES ASSUME NEW i \in 1 .. N PROVE f[i] = Turn(f[i - 1])
    OBVIOUS
  <2> DEFINE u == f[i - 1]
  <2>1. u \in S
    BY <1>1, <1>4
  <2>2. f[i] = d[<<i, u>>]
    BY <1>4 DEF Recurs
  <2> HIDE DEF u
  <2>3. d[<<i, u>>] = Turn(u)
    BY <2>1
  <2> QED BY <2>2, <2>3 DEF u
<1>6. f = Unrolled(f)
  <2>1. \A i \in 0 .. N : f[i] = IF i = 0 THEN c ELSE Turn(f[i - 1])
    <3> SUFFICES ASSUME NEW i \in 0 .. N PROVE f[i] = IF i = 0 THEN c ELSE Turn(f[i - 1])
      OBVIOUS
    <3>1. i = 0 \/ i \in 1 .. N
      BY <1>1
    <3> QED BY <3>1, <1>4, <1>5 DEF Recurs
  <2> QED BY <1>4, <2>1
<1>7. to = Unrolled(to)
  <2> HIDE DEF Unrolled
  <2> QED BY <1>6
<1> HIDE DEF to
<1>8. to[0] = c /\ \A i \in 1 .. N : to[i] = Turn(to[i - 1])
  <2>1. \A i \in 0 .. N : to[i] = IF i = 0 THEN c ELSE Turn(to[i - 1])
    BY <1>7
  <2>2. 0 \in 0 .. N /\ \A i \in 1 .. N : i \in 0 .. N /\ i # 0
    BY <1>1
  <2> QED BY <2>1, <2>2
<1>9. \A i \in 0 .. N : to[i] = f[i]
  <2>1. GoAlike(to, f, N)
    BY <1>4, <1>5, <1>8 DEF Recurs, GoAlike
  <2> QED BY <1>1, <2>1, Alike DEF AreAlike
<1>10. to = f
  BY <1>4, <1>7, <1>9
<1> QED BY <1>2, <1>4, <1>8, <1>10 DEF N, S, Turn

\* The beginning of a chain that has an end, or of none.
Heads(v, c) == c = 0 \/ (c \in DOMAIN v.next /\ HasEnd(v, c))

\* A chain q that begins at c.
Chained(v, c, q) ==
    /\ Len(q) \in Nat /\ q \in [1 .. Len(q) -> DOMAIN v.next] /\ q \in Seq(DOMAIN v.next)
    /\ c = 0 => Len(q) = 0
    /\ c # 0 => Len(q) > 0 /\ q[1] = c /\ v.next[q[Len(q)]] = EOC
    /\ \A i \in 1 .. Len(q) : i < Len(q) => v.next[q[i]] = q[i + 1]

LEMMA ChainIs ==
    ASSUME NEW v \in Volumes, NEW c, Heads(v, c)
    PROVE  Chained(v, c, ChainOf(v, c))
<1> DEFINE N == Cardinality(DOMAIN v.next)
           to == LinksFrom(v, c)
           T == {n \in 0 .. N : to[n] \notin DOMAIN v.next}
           L == LengthOf(v, c)
           q == ChainOf(v, c)
<1>1. /\ c \in DOMAIN v.next \cup {0} /\ N \in Nat
      /\ 0 \notin DOMAIN v.next /\ EOC \notin DOMAIN v.next /\ EOC # 0
      /\ v.next \in [DOMAIN v.next -> DOMAIN v.next \cup {0, EOC}]
  BY VolumeFacts DEF Heads
<1>2. /\ to \in [0 .. N -> DOMAIN v.next \cup {0, EOC}] /\ to[0] = c
      /\ \A i \in 1 .. N : to[i] = IF to[i - 1] \in DOMAIN v.next
                                   THEN v.next[to[i - 1]] ELSE to[i - 1]
  BY <1>1, LinksAre
<1>3. L = Min(T) /\ q = [n \in 1 .. L |-> to[n - 1]]
  BY DEF LengthOf, ChainOf
<1>4. PICK z \in 0 .. N : to[z] \notin DOMAIN v.next /\ (c # 0 => to[z] = EOC)
  <2>1. CASE c = 0
    BY <1>1, <1>2, <2>1
  <2>2. CASE c # 0
    BY <1>1, <2>2 DEF Heads, HasEnd
  <2> QED BY <2>1, <2>2
<1> HIDE DEF N, to, L, q
<1>5. L \in 0 .. N /\ to[L] \notin DOMAIN v.next /\ \A n \in 0 .. N : n < L => to[n] \in DOMAIN v.next
  <2>1. T \in SUBSET Nat /\ T # {}
    BY <1>1, <1>4
  <2>2. Min(T) \in T /\ \A n \in T : Min(T) <= n
    BY <2>1, MinIs
  <2>3. L \in T /\ \A n \in T : L <= n
    BY <1>3, <2>2
  <2> QED BY <1>1, <2>3
<1>6. L \in Nat /\ Len(q) = L /\ q \in [1 .. L -> DOMAIN v.next] /\ q \in Seq(DOMAIN v.next)
      /\ \A i \in 1 .. L : q[i] = to[i - 1]
  <2>1. \A i \in 1 .. L : i - 1 \in 0 .. N /\ i - 1 < L
    BY <1>1, <1>5
  <2>2. q \in [1 .. L -> DOMAIN v.next] /\ L \in Nat
    BY <1>1, <1>3, <1>5, <2>1
  <2>3. q \in Seq(DOMAIN v.next) /\ Len(q) = L
    BY <2>2
  <2> QED BY <1>3, <2>2, <2>3
<1>7. ASSUME NEW i \in 1 .. L, i < L PROVE v.next[q[i]] = q[i + 1]
  <2>1. i \in 1 .. N /\ i - 1 \in 0 .. N /\ i - 1 < L /\ i + 1 \in 1 .. L /\ i + 1 - 1 = i
    BY <1>1, <1>5, <1>7
  <2>2. to[i - 1] \in DOMAIN v.next /\ to[i] = v.next[to[i - 1]]
    BY <1>2, <1>5, <2>1
  <2>3. q[i] = to[i - 1] /\ q[i + 1] = to[i]
    BY <1>6, <2>1
  <2> QED BY <2>2, <2>3
<1>8. c = 0 => L = 0
  BY <1>1, <1>2, <1>5
<1>9. c # 0 => L > 0 /\ q[1] = c
  <2>1. c # 0 => L # 0
    BY <1>1, <1>2, <1>5
  <2>2. L > 0 => q[1] = to[0]
    <3>1. L > 0 => 1 \in 1 .. L /\ 1 - 1 = 0
      BY <1>6
    <3> QED BY <1>6, <3>1
  <2> QED BY <1>2, <1>6, <2>1, <2>2
<1>10. c # 0 => v.next[q[L]] = EOC
  <2> SUFFICES ASSUME c # 0 PROVE v.next[q[L]] = EOC
    OBVIOUS
  <2>1. L > 0 /\ L \in 1 .. N /\ L - 1 \in 0 .. N /\ L \in 1 .. L
    BY <1>1, <1>5, <1>9
  <2>2. v.next[q[L]] = to[L]
    BY <1>2, <1>5, <1>6, <2>1
  <2>3. to[L] = EOC
    <3> DEFINE U == {n \in 0 .. N : L <= n /\ to[n] # to[L]}
    <3>1. ASSUME U # {} PROVE FALSE
      <4>1. U \in SUBSET Nat
        OBVIOUS
      <4>2. PICK m \in U : \A n \in U : m <= n
        BY <3>1, <4>1, Least
      <4>3. m \in 0 .. N /\ L <= m /\ to[m] # to[L]
        BY <4>2
      <4>4. m \in 1 .. N /\ m - 1 \in 0 .. N /\ L <= m - 1 /\ ~(m <= m - 1)
        BY <1>1, <1>6, <4>3
      <4>5. to[m - 1] = to[L]
        BY <4>2, <4>4
      <4> QED BY <1>2, <1>5, <4>3, <4>4, <4>5
    <3>2. L <= z
      BY <1>1, <1>4, <1>5
    <3>3. to[z] = to[L]
      BY <3>1, <3>2
    <3> QED BY <1>4, <3>3
  <2> QED BY <2>2, <2>3
<1> QED BY <1>6, <1>7, <1>8, <1>9, <1>10 DEF Chained, q

--------------------------------------------------------------------------------
(* Volumes: the pieces of a chain.                                            *)

\* What the sectors of the disk may hold, the same whichever volume is on it.
PieceOn(v) == {w.piece[c][i] : w \in Volumes, c \in DOMAIN v.next, i \in 1 .. ClusterSize}

\* P are the pieces of the chain q.
Pieced(v, q, P) ==
    /\ Len(q) * ClusterSize \in Nat
    /\ P \in [1 .. Len(q) * ClusterSize -> PieceOn(v)]
    /\ P \in Seq(PieceOn(v)) /\ Len(P) = Len(q) * ClusterSize
    /\ \A p, k, s, j : Sits(p, k, s, j) /\ k < Len(q) =>
          p + 1 \in 1 .. Len(P) /\ P[p + 1] = v.piece[q[k + 1]][s * SECTOR_SIZE + (j + 1)]

LEMMA PiecesAre ==
    ASSUME NEW v \in Volumes, NEW c, Heads(v, c)
    PROVE  Pieced(v, ChainOf(v, c), PiecesOf(v, c))
<1> DEFINE q == ChainOf(v, c)
           n == Len(q)
           P == PiecesOf(v, c)
           M == n * ClusterSize
           G(m) == v.piece[q[(m \div ClusterSize) + 1]][(m % ClusterSize) + 1]
<1>1. n \in Nat /\ q \in [1 .. n -> DOMAIN v.next]
  BY ChainIs DEF Chained
<1>2. P = [k \in 1 .. M |-> v.piece[q[((k - 1) \div ClusterSize) + 1]][((k - 1) % ClusterSize) + 1]]
  BY DEF PiecesOf
<1> HIDE DEF P, q
<1>3. M \in Nat /\ ClusterSize \in Nat
  BY <1>1, Sizes, Multiples
<1>4. ASSUME NEW p, NEW k, NEW s, NEW j, Sits(p, k, s, j), k < n
      PROVE  /\ p + 1 \in 1 .. M /\ P[p + 1] = v.piece[q[k + 1]][s * SECTOR_SIZE + (j + 1)]
             /\ P[p + 1] \in PieceOn(v)
  <2>1. /\ p \in Nat /\ p \div ClusterSize = k /\ p % ClusterSize = s * SECTOR_SIZE + j
        /\ p < M
    BY <1>1, <1>4, SitsIs, SitsBelow
  <2>2. k \in Nat /\ s \in 0 .. SectorsPerCluster - 1 /\ j \in Nat /\ j + 1 \in 0 .. SECTOR_SIZE
    BY <1>4, Sizes DEF Sits
  <2>3. s * SECTOR_SIZE \in Nat /\ s * SECTOR_SIZE + (j + 1) <= ClusterSize
    BY <2>2, InCluster
  <2>4. (s * SECTOR_SIZE + j) + 1 = s * SECTOR_SIZE + (j + 1)
        /\ s * SECTOR_SIZE + (j + 1) \in 1 .. ClusterSize
    BY <1>3, <2>2, <2>3
  <2>5. p + 1 \in 1 .. M /\ p + 1 - 1 = p
    BY <1>3, <2>1
  <2>6. P[p + 1] = v.piece[q[k + 1]][s * SECTOR_SIZE + (j + 1)]
    BY <1>2, <2>1, <2>4, <2>5
  <2>7. q[k + 1] \in DOMAIN v.next
    BY <1>1, <1>4, <2>2
  <2> QED BY <2>4, <2>5, <2>6, <2>7 DEF PieceOn
<1>5. P \in [1 .. M -> PieceOn(v)]
  <2> SUFFICES ASSUME NEW m \in 1 .. M PROVE P[m] \in PieceOn(v)
    BY <1>2
  <2>1. m - 1 \in Nat /\ m - 1 < M /\ m - 1 + 1 = m
    BY <1>3
  <2>2. PICK k, s, j : Sits(m - 1, k, s, j)
    BY <2>1, SitsSome
  <2>3. k < n
    BY <1>1, <2>1, <2>2, SitsBelow
  <2> QED BY <1>4, <2>1, <2>2, <2>3
<1> HIDE DEF M
<1>6. P \in Seq(PieceOn(v)) /\ Len(P) = M
  BY <1>3, <1>5
<1>7. Pieced(v, q, P)
  BY <1>3, <1>4, <1>5, <1>6 DEF Pieced, M
<1> QED BY <1>7 DEF P, q

\* What the buffer of a handle may hold.
BufferOn(v) == [1 .. SECTOR_SIZE -> PieceOn(v) \cup {Junk}]

\* SectorOf, of any volume.
SectorOn(v, c, s) ==
    [i \in 1 .. SECTOR_SIZE |->
        IF c \in DOMAIN v.next THEN v.piece[c][s * SECTOR_SIZE + i] ELSE Junk]

LEMMA SectorIs ==
    ASSUME NEW v \in Volumes, NEW c, NEW s \in 0 .. SectorsPerCluster - 1
    PROVE  /\ SectorOn(v, c, s) \in BufferOn(v)
           /\ c \in DOMAIN v.next => \A i \in 1 .. SECTOR_SIZE :
                 SectorOn(v, c, s)[i] = v.piece[c][s * SECTOR_SIZE + i]
<1>1. ASSUME NEW i \in 1 .. SECTOR_SIZE, c \in DOMAIN v.next
      PROVE  v.piece[c][s * SECTOR_SIZE + i] \in PieceOn(v)
  <2>1. i \in 0 .. SECTOR_SIZE /\ i \in Nat /\ i > 0 /\ ClusterSize \in Nat
    BY Sizes
  <2>2. s * SECTOR_SIZE \in Nat /\ s * SECTOR_SIZE + i <= ClusterSize
    BY <2>1, InCluster
  <2>3. s * SECTOR_SIZE + i \in 1 .. ClusterSize
    BY <2>1, <2>2
  <2> QED BY <1>1, <2>3 DEF PieceOn
<1> QED BY <1>1 DEF SectorOn, BufferOn

\* The sector at a position holds the pieces from there.
LEMMA BufferIs ==
    ASSUME NEW v \in Volumes, NEW c, Heads(v, c),
           NEW p, NEW k, NEW s, NEW j, Sits(p, k, s, j), k < Len(ChainOf(v, c)),
           NEW i \in Nat, i > 0, j + i <= SECTOR_SIZE
    PROVE  /\ p + i \in 1 .. Len(PiecesOf(v, c))
           /\ SectorOn(v, ChainOf(v, c)[k + 1], s)[j + i] = PiecesOf(v, c)[p + i]
<1> DEFINE P == PiecesOf(v, c)
           q == ChainOf(v, c)
           t == i - 1
<1>1. Pieced(v, q, P) /\ Chained(v, c, q)
  BY PiecesAre, ChainIs
<1> HIDE DEF P, q
<1>2. k \in Nat /\ s \in 0 .. SectorsPerCluster - 1 /\ j \in Nat /\ p \in Nat /\ SECTOR_SIZE \in Nat
  BY Sizes, SitsIs DEF Sits
<1>3. t \in Nat /\ j + t < SECTOR_SIZE /\ (j + t) + 1 = j + i /\ (p + t) + 1 = p + i
      /\ j + i \in 1 .. SECTOR_SIZE
  BY <1>2
<1>4. Sits(p + t, k, s, j + t)
  BY <1>3, SitsNext
<1>5. p + i \in 1 .. Len(P) /\ P[p + i] = v.piece[q[k + 1]][s * SECTOR_SIZE + (j + i)]
  <2>1. /\ (p + t) + 1 \in 1 .. Len(P)
        /\ P[(p + t) + 1] = v.piece[q[k + 1]][s * SECTOR_SIZE + ((j + t) + 1)]
    BY <1>1, <1>4 DEF Pieced, q
  <2> HIDE DEF t
  <2> QED BY <1>3, <2>1
<1>6. q[k + 1] \in DOMAIN v.next
  BY <1>1, <1>2 DEF Chained, q
<1>7. SectorOn(v, q[k + 1], s)[j + i] = v.piece[q[k + 1]][s * SECTOR_SIZE + (j + i)]
  BY <1>2, <1>3, <1>6, SectorIs
<1> QED BY <1>5, <1>7 DEF P, q

--------------------------------------------------------------------------------
(* Volumes: entries.                                                          *)

\* The directories of a volume.
Dirs(v) == CHOOSE ds \in SUBSET DOMAIN v.next : SoundFrom(v, ds)

\* An entry that can be opened.
GoodEntry(v, e) ==
    /\ e.dir \in BOOLEAN /\ e.size \in Nat /\ Heads(v, e.first)
    /\ e.dir => e.first \in Dirs(v) /\ e.size = 0
    /\ ~e.dir => /\ e.size <= Len(PiecesOf(v, e.first))
                 /\ \A i \in 1 .. e.size : PiecesOf(v, e.first)[i] \in Texts

LEMMA DirsAre ==
    ASSUME NEW v \in Volumes
    PROVE  /\ Dirs(v) \in SUBSET DOMAIN v.next /\ SoundFrom(v, Dirs(v))
           /\ \A d \in Dirs(v) : Heads(v, d) /\ d # 0
<1>1. \E ds \in SUBSET DOMAIN v.next : SoundFrom(v, ds)
  BY FatFileAssumption
<1>2. Dirs(v) \in SUBSET DOMAIN v.next /\ SoundFrom(v, Dirs(v))
  BY <1>1 DEF Dirs
<1>3. \A d \in Dirs(v) : Heads(v, d) /\ d # 0
  BY <1>2, VolumeFacts DEF SoundFrom, Heads
<1> QED BY <1>2, <1>3

\* What an entry on the disk says.
LEMMA PieceIs ==
    ASSUME NEW v \in Volumes, NEW x \in PieceOn(v), IsEntry(x)
    PROVE  x.dir \in BOOLEAN /\ x.first \in DOMAIN v.next \cup {0} /\ x.size \in Nat
<1>1. PICK w \in Volumes, c \in DOMAIN v.next, i \in 1 .. ClusterSize : x = w.piece[c][i]
  BY DEF PieceOn
<1>2. DOMAIN w.next = DOMAIN v.next
  BY FatFileAssumption
<1> QED BY <1>1, <1>2, FatFileAssumption

\* What an entry that can be opened holds.
HoldsWell(v, e, s) ==
    /\ Len(s) \in Nat /\ s \in Seq(PieceOn(v)) /\ s \in [1 .. Len(s) -> PieceOn(v)]
    /\ Len(s) <= Len(PiecesOf(v, e.first))
    /\ \A k \in 1 .. Len(s) : s[k] = PiecesOf(v, e.first)[k]
    /\ e.dir => /\ s = PiecesOf(v, e.first) /\ Len(s) > 0
                /\ Len(ChainOf(v, e.first)) > 0
    /\ ~e.dir => Len(s) = e.size /\ \A k \in 1 .. Len(s) : s[k] \in Texts

LEMMA ContentsAre ==
    ASSUME NEW v \in Volumes, NEW e, GoodEntry(v, e)
    PROVE  HoldsWell(v, e, ContentsOf(v, e))
<1> DEFINE P == PiecesOf(v, e.first)
           q == ChainOf(v, e.first)
           s == ContentsOf(v, e)
<1>1. Pieced(v, q, P) /\ Chained(v, e.first, q)
  BY PiecesAre, ChainIs DEF GoodEntry
<1>2. /\ P \in Seq(PieceOn(v)) /\ Len(P) \in Nat /\ P \in [1 .. Len(P) -> PieceOn(v)]
      /\ Len(P) = Len(q) * ClusterSize /\ Len(q) \in Nat
  BY <1>1 DEF Pieced, Chained
<1>3. s = IF e.dir THEN P ELSE SubSeq(P, 1, e.size)
  BY DEF ContentsOf
<1>4. CASE e.dir
  <2>1. e.first # 0
    BY <1>4, DirsAre DEF GoodEntry
  <2>2. Len(q) > 0
    BY <1>1, <2>1 DEF Chained
  <2>3. Len(P) > 0
    <3>1. 1 * ClusterSize <= Len(q) * ClusterSize /\ ClusterSize > 0 /\ 1 * ClusterSize = ClusterSize
      BY <1>2, <2>2, Sizes, Multiples
    <3> QED BY <1>2, <3>1, Sizes
  <2>4. s = P
    BY <1>3, <1>4
  <2> HIDE DEF P, q, s
  <2>5. HoldsWell(v, e, P)
    BY <1>2, <1>4, <2>2, <2>3 DEF HoldsWell, P, q
  <2> QED BY <2>4, <2>5 DEF s
<1>5. CASE ~e.dir
  <2>1. /\ e.size \in Nat /\ e.size <= Len(P)
        /\ \A i \in 1 .. e.size : P[i] \in Texts
    BY <1>5 DEF GoodEntry
  <2>2. s = SubSeq(P, 1, e.size)
    BY <1>3, <1>5
  <2> HIDE DEF P, q, s
  <2>3. /\ s \in Seq(PieceOn(v)) /\ Len(s) = e.size
        /\ \A k \in 1 .. e.size : s[k] = P[k]
    BY <1>2, <2>1, <2>2
  <2>4. s \in [1 .. Len(s) -> PieceOn(v)]
    BY <2>3
  <2>5. HoldsWell(v, e, s)
    BY <1>2, <1>5, <2>1, <2>3, <2>4 DEF HoldsWell, P
  <2> QED BY <2>5 DEF s
<1> QED BY <1>4, <1>5 DEF GoodEntry

LEMMA RootIsGood ==
    ASSUME NEW v \in Volumes
    PROVE  GoodEntry(v, Root) /\ Root.dir /\ Root # NoEntry
<1>1. Root.dir = TRUE /\ Root.first = RootDirCluster /\ Root.size = 0 /\ NoEntry.dir = FALSE
  BY DEF Root, NoEntry
<1>2. RootDirCluster \in Dirs(v) /\ Heads(v, RootDirCluster)
  BY DirsAre DEF SoundFrom
<1>3. 0 \in Nat
  OBVIOUS
<1>4. Root # NoEntry
  BY <1>1, Zenon
<1> QED BY <1>1, <1>2, <1>3, <1>4, Zenon DEF GoodEntry

LEMMA NoEntryIsGood ==
    ASSUME NEW v \in Volumes
    PROVE  GoodEntry(v, NoEntry)
<1>1. NoEntry.dir = FALSE /\ NoEntry.first = 0 /\ NoEntry.size = 0 /\ Heads(v, 0)
  BY DEF NoEntry, Heads
<1>2. Len(PiecesOf(v, 0)) \in Nat
  BY <1>1, PiecesAre DEF Pieced
<1>3. 0 \in Nat /\ 0 <= Len(PiecesOf(v, 0)) /\ \A i \in 1 .. 0 : FALSE
  BY <1>2
<1> QED BY <1>1, <1>3, Zenon DEF GoodEntry

\* What a directory shows can be opened.
LEMMA ShownIsGood ==
    ASSUME NEW v \in Volumes, NEW e, GoodEntry(v, e), NEW k \in InView(ContentsOf(v, e))
    PROVE  e.dir /\ GoodEntry(v, ContentsOf(v, e)[k])
<1> DEFINE s == ContentsOf(v, e)
           x == s[k]
<1>1. HoldsWell(v, e, s)
  BY ContentsAre
<1> HIDE DEF s
<1>2. k \in 1 .. Len(s) /\ IsEntry(x) /\ x \notin Texts /\ x \in PieceOn(v)
  BY <1>1 DEF HoldsWell, InView, IsEntry, s
<1>3. e.dir /\ e.first \in Dirs(v) /\ s = PiecesOf(v, e.first)
  BY <1>1, <1>2 DEF HoldsWell, GoodEntry
<1>4. IF x.dir THEN x.first \in Dirs(v) /\ x.size = 0
      ELSE LET t == PiecesOf(v, x.first)
           IN  /\ x.first = 0 \/ HasEnd(v, x.first)
               /\ x.size <= Len(t)
               /\ \A i \in 1 .. x.size : t[i] \in Texts
  <2>1. k \in InView(PiecesOf(v, e.first)) /\ x = PiecesOf(v, e.first)[k]
    BY <1>3 DEF s
  <2> QED BY <1>3, <2>1, DirsAre DEF SoundFrom
<1>5. x.dir \in BOOLEAN /\ x.first \in DOMAIN v.next \cup {0} /\ x.size \in Nat
  <2>1. x \in PieceOn(v) /\ IsEntry(x)
    BY <1>2
  <2> HIDE DEF x
  <2> QED BY <2>1, PieceIs
<1>6. Heads(v, x.first)
  BY <1>4, <1>5, DirsAre DEF Heads
<1> HIDE DEF x
<1>7. GoodEntry(v, x)
  BY <1>4, <1>5, <1>6 DEF GoodEntry
<1> QED BY <1>3, <1>7 DEF s, x

\* Piece k of what a directory holds is neither the end nor an entry of that name.
Passed(s, k, name) == s[k] # Never /\ ~(IsEntry(s[k]) /\ s[k].name = name)

\* The first entry with a name is found.
LEMMA FindHit ==
    ASSUME NEW v \in Volumes, NEW e, GoodEntry(v, e), NEW name, name \in Names,
           NEW k \in 1 .. Len(ContentsOf(v, e)),
           \A i \in 1 .. Len(ContentsOf(v, e)) : i < k => Passed(ContentsOf(v, e), i, name),
           IsEntry(ContentsOf(v, e)[k]), ContentsOf(v, e)[k].name = name
    PROVE  /\ Find(v, e, name) = ContentsOf(v, e)[k] /\ Find(v, e, name) # NoEntry
           /\ GoodEntry(v, Find(v, e, name)) /\ e.dir
<1> DEFINE s == ContentsOf(v, e)
           hits == {i \in InView(s) : s[i].name = name}
<1>1. HoldsWell(v, e, s)
  BY ContentsAre
<1>2. Find(v, e, name) = IF hits = {} THEN NoEntry ELSE s[Min(hits)]
  BY DEF Find
<1> HIDE DEF s
<1>3. Len(s) \in Nat /\ DOMAIN s = 1 .. Len(s)
  BY <1>1 DEF HoldsWell
<1>4. k \in InView(s)
  BY <1>3 DEF InView, Passed, IsEntry, s
<1>5. k \in hits
  BY <1>4 DEF s
<1>6. \A i \in hits : k <= i
  <2> SUFFICES ASSUME NEW i \in hits, ~(k <= i) PROVE FALSE
    OBVIOUS
  <2>1. i \in 1 .. Len(s) /\ i < k /\ IsEntry(s[i]) /\ s[i].name = name
    BY <1>3 DEF InView, s
  <2> QED BY <2>1 DEF Passed, s
<1>7. hits \in SUBSET Nat
  BY <1>3 DEF InView
<1> HIDE DEF hits
<1>8. Min(hits) \in hits /\ \A i \in hits : Min(hits) <= i
  BY <1>5, <1>7, MinIs
<1>9. Min(hits) = k
  <2>1. Min(hits) \in Nat /\ k \in Nat /\ Min(hits) <= k /\ k <= Min(hits)
    BY <1>5, <1>6, <1>7, <1>8
  <2> QED BY <2>1
<1>10. Find(v, e, name) = s[k]
  BY <1>2, <1>5, <1>9
<1>11. s[k] # NoEntry
  BY FatFileAssumption DEF NoEntry, s
<1>12. e.dir /\ GoodEntry(v, s[k])
  BY <1>4, ShownIsGood DEF s
<1> QED BY <1>10, <1>11, <1>12 DEF s

\* Nothing is found when the search comes to the end.
LEMMA FindMiss ==
    ASSUME NEW v \in Volumes, NEW e, GoodEntry(v, e), NEW name,
           NEW m \in Nat, m <= Len(ContentsOf(v, e)),
           \A i \in 1 .. Len(ContentsOf(v, e)) : i <= m => Passed(ContentsOf(v, e), i, name),
           m < Len(ContentsOf(v, e)) => ContentsOf(v, e)[m + 1] = Never
    PROVE  Find(v, e, name) = NoEntry
<1> DEFINE s == ContentsOf(v, e)
           hits == {i \in InView(s) : s[i].name = name}
<1>1. HoldsWell(v, e, s)
  BY ContentsAre
<1>2. Find(v, e, name) = IF hits = {} THEN NoEntry ELSE s[Min(hits)]
  BY DEF Find
<1> HIDE DEF s
<1>3. Len(s) \in Nat /\ DOMAIN s = 1 .. Len(s)
  BY <1>1 DEF HoldsWell
<1>4. ASSUME NEW i \in hits PROVE FALSE
  <2>1. /\ i \in 1 .. Len(s) /\ IsEntry(s[i]) /\ s[i].name = name
        /\ \A j \in 1 .. i : s[j] # Never
    BY <1>3 DEF InView
  <2>2. ~(i <= m)
    BY <2>1 DEF Passed, s
  <2>3. m < Len(s) /\ m + 1 \in 1 .. i
    BY <1>3, <2>1, <2>2
  <2> QED BY <2>1, <2>3 DEF s
<1> QED BY <1>2, <1>4

\* What is found can be opened, and files have nothing in them.
LEMMA FindIs ==
    ASSUME NEW v \in Volumes, NEW e, GoodEntry(v, e), NEW name
    PROVE  /\ GoodEntry(v, Find(v, e, name)) /\ Find(v, e, name) \in PieceOn(v) \cup {NoEntry}
           /\ ~e.dir => Find(v, e, name) = NoEntry
<1> DEFINE s == ContentsOf(v, e)
           hits == {i \in InView(s) : s[i].name = name}
<1>1. HoldsWell(v, e, s)
  BY ContentsAre
<1>2. Find(v, e, name) = IF hits = {} THEN NoEntry ELSE s[Min(hits)]
  BY DEF Find
<1>3. hits \in SUBSET Nat /\ hits \subseteq InView(s)
  BY <1>1 DEF HoldsWell, InView
<1>4. CASE hits = {}
  BY <1>2, <1>4, NoEntryIsGood
<1>5. CASE hits # {}
  <2>1. Min(hits) \in InView(s)
    <3> HIDE DEF hits, s
    <3>1. Min(hits) \in hits
      BY <1>3, <1>5, MinIs
    <3> QED BY <1>3, <3>1
  <2>2. e.dir /\ GoodEntry(v, s[Min(hits)])
    BY <2>1, ShownIsGood
  <2>3. s[Min(hits)] \in PieceOn(v)
    <3> HIDE DEF hits, s
    <3> QED BY <1>1, <2>1 DEF HoldsWell, InView
  <2> QED BY <1>2, <1>5, <2>2, <2>3
<1> QED BY <1>4, <1>5

--------------------------------------------------------------------------------
(* Volumes: paths.                                                            *)

\* What can be found on a volume.
Entries(v) == {x \in PieceOn(v) \cup {Root, NoEntry} : GoodEntry(v, x)}

\* to are the steps of the path p.
Leads(v, p, to) ==
    /\ to[0] = Root
    /\ \A n \in 1 .. Len(p) : to[n] = Find(v, to[n - 1], p[n])
    /\ \A n \in 0 .. Len(p) : GoodEntry(v, to[n])

LEMMA StepsAre ==
    ASSUME NEW v \in Volumes, NEW p \in Seq(Names)
    PROVE  Leads(v, p, Steps(v, p))
<1> DEFINE N == Len(p)
           S == Entries(v)
           Turn(i, e) == Find(v, e, p[i])
           Unrolled(g) == [n \in 0 .. N |-> IF n = 0 THEN Root ELSE Turn(n, g[n - 1])]
           to == CHOOSE g : g = Unrolled(g)
           d == [x \in (1 .. N) \X S |-> Turn(x[1], x[2])]
<1>1. N \in Nat /\ Root \in S
  BY RootIsGood DEF Entries
<1>2. \A i \in 1 .. N : \A e \in S : Turn(i, e) \in S
  BY FindIs DEF Entries
<1>3. Steps(v, p) = to
  BY DEF Steps
<1>4. \A e \in S : GoodEntry(v, e)
  BY DEF Entries
<1> HIDE DEF Turn, N, S
<1>5. d \in [(1 .. N) \X S -> S]
  BY <1>2
<1>6. PICK f \in [0 .. N -> S] : Recurs(f, N, d, Root)
  <2> HIDE DEF d
  <2> QED BY <1>1, <1>5, Recursion, Zenon
<1>7. \A i \in 1 .. N : f[i] = Turn(i, f[i - 1])
  <2> SUFFICES ASSUME NEW i \in 1 .. N PROVE f[i] = Turn(i, f[i - 1])
    OBVIOUS
  <2> DEFINE u == f[i - 1]
  <2>1. u \in S
    BY <1>1, <1>6
  <2>2. f[i] = d[<<i, u>>]
    BY <1>6 DEF Recurs
  <2> HIDE DEF u
  <2>3. d[<<i, u>>] = Turn(i, u)
    BY <2>1
  <2> QED BY <2>2, <2>3 DEF u
<1>8. f = Unrolled(f)
  <2>1. \A i \in 0 .. N : f[i] = IF i = 0 THEN Root ELSE Turn(i, f[i - 1])
    <3> SUFFICES ASSUME NEW i \in 0 .. N
                 PROVE  f[i] = IF i = 0 THEN Root ELSE Turn(i, f[i - 1])
      OBVIOUS
    <3>1. i = 0 \/ i \in 1 .. N
      BY <1>1
    <3> QED BY <3>1, <1>6, <1>7 DEF Recurs
  <2> QED BY <1>6, <2>1
<1>9. to = Unrolled(to)
  <2> HIDE DEF Unrolled
  <2> QED BY <1>8
<1> HIDE DEF to
<1>10. to[0] = Root /\ \A i \in 1 .. N : to[i] = Turn(i, to[i - 1])
  <2>1. \A i \in 0 .. N : to[i] = IF i = 0 THEN Root ELSE Turn(i, to[i - 1])
    BY <1>9
  <2>2. 0 \in 0 .. N /\ \A i \in 1 .. N : i \in 0 .. N /\ i # 0
    BY <1>1
  <2> QED BY <2>1, <2>2
<1>11. \A i \in 0 .. N : to[i] = f[i]
  <2>1. GoAlike(to, f, N)
    BY <1>6, <1>7, <1>10 DEF Recurs, GoAlike
  <2> QED BY <1>1, <2>1, Alike DEF AreAlike
<1>12. \A i \in 0 .. N : GoodEntry(v, to[i])
  BY <1>4, <1>6, <1>11
<1> QED BY <1>3, <1>10, <1>12 DEF Leads, N, Turn

\* Behind a missing name everything is missing.
LEMMA MissingStays ==
    ASSUME NEW v \in Volumes, NEW p \in Seq(Names), NEW n \in 0 .. Len(p),
           Steps(v, p)[n] = NoEntry
    PROVE  Steps(v, p)[Len(p)] = NoEntry
<1> DEFINE to == Steps(v, p)
           T == {i \in n .. Len(p) : to[i] # NoEntry}
<1>1. Leads(v, p, to)
  BY StepsAre
<1>2. ~NoEntry.dir
  BY DEF NoEntry
<1> HIDE DEF to
<1>3. ASSUME T # {} PROVE FALSE
  <2>1. T \in SUBSET Nat
    OBVIOUS
  <2>2. PICK m \in T : \A i \in T : m <= i
    BY <1>3, <2>1, Least
  <2>3. m \in n .. Len(p) /\ to[m] # NoEntry /\ m # n
    BY <2>2 DEF to
  <2>4. m \in 1 .. Len(p) /\ m - 1 \in n .. Len(p) /\ m - 1 \in 0 .. Len(p) /\ ~(m <= m - 1)
    BY <2>3
  <2>5. to[m - 1] = NoEntry
    BY <2>2, <2>4
  <2>6. to[m] = Find(v, NoEntry, p[m])
    BY <1>1, <2>4, <2>5 DEF Leads
  <2>7. Find(v, NoEntry, p[m]) = NoEntry
    BY <1>2, NoEntryIsGood, FindIs
  <2> QED BY <2>3, <2>6, <2>7
<1>4. Len(p) \in n .. Len(p)
  OBVIOUS
<1> QED BY <1>3, <1>4 DEF to

\* A directory is in a directory.
LEMMA UpIsDirectory ==
    ASSUME NEW v \in Volumes, NEW p \in Seq(Names), p # <<>>, Steps(v, p)[Len(p)].dir
    PROVE  Front(p) \in Seq(Names) /\ Steps(v, Front(p))[Len(Front(p))].dir
<1> DEFINE q == Front(p)
           n == Len(p) - 1
           to == Steps(v, p)
           ti == Steps(v, q)
<1>1. /\ q \in Seq(Names) /\ Len(q) = n /\ n \in Nat /\ \A i \in 1 .. n : q[i] = p[i]
      /\ Len(p) \in 1 .. Len(p) /\ \A i \in 1 .. n : i \in 1 .. Len(p)
      /\ n \in 0 .. Len(p)
  <2>1. Len(p) \in Nat /\ Len(p) > 0 /\ p \in [1 .. Len(p) -> Names]
    OBVIOUS
  <2>2. q = SubSeq(p, 1, n)
    BY DEF Front
  <2>3. n \in Nat /\ n <= Len(p)
    BY <2>1
  <2> HIDE DEF q, n
  <2>4. q \in Seq(Names) /\ Len(q) = n /\ \A i \in 1 .. n : q[i] = p[i]
    BY <2>2, <2>3
  <2>5. Len(p) \in 1 .. Len(p) /\ \A i \in 1 .. n : i \in 1 .. Len(p)
    BY <2>1, <2>3
  <2> QED BY <2>3, <2>4, <2>5
<1>2. Leads(v, p, to) /\ Leads(v, q, ti)
  BY <1>1, StepsAre
<1> HIDE DEF q, to, ti, n
<1>3. GoAlike(to, ti, n)
  BY <1>1, <1>2 DEF Leads, GoAlike
<1>4. to[n] = ti[n]
  <2>1. AreAlike(to, ti, n)
    BY <1>1, <1>3, Alike
  <2> QED BY <1>1, <2>1 DEF AreAlike
<1>5. to[n].dir
  <2>1. to[Len(p)] = Find(v, to[n], p[Len(p)]) /\ GoodEntry(v, to[n])
    BY <1>1, <1>2 DEF Leads, n
  <2>2. ~to[n].dir => to[Len(p)] = NoEntry
    BY <2>1, FindIs
  <2>3. ~NoEntry.dir /\ to[Len(p)].dir
    BY DEF NoEntry, to
  <2> QED BY <2>2, <2>3
<1> QED BY <1>1, <1>4, <1>5 DEF q, ti

--------------------------------------------------------------------------------
(* Volumes: lists.                                                            *)

LEMMA ListsAre ==
    ASSUME NEW S, NEW s \in Seq(S)
    PROVE  /\ Lists(s)[0] = <<>>
           /\ \A n \in 1 .. Len(s) :
                 Lists(s)[n] = IF n \in InView(s) THEN Append(Lists(s)[n - 1], s[n])
                               ELSE Lists(s)[n - 1]
<1> DEFINE N == Len(s)
           seen == InView(s)
           Q == Seq(S)
           Turn(i, l) == IF i \in seen THEN Append(l, s[i]) ELSE l
           Unrolled(g) == [n \in 0 .. N |-> IF n = 0 THEN <<>> ELSE Turn(n, g[n - 1])]
           to == CHOOSE g : g = Unrolled(g)
           d == [x \in (1 .. N) \X Q |-> Turn(x[1], x[2])]
<1>1. N \in Nat /\ <<>> \in Q
  OBVIOUS
<1>2. \A i \in 1 .. N : \A l \in Q : Turn(i, l) \in Q
  OBVIOUS
<1>3. Lists(s) = to
  BY DEF Lists
<1> HIDE DEF Turn, N, Q
<1>4. d \in [(1 .. N) \X Q -> Q]
  BY <1>2
<1>5. PICK f \in [0 .. N -> Q] : Recurs(f, N, d, <<>>)
  <2> HIDE DEF d
  <2> QED BY <1>1, <1>4, Recursion, Zenon
<1>6. \A i \in 1 .. N : f[i] = Turn(i, f[i - 1])
  <2> SUFFICES ASSUME NEW i \in 1 .. N PROVE f[i] = Turn(i, f[i - 1])
    OBVIOUS
  <2> DEFINE u == f[i - 1]
  <2>1. u \in Q
    BY <1>1, <1>5
  <2>2. f[i] = d[<<i, u>>]
    BY <1>5 DEF Recurs
  <2> HIDE DEF u
  <2>3. d[<<i, u>>] = Turn(i, u)
    BY <2>1
  <2> QED BY <2>2, <2>3 DEF u
<1>7. f = Unrolled(f)
  <2>1. \A i \in 0 .. N : f[i] = IF i = 0 THEN <<>> ELSE Turn(i, f[i - 1])
    <3> SUFFICES ASSUME NEW i \in 0 .. N
                 PROVE  f[i] = IF i = 0 THEN <<>> ELSE Turn(i, f[i - 1])
      OBVIOUS
    <3>1. i = 0 \/ i \in 1 .. N
      BY <1>1
    <3> QED BY <3>1, <1>5, <1>6 DEF Recurs
  <2> QED BY <1>5, <2>1
<1>8. to = Unrolled(to)
  <2> HIDE DEF Unrolled
  <2> QED BY <1>7
<1> HIDE DEF to
<1>9. to[0] = <<>> /\ \A i \in 1 .. N : to[i] = Turn(i, to[i - 1])
  <2>1. \A i \in 0 .. N : to[i] = IF i = 0 THEN <<>> ELSE Turn(i, to[i - 1])
    BY <1>8
  <2>2. 0 \in 0 .. N /\ \A i \in 1 .. N : i \in 0 .. N /\ i # 0
    BY <1>1
  <2> QED BY <2>1, <2>2
<1> QED BY <1>3, <1>9 DEF N, Turn

\* Up to the end mark every entry is listed, and nothing else.
LEMMA ListsNext ==
    ASSUME NEW S, NEW s \in Seq(S), NEW n \in 1 .. Len(s), \A i \in 1 .. n : s[i] # Never
    PROVE  Lists(s)[n] = IF IsEntry(s[n]) THEN Append(Lists(s)[n - 1], s[n])
                         ELSE Lists(s)[n - 1]
<1>1. n \in DOMAIN s
  OBVIOUS
<1>2. n \in InView(s) <=> IsEntry(s[n])
  BY <1>1 DEF InView
<1> QED BY <1>2, ListsAre, Zenon

\* Behind the end mark nothing is listed.
LEMMA ListsEnd ==
    ASSUME NEW S, NEW s \in Seq(S), NEW m \in 0 .. Len(s), m < Len(s) => s[m + 1] = Never
    PROVE  Lists(s)[Len(s)] = Lists(s)[m]
<1> DEFINE to == Lists(s)
           T == {i \in m .. Len(s) : to[i] # to[m]}
<1>1. \A n \in 1 .. Len(s) : to[n] = IF n \in InView(s) THEN Append(to[n - 1], s[n])
                                     ELSE to[n - 1]
  BY ListsAre, Zenon
<1> HIDE DEF to
<1>2. ASSUME T # {} PROVE FALSE
  <2>1. T \in SUBSET Nat
    OBVIOUS
  <2>2. PICK n \in T : \A i \in T : n <= i
    BY <1>2, <2>1, Least
  <2>3. n \in m .. Len(s) /\ to[n] # to[m] /\ n # m
    BY <2>2
  <2>4. n \in 1 .. Len(s) /\ n - 1 \in m .. Len(s) /\ ~(n <= n - 1) /\ m + 1 \in 1 .. n /\ m < Len(s)
    BY <2>3
  <2>5. to[n - 1] = to[m]
    BY <2>2, <2>4
  <2>6. n \notin InView(s)
    BY <2>4 DEF InView
  <2> QED BY <1>1, <2>3, <2>4, <2>5, <2>6
<1>3. Len(s) \in m .. Len(s)
  OBVIOUS
<1> QED BY <1>2, <1>3 DEF to

--------------------------------------------------------------------------------
(* Handles.                                                                   *)

FilesOn(v) ==
    [Opened : BOOLEAN, IsDirectory : BOOLEAN, Position : Nat, Size : Nat,
     FirstCluster : DOMAIN v.next \cup {0}, CurrentCluster : DOMAIN v.next \cup {0, EOC},
     CurrentSectorInCluster : 0 .. SectorsPerCluster - 1, Buffer : BufferOn(v)]

\* The handle is open on the same entry.
Kept(f, g) ==
    /\ g.Opened = f.Opened /\ g.IsDirectory = f.IsDirectory
    /\ g.Size = f.Size /\ g.FirstCluster = f.FirstCluster

\* The handle is at the same place.
Placed(f, g) ==
    /\ g.Position = f.Position /\ g.CurrentCluster = f.CurrentCluster
    /\ g.CurrentSectorInCluster = f.CurrentSectorInCluster

LEMMA Buffered ==
    ASSUME NEW v, NEW f \in FilesOn(v), NEW b \in BufferOn(v)
    PROVE  LET g == [f EXCEPT !.Buffer = b]
           IN  g \in FilesOn(v) /\ Kept(f, g) /\ Placed(f, g) /\ g.Buffer = b
BY DEF FilesOn, Kept, Placed

\* The outcomes of a read of the disk.
LEMMA LoadsAre ==
    ASSUME volume \in Volumes, NEW f \in FilesOn(volume), NEW l \in Loads(f)
    PROVE  /\ l.file \in FilesOn(volume) /\ l.ok \in BOOLEAN
           /\ Kept(f, l.file) /\ Placed(f, l.file)
           /\ l.ok => l.file.Buffer
                        = SectorOn(volume, f.CurrentCluster, f.CurrentSectorInCluster)
<1> DEFINE b == SectorOn(volume, f.CurrentCluster, f.CurrentSectorInCluster)
           g == [f EXCEPT !.Buffer = b]
<1>1. f.CurrentSectorInCluster \in 0 .. SectorsPerCluster - 1
  BY DEF FilesOn
<1>2. b \in BufferOn(volume)
  BY <1>1, SectorIs
<1>3. b = SectorOf(f.CurrentCluster, f.CurrentSectorInCluster)
  BY DEF SectorOn, SectorOf, Cluster
<1>4. l = [file |-> g, ok |-> TRUE] \/ l = [file |-> f, ok |-> FALSE]
  BY <1>3 DEF Loads
<1> HIDE DEF b
<1>5. g \in FilesOn(volume) /\ Kept(f, g) /\ Placed(f, g) /\ g.Buffer = b
  BY <1>2, Buffered
<1>6. Kept(f, f) /\ Placed(f, f)
  BY DEF Kept, Placed
<1> HIDE DEF g
<1>7. CASE l = [file |-> g, ok |-> TRUE]
  <2>1. l.file = g /\ l.ok = TRUE
    BY <1>7
  <2> QED BY <2>1, <1>5 DEF b
<1>8. CASE l = [file |-> f, ok |-> FALSE]
  <2>1. l.file = f /\ l.ok = FALSE
    BY <1>8
  <2> QED BY <2>1, <1>6
<1> QED BY <1>4, <1>7, <1>8

\* Back to the beginning.
LEMMA RewoundIs ==
    ASSUME NEW v, NEW f \in FilesOn(v)
    PROVE  /\ Rewound(f) \in FilesOn(v) /\ Kept(f, Rewound(f))
           /\ Rewound(f).Position = 0 /\ Rewound(f).CurrentCluster = f.FirstCluster
           /\ Rewound(f).CurrentSectorInCluster = 0
<1> DEFINE g == [f EXCEPT !.Position = 0, !.CurrentCluster = f.FirstCluster,
                         !.CurrentSectorInCluster = 0]
<1>1. /\ f.FirstCluster \in DOMAIN v.next \cup {0, EOC} /\ 0 \in Nat
      /\ 0 \in 0 .. SectorsPerCluster - 1
  BY Sizes DEF FilesOn
<1>2. /\ Kept(f, g) /\ g.Position = 0 /\ g.CurrentCluster = f.FirstCluster
      /\ g.CurrentSectorInCluster = 0
  BY DEF FilesOn, Kept
<1>3. g \in FilesOn(v)
  BY <1>1 DEF FilesOn
<1> QED BY <1>2, <1>3 DEF Rewound

\* t pieces on, in the buffer.
LEMMA MovedIs ==
    ASSUME NEW v, NEW f \in FilesOn(v), NEW t \in Nat
    PROVE  LET g == [f EXCEPT !.Position = @ + t]
           IN  /\ g \in FilesOn(v) /\ Kept(f, g) /\ g.Position = f.Position + t
               /\ g.CurrentCluster = f.CurrentCluster /\ g.Buffer = f.Buffer
               /\ g.CurrentSectorInCluster = f.CurrentSectorInCluster
BY DEF FilesOn, Kept

\* At the end of the chain.
LEMMA AtEndIs ==
    ASSUME NEW v, NEW f \in FilesOn(v)
    PROVE  LET g == AtEnd(f)
           IN  /\ g \in FilesOn(v) /\ Placed(f, g) /\ g.Buffer = f.Buffer
               /\ g.Opened = f.Opened /\ g.IsDirectory = f.IsDirectory
               /\ g.FirstCluster = f.FirstCluster
               /\ g.Size = IF current = ROOT_DIR_HANDLE THEN f.Size ELSE f.Position
BY DEF FilesOn, AtEnd, Placed

\* The next sector of a handle: in the cluster, or in the cluster that is next.
Advances(v, f, n) ==
    /\ n.file \in FilesOn(v) /\ n.ok \in BOOLEAN /\ Kept(f, n.file)
    /\ n.file.Position = f.Position /\ n.file.Buffer = f.Buffer
    /\ f.CurrentSectorInCluster + 1 < SectorsPerCluster =>
          /\ n.file.CurrentSectorInCluster = f.CurrentSectorInCluster + 1
          /\ n.file.CurrentCluster = f.CurrentCluster
    /\ f.CurrentSectorInCluster + 1 >= SectorsPerCluster =>
          /\ n.file.CurrentSectorInCluster = 0
          /\ n.ok /\ f.CurrentCluster # 0 => n.file.CurrentCluster = v.next[f.CurrentCluster]

LEMMA NextSectorAre ==
    ASSUME volume \in Volumes, NEW f \in FilesOn(volume), f.CurrentCluster # EOC,
           NEW n \in NextSector(f)
    PROVE  Advances(volume, f, n)
<1> DEFINE S == DOMAIN volume.next \cup {0, EOC}
           i == f.CurrentSectorInCluster
<1>1. i \in 0 .. SectorsPerCluster - 1 /\ f.CurrentCluster \in S /\ SectorsPerCluster \in Nat \ {0}
  BY Sizes DEF FilesOn
<1>2. CASE i + 1 < SectorsPerCluster
  <2> DEFINE g == [f EXCEPT !.CurrentSectorInCluster = @ + 1]
  <2>1. n = [file |-> g, ok |-> TRUE]
    BY <1>2 DEF NextSector
  <2>2. /\ g \in FilesOn(volume) /\ Kept(f, g) /\ g.Position = f.Position /\ g.Buffer = f.Buffer
        /\ g.CurrentSectorInCluster = i + 1 /\ g.CurrentCluster = f.CurrentCluster
    BY <1>1, <1>2 DEF FilesOn, Kept
  <2> HIDE DEF g
  <2>3. n.file = g /\ n.ok = TRUE
    BY <2>1
  <2>4. ~(i + 1 >= SectorsPerCluster)
    BY <1>1, <1>2
  <2> QED BY <2>2, <2>3, <2>4, Zenon DEF Advances
<1>3. CASE ~(i + 1 < SectorsPerCluster)
  <2>1. PICK m \in Nexts(f.CurrentCluster) :
           n = [file |-> [f EXCEPT !.CurrentSectorInCluster = 0, !.CurrentCluster = m.cluster],
                ok   |-> m.ok]
    BY <1>3 DEF NextSector
  <2>2. /\ m.cluster \in S /\ m.ok \in BOOLEAN
        /\ m.ok /\ f.CurrentCluster # 0 => m.cluster = volume.next[f.CurrentCluster]
    <3> DEFINE a == IF f.CurrentCluster = 0 THEN EOC ELSE volume.next[f.CurrentCluster]
    <3>1. m = [cluster |-> a, ok |-> TRUE] \/ m \in [cluster : Unread, ok : {FALSE}]
      BY DEF Nexts
    <3>2. a \in S /\ (f.CurrentCluster # 0 => a = volume.next[f.CurrentCluster])
      BY <1>1, VolumeFacts
    <3>3. Unread \subseteq S
      BY VolumeFacts
    <3> HIDE DEF a, S
    <3>4. CASE m = [cluster |-> a, ok |-> TRUE]
      BY <3>2, <3>4
    <3>5. CASE m \in [cluster : Unread, ok : {FALSE}]
      BY <3>3, <3>5
    <3> QED BY <3>1, <3>4, <3>5
  <2> DEFINE g == [f EXCEPT !.CurrentSectorInCluster = 0, !.CurrentCluster = m.cluster]
  <2>3. /\ Kept(f, g) /\ g.Position = f.Position /\ g.Buffer = f.Buffer
        /\ g.CurrentSectorInCluster = 0 /\ g.CurrentCluster = m.cluster
    BY DEF FilesOn, Kept
  <2>5. g \in FilesOn(volume)
    <3>1. 0 \in 0 .. SectorsPerCluster - 1
      BY <1>1
    <3> QED BY <2>2, <3>1 DEF FilesOn
  <2> HIDE DEF g
  <2>4. n.file = g /\ n.ok = m.ok
    BY <2>1 DEF g
  <2> QED BY <1>1, <1>3, <2>2, <2>3, <2>4, <2>5 DEF Advances
<1> QED BY <1>2, <1>3

\* The room of a sector and the number asked for bound a turn of the loop.
LEMMA TakeIs ==
    ASSUME NEW p \in Nat, NEW w \in Int, w > 0
    PROVE  LET from == p % SECTOR_SIZE
               take == Min({w, SECTOR_SIZE - from})
           IN  /\ from \in 0 .. SECTOR_SIZE - 1 /\ take \in Nat /\ take > 0
               /\ take <= w /\ from + take <= SECTOR_SIZE
<1>1. SECTOR_SIZE \in Nat /\ SECTOR_SIZE > 0
  BY Sizes
<1>2. p % SECTOR_SIZE \in 0 .. SECTOR_SIZE - 1
  BY <1>1, Divide
<1> DEFINE from == p % SECTOR_SIZE
<1> HIDE DEF from
<1>3. from \in 0 .. SECTOR_SIZE - 1 /\ SECTOR_SIZE - from \in Int /\ SECTOR_SIZE - from > 0
  BY <1>1, <1>2 DEF from
<1>4. Min({w, SECTOR_SIZE - from}) = IF w <= SECTOR_SIZE - from THEN w ELSE SECTOR_SIZE - from
  BY <1>3, MinTwo
<1> DEFINE take == Min({w, SECTOR_SIZE - from})
<1> HIDE DEF take
<1>5. take = IF w <= SECTOR_SIZE - from THEN w ELSE SECTOR_SIZE - from
  BY <1>4 DEF take
<1>6. take \in Nat /\ take > 0 /\ take <= w /\ from + take <= SECTOR_SIZE
  BY <1>1, <1>3, <1>5
<1> QED BY <1>3, <1>6 DEF from, take

--------------------------------------------------------------------------------
(* A handle that reads an entry.                                              *)

\* It is at piece j of sector s of the k-th cluster of its chain.
InSector(v, f, k, s, j) ==
    LET chain == ChainOf(v, f.FirstCluster) IN
    /\ Sits(f.Position, k, s, j) /\ k < Len(chain)
    /\ f.CurrentCluster = chain[k + 1] /\ f.CurrentSectorInCluster = s
    /\ f.Buffer = SectorOn(v, chain[k + 1], s)

\* It is behind the end; only the root directory is read on there, in the last sector.
Behind(v, h, f, j) ==
    LET chain == ChainOf(v, f.FirstCluster)
        n == Len(chain)
    IN  /\ f.Position = n * ClusterSize + j /\ (j > 0 => h = ROOT_DIR_HANDLE)
        /\ IF n = 0 THEN f.CurrentCluster = 0
           ELSE /\ f.CurrentCluster = EOC
                /\ f.Buffer = SectorOn(v, chain[n], SectorsPerCluster - 1)

OnPlace(v, h, f) ==
    \/ \E k \in 0 .. Len(ChainOf(v, f.FirstCluster)) - 1, s \in 0 .. SectorsPerCluster - 1,
          j \in 0 .. SECTOR_SIZE - 1 : InSector(v, f, k, s, j)
    \/ \E j \in 0 .. SECTOR_SIZE - 1 : Behind(v, h, f, j)

\* It has the size of the entry, and w pieces are there to be read.  A directory has no
\* size until its end is met, and the root directory none then.
Sized(h, e, f, s, w) ==
    /\ e.dir => \/ f.Size = 0 /\ (h # ROOT_DIR_HANDLE => f.Position # Len(s))
                \/ /\ h # ROOT_DIR_HANDLE /\ w = 0
                   /\ f.Size = f.Position /\ f.Position = Len(s)
    /\ ~e.dir => f.Size = e.size /\ f.Position + w <= f.Size

Reader(v, h, e, f, w) ==
    /\ f.Opened /\ f.IsDirectory = e.dir /\ f.FirstCluster = e.first
    /\ Sized(h, e, f, ContentsOf(v, e), w) /\ OnPlace(v, h, f)

\* It is at the beginning of the entry.
AtStart(v, e, f) ==
    /\ f.Opened /\ f.IsDirectory = e.dir /\ f.FirstCluster = e.first /\ f.Size = e.size
    /\ f.Position = 0 /\ f.CurrentCluster = f.FirstCluster /\ f.CurrentSectorInCluster = 0
    /\ f.Buffer = SectorOn(v, f.FirstCluster, 0)

LEMMA StartReads ==
    ASSUME NEW v \in Volumes, NEW e, GoodEntry(v, e), NEW h, NEW f, AtStart(v, e, f)
    PROVE  Reader(v, h, e, f, 0)
<1> DEFINE q == ChainOf(v, e.first)
           s == ContentsOf(v, e)
<1>1. Chained(v, e.first, q) /\ HoldsWell(v, e, s)
  BY ChainIs, ContentsAre DEF GoodEntry
<1>2. f.FirstCluster = e.first /\ f.Position = 0 /\ f.Size = e.size /\ f.CurrentCluster = e.first
      /\ f.CurrentSectorInCluster = 0 /\ f.Buffer = SectorOn(v, e.first, 0)
  BY DEF AtStart
<1>3. e.dir \in BOOLEAN /\ e.size \in Nat /\ (e.dir => e.size = 0)
  BY DEF GoodEntry
<1>4. Sized(h, e, f, s, 0)
  <2> HIDE DEF s
  <2>1. e.dir => Len(s) > 0
    BY <1>1 DEF HoldsWell
  <2> QED BY <1>2, <1>3, <2>1 DEF Sized
<1>5. /\ SECTOR_SIZE \in Nat \ {0} /\ SectorsPerCluster \in Nat \ {0} /\ ClusterSize \in Nat
      /\ 0 * SECTOR_SIZE = 0 /\ 0 * ClusterSize = 0
  BY Sizes
<1> HIDE DEF q
<1>6. OnPlace(v, h, f)
  <2>1. CASE e.first = 0
    <3>1. Len(q) = 0
      BY <1>1, <2>1 DEF Chained
    <3>2. Behind(v, h, f, 0)
      BY <1>2, <1>5, <2>1, <3>1 DEF Behind, q
    <3> QED BY <1>5, <3>2 DEF OnPlace
  <2>2. CASE e.first # 0
    <3>1. Len(q) > 0 /\ q[1] = e.first /\ Len(q) \in Nat
      BY <1>1, <2>2 DEF Chained
    <3>2. Sits(0, 0, 0, 0)
      BY <1>5 DEF Sits
    <3>3. InSector(v, f, 0, 0, 0)
      BY <1>2, <3>1, <3>2 DEF InSector, q
    <3>4. 0 \in 0 .. Len(q) - 1 /\ 0 \in 0 .. SectorsPerCluster - 1 /\ 0 \in 0 .. SECTOR_SIZE - 1
      BY <1>5, <3>1
    <3> QED BY <1>2, <3>3, <3>4 DEF OnPlace, q
  <2> QED BY <2>1, <2>2
<1> QED BY <1>4, <1>6 DEF Reader, AtStart

\* What FAT_Read makes of the number asked for is there to be read.
LEMMA AskingReads ==
    ASSUME NEW v \in Volumes, NEW e, GoodEntry(v, e), NEW h, NEW f \in FilesOn(v),
           Reader(v, h, e, f, 0), NEW n \in Nat, n > 0
    PROVE  LET w == Clipped(f, n)
               s == ContentsOf(v, e)
           IN  /\ Reader(v, h, e, f, w) /\ w \in 0 .. n
               /\ w = n \/ f.Position + w = Len(s)
               /\ h = ROOT_DIR_HANDLE /\ e.dir => w > 0
<1> DEFINE w == Clipped(f, n)
           s == ContentsOf(v, e)
<1>1. /\ f.IsDirectory = e.dir /\ Sized(h, e, f, s, 0) /\ HoldsWell(v, e, s)
      /\ f.Opened /\ f.FirstCluster = e.first /\ OnPlace(v, h, f)
  BY ContentsAre DEF Reader
<1>2. f.Position \in Nat /\ f.Size \in Nat /\ Len(s) \in Nat
  BY <1>1 DEF FilesOn, HoldsWell
<1>3. ~e.dir => Len(s) = e.size
  BY <1>1 DEF HoldsWell
<1>4. w = IF f.IsDirectory /\ f.Size = 0 THEN n
          ELSE IF n <= f.Size - f.Position THEN n ELSE f.Size - f.Position
  <2>1. Min({n, f.Size - f.Position})
           = IF n <= f.Size - f.Position THEN n ELSE f.Size - f.Position
    BY <1>2, MinTwo
  <2> QED BY <2>1 DEF Clipped
<1>5. e.dir => Len(s) > 0
  BY <1>1 DEF HoldsWell
<1> HIDE DEF w, s
<1>6. /\ w \in 0 .. n /\ (w = n \/ f.Position + w = Len(s))
      /\ h = ROOT_DIR_HANDLE /\ e.dir => w > 0
      /\ Sized(h, e, f, s, w)
  <2>1. e.dir \in BOOLEAN
    BY DEF GoodEntry
  <2>2. CASE e.dir /\ f.Size = 0
    <3>1. w = n
      BY <1>1, <1>4, <2>2
    <3>2. h # ROOT_DIR_HANDLE => f.Position # Len(s)
      BY <1>1, <1>2, <1>5, <2>2 DEF Sized
    <3> QED BY <2>2, <3>1, <3>2 DEF Sized
  <2>3. CASE e.dir /\ f.Size # 0
    <3>1. h # ROOT_DIR_HANDLE /\ f.Size = f.Position /\ f.Position = Len(s)
      BY <1>1, <2>3 DEF Sized
    <3>2. w = 0
      BY <1>2, <1>4, <2>3, <3>1
    <3> QED BY <1>2, <2>3, <3>1, <3>2 DEF Sized
  <2>4. CASE ~e.dir
    <3>1. f.Size = Len(s) /\ f.Position <= f.Size
      BY <1>1, <1>2, <1>3, <2>4 DEF Sized
    <3>2. w = IF n <= f.Size - f.Position THEN n ELSE f.Size - f.Position
      BY <1>1, <1>4, <2>4
    <3>3. w \in 0 .. n /\ (w = n \/ f.Position + w = Len(s)) /\ f.Position + w <= f.Size
      BY <1>2, <3>1, <3>2, SMTT(30)
    <3> QED BY <1>3, <2>4, <3>1, <3>3 DEF Sized
  <2> QED BY <2>1, <2>2, <2>3, <2>4
<1>7. Reader(v, h, e, f, w)
  BY <1>1, <1>6 DEF Reader, s
<1> QED BY <1>6, <1>7 DEF w, s

\* While there is something to read the handle is in a sector of the chain, or it is the
\* root directory's behind its end.
LEMMA TurnsAre ==
    ASSUME NEW v \in Volumes, NEW e, GoodEntry(v, e), NEW h, NEW f, NEW w \in Int, w > 0,
           Reader(v, h, e, f, w)
    PROVE  \/ \E k, s, j : InSector(v, f, k, s, j)
           \/ /\ e.dir /\ h = ROOT_DIR_HANDLE /\ Len(ChainOf(v, e.first)) > 0
              /\ \E j \in 0 .. SECTOR_SIZE - 1 : Behind(v, h, f, j)
<1> DEFINE q == ChainOf(v, e.first)
           s == ContentsOf(v, e)
           P == PiecesOf(v, e.first)
<1>1. HoldsWell(v, e, s) /\ Pieced(v, q, P) /\ Chained(v, e.first, q)
  BY ContentsAre, ChainIs, PiecesAre DEF GoodEntry
<1>2. f.FirstCluster = e.first /\ Sized(h, e, f, s, w) /\ OnPlace(v, h, f)
  BY DEF Reader
<1>3. Len(P) = Len(q) * ClusterSize /\ Len(q) * ClusterSize \in Nat /\ Len(q) \in Nat
  BY <1>1 DEF Pieced, Chained
<1>4. /\ e.dir \in BOOLEAN /\ e.size \in Nat
      /\ e.dir => Len(s) = Len(P) /\ Len(q) > 0
      /\ ~e.dir => Len(s) = e.size /\ Len(s) <= Len(P)
  BY <1>1 DEF GoodEntry, HoldsWell
<1> HIDE DEF q, s, P
<1>5. SUFFICES ASSUME NEW j \in 0 .. SECTOR_SIZE - 1, Behind(v, h, f, j)
               PROVE  e.dir /\ h = ROOT_DIR_HANDLE /\ Len(q) > 0
  BY <1>2 DEF OnPlace, q
<1>6. f.Position = Len(P) + j /\ (j > 0 => h = ROOT_DIR_HANDLE) /\ j \in Nat
  BY <1>2, <1>3, <1>5, Sizes DEF Behind, q
<1>7. e.dir
  <2>1. ASSUME ~e.dir PROVE FALSE
    <3>1. f.Size = e.size /\ f.Position + w <= f.Size
      BY <1>2, <2>1 DEF Sized
    <3>2. Len(P) \in Nat /\ e.size <= Len(P)
      BY <1>3, <1>4, <2>1
    <3> QED BY <1>4, <1>6, <3>1, <3>2
  <2> QED BY <1>4, <2>1
<1>8. h = ROOT_DIR_HANDLE
  <2>1. ASSUME h # ROOT_DIR_HANDLE PROVE FALSE
    <3>1. f.Position = Len(s)
      BY <1>3, <1>4, <1>6, <1>7, <2>1
    <3> QED BY <1>2, <1>7, <2>1, <3>1 DEF Sized
  <2> QED BY <2>1
<1> QED BY <1>4, <1>7, <1>8

\* The t pieces behind place j of the buffer of f are the next of s.
Has(f, s, j, t) ==
    /\ f.Position + t <= Len(s)
    /\ \A i \in 1 .. t : f.Buffer[j + i] = s[f.Position + i]

\* t pieces from the sector it is at are the next of the entry.
LEMMA SectorHas ==
    ASSUME NEW v \in Volumes, NEW e, GoodEntry(v, e), NEW h, NEW f \in FilesOn(v),
           NEW w \in Int, w > 0, Reader(v, h, e, f, w),
           NEW k, NEW s, NEW j, InSector(v, f, k, s, j),
           NEW t \in Nat, t <= w, j + t <= SECTOR_SIZE
    PROVE  /\ f.Position % SECTOR_SIZE = j /\ f.CurrentCluster \in DOMAIN v.next
           /\ Has(f, ContentsOf(v, e), j, t)
<1> DEFINE q == ChainOf(v, e.first)
           c == ContentsOf(v, e)
           P == PiecesOf(v, e.first)
           p == f.Position
<1>1. HoldsWell(v, e, c) /\ Pieced(v, q, P) /\ Chained(v, e.first, q) /\ Heads(v, e.first)
  BY ContentsAre, ChainIs, PiecesAre DEF GoodEntry
<1>2. f.FirstCluster = e.first /\ Sized(h, e, f, c, w)
  BY DEF Reader
<1>3. /\ Sits(p, k, s, j) /\ k < Len(q) /\ f.CurrentCluster = q[k + 1]
      /\ f.Buffer = SectorOn(v, q[k + 1], s)
  BY <1>2 DEF InSector
<1>4. p % SECTOR_SIZE = j /\ p \in Nat /\ k \in Nat /\ j \in Nat
  BY <1>3, Sizes, SitsIs, SMTT(30) DEF Sits
<1>5. f.CurrentCluster \in DOMAIN v.next
  BY <1>1, <1>3, <1>4 DEF Chained
<1>6. Len(P) = Len(q) * ClusterSize /\ Len(P) \in Nat /\ Len(q) \in Nat /\ Len(c) \in Nat
  BY <1>1 DEF Pieced, Chained, HoldsWell
<1> HIDE DEF p, c, P
<1>7. p + t <= Len(P)
  <2> HIDE DEF q
  <2> QED BY <1>3, <1>6, SitsBelow
<1>8. p + t <= Len(c)
  <2>1. e.dir => c = P
    BY <1>1 DEF HoldsWell, P
  <2>2. ~e.dir => Len(c) = e.size /\ f.Size = e.size /\ p + w <= f.Size
    BY <1>1, <1>2 DEF HoldsWell, Sized, p
  <2>3. e.dir \in BOOLEAN
    BY DEF GoodEntry
  <2> QED BY <1>4, <1>6, <1>7, <2>1, <2>2, <2>3, SMTT(30)
<1>9. ASSUME NEW i \in 1 .. t PROVE f.Buffer[j + i] = c[p + i]
  <2>1. i \in Nat /\ i > 0 /\ j + i <= SECTOR_SIZE
    BY <1>4, Sizes
  <2>2. SectorOn(v, q[k + 1], s)[j + i] = P[p + i]
    BY <1>1, <1>3, <2>1, BufferIs DEF P
  <2>3. p + i \in 1 .. Len(c)
    BY <1>4, <1>6, <1>8
  <2>4. c[p + i] = P[p + i]
    BY <1>1, <2>3 DEF HoldsWell, P
  <2> QED BY <1>3, <2>2, <2>4
<1> QED BY <1>4, <1>5, <1>8, <1>9 DEF Has, p, c

\* Size and number after t pieces.
LEMMA SizedNext ==
    ASSUME NEW e, e.dir \in BOOLEAN, NEW h, NEW f, NEW g, NEW s, NEW w \in Int, w > 0,
           NEW t \in Nat, f.Position \in Nat, f.Size \in Nat, e.size \in Nat,
           Sized(h, e, f, s, w), g.Size = f.Size, g.Position = f.Position + t,
           h # ROOT_DIR_HANDLE /\ e.dir => f.Position + t # Len(s)
    PROVE  Sized(h, e, g, s, w - t)
<1>1. CASE e.dir
  <2>1. f.Size = 0
    BY <1>1 DEF Sized
  <2> QED BY <1>1, <2>1 DEF Sized
<1>2. CASE ~e.dir
  <2>1. f.Size = e.size /\ f.Position + w <= f.Size
    BY <1>2 DEF Sized
  <2>2. g.Size = e.size /\ g.Position + (w - t) <= g.Size
    BY <2>1
  <2> QED BY <1>2, <2>2 DEF Sized
<1> QED BY <1>1, <1>2

\* What a turn of the loop that stays in the chain leaves of the handle.
Turned(v, f, g, t) ==
    /\ Kept(f, g) /\ g.Position = f.Position + t
    /\ \E k, s, j : InSector(v, g, k, s, j)

LEMMA TurnedReads ==
    ASSUME NEW v \in Volumes, NEW e, GoodEntry(v, e), NEW h, NEW f \in FilesOn(v),
           NEW w \in Int, w > 0, Reader(v, h, e, f, w), NEW t \in Nat,
           NEW g, Turned(v, f, g, t)
    PROVE  Reader(v, h, e, g, w - t) /\ (e.dir => g.Position < Len(ContentsOf(v, e)))
<1> DEFINE q == ChainOf(v, e.first)
           c == ContentsOf(v, e)
           P == PiecesOf(v, e.first)
<1>1. HoldsWell(v, e, c) /\ Pieced(v, q, P) /\ Chained(v, e.first, q)
  BY ContentsAre, ChainIs, PiecesAre DEF GoodEntry
<1>2. /\ f.Opened /\ f.IsDirectory = e.dir /\ f.FirstCluster = e.first
      /\ Sized(h, e, f, c, w)
  BY DEF Reader
<1>3. /\ g.Opened /\ g.IsDirectory = e.dir /\ g.FirstCluster = e.first
      /\ g.Size = f.Size /\ g.Position = f.Position + t
  BY <1>2 DEF Turned, Kept
<1>4. PICK k, s, j : InSector(v, g, k, s, j)
  BY DEF Turned
<1>5. Sits(g.Position, k, s, j) /\ k < Len(q)
  BY <1>3, <1>4 DEF InSector
<1>6. Len(P) = Len(q) * ClusterSize /\ Len(P) \in Nat /\ Len(q) \in Nat
  BY <1>1 DEF Pieced, Chained
<1>7. k \in 0 .. Len(q) - 1 /\ s \in 0 .. SectorsPerCluster - 1 /\ j \in 0 .. SECTOR_SIZE - 1
  BY <1>5, <1>6 DEF Sits
<1>8. OnPlace(v, h, g)
  BY <1>3, <1>4, <1>7 DEF OnPlace
<1>9. g.Position < Len(P)
  <2> HIDE DEF q, P
  <2> QED BY <1>5, <1>6, SitsBelow
<1>10. Sized(h, e, g, c, w - t)
  <2>1. e.dir => Len(c) = Len(P)
    BY <1>1 DEF HoldsWell
  <2>2. e.dir \in BOOLEAN /\ e.size \in Nat /\ f.Position \in Nat /\ f.Size \in Nat
    BY DEF GoodEntry, FilesOn
  <2> HIDE DEF c, P
  <2>3. h # ROOT_DIR_HANDLE /\ e.dir => f.Position + t # Len(c)
    BY <1>3, <1>6, <1>9, <2>1, <2>2
  <2> QED BY <1>2, <1>3, <2>2, <2>3, SizedNext
<1>11. e.dir => g.Position < Len(c)
  BY <1>1, <1>9 DEF HoldsWell
<1> QED BY <1>3, <1>8, <1>10, <1>11 DEF Reader

\* t pieces further, g is at the same place of the disk.
Moved(f, g, t) ==
    /\ Kept(f, g) /\ g.Position = f.Position + t /\ g.CurrentCluster = f.CurrentCluster
    /\ g.CurrentSectorInCluster = f.CurrentSectorInCluster /\ g.Buffer = f.Buffer

\* Within the sector.
LEMMA InTurn ==
    ASSUME NEW v, NEW f, NEW k, NEW s, NEW j, InSector(v, f, k, s, j),
           NEW t \in Nat, j + t < SECTOR_SIZE, NEW g, Moved(f, g, t)
    PROVE  Turned(v, f, g, t)
<1>1. /\ Kept(f, g) /\ g.FirstCluster = f.FirstCluster /\ g.Position = f.Position + t
      /\ g.CurrentCluster = f.CurrentCluster /\ g.Buffer = f.Buffer
      /\ g.CurrentSectorInCluster = f.CurrentSectorInCluster
  BY DEF Moved, Kept
<1>2. Sits(f.Position, k, s, j)
  BY DEF InSector
<1>3. Sits(f.Position + t, k, s, j + t)
  BY <1>2, SitsNext
<1>4. InSector(v, g, k, s, j + t)
  BY <1>1, <1>3 DEF InSector
<1> QED BY <1>1, <1>4 DEF Turned

\* On to the next sector, which is read.
LEMMA OnTurn ==
    ASSUME NEW v \in Volumes, NEW e, GoodEntry(v, e), NEW f, f.FirstCluster = e.first,
           NEW k, NEW s, NEW j, InSector(v, f, k, s, j),
           NEW t \in Nat, j + t = SECTOR_SIZE,
           NEW m, Moved(f, m, t), NEW n, Advances(v, m, n), n.ok,
           n.file.CurrentCluster # EOC,
           NEW g, Kept(n.file, g), Placed(n.file, g),
           g.Buffer = SectorOn(v, n.file.CurrentCluster, n.file.CurrentSectorInCluster)
    PROVE  Turned(v, f, g, t)
<1> DEFINE q == ChainOf(v, e.first)
<1>1. /\ Kept(f, m) /\ m.Position = f.Position + t /\ m.CurrentCluster = f.CurrentCluster
      /\ m.CurrentSectorInCluster = f.CurrentSectorInCluster
  BY DEF Moved
<1>2. Kept(m, n.file) /\ n.file.Position = m.Position
  BY DEF Advances
<1>3. Kept(f, g)
  BY <1>1, <1>2 DEF Kept
<1>4. /\ g.Position = f.Position + t /\ g.CurrentCluster = n.file.CurrentCluster
      /\ g.CurrentSectorInCluster = n.file.CurrentSectorInCluster
      /\ g.FirstCluster = e.first
  BY <1>1, <1>2, <1>3 DEF Placed, Kept
<1>5. Chained(v, e.first, q)
  BY ChainIs DEF GoodEntry
<1> HIDE DEF q
<1>6. /\ Sits(f.Position, k, s, j) /\ k < Len(q) /\ f.CurrentCluster = q[k + 1]
      /\ f.CurrentSectorInCluster = s
  BY DEF InSector, q
<1>7. /\ k \in Nat /\ s \in Nat /\ SectorsPerCluster \in Nat /\ Len(q) \in Nat
      /\ k + 1 \in 1 .. Len(q) /\ q[k + 1] \in DOMAIN v.next
  BY <1>5, <1>6, Sizes DEF Sits, Chained
<1>8. CASE s + 1 < SectorsPerCluster
  <2>1. n.file.CurrentSectorInCluster = s + 1 /\ n.file.CurrentCluster = q[k + 1]
    BY <1>1, <1>6, <1>8 DEF Advances
  <2>2. Sits(f.Position + t, k, s + 1, 0)
    BY <1>6, <1>8, SitsNext
  <2>3. InSector(v, g, k, s + 1, 0)
    BY <1>4, <1>6, <2>1, <2>2 DEF InSector, q
  <2> QED BY <1>3, <1>4, <2>3 DEF Turned
<1>9. CASE s + 1 >= SectorsPerCluster
  <2>1. q[k + 1] # 0
    BY <1>7, VolumeFacts
  <2>2. n.file.CurrentSectorInCluster = 0 /\ n.file.CurrentCluster = v.next[q[k + 1]]
    BY <1>1, <1>6, <1>9, <2>1 DEF Advances
  <2>3. k + 1 < Len(q)
    <3>1. ASSUME k + 1 = Len(q) PROVE FALSE
      <4>1. e.first # 0
        BY <1>5, <1>7 DEF Chained
      <4>2. v.next[q[Len(q)]] = EOC
        BY <1>5, <4>1 DEF Chained
      <4> QED BY <2>2, <3>1, <4>2
    <3> QED BY <1>7, <3>1
  <2>4. v.next[q[k + 1]] = q[(k + 1) + 1]
    BY <1>5, <1>7, <2>3 DEF Chained
  <2>5. Sits(f.Position + t, k + 1, 0, 0)
    BY <1>6, <1>9, SitsNext
  <2>6. InSector(v, g, k + 1, 0, 0)
    BY <1>4, <2>2, <2>3, <2>4, <2>5 DEF InSector, q
  <2> QED BY <1>3, <1>4, <2>6 DEF Turned
<1> QED BY <1>7, <1>8, <1>9

\* The turn that meets the end of the chain.
EndsChain(v, h, f, g, t) ==
    \E m, n : /\ Moved(f, m, t) /\ Advances(v, m, n) /\ n.ok
              /\ n.file.CurrentCluster = EOC
              /\ Placed(n.file, g) /\ g.Buffer = n.file.Buffer
              /\ g.Opened = n.file.Opened /\ g.IsDirectory = n.file.IsDirectory
              /\ g.FirstCluster = n.file.FirstCluster
              /\ g.Size = IF h = ROOT_DIR_HANDLE THEN n.file.Size ELSE n.file.Position

\* On to the end of the chain: everything has been read.
LEMMA EndTurn ==
    ASSUME NEW v \in Volumes, NEW e, GoodEntry(v, e), NEW h, NEW f \in FilesOn(v),
           NEW w \in Int, w > 0, Reader(v, h, e, f, w),
           NEW k, NEW s, NEW j, InSector(v, f, k, s, j),
           NEW t \in Nat, t <= w, j + t = SECTOR_SIZE, NEW g, EndsChain(v, h, f, g, t)
    PROVE  Reader(v, h, e, g, 0) /\ g.Position = f.Position + t
           /\ g.Position = Len(ContentsOf(v, e))
<1> DEFINE q == ChainOf(v, e.first)
           c == ContentsOf(v, e)
           P == PiecesOf(v, e.first)
<1>1. HoldsWell(v, e, c) /\ Pieced(v, q, P) /\ Chained(v, e.first, q)
  BY ContentsAre, ChainIs, PiecesAre DEF GoodEntry
<1>2. /\ f.Opened /\ f.IsDirectory = e.dir /\ f.FirstCluster = e.first
      /\ Sized(h, e, f, c, w)
  BY DEF Reader
<1>0. PICK m, n : /\ Moved(f, m, t) /\ Advances(v, m, n) /\ n.ok
                  /\ n.file.CurrentCluster = EOC
                  /\ Placed(n.file, g) /\ g.Buffer = n.file.Buffer
                  /\ g.Opened = n.file.Opened /\ g.IsDirectory = n.file.IsDirectory
                  /\ g.FirstCluster = n.file.FirstCluster
                  /\ g.Size = IF h = ROOT_DIR_HANDLE THEN n.file.Size ELSE n.file.Position
  BY Zenon DEF EndsChain
<1>3. /\ g.Opened /\ g.IsDirectory = e.dir /\ g.FirstCluster = e.first
      /\ g.Position = f.Position + t /\ g.CurrentCluster = EOC /\ g.Buffer = f.Buffer
      /\ g.Size = IF h = ROOT_DIR_HANDLE THEN f.Size ELSE f.Position + t
  BY <1>0, <1>2 DEF Moved, Advances, Kept, Placed
<1> HIDE DEF q
<1>4. /\ Sits(f.Position, k, s, j) /\ k < Len(q) /\ f.CurrentCluster = q[k + 1]
      /\ f.CurrentSectorInCluster = s /\ f.Buffer = SectorOn(v, q[k + 1], s)
  BY <1>2 DEF InSector, q
<1>5. /\ k \in Nat /\ s \in 0 .. SectorsPerCluster - 1 /\ SectorsPerCluster \in Nat
      /\ Len(q) \in Nat /\ k + 1 \in 1 .. Len(q) /\ q[k + 1] \in DOMAIN v.next
      /\ SECTOR_SIZE \in Nat \ {0}
  BY <1>1, <1>4, Sizes DEF Sits, Chained
<1>6. EOC \notin DOMAIN v.next /\ 0 \notin DOMAIN v.next
  BY VolumeFacts
<1>7. m.CurrentCluster = q[k + 1] /\ m.CurrentSectorInCluster = s
  BY <1>0, <1>4 DEF Moved
<1>8. s + 1 = SectorsPerCluster
  <2>1. ASSUME s + 1 < SectorsPerCluster PROVE FALSE
    <3>1. n.file.CurrentCluster = q[k + 1]
      BY <1>0, <1>7, <2>1 DEF Advances
    <3> QED BY <1>0, <1>5, <1>6, <3>1
  <2> QED BY <1>5, <2>1
<1>9. v.next[q[k + 1]] = EOC
  <2>1. q[k + 1] # 0 /\ s + 1 >= SectorsPerCluster
    BY <1>5, <1>6, <1>8
  <2> QED BY <1>0, <1>7, <2>1 DEF Advances
<1>10. k + 1 = Len(q)
  <2>1. ASSUME k + 1 < Len(q) PROVE FALSE
    <3>1. v.next[q[k + 1]] = q[(k + 1) + 1] /\ (k + 1) + 1 \in 1 .. Len(q)
      BY <1>1, <1>5, <2>1 DEF Chained
    <3>2. q[(k + 1) + 1] \in DOMAIN v.next
      BY <1>1, <3>1 DEF Chained
    <3> QED BY <1>6, <1>9, <3>1, <3>2
  <2> QED BY <1>5, <2>1
<1>11. f.Position + t = Len(q) * ClusterSize /\ Len(P) = Len(q) * ClusterSize
  <2>1. Sits(f.Position + t, k + 1, 0, 0)
    BY <1>4, <1>5, <1>8, SitsNext
  <2>2. f.Position + t = (k + 1) * ClusterSize + (0 * SECTOR_SIZE + 0)
    BY <2>1 DEF Sits
  <2>3. 0 * SECTOR_SIZE + 0 = 0 /\ (k + 1) * ClusterSize \in Nat
    BY <1>5, Sizes, Multiples
  <2>4. f.Position + t = (k + 1) * ClusterSize
    BY <2>2, <2>3
  <2> QED BY <1>1, <1>10, <2>4 DEF Pieced
<1>12. OnPlace(v, h, g)
  <2>1. g.Position = Len(q) * ClusterSize + 0
    BY <1>1, <1>3, <1>11 DEF Pieced
  <2>2. Len(q) # 0 /\ SectorsPerCluster - 1 = s
    BY <1>5, <1>8
  <2>3. Behind(v, h, g, 0)
    BY <1>3, <1>4, <1>10, <2>1, <2>2 DEF Behind, q
  <2>4. 0 \in 0 .. SECTOR_SIZE - 1
    BY <1>5
  <2> QED BY <2>3, <2>4 DEF OnPlace
<1>13. e.dir \in BOOLEAN /\ e.size \in Nat /\ f.Position \in Nat /\ f.Size \in Nat
  BY DEF GoodEntry, FilesOn
<1>14. /\ e.dir => Len(c) = Len(P)
       /\ ~e.dir => Len(c) = e.size /\ e.size <= Len(P)
  BY <1>1 DEF HoldsWell
<1> HIDE DEF c, P
<1>15. g.Position = Len(c) /\ Sized(h, e, g, c, 0)
  <2>1. CASE e.dir
    <3>1. g.Position = Len(c)
      BY <1>3, <1>11, <1>14, <2>1
    <3>2. h = ROOT_DIR_HANDLE => g.Size = 0
      BY <1>2, <1>3, <2>1 DEF Sized
    <3>3. h # ROOT_DIR_HANDLE => g.Size = g.Position
      BY <1>3
    <3> QED BY <2>1, <3>1, <3>2, <3>3 DEF Sized
  <2>2. CASE ~e.dir
    <3>1. f.Size = e.size /\ f.Position + w <= f.Size
      BY <1>2, <2>2 DEF Sized
    <3>2. f.Position + t = e.size
      BY <1>11, <1>13, <1>14, <2>2, <3>1
    <3>3. g.Size = e.size /\ g.Position + 0 <= g.Size
      BY <1>3, <1>13, <3>1, <3>2
    <3> QED BY <1>3, <1>14, <2>2, <3>2, <3>3 DEF Sized
  <2> QED BY <1>13, <2>1, <2>2
<1> QED BY <1>3, <1>12, <1>15 DEF Reader, c

\* The t pieces behind place j of the buffer of f are pieces of s that have been there.
HasAgain(f, s, j, t) ==
    /\ f.Position + t > Len(s)
    /\ \A i \in 1 .. t : \E x \in 1 .. Len(s) : f.Buffer[j + i] = s[x]

\* Behind its end the root directory's last sector comes again.
LEMMA BehindHas ==
    ASSUME NEW v \in Volumes, NEW e, GoodEntry(v, e), e.dir, NEW f \in FilesOn(v),
           NEW w \in Int, w > 0, Reader(v, ROOT_DIR_HANDLE, e, f, w),
           Len(ChainOf(v, e.first)) > 0,
           NEW j \in 0 .. SECTOR_SIZE - 1, Behind(v, ROOT_DIR_HANDLE, f, j),
           NEW t \in Nat, t > 0, j + t <= SECTOR_SIZE
    PROVE  /\ f.Position % SECTOR_SIZE = j /\ f.CurrentCluster = EOC
           /\ HasAgain(f, ContentsOf(v, e), j, t)
           /\ \A g : Moved(f, g, t) /\ j + t < SECTOR_SIZE =>
                 Reader(v, ROOT_DIR_HANDLE, e, g, w - t)
<1> DEFINE q == ChainOf(v, e.first)
           c == ContentsOf(v, e)
           P == PiecesOf(v, e.first)
           n == Len(q)
<1>1. HoldsWell(v, e, c) /\ Pieced(v, q, P) /\ Chained(v, e.first, q) /\ Heads(v, e.first)
  BY ContentsAre, ChainIs, PiecesAre DEF GoodEntry
<1>2. /\ f.Opened /\ f.IsDirectory = e.dir /\ f.FirstCluster = e.first
      /\ Sized(ROOT_DIR_HANDLE, e, f, c, w)
  BY DEF Reader
<1> HIDE DEF q, c, P
<1>3. /\ n \in Nat /\ n > 0 /\ n * ClusterSize \in Nat /\ Len(P) = n * ClusterSize /\ c = P
      /\ SECTOR_SIZE \in Nat \ {0} /\ SectorsPerCluster \in Nat \ {0} /\ j \in Nat
  BY <1>1, Sizes DEF Chained, Pieced, HoldsWell, q, c, P
<1>4. /\ f.Position = n * ClusterSize + j /\ f.CurrentCluster = EOC
      /\ f.Buffer = SectorOn(v, q[n], SectorsPerCluster - 1)
  BY <1>2, <1>3 DEF Behind, q
<1>5. f.Position % SECTOR_SIZE = j
  <2>1. 0 * SECTOR_SIZE + j = j /\ 0 \in 0 .. SectorsPerCluster - 1
    BY <1>3
  <2>2. Sits(f.Position, n, 0, j)
    BY <1>3, <1>4, <2>1 DEF Sits
  <2> QED BY <2>2, SitsIs
<1>6. f.Position + t > Len(c)
  <2> HIDE DEF n
  <2> QED BY <1>3, <1>4
<1>7. ASSUME NEW i \in 1 .. t PROVE \E x \in 1 .. Len(c) : f.Buffer[j + i] = c[x]
  <2> DEFINE s == SectorsPerCluster - 1
             p == (n - 1) * ClusterSize + (s * SECTOR_SIZE + 0)
             b == j + i
  <2>1. n - 1 \in Nat /\ s \in 0 .. SectorsPerCluster - 1 /\ n - 1 < n /\ (n - 1) + 1 = n
        /\ b \in Nat /\ b > 0 /\ 0 + b <= SECTOR_SIZE /\ 0 \in 0 .. SECTOR_SIZE - 1
        /\ 0 + b = b
    BY <1>3
  <2>2. Sits(p, n - 1, s, 0)
    BY <2>1 DEF Sits
  <2> HIDE DEF p, s, b
  <2>3. /\ p + b \in 1 .. Len(P)
        /\ SectorOn(v, q[(n - 1) + 1], s)[0 + b] = P[p + b]
    BY <1>1, <2>1, <2>2, BufferIs DEF P, q, n
  <2>4. SectorOn(v, q[n], s)[b] = P[p + b]
    BY <2>1, <2>3
  <2>5. f.Buffer[b] = c[p + b] /\ p + b \in 1 .. Len(c)
    BY <1>3, <1>4, <2>3, <2>4 DEF s
  <2> QED BY <2>5 DEF b
<1>8. ASSUME NEW g, Moved(f, g, t), j + t < SECTOR_SIZE
      PROVE  Reader(v, ROOT_DIR_HANDLE, e, g, w - t)
  <2>1. /\ g.Opened /\ g.IsDirectory = e.dir /\ g.FirstCluster = e.first
        /\ g.Size = f.Size /\ g.Position = f.Position + t /\ g.CurrentCluster = EOC
        /\ g.Buffer = f.Buffer
    BY <1>2, <1>4, <1>8 DEF Moved, Kept
  <2>2. g.Position = n * ClusterSize + (j + t)
    <3> HIDE DEF n
    <3> QED BY <1>3, <1>4, <2>1
  <2>3. Behind(v, ROOT_DIR_HANDLE, g, j + t)
    BY <1>3, <1>4, <2>1, <2>2 DEF Behind, q
  <2>4. j + t \in 0 .. SECTOR_SIZE - 1
    BY <1>3, <1>8
  <2>5. OnPlace(v, ROOT_DIR_HANDLE, g)
    BY <2>3, <2>4 DEF OnPlace
  <2>6. Sized(ROOT_DIR_HANDLE, e, g, c, w - t)
    BY <1>2, <2>1 DEF Sized
  <2> QED BY <2>1, <2>5, <2>6 DEF Reader, c
<1> QED BY <1>4, <1>5, <1>6, <1>7, <1>8 DEF HasAgain, c

--------------------------------------------------------------------------------
(* The inductive invariant.                                                   *)

Places == {"idle", "walk", "search", "enter", "cat", "ls", "print", "astray"}
Reading == {"search", "cat", "ls", "print"}
Handles == Handle \cup {ROOT_DIR_HANDLE}

\* What the pieces that are read may be.
Some(v) == PieceOn(v) \cup {Junk}

\* The handle of the root directory is always open on it.
AtRoot(f) == f.Opened /\ f.IsDirectory /\ f.Size = 0 /\ f.FirstCluster = RootDirCluster

\* Types, and what holds when reads fail too.
Shape ==
    /\ volume \in Volumes
    /\ file \in [Handles -> FilesOn(volume)] /\ AtRoot(file[ROOT_DIR_HANDLE])
    /\ command \in Commands /\ at \in Places
    /\ g_CWD \in Seq(Names) /\ path \in Seq(Names) /\ depth \in 0 .. Len(path)
    /\ current \in Handles /\ want \in Int
    /\ out \in Seq(Some(volume)) /\ got \in Seq(Some(volume))
    /\ answer \in BOOLEAN /\ failed \in BOOLEAN

\* Where the command is.
Course ==
    /\ at \notin Reading => want = 0
    /\ at \in {"search", "ls"} => Len(out) <= 1 /\ Len(out) + want <= 1
    /\ at = "enter" => Len(out) = 1 /\ IsEntry(out[1])
    /\ at \in {"search", "enter"} => depth < Len(path)
    /\ at \in {"cat", "ls", "print"} => command = at /\ depth = Len(path)

\* What the path leads to so far, and what that holds.
Here == Steps(volume, path)[depth]
Held == ContentsOf(volume, Here)

\* The handle is that of what the path leads to.
Follows ==
    /\ at = "walk" => AtStart(volume, Here, file[current]) /\ got = <<>>
    /\ at \in Reading => Reader(volume, current, Here, file[current], want)
    /\ at \in Reading \cup {"walk"} =>
          Here # NoEntry /\ (current = ROOT_DIR_HANDLE => depth = 0)

\* The entry that was found is the next of the path.
Entering ==
    at = "enter" => /\ out[1] = Steps(volume, path)[depth + 1]
                    /\ out[1] # NoEntry /\ got = <<>>

\* How many pieces a command asks for.
Asked(a) == CASE a = "cat" -> CAT [] a = "print" -> EXISTING [] OTHER -> 1

\* What a read has brought of s: with w pieces to come, o ends at the n-th.
Brought(a, h, s, n, w, o) ==
    /\ w >= 0 /\ Len(o) + w <= Asked(a)
    /\ Len(o) + w = Asked(a) \/ n + w = Len(s)
    /\ h = ROOT_DIR_HANDLE => Len(o) > 0 \/ w > 0
    /\ Len(o) <= n
    /\ n <= Len(s) => \A i \in 1 .. Len(o) : o[i] = s[(n - Len(o)) + i]
    /\ n > Len(s) /\ a \in {"search", "ls"} =>
          \A i \in 1 .. Len(o) : \E k \in 1 .. Len(s) : o[i] = s[k]

\* What the command has made of the first m pieces of s, which e holds.
Made(a, name, e, s, m, g) ==
    /\ a = "search" => g = <<>> /\ \A k \in 1 .. Len(s) : k <= m => Passed(s, k, name)
    /\ a = "ls" => /\ e.dir
                   /\ \A k \in 1 .. Len(s) : k <= m => s[k] # Never
                   /\ m <= Len(s) => g = Lists(s)[m]
    /\ a = "cat" /\ m <= Len(s) => Len(g) = m /\ \A i \in 1 .. m : g[i] = s[i]
    /\ a = "print" => m = 0

ReadSoFar ==
    at \in Reading =>
        LET n == file[current].Position IN
        /\ Brought(at, current, Held, n, want, out)
        /\ Made(at, path[depth + 1], Here, Held, n - Len(out), got)
        /\ at = "print" => n <= Len(Held) /\ (n = Len(Held) => want = 0)

Good == Follows /\ Entering /\ ReadSoFar

\* What holds of what was read.
Right == ReadsAll /\ (~failed => Good)

IInv == Shape /\ Course /\ HandlesReturned /\ Right

\* A handle changes.
LEMMA FileStep ==
    ASSUME file \in [Handles -> FilesOn(volume)], AtRoot(file[ROOT_DIR_HANDLE]),
           NEW h \in Handles, NEW g \in FilesOn(volume), h = ROOT_DIR_HANDLE => AtRoot(g),
           volume' = volume, file' = [file EXCEPT ![h] = g]
    PROVE  /\ file' \in [Handles -> FilesOn(volume')] /\ AtRoot(file'[ROOT_DIR_HANDLE])
           /\ file'[h] = g /\ \A i \in Handles : i # h => file'[i] = file[i]
<1>1. file' \in [Handles -> FilesOn(volume)] /\ file'[h] = g
      /\ \A i \in Handles : i # h => file'[i] = file[i]
  OBVIOUS
<1>2. ROOT_DIR_HANDLE \in Handles
  BY DEF Handles
<1>3. file'[ROOT_DIR_HANDLE] = g \/ file'[ROOT_DIR_HANDLE] = file[ROOT_DIR_HANDLE]
  BY <1>1, <1>2
<1>4. AtRoot(file'[ROOT_DIR_HANDLE])
  BY <1>1, <1>2, <1>3
<1>5. file' \in [Handles -> FilesOn(volume')]
  BY <1>1
<1> QED BY <1>1, <1>4, <1>5

LEMMA KeptAtRoot ==
    ASSUME NEW f, NEW g, Kept(f, g), AtRoot(f)
    PROVE  AtRoot(g)
BY Zenon DEF Kept, AtRoot

--------------------------------------------------------------------------------
(* FAT_Read.                                                                  *)

\* A turn of the loop: t pieces from place j of the buffer of f leave the handle g and
\* x pieces to be read.
TurnIn(f, g, j, t, x) == j + t < SECTOR_SIZE /\ Moved(f, g, t) /\ x = want - t

TurnEnd(f, g, j, t, x) ==
    /\ j + t = SECTOR_SIZE /\ f.CurrentCluster # EOC /\ x = 0
    /\ ~failed' => EndsChain(volume, current, f, g, t)

TurnOn(f, g, j, t, x) ==
    /\ j + t = SECTOR_SIZE /\ f.CurrentCluster # EOC /\ x = want - t
    /\ \E m, n : /\ Moved(f, m, t) /\ Advances(volume, m, n)
                 /\ n.file.CurrentCluster # EOC /\ Kept(n.file, g) /\ Placed(n.file, g)
                 /\ ~failed' => n.ok /\ g.Buffer = SectorOn(volume, n.file.CurrentCluster,
                                                            n.file.CurrentSectorInCluster)

Turns(f, g, j, t) ==
    /\ j = f.Position % SECTOR_SIZE /\ j \in 0 .. SECTOR_SIZE - 1
    /\ t \in Nat /\ t > 0 /\ t <= want /\ j + t <= SECTOR_SIZE
    /\ out' = out \o SubSeq(f.Buffer, j + 1, j + t)
    /\ g \in FilesOn(volume) /\ g.Opened = f.Opened
    /\ current = ROOT_DIR_HANDLE => AtRoot(g)
    /\ file' = [file EXCEPT ![current] = g]
    /\ TurnIn(f, g, j, t, want') \/ TurnEnd(f, g, j, t, want') \/ TurnOn(f, g, j, t, want')
    /\ failed' \in BOOLEAN /\ (~failed' => ~failed)

LEMMA ReadPieceTurns ==
    ASSUME Shape, ReadPiece
    PROVE  \E g, j, t : Turns(file[current], g, j, t)
<1> DEFINE f == file[current]
           j == f.Position % SECTOR_SIZE
           t == Min({want, SECTOR_SIZE - j})
           m == [f EXCEPT !.Position = @ + t]
<1>1. /\ volume \in Volumes /\ f \in FilesOn(volume) /\ want \in Int /\ want > 0
      /\ current = ROOT_DIR_HANDLE => AtRoot(f)
      /\ failed \in BOOLEAN
  BY DEF Shape, ReadPiece
<1>2. f.Position \in Nat
  BY <1>1 DEF FilesOn
<1>3. /\ j \in 0 .. SECTOR_SIZE - 1 /\ t \in Nat /\ t > 0 /\ t <= want
      /\ j + t <= SECTOR_SIZE
  BY <1>1, <1>2, TakeIs
<1>4. /\ out' = out \o SubSeq(f.Buffer, j + 1, j + t)
      /\ \/ /\ j + t < SECTOR_SIZE
            /\ want' = want - t
            /\ file' = [file EXCEPT ![current] = m]
            /\ failed' = failed
         \/ /\ j + t = SECTOR_SIZE
            /\ f.CurrentCluster # EOC
            /\ \E n \in NextSector(m) :
               \/ /\ n.file.CurrentCluster = EOC
                  /\ want' = 0
                  /\ file' = [file EXCEPT ![current] = AtEnd(n.file)]
                  /\ failed' = (failed \/ ~n.ok)
               \/ /\ n.file.CurrentCluster # EOC
                  /\ want' = want - t
                  /\ \E l \in Loads(n.file) :
                       /\ file' = [file EXCEPT ![current] = l.file]
                       /\ failed' = (failed \/ ~n.ok \/ ~l.ok)
  BY Zenon DEF ReadPiece
<1> HIDE DEF t
<1>5. m \in FilesOn(volume) /\ Moved(f, m, t)
  BY <1>1, <1>3, MovedIs DEF Moved
<1> HIDE DEF m, f, j
<1>6. Kept(f, m) /\ m.CurrentCluster = f.CurrentCluster
  BY <1>5 DEF Moved
<1>7. ASSUME j + t < SECTOR_SIZE, want' = want - t, file' = [file EXCEPT ![current] = m],
             failed' = failed
      PROVE  Turns(f, m, j, t)
  <2>1. TurnIn(f, m, j, t, want')
    BY <1>5, <1>7 DEF TurnIn
  <2>2. m.Opened = f.Opened /\ (current = ROOT_DIR_HANDLE => AtRoot(m))
    BY <1>1, <1>6, KeptAtRoot DEF Kept
  <2> QED BY <1>1, <1>3, <1>4, <1>5, <1>7, <2>1, <2>2, Zenon DEF Turns, j
<1>8. ASSUME j + t = SECTOR_SIZE, f.CurrentCluster # EOC, NEW n \in NextSector(m),
             n.file.CurrentCluster = EOC, want' = 0,
             file' = [file EXCEPT ![current] = AtEnd(n.file)],
             failed' = (failed \/ ~n.ok)
      PROVE  Turns(f, AtEnd(n.file), j, t)
  <2> DEFINE g == AtEnd(n.file)
  <2>1. Advances(volume, m, n)
    BY <1>1, <1>5, <1>6, <1>8, NextSectorAre
  <2>2. n.file \in FilesOn(volume) /\ Kept(m, n.file) /\ n.ok \in BOOLEAN
    BY <2>1 DEF Advances
  <2>3. /\ g \in FilesOn(volume) /\ Placed(n.file, g) /\ g.Buffer = n.file.Buffer
        /\ g.Opened = n.file.Opened /\ g.IsDirectory = n.file.IsDirectory
        /\ g.FirstCluster = n.file.FirstCluster
        /\ g.Size = IF current = ROOT_DIR_HANDLE THEN n.file.Size ELSE n.file.Position
    BY <2>2, AtEndIs
  <2> HIDE DEF g
  <2>4. TurnEnd(f, g, j, t, want')
    <3>1. ~failed' => n.ok
      BY <1>1, <1>8, <2>2, Zenon
    <3>2. ~failed' => EndsChain(volume, current, f, g, t)
      BY <1>5, <1>8, <2>1, <2>3, <3>1, Zenon DEF EndsChain
    <3> QED BY <1>8, <3>2 DEF TurnEnd
  <2>5. g.Opened = f.Opened
    BY <1>6, <2>2, <2>3 DEF Kept
  <2>6. current = ROOT_DIR_HANDLE => Kept(f, g)
    BY <1>6, <2>2, <2>3 DEF Kept
  <2>7. current = ROOT_DIR_HANDLE => AtRoot(g)
    BY <1>1, <2>6, KeptAtRoot
  <2>8. failed' \in BOOLEAN /\ (~failed' => ~failed)
    BY <1>1, <1>8, Zenon
  <2>9. file' = [file EXCEPT ![current] = g]
    BY <1>8 DEF g
  <2>10. Turns(f, g, j, t)
    BY <1>3, <1>4, <2>3, <2>4, <2>5, <2>7, <2>8, <2>9, Zenon DEF Turns, j
  <2> QED BY <2>10 DEF g
<1>9. ASSUME j + t = SECTOR_SIZE, f.CurrentCluster # EOC, NEW n \in NextSector(m),
             n.file.CurrentCluster # EOC, want' = want - t, NEW l \in Loads(n.file),
             file' = [file EXCEPT ![current] = l.file],
             failed' = (failed \/ ~n.ok \/ ~l.ok)
      PROVE  Turns(f, l.file, j, t)
  <2>1. Advances(volume, m, n)
    BY <1>1, <1>5, <1>6, <1>9, NextSectorAre
  <2>2. n.file \in FilesOn(volume) /\ Kept(m, n.file) /\ n.ok \in BOOLEAN
    BY <2>1 DEF Advances
  <2>3. /\ l.file \in FilesOn(volume) /\ l.ok \in BOOLEAN
        /\ Kept(n.file, l.file) /\ Placed(n.file, l.file)
        /\ l.ok => l.file.Buffer = SectorOn(volume, n.file.CurrentCluster,
                                            n.file.CurrentSectorInCluster)
    BY <1>1, <2>2, LoadsAre
  <2>4. failed' \in BOOLEAN /\ (~failed' => ~failed /\ n.ok /\ l.ok)
    BY <1>1, <1>9, Zenon
  <2>5. TurnOn(f, l.file, j, t, want')
    BY <1>5, <1>9, <2>1, <2>3, <2>4, Zenon DEF TurnOn
  <2>6. Kept(f, l.file)
    BY <1>6, <2>2, <2>3 DEF Kept
  <2>7. l.file.Opened = f.Opened /\ (current = ROOT_DIR_HANDLE => AtRoot(l.file))
    BY <1>1, <2>6, KeptAtRoot DEF Kept
  <2> QED BY <1>3, <1>4, <1>9, <2>3, <2>4, <2>5, <2>7, ZenonT(40) DEF Turns, j
<1> QED BY <1>4, <1>7, <1>8, <1>9, ZenonT(40) DEF f

\* The sequence c is a with b behind it.
Joins(a, b, c) ==
    /\ Len(c) = Len(a) + Len(b)
    /\ \A i \in 1 .. Len(a) : c[i] = a[i]
    /\ \A i \in 1 .. Len(b) : c[Len(a) + i] = b[i]

LEMMA Joined ==
    ASSUME NEW S, NEW a \in Seq(S), NEW b \in Seq(S)
    PROVE  a \o b \in Seq(S) /\ Joins(a, b, a \o b)
BY DEF Joins

\* b are the t pieces behind place j of the buffer of f.
Takes(f, b, j, t) == Len(b) = t /\ \A i \in 1 .. t : b[i] = f.Buffer[j + i]

\* What a turn brings.
LEMMA TurnBrings ==
    ASSUME Shape, NEW g, NEW j, NEW t, Turns(file[current], g, j, t)
    PROVE  /\ out' \in Seq(Some(volume)) /\ Len(out') = Len(out) + t /\ Len(out) \in Nat
           /\ \E b : Takes(file[current], b, j, t) /\ Joins(out, b, out')
<1> DEFINE B == file[current].Buffer
           b == SubSeq(B, j + 1, j + t)
<1>1. file[current] \in FilesOn(volume) /\ out \in Seq(Some(volume))
  BY DEF Shape
<1>2. B \in [1 .. SECTOR_SIZE -> Some(volume)]
  BY <1>1, SMTT(30) DEF FilesOn, BufferOn, Some
<1>3. /\ j \in Nat /\ t \in Nat /\ t > 0 /\ j + t <= SECTOR_SIZE /\ SECTOR_SIZE \in Nat
      /\ out' = out \o b
  BY Sizes DEF Turns
<1> HIDE DEF B
<1>4. B \in Seq(Some(volume)) /\ Len(B) = SECTOR_SIZE
  BY <1>2, <1>3
<1>5. b \in Seq(Some(volume)) /\ Len(b) = t /\ \A i \in 1 .. t : b[i] = B[j + i]
  BY <1>3, <1>4
<1> HIDE DEF b
<1>6. /\ out' \in Seq(Some(volume)) /\ Len(out') = Len(out) + t
      /\ Joins(out, b, out') /\ Len(out) \in Nat
  <2>1. out \o b \in Seq(Some(volume)) /\ Joins(out, b, out \o b)
    BY <1>1, <1>5, Joined
  <2>2. out' \in Seq(Some(volume)) /\ Joins(out, b, out')
    BY <1>3, <2>1, Zenon
  <2>3. Len(out') = Len(out) + Len(b)
    BY <2>2, Zenon DEF Joins
  <2>4. Len(out) \in Nat
    BY <1>1
  <2> QED BY <1>5, <2>2, <2>3, <2>4, Zenon
<1>7. Takes(file[current], b, j, t)
  BY <1>5 DEF Takes, B
<1> QED BY <1>6, <1>7

LEMMA ReadPieceFrame ==
    ASSUME Shape, Course, HandlesReturned, ReadPiece
    PROVE  Shape' /\ Course' /\ HandlesReturned'
<1>1. PICK g, j, t : Turns(file[current], g, j, t)
  BY ReadPieceTurns, SMTT(30)
<1>2. /\ at' = at /\ want > 0 /\ want \in Int
      /\ UNCHANGED <<volume, g_CWD, command, path, depth, current, got, answer>>
  BY SMTT(30) DEF ReadPiece, Shape
<1>3. /\ g \in FilesOn(volume) /\ g.Opened = file[current].Opened
      /\ current = ROOT_DIR_HANDLE => AtRoot(g)
      /\ file' = [file EXCEPT ![current] = g] /\ failed' \in BOOLEAN
      /\ t \in Nat /\ t > 0 /\ t <= want
      /\ want' = want - t \/ want' = 0
  BY <1>1 DEF Turns, TurnIn, TurnEnd, TurnOn
<1>4. out' \in Seq(Some(volume)) /\ Len(out') = Len(out) + t
  BY <1>1, TurnBrings
<1>5. /\ file \in [Handles -> FilesOn(volume)] /\ AtRoot(file[ROOT_DIR_HANDLE])
      /\ current \in Handles /\ volume' = volume
  BY <1>2 DEF Shape
<1>6. /\ file' \in [Handles -> FilesOn(volume')] /\ AtRoot(file'[ROOT_DIR_HANDLE])
      /\ file'[current] = g /\ \A i \in Handles : i # current => file'[i] = file[i]
  BY <1>3, <1>5, FileStep
<1>7. want' \in Int
  BY <1>2, <1>3
<1>8. Shape'
  BY <1>2, <1>3, <1>4, <1>6, <1>7 DEF Shape
<1>9. at \in Reading
  BY <1>2 DEF Course
<1>10. Course'
  <2>1. at \in {"search", "ls"} => Len(out') <= 1 /\ Len(out') + want' <= 1
    <3>1. at \in {"search", "ls"} => Len(out) + want <= 1 /\ Len(out) \in Nat
      BY DEF Course, Shape
    <3> QED BY <1>2, <1>3, <1>4, <3>1
  <2>2. at' \in Reading /\ at' # "enter"
    BY <1>2, <1>9 DEF Reading
  <2> QED BY <1>2, <2>1, <2>2 DEF Course
<1>11. HandlesReturned'
  <2> SUFFICES ASSUME NEW h \in Handle, file'[h].Opened
               PROVE  h = current' /\ at' \notin {"idle", "enter"}
    BY DEF HandlesReturned
  <2>1. h \in Handles
    BY DEF Handles
  <2>2. file[h].Opened
    BY <1>3, <1>6, <2>1
  <2> QED BY <1>2, <2>2 DEF HandlesReturned
<1> QED BY <1>8, <1>10, <1>11

\* t more pieces are the next of s, and the rest is asked for, or that was the end.
LEMMA BringsMore ==
    ASSUME NEW a, NEW h, NEW s, Len(s) \in Nat, NEW n \in Nat, NEW w \in Int, w > 0,
           NEW o, Len(o) \in Nat, Brought(a, h, s, n, w, o),
           NEW t \in Nat, t > 0, t <= w, n + t <= Len(s),
           NEW b, Len(b) = t, \A i \in 1 .. t : b[i] = s[n + i],
           NEW x, x = w - t \/ (x = 0 /\ n + t = Len(s)), Asked(a) \in Nat,
           NEW c, Joins(o, b, c)
    PROVE  Brought(a, h, s, n + t, x, c)
<1> DEFINE l == Len(o)
<1>1. /\ l \in Nat /\ Len(c) = l + t /\ \A i \in 1 .. l : c[i] = o[i]
      /\ \A i \in 1 .. t : c[l + i] = b[i]
  BY DEF Joins
<1>2. /\ l + w <= Asked(a) /\ (l + w = Asked(a) \/ n + w = Len(s))
      /\ l <= n /\ \A i \in 1 .. l : o[i] = s[(n - l) + i]
  BY DEF Brought
<1> HIDE DEF l
<1>3. ASSUME NEW i \in 1 .. Len(c) PROVE c[i] = s[((n + t) - Len(c)) + i]
  <2>1. (n + t) - Len(c) = n - l /\ i \in 1 .. l + t
    BY <1>1
  <2>2. CASE i <= l
    <3>1. i \in 1 .. l
      BY <1>1, <2>1, <2>2
    <3> QED BY <1>1, <1>2, <2>1, <3>1
  <2>3. CASE i > l
    <3>1. i - l \in 1 .. t /\ l + (i - l) = i /\ n + (i - l) = (n - l) + i
      BY <1>1, <2>1, <2>3, SMTT(30)
    <3>2. c[i] = b[i - l] /\ b[i - l] = s[n + (i - l)]
      BY <1>1, <3>1
    <3> QED BY <2>1, <3>1, <3>2
  <2> QED BY <1>1, <2>1, <2>2, <2>3
<1>4. /\ x >= 0 /\ Len(c) + x <= Asked(a)
      /\ Len(c) + x = Asked(a) \/ (n + t) + x = Len(s)
      /\ Len(c) > 0 /\ Len(c) <= n + t /\ ~(n + t > Len(s))
  BY <1>1, <1>2, SMTT(30)
<1> QED BY <1>3, <1>4 DEF Brought

\* Behind the end pieces of s come again.
LEMMA BringsAgain ==
    ASSUME NEW a, NEW h, NEW s, Len(s) \in Nat, NEW n \in Nat, NEW w \in Int, w > 0,
           NEW o, Len(o) \in Nat, Brought(a, h, s, n, w, o),
           NEW t \in Nat, t > 0, t <= w, n + t > Len(s),
           NEW b, Len(b) = t, \A i \in 1 .. t : \E k \in 1 .. Len(s) : b[i] = s[k],
           NEW x, x = w - t, Asked(a) \in Nat,
           NEW c, Joins(o, b, c)
    PROVE  Brought(a, h, s, n + t, x, c)
<1> DEFINE l == Len(o)
<1>1. /\ l \in Nat /\ Len(c) = l + t /\ \A i \in 1 .. l : c[i] = o[i]
      /\ \A i \in 1 .. t : c[l + i] = b[i]
  BY DEF Joins
<1>2. l + w <= Asked(a) /\ (l + w = Asked(a) \/ n + w = Len(s)) /\ l <= n
  BY DEF Brought
<1>3. a \in {"search", "ls"} => Asked(a) = 1
  BY DEF Asked
<1> HIDE DEF l
<1>4. ASSUME a \in {"search", "ls"}, NEW i \in 1 .. Len(c)
      PROVE  \E k \in 1 .. Len(s) : c[i] = s[k]
  <2>1. l = 0 /\ i \in 1 .. l + t
    BY <1>1, <1>2, <1>3, <1>4
  <2>2. i \in 1 .. t /\ l + i = i
    BY <2>1
  <2> QED BY <1>1, <2>2, ZenonT(40)
<1>5. /\ x >= 0 /\ Len(c) + x <= Asked(a)
      /\ Len(c) + x = Asked(a) \/ (n + t) + x = Len(s)
      /\ Len(c) > 0 /\ Len(c) <= n + t /\ ~(n + t <= Len(s))
  BY <1>1, <1>2, SMTT(30)
<1> QED BY <1>4, <1>5 DEF Brought

LEMMA AskedIs ==
    ASSUME NEW a
    PROVE  Asked(a) \in Nat \ {0}
BY Sizes DEF Asked

\* What the path leads to is an entry that can be opened.
LEMMA HereIsGood ==
    ASSUME Shape
    PROVE  /\ GoodEntry(volume, Here) /\ HoldsWell(volume, Here, Held) /\ Len(Held) \in Nat
           /\ depth < Len(path) => Steps(volume, path)[depth + 1] = Find(volume, Here, path[depth + 1])
           /\ depth < Len(path) => path[depth + 1] \in Names
           /\ depth = 0 => Here = Root
<1>1. volume \in Volumes /\ path \in Seq(Names) /\ depth \in 0 .. Len(path)
  BY DEF Shape
<1>2. Leads(volume, path, Steps(volume, path))
  BY <1>1, StepsAre
<1>3. GoodEntry(volume, Here)
  BY <1>1, <1>2 DEF Leads, Here
<1>4. HoldsWell(volume, Here, Held)
  BY <1>1, <1>3, ContentsAre DEF Held
<1>5. depth < Len(path) => depth + 1 \in 1 .. Len(path) /\ (depth + 1) - 1 = depth
  BY <1>1
<1>6. depth < Len(path) =>
         Steps(volume, path)[depth + 1] = Find(volume, Here, path[depth + 1])
  BY <1>2, <1>5 DEF Leads, Here
<1>7. depth < Len(path) => path[depth + 1] \in Names
  BY <1>1, <1>5
<1>8. depth = 0 => Here = Root
  BY <1>2 DEF Leads, Here
<1> QED BY <1>3, <1>4, <1>6, <1>7, <1>8 DEF HoldsWell

\* A turn in the chain: the handle is at its place and t pieces more have come.
LEMMA TurnInChain ==
    ASSUME Shape, want > 0, NEW g, NEW j, NEW t, Turns(file[current], g, j, t), ~failed',
           Reader(volume, current, Here, file[current], want),
           NEW k, NEW s, NEW i, InSector(volume, file[current], k, s, i)
    PROVE  /\ Reader(volume, current, Here, g, want')
           /\ g.Position = file[current].Position + t /\ Has(file[current], Held, j, t)
           /\ \/ want' = want - t /\ (Here.dir => g.Position < Len(Held))
              \/ want' = 0 /\ g.Position = Len(Held)
<1> DEFINE f == file[current]
           e == Here
           c == ContentsOf(volume, e)
<1>1. /\ volume \in Volumes /\ GoodEntry(volume, e) /\ f \in FilesOn(volume)
      /\ want \in Int /\ want > 0
  BY HereIsGood DEF Shape
<1>2. f.FirstCluster = e.first
  BY DEF Reader
<1> HIDE DEF f, e
<1>3. /\ Turns(f, g, j, t) /\ Reader(volume, current, e, f, want)
      /\ InSector(volume, f, k, s, i)
  BY SMTT(30) DEF f, e
<1>4. /\ j = f.Position % SECTOR_SIZE /\ t \in Nat /\ t > 0 /\ t <= want
      /\ j + t <= SECTOR_SIZE
      /\ TurnIn(f, g, j, t, want') \/ TurnEnd(f, g, j, t, want') \/ TurnOn(f, g, j, t, want')
  BY <1>3 DEF Turns
<1>5. i = j
  <2>1. Sits(f.Position, k, s, i)
    BY <1>3 DEF InSector
  <2> QED BY <1>4, <2>1, SitsIs
<1>6. InSector(volume, f, k, s, j)
  BY <1>3, <1>5
<1>7. Has(f, c, j, t)
  BY <1>1, <1>3, <1>4, <1>6, SectorHas
<1> HIDE DEF c
<1>8. /\ Reader(volume, current, e, g, want') /\ g.Position = f.Position + t
      /\ \/ want' = want - t /\ (e.dir => g.Position < Len(c))
         \/ want' = 0 /\ g.Position = Len(c)
  <2>1. CASE TurnIn(f, g, j, t, want')
    <3>1. j + t < SECTOR_SIZE /\ Moved(f, g, t) /\ want' = want - t
      BY <2>1 DEF TurnIn
    <3>2. Turned(volume, f, g, t)
      BY <1>4, <1>6, <3>1, InTurn
    <3>3. Reader(volume, current, e, g, want - t) /\ (e.dir => g.Position < Len(c))
      BY <1>1, <1>3, <1>4, <3>2, TurnedReads DEF c
    <3> QED BY <3>1, <3>2, <3>3 DEF Turned
  <2>2. CASE TurnEnd(f, g, j, t, want')
    <3>1. j + t = SECTOR_SIZE /\ want' = 0 /\ EndsChain(volume, current, f, g, t)
      BY <2>2 DEF TurnEnd
    <3>2. /\ Reader(volume, current, e, g, 0) /\ g.Position = f.Position + t
          /\ g.Position = Len(c)
      BY <1>1, <1>3, <1>4, <1>6, <3>1, EndTurn DEF c
    <3> QED BY <3>1, <3>2
  <2>3. CASE TurnOn(f, g, j, t, want')
    <3>1. j + t = SECTOR_SIZE /\ want' = want - t
      BY <2>3 DEF TurnOn
    <3>2. PICK m, n : /\ Moved(f, m, t) /\ Advances(volume, m, n)
                      /\ n.file.CurrentCluster # EOC /\ Kept(n.file, g) /\ Placed(n.file, g)
                      /\ ~failed' => n.ok /\ g.Buffer = SectorOn(volume, n.file.CurrentCluster,
                                                                 n.file.CurrentSectorInCluster)
      BY <2>3 DEF TurnOn
    <3>3. Turned(volume, f, g, t)
      BY <1>1, <1>2, <1>4, <1>6, <3>1, <3>2, OnTurn DEF f, e
    <3>4. Reader(volume, current, e, g, want - t) /\ (e.dir => g.Position < Len(c))
      BY <1>1, <1>3, <1>4, <3>3, TurnedReads DEF c
    <3> QED BY <3>1, <3>3, <3>4 DEF Turned
  <2> QED BY <1>4, <2>1, <2>2, <2>3
<1> QED BY <1>7, <1>8 DEF f, e, c, Held

\* A turn of the root directory behind its end.
LEMMA TurnBehind ==
    ASSUME Shape, want > 0, NEW g, NEW j, NEW t, Turns(file[current], g, j, t),
           Reader(volume, current, Here, file[current], want),
           Here.dir, current = ROOT_DIR_HANDLE, Len(ChainOf(volume, Here.first)) > 0,
           NEW i \in 0 .. SECTOR_SIZE - 1, Behind(volume, current, file[current], i)
    PROVE  /\ Reader(volume, current, Here, g, want')
           /\ g.Position = file[current].Position + t
           /\ HasAgain(file[current], Held, j, t) /\ want' = want - t
<1> DEFINE f == file[current]
           e == Here
<1>1. /\ volume \in Volumes /\ GoodEntry(volume, e) /\ f \in FilesOn(volume)
      /\ want \in Int /\ want > 0
  BY HereIsGood DEF Shape
<1> HIDE DEF f, e
<1>2. /\ Turns(f, g, j, t) /\ Reader(volume, ROOT_DIR_HANDLE, e, f, want) /\ e.dir
      /\ Len(ChainOf(volume, e.first)) > 0 /\ Behind(volume, ROOT_DIR_HANDLE, f, i)
  BY SMTT(30) DEF f, e
<1>3. /\ j = f.Position % SECTOR_SIZE /\ t \in Nat /\ t > 0 /\ t <= want
      /\ j + t <= SECTOR_SIZE
      /\ TurnIn(f, g, j, t, want') \/ TurnEnd(f, g, j, t, want') \/ TurnOn(f, g, j, t, want')
  BY <1>2 DEF Turns
<1>4. i = j /\ f.CurrentCluster = EOC
  <2>1. 1 \in Nat /\ 1 > 0 /\ i + 1 <= SECTOR_SIZE
    BY Sizes
  <2>2. f.Position % SECTOR_SIZE = i /\ f.CurrentCluster = EOC
    BY <1>1, <1>2, <2>1, BehindHas
  <2> QED BY <1>3, <2>2
<1>5. j \in 0 .. SECTOR_SIZE - 1 /\ Behind(volume, ROOT_DIR_HANDLE, f, j)
  BY <1>2, <1>4
<1>6. /\ HasAgain(f, ContentsOf(volume, e), j, t)
      /\ \A y : Moved(f, y, t) /\ j + t < SECTOR_SIZE =>
            Reader(volume, ROOT_DIR_HANDLE, e, y, want - t)
  BY <1>1, <1>2, <1>3, <1>5, BehindHas, Zenon
<1>7. TurnIn(f, g, j, t, want')
  BY <1>3, <1>4 DEF TurnEnd, TurnOn
<1>8. j + t < SECTOR_SIZE /\ Moved(f, g, t) /\ want' = want - t
  BY <1>7 DEF TurnIn
<1> QED BY <1>6, <1>8 DEF Moved, f, e, Held

LEMMA ReadPieceGood ==
    ASSUME Shape, Course, ~failed => Good, ReadPiece, ~failed'
    PROVE  Good'
<1> DEFINE f == file[current]
           n == f.Position
<1>1. PICK g, j, t : Turns(f, g, j, t)
  BY ReadPieceTurns, SMTT(30)
<1>2. /\ at' = at /\ want > 0 /\ want \in Int
      /\ UNCHANGED <<volume, g_CWD, command, path, depth, current, got, answer>>
  BY DEF ReadPiece, Shape
<1>3. at \in Reading
  BY <1>2, SMTT(30) DEF Course
<1>4. Good
  BY <1>1, SMTT(30) DEF Turns
<1>5. file' = [file EXCEPT ![current] = g] /\ t \in Nat /\ t > 0 /\ t <= want
  BY <1>1 DEF Turns
<1>6. file'[current'] = g
  BY <1>2, <1>5 DEF Shape
<1>7. Here' = Here /\ Held' = Held
  BY <1>2 DEF Here, Held
<1>8. /\ Reader(volume, current, Here, f, want) /\ Here # NoEntry
      /\ current = ROOT_DIR_HANDLE => depth = 0
  BY <1>3, <1>4 DEF Good, Follows
<1>9. /\ Brought(at, current, Held, n, want, out)
      /\ Made(at, path[depth + 1], Here, Held, n - Len(out), got)
      /\ at = "print" => n <= Len(Held) /\ (n = Len(Held) => want = 0)
  BY <1>3, <1>4, Zenon DEF Good, ReadSoFar
<1>10. /\ Len(out') = Len(out) + t /\ Len(out) \in Nat
       /\ \E b : Takes(f, b, j, t) /\ Joins(out, b, out')
  BY <1>1, TurnBrings, Zenon
<1>11. PICK b : Len(b) = t /\ (\A i \in 1 .. t : b[i] = f.Buffer[j + i]) /\ Joins(out, b, out')
  BY <1>10 DEF Takes
<1>12. /\ volume \in Volumes /\ GoodEntry(volume, Here) /\ Len(Held) \in Nat
       /\ n \in Nat /\ Asked(at) \in Nat
  BY HereIsGood, AskedIs DEF Shape, FilesOn
<1> HIDE DEF f, n
<1>13. /\ Reader(volume, current, Here, g, want') /\ g.Position = n + t
       /\ Brought(at, current, Held, n + t, want', out')
       /\ at = "print" => n + t <= Len(Held) /\ (n + t = Len(Held) => want' = 0)
  <2>1. \/ \E k, s, i : InSector(volume, f, k, s, i)
        \/ /\ Here.dir /\ current = ROOT_DIR_HANDLE /\ Len(ChainOf(volume, Here.first)) > 0
           /\ \E i \in 0 .. SECTOR_SIZE - 1 : Behind(volume, current, f, i)
    BY <1>2, <1>8, <1>12, TurnsAre
  <2>2. CASE \E k, s, i : InSector(volume, f, k, s, i)
    <3>1. /\ Reader(volume, current, Here, g, want') /\ g.Position = n + t
          /\ Has(f, Held, j, t)
          /\ \/ want' = want - t /\ (Here.dir => g.Position < Len(Held))
             \/ want' = 0 /\ g.Position = Len(Held)
      BY <1>1, <1>2, <1>8, <2>2, TurnInChain DEF f, n
    <3>2. n + t <= Len(Held) /\ \A m \in 1 .. t : b[m] = Held[n + m]
      BY <1>11, <3>1 DEF Has, n
    <3>3. Brought(at, current, Held, n + t, want', out')
      BY <1>2, <1>5, <1>9, <1>10, <1>11, <1>12, <3>1, <3>2, BringsMore
    <3>4. n + t = Len(Held) => want' = 0
      <4>1. ASSUME n + t = Len(Held), want' = want - t PROVE want' = 0
        <5>1. CASE Here.dir
          BY <1>12, <3>1, <4>1, <5>1
        <5>2. CASE ~Here.dir
          <6>1. g.Position + want' <= Len(Held)
            BY <1>12, <3>1, <5>2, ContentsAre DEF Reader, Sized, Held, HoldsWell
          <6>2. want' >= 0 /\ want' \in Int
            BY <1>2, <1>5, <4>1
          <6> QED BY <1>12, <3>1, <4>1, <6>1, <6>2
        <5> QED BY <5>1, <5>2
      <4> QED BY <3>1, <4>1
    <3> QED BY <3>1, <3>2, <3>3, <3>4
  <2>3. CASE /\ Here.dir /\ current = ROOT_DIR_HANDLE /\ Len(ChainOf(volume, Here.first)) > 0
             /\ \E i \in 0 .. SECTOR_SIZE - 1 : Behind(volume, current, f, i)
    <3>1. /\ Reader(volume, current, Here, g, want') /\ g.Position = n + t
          /\ HasAgain(f, Held, j, t) /\ want' = want - t
      BY <1>1, <1>2, <1>8, <2>3, TurnBehind DEF f, n
    <3>2. n + t > Len(Held) /\ \A m \in 1 .. t : \E x \in 1 .. Len(Held) : b[m] = Held[x]
      BY <1>11, <3>1 DEF HasAgain, n
    <3>3. Brought(at, current, Held, n + t, want', out')
      BY <1>2, <1>5, <1>9, <1>10, <1>11, <1>12, <3>1, <3>2, BringsAgain
    <3>4. at # "print"
      <4>1. ASSUME at = "print" PROVE FALSE
        <5>1. PICK i \in 0 .. SECTOR_SIZE - 1 : Behind(volume, current, f, i)
          BY <2>3
        <5>2. n >= Len(Held)
          <6>1. Pieced(volume, ChainOf(volume, Here.first), PiecesOf(volume, Here.first))
            BY <1>12, PiecesAre DEF GoodEntry
          <6>2. Held = PiecesOf(volume, Here.first)
            BY <2>3 DEF Held, ContentsOf
          <6>3. f.FirstCluster = Here.first
            BY <1>8 DEF Reader
          <6>4. n = Len(ChainOf(volume, Here.first)) * ClusterSize + i
            BY <5>1, <6>3 DEF Behind, n
          <6>5. Len(Held) = Len(ChainOf(volume, Here.first)) * ClusterSize
            BY <6>1, <6>2 DEF Pieced
          <6>6. i \in Nat
            BY <5>1
          <6> DEFINE M == Len(ChainOf(volume, Here.first)) * ClusterSize
          <6> HIDE DEF M
          <6>7. n = M + i /\ Len(Held) = M
            BY <6>4, <6>5 DEF M
          <6> QED BY <1>12, <6>6, <6>7
        <5> QED BY <1>2, <1>9, <1>12, <4>1, <5>2
      <4> QED BY <4>1
    <3> QED BY <3>1, <3>3, <3>4
  <2> QED BY <2>1, <2>2, <2>3
<1>14. (n + t) - Len(out') = n - Len(out)
  BY <1>5, <1>10, <1>12
<1>15. Follows'
  <2>1. at' # "walk" /\ at' \in Reading
    BY <1>2, <1>3 DEF Reading
  <2>2. Reader(volume', current', Here', file'[current'], want')
    BY <1>2, <1>6, <1>7, <1>13
  <2>3. Here' # NoEntry /\ (current' = ROOT_DIR_HANDLE => depth' = 0)
    BY <1>2, <1>7, <1>8
  <2> QED BY <2>1, <2>2, <2>3 DEF Follows
<1>16. Entering'
  BY <1>2, <1>3 DEF Entering, Reading
<1>17. ReadSoFar'
  <2>1. file'[current'].Position = n + t
    BY <1>6, <1>13
  <2>2. /\ Brought(at', current', Held', n + t, want', out')
        /\ Made(at', path'[depth' + 1], Here', Held', (n + t) - Len(out'), got')
        /\ at' = "print" => n + t <= Len(Held') /\ (n + t = Len(Held') => want' = 0)
    BY <1>2, <1>7, <1>9, <1>13, <1>14
  <2> QED BY <2>1, <2>2 DEF ReadSoFar
<1> QED BY <1>15, <1>16, <1>17 DEF Good

--------------------------------------------------------------------------------
(* What the other actions do, when reads fail too.                            *)

\* No handle is open.
NoneOpen == \A h \in Handle : ~file[h].Opened

\* The handles are as they should be.
FilesFit == file \in [Handles -> FilesOn(volume)] /\ AtRoot(file[ROOT_DIR_HANDLE])

LEMMA RootIsNoHandle == ROOT_DIR_HANDLE \notin Handle
BY DEF ROOT_DIR_HANDLE, Handle

LEMMA OthersClosed ==
    ASSUME HandlesReturned, current = ROOT_DIR_HANDLE \/ at \in {"idle", "enter"}
    PROVE  NoneOpen
BY RootIsNoHandle DEF HandlesReturned, NoneOpen

LEMMA UnopenedIs ==
    ASSUME NEW v, NEW f \in FilesOn(v)
    PROVE  LET g == [f EXCEPT !.Opened = FALSE] IN g \in FilesOn(v) /\ ~g.Opened
BY DEF FilesOn

\* FAT_Close.
LEMMA CloseLeaves ==
    ASSUME Shape, HandlesReturned, volume' = volume, Close
    PROVE  FilesFit' /\ NoneOpen'
<1> DEFINE f == file[current]
           g == IF current = ROOT_DIR_HANDLE THEN Rewound(f) ELSE [f EXCEPT !.Opened = FALSE]
<1>1. /\ f \in FilesOn(volume) /\ current \in Handles /\ ROOT_DIR_HANDLE \in Handles
      /\ file \in [Handles -> FilesOn(volume)] /\ AtRoot(file[ROOT_DIR_HANDLE])
  BY DEF Shape, Handles
<1>2. file' = [file EXCEPT ![current] = g]
  BY <1>1 DEF Close
<1> HIDE DEF f
<1>3. g \in FilesOn(volume)
  BY <1>1, RewoundIs, UnopenedIs
<1>4. current = ROOT_DIR_HANDLE => AtRoot(g)
  BY <1>1, RewoundIs, KeptAtRoot DEF f
<1>5. current # ROOT_DIR_HANDLE => ~g.Opened
  BY <1>1, UnopenedIs
<1> HIDE DEF g
<1>6. /\ file' \in [Handles -> FilesOn(volume')] /\ AtRoot(file'[ROOT_DIR_HANDLE])
      /\ file'[current] = g /\ \A i \in Handles : i # current => file'[i] = file[i]
  BY <1>1, <1>2, <1>3, <1>4, FileStep
<1>7. ASSUME NEW h \in Handle PROVE ~file'[h].Opened
  <2>1. CASE h = current
    BY <1>5, <1>6, <2>1, RootIsNoHandle
  <2>2. CASE h # current
    BY <1>6, <2>2 DEF HandlesReturned, Handles
  <2> QED BY <2>1, <2>2
<1> QED BY <1>6, <1>7 DEF FilesFit, NoneOpen

LEMMA CloseFileLeaves ==
    ASSUME Shape, HandlesReturned, volume' = volume, CloseFile
    PROVE  FilesFit' /\ NoneOpen'
<1>1. CASE current = ROOT_DIR_HANDLE
  <2>1. NoneOpen /\ file' = file
    BY <1>1, OthersClosed DEF CloseFile
  <2> QED BY <2>1 DEF NoneOpen, FilesFit, Shape
<1>2. CASE current # ROOT_DIR_HANDLE
  BY <1>2, CloseLeaves DEF CloseFile
<1> QED BY <1>1, <1>2

\* The command is over.
LEMMA IdleFrame ==
    ASSUME Shape, NEW found \in BOOLEAN, Idle(found), FilesFit', NoneOpen',
           got' \in Seq(Some(volume)), failed' \in BOOLEAN
    PROVE  Shape' /\ Course' /\ HandlesReturned'
<1>1. /\ at' = "idle" /\ g_CWD' \in {path, g_CWD} /\ answer' = found /\ out' = <<>>
      /\ want' = 0 /\ UNCHANGED <<volume, command, path, depth, current>>
  BY DEF Idle, CwdAfter
<1>2. Shape'
  <2>1. out' \in Seq(Some(volume')) /\ got' \in Seq(Some(volume')) /\ want' \in Int
    BY <1>1
  <2>2. g_CWD' \in Seq(Names) /\ path' \in Seq(Names) /\ depth' \in 0 .. Len(path')
    BY <1>1 DEF Shape
  <2>3. /\ volume' \in Volumes /\ command' \in Commands /\ at' \in Places
        /\ current' \in Handles /\ answer' \in BOOLEAN
    BY <1>1 DEF Shape, Places
  <2> QED BY <2>1, <2>2, <2>3, Zenon DEF Shape, FilesFit
<1>3. Course'
  BY <1>1 DEF Course, Reading
<1>4. HandlesReturned'
  BY DEF HandlesReturned, NoneOpen
<1> QED BY <1>2, <1>3, <1>4

\* The command goes on elsewhere.
LEMMA OnFrame ==
    ASSUME Shape, FilesFit', UNCHANGED <<volume, g_CWD, command, path, answer>>,
           at' \in Places, depth' \in 0 .. Len(path), current' \in Handles, want' \in Int,
           out' \in Seq(Some(volume)), got' \in Seq(Some(volume)), failed' \in BOOLEAN
    PROVE  Shape'
BY Zenon DEF Shape, FilesFit

\* The number asked for is an upper bound, and a number.
LEMMA ClippedIs ==
    ASSUME NEW v, NEW f \in FilesOn(v), NEW n \in Nat
    PROVE  Clipped(f, n) \in Int /\ Clipped(f, n) <= n
<1>1. f.Position \in Nat /\ f.Size \in Nat
  BY DEF FilesOn
<1>2. Min({n, f.Size - f.Position}) = IF n <= f.Size - f.Position THEN n ELSE f.Size - f.Position
  BY <1>1, MinTwo
<1> QED BY <1>1, <1>2 DEF Clipped

LEMMA NothingIn == Len(<<>>) = 0
OBVIOUS

LEMMA OneIs ==
    ASSUME NEW n \in Nat, n # 0, n <= 1
    PROVE  n = 1
OBVIOUS

LEMMA NothingYet ==
    ASSUME NEW a, a = 0, NEW w \in Int, w <= 1
    PROVE  a <= 1 /\ a + w <= 1
OBVIOUS

--------------------------------------------------------------------------------
(* Shape, Course and HandlesReturned, one lemma for each action.              *)

\* A handle at the beginning of an entry.
Begins(g, d, z, c, f) ==
    /\ g.Opened = TRUE /\ g.IsDirectory = d /\ g.Size = z /\ g.FirstCluster = c
    /\ g.CurrentCluster = c /\ g.Position = f.Position
    /\ g.CurrentSectorInCluster = f.CurrentSectorInCluster

LEMMA OpenedIs ==
    ASSUME NEW v, NEW f \in FilesOn(v), NEW d \in BOOLEAN, NEW z \in Nat,
           NEW c \in DOMAIN v.next \cup {0}
    PROVE  LET g == [f EXCEPT !.Opened = TRUE, !.IsDirectory = d, !.Size = z,
                              !.FirstCluster = c, !.CurrentCluster = c]
           IN  g \in FilesOn(v) /\ Begins(g, d, z, c, f)
BY DEF FilesOn, Begins

\* The handle of the root directory.
OnCluster(g, f, c) ==
    /\ g.Opened = TRUE /\ g.IsDirectory = TRUE /\ g.FirstCluster = c /\ g.Size = f.Size

LEMMA OpenedRootIs ==
    ASSUME NEW v, NEW f \in FilesOn(v), NEW c \in DOMAIN v.next, NEW b \in BufferOn(v)
    PROVE  LET g == [f EXCEPT !.Opened = TRUE, !.IsDirectory = TRUE, !.FirstCluster = c,
                              !.CurrentCluster = c, !.Buffer = b]
           IN  g \in FilesOn(v) /\ OnCluster(g, f, c)
BY DEF FilesOn, OnCluster

LEMMA InitFrame ==
    ASSUME Init
    PROVE  Shape /\ Course /\ HandlesReturned
<1> DEFINE b == [i \in 1 .. SECTOR_SIZE |-> Junk]
           r == [Closed EXCEPT !.Opened = TRUE, !.IsDirectory = TRUE,
                               !.FirstCluster = RootDirCluster, !.CurrentCluster = RootDirCluster,
                               !.Buffer = SectorOf(RootDirCluster, 0)]
<1>1. /\ volume \in Volumes /\ g_CWD = <<>> /\ command = "cd" /\ at = "idle" /\ path = <<>>
      /\ depth = 0 /\ current = ROOT_DIR_HANDLE /\ want = 0 /\ out = <<>> /\ got = <<>>
      /\ answer = TRUE /\ failed = FALSE
      /\ file = [h \in Handle \cup {ROOT_DIR_HANDLE} |-> IF h \in Handle THEN Closed ELSE r]
  BY DEF Init
<1>2. /\ RootDirCluster \in DOMAIN volume.next /\ 0 \in 0 .. SectorsPerCluster - 1
      /\ b \in BufferOn(volume)
  BY <1>1, DirsAre, Sizes DEF SoundFrom, BufferOn
<1>3. SectorOf(RootDirCluster, 0) \in BufferOn(volume)
  <2>1. SectorOf(RootDirCluster, 0) = SectorOn(volume, RootDirCluster, 0)
    BY DEF SectorOf, SectorOn, Cluster
  <2> QED BY <1>1, <1>2, <2>1, SectorIs
<1>4. Closed \in FilesOn(volume) /\ ~Closed.Opened
  BY <1>2 DEF Closed, FilesOn
<1>5. r \in FilesOn(volume) /\ AtRoot(r)
  <2>1. Closed.Size = 0
    BY DEF Closed
  <2>2. r \in FilesOn(volume)
    BY <1>2, <1>3, <1>4, OpenedRootIs
  <2>3. OnCluster(r, Closed, RootDirCluster)
    BY <1>2, <1>3, <1>4, OpenedRootIs
  <2> HIDE DEF r
  <2> QED BY <2>1, <2>2, <2>3, Zenon DEF AtRoot, OnCluster
<1> HIDE DEF r
<1>6. file \in [Handles -> FilesOn(volume)] /\ AtRoot(file[ROOT_DIR_HANDLE])
  BY <1>1, <1>4, <1>5, RootIsNoHandle DEF Handles
<1>7. Shape
  <2>1. /\ g_CWD \in Seq(Names) /\ path \in Seq(Names) /\ depth \in 0 .. Len(path)
        /\ want \in Int /\ out \in Seq(Some(volume)) /\ got \in Seq(Some(volume))
    BY <1>1
  <2>2. command \in Commands /\ at \in Places /\ current \in Handles
    BY <1>1 DEF Commands, Places, Handles
  <2> QED BY <1>1, <1>6, <2>1, <2>2, Zenon DEF Shape
<1>8. Course
  BY <1>1 DEF Course, Reading
<1>9. HandlesReturned
  <2>1. \A h \in Handle : file[h] = Closed
    BY <1>1
  <2> QED BY <1>4, <2>1 DEF HandlesReturned
<1> QED BY <1>7, <1>8, <1>9

LEMMA StrayFrame ==
    ASSUME Shape, Course, HandlesReturned, Stray
    PROVE  Shape' /\ Course' /\ HandlesReturned'
<1>1. /\ at' = "astray" /\ want' = 0 /\ out' = <<>>
      /\ UNCHANGED <<volume, g_CWD, file, command, path, depth, current, got, answer, failed>>
  BY DEF Stray
<1>2. out' \in Seq(Some(volume)) /\ want' \in Int /\ at' \in Places
  BY <1>1 DEF Places
<1>3. FilesFit'
  BY <1>1 DEF FilesFit, Shape
<1>4. depth' \in 0 .. Len(path) /\ current' \in Handles /\ got' \in Seq(Some(volume))
      /\ failed' \in BOOLEAN
  BY <1>1 DEF Shape
<1>5. Shape'
  BY <1>1, <1>2, <1>3, <1>4, OnFrame
<1>6. Course'
  BY <1>1 DEF Course, Reading
<1>7. HandlesReturned'
  <2>1. ASSUME NEW h \in Handle, file[h].Opened PROVE h = current'
    BY <1>1, <2>1 DEF HandlesReturned
  <2> QED BY <1>1, <2>1 DEF HandlesReturned
<1> QED BY <1>5, <1>6, <1>7

\* A directory is rewound and read.
LEMMA RewindsFrame ==
    ASSUME Shape, NEW h \in Handles, NEW l \in Loads(Rewound(file[h])),
           file' = [file EXCEPT ![h] = l.file], volume' = volume
    PROVE  /\ FilesFit' /\ file'[h] = l.file /\ l.file \in FilesOn(volume) /\ l.ok \in BOOLEAN
           /\ \A i \in Handles : file'[i].Opened = file[i].Opened
<1> DEFINE f == file[h]
<1>1. volume \in Volumes /\ f \in FilesOn(volume)
      /\ file \in [Handles -> FilesOn(volume)] /\ AtRoot(file[ROOT_DIR_HANDLE])
  BY DEF Shape
<1>2. Rewound(f) \in FilesOn(volume) /\ Kept(f, Rewound(f))
  BY <1>1, RewoundIs
<1>3. l.file \in FilesOn(volume) /\ l.ok \in BOOLEAN /\ Kept(Rewound(f), l.file)
  BY <1>1, <1>2, LoadsAre
<1>4. Kept(f, l.file)
  BY <1>2, <1>3, Zenon DEF Kept
<1>5. h = ROOT_DIR_HANDLE => AtRoot(l.file)
  BY <1>1, <1>4, KeptAtRoot
<1>6. /\ file' \in [Handles -> FilesOn(volume')] /\ AtRoot(file'[ROOT_DIR_HANDLE])
      /\ file'[h] = l.file /\ \A i \in Handles : i # h => file'[i] = file[i]
  BY <1>1, <1>3, <1>5, FileStep
<1>7. \A i \in Handles : file'[i].Opened = file[i].Opened
  BY <1>4, <1>6 DEF Kept
<1> QED BY <1>3, <1>6, <1>7 DEF FilesFit

LEMMA PathIs ==
    ASSUME g_CWD \in Seq(Names), NEW arg \in Args
    PROVE  build_path(arg) \in Seq(Names)
<1>1. arg.names \in Seq(Names)
  BY FatFileAssumption
<1> DEFINE all == IF arg.abs THEN arg.names ELSE g_CWD \o arg.names
<1>2. all \in Seq(Names)
  BY <1>1
<1> HIDE DEF all
<1>3. MaxNames \in Nat /\ Len(all) \in Nat
  BY <1>2, Sizes
<1>4. Min({MaxNames, Len(all)}) = IF MaxNames <= Len(all) THEN MaxNames ELSE Len(all)
  BY <1>3, MinTwo
<1> DEFINE n == Min({MaxNames, Len(all)})
<1> HIDE DEF n
<1>5. n \in Nat /\ n <= Len(all)
  BY <1>3, <1>4 DEF n
<1>6. SubSeq(all, 1, n) \in Seq(Names)
  BY <1>2, <1>5
<1> QED BY <1>6 DEF build_path, all, n

LEMMA FAT_OpenFrame ==
    ASSUME Shape, Course, HandlesReturned, NEW c \in Commands, NEW arg \in Args,
           FAT_Open(c, arg)
    PROVE  Shape' /\ Course' /\ HandlesReturned'
<1>1. PICK l \in Loads(Rewound(file[ROOT_DIR_HANDLE])) :
          /\ file' = [file EXCEPT ![ROOT_DIR_HANDLE] = l.file]
          /\ failed' = (failed \/ ~l.ok)
  BY DEF FAT_Open
<1>2. /\ at = "idle" /\ at' = "walk" /\ command' = c /\ path' = build_path(arg) /\ depth' = 0
      /\ current' = ROOT_DIR_HANDLE /\ got' = <<>>
      /\ UNCHANGED <<volume, g_CWD, want, out, answer>>
  BY DEF FAT_Open
<1>3. ROOT_DIR_HANDLE \in Handles
  BY DEF Handles
<1>4. FilesFit' /\ \A i \in Handles : file'[i].Opened = file[i].Opened
  BY <1>1, <1>2, <1>3, RewindsFrame
<1>5. path' \in Seq(Names)
  BY <1>2, PathIs DEF Shape
<1>6. depth' \in 0 .. Len(path') /\ got' \in Seq(Some(volume'))
  BY <1>2, <1>5
<1>7. Shape'
  <2>1. volume' \in Volumes /\ g_CWD' \in Seq(Names) /\ want' \in Int
        /\ out' \in Seq(Some(volume')) /\ answer' \in BOOLEAN /\ failed' \in BOOLEAN
    BY <1>1, <1>2, Zenon DEF Shape
  <2>2. at' \in Places /\ command' \in Commands /\ current' \in Handles
    BY <1>2, <1>3 DEF Places
  <2> QED BY <1>4, <1>5, <1>6, <2>1, <2>2, Zenon DEF Shape, FilesFit
<1>8. Course'
  BY <1>2 DEF Course, Reading
<1>9. HandlesReturned'
  BY <1>2, <1>4, OthersClosed DEF HandlesReturned, NoneOpen, Handles
<1> QED BY <1>7, <1>8, <1>9

LEMMA CdFrame ==
    ASSUME Shape, Course, HandlesReturned, at = "idle", g_CWD' \in Seq(Names),
           UNCHANGED <<volume, file, command, at, path, depth, current, want, out, got, answer,
                       failed>>
    PROVE  Shape' /\ Course' /\ HandlesReturned'
<1>1. Shape'
  BY DEF Shape
<1>2. Course'
  BY DEF Course, Reading
<1>3. HandlesReturned'
  BY OthersClosed DEF HandlesReturned, NoneOpen
<1> QED BY <1>1, <1>2, <1>3

LEMMA WalkFrame ==
    ASSUME Shape, Course, HandlesReturned, Walk
    PROVE  Shape' /\ Course' /\ HandlesReturned'
<1>1. PICK l \in Loads(Rewound(file[current])) :
          /\ file' = [file EXCEPT ![current] = l.file]
          /\ failed' = (failed \/ ~l.ok)
          /\ Read(l.file, 1)
  BY DEF Walk
<1>2. /\ at = "walk" /\ depth < Len(path) /\ at' = "search"
      /\ UNCHANGED <<volume, g_CWD, command, path, depth, current, got, answer>>
  BY DEF Walk
<1>3. /\ FilesFit' /\ l.file \in FilesOn(volume) /\ l.ok \in BOOLEAN
      /\ \A i \in Handles : file'[i].Opened = file[i].Opened
  BY <1>1, <1>2, RewindsFrame DEF Shape
<1>4. want' \in Int /\ want' <= 1 /\ out' = <<>>
  BY <1>1, <1>3, ClippedIs DEF Read
<1>5. Shape'
  <2>1. out' \in Seq(Some(volume)) /\ at' \in Places /\ failed' \in BOOLEAN
    BY <1>1, <1>2, <1>3, <1>4 DEF Places, Shape
  <2>2. depth' \in 0 .. Len(path) /\ current' \in Handles /\ got' \in Seq(Some(volume))
    BY <1>2 DEF Shape
  <2> QED BY <1>2, <1>3, <1>4, <2>1, <2>2, OnFrame
<1>6. Course'
  <2>1. Len(out') <= 1 /\ Len(out') + want' <= 1
    <3>1. Len(out') = 0
      BY <1>4, NothingIn, Zenon
    <3>2. want' \in Int /\ want' <= 1
      BY <1>4
    <3> QED BY <3>1, <3>2, NothingYet, Zenon
  <2> QED BY <1>2, <2>1 DEF Course, Reading
<1>7. HandlesReturned'
  BY <1>2, <1>3 DEF HandlesReturned, Handles
<1> QED BY <1>5, <1>6, <1>7

\* The next entry is asked for, or the next pieces.
LEMMA AsksFrame ==
    ASSUME Shape, HandlesReturned, NEW n \in Nat, Read(file[current], n),
           at' \in Reading, UNCHANGED <<volume, g_CWD, file, command, path, depth, current, answer,
                                        failed>>,
           at \notin {"idle", "enter"}, got' \in Seq(Some(volume)),
           at' \in {"search", "ls"} => n = 1, at' = "search" => depth < Len(path),
           at' # "search" => command = at' /\ depth = Len(path)
    PROVE  Shape' /\ Course' /\ HandlesReturned'
<1>1. want' \in Int /\ want' <= n /\ out' = <<>>
  BY ClippedIs DEF Read, Shape
<1>2. FilesFit' /\ out' \in Seq(Some(volume)) /\ at' \in Places
  BY <1>1 DEF FilesFit, Shape, Reading, Places
<1>3. depth' \in 0 .. Len(path) /\ current' \in Handles /\ failed' \in BOOLEAN
  BY DEF Shape
<1>4. Shape'
  BY <1>1, <1>2, <1>3, OnFrame
<1>5. Course'
  <2>1. n = 1 => Len(out') <= 1 /\ Len(out') + want' <= 1
    <3>1. Len(out') = 0
      BY <1>1, NothingIn, Zenon
    <3>2. want' \in Int /\ (n = 1 => want' <= 1)
      BY <1>1
    <3> QED BY <3>1, <3>2, NothingYet, Zenon
  <2>2. at' \in {"search", "ls"} => Len(out') <= 1 /\ Len(out') + want' <= 1
    BY <2>1
  <2>3. /\ at' = "search" => depth' < Len(path')
        /\ at' \in {"cat", "ls", "print"} => command' = at' /\ depth' = Len(path')
    OBVIOUS
  <2>4. at' \in Reading /\ at' # "enter"
    BY DEF Reading
  <2> QED BY <2>2, <2>3, <2>4 DEF Course
<1>6. HandlesReturned'
  BY DEF HandlesReturned, Reading
<1> QED BY <1>4, <1>5, <1>6

\* The command is over and its file is closed.
LEMMA ClosesFrame ==
    ASSUME Shape, HandlesReturned, NEW found \in BOOLEAN, Idle(found), Close \/ CloseFile,
           got' \in Seq(Some(volume)), failed' \in BOOLEAN
    PROVE  Shape' /\ Course' /\ HandlesReturned'
<1>1. volume' = volume
  BY DEF Idle
<1>2. FilesFit' /\ NoneOpen'
  BY <1>1, CloseLeaves, CloseFileLeaves
<1> QED BY <1>2, IdleFrame

LEMMA MissingFrame ==
    ASSUME Shape, HandlesReturned, Missing
    PROVE  Shape' /\ Course' /\ HandlesReturned'
<1>1. Idle(FALSE) /\ CloseFile /\ got' = got /\ failed' = failed /\ FALSE \in BOOLEAN
  BY DEF Missing
<1>2. got' \in Seq(Some(volume)) /\ failed' \in BOOLEAN
  BY <1>1, Zenon DEF Shape
<1> QED BY <1>1, <1>2, ClosesFrame

LEMMA SearchFrame ==
    ASSUME Shape, Course, HandlesReturned, Search
    PROVE  Shape' /\ Course' /\ HandlesReturned'
<1>1. at = "search" /\ want = 0
  BY DEF Search
<1>2. depth < Len(path) /\ Len(out) <= 1 /\ out \in Seq(Some(volume))
  BY <1>1 DEF Course, Shape
<1>3. CASE Missing
  BY <1>3, MissingFrame
<1>4. CASE /\ ~Ends
           /\ IsEntry(out[1]) /\ out[1].name = path[depth + 1]
           /\ CloseFile
           /\ at' = "enter"
           /\ UNCHANGED <<volume, g_CWD, command, path, depth, current, want, out, got, answer,
                          failed>>
  <2>1. FilesFit' /\ NoneOpen'
    BY <1>4, CloseFileLeaves
  <2>2. Len(out) = 1
    <3>1. DOMAIN out # {}
      BY <1>4 DEF Ends
    <3>2. Len(out) \in Nat /\ Len(out) # 0
      BY <1>2, <3>1
    <3> QED BY <1>2, <3>2, OneIs, Zenon
  <2>3. Shape'
    <3>1. /\ depth' \in 0 .. Len(path) /\ current' \in Handles /\ want' \in Int
          /\ out' \in Seq(Some(volume)) /\ got' \in Seq(Some(volume)) /\ failed' \in BOOLEAN
      BY <1>4 DEF Shape
    <3>2. at' \in Places
      BY <1>4 DEF Places
    <3> QED BY <1>4, <2>1, <3>1, <3>2, OnFrame
  <2>4. Course'
    BY <1>1, <1>2, <1>4, <2>2 DEF Course, Reading
  <2>5. HandlesReturned'
    BY <2>1 DEF HandlesReturned, NoneOpen
  <2> QED BY <2>3, <2>4, <2>5
<1>5. CASE /\ Read(file[current], 1)
           /\ UNCHANGED <<volume, g_CWD, file, command, at, path, depth, current, got, answer,
                          failed>>
  <2>1. got' \in Seq(Some(volume)) /\ at' = "search" /\ at' \in Reading
        /\ at \notin {"idle", "enter"} /\ 1 \in Nat
    BY <1>1, <1>5 DEF Shape, Reading
  <2> QED BY <1>2, <1>5, <2>1, AsksFrame
<1> QED BY <1>3, <1>4, <1>5 DEF Search

\* A piece that is an entry.
LEMMA EntryIs ==
    ASSUME NEW v \in Volumes, NEW x \in Some(v), IsEntry(x)
    PROVE  x \in PieceOn(v) /\ x.dir \in BOOLEAN /\ x.first \in DOMAIN v.next \cup {0}
           /\ x.size \in Nat
<1>1. x \in PieceOn(v)
  BY DEF Some, IsEntry
<1> QED BY <1>1, PieceIs

LEMMA ClosedIs ==
    ASSUME volume \in Volumes
    PROVE  /\ Closed \in FilesOn(volume) /\ ~Closed.Opened /\ Closed.Position = 0
           /\ Closed.CurrentSectorInCluster = 0
<1>1. 0 \in 0 .. SectorsPerCluster - 1 /\ [i \in 1 .. SECTOR_SIZE |-> Junk] \in BufferOn(volume)
  BY Sizes DEF BufferOn
<1> QED BY <1>1 DEF Closed, FilesOn

\* The handle that fat_open_entry makes of an entry.
OpenedOn(e) ==
    [Closed EXCEPT !.Opened = TRUE, !.IsDirectory = e.dir, !.Size = e.size,
                   !.FirstCluster = e.first, !.CurrentCluster = e.first]

LEMMA OpenedOnIs ==
    ASSUME volume \in Volumes, NEW e, e.dir \in BOOLEAN, e.size \in Nat,
           e.first \in DOMAIN volume.next \cup {0}
    PROVE  OpenedOn(e) \in FilesOn(volume) /\ Begins(OpenedOn(e), e.dir, e.size, e.first, Closed)
<1>1. Closed \in FilesOn(volume)
  BY ClosedIs
<1> DEFINE d == e.dir
           z == e.size
           c == e.first
           g == [Closed EXCEPT !.Opened = TRUE, !.IsDirectory = d, !.Size = z,
                               !.FirstCluster = c, !.CurrentCluster = c]
<1>2. d \in BOOLEAN /\ z \in Nat /\ c \in DOMAIN volume.next \cup {0}
  OBVIOUS
<1>3. OpenedOn(e) = g
  BY DEF OpenedOn
<1> HIDE DEF d, z, c
<1>4. g \in FilesOn(volume) /\ Begins(g, d, z, c, Closed)
  BY <1>1, <1>2, OpenedIs
<1> HIDE DEF g
<1> QED BY <1>3, <1>4, Zenon DEF d, z, c

LEMMA EnterFrame ==
    ASSUME Shape, Course, HandlesReturned, Enter
    PROVE  Shape' /\ Course' /\ HandlesReturned'
<1> DEFINE e == out[1]
           free == {h \in Handle : ~file[h].Opened}
<1>1. at = "enter" /\ want = 0 /\ depth < Len(path) /\ IsEntry(e) /\ Len(out) = 1
  <2>1. at = "enter"
    BY DEF Enter
  <2> QED BY <2>1 DEF Course, Reading
<1>2. volume \in Volumes /\ e \in Some(volume) /\ NoneOpen
  <2>1. out \in Seq(Some(volume)) /\ volume \in Volumes
    BY DEF Shape
  <2>2. e \in Some(volume)
    BY <1>1, <2>1
  <2> QED BY <1>1, <2>1, <2>2, OthersClosed
<1>3. e.dir \in BOOLEAN /\ e.first \in DOMAIN volume.next \cup {0} /\ e.size \in Nat
  BY <1>1, <1>2, EntryIs
<1>4. got \in Seq(Some(volume)) /\ failed \in BOOLEAN /\ FALSE \in BOOLEAN
  BY DEF Shape
<1> HIDE DEF e
<1>5. OpenedOn(e) \in FilesOn(volume)
  BY <1>2, <1>3, OpenedOnIs
<1>6. CASE Idle(FALSE) /\ UNCHANGED <<file, got, failed>>
  <2>1. volume' = volume
    BY <1>6 DEF Idle
  <2>2. FilesFit' /\ NoneOpen'
    BY <1>2, <1>6, <2>1 DEF FilesFit, NoneOpen, Shape
  <2> QED BY <1>4, <1>6, <2>2, IdleFrame
<1>7. ASSUME NEW h \in free, NEW l \in Loads(OpenedOn(e)), failed' = (failed \/ ~l.ok)
      PROVE  /\ l.file \in FilesOn(volume) /\ h \in Handle /\ h \in Handles
             /\ h # ROOT_DIR_HANDLE /\ failed' \in BOOLEAN
  BY <1>2, <1>4, <1>5, <1>7, LoadsAre, RootIsNoHandle DEF Handles
<1>8. ASSUME NEW h \in free, NEW l \in Loads(OpenedOn(e)), failed' = (failed \/ ~l.ok),
             file' = [file EXCEPT ![h] = l.file], current' = h, depth' = depth + 1,
             at' = "walk", out' = <<>>,
             UNCHANGED <<volume, g_CWD, command, path, want, got, answer>>
      PROVE  Shape' /\ Course' /\ HandlesReturned'
  <2>1. /\ l.file \in FilesOn(volume) /\ h \in Handle /\ h \in Handles /\ h # ROOT_DIR_HANDLE
        /\ failed' \in BOOLEAN
    BY <1>7, <1>8
  <2>2. FilesFit' /\ \A i \in Handles : i # h => file'[i] = file[i]
    BY <1>8, <2>1, FileStep DEF FilesFit, Shape
  <2>3. Shape'
    <3>1. depth' \in 0 .. Len(path) /\ want' \in Int /\ current' \in Handles
      BY <1>1, <1>8, <2>1 DEF Shape
    <3>2. out' \in Seq(Some(volume)) /\ got' \in Seq(Some(volume)) /\ at' \in Places
      BY <1>4, <1>8 DEF Places
    <3> QED BY <1>8, <2>1, <2>2, <3>1, <3>2, OnFrame
  <2>4. Course'
    BY <1>1, <1>8 DEF Course, Reading
  <2>5. HandlesReturned'
    BY <1>2, <1>8, <2>2 DEF HandlesReturned, NoneOpen, Handles
  <2> QED BY <2>3, <2>4, <2>5
<1>9. ASSUME NEW h \in free, NEW l \in Loads(OpenedOn(e)), failed' = (failed \/ ~l.ok),
             file' = [file EXCEPT ![h] = [l.file EXCEPT !.Opened = FALSE]],
             Idle(FALSE), got' = got
      PROVE  Shape' /\ Course' /\ HandlesReturned'
  <2> DEFINE g == [l.file EXCEPT !.Opened = FALSE]
  <2>1. /\ l.file \in FilesOn(volume) /\ h \in Handle /\ h \in Handles /\ h # ROOT_DIR_HANDLE
        /\ failed' \in BOOLEAN
    BY <1>7, <1>9
  <2>2. g \in FilesOn(volume) /\ ~g.Opened
    BY <2>1, UnopenedIs
  <2>3. volume' = volume
    BY <1>9 DEF Idle
  <2> HIDE DEF g
  <2>4. file' = [file EXCEPT ![h] = g]
    BY <1>9 DEF g
  <2>5. FilesFit' /\ file'[h] = g /\ \A i \in Handles : i # h => file'[i] = file[i]
    BY <2>1, <2>2, <2>3, <2>4, FileStep DEF FilesFit, Shape
  <2>6. NoneOpen'
    BY <1>2, <2>2, <2>5 DEF NoneOpen, Handles
  <2> QED BY <1>4, <1>9, <2>1, <2>5, <2>6, IdleFrame
<1> QED BY <1>6, <1>8, <1>9, Zenon DEF Enter, OpenedOn, e

LEMMA OpenedFrame ==
    ASSUME Shape, Course, HandlesReturned, Opened
    PROVE  Shape' /\ Course' /\ HandlesReturned'
<1>1. at = "walk" /\ depth = Len(path) /\ command \in Commands /\ failed \in BOOLEAN
      /\ got \in Seq(Some(volume))
  BY DEF Opened, Shape
<1>2. CASE /\ Reads
           /\ at' = command
           /\ Read(file[current], Asks)
           /\ UNCHANGED <<volume, g_CWD, file, command, path, depth, current, got, answer, failed>>
  <2>1. command \in {"cat", "print", "ls"}
    BY <1>2 DEF Reads
  <2>2. Asks \in Nat /\ (command = "ls" => Asks = 1)
    BY <2>1, Sizes DEF Asks
  <2>3. at' \in Reading /\ at' # "search" /\ (at' \in {"search", "ls"} => command = "ls")
    BY <1>2, <2>1 DEF Reading
  <2> QED BY <1>1, <1>2, <2>2, <2>3, AsksFrame
<1>3. CASE Close /\ Idle(TRUE) /\ UNCHANGED <<got, failed>>
  BY <1>1, <1>3, ClosesFrame
<1> QED BY <1>2, <1>3 DEF Opened

LEMMA CatFrame ==
    ASSUME Shape, Course, HandlesReturned, Cat
    PROVE  Shape' /\ Course' /\ HandlesReturned'
<1>1. /\ at = "cat" /\ depth = Len(path) /\ command = "cat" /\ failed \in BOOLEAN
      /\ got \in Seq(Some(volume)) /\ out \in Seq(Some(volume))
  BY DEF Cat, Course, Shape
<1>2. CASE /\ got' = got \o out
           /\ Read(file[current], CAT)
           /\ UNCHANGED <<volume, g_CWD, file, command, at, path, depth, current, answer, failed>>
  <2>1. got' \in Seq(Some(volume)) /\ at' = "cat" /\ at' \in Reading /\ CAT \in Nat
    BY <1>1, <1>2, Sizes DEF Reading
  <2> QED BY <1>1, <1>2, <2>1, AsksFrame
<1>3. CASE Close /\ Idle(TRUE) /\ UNCHANGED <<got, failed>>
  BY <1>1, <1>3, ClosesFrame
<1> QED BY <1>2, <1>3 DEF Cat

LEMMA ListDirFrame ==
    ASSUME Shape, Course, HandlesReturned, ListDir
    PROVE  Shape' /\ Course' /\ HandlesReturned'
<1>1. /\ at = "ls" /\ depth = Len(path) /\ command = "ls" /\ failed \in BOOLEAN
      /\ got \in Seq(Some(volume)) /\ out \in Seq(Some(volume))
  BY DEF ListDir, Course, Shape
<1>2. CASE /\ ~Ends
           /\ got' = IF IsEntry(out[1]) THEN Append(got, out[1]) ELSE got
           /\ Read(file[current], 1)
           /\ UNCHANGED <<volume, g_CWD, file, command, at, path, depth, current, answer, failed>>
  <2>1. out[1] \in Some(volume)
    <3>1. DOMAIN out # {}
      BY <1>2 DEF Ends
    <3> QED BY <1>1, <3>1
  <2>2. got' \in Seq(Some(volume))
    BY <1>1, <1>2, <2>1
  <2>3. at' = "ls" /\ at' \in Reading /\ 1 \in Nat
    BY <1>1, <1>2 DEF Reading
  <2> QED BY <1>1, <1>2, <2>2, <2>3, AsksFrame
<1>3. CASE CloseFile /\ Idle(TRUE) /\ UNCHANGED <<got, failed>>
  BY <1>1, <1>3, ClosesFrame
<1> QED BY <1>2, <1>3 DEF ListDir

LEMMA PrintAppendFrame ==
    ASSUME Shape, Course, HandlesReturned, PrintAppend
    PROVE  Shape' /\ Course' /\ HandlesReturned'
<1>1. Close /\ Idle(TRUE) /\ got' \in Seq(Some(volume)) /\ failed' \in BOOLEAN
  BY DEF PrintAppend, Shape
<1> QED BY <1>1, ClosesFrame

--------------------------------------------------------------------------------
(* What the other actions do as long as no read fails.                        *)

\* What a command is to make of what the path leads to.
Result(v, c, e) ==
    LET s == ContentsOf(v, e) IN
    CASE c = "cat"   -> s
      [] c = "ls"    -> IF e.dir THEN Lists(s)[Len(s)] ELSE <<>>
      [] c = "print" -> SubSeq(s, 1, Min({EXISTING, Len(s)}))
      [] OTHER       -> <<>>

\* The command is over, and its answer and what it made are right.
LEMMA IdleReads ==
    ASSUME NEW found \in BOOLEAN, Idle(found),
           ~failed' => (found <=> LookUp(path) # NoEntry),
           ~failed' /\ found => got' = Result(volume, command, LookUp(path))
    PROVE  ReadsAll' /\ (~failed' => Good')
<1>1. /\ at' = "idle" /\ answer' = found
      /\ UNCHANGED <<volume, command, path, depth, current>>
  BY DEF Idle
<1>2. LookUp(path)' = LookUp(path)
  BY <1>1 DEF LookUp
<1> DEFINE e == LookUp(path)
           s == ContentsOf(volume, e)
<1>3. ~failed' => (answer' <=> e # NoEntry)
  BY <1>1
<1>4. ~failed' /\ answer' => got' = Result(volume, command, e)
  BY <1>1
<1>5. Contents(e)' = s /\ Listed(e)' = Lists(s)[Len(s)]
  BY <1>1, <1>2 DEF Contents, Listed
<1>6. Result(volume, command, e)
         = CASE command' = "cat"   -> s
             [] command' = "ls"    -> IF e.dir THEN Lists(s)[Len(s)] ELSE <<>>
             [] command' = "print" -> SubSeq(s, 1, Min({EXISTING, Len(s)}))
             [] OTHER             -> <<>>
  BY <1>1 DEF Result
<1>7. Good'
  BY <1>1 DEF Good, Follows, Entering, ReadSoFar, Reading
<1>8. ReadsAll'
  BY <1>1, <1>2, <1>3, <1>4, <1>5, <1>6 DEF ReadsAll
<1> QED BY <1>7, <1>8

\* A directory that is rewound is read from its beginning.
LEMMA RestartIs ==
    ASSUME volume \in Volumes, NEW f \in FilesOn(volume), NEW l \in Loads(Rewound(f)), l.ok,
           NEW e, f.Opened, f.IsDirectory = e.dir, f.FirstCluster = e.first, f.Size = e.size
    PROVE  AtStart(volume, e, l.file)
<1>1. /\ Rewound(f) \in FilesOn(volume) /\ Kept(f, Rewound(f))
      /\ Rewound(f).Position = 0 /\ Rewound(f).CurrentCluster = f.FirstCluster
      /\ Rewound(f).CurrentSectorInCluster = 0
  BY RewoundIs
<1>2. /\ Kept(Rewound(f), l.file) /\ Placed(Rewound(f), l.file)
      /\ l.file.Buffer = SectorOn(volume, Rewound(f).CurrentCluster,
                                  Rewound(f).CurrentSectorInCluster)
  BY <1>1, LoadsAre
<1> DEFINE g == Rewound(f)
           m == l.file
<1> HIDE DEF g, m
<1>3. /\ m.Opened = f.Opened /\ m.IsDirectory = e.dir /\ m.FirstCluster = e.first
      /\ m.Size = e.size /\ m.Position = 0 /\ m.CurrentCluster = e.first
      /\ m.CurrentSectorInCluster = 0 /\ m.Buffer = SectorOn(volume, e.first, 0)
  BY <1>1, <1>2, Zenon DEF Kept, Placed, g, m
<1>4. AtStart(volume, e, m)
  BY <1>3, Zenon DEF AtStart
<1> QED BY <1>4 DEF m

\* More is asked for.
LEMMA AsksBring ==
    ASSUME NEW v \in Volumes, NEW e, GoodEntry(v, e), NEW h, NEW f \in FilesOn(v),
           Reader(v, h, e, f, 0), h = ROOT_DIR_HANDLE => e.dir, NEW a
    PROVE  /\ Reader(v, h, e, f, Clipped(f, Asked(a)))
           /\ Brought(a, h, ContentsOf(v, e), f.Position, Clipped(f, Asked(a)), <<>>)
<1> DEFINE n == Asked(a)
           w == Clipped(f, n)
           s == ContentsOf(v, e)
<1>1. n \in Nat /\ n > 0
  BY AskedIs
<1> HIDE DEF n
<1>2. /\ Reader(v, h, e, f, w) /\ w \in 0 .. n
      /\ w = n \/ f.Position + w = Len(s)
      /\ h = ROOT_DIR_HANDLE /\ e.dir => w > 0
  BY <1>1, AskingReads
<1>3. f.Position \in Nat
  BY DEF FilesOn
<1> HIDE DEF w, s
<1> DEFINE z == Len(<<>>)
<1>4. z = 0
  BY NothingIn
<1> HIDE DEF z
<1>5. /\ w >= 0 /\ z + w <= n /\ (z + w = n \/ f.Position + w = Len(s))
      /\ h = ROOT_DIR_HANDLE => z > 0 \/ w > 0
      /\ z <= f.Position /\ \A i \in 1 .. z : FALSE
  BY <1>1, <1>2, <1>3, <1>4
<1>6. Brought(a, h, s, f.Position, w, <<>>)
  BY <1>5, Zenon DEF Brought, n, z
<1> QED BY <1>2, <1>6 DEF n, w, s

\* What a command has made so far is right when it asks for more.
LEMMA AsksGood ==
    ASSUME Shape, NEW f \in FilesOn(volume), at' \in Reading, file'[current] = f,
           want' = Clipped(f, Asked(at')), out' = <<>>,
           UNCHANGED <<volume, path, depth, current>>,
           Reader(volume, current, Here, f, 0), Here # NoEntry,
           current = ROOT_DIR_HANDLE => depth = 0,
           Made(at', path[depth + 1], Here, Held, f.Position, got'),
           at' = "print" => f.Position = 0
    PROVE  Good'
<1>1. volume \in Volumes /\ GoodEntry(volume, Here) /\ HoldsWell(volume, Here, Held)
      /\ (current = ROOT_DIR_HANDLE => Here = Root)
  BY HereIsGood DEF Shape
<1>2. current = ROOT_DIR_HANDLE => Here.dir
  BY <1>1, RootIsGood
<1>3. /\ Reader(volume, current, Here, f, want')
      /\ Brought(at', current, Held, f.Position, want', <<>>)
  BY <1>1, <1>2, AsksBring DEF Held
<1>4. Here' = Here /\ Held' = Held
  BY DEF Here, Held
<1>5. at' # "walk" /\ at' # "enter"
  BY DEF Reading
<1>6. Follows'
  BY <1>3, <1>4, <1>5 DEF Follows
<1>7. Entering'
  BY <1>5 DEF Entering
<1>8. f.Position \in Nat /\ f.Position - Len(<<>>) = f.Position
  BY NothingIn DEF FilesOn
<1>9. at' = "print" => f.Position <= Len(Held) /\ (f.Position = Len(Held) => want' = 0)
  <2> SUFFICES ASSUME at' = "print"
               PROVE  0 <= Len(Held) /\ (0 = Len(Held) => want' = 0)
    OBVIOUS
  <2>1. Len(Held) \in Nat /\ (Here.dir => Len(Held) > 0) /\ (~Here.dir => Len(Held) = Here.size)
    BY <1>1 DEF HoldsWell
  <2>2. ~Here.dir => f.Size = Here.size /\ 0 + want' <= f.Size
    BY <1>3 DEF Reader, Sized
  <2>3. want' >= 0
    BY <1>3 DEF Brought
  <2>4. Here.dir \in BOOLEAN /\ want' \in Int
    BY <1>1, ClippedIs, AskedIs DEF GoodEntry
  <2> QED BY <2>1, <2>2, <2>3, <2>4
<1>10. ReadSoFar'
  <2>1. Brought(at', current', Held', f.Position, want', out')
    BY <1>3, <1>4
  <2>2. Made(at', path'[depth' + 1], Here', Held', f.Position - Len(out'), got')
    BY <1>4, <1>8
  <2>3. at' = "print" => f.Position <= Len(Held') /\ (f.Position = Len(Held') => want' = 0)
    BY <1>4, <1>9
  <2> QED BY <2>1, <2>2, <2>3, Zenon DEF ReadSoFar
<1> QED BY <1>6, <1>7, <1>10 DEF Good

--------------------------------------------------------------------------------
(* Right, one lemma for each action.                                          *)

\* Nothing has been made of the first 0 pieces.
LEMMA NothingMade ==
    ASSUME NEW S, NEW s \in Seq(S), NEW a, NEW name, NEW e, a = "ls" => e.dir
    PROVE  Made(a, name, e, s, 0, <<>>)
<1>1. Lists(s)[0] = <<>>
  BY ListsAre
<1>2. Len(<<>>) = 0 /\ (\A i \in 1 .. 0 : FALSE) /\ \A k \in 1 .. Len(s) : ~(k <= 0)
  OBVIOUS
<1> QED BY <1>1, <1>2, Zenon DEF Made

\* The handle is at the beginning, and is read from there.
LEMMA BeginsGood ==
    ASSUME Shape, NEW f \in FilesOn(volume), at' \in Reading, file'[current] = f,
           want' = Clipped(f, Asked(at')), out' = <<>>, got' = <<>>,
           UNCHANGED <<volume, path, depth, current>>,
           AtStart(volume, Here, f), Here # NoEntry, current = ROOT_DIR_HANDLE => depth = 0,
           at' = "ls" => Here.dir
    PROVE  Good'
<1>1. volume \in Volumes /\ GoodEntry(volume, Here) /\ Held \in Seq(PieceOn(volume))
  BY HereIsGood DEF Shape, HoldsWell
<1>2. f.Position = 0
  BY DEF AtStart
<1>3. Reader(volume, current, Here, f, 0)
  BY <1>1, StartReads
<1>4. Made(at', path[depth + 1], Here, Held, 0, <<>>)
  BY <1>1, NothingMade
<1>5. Made(at', path[depth + 1], Here, Held, f.Position, got')
  BY <1>2, <1>4
<1> QED BY <1>2, <1>3, <1>5, AsksGood

LEMMA WalkGood ==
    ASSUME Shape, Right, Walk
    PROVE  Right'
<1>1. PICK l \in Loads(Rewound(file[current])) :
          /\ file' = [file EXCEPT ![current] = l.file]
          /\ failed' = (failed \/ ~l.ok)
          /\ Read(l.file, 1)
  BY DEF Walk
<1>2. /\ at = "walk" /\ at' = "search"
      /\ UNCHANGED <<volume, g_CWD, command, path, depth, current, got, answer>>
  BY DEF Walk
<1>3. /\ file'[current] = l.file /\ l.file \in FilesOn(volume) /\ l.ok \in BOOLEAN
      /\ volume \in Volumes /\ file[current] \in FilesOn(volume) /\ failed \in BOOLEAN
  BY <1>1, <1>2, RewindsFrame DEF Shape
<1>4. ~failed' => ~failed /\ l.ok
  BY <1>1, <1>3, Zenon
<1>5. ASSUME ~failed' PROVE Good'
  <2>1. /\ AtStart(volume, Here, file[current]) /\ got = <<>>
        /\ Here # NoEntry /\ (current = ROOT_DIR_HANDLE => depth = 0)
    BY <1>2, <1>4, <1>5 DEF Right, Good, Follows
  <2>2. /\ file[current].Opened /\ file[current].IsDirectory = Here.dir
        /\ file[current].FirstCluster = Here.first /\ file[current].Size = Here.size
    BY <2>1, Zenon DEF AtStart
  <2>3. AtStart(volume, Here, l.file)
    BY <1>3, <1>4, <1>5, <2>2, RestartIs
  <2>4. want' = Clipped(l.file, Asked(at')) /\ out' = <<>> /\ got' = <<>>
    BY <1>1, <1>2, <2>1 DEF Read, Asked
  <2>5. at' \in Reading /\ at' # "ls"
    BY <1>2 DEF Reading
  <2> QED BY <1>2, <1>3, <2>1, <2>3, <2>4, <2>5, BeginsGood
<1>6. ReadsAll'
  BY <1>2 DEF ReadsAll
<1> QED BY <1>5, <1>6 DEF Right

LEMMA FAT_OpenGood ==
    ASSUME Shape, Right, NEW c \in Commands, NEW arg \in Args, FAT_Open(c, arg)
    PROVE  Right'
<1> DEFINE f == file[ROOT_DIR_HANDLE]
<1>1. PICK l \in Loads(Rewound(f)) :
          /\ file' = [file EXCEPT ![ROOT_DIR_HANDLE] = l.file]
          /\ failed' = (failed \/ ~l.ok)
  BY DEF FAT_Open
<1>2. /\ at' = "walk" /\ path' = build_path(arg) /\ depth' = 0
      /\ current' = ROOT_DIR_HANDLE /\ got' = <<>> /\ UNCHANGED <<volume, g_CWD>>
  BY DEF FAT_Open
<1>3. ROOT_DIR_HANDLE \in Handles /\ volume \in Volumes /\ f \in FilesOn(volume) /\ AtRoot(f)
      /\ failed \in BOOLEAN
  BY DEF Shape, Handles
<1>4. file'[ROOT_DIR_HANDLE] = l.file /\ l.ok \in BOOLEAN
  BY <1>1, <1>2, <1>3, RewindsFrame
<1>5. ~failed' => ~failed /\ l.ok
  BY <1>1, <1>3, <1>4, Zenon
<1>6. Here' = Root
  <2>1. path' \in Seq(Names)
    BY <1>2, PathIs DEF Shape
  <2>2. Steps(volume, path')[0] = Root
    BY <1>3, <2>1, StepsAre DEF Leads
  <2> QED BY <1>2, <2>2 DEF Here
<1>7. ASSUME ~failed' PROVE Good'
  <2>1. f.Opened /\ f.IsDirectory = Root.dir /\ f.FirstCluster = Root.first /\ f.Size = Root.size
    <3>1. Root.dir = TRUE /\ Root.first = RootDirCluster /\ Root.size = 0
      BY DEF Root, NoEntry
    <3>2. f.IsDirectory = TRUE
      BY <1>3 DEF AtRoot, FilesOn
    <3> QED BY <1>3, <3>1, <3>2, Zenon DEF AtRoot
  <2> HIDE DEF f
  <2>2. AtStart(volume, Root, l.file)
    BY <1>1, <1>3, <1>5, <1>7, <2>1, RestartIs
  <2>3. Root # NoEntry
    BY <1>3, RootIsGood
  <2>4. AtStart(volume', Here', file'[current'])
    BY <1>2, <1>4, <1>6, <2>2
  <2>5. Follows'
    BY <1>2, <1>6, <2>3, <2>4 DEF Follows, Reading
  <2>6. Entering' /\ ReadSoFar'
    BY <1>2 DEF Entering, ReadSoFar, Reading
  <2> QED BY <2>5, <2>6 DEF Good
<1>8. ReadsAll'
  BY <1>2 DEF ReadsAll
<1> QED BY <1>7, <1>8 DEF Right

LEMMA ReadPieceRight ==
    ASSUME Shape, Course, Right, ReadPiece
    PROVE  Right'
<1>1. at' = at /\ at \in Reading /\ UNCHANGED <<volume, g_CWD>>
  BY DEF ReadPiece, Course, Shape
<1>2. ~failed' => ~failed
  BY ReadPieceTurns DEF Turns
<1>3. ReadsAll'
  BY <1>1 DEF ReadsAll, Reading
<1> QED BY <1>3, ReadPieceGood, SMTT(30) DEF Right

LEMMA StrayGood ==
    ASSUME Right, Stray
    PROVE  Right'
<1>1. at' = "astray" /\ UNCHANGED <<volume, g_CWD, failed>>
  BY DEF Stray
<1>2. ReadsAll' /\ Good'
  BY <1>1 DEF ReadsAll, Good, Follows, Entering, ReadSoFar, Reading
<1> QED BY <1>2 DEF Right

\* cd that changes only the path.
LEMMA CdGood ==
    ASSUME Right, at = "idle",
           UNCHANGED <<volume, file, command, at, path, depth, current, want, out, got, answer,
                       failed>>
    PROVE  Right'
<1>1. ReadsAll'
  BY DEF Right, ReadsAll, LookUp, Listed, Contents
<1>2. Good'
  BY DEF Good, Follows, Entering, ReadSoFar, Reading
<1> QED BY <1>1, <1>2 DEF Right

LEMMA RootIsThere ==
    ASSUME volume \in Volumes
    PROVE  LookUp(<<>>) = Root /\ LookUp(<<>>).dir /\ LookUp(<<>>) # NoEntry
<1>1. <<>> \in Seq(Names) /\ Len(<<>>) = 0
  OBVIOUS
<1>2. Steps(volume, <<>>)[0] = Root
  BY <1>1, StepsAre DEF Leads
<1> QED BY <1>1, <1>2, RootIsGood DEF LookUp

\* The volume is another, on the same disk.
LEMMA ChangedFrame ==
    ASSUME Shape, Course, HandlesReturned, Changed
    PROVE  Shape' /\ Course' /\ HandlesReturned'
<1>1. /\ at = "idle" /\ volume' \in Volumes /\ command' = "cd" /\ path' = <<>> /\ depth' = 0
      /\ answer' = TRUE /\ got' = <<>>
      /\ UNCHANGED <<g_CWD, file, at, current, want, out, failed>>
  BY DEF Changed
<1>2. volume \in Volumes /\ DOMAIN volume'.next = DOMAIN volume.next
  BY <1>1, FatFileAssumption DEF Shape
<1>3. PieceOn(volume') = PieceOn(volume)
  BY <1>2 DEF PieceOn
<1>4. Some(volume') = Some(volume) /\ FilesOn(volume') = FilesOn(volume)
  BY <1>2, <1>3 DEF Some, FilesOn, BufferOn
<1>5. path' \in Seq(Names) /\ depth' \in 0 .. Len(path') /\ got' \in Seq(Some(volume'))
  BY <1>1
<1>6. Shape'
  BY <1>1, <1>4, <1>5 DEF Shape, Commands
<1>7. Course'
  BY <1>1 DEF Course, Reading
<1>8. HandlesReturned'
  BY <1>1, OthersClosed DEF HandlesReturned, NoneOpen
<1> QED BY <1>6, <1>7, <1>8

LEMMA ChangedGood ==
    ASSUME Changed
    PROVE  Right'
<1>1. /\ at' = "idle" /\ volume' \in Volumes /\ command' = "cd" /\ path' = <<>>
      /\ got' = <<>> /\ answer' = TRUE
  BY DEF Changed
<1>2. (LookUp(<<>>) # NoEntry)'
  <2>1. <<>> \in Seq(Names) /\ Len(<<>>) = 0
    OBVIOUS
  <2>2. Steps(volume', <<>>)[0] = Root
    BY <1>1, <2>1, StepsAre DEF Leads
  <2> QED BY <1>1, <2>1, <2>2, RootIsGood DEF LookUp
<1>3. ReadsAll'
  BY <1>1, <1>2 DEF ReadsAll
<1>4. Good'
  BY <1>1 DEF Good, Follows, Entering, ReadSoFar, Reading
<1> QED BY <1>3, <1>4 DEF Right

LEMMA InitGood ==
    ASSUME Init
    PROVE  Right
<1>1. /\ volume \in Volumes /\ g_CWD = <<>> /\ command = "cd" /\ at = "idle" /\ path = <<>>
      /\ got = <<>> /\ answer = TRUE
  BY DEF Init
<1>2. LookUp(<<>>).dir /\ LookUp(<<>>) # NoEntry
  BY <1>1, RootIsThere
<1>3. ReadsAll
  BY <1>1, <1>2 DEF ReadsAll
<1>4. Good
  BY <1>1 DEF Good, Follows, Entering, ReadSoFar, Reading
<1> QED BY <1>3, <1>4 DEF Right

\* The piece that was read last is one of s.
LEMMA LastIs ==
    ASSUME NEW a \in {"search", "ls"}, NEW h, NEW s, Len(s) \in Nat, NEW n \in Nat, NEW o,
           Len(o) \in Nat, Brought(a, h, s, n, 0, o), Len(o) # 0
    PROVE  /\ Len(o) = 1 /\ n - Len(o) = n - 1 /\ n - 1 \in Nat
           /\ \/ n \in 1 .. Len(s) /\ o[1] = s[n]
              \/ n > Len(s) /\ \E k \in 1 .. Len(s) : k <= n - 1 /\ o[1] = s[k]
<1> DEFINE l == Len(o)
<1>1. l + 0 <= 1 /\ l \in Nat /\ l # 0
  BY DEF Brought, Asked
<1>2. Len(o) = 1
  <2> HIDE DEF l
  <2>1. l = 1
    BY <1>1
  <2> QED BY <2>1 DEF l
<1>3. 1 <= n
  BY <1>2 DEF Brought
<1>4. CASE n <= Len(s)
  <2>1. o[1] = s[(n - 1) + 1]
    BY <1>2, <1>4 DEF Brought
  <2>2. (n - 1) + 1 = n
    OBVIOUS
  <2> QED BY <1>2, <1>3, <1>4, <2>1, <2>2
<1>5. CASE n > Len(s)
  <2>1. \E k \in 1 .. Len(s) : o[1] = s[k]
    BY <1>2, <1>5 DEF Brought
  <2> QED BY <1>2, <1>3, <1>5, <2>1
<1> QED BY <1>4, <1>5

\* Nothing was read because the end was there.
LEMMA NoneIs ==
    ASSUME NEW a, NEW h, NEW s, NEW n \in Nat, NEW o, Brought(a, h, s, n, 0, o), Len(o) = 0
    PROVE  n = Len(s) /\ h # ROOT_DIR_HANDLE
<1>1. Asked(a) \in Nat /\ Asked(a) # 0
  BY AskedIs
<1>2. ~(0 + 0 = Asked(a)) /\ ~(0 > 0)
  BY <1>1
<1>3. n + 0 = n
  OBVIOUS
<1> QED BY <1>2, <1>3 DEF Brought

\* What is known where a read is done.
LEMMA DoneReading ==
    ASSUME Shape, Good, at \in Reading, want = 0
    PROVE  LET n == file[current].Position IN
           /\ volume \in Volumes /\ file[current] \in FilesOn(volume) /\ n \in Nat
           /\ GoodEntry(volume, Here) /\ HoldsWell(volume, Here, Held)
           /\ Held \in Seq(PieceOn(volume)) /\ Len(Held) \in Nat /\ Len(out) \in Nat
           /\ Reader(volume, current, Here, file[current], 0)
           /\ Here # NoEntry /\ (current = ROOT_DIR_HANDLE => depth = 0)
           /\ Brought(at, current, Held, n, 0, out)
           /\ Made(at, path[depth + 1], Here, Held, n - Len(out), got)
<1>1. /\ volume \in Volumes /\ file[current] \in FilesOn(volume) /\ Len(out) \in Nat
  BY DEF Shape
<1>2. file[current].Position \in Nat
  BY <1>1 DEF FilesOn
<1>3. /\ GoodEntry(volume, Here) /\ HoldsWell(volume, Here, Held)
      /\ Held \in Seq(PieceOn(volume)) /\ Len(Held) \in Nat
  BY HereIsGood DEF HoldsWell
<1>4. /\ Reader(volume, current, Here, file[current], 0)
      /\ Here # NoEntry /\ (current = ROOT_DIR_HANDLE => depth = 0)
  BY DEF Good, Follows
<1>5. /\ Brought(at, current, Held, file[current].Position, 0, out)
      /\ Made(at, path[depth + 1], Here, Held, file[current].Position - Len(out), got)
  BY DEF Good, ReadSoFar
<1> QED BY <1>1, <1>2, <1>3, <1>4, <1>5

\* Behind the last piece of a directory, or at its end mark, the name is missing.
LEMMA MissingIsRight ==
    ASSUME Shape, Course, Good, at = "search", want = 0, Ends
    PROVE  LookUp(path) = NoEntry
<1> DEFINE n == file[current].Position
           s == Held
           name == path[depth + 1]
<1>1. /\ volume \in Volumes /\ GoodEntry(volume, Here) /\ Len(s) \in Nat /\ n \in Nat
      /\ Len(out) \in Nat /\ Brought("search", current, s, n, 0, out)
      /\ Made("search", name, Here, s, n - Len(out), got)
  BY DoneReading DEF Reading
<1>2. depth < Len(path) /\ Steps(volume, path)[depth + 1] = Find(volume, Here, name)
      /\ path \in Seq(Names) /\ depth \in 0 .. Len(path)
  BY HereIsGood DEF Course, Shape
<1>3. out \in Seq(Some(volume))
  BY DEF Shape
<1> HIDE DEF n, s, name
<1>4. \A k \in 1 .. Len(s) : k <= n - Len(out) => Passed(s, k, name)
  BY <1>1 DEF Made
<1>5. ASSUME NEW m \in Nat, m <= Len(s), m < Len(s) => s[m + 1] = Never,
             \A k \in 1 .. Len(s) : k <= m => Passed(s, k, name)
      PROVE  LookUp(path) = NoEntry
  <2>1. Find(volume, Here, name) = NoEntry
    BY <1>1, <1>5, FindMiss DEF s, Held
  <2>2. depth + 1 \in 0 .. Len(path)
    BY <1>2
  <2> QED BY <1>1, <1>2, <2>1, <2>2, MissingStays DEF LookUp
<1>6. CASE Len(out) = 0
  <2>1. n = Len(s)
    BY <1>1, <1>6, NoneIs
  <2>2. \A k \in 1 .. Len(s) : k <= n => Passed(s, k, name)
    BY <1>1, <1>4, <1>6
  <2> QED BY <1>1, <1>5, <2>1, <2>2
<1>7. CASE Len(out) # 0
  <2>1. /\ Len(out) = 1 /\ n - Len(out) = n - 1 /\ n - 1 \in Nat
        /\ \/ n \in 1 .. Len(s) /\ out[1] = s[n]
           \/ n > Len(s) /\ \E k \in 1 .. Len(s) : k <= n - 1 /\ out[1] = s[k]
    BY <1>1, <1>7, LastIs
  <2>2. out[1] = Never
    <3>1. 1 \in DOMAIN out
      BY <1>3, <2>1
    <3> QED BY <3>1 DEF Ends
  <2>3. \A k \in 1 .. Len(s) : k <= n - 1 => s[k] # Never
    BY <1>4, <2>1 DEF Passed
  <2>4. n \in 1 .. Len(s) /\ s[n] = Never
    BY <2>1, <2>2, <2>3
  <2>5. n - 1 <= Len(s) /\ (n - 1) + 1 = n
    BY <1>1, <2>4
  <2>6. \A k \in 1 .. Len(s) : k <= n - 1 => Passed(s, k, name)
    BY <1>4, <2>1
  <2> QED BY <1>5, <2>1, <2>4, <2>5, <2>6
<1> QED BY <1>6, <1>7

\* The entry with the name is the next of the path.
LEMMA HitIsRight ==
    ASSUME Shape, Course, Good, at = "search", want = 0, Len(out) # 0,
           IsEntry(out[1]), out[1].name = path[depth + 1]
    PROVE  out[1] = Steps(volume, path)[depth + 1] /\ out[1] # NoEntry /\ got = <<>>
<1> DEFINE n == file[current].Position
           s == Held
           name == path[depth + 1]
<1>1. /\ volume \in Volumes /\ GoodEntry(volume, Here) /\ Len(s) \in Nat /\ n \in Nat
      /\ Len(out) \in Nat /\ Brought("search", current, s, n, 0, out)
      /\ Made("search", name, Here, s, n - Len(out), got)
  BY DoneReading DEF Reading
<1>2. Steps(volume, path)[depth + 1] = Find(volume, Here, name) /\ name \in Names
  BY HereIsGood DEF Course
<1>3. IsEntry(out[1]) /\ out[1].name = name
  OBVIOUS
<1> HIDE DEF n, s, name
<1>4. got = <<>> /\ \A k \in 1 .. Len(s) : k <= n - Len(out) => Passed(s, k, name)
  BY <1>1 DEF Made
<1>5. /\ n - Len(out) = n - 1 /\ n - 1 \in Nat
      /\ \/ n \in 1 .. Len(s) /\ out[1] = s[n]
         \/ n > Len(s) /\ \E k \in 1 .. Len(s) : k <= n - 1 /\ out[1] = s[k]
  BY <1>1, LastIs
<1>6. \A k \in 1 .. Len(s) : k <= n - 1 => Passed(s, k, name)
  BY <1>4, <1>5
<1>7. n \in 1 .. Len(s) /\ out[1] = s[n]
  BY <1>3, <1>5, <1>6 DEF Passed
<1>8. \A k \in 1 .. Len(s) : k < n => Passed(s, k, name)
  <2>1. \A k \in 1 .. Len(s) : k < n => k <= n - 1
    BY <1>1
  <2> QED BY <1>6, <2>1
<1>9. Find(volume, Here, name) = s[n] /\ Find(volume, Here, name) # NoEntry
  BY <1>1, <1>2, <1>3, <1>7, <1>8, FindHit DEF s, Held
<1> QED BY <1>2, <1>4, <1>7, <1>9

\* The search passes the entry.
LEMMA PassedIsRight ==
    ASSUME Shape, Course, Good, at = "search", want = 0, Len(out) # 0, out[1] # Never,
           ~(IsEntry(out[1]) /\ out[1].name = path[depth + 1])
    PROVE  Made("search", path[depth + 1], Here, Held, file[current].Position, got)
<1> DEFINE n == file[current].Position
           s == Held
           name == path[depth + 1]
<1>1. /\ Len(s) \in Nat /\ n \in Nat
      /\ Len(out) \in Nat /\ Brought("search", current, s, n, 0, out)
      /\ Made("search", name, Here, s, n - Len(out), got)
  BY DoneReading DEF Reading
<1>2. out[1] # Never /\ ~(IsEntry(out[1]) /\ out[1].name = name)
  OBVIOUS
<1> HIDE DEF n, s, name
<1>3. got = <<>> /\ \A k \in 1 .. Len(s) : k <= n - Len(out) => Passed(s, k, name)
  BY <1>1 DEF Made
<1>4. /\ n - Len(out) = n - 1
      /\ \/ n \in 1 .. Len(s) /\ out[1] = s[n]
         \/ n > Len(s)
  BY <1>1, LastIs
<1>5. ASSUME NEW k \in 1 .. Len(s), k <= n PROVE Passed(s, k, name)
  <2>1. CASE k <= n - 1
    BY <1>3, <1>4, <2>1
  <2>2. CASE k = n
    BY <1>2, <1>4, <2>2 DEF Passed
  <2> QED BY <1>1, <1>5, <2>1, <2>2
<1>6. Made("search", name, Here, s, n, got)
  BY <1>3, <1>5 DEF Made
<1> QED BY <1>6 DEF n, s, name

LEMMA SearchGood ==
    ASSUME Shape, Course, Right, Search
    PROVE  Right'
<1>1. at = "search" /\ want = 0 /\ out \in Seq(Some(volume)) /\ Len(out) <= 1 /\ Len(out) \in Nat
  <2>1. at = "search" /\ want = 0
    BY DEF Search
  <2> QED BY <2>1 DEF Course, Shape
<1>2. ~failed => Good
  BY DEF Right
<1>3. CASE Ends /\ Missing
  <2>1. Idle(FALSE) /\ failed' = failed
    BY <1>3 DEF Missing
  <2>2. ~failed' => LookUp(path) = NoEntry
    BY <1>1, <1>2, <1>3, <2>1, MissingIsRight
  <2>3. ReadsAll' /\ (~failed' => Good')
    BY <2>1, <2>2, IdleReads
  <2> QED BY <2>3 DEF Right
<1>4. ASSUME ~Ends PROVE Len(out) # 0 /\ out[1] # Never
  <2>1. PICK i \in DOMAIN out : out[i] # Never
    BY <1>4 DEF Ends
  <2>2. i = 1 /\ Len(out) # 0
    BY <1>1, <2>1
  <2> QED BY <2>1, <2>2
<1>5. CASE /\ ~Ends
           /\ IsEntry(out[1]) /\ out[1].name = path[depth + 1]
           /\ at' = "enter"
           /\ UNCHANGED <<volume, g_CWD, command, path, depth, current, want, out, got, answer,
                          failed>>
  <2>1. ASSUME ~failed' PROVE Good'
    <3>1. out[1] = Steps(volume, path)[depth + 1] /\ out[1] # NoEntry /\ got = <<>>
      BY <1>1, <1>2, <1>4, <1>5, <2>1, HitIsRight
    <3>2. Entering'
      BY <1>5, <3>1 DEF Entering
    <3> QED BY <1>5, <3>2 DEF Good, Follows, ReadSoFar, Reading
  <2>2. ReadsAll'
    BY <1>5 DEF ReadsAll
  <2> QED BY <2>1, <2>2 DEF Right
<1>6. CASE /\ ~Ends
           /\ ~(IsEntry(out[1]) /\ out[1].name = path[depth + 1])
           /\ Read(file[current], 1)
           /\ UNCHANGED <<volume, g_CWD, file, command, at, path, depth, current, got, answer,
                          failed>>
  <2>1. ASSUME ~failed' PROVE Good'
    <3>1. Good /\ at \in Reading
      BY <1>1, <1>2, <1>6, <2>1 DEF Reading
    <3>2. Made("search", path[depth + 1], Here, Held, file[current].Position, got)
      BY <1>1, <1>4, <1>6, <3>1, PassedIsRight
    <3>3. /\ file[current] \in FilesOn(volume)
          /\ Reader(volume, current, Here, file[current], 0)
          /\ Here # NoEntry /\ (current = ROOT_DIR_HANDLE => depth = 0)
      BY <1>1, <3>1, DoneReading
    <3>4. want' = Clipped(file[current], Asked("search")) /\ out' = <<>>
      BY <1>6 DEF Read, Asked
    <3>5. at' = "search" /\ at' \in Reading /\ file'[current] = file[current] /\ got' = got
      BY <1>1, <1>6 DEF Reading
    <3> QED BY <1>6, <3>2, <3>3, <3>4, <3>5, AsksGood
  <2>2. ReadsAll'
    BY <1>1, <1>6 DEF ReadsAll
  <2> QED BY <2>1, <2>2 DEF Right
<1> QED BY <1>3, <1>5, <1>6 DEF Search

LEMMA EnterGood ==
    ASSUME Shape, Course, HandlesReturned, Right, Enter
    PROVE  Right'
<1> DEFINE e == out[1]
           free == {h \in Handle : ~file[h].Opened}
<1>1. at = "enter" /\ depth < Len(path) /\ IsEntry(e) /\ Len(out) = 1
  <2>1. at = "enter"
    BY DEF Enter
  <2> QED BY <2>1 DEF Course
<1>2. volume \in Volumes /\ e \in Some(volume) /\ NoneOpen /\ failed \in BOOLEAN
      /\ depth \in 0 .. Len(path)
  <2>1. out \in Seq(Some(volume)) /\ volume \in Volumes /\ failed \in BOOLEAN
        /\ depth \in 0 .. Len(path)
    BY DEF Shape
  <2>2. e \in Some(volume)
    BY <1>1, <2>1
  <2> QED BY <1>1, <2>1, <2>2, OthersClosed
<1>3. e.dir \in BOOLEAN /\ e.first \in DOMAIN volume.next \cup {0} /\ e.size \in Nat
  BY <1>1, <1>2, EntryIs
<1>4. ~failed => e = Steps(volume, path)[depth + 1] /\ e # NoEntry /\ got = <<>>
  BY <1>1 DEF Right, Good, Entering
<1> HIDE DEF e
<1>5. /\ OpenedOn(e) \in FilesOn(volume)
      /\ Begins(OpenedOn(e), e.dir, e.size, e.first, Closed)
  BY <1>2, <1>3, OpenedOnIs
<1>6. free # {}
  <2>1. 0 \in Handle
    BY Sizes DEF Handle
  <2> QED BY <1>2, <2>1 DEF NoneOpen
<1>7. ASSUME NEW h \in free, NEW l \in Loads(OpenedOn(e)), l.ok, failed' = (failed \/ ~l.ok),
             file' = [file EXCEPT ![h] = l.file], current' = h, depth' = depth + 1,
             at' = "walk", UNCHANGED <<volume, g_CWD, path, got>>
      PROVE  Right'
  <2>1. h \in Handles /\ h # ROOT_DIR_HANDLE
    BY RootIsNoHandle DEF Handles
  <2>2. file'[h] = l.file
    BY <1>7, <2>1 DEF Shape
  <2>3. ~failed' => ~failed
    BY <1>2, <1>7, Zenon
  <2>4. AtStart(volume, e, l.file)
    <3> DEFINE f == OpenedOn(e)
               g == l.file
    <3>1. /\ Kept(f, g) /\ Placed(f, g)
          /\ g.Buffer = SectorOn(volume, f.CurrentCluster, f.CurrentSectorInCluster)
      BY <1>2, <1>5, <1>7, LoadsAre
    <3>2. Closed.Position = 0 /\ Closed.CurrentSectorInCluster = 0
      BY <1>2, ClosedIs
    <3> HIDE DEF f, g
    <3>3. Begins(f, e.dir, e.size, e.first, Closed)
      BY <1>5 DEF f
    <3>4. AtStart(volume, e, g)
      BY <3>1, <3>2, <3>3, Zenon DEF Begins, Kept, Placed, AtStart
    <3> QED BY <3>4 DEF g
  <2>5. ASSUME ~failed' PROVE Good'
    <3>1. e = Steps(volume, path)[depth + 1] /\ e # NoEntry /\ got = <<>>
      BY <1>4, <2>3, <2>5
    <3>2. Here' = e
      BY <1>7, <3>1 DEF Here
    <3>3. AtStart(volume', Here', file'[current'])
      BY <1>7, <2>2, <2>4, <3>2
    <3>4. Follows'
      BY <1>7, <2>1, <3>1, <3>2, <3>3 DEF Follows, Reading
    <3> QED BY <1>7, <3>4 DEF Good, Entering, ReadSoFar, Reading
  <2>6. ReadsAll'
    BY <1>7 DEF ReadsAll
  <2> QED BY <2>5, <2>6 DEF Right
<1>8. ASSUME NEW l \in Loads(OpenedOn(e)), ~l.ok, failed' = (failed \/ ~l.ok), Idle(FALSE)
      PROVE  Right'
  <2>1. failed' = TRUE
    BY <1>8, Zenon
  <2>2. ReadsAll' /\ (~failed' => Good')
    BY <1>8, <2>1, IdleReads
  <2> QED BY <2>2 DEF Right
<1> QED BY <1>6, <1>7, <1>8, Zenon DEF Enter, OpenedOn, e

LEMMA OpenedGood ==
    ASSUME Shape, Course, Right, Opened
    PROVE  Right'
<1>1. at = "walk" /\ depth = Len(path) /\ command \in Commands
      /\ volume \in Volumes /\ file[current] \in FilesOn(volume)
  BY DEF Opened, Shape
<1>2. ~failed => /\ AtStart(volume, Here, file[current]) /\ got = <<>>
                 /\ Here # NoEntry /\ (current = ROOT_DIR_HANDLE => depth = 0)
  BY <1>1 DEF Right, Good, Follows
<1>3. GoodEntry(volume, Here) /\ LookUp(path) = Here
  BY <1>1, HereIsGood DEF LookUp, Here
<1>4. ~failed => file[current].IsDirectory = Here.dir
  BY <1>2 DEF AtStart
<1>5. CASE /\ Reads
           /\ at' = command
           /\ Read(file[current], Asks)
           /\ UNCHANGED <<volume, g_CWD, file, command, path, depth, current, got, answer, failed>>
  <2>1. command \in {"cat", "print", "ls"}
    BY <1>5 DEF Reads
  <2>2. Asks = Asked(command)
    BY DEF Asks, Asked
  <2>3. at' \in Reading /\ at' # "idle"
    BY <1>5, <2>1 DEF Reading
  <2>4. ASSUME ~failed' PROVE Good'
    <3>1. at' = "ls" => Here.dir
      BY <1>4, <1>5, <2>4 DEF Reads
    <3>2. want' = Clipped(file[current], Asked(at')) /\ out' = <<>>
      BY <1>5, <2>2 DEF Read
    <3> QED BY <1>1, <1>2, <1>5, <2>3, <2>4, <3>1, <3>2, BeginsGood
  <2>5. ReadsAll'
    BY <2>3 DEF ReadsAll
  <2> QED BY <2>4, <2>5 DEF Right
<1>6. CASE ~Reads /\ Idle(TRUE) /\ UNCHANGED <<got, failed>>
  <2>1. ASSUME ~failed' PROVE got' = Result(volume, command, Here)
    <3>1. command # "cat" /\ command # "print" /\ (command = "ls" => ~Here.dir)
      BY <1>4, <1>6, <2>1 DEF Reads
    <3>2. Result(volume, command, Here) = <<>>
      BY <3>1 DEF Result
    <3> QED BY <1>2, <1>6, <2>1, <3>2
  <2>2. ReadsAll' /\ (~failed' => Good')
    BY <1>2, <1>3, <1>6, <2>1, IdleReads
  <2> QED BY <2>2 DEF Right
<1> QED BY <1>5, <1>6 DEF Opened

\* Sequences of the same length with the same elements are the same.
LEMMA SameSeq ==
    ASSUME NEW S, NEW T, NEW a \in Seq(S), NEW b \in Seq(T), Len(a) = Len(b),
           \A i \in 1 .. Len(b) : a[i] = b[i]
    PROVE  a = b
OBVIOUS

\* g are the first n pieces of s.
UpTo(g, s, n) == Len(g) = n /\ \A i \in 1 .. n : g[i] = s[i]

\* o are the pieces of s up to the n-th.
EndsAt(o, s, n) == Len(o) <= n /\ \A i \in 1 .. Len(o) : o[i] = s[(n - Len(o)) + i]

\* What cat prints next belongs behind what it has printed.
LEMMA MadeMore ==
    ASSUME NEW S, NEW g \in Seq(S), NEW o \in Seq(S), NEW s, NEW n \in Nat,
           EndsAt(o, s, n), UpTo(g, s, n - Len(o))
    PROVE  UpTo(g \o o, s, n)
<1> DEFINE c == g \o o
           l == Len(o)
           m == Len(g)
<1>1. l \in Nat /\ m \in Nat /\ Joins(g, o, c)
  BY Joined
<1>2. /\ Len(c) = m + l /\ (\A i \in 1 .. m : c[i] = g[i]) /\ \A i \in 1 .. l : c[m + i] = o[i]
  BY <1>1 DEF Joins
<1>3. m = n - l /\ (\A i \in 1 .. m : g[i] = s[i]) /\ \A i \in 1 .. l : o[i] = s[m + i]
  BY DEF UpTo, EndsAt
<1> HIDE DEF c, l, m
<1>4. Len(c) = n
  BY <1>1, <1>2, <1>3
<1>5. ASSUME NEW i \in 1 .. n PROVE c[i] = s[i]
  <2>1. CASE i <= m
    <3>1. i \in 1 .. m
      BY <1>1, <2>1
    <3> QED BY <1>2, <1>3, <3>1
  <2>2. CASE i > m
    <3>1. i - m \in 1 .. l /\ m + (i - m) = i
      BY <1>1, <1>3, <2>2
    <3>2. c[m + (i - m)] = s[m + (i - m)]
      BY <1>2, <1>3, <3>1
    <3> QED BY <3>1, <3>2
  <2> QED BY <1>1, <2>1, <2>2
<1> QED BY <1>4, <1>5 DEF UpTo, c

LEMMA CatGood ==
    ASSUME Shape, Course, Right, Cat
    PROVE  Right'
<1> DEFINE n == file[current].Position
           s == Held
<1>1. /\ at = "cat" /\ want = 0 /\ command = "cat" /\ depth = Len(path) /\ at \in Reading
      /\ got \in Seq(Some(volume)) /\ out \in Seq(Some(volume))
  BY DEF Cat, Course, Shape, Reading
<1>2. LookUp(path) = Here
  BY <1>1 DEF LookUp, Here
<1>3. ASSUME ~failed
      PROVE  /\ volume \in Volumes /\ file[current] \in FilesOn(volume) /\ n \in Nat
             /\ s \in Seq(PieceOn(volume)) /\ Len(s) \in Nat /\ Len(out) \in Nat
             /\ Reader(volume, current, Here, file[current], 0)
             /\ Here # NoEntry /\ (current = ROOT_DIR_HANDLE => depth = 0)
             /\ Brought("cat", current, s, n, 0, out)
             /\ n - Len(out) <= Len(s) => UpTo(got, s, n - Len(out))
  <2>1. Good
    BY <1>3 DEF Right
  <2>2. Made("cat", path[depth + 1], Here, Held, n - Len(out), got)
    BY <1>1, <2>1, DoneReading
  <2>3. n - Len(out) <= Len(s) => UpTo(got, s, n - Len(out))
    BY <2>2, Zenon DEF Made, UpTo
  <2> QED BY <1>1, <2>1, <2>3, DoneReading
<1>4. CASE /\ got' = got \o out
           /\ Read(file[current], CAT)
           /\ UNCHANGED <<volume, g_CWD, file, command, at, path, depth, current, answer, failed>>
  <2>1. ASSUME ~failed' PROVE Good'
    <3>1. ~failed
      BY <1>4, <2>1
    <3>2. n <= Len(s) => UpTo(got', s, n)
      <4> SUFFICES ASSUME n <= Len(s)
                   PROVE  UpTo(got \o out, s, n)
        BY <1>4
      <4>1. EndsAt(out, s, n)
        BY <1>3, <3>1 DEF Brought, EndsAt
      <4>2. n - Len(out) <= Len(s) /\ n \in Nat
        BY <1>3, <3>1
      <4>3. UpTo(got, s, n - Len(out))
        BY <1>3, <3>1, <4>2
      <4> HIDE DEF n, s
      <4> QED BY <1>1, <4>1, <4>2, <4>3, MadeMore
    <3>3. Made("cat", path[depth + 1], Here, Held, n, got')
      BY <3>2 DEF Made, UpTo
    <3>4. want' = Clipped(file[current], Asked("cat")) /\ out' = <<>>
      BY <1>4 DEF Read, Asked
    <3>5. at' = "cat" /\ at' \in Reading /\ file'[current] = file[current]
      BY <1>1, <1>4
    <3> QED BY <1>3, <1>4, <3>1, <3>3, <3>4, <3>5, AsksGood
  <2>2. ReadsAll'
    BY <1>1, <1>4 DEF ReadsAll
  <2> QED BY <2>1, <2>2 DEF Right
<1>5. CASE out = <<>> /\ Idle(TRUE) /\ UNCHANGED <<got, failed>>
  <2>1. ASSUME ~failed PROVE got = s
    <3>1. Len(out) = 0
      BY <1>5, NothingIn
    <3>2. n = Len(s)
      BY <1>3, <2>1, <3>1, NoneIs
    <3>3. n - Len(out) = n /\ n <= Len(s)
      BY <1>3, <2>1, <3>1, <3>2
    <3>4. Len(got) = Len(s) /\ \A i \in 1 .. Len(s) : got[i] = s[i]
      BY <1>3, <2>1, <3>2, <3>3 DEF UpTo
    <3> HIDE DEF s
    <3> QED BY <1>1, <1>3, <2>1, <3>4, SameSeq
  <2>2. Result(volume, command, Here) = s
    BY <1>1 DEF Result, Held
  <2>3. ~failed' => LookUp(path) # NoEntry /\ got' = Result(volume, command, LookUp(path))
    BY <1>2, <1>3, <1>5, <2>1, <2>2
  <2>4. ReadsAll' /\ (~failed' => Good')
    BY <1>5, <2>3, IdleReads
  <2> QED BY <2>4 DEF Right
<1> QED BY <1>4, <1>5 DEF Cat

\* ls has listed the entries in front of a place.
LEMMA ListedSoFar ==
    ASSUME Shape, Course, Good, at = "ls", want = 0
    PROVE  LET n == file[current].Position
               s == Held
           IN  /\ Here.dir /\ s \in Seq(PieceOn(volume)) /\ Len(s) \in Nat /\ n \in Nat
               /\ Len(out) \in Nat /\ Brought("ls", current, s, n, 0, out)
               /\ \A k \in 1 .. Len(s) : k <= n - Len(out) => s[k] # Never
               /\ n - Len(out) <= Len(s) => got = Lists(s)[n - Len(out)]
<1> DEFINE m == file[current].Position - Len(out)
<1>1. Made("ls", path[depth + 1], Here, Held, m, got)
  BY DoneReading DEF Reading
<1>2. /\ Here.dir /\ (\A k \in 1 .. Len(Held) : k <= m => Held[k] # Never)
      /\ m <= Len(Held) => got = Lists(Held)[m]
  <2> HIDE DEF m
  <2> QED BY <1>1, Zenon DEF Made
<1> QED BY <1>2, DoneReading DEF Reading

\* One more is listed.
LEMMA ListedMore ==
    ASSUME Shape, Course, Good, at = "ls", want = 0, Len(out) # 0, out[1] # Never,
           got' = IF IsEntry(out[1]) THEN Append(got, out[1]) ELSE got
    PROVE  Made("ls", path[depth + 1], Here, Held, file[current].Position, got')
<1> DEFINE n == file[current].Position
           s == Held
<1>1. /\ Here.dir /\ s \in Seq(PieceOn(volume)) /\ Len(s) \in Nat /\ n \in Nat
      /\ Len(out) \in Nat /\ Brought("ls", current, s, n, 0, out)
      /\ \A k \in 1 .. Len(s) : k <= n - Len(out) => s[k] # Never
      /\ n - Len(out) <= Len(s) => got = Lists(s)[n - Len(out)]
  BY ListedSoFar
<1> HIDE DEF n, s
<1>2. /\ n - Len(out) = n - 1
      /\ \/ n \in 1 .. Len(s) /\ out[1] = s[n]
         \/ n > Len(s)
  BY <1>1, LastIs
<1>3. ASSUME NEW k \in 1 .. Len(s), k <= n PROVE s[k] # Never
  <2>1. CASE k <= n - 1
    BY <1>1, <1>2, <2>1
  <2>2. CASE k = n
    BY <1>2, <2>2
  <2> QED BY <1>1, <1>3, <2>1, <2>2
<1>4. n <= Len(s) => got' = Lists(s)[n]
  <2> SUFFICES ASSUME n <= Len(s) PROVE got' = Lists(s)[n]
    OBVIOUS
  <2>1. n \in 1 .. Len(s) /\ out[1] = s[n]
    BY <1>1, <1>2
  <2>2. got = Lists(s)[n - 1]
    BY <1>1, <1>2, <2>1
  <2>3. \A i \in 1 .. n : s[i] # Never
    BY <1>1, <1>3, <2>1
  <2>4. Lists(s)[n] = IF IsEntry(s[n]) THEN Append(Lists(s)[n - 1], s[n]) ELSE Lists(s)[n - 1]
    BY <1>1, <2>1, <2>3, ListsNext
  <2> QED BY <2>1, <2>2, <2>4
<1>5. Made("ls", path[depth + 1], Here, s, n, got')
  BY <1>1, <1>3, <1>4 DEF Made
<1> QED BY <1>5 DEF n, s

\* At the end everything is listed.
LEMMA ListedAll ==
    ASSUME Shape, Course, Good, at = "ls", want = 0, Ends
    PROVE  got = Lists(Held)[Len(Held)] /\ Here.dir
<1> DEFINE n == file[current].Position
           s == Held
<1>1. /\ Here.dir /\ s \in Seq(PieceOn(volume)) /\ Len(s) \in Nat /\ n \in Nat
      /\ Len(out) \in Nat /\ Brought("ls", current, s, n, 0, out)
      /\ \A k \in 1 .. Len(s) : k <= n - Len(out) => s[k] # Never
      /\ n - Len(out) <= Len(s) => got = Lists(s)[n - Len(out)]
  BY ListedSoFar
<1>2. out \in Seq(Some(volume))
  BY DEF Shape
<1> HIDE DEF n, s
<1>3. CASE Len(out) = 0
  <2>1. n = Len(s)
    BY <1>1, <1>3, NoneIs
  <2>2. n - Len(out) = Len(s) /\ n - Len(out) <= Len(s)
    BY <1>1, <1>3, <2>1
  <2> QED BY <1>1, <2>2 DEF s
<1>4. CASE Len(out) # 0
  <2>1. /\ Len(out) = 1 /\ n - Len(out) = n - 1 /\ n - 1 \in Nat
        /\ \/ n \in 1 .. Len(s) /\ out[1] = s[n]
           \/ n > Len(s) /\ \E k \in 1 .. Len(s) : k <= n - 1 /\ out[1] = s[k]
    BY <1>1, <1>4, LastIs
  <2>2. out[1] = Never
    <3>1. 1 \in DOMAIN out
      BY <1>2, <2>1
    <3> QED BY <3>1 DEF Ends
  <2>3. \A k \in 1 .. Len(s) : k <= n - 1 => s[k] # Never
    BY <1>1, <2>1
  <2>4. n \in 1 .. Len(s) /\ s[n] = Never
    BY <2>1, <2>2, <2>3
  <2>5. n - 1 \in 0 .. Len(s) /\ (n - 1) + 1 = n /\ n - 1 <= Len(s)
    BY <1>1, <2>4
  <2>6. Lists(s)[Len(s)] = Lists(s)[n - 1]
    BY <1>1, <2>4, <2>5, ListsEnd
  <2>7. got = Lists(s)[n - 1]
    BY <1>1, <2>1, <2>5
  <2> QED BY <1>1, <2>6, <2>7 DEF s
<1> QED BY <1>3, <1>4

LEMMA ListDirGood ==
    ASSUME Shape, Course, Right, ListDir
    PROVE  Right'
<1>1. /\ at = "ls" /\ want = 0 /\ command = "ls" /\ depth = Len(path) /\ at \in Reading
      /\ out \in Seq(Some(volume)) /\ Len(out) <= 1 /\ Len(out) \in Nat
  <2>1. at = "ls" /\ want = 0
    BY DEF ListDir
  <2> QED BY <2>1 DEF Course, Shape, Reading
<1>2. ~failed => Good
  BY DEF Right
<1>3. CASE /\ ~Ends
           /\ got' = IF IsEntry(out[1]) THEN Append(got, out[1]) ELSE got
           /\ Read(file[current], 1)
           /\ UNCHANGED <<volume, g_CWD, file, command, at, path, depth, current, answer, failed>>
  <2>1. Len(out) # 0 /\ out[1] # Never
    <3>1. PICK i \in DOMAIN out : out[i] # Never
      BY <1>3 DEF Ends
    <3>2. i = 1 /\ Len(out) # 0
      BY <1>1, <3>1
    <3> QED BY <3>1, <3>2
  <2>2. ASSUME ~failed' PROVE Good'
    <3>1. Good
      BY <1>2, <1>3, <2>2
    <3>2. Made("ls", path[depth + 1], Here, Held, file[current].Position, got')
      BY <1>1, <1>3, <2>1, <3>1, ListedMore
    <3>3. /\ file[current] \in FilesOn(volume)
          /\ Reader(volume, current, Here, file[current], 0)
          /\ Here # NoEntry /\ (current = ROOT_DIR_HANDLE => depth = 0)
      BY <1>1, <3>1, DoneReading
    <3>4. want' = Clipped(file[current], Asked("ls")) /\ out' = <<>>
      BY <1>3 DEF Read, Asked
    <3>5. at' = "ls" /\ at' \in Reading /\ file'[current] = file[current]
      BY <1>1, <1>3
    <3> QED BY <1>3, <3>2, <3>3, <3>4, <3>5, AsksGood
  <2>3. ReadsAll'
    BY <1>1, <1>3 DEF ReadsAll
  <2> QED BY <2>2, <2>3 DEF Right
<1>4. CASE Ends /\ Idle(TRUE) /\ UNCHANGED <<got, failed>>
  <2>1. LookUp(path) = Here
    BY <1>1 DEF LookUp, Here
  <2>2. ASSUME ~failed'
        PROVE  LookUp(path) # NoEntry /\ got' = Result(volume, command, LookUp(path))
    <3>1. Good
      BY <1>2, <1>4, <2>2
    <3>2. got = Lists(Held)[Len(Held)] /\ Here.dir
      BY <1>1, <1>4, <3>1, ListedAll
    <3>3. Here # NoEntry
      BY <1>1, <3>1, DoneReading
    <3>4. Result(volume, command, Here) = Lists(Held)[Len(Held)]
      BY <1>1, <3>2 DEF Result, Held
    <3> QED BY <1>4, <2>1, <3>2, <3>3, <3>4
  <2>3. ReadsAll' /\ (~failed' => Good')
    BY <1>4, <2>2, IdleReads
  <2> QED BY <2>3 DEF Right
<1> QED BY <1>3, <1>4 DEF ListDir

LEMMA PrintAppendGood ==
    ASSUME Shape, Course, Right, PrintAppend
    PROVE  Right'
<1> DEFINE n == file[current].Position
           s == Held
<1>1. /\ at = "print" /\ want = 0 /\ command = "print" /\ depth = Len(path) /\ at \in Reading
      /\ out \in Seq(Some(volume)) /\ Idle(TRUE) /\ got' = out /\ failed' = failed
  <2>1. at = "print" /\ want = 0 /\ Idle(TRUE) /\ got' = out /\ failed' = failed
    BY DEF PrintAppend
  <2> QED BY <2>1 DEF Course, Shape, Reading
<1>2. LookUp(path) = Here
  BY <1>1 DEF LookUp, Here
<1>3. ASSUME ~failed'
      PROVE  LookUp(path) # NoEntry /\ got' = Result(volume, command, LookUp(path))
  <2>1. Good
    BY <1>1, <1>3 DEF Right
  <2>2. /\ Here # NoEntry /\ s \in Seq(PieceOn(volume)) /\ Len(s) \in Nat /\ n \in Nat
        /\ Len(out) \in Nat /\ Brought("print", current, s, n, 0, out)
        /\ Made("print", path[depth + 1], Here, s, n - Len(out), got)
    BY <1>1, <2>1, DoneReading
  <2>3. n <= Len(s)
    BY <1>1, <2>1 DEF Good, ReadSoFar
  <2> DEFINE l == Len(out)
             z == Len(s)
             m == Min({EXISTING, z})
  <2>4. n - l = 0 /\ l \in Nat /\ z \in Nat
    BY <2>2 DEF Made
  <2>5. /\ l + 0 <= EXISTING /\ (l + 0 = EXISTING \/ n + 0 = z)
        /\ n <= z => \A i \in 1 .. l : out[i] = s[(n - l) + i]
    BY <2>2 DEF Brought, Asked
  <2>6. EXISTING \in Nat
    BY Sizes
  <2>7. Result(volume, command, Here) = SubSeq(s, 1, m)
    BY <1>1 DEF Result, Held
  <2> HIDE DEF n, s, l, m
  <2>8. m = IF EXISTING <= z THEN EXISTING ELSE z
    <3> HIDE DEF z
    <3> QED BY <2>4, <2>6, MinTwo DEF m
  <2>9. l = m /\ l <= z /\ n = l
    <3> HIDE DEF z
    <3> QED BY <2>2, <2>3, <2>4, <2>5, <2>6, <2>8 DEF z
  <2>10. \A i \in 1 .. l : out[i] = s[i]
    <3>1. \A i \in 1 .. l : (n - l) + i = i
      BY <2>4
    <3> QED BY <2>3, <2>5, <3>1
  <2>11. /\ SubSeq(s, 1, l) \in Seq(PieceOn(volume)) /\ Len(SubSeq(s, 1, l)) = l
         /\ \A i \in 1 .. l : SubSeq(s, 1, l)[i] = s[i]
    BY <2>2, <2>4, <2>9
  <2>12. out = SubSeq(s, 1, l)
    <3> DEFINE b == SubSeq(s, 1, l)
    <3> HIDE DEF b
    <3>1. Len(out) = Len(b) /\ \A i \in 1 .. Len(b) : out[i] = b[i]
      BY <2>10, <2>11 DEF b, l
    <3>2. b \in Seq(PieceOn(volume))
      BY <2>11 DEF b
    <3> QED BY <1>1, <3>1, <3>2, SameSeq DEF b
  <2> QED BY <1>1, <1>2, <2>2, <2>7, <2>9, <2>12
<1>4. ReadsAll' /\ (~failed' => Good')
  BY <1>1, <1>3, IdleReads
<1> QED BY <1>4 DEF Right

--------------------------------------------------------------------------------
(* The theorems.                                                              *)

\* A handle that reads an entry is sound.
LEMMA ReaderIsSound ==
    ASSUME volume \in Volumes, NEW e, GoodEntry(volume, e), NEW h, NEW f \in FilesOn(volume),
           NEW w \in Int, w >= 0, Reader(volume, h, e, f, w)
    PROVE  LET chain == Chain(f.FirstCluster)
               k == f.Position \div ClusterSize
           IN  /\ f.Opened
               /\ f.IsDirectory \/ f.Position <= f.Size
               /\ IF k >= Len(chain) THEN f.CurrentCluster \in {EOC, 0}
                  ELSE /\ f.CurrentCluster = chain[k + 1]
                       /\ f.CurrentSectorInCluster
                             = (f.Position % ClusterSize) \div SECTOR_SIZE
                       /\ f.Buffer = SectorOf(f.CurrentCluster, f.CurrentSectorInCluster)
<1> DEFINE q == ChainOf(volume, f.FirstCluster)
           k == f.Position \div ClusterSize
           i == (f.Position % ClusterSize) \div SECTOR_SIZE
<1>1. /\ f.Opened /\ f.IsDirectory = e.dir /\ f.FirstCluster = e.first
      /\ Sized(h, e, f, ContentsOf(volume, e), w) /\ OnPlace(volume, h, f)
  BY DEF Reader
<1>2. f.Position \in Nat /\ f.Size \in Nat
  BY DEF FilesOn
<1>3. f.IsDirectory \/ f.Position <= f.Size
  <2>1. ~e.dir => f.Position + w <= f.Size
    BY <1>1 DEF Sized
  <2> QED BY <1>1, <1>2, <2>1
<1>4. Len(q) \in Nat
  BY <1>1, ChainIs DEF Chained, GoodEntry
<1>5. IF k >= Len(q) THEN f.CurrentCluster \in {EOC, 0}
      ELSE /\ f.CurrentCluster = q[k + 1] /\ f.CurrentSectorInCluster = i
           /\ f.Buffer = SectorOn(volume, f.CurrentCluster, f.CurrentSectorInCluster)
  <2>1. CASE \E c, s, j : InSector(volume, f, c, s, j)
    <3>1. PICK c, s, j : InSector(volume, f, c, s, j)
      BY <2>1
    <3>2. /\ Sits(f.Position, c, s, j) /\ c < Len(q)
          /\ f.CurrentCluster = q[c + 1] /\ f.CurrentSectorInCluster = s
          /\ f.Buffer = SectorOn(volume, q[c + 1], s)
      BY <3>1 DEF InSector
    <3>3. k = c /\ i = s /\ c \in Nat
      BY <3>2, SitsIs DEF Sits
    <3> HIDE DEF q, k, i
    <3>4. ~(k >= Len(q))
      BY <1>4, <3>2, <3>3
    <3> QED BY <3>2, <3>3, <3>4
  <2>2. CASE \E j \in 0 .. SECTOR_SIZE - 1 : Behind(volume, h, f, j)
    <3>1. PICK j \in 0 .. SECTOR_SIZE - 1 : Behind(volume, h, f, j)
      BY <2>2
    <3>2. f.Position = Len(q) * ClusterSize + j /\ f.CurrentCluster \in {EOC, 0}
      BY <3>1 DEF Behind
    <3>3. j \in Nat /\ j < ClusterSize /\ ClusterSize \in Nat
      BY Sizes
    <3>4. k = Len(q)
      <4> DEFINE n == Len(q)
      <4>1. (n * ClusterSize + j) \div ClusterSize = n
        <5> HIDE DEF n
        <5>1. n \in Nat
          BY <1>4 DEF n
        <5> QED BY <3>3, <5>1, DivideBack
      <4> QED BY <3>2, <4>1
    <3> HIDE DEF q, k
    <3> QED BY <1>4, <3>2, <3>4
  <2> QED BY <1>1, <2>1, <2>2 DEF OnPlace
<1>6. f.Buffer = SectorOn(volume, f.CurrentCluster, f.CurrentSectorInCluster)
         => f.Buffer = SectorOf(f.CurrentCluster, f.CurrentSectorInCluster)
  BY DEF SectorOn, SectorOf, Cluster
<1>7. Chain(f.FirstCluster) = q
  BY DEF Chain
<1> HIDE DEF q, k, i
<1>8. IF k >= Len(q) THEN f.CurrentCluster \in {EOC, 0}
      ELSE /\ f.CurrentCluster = q[k + 1] /\ f.CurrentSectorInCluster = i
           /\ f.Buffer = SectorOf(f.CurrentCluster, f.CurrentSectorInCluster)
  BY <1>5, <1>6
<1> QED BY <1>1, <1>3, <1>7, <1>8 DEF k, i

\* The invariant holds a sound handle.
LEMMA HandlesAreSound ==
    ASSUME IInv
    PROVE  HandlesSound
<1>1. Shape /\ Course /\ HandlesReturned /\ (~failed => Good)
  BY DEF IInv, Right
<1>2. ASSUME at \in {"walk", "search", "cat", "ls", "print"}, ~failed
      PROVE  \E w \in Int : w >= 0 /\ Reader(volume, current, Here, file[current], w)
  <2>1. GoodEntry(volume, Here) /\ volume \in Volumes /\ want \in Int
    BY <1>1, HereIsGood DEF Shape
  <2>2. CASE at = "walk"
    <3>1. AtStart(volume, Here, file[current])
      BY <1>1, <1>2, <2>2 DEF Good, Follows
    <3>2. Reader(volume, current, Here, file[current], 0)
      BY <2>1, <3>1, StartReads
    <3> QED BY <3>2
  <2>3. CASE at # "walk"
    <3>1. at \in Reading
      BY <1>2, <2>3 DEF Reading
    <3>2. Reader(volume, current, Here, file[current], want)
      BY <1>1, <1>2, <3>1 DEF Good, Follows
    <3>3. want >= 0
      BY <1>1, <1>2, <3>1 DEF Good, ReadSoFar, Brought
    <3> QED BY <2>1, <3>2, <3>3
  <2> QED BY <2>2, <2>3
<1>3. volume \in Volumes /\ GoodEntry(volume, Here) /\ file[current] \in FilesOn(volume)
  BY <1>1, HereIsGood DEF Shape
<1>4. HandleSound
  BY <1>2, <1>3, ReaderIsSound DEF HandleSound
<1> QED BY <1>1, <1>4 DEF HandlesSound

\* The initial states.
LEMMA InitIInv ==
    ASSUME Init
    PROVE  IInv
BY InitFrame, InitGood DEF IInv

\* Every step keeps the invariant.
LEMMA NextIInv ==
    ASSUME IInv, [Next]_vars
    PROVE  IInv'
<1>1. Shape /\ Course /\ HandlesReturned /\ Right
  BY DEF IInv
<1>2. CASE ReadPiece
  BY <1>1, <1>2, ReadPieceFrame, ReadPieceRight DEF IInv
<1>3. CASE Stray
  BY <1>1, <1>3, StrayFrame, StrayGood DEF IInv
<1>4. CASE Walk
  BY <1>1, <1>4, WalkFrame, WalkGood DEF IInv
<1>5. CASE Search
  BY <1>1, <1>5, SearchFrame, SearchGood DEF IInv
<1>6. CASE Enter
  BY <1>1, <1>6, EnterFrame, EnterGood DEF IInv
<1>7. CASE Opened
  BY <1>1, <1>7, OpenedFrame, OpenedGood DEF IInv
<1>8. CASE Cat
  BY <1>1, <1>8, CatFrame, CatGood DEF IInv
<1>9. CASE ListDir
  BY <1>1, <1>9, ListDirFrame, ListDirGood DEF IInv
<1>10. CASE PrintAppend
  BY <1>1, <1>10, PrintAppendFrame, PrintAppendGood DEF IInv
<1>11. CASE CdRoot
  <2>1. at = "idle" /\ g_CWD' \in Seq(Names)
    BY <1>11 DEF CdRoot
  <2>2. Shape' /\ Course' /\ HandlesReturned'
    BY <1>1, <1>11, <2>1, CdFrame DEF CdRoot
  <2> QED BY <1>1, <1>11, <2>2, CdGood DEF IInv, CdRoot
<1>12. CASE CdUp
  <2>1. at = "idle" /\ g_CWD \in Seq(Names) /\ g_CWD # <<>> /\ g_CWD' = Front(g_CWD)
    BY <1>1, <1>12 DEF CdUp, Shape
  <2>2. g_CWD' \in Seq(Names)
    <3>1. g_CWD' = SubSeq(g_CWD, 1, Len(g_CWD) - 1)
      BY <2>1 DEF Front
    <3>2. Len(g_CWD) - 1 \in Nat /\ Len(g_CWD) - 1 <= Len(g_CWD)
      BY <2>1
    <3> QED BY <2>1, <3>1, <3>2
  <2>3. Shape' /\ Course' /\ HandlesReturned'
    BY <1>1, <1>12, <2>1, <2>2, CdFrame DEF CdUp
  <2> QED BY <1>1, <1>12, <2>3, CdGood DEF IInv, CdUp
<1>13. ASSUME NEW c \in Commands, NEW arg \in Args, FAT_Open(c, arg)
       PROVE  IInv'
  BY <1>1, <1>13, FAT_OpenFrame, FAT_OpenGood DEF IInv
<1>14. CASE Changed
  BY <1>1, <1>14, ChangedFrame, ChangedGood DEF IInv
<1>15. CASE UNCHANGED vars
  <2>1. /\ volume' = volume /\ g_CWD' = g_CWD /\ file' = file /\ command' = command
        /\ at' = at /\ path' = path /\ depth' = depth /\ current' = current /\ want' = want
        /\ out' = out /\ got' = got /\ answer' = answer /\ failed' = failed
    BY <1>15 DEF vars
  <2>2. Shape' /\ Course' /\ HandlesReturned'
    BY <1>1, <2>1 DEF Shape, Course, HandlesReturned
  <2>3. Here' = Here /\ Held' = Held
    BY <2>1 DEF Here, Held
  <2>4. ReadsAll'
    BY <1>1, <2>1 DEF Right, ReadsAll, LookUp, Listed, Contents
  <2>5. Follows => Follows'
    BY <2>1, <2>3 DEF Follows
  <2>6. Entering => Entering'
    BY <2>1 DEF Entering
  <2>7. ReadSoFar => ReadSoFar'
    BY <2>1, <2>3 DEF ReadSoFar
  <2> QED BY <1>1, <2>1, <2>2, <2>4, <2>5, <2>6, <2>7 DEF IInv, Right, Good
<1> QED BY <1>2, <1>3, <1>4, <1>5, <1>6, <1>7, <1>8, <1>9, <1>10, <1>11, <1>12, <1>13, <1>14,
          <1>15
        DEF Next, Step

\* The invariant: where the command is, what its handle is open on and stands at, what a
\* read has brought, and what the command has made of the pieces before that.
THEOREM FileInvariance == Spec => []IInv
<1>1. Init => IInv
  BY InitIInv
<1>2. IInv /\ [Next]_vars => IInv'
  BY NextIInv
<1> QED BY <1>1, <1>2, PTL DEF Spec

\* In every state the handle in use has the cluster, the sector and the buffer of its
\* position, and every other handle has been given back (fat.c:226-433).
THEOREM HandlesStaySound == Spec => []HandlesSound
<1>1. IInv => HandlesSound
  BY HandlesAreSound
<1> QED BY <1>1, FileInvariance, PTL

\* A command that no read failed makes what the volume holds: cat the contents of the file,
\* ls the entries of the directory, "print >>" the beginning; and only what is not there
\* is missing (fat.c:311-433, 477-559).
THEOREM AllIsRead == Spec => []ReadsAll
<1>1. IInv => ReadsAll
  BY DEF IInv, Right
<1> QED BY <1>1, FileInvariance, PTL

\* A command that has opened a directory by cd, or found that it is none.
LEMMA OpenedCwd ==
    ASSUME Shape, Right, Opened
    PROVE  CwdFound
<1>1. at = "walk" /\ depth = Len(path) /\ volume \in Volumes /\ volume' = volume
  BY DEF Opened, Idle, Shape
<1>2. CASE g_CWD' = g_CWD
  BY <1>2 DEF CwdFound
<1>3. CASE g_CWD' # g_CWD
  <2>1. Idle(TRUE) /\ failed' = failed
    BY <1>3 DEF Opened
  <2>2. g_CWD' = path /\ file[current].IsDirectory
    BY <1>3, <2>1 DEF Idle, CwdAfter
  <2>3. ~failed => AtStart(volume, Here, file[current])
    BY <1>1 DEF Right, Good, Follows
  <2>4. ~failed => Here.dir
    BY <2>2, <2>3 DEF AtStart
  <2>5. Here = Steps(volume, path)[Len(path)]
    BY <1>1 DEF Here
  <2> QED BY <1>1, <2>1, <2>2, <2>4, <2>5 DEF CwdFound, IsDirectory
<1> QED BY <1>2, <1>3

\* The path alone changes.
LEMMA CdCwd ==
    ASSUME Shape, CdRoot \/ CdUp
    PROVE  CwdFound
<1>1. volume \in Volumes /\ g_CWD \in Seq(Names) /\ volume' = volume
  BY DEF CdRoot, CdUp, Shape
<1>2. CASE CdRoot
  <2>1. g_CWD' = <<>>
    BY <1>2 DEF CdRoot
  <2>2. IsDirectory(volume, <<>>)
    BY <1>1, RootIsThere DEF LookUp, IsDirectory
  <2> QED BY <1>1, <2>1, <2>2 DEF CwdFound
<1>3. CASE CdUp
  <2>1. g_CWD # <<>> /\ g_CWD' = Front(g_CWD)
    BY <1>3 DEF CdUp
  <2>2. IsDirectory(volume, g_CWD) => IsDirectory(volume, Front(g_CWD))
    BY <1>1, <2>1, UpIsDirectory DEF IsDirectory
  <2> QED BY <1>1, <2>1, <2>2 DEF CwdFound
<1> QED BY <1>2, <1>3

\* The other commands leave the shell where it is.
LEMMA NextCwd ==
    ASSUME Shape, Course, Right, Next
    PROVE  CwdFound
<1>1. CASE \/ ReadPiece \/ Stray \/ Walk \/ Changed
           \/ \E c \in Commands, arg \in Args : FAT_Open(c, arg)
  <2>1. g_CWD' = g_CWD
    BY <1>1 DEF ReadPiece, Stray, Walk, Changed, FAT_Open
  <2> QED BY <2>1 DEF CwdFound
<1>2. CASE Search \/ Enter
  <2>1. g_CWD' = g_CWD
    BY <1>2 DEF Search, Missing, Enter, Idle, CwdAfter
  <2> QED BY <2>1 DEF CwdFound
<1>3. CASE Cat \/ ListDir \/ PrintAppend
  <2>1. command # "cd"
    BY <1>3 DEF Cat, ListDir, PrintAppend, Course
  <2>2. g_CWD' = g_CWD
    BY <1>3, <2>1 DEF Cat, ListDir, PrintAppend, Idle, CwdAfter
  <2> QED BY <2>2 DEF CwdFound
<1> QED BY <1>1, <1>2, <1>3, OpenedCwd, CdCwd DEF Next, Step

\* cd takes the shell to directories only, unless it goes up from a path whose
\* directory has been removed meanwhile (shell.c:600-660, 1008-1025).
THEOREM CdFindsDirectories == Spec => CdFindsDirectory
<1>1. IInv /\ [Next]_vars => [CwdFound]_vars
  BY NextCwd DEF IInv
<1> QED BY <1>1, FileInvariance, PTL DEF Spec, CdFindsDirectory
================================================================================
