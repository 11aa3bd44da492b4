----------------------------- MODULE FatVolumeProofs ----------------------------
(******************************************************************************)
(* Proofs about directories and files on the volume (FatVolume), for every    *)
(* size of the volume and of a sector, every text and every set of paths.     *)
(* Base holds of every volume.  The rest ends where a volume is harmed: where *)
(* the power fails in the midst of a removal, a directory's own entries are   *)
(* removed, or "print >>" makes a file of a directory's entries               *)
(* (shell.c:870-898).                                                         *)
(******************************************************************************)
EXTENDS FatVolume, FiniteSetTheorems, WellFoundedInduction, TLAPS

\* A set of numbers that is not empty has a least one.
LEMMA Least ==
    ASSUME NEW T \in SUBSET Nat, T # {}
    PROVE  \E m \in T : \A n \in T : m <= n
<1>1. PICK m \in T : \A n \in T : <<n, m>> \notin OpToRel(<, Nat)
  BY NatLessThanWellFounded, WFMin, Zenon
<1>2. \A n \in T : ~(n < m)
  BY <1>1 DEF OpToRel
<1>3. \A n \in T : n \in Nat /\ m \in Nat
  OBVIOUS
<1>4. \A n \in T : m <= n
  BY <1>2, <1>3
<1> QED BY <1>4

\* The least of a set of indices, as Find takes it.
LEMMA MinIs ==
    ASSUME NEW T \in SUBSET Nat, T # {}
    PROVE  Min(T) \in T /\ \A n \in T : Min(T) <= n
BY Least DEF Min

--------------------------------------------------------------------------------
\* Tables, disks and what is on them.
Table == [Cluster -> Cluster \cup {FREE, EOC}]
Marks == {Never, Erased, Stale}
Piece == Entries \cup Text \cup Marks
Disk == [Cluster -> [1 .. SLOTS -> Piece]]
On(s, l) == s[l[1]][l[2]]

\* What the assumptions say of the constants.
LEMMA Constants ==
    /\ LastCluster \in Nat /\ LastCluster >= 2 /\ Cluster \subseteq Nat
    /\ RootDirCluster \in Cluster /\ FREE \notin Cluster /\ EOC \notin Cluster /\ FREE # EOC
    /\ SLOTS \in Nat /\ SLOTS >= 2 /\ EXISTING \in Nat
    /\ \A path \in Paths : path # <<>> /\ path \in Seq(ToSet(path))
    /\ Missing \notin Location
    /\ Dot # DotDot /\ Never # Erased /\ Never # Stale /\ Erased # Stale
BY FatVolumeAssumption DEF Cluster

\* A piece is an entry, text or a mark.
LEMMA Kinds ==
    ASSUME NEW x \in Piece
    PROVE  /\ IsEntry(x) <=> x \in Entries
           /\ x \in Text => x \notin {Never, Erased, Stale}
           /\ x \in Entries => x \notin {Never, Erased, Stale} /\ x \notin Text
BY FatVolumeAssumption DEF Piece, Marks, IsEntry

\* What is on a sound disk is a piece, and a location is a pair.
LEMMA OnPiece ==
    ASSUME NEW s \in Disk, NEW l \in Location
    PROVE  On(s, l) \in Piece /\ l[1] \in Cluster /\ l[2] \in 1 .. SLOTS /\ l = <<l[1], l[2]>>
<1>1. l[1] \in Cluster /\ l[2] \in 1 .. SLOTS /\ l = <<l[1], l[2]>>
  BY DEF Location
<1>2. s[l[1]] \in [1 .. SLOTS -> Piece]
  BY <1>1 DEF Disk
<1> QED BY <1>1, <1>2 DEF On

--------------------------------------------------------------------------------
\* Chains.  s lists the clusters from c on in the table t.
IsList(t, c, s) ==
    /\ s \in Seq(Cluster)
    /\ IF c \in Cluster THEN Len(s) > 0 /\ s[1] = c /\ t[s[Len(s)]] \notin Cluster
       ELSE s = <<>>
    /\ \A i \in 1 .. Len(s) - 1 : t[s[i]] = s[i + 1]
    /\ \A i, j \in 1 .. Len(s) : s[i] = s[j] => i = j

ChainIn(t, c) ==
    LET walk[n \in 0 .. LastCluster] ==
            IF n = 0 THEN <<>>
            ELSE LET before == walk[n - 1]
                     next == IF before = <<>> THEN c ELSE t[Last(before)]
                 IN  IF next \in Cluster THEN Append(before, next) ELSE before
    IN  walk[LastCluster]

\* A list is not longer than the volume.
LEMMA ListShort ==
    ASSUME NEW t, NEW c, NEW s, IsList(t, c, s)
    PROVE  Len(s) \in 0 .. LastCluster
<1>1. s \in [1 .. Len(s) -> Cluster] /\ Len(s) \in Nat
  BY DEF IsList
<1>2. IsFiniteSet(1 .. Len(s)) /\ Cardinality(1 .. Len(s)) = Len(s)
  <2>1. \A n \in Nat : IsFiniteSet(1 .. n) /\ Cardinality(1 .. n) = n
    <3> SUFFICES ASSUME NEW n \in Nat PROVE IsFiniteSet(1 .. n) /\ Cardinality(1 .. n) = n
      OBVIOUS
    <3>1. 1 \in Int /\ n \in Int
      OBVIOUS
    <3> QED BY <3>1, FS_Interval
  <2> QED BY <1>1, <2>1
<1>3. IsFiniteSet(Cluster) /\ Cardinality(Cluster) <= LastCluster
  BY Constants, FS_Interval DEF Cluster
<1>4. CASE Len(s) > LastCluster
  <2>1. Cardinality(Cluster) < Cardinality(1 .. Len(s))
    BY <1>1, <1>2, <1>3, <1>4, Constants, FS_CardinalityType
  <2>2. \E i, j \in 1 .. Len(s) : i # j /\ s[i] = s[j]
    BY <1>1, <1>2, <1>3, <2>1, FS_PigeonHole
  <2> QED BY <2>2 DEF IsList
<1> QED BY <1>1, <1>4, Constants

\* The driver's walk gives the list.
LEMMA ChainIsList ==
    ASSUME NEW t, NEW c, NEW s, IsList(t, c, s)
    PROVE  ChainIn(t, c) = s
<1> DEFINE Cut(n) == IF n <= Len(s) THEN SubSeq(s, 1, n) ELSE s
           Next1(before) == IF before = <<>> THEN c ELSE t[Last(before)]
           More(before) == IF Next1(before) \in Cluster THEN Append(before, Next1(before)) ELSE before
           Unrolled(g) == [n \in 0 .. LastCluster |-> IF n = 0 THEN <<>> ELSE More(g[n - 1])]
           walk == CHOOSE g : g = Unrolled(g)
           h == [n \in 0 .. LastCluster |-> Cut(n)]
<1>0. s \in Seq(Cluster) /\ Len(s) \in 0 .. LastCluster /\ Len(s) \in Nat
  <2>1. Len(s) \in 0 .. LastCluster
    BY ListShort
  <2> QED BY <2>1 DEF IsList
<1>1. Cut(0) = <<>>
  BY <1>0
<1>2. ASSUME NEW n \in 1 .. LastCluster PROVE Cut(n) = More(Cut(n - 1))
  <2>0. n = 1 \/ (n > 1 /\ n <= Len(s)) \/ (n > 1 /\ n > Len(s))
    BY <1>0
  <2>1. CASE n = 1
    <3>1. Cut(0) = <<>> /\ Next1(Cut(0)) = c
      BY <1>1
    <3>2. CASE c \in Cluster
      <4>1. Len(s) >= 1 /\ s[1] = c /\ Cut(1) = SubSeq(s, 1, 1)
        BY <1>0, <3>2 DEF IsList
      <4>2. Append(SubSeq(s, 1, 0), s[1]) = SubSeq(s, 1, 1) /\ SubSeq(s, 1, 0) = <<>>
        BY <1>0, <4>1
      <4> QED BY <2>1, <3>1, <3>2, <4>1, <4>2
    <3>3. CASE c \notin Cluster
      BY <1>0, <2>1, <3>1, <3>3 DEF IsList
    <3> QED BY <3>2, <3>3
  <2>2. CASE n > 1 /\ n <= Len(s)
    <3>1. Cut(n - 1) = SubSeq(s, 1, n - 1) /\ Cut(n) = SubSeq(s, 1, n)
      BY <1>0, <2>2
    <3>2. Len(Cut(n - 1)) = n - 1 /\ Cut(n - 1)[n - 1] = s[n - 1] /\ Cut(n - 1) # <<>>
      BY <1>0, <2>2, <3>1
    <3>3. Next1(Cut(n - 1)) = s[n] /\ s[n] \in Cluster
      <4>1. t[s[n - 1]] = s[(n - 1) + 1] /\ (n - 1) + 1 = n
        BY <1>0, <2>2 DEF IsList
      <4> QED BY <1>0, <2>2, <3>2, <4>1 DEF Last
    <3>4. Append(SubSeq(s, 1, n - 1), s[n]) = SubSeq(s, 1, n)
      BY <1>0, <2>2
    <3> QED BY <3>1, <3>3, <3>4
  <2>3. CASE n > 1 /\ n > Len(s)
    <3>1. Cut(n) = s
      BY <1>0, <2>3
    <3>2. Cut(n - 1) = s
      <4>1. CASE n - 1 = Len(s)
        BY <1>0, <4>1
      <4>2. CASE n - 1 > Len(s)
        BY <1>0, <4>2
      <4> QED BY <1>0, <2>3, <4>1, <4>2
    <3>3. Next1(s) \notin Cluster
      BY <1>0 DEF IsList, Last
    <3> QED BY <3>1, <3>2, <3>3
  <2> HIDE DEF Cut, More
  <2> QED BY <2>0, <2>1, <2>2, <2>3
<1> HIDE DEF Cut, More
<1>3. h = Unrolled(h)
  <2>1. \A n \in 0 .. LastCluster : Cut(n) = IF n = 0 THEN <<>> ELSE More(h[n - 1])
    <3> SUFFICES ASSUME NEW n \in 0 .. LastCluster
                 PROVE  Cut(n) = IF n = 0 THEN <<>> ELSE More(h[n - 1])
      OBVIOUS
    <3>1. CASE n = 0
      BY <1>1, <3>1
    <3>2. CASE n # 0
      <4>1. n \in 1 .. LastCluster /\ h[n - 1] = Cut(n - 1)
        BY <3>2, Constants
      <4> QED BY <1>2, <3>2, <4>1
    <3> QED BY <3>1, <3>2
  <2> QED BY <2>1
<1>4. walk = Unrolled(walk)
  <2> HIDE DEF Unrolled, h
  <2> QED BY <1>3
<1>5. ChainIn(t, c) = walk[LastCluster]
  BY Zenon DEF ChainIn, More
<1> DEFINE T == {n \in 0 .. LastCluster : walk[n] # Cut(n)}
<1>6. ASSUME T # {} PROVE FALSE
  <2> HIDE DEF walk
  <2>1. T \in SUBSET Nat
    BY Constants
  <2>2. PICK m \in T : \A n \in T : m <= n
    BY <1>6, <2>1, Least
  <2>3. m \in 0 .. LastCluster /\ walk[m] # Cut(m)
    BY <2>2
  <2>4. walk[m] = IF m = 0 THEN <<>> ELSE More(walk[m - 1])
    BY <1>4, <2>3
  <2>5. CASE m = 0
    BY <1>1, <2>3, <2>4, <2>5
  <2>6. CASE m # 0
    <3>1. m - 1 \in 0 .. LastCluster /\ ~(m <= m - 1) /\ m \in 1 .. LastCluster
      BY <2>3, <2>6, Constants
    <3>2. walk[m - 1] = Cut(m - 1)
      BY <2>2, <3>1
    <3> QED BY <1>2, <2>3, <2>4, <2>6, <3>1, <3>2
  <2> QED BY <2>5, <2>6
<1>7. walk[LastCluster] = Cut(LastCluster)
  <2> HIDE DEF walk
  <2>1. LastCluster \in 0 .. LastCluster
    BY Constants
  <2> QED BY <1>6, <2>1
<1>8. Cut(LastCluster) = s
  <2>1. CASE Len(s) = LastCluster
    BY <1>0, <2>1 DEF Cut
  <2>2. CASE Len(s) < LastCluster
    BY <1>0, <2>2, Constants DEF Cut
  <2> QED BY <1>0, <2>1, <2>2, Constants
<1> HIDE DEF walk
<1> QED BY <1>5, <1>7, <1>8

\* Every cluster begins a chain that ends; its clusters as a set.
ListsOn(t) == \A c \in Cluster : \E s : IsList(t, c, s)
ChainSet(t, c) == ToSet(ChainIn(t, c))

\* On such a table the driver's walk is the list.
LEMMA ChainList ==
    ASSUME NEW t, NEW c, ListsOn(t)
    PROVE  IsList(t, c, ChainIn(t, c))
<1>1. \E s : IsList(t, c, s)
  <2>1. CASE c \in Cluster
    BY <2>1 DEF ListsOn
  <2>2. CASE c \notin Cluster
    <3>1. <<>> \in Seq(Cluster) /\ Len(<<>>) = 0
      OBVIOUS
    <3>2. IsList(t, c, <<>>)
      BY <2>2, <3>1 DEF IsList
    <3> QED BY <3>2
  <2> QED BY <2>1, <2>2
<1>2. PICK s : IsList(t, c, s)
  BY <1>1
<1> QED BY <1>2, ChainIsList

\* The list as a function, and its set.
LEMMA ChainFacts ==
    ASSUME NEW t, NEW c, ListsOn(t)
    PROVE  /\ ChainIn(t, c) \in Seq(Cluster) /\ Len(ChainIn(t, c)) \in Nat
           /\ ChainSet(t, c) \subseteq Cluster
           /\ c \in Cluster => c \in ChainSet(t, c) /\ Len(ChainIn(t, c)) > 0
                               /\ ChainIn(t, c)[1] = c
           /\ c \notin Cluster => ChainIn(t, c) = <<>> /\ ChainSet(t, c) = {}
           /\ \A i \in 1 .. Len(ChainIn(t, c)) :
                 ChainIn(t, c)[i] \in Cluster /\ ChainIn(t, c)[i] \in ChainSet(t, c)
           /\ \A k \in ChainSet(t, c) : \E i \in 1 .. Len(ChainIn(t, c)) : k = ChainIn(t, c)[i]
<1> DEFINE s == ChainIn(t, c)
<1>1. IsList(t, c, s)
  BY ChainList
<1>2. ChainSet(t, c) = {s[i] : i \in DOMAIN s}
  BY DEF ChainSet, ToSet
<1> HIDE DEF s
<1>3. s \in Seq(Cluster) /\ Len(s) \in Nat /\ DOMAIN s = 1 .. Len(s)
  BY <1>1 DEF IsList
<1>4. \A i \in 1 .. Len(s) : s[i] \in Cluster /\ s[i] \in ChainSet(t, c)
  BY <1>2, <1>3
<1>5. \A k \in ChainSet(t, c) : \E i \in 1 .. Len(s) : k = s[i]
  BY <1>2, <1>3
<1>6. ASSUME c \in Cluster PROVE c \in ChainSet(t, c) /\ Len(s) > 0 /\ s[1] = c
  <2>1. Len(s) > 0 /\ s[1] = c
    BY <1>1, <1>6 DEF IsList
  <2> QED BY <1>3, <1>4, <2>1
<1>7. ASSUME c \notin Cluster PROVE s = <<>> /\ ChainSet(t, c) = {}
  <2>1. s = <<>>
    BY <1>1, <1>7 DEF IsList
  <2> QED BY <1>2, <2>1
<1>8. ChainSet(t, c) \subseteq Cluster
  BY <1>4, <1>5
<1> QED BY <1>3, <1>4, <1>5, <1>6, <1>7, <1>8 DEF s

\* A chain depends on the table at its own clusters.
LEMMA ChainSame ==
    ASSUME NEW t, NEW u, NEW c, ListsOn(t), \A k \in ChainSet(t, c) : u[k] = t[k]
    PROVE  ChainIn(u, c) = ChainIn(t, c)
<1> DEFINE s == ChainIn(t, c)
<1>1. IsList(t, c, s)
  BY ChainList
<1>2. \A i \in 1 .. Len(s) : u[s[i]] = t[s[i]]
  BY ChainFacts
<1> HIDE DEF s
<1>3. s \in Seq(Cluster) /\ Len(s) \in Nat
  BY <1>1 DEF IsList
<1>4. IsList(u, c, s)
  <2>1. \A i \in 1 .. Len(s) - 1 : u[s[i]] = s[i + 1]
    BY <1>1, <1>2, <1>3 DEF IsList
  <2>2. Len(s) > 0 => u[s[Len(s)]] = t[s[Len(s)]]
    BY <1>2, <1>3
  <2> QED BY <1>1, <2>1, <2>2 DEF IsList
<1> QED BY <1>4, ChainIsList DEF s

\* A set that the table does not lead out of has the chains that begin in it.
LEMMA ChainInside ==
    ASSUME NEW t, NEW c, NEW cs, ListsOn(t),
           \A k \in cs : t[k] \in Cluster => t[k] \in cs,
           c \in Cluster => c \in cs
    PROVE  ChainSet(t, c) \subseteq cs
<1> DEFINE s == ChainIn(t, c)
           T == {i \in 1 .. Len(s) : s[i] \notin cs}
<1>1. IsList(t, c, s) /\ Len(s) \in Nat /\ s \in Seq(Cluster)
  BY ChainList, ChainFacts
<1>2. ASSUME T # {} PROVE FALSE
  <2> HIDE DEF s
  <2>1. T \in SUBSET Nat
    OBVIOUS
  <2>2. PICK m \in T : \A n \in T : m <= n
    BY <1>2, <2>1, Least
  <2>3. m \in 1 .. Len(s) /\ s[m] \notin cs
    BY <2>2
  <2>4. CASE m = 1
    <3>1. Len(s) > 0
      BY <1>1, <2>3, <2>4
    <3>2. c \in Cluster /\ s[1] = c
      BY <1>1, <3>1 DEF IsList
    <3> QED BY <2>3, <2>4, <3>2
  <2>5. CASE m # 1
    <3>1. m - 1 \in 1 .. Len(s) - 1 /\ ~(m <= m - 1) /\ m - 1 \in 1 .. Len(s) /\ (m - 1) + 1 = m
      BY <1>1, <2>3, <2>5
    <3>2. s[m - 1] \in cs
      BY <2>2, <3>1
    <3>3. t[s[m - 1]] = s[m]
      BY <1>1, <3>1 DEF IsList
    <3>4. s[m] \in Cluster
      BY <1>1, <2>3
    <3> QED BY <2>3, <3>2, <3>3, <3>4
  <2> QED BY <2>4, <2>5
<1>3. \A k \in ChainSet(t, c) : \E i \in 1 .. Len(s) : k = s[i]
  BY ChainFacts
<1> QED BY <1>2, <1>3

\* Cutting a table leaves lists.
LEMMA ListCut ==
    ASSUME NEW t \in Table, ListsOn(t), NEW k \in Cluster, NEW x, x \notin Cluster
    PROVE  ListsOn([t EXCEPT ![k] = x])
<1> DEFINE u == [t EXCEPT ![k] = x]
<1>1. \A j \in Cluster : u[j] = IF j = k THEN x ELSE t[j]
  BY DEF Table
<1> SUFFICES ASSUME NEW c \in Cluster PROVE \E s : IsList(u, c, s)
  BY DEF ListsOn
<1>2. PICK s : IsList(t, c, s)
  BY DEF ListsOn
<1> HIDE DEF u
<1>3. s \in Seq(Cluster) /\ Len(s) \in Nat /\ Len(s) > 0 /\ s[1] = c
      /\ (\A i \in 1 .. Len(s) : s[i] \in Cluster)
  BY <1>2 DEF IsList
<1>4. CASE \A i \in 1 .. Len(s) : s[i] # k
  <2>1. \A i \in 1 .. Len(s) : u[s[i]] = t[s[i]]
    BY <1>1, <1>3, <1>4
  <2>2. \A i \in 1 .. Len(s) - 1 : u[s[i]] = s[i + 1]
    BY <1>2, <1>3, <2>1 DEF IsList
  <2>3. u[s[Len(s)]] = t[s[Len(s)]]
    BY <1>3, <2>1
  <2>4. IsList(u, c, s)
    BY <1>2, <2>2, <2>3 DEF IsList
  <2> QED BY <2>4
<1>5. CASE \E i \in 1 .. Len(s) : s[i] = k
  <2>1. PICK m \in 1 .. Len(s) : s[m] = k
    BY <1>5
  <2> DEFINE r == SubSeq(s, 1, m)
  <2>2. r \in Seq(Cluster) /\ Len(r) = m /\ (\A i \in 1 .. m : r[i] = s[i]) /\ m > 0
    BY <1>3, <2>1
  <2> HIDE DEF r
  <2>3. r[1] = c /\ u[r[m]] = x
    BY <1>1, <1>3, <2>1, <2>2
  <2>4. \A i, j \in 1 .. m : s[i] = s[j] => i = j
    BY <1>2, <1>3, <2>1 DEF IsList
  <2>5. ASSUME NEW i \in 1 .. m - 1 PROVE u[r[i]] = r[i + 1]
    <3>1. i \in 1 .. m /\ i + 1 \in 1 .. m /\ i # m /\ i \in 1 .. Len(s) - 1 /\ i \in 1 .. Len(s)
      BY <1>3, <2>1
    <3>2. s[i] # k
      BY <2>1, <2>4, <3>1
    <3>3. u[s[i]] = t[s[i]]
      BY <1>1, <1>3, <3>1, <3>2
    <3>4. t[s[i]] = s[i + 1]
      BY <1>2, <3>1 DEF IsList
    <3> QED BY <2>2, <3>1, <3>3, <3>4
  <2>6. \A i, j \in 1 .. Len(r) : r[i] = r[j] => i = j
    BY <2>2, <2>4
  <2>7. IsList(u, c, r)
    BY <1>3, <2>2, <2>3, <2>5, <2>6 DEF IsList
  <2> QED BY <2>7
<1> QED BY <1>4, <1>5

\* A cluster that ends its chain gets another that nothing follows.
LEMMA ListGrow ==
    ASSUME NEW t \in Table, ListsOn(t), NEW p \in Cluster, NEW c \in Cluster, p # c,
           t[p] \notin Cluster, t[c] \notin Cluster
    PROVE  /\ ListsOn([t EXCEPT ![p] = c])
           /\ \A q \in Cluster : p \in ChainSet(t, q) =>
                 /\ ChainIn([t EXCEPT ![p] = c], q) = Append(ChainIn(t, q), c)
                 /\ ChainIn(t, q)[Len(ChainIn(t, q))] = p
<1> DEFINE u == [t EXCEPT ![p] = c]
<1>1. \A j \in Cluster : u[j] = IF j = p THEN c ELSE t[j]
  BY DEF Table
<1> HIDE DEF u
<1>2. ASSUME NEW q \in Cluster
      PROVE  /\ \E s : IsList(u, q, s)
             /\ p \in ChainSet(t, q) => /\ ChainIn(u, q) = Append(ChainIn(t, q), c)
                                        /\ ChainIn(t, q)[Len(ChainIn(t, q))] = p
  <2> DEFINE s == ChainIn(t, q)
  <2>1. IsList(t, q, s)
    BY ChainList
  <2>2. /\ s \in Seq(Cluster) /\ Len(s) \in Nat /\ Len(s) > 0 /\ s[1] = q
        /\ \A i \in 1 .. Len(s) : s[i] \in Cluster /\ s[i] \in ChainSet(t, q)
        /\ \A k \in ChainSet(t, q) : \E i \in 1 .. Len(s) : k = s[i]
    BY ChainFacts
  <2> HIDE DEF s
  <2>3. /\ \A i \in 1 .. Len(s) - 1 : t[s[i]] = s[i + 1]
        /\ \A i, j \in 1 .. Len(s) : s[i] = s[j] => i = j
    BY <2>1 DEF IsList
  <2>4. ASSUME NEW i \in 1 .. Len(s), s[i] = p \/ s[i] = c PROVE i = Len(s)
    <3>1. CASE i < Len(s)
      <4>1. i \in 1 .. Len(s) - 1 /\ i + 1 \in 1 .. Len(s)
        BY <2>2, <3>1
      <4>2. t[s[i]] \in Cluster
        BY <2>2, <2>3, <4>1
      <4> QED BY <2>4, <4>2
    <3> QED BY <2>2, <3>1
  <2>5. CASE p \notin ChainSet(t, q)
    <3>1. \A k \in ChainSet(t, q) : u[k] = t[k]
      BY <1>1, <2>5, ChainFacts
    <3>2. \A i \in 1 .. Len(s) : u[s[i]] = t[s[i]]
      BY <2>2, <3>1
    <3>3. (\A i \in 1 .. Len(s) - 1 : u[s[i]] = s[i + 1]) /\ u[s[Len(s)]] = t[s[Len(s)]]
      BY <2>2, <2>3, <3>2
    <3>4. IsList(u, q, s)
      BY <2>1, <3>3 DEF IsList
    <3> QED BY <2>5, <3>4
  <2>6. CASE p \in ChainSet(t, q)
    <3> DEFINE r == Append(s, c)
               n == Len(s)
    <3>1. s[n] = p
      <4>1. PICK i \in 1 .. Len(s) : p = s[i]
        BY <2>2, <2>6
      <4> QED BY <2>4, <4>1
    <3>2. \A i \in 1 .. n : s[i] # c
      <4> SUFFICES ASSUME NEW i \in 1 .. n, s[i] = c PROVE FALSE
        OBVIOUS
      <4> QED BY <2>4, <3>1
    <3>3. /\ r \in Seq(Cluster) /\ Len(r) = n + 1 /\ r[n + 1] = c
          /\ \A i \in 1 .. n : r[i] = s[i]
      BY <2>2
    <3> HIDE DEF r, n
    <3>4. n \in Nat /\ n > 0
      BY <2>2 DEF n
    <3>5. r[1] = q /\ Len(r) > 0
      BY <2>2, <3>3, <3>4
    <3>6. u[r[Len(r)]] \notin Cluster
      BY <1>1, <3>3
    <3>7. ASSUME NEW i \in 1 .. Len(r) - 1 PROVE u[r[i]] = r[i + 1]
      <4>1. i \in 1 .. n
        BY <3>3, <3>4
      <4>2. CASE i = n
        BY <1>1, <3>1, <3>3, <4>1, <4>2
      <4>3. CASE i # n
        <5>1. i \in 1 .. n - 1 /\ i + 1 \in 1 .. n
          BY <3>4, <4>1, <4>3
        <5>2. s[i] # p /\ s[i] \in Cluster
          BY <2>2, <2>4, <4>1, <4>3 DEF n
        <5>3. u[s[i]] = s[i + 1]
          BY <1>1, <2>3, <5>1, <5>2 DEF n
        <5> QED BY <3>3, <4>1, <5>1, <5>3
      <4> QED BY <4>2, <4>3
    <3>8. ASSUME NEW i \in 1 .. Len(r), NEW j \in 1 .. Len(r), r[i] = r[j] PROVE i = j
      <4>1. CASE i \in 1 .. n /\ j \in 1 .. n
        BY <2>3, <3>3, <3>8, <4>1 DEF n
      <4>2. CASE i = n + 1 /\ j \in 1 .. n
        BY <3>2, <3>3, <3>8, <4>2
      <4>3. CASE i \in 1 .. n /\ j = n + 1
        BY <3>2, <3>3, <3>8, <4>3
      <4> QED BY <3>3, <3>4, <4>1, <4>2, <4>3
    <3>9. IsList(u, q, r)
      BY <3>3, <3>5, <3>6, <3>7, <3>8 DEF IsList
    <3>10. ChainIn(u, q) = r
      BY <3>9, ChainIsList
    <3> QED BY <3>1, <3>9, <3>10 DEF r, n, s
  <2> QED BY <2>5, <2>6
<1> QED BY <1>2 DEF ListsOn, u

\* Without its first cluster a chain begins with the second.
LEMMA ChainTail ==
    ASSUME NEW t \in Table, ListsOn(t), NEW k \in Cluster
    PROVE  ChainSet([t EXCEPT ![k] = FREE], t[k]) = ChainSet(t, k) \ {k}
<1> DEFINE u == [t EXCEPT ![k] = FREE]
           s == ChainIn(t, k)
           r == Tail(s)
<1>1. \A j \in Cluster : u[j] = IF j = k THEN FREE ELSE t[j]
  BY DEF Table
<1>2. IsList(t, k, s)
  BY ChainList
<1>3. /\ s \in Seq(Cluster) /\ Len(s) \in Nat /\ Len(s) > 0 /\ s[1] = k
      /\ \A i \in 1 .. Len(s) : s[i] \in Cluster /\ s[i] \in ChainSet(t, k)
      /\ \A j \in ChainSet(t, k) : \E i \in 1 .. Len(s) : j = s[i]
  BY ChainFacts
<1> HIDE DEF u, s
<1>4. /\ \A i \in 1 .. Len(s) - 1 : t[s[i]] = s[i + 1]
      /\ \A i, j \in 1 .. Len(s) : s[i] = s[j] => i = j
      /\ t[s[Len(s)]] \notin Cluster
  BY <1>2 DEF IsList
<1>5. r \in Seq(Cluster) /\ Len(r) = Len(s) - 1 /\ \A i \in 1 .. Len(s) - 1 : r[i] = s[i + 1]
  <2>1. s # <<>>
    BY <1>3
  <2> QED BY <1>3, <2>1
<1> HIDE DEF r
<1>6. \A i \in 1 .. Len(r) : r[i] # k
  <2> SUFFICES ASSUME NEW i \in 1 .. Len(r), r[i] = k PROVE FALSE
    OBVIOUS
  <2>1. s[i + 1] = s[1] /\ i + 1 \in 1 .. Len(s) /\ 1 \in 1 .. Len(s) /\ i + 1 # 1
    BY <1>3, <1>5
  <2> QED BY <1>4, <2>1
<1>7. IsList(u, t[k], r)
  <2>1. CASE Len(s) = 1
    <3>1. t[k] \notin Cluster /\ r = <<>>
      BY <1>3, <1>4, <1>5, <2>1
    <3> QED BY <1>5, <2>1, <3>1 DEF IsList
  <2>2. CASE Len(s) > 1
    <3>1. 1 \in 1 .. Len(s) - 1 /\ Len(r) > 0 /\ Len(r) \in 1 .. Len(s) - 1 /\ 2 \in 1 .. Len(s)
      BY <1>3, <1>5, <2>2
    <3>2. t[k] = s[2] /\ r[1] = s[2] /\ t[k] \in Cluster
      <4>1. t[s[1]] = s[1 + 1] /\ r[1] = s[1 + 1] /\ s[2] \in Cluster
        BY <1>3, <1>4, <1>5, <3>1
      <4> QED BY <1>3, <4>1
    <3>3. u[r[Len(r)]] \notin Cluster
      <4>1. r[Len(r)] = s[Len(s)] /\ r[Len(r)] # k
        BY <1>3, <1>5, <1>6, <3>1
      <4> QED BY <1>1, <1>3, <1>4, <4>1
    <3>4. ASSUME NEW i \in 1 .. Len(r) - 1 PROVE u[r[i]] = r[i + 1]
      <4>1. i + 1 \in 1 .. Len(s) - 1 /\ i \in 1 .. Len(s) - 1 /\ i \in 1 .. Len(r)
        BY <1>3, <1>5
      <4>2. r[i] = s[i + 1] /\ r[i + 1] = s[(i + 1) + 1] /\ r[i] # k /\ r[i] \in Cluster
        BY <1>3, <1>5, <1>6, <4>1
      <4> QED BY <1>1, <1>4, <4>1, <4>2
    <3>5. ASSUME NEW i \in 1 .. Len(r), NEW j \in 1 .. Len(r), r[i] = r[j] PROVE i = j
      <4>1. i + 1 \in 1 .. Len(s) /\ j + 1 \in 1 .. Len(s) /\ s[i + 1] = s[j + 1]
        BY <1>3, <1>5, <3>5, SMTT(30)
      <4>2. i + 1 = j + 1
        BY <1>4, <4>1
      <4> QED BY <1>5, <4>2
    <3>6. r[1] = t[k] /\ Len(r) > 0 /\ r \in Seq(Cluster)
      BY <1>5, <3>1, <3>2
    <3>7. \A i \in 1 .. Len(r) - 1 : u[r[i]] = r[i + 1]
      BY <3>4
    <3>8. \A i, j \in 1 .. Len(r) : r[i] = r[j] => i = j
      BY <3>5
    <3> QED BY <3>2, <3>3, <3>6, <3>7, <3>8 DEF IsList
  <2>3. Len(s) \in Nat /\ Len(s) > 0
    BY <1>3
  <2>4. Len(s) = 1 \/ Len(s) > 1
    <3>1. \A n \in Nat : n > 0 => n = 1 \/ n > 1
      OBVIOUS
    <3> QED BY <2>3, <3>1
  <2> QED BY <2>1, <2>2, <2>4
<1>8. ChainIn(u, t[k]) = r
  BY <1>7, ChainIsList
<1>9. ChainSet(u, t[k]) = {r[i] : i \in 1 .. Len(r)}
  BY <1>5, <1>8 DEF ChainSet, ToSet
<1>10. ASSUME NEW j \in ChainSet(t, k), j # k PROVE j \in ChainSet(u, t[k])
  <2>1. PICK i \in 1 .. Len(s) : j = s[i]
    BY <1>3
  <2>2. i # 1 /\ i - 1 \in 1 .. Len(r) /\ r[i - 1] = s[i]
    BY <1>3, <1>5, <1>10, <2>1
  <2> QED BY <1>9, <2>1, <2>2
<1>11. ASSUME NEW j \in ChainSet(u, t[k]) PROVE j \in ChainSet(t, k) /\ j # k
  <2>1. PICK i \in 1 .. Len(r) : j = r[i]
    BY <1>9
  <2>2. i + 1 \in 1 .. Len(s) /\ r[i] = s[i + 1]
    BY <1>3, <1>5
  <2> QED BY <1>3, <1>6, <2>1, <2>2
<1> QED BY <1>10, <1>11 DEF u

--------------------------------------------------------------------------------
\* What is reached in a table t and on a disk s.
Leads(s, l) ==
    /\ IsEntry(On(s, l)) /\ On(s, l).name \notin {Dot, DotDot}
    /\ On(s, l).first # FREE
LinkIn(s, cs) == {l \in cs \X (1 .. SLOTS) : Leads(s, l)}
ClosedIn(t, s, cs) ==
    /\ \A k \in cs : t[k] \in Cluster => t[k] \in cs
    /\ \A l \in LinkIn(s, cs) : On(s, l).first \in cs
BelowIn(t, s, c) ==
    {k \in Cluster : \A cs \in SUBSET Cluster :
        ({c} \cap Cluster \subseteq cs /\ ClosedIn(t, s, cs)) => k \in cs}
OwnedIn(t, s) == BelowIn(t, s, RootDirCluster)

\* What a link is.
LEMMA LinkFacts ==
    ASSUME NEW s \in Disk, NEW cs \in SUBSET Cluster, NEW l \in LinkIn(s, cs)
    PROVE  /\ l \in Location /\ l[1] \in cs /\ l[2] \in 1 .. SLOTS /\ l = <<l[1], l[2]>>
           /\ Leads(s, l) /\ On(s, l) \in Entries /\ On(s, l).first \in Cluster
<1>1. l \in cs \X (1 .. SLOTS) /\ Leads(s, l)
  BY DEF LinkIn
<1>2. l \in Location /\ l[1] \in cs /\ l[2] \in 1 .. SLOTS /\ l = <<l[1], l[2]>>
  BY <1>1 DEF Location
<1>3. On(s, l) \in Entries
  BY <1>1, <1>2, OnPiece, Kinds DEF Leads
<1>4. On(s, l).first \in Cluster
  BY <1>1, <1>3 DEF Leads, Entries
<1> QED BY <1>1, <1>2, <1>3, <1>4

\* The least closed set is closed, and the least.
LEMMA BelowClosed ==
    ASSUME NEW t, NEW s \in Disk, NEW c
    PROVE  /\ BelowIn(t, s, c) \in SUBSET Cluster
           /\ c \in Cluster => c \in BelowIn(t, s, c)
           /\ ClosedIn(t, s, BelowIn(t, s, c))
<1> DEFINE B == BelowIn(t, s, c)
<1>1. B \in SUBSET Cluster /\ (c \in Cluster => c \in B)
  BY DEF BelowIn
<1>2. ASSUME NEW k \in B, t[k] \in Cluster PROVE t[k] \in B
  BY <1>2 DEF BelowIn, ClosedIn
<1>3. ASSUME NEW l \in LinkIn(s, B) PROVE On(s, l).first \in B
  <2>1. On(s, l).first \in Cluster /\ l[1] \in B /\ l[2] \in 1 .. SLOTS /\ Leads(s, l)
        /\ l = <<l[1], l[2]>>
    BY <1>1, LinkFacts
  <2>2. ASSUME NEW cs \in SUBSET Cluster, {c} \cap Cluster \subseteq cs, ClosedIn(t, s, cs)
        PROVE  On(s, l).first \in cs
    <3>1. l[1] \in cs
      BY <2>1, <2>2 DEF BelowIn
    <3>2. l \in LinkIn(s, cs)
      BY <2>1, <3>1 DEF LinkIn
    <3> QED BY <2>2, <3>2 DEF ClosedIn
  <2> QED BY <2>1, <2>2 DEF BelowIn
<1> HIDE DEF B
<1>4. ClosedIn(t, s, B)
  BY <1>2, <1>3 DEF ClosedIn
<1> QED BY <1>1, <1>4 DEF B

\* Whatever is closed holds it.
LEMMA BelowLeast ==
    ASSUME NEW t, NEW s, NEW c, NEW cs \in SUBSET Cluster,
           c \in Cluster => c \in cs, ClosedIn(t, s, cs)
    PROVE  BelowIn(t, s, c) \subseteq cs
BY DEF BelowIn

\* What is reached from a cluster, but for itself, is led to from there.
LEMMA BelowOwner ==
    ASSUME NEW t, NEW s \in Disk, NEW c \in Cluster, NEW k \in BelowIn(t, s, c), k # c
    PROVE  \/ \E j \in BelowIn(t, s, c) : t[j] = k
           \/ \E l \in LinkIn(s, BelowIn(t, s, c)) : On(s, l).first = k
<1> DEFINE B == BelowIn(t, s, c)
           C == B \ {k}
<1>1. B \in SUBSET Cluster /\ c \in B /\ ClosedIn(t, s, B)
  BY BelowClosed
<1> SUFFICES ASSUME \A j \in B : t[j] # k, \A l \in LinkIn(s, B) : On(s, l).first # k
             PROVE  FALSE
  OBVIOUS
<1> HIDE DEF B
<1>2. LinkIn(s, C) \subseteq LinkIn(s, B)
  BY DEF LinkIn
<1>3. ClosedIn(t, s, C)
  BY <1>1, <1>2 DEF ClosedIn
<1>4. B \subseteq C
  BY <1>1, <1>3, BelowLeast DEF B
<1> QED BY <1>4 DEF B

\* Where table and links are what they were, what is reached is.
SameBelow(t, s, u, r, B) ==
    /\ \A k \in B : u[k] = t[k] \/ (u[k] \notin Cluster /\ t[k] \notin Cluster)
    /\ LinkIn(r, B) = LinkIn(s, B)
    /\ \A l \in LinkIn(s, B) : On(r, l).first = On(s, l).first

LEMMA BelowSame ==
    ASSUME NEW t, NEW s \in Disk, NEW u, NEW r \in Disk, NEW c \in Cluster,
           SameBelow(t, s, u, r, BelowIn(t, s, c))
    PROVE  BelowIn(u, r, c) = BelowIn(t, s, c)
<1> DEFINE B == BelowIn(t, s, c)
<1>0. /\ \A k \in B : u[k] = t[k] \/ (u[k] \notin Cluster /\ t[k] \notin Cluster)
      /\ LinkIn(r, B) = LinkIn(s, B)
      /\ \A l \in LinkIn(s, B) : On(r, l).first = On(s, l).first
  BY DEF SameBelow
<1>1. B \in SUBSET Cluster /\ c \in B /\ ClosedIn(t, s, B)
  BY BelowClosed
<1> HIDE DEF B
<1>2. ClosedIn(u, r, B)
  BY <1>0, <1>1 DEF ClosedIn
<1> DEFINE D == BelowIn(u, r, c)
<1>3. D \subseteq B
  BY <1>1, <1>2, BelowLeast
<1>4. D \in SUBSET Cluster /\ c \in D /\ ClosedIn(u, r, D)
  BY BelowClosed
<1> HIDE DEF D
<1>5. LinkIn(s, D) = LinkIn(r, D)
  <2>1. \A l \in D \X (1 .. SLOTS) : l \in B \X (1 .. SLOTS)
    BY <1>3
  <2>2. \A l \in D \X (1 .. SLOTS) : Leads(s, l) <=> Leads(r, l)
    BY <1>0, <2>1 DEF LinkIn
  <2> QED BY <2>2 DEF LinkIn
<1>6. LinkIn(s, D) \subseteq LinkIn(s, B)
  BY <1>3 DEF LinkIn
<1>7. ClosedIn(t, s, D)
  <2>1. ASSUME NEW k \in D, t[k] \in Cluster PROVE t[k] \in D
    <3>1. u[k] = t[k]
      BY <1>0, <1>3, <1>4, <2>1
    <3> QED BY <1>4, <2>1, <3>1 DEF ClosedIn
  <2>2. ASSUME NEW l \in LinkIn(s, D) PROVE On(s, l).first \in D
    BY <1>0, <1>4, <1>5, <1>6 DEF ClosedIn
  <2> QED BY <2>1, <2>2 DEF ClosedIn
<1>8. B \subseteq D
  BY <1>4, <1>7, BelowLeast DEF B
<1> QED BY <1>3, <1>8 DEF B, D

\* Every cluster that is reached has one owner, and the root none.
Unique(t, s) ==
    LET O == OwnedIn(t, s)
        L == LinkIn(s, O)
    IN  /\ \A k \in O : t[k] # RootDirCluster
        /\ \A l \in L : On(s, l).first # RootDirCluster
        /\ \A k, j \in O : t[k] = t[j] /\ t[k] \in Cluster => k = j
        /\ \A l, m \in L : On(s, l).first = On(s, m).first => l = m
        /\ \A l \in L, k \in O : On(s, l).first # t[k]

\* What lies below an entry is reached through that entry alone.
LEMMA BelowLink ==
    ASSUME NEW t, NEW s \in Disk, Unique(t, s),
           NEW O, O = OwnedIn(t, s), NEW m \in LinkIn(s, O),
           NEW B, B = BelowIn(t, s, On(s, m).first)
    PROVE  /\ O \in SUBSET Cluster /\ B \subseteq O
           /\ m[1] \notin B /\ RootDirCluster \notin B /\ On(s, m).first \in B
           /\ \A k \in O \ B : t[k] \in Cluster => t[k] \in O \ B
           /\ \A l \in LinkIn(s, O) : l[1] \notin B /\ l # m => On(s, l).first \in O \ B
<1> DEFINE c == On(s, m).first
<1>1. RootDirCluster \in Cluster
  BY Constants
<1>2. O \in SUBSET Cluster /\ RootDirCluster \in O /\ ClosedIn(t, s, O)
  BY <1>1, BelowClosed DEF OwnedIn
<1>3. c \in Cluster /\ c \in O
  BY <1>2, LinkFacts DEF ClosedIn
<1> HIDE DEF c
<1>4. B \in SUBSET Cluster /\ c \in B /\ ClosedIn(t, s, B)
  BY <1>3, BelowClosed DEF c
<1>5. B \subseteq O
  BY <1>2, <1>3, BelowLeast DEF c
<1>6. /\ \A k \in O : t[k] # RootDirCluster
      /\ \A l \in LinkIn(s, O) : On(s, l).first # RootDirCluster
      /\ \A k, j \in O : t[k] = t[j] /\ t[k] \in Cluster => k = j
      /\ \A l, n \in LinkIn(s, O) : On(s, l).first = On(s, n).first => l = n
      /\ \A l \in LinkIn(s, O), k \in O : On(s, l).first # t[k]
  BY DEF Unique
<1>7. LinkIn(s, B) \subseteq LinkIn(s, O)
  BY <1>5 DEF LinkIn
<1>8. ASSUME NEW k \in B, k # c
      PROVE  (\E j \in B : t[j] = k) \/ (\E l \in LinkIn(s, B) : On(s, l).first = k)
  BY <1>3, <1>8, BelowOwner DEF c
<1>9. RootDirCluster \notin B
  <2> SUFFICES ASSUME RootDirCluster \in B PROVE FALSE
    OBVIOUS
  <2>1. RootDirCluster # c
    BY <1>6 DEF c
  <2> QED BY <1>5, <1>6, <1>7, <1>8, <2>1
<1>10. ASSUME NEW k \in O \ B, t[k] \in Cluster PROVE t[k] \in O \ B
  <2>1. t[k] \in O
    BY <1>2, <1>10 DEF ClosedIn
  <2>2. ASSUME t[k] \in B PROVE FALSE
    <3>1. CASE t[k] = c
      BY <1>6, <3>1 DEF c
    <3>2. CASE t[k] # c
      <4>1. CASE \E j \in B : t[j] = t[k]
        BY <1>5, <1>6, <1>10, <4>1
      <4>2. CASE \E l \in LinkIn(s, B) : On(s, l).first = t[k]
        BY <1>6, <1>7, <4>2
      <4> QED BY <1>8, <2>2, <3>2, <4>1, <4>2
    <3> QED BY <3>1, <3>2
  <2> QED BY <2>1, <2>2
<1>11. ASSUME NEW l \in LinkIn(s, O), l[1] \notin B, On(s, l).first \in B PROVE l = m
  <2> DEFINE k == On(s, l).first
  <2>1. CASE k = c
    BY <1>6, <2>1 DEF c
  <2>2. CASE k # c
    <3>1. CASE \E j \in B : t[j] = k
      BY <1>5, <1>6, <3>1
    <3>2. CASE \E n \in LinkIn(s, B) : On(s, n).first = k
      <4>1. PICK n \in LinkIn(s, B) : On(s, n).first = k
        BY <3>2
      <4>2. n = l
        BY <1>6, <1>7, <4>1
      <4>3. n[1] \in B
        BY <1>4, <4>1, LinkFacts
      <4> QED BY <1>11, <4>2, <4>3
    <3> QED BY <1>8, <1>11, <2>2, <3>1, <3>2
  <2> QED BY <2>1, <2>2
<1>12. m[1] \notin B
  <2> SUFFICES ASSUME m[1] \in B PROVE FALSE
    OBVIOUS
  <2>1. ClosedIn(t, s, O \ B)
    <3>1. ASSUME NEW l \in LinkIn(s, O \ B) PROVE On(s, l).first \in O \ B
      <4>1. l \in LinkIn(s, O) /\ l[1] \notin B
        BY <1>2, <3>1, LinkFacts DEF LinkIn
      <4>2. On(s, l).first \in O
        BY <1>2, <4>1 DEF ClosedIn
      <4>3. On(s, l).first \notin B
        BY <1>11, <4>1
      <4> QED BY <4>2, <4>3
    <3> QED BY <1>10, <3>1 DEF ClosedIn
  <2>2. O \subseteq O \ B
    <3>1. O \ B \in SUBSET Cluster /\ RootDirCluster \in O \ B
      BY <1>2, <1>9
    <3> QED BY <2>1, <3>1, BelowLeast DEF OwnedIn
  <2> QED BY <1>3, <1>4, <2>2
<1>13. ASSUME NEW l \in LinkIn(s, O), l[1] \notin B, l # m PROVE On(s, l).first \in O \ B
  <2>1. On(s, l).first \in O
    BY <1>2 DEF ClosedIn
  <2> QED BY <1>11, <1>13, <2>1
<1> QED BY <1>2, <1>4, <1>5, <1>9, <1>10, <1>12, <1>13 DEF c

\* Without the entry at m, what was below it is not reached any more.
LEMMA OwnedRemove ==
    ASSUME NEW t, NEW s \in Disk, Unique(t, s),
           NEW O, O = OwnedIn(t, s), NEW m \in LinkIn(s, O),
           NEW B, B = BelowIn(t, s, On(s, m).first),
           NEW r \in Disk, ~Leads(r, m),
           \A l \in (O \ B) \X (1 .. SLOTS) : l # m => On(r, l) = On(s, l)
    PROVE  /\ OwnedIn(t, r) = O \ B
           /\ LinkIn(r, O \ B) = {l \in LinkIn(s, O) : l[1] \notin B} \ {m}
<1> DEFINE D == O \ B
           E == OwnedIn(t, r)
<1>1. /\ O \in SUBSET Cluster /\ B \subseteq O
      /\ m[1] \notin B /\ RootDirCluster \notin B /\ On(s, m).first \in B
      /\ \A k \in O \ B : t[k] \in Cluster => t[k] \in O \ B
      /\ \A l \in LinkIn(s, O) : l[1] \notin B /\ l # m => On(s, l).first \in O \ B
  <2> HIDE DEF D, E
  <2>1. \A P, l, Q : Unique(t, s) /\ P = OwnedIn(t, s) /\ l \in LinkIn(s, P)
                      /\ Q = BelowIn(t, s, On(s, l).first)
          => /\ P \in SUBSET Cluster /\ Q \subseteq P
             /\ l[1] \notin Q /\ RootDirCluster \notin Q /\ On(s, l).first \in Q
             /\ \A k \in P \ Q : t[k] \in Cluster => t[k] \in P \ Q
             /\ \A j \in LinkIn(s, P) : j[1] \notin Q /\ j # l => On(s, j).first \in P \ Q
    BY BelowLink
  <2> QED BY <2>1
<1>2. RootDirCluster \in Cluster
  BY Constants
<1>3. RootDirCluster \in O /\ ClosedIn(t, s, O)
  BY <1>2, BelowClosed DEF OwnedIn
<1>4. ClosedIn(t, s, B) /\ B \in SUBSET Cluster
  BY BelowClosed
<1>5. ASSUME NEW l \in D \X (1 .. SLOTS)
      PROVE  /\ l[1] \in D /\ l \in O \X (1 .. SLOTS)
             /\ l # m => On(r, l) = On(s, l)
             /\ Leads(r, l) <=> Leads(s, l) /\ l # m
  <2>1. l[1] \in D /\ l \in O \X (1 .. SLOTS)
    BY <1>1
  <2> QED BY <2>1 DEF Leads
<1>6. LinkIn(r, D) = {l \in LinkIn(s, O) : l[1] \notin B} \ {m}
  <2>1. ASSUME NEW l \in LinkIn(r, D)
        PROVE  l \in LinkIn(s, O) /\ l[1] \notin B /\ l # m
    BY <1>5 DEF LinkIn
  <2>2. ASSUME NEW l \in LinkIn(s, O), l[1] \notin B, l # m
        PROVE  l \in LinkIn(r, D)
    <3>1. l \in D \X (1 .. SLOTS) /\ Leads(s, l)
      <4>1. l[1] \in O /\ l[2] \in 1 .. SLOTS /\ l = <<l[1], l[2]>> /\ Leads(s, l)
        BY <1>1, LinkFacts
      <4> QED BY <2>2, <4>1
    <3> QED BY <1>5, <2>2, <3>1 DEF LinkIn
  <2> HIDE DEF D
  <2> QED BY <2>1, <2>2
<1>7. ClosedIn(t, r, D)
  <2>1. ASSUME NEW l \in LinkIn(r, D) PROVE On(r, l).first \in D
    <3>1. l \in LinkIn(s, O) /\ l[1] \notin B /\ l # m
      BY <1>6
    <3>2. On(r, l) = On(s, l)
      BY <1>5, <2>1 DEF LinkIn
    <3> QED BY <1>1, <3>1, <3>2
  <2> QED BY <1>1, <2>1 DEF ClosedIn
<1>8. E \subseteq D
  <2>1. D \in SUBSET Cluster /\ RootDirCluster \in D
    BY <1>1, <1>3
  <2> QED BY <1>7, <2>1, BelowLeast DEF OwnedIn
<1>9. E \in SUBSET Cluster /\ RootDirCluster \in E /\ ClosedIn(t, r, E)
  BY <1>2, BelowClosed DEF OwnedIn
<1> HIDE DEF E
<1>10. ClosedIn(t, s, E \cup B)
  <2>1. ASSUME NEW k \in E \cup B, t[k] \in Cluster PROVE t[k] \in E \cup B
    BY <1>4, <1>9, <2>1 DEF ClosedIn
  <2>2. ASSUME NEW l \in LinkIn(s, E \cup B) PROVE On(s, l).first \in E \cup B
    <3>1. E \cup B \in SUBSET Cluster
      BY <1>4, <1>9
    <3>2. l[1] \in E \cup B /\ l[2] \in 1 .. SLOTS /\ l = <<l[1], l[2]>> /\ Leads(s, l)
      BY <3>1, LinkFacts
    <3>3. CASE l[1] \in B
      <4>1. l \in LinkIn(s, B)
        BY <3>2, <3>3 DEF LinkIn
      <4> QED BY <1>4, <4>1 DEF ClosedIn
    <3>4. CASE l[1] \in E /\ l # m
      <4>1. l \in D \X (1 .. SLOTS) /\ l \in E \X (1 .. SLOTS)
        BY <1>8, <3>2, <3>4
      <4>2. l \in LinkIn(r, E) /\ On(r, l) = On(s, l)
        BY <1>5, <3>2, <3>4, <4>1 DEF LinkIn
      <4> QED BY <1>9, <4>2 DEF ClosedIn
    <3>5. CASE l = m
      BY <1>1, <3>5
    <3> QED BY <3>2, <3>3, <3>4, <3>5
  <2> QED BY <2>1, <2>2 DEF ClosedIn
<1>11. O \subseteq E \cup B
  <2>1. E \cup B \in SUBSET Cluster /\ RootDirCluster \in E \cup B
    BY <1>4, <1>9
  <2> QED BY <1>10, <2>1, BelowLeast DEF OwnedIn
<1>12. E = D
  BY <1>1, <1>8, <1>11
<1> QED BY <1>6, <1>12 DEF E

\* With an entry at m the chain H is reached too.
LEMMA OwnedGrow ==
    ASSUME NEW t, NEW s \in Disk, NEW u, NEW r \in Disk, NEW m, NEW x,
           NEW O, O = OwnedIn(t, s), m \in O \X (1 .. SLOTS),
           ~Leads(s, m), Leads(r, m), ListsOn(u),
           NEW H, H = ChainSet(u, On(r, m).first), H \cap O = {},
           \A k \in O : u[k] = t[k],
           \A l \in O \X (1 .. SLOTS) : l # m => On(r, l) = On(s, l),
           \A l \in H \X (1 .. SLOTS) : ~Leads(r, l)
    PROVE  /\ OwnedIn(u, r) = O \cup H
           /\ LinkIn(r, O \cup H) = LinkIn(s, O) \cup {m}
           /\ m \notin LinkIn(s, O)
<1> DEFINE c == On(r, m).first
           E == OwnedIn(u, r)
           D == O \cup H
<1>1. RootDirCluster \in Cluster
  BY Constants
<1>2. O \in SUBSET Cluster /\ RootDirCluster \in O /\ ClosedIn(t, s, O)
  BY <1>1, BelowClosed DEF OwnedIn
<1>3. m \in LinkIn(r, O)
  BY DEF LinkIn
<1>4. c \in Cluster
  BY <1>2, <1>3, LinkFacts
<1>5. H \in SUBSET Cluster /\ c \in H
  BY <1>4, ChainFacts
<1>6. \A l \in D \X (1 .. SLOTS) : l \in O \X (1 .. SLOTS) \/ l \in H \X (1 .. SLOTS)
  OBVIOUS
<1>7. \A l \in O \X (1 .. SLOTS) : l # m => (Leads(r, l) <=> Leads(s, l))
  BY DEF Leads
<1>8. LinkIn(r, D) = LinkIn(s, O) \cup {m}
  <2>1. ASSUME NEW l \in LinkIn(r, D) PROVE l \in LinkIn(s, O) \cup {m}
    <3>1. l \in D \X (1 .. SLOTS) /\ Leads(r, l)
      BY DEF LinkIn
    <3> QED BY <1>6, <1>7, <3>1 DEF LinkIn
  <2>2. ASSUME NEW l \in LinkIn(s, O) PROVE l \in LinkIn(r, D)
    <3>1. l \in O \X (1 .. SLOTS) /\ Leads(s, l) /\ l # m
      BY DEF LinkIn
    <3>2. l \in D \X (1 .. SLOTS)
      BY <3>1
    <3> QED BY <1>7, <3>1, <3>2 DEF LinkIn
  <2>3. m \in LinkIn(r, D)
    <3>1. m \in D \X (1 .. SLOTS)
      OBVIOUS
    <3> QED BY <3>1 DEF LinkIn
  <2> HIDE DEF D
  <2> QED BY <2>1, <2>2, <2>3
<1>9. \A k \in H : u[k] \in Cluster => u[k] \in H
  <2> SUFFICES ASSUME NEW k \in H, u[k] \in Cluster PROVE u[k] \in H
    OBVIOUS
  <2> DEFINE q == ChainIn(u, c)
  <2>1. IsList(u, c, q)
    BY ChainList
  <2>2. /\ q \in Seq(Cluster) /\ Len(q) \in Nat
        /\ \A i \in 1 .. Len(q) : q[i] \in Cluster /\ q[i] \in H
        /\ \A j \in H : \E i \in 1 .. Len(q) : j = q[i]
    BY ChainFacts
  <2> HIDE DEF q
  <2>3. PICK i \in 1 .. Len(q) : k = q[i]
    BY <2>2
  <2>4. CASE i = Len(q)
    BY <1>4, <2>1, <2>3, <2>4 DEF IsList
  <2>5. CASE i # Len(q)
    <3>1. i \in 1 .. Len(q) - 1 /\ i + 1 \in 1 .. Len(q)
      BY <2>2, <2>5
    <3>2. u[q[i]] = q[i + 1]
      BY <2>1, <3>1 DEF IsList
    <3> QED BY <2>2, <2>3, <3>1, <3>2
  <2> QED BY <2>4, <2>5
<1>10. ClosedIn(u, r, D)
  <2>1. ASSUME NEW k \in D, u[k] \in Cluster PROVE u[k] \in D
    BY <1>2, <1>9, <2>1 DEF ClosedIn
  <2>2. ASSUME NEW l \in LinkIn(r, D) PROVE On(r, l).first \in D
    <3>1. CASE l = m
      BY <1>5, <3>1
    <3>2. CASE l # m
      <4>1. l \in LinkIn(s, O)
        BY <1>8, <3>2
      <4>2. On(r, l) = On(s, l)
        BY <3>2, <4>1 DEF LinkIn
      <4> QED BY <1>2, <4>1, <4>2 DEF ClosedIn
    <3> QED BY <3>1, <3>2
  <2> HIDE DEF D
  <2> QED BY <2>1, <2>2 DEF ClosedIn
<1>11. E \subseteq D
  <2>1. D \in SUBSET Cluster /\ RootDirCluster \in D
    BY <1>2, <1>5
  <2> QED BY <1>10, <2>1, BelowLeast DEF OwnedIn
<1>12. E \in SUBSET Cluster /\ RootDirCluster \in E /\ ClosedIn(u, r, E)
  BY <1>1, BelowClosed DEF OwnedIn
<1> HIDE DEF E
<1>13. ClosedIn(t, s, O \cap E)
  <2>1. ASSUME NEW k \in O \cap E, t[k] \in Cluster PROVE t[k] \in O \cap E
    BY <1>2, <1>12, <2>1 DEF ClosedIn
  <2>2. ASSUME NEW l \in LinkIn(s, O \cap E) PROVE On(s, l).first \in O \cap E
    <3>1. l \in LinkIn(s, O) /\ l # m /\ l \in E \X (1 .. SLOTS) /\ l \in O \X (1 .. SLOTS)
          /\ Leads(s, l)
      BY DEF LinkIn
    <3>2. On(r, l) = On(s, l) /\ l \in LinkIn(r, E)
      BY <1>7, <3>1 DEF LinkIn
    <3> QED BY <1>2, <1>12, <3>1, <3>2 DEF ClosedIn
  <2> QED BY <2>1, <2>2 DEF ClosedIn
<1>14. O \subseteq E
  <2>1. O \cap E \in SUBSET Cluster /\ RootDirCluster \in O \cap E
    BY <1>2, <1>12
  <2>2. O \subseteq O \cap E
    BY <1>13, <2>1, BelowLeast DEF OwnedIn
  <2> QED BY <2>2
<1>15. H \subseteq E
  <2>1. m \in LinkIn(r, E)
    BY <1>14 DEF LinkIn
  <2>2. c \in E
    BY <1>12, <2>1 DEF ClosedIn
  <2>3. \A k \in E : u[k] \in Cluster => u[k] \in E
    BY <1>12 DEF ClosedIn
  <2> QED BY <2>2, <2>3, ChainInside
<1>16. E = D
  BY <1>11, <1>14, <1>15
<1>17. m \notin LinkIn(s, O)
  BY DEF LinkIn
<1> QED BY <1>8, <1>16, <1>17 DEF E

\* A number is a row of n and a place in it.
LEMMA Divide ==
    ASSUME NEW a \in Nat, NEW n \in Nat, n > 0
    PROVE  \E q \in Nat, j \in 0 .. n - 1 : a \div n = q /\ a % n = j /\ a = q * n + j
<1>1. a % n \in 0 .. n - 1 /\ a \div n \in Nat
  OBVIOUS
<1>2. a = (a \div n) * n + (a % n)
  OBVIOUS
<1> WITNESS a \div n \in Nat, a % n \in 0 .. n - 1
<1> QED BY <1>2

\* Row and place of a number are unique.
LEMMA DivideOne ==
    ASSUME NEW q \in Nat, NEW j \in Nat, NEW p \in Nat, NEW i \in Nat, NEW n \in Nat,
           j < n, i < n, q * n + j = p * n + i
    PROVE  q = p /\ j = i
<1>1. CASE q < p
  <2>1. p - q \in Nat /\ p - q >= 1 /\ p = q + (p - q)
    BY <1>1
  <2>2. \A d \in Nat : d >= 1 => d * n >= n
    <3>1. \A d \in Nat : d >= 1 => d * n = n + (d - 1) * n /\ d - 1 \in Nat
      OBVIOUS
    <3>2. \A d \in Nat : d * n \in Nat
      OBVIOUS
    <3> QED BY <3>1, <3>2
  <2>3. p * n = q * n + (p - q) * n
    BY <2>1
  <2>4. (p - q) * n >= n /\ q * n \in Nat /\ (p - q) * n \in Nat
    BY <2>1, <2>2
  <2> QED BY <2>3, <2>4
<1>2. CASE p < q
  <2>1. q - p \in Nat /\ q - p >= 1 /\ q = p + (q - p)
    BY <1>2
  <2>2. \A d \in Nat : d >= 1 => d * n >= n
    <3>1. \A d \in Nat : d >= 1 => d * n = n + (d - 1) * n /\ d - 1 \in Nat
      OBVIOUS
    <3>2. \A d \in Nat : d * n \in Nat
      OBVIOUS
    <3> QED BY <3>1, <3>2
  <2>3. q * n = p * n + (q - p) * n
    BY <2>1
  <2>4. (q - p) * n >= n /\ p * n \in Nat /\ (q - p) * n \in Nat
    BY <2>1, <2>2
  <2> QED BY <2>3, <2>4
<1>3. CASE q = p
  BY <1>3
<1> QED BY <1>1, <1>2, <1>3

\* Rows of SLOTS.
LEMMA Rows ==
    /\ \A d \in Nat : d * SLOTS \in Nat /\ (d + 1) * SLOTS = d * SLOTS + SLOTS
    /\ \A a, b \in Nat : a <= b => a * SLOTS <= b * SLOTS
<1> DEFINE S == SLOTS
<1>1. S \in Nat /\ S > 0
  BY Constants
<1> HIDE DEF S
<1>2. \A d \in Nat : d * S \in Nat /\ (d + 1) * S = d * S + S
  BY <1>1
<1>3. ASSUME NEW a \in Nat, NEW b \in Nat, a <= b PROVE a * S <= b * S
  <2>1. b - a \in Nat /\ b * S = a * S + (b - a) * S
    BY <1>1, <1>3
  <2>2. (b - a) * S \in Nat /\ a * S \in Nat
    BY <1>2, <2>1
  <2> QED BY <2>1, <2>2
<1> QED BY <1>2, <1>3 DEF S

\* A piece's number gives its cluster in the chain and its slot there ...
LEMMA SlotOf ==
    ASSUME NEW n \in Nat, NEW k \in 1 .. n * SLOTS
    PROVE  /\ (k - 1) \div SLOTS + 1 \in 1 .. n /\ ((k - 1) % SLOTS) + 1 \in 1 .. SLOTS
           /\ k = ((k - 1) \div SLOTS) * SLOTS + (((k - 1) % SLOTS) + 1)
<1> DEFINE S == SLOTS
           a == k - 1
<1>1. S \in Nat /\ S > 0 /\ n * S \in Nat
      /\ (\A d \in Nat : d * S \in Nat) /\ (\A c, d \in Nat : c <= d => c * S <= d * S)
  BY Constants, Rows
<1>2. a \in Nat /\ a < n * S /\ k = a + 1
  BY <1>1
<1> HIDE DEF a, S
<1>3. PICK q \in Nat, j \in 0 .. S - 1 : a \div S = q /\ a % S = j /\ a = q * S + j
  BY <1>1, <1>2, Divide
<1>4. q < n
  <2>1. ASSUME q >= n PROVE FALSE
    <3>1. n * S <= q * S /\ q * S \in Nat
      BY <1>1, <2>1
    <3> QED BY <1>1, <1>2, <1>3, <3>1
  <2> QED BY <2>1
<1>5. q * S \in Nat
  BY <1>1
<1>6. q + 1 \in 1 .. n /\ j + 1 \in 1 .. S /\ k = q * S + (j + 1)
  BY <1>1, <1>2, <1>3, <1>4, <1>5
<1> QED BY <1>3, <1>6 DEF a, S

\* ... and the two give the number.
LEMMA SlotAt ==
    ASSUME NEW n \in Nat, NEW q \in 1 .. n, NEW j \in 1 .. SLOTS, NEW k, k = (q - 1) * SLOTS + j
    PROVE  k \in 1 .. n * SLOTS /\ (k - 1) \div SLOTS + 1 = q /\ ((k - 1) % SLOTS) + 1 = j
<1> DEFINE S == SLOTS
           d == q - 1
           i == j - 1
           a == k - 1
<1>1. S \in Nat /\ S > 0 /\ n * S \in Nat
      /\ (\A e \in Nat : e * S \in Nat /\ (e + 1) * S = e * S + S)
      /\ (\A c, e \in Nat : c <= e => c * S <= e * S)
  BY Constants, Rows
<1>2. d \in Nat /\ d + 1 <= n /\ d + 1 = q /\ i \in Nat /\ i < S /\ i + 1 = j /\ k = d * S + j
  BY <1>1
<1> HIDE DEF S, d
<1>3. d * S \in Nat /\ (d + 1) * S = d * S + S /\ (d + 1) * S <= n * S
  BY <1>1, <1>2
<1>4. a = d * S + i /\ a \in Nat /\ k \in 1 .. n * S
  BY <1>1, <1>2, <1>3
<1> HIDE DEF i, a
<1>5. PICK p \in Nat, o \in 0 .. S - 1 : a \div S = p /\ a % S = o /\ a = p * S + o
  BY <1>1, <1>4, Divide, ZenonT(40)
<1>6. p = d /\ o = i
  <2>1. o \in Nat /\ o < S /\ p * S + o = d * S + i
    BY <1>1, <1>4, <1>5
  <2> QED BY <1>1, <1>2, <1>5, <2>1, DivideOne
<1>7. a \div S + 1 = q /\ (a % S) + 1 = j
  BY <1>2, <1>5, <1>6
<1> QED BY <1>4, <1>7 DEF a, S

--------------------------------------------------------------------------------
\* Pieces of a chain, and searches in them.
PiecesIn(t, c) ==
    LET chain == ChainIn(t, c)
    IN  [k \in 1 .. Len(chain) * SLOTS |->
            <<chain[(k - 1) \div SLOTS + 1], ((k - 1) % SLOTS) + 1>>]

\* The driver's search of a directory (fat.c:324-335), its search for a free
\* slot, and what it reads of a file, on any table and disk.
FindOn(s, locs, name) ==
    LET stops == {k \in DOMAIN locs : On(s, locs[k]) = Never \/ Named(On(s, locs[k]), name)}
    IN  IF stops = {} \/ On(s, locs[Min(stops)]) = Never THEN Missing ELSE locs[Min(stops)]

FreeSlotIn(t, s, c) ==
    LET locs == PiecesIn(t, c)
        free == {k \in DOMAIN locs : On(s, locs[k]) \in {Never, Erased}}
    IN  IF free = {} THEN Missing ELSE locs[Min(free)]

ReadableIn(t, e) ==
    IF e.dir THEN PiecesIn(t, e.first) ELSE UpTo(PiecesIn(t, e.first), e.size)

\* The pieces are those of the clusters of the chain, each once.
LEMMA PieceFacts ==
    ASSUME NEW t, NEW c, ListsOn(t)
    PROVE  /\ DOMAIN PiecesIn(t, c) = 1 .. Len(ChainIn(t, c)) * SLOTS
           /\ Len(ChainIn(t, c)) * SLOTS \in Nat
           /\ PiecesIn(t, c) \in Seq(Location)
           /\ Len(PiecesIn(t, c)) = Len(ChainIn(t, c)) * SLOTS
           /\ \A k \in DOMAIN PiecesIn(t, c) :
                 /\ PiecesIn(t, c)[k] \in Location
                 /\ PiecesIn(t, c)[k] \in ChainSet(t, c) \X (1 .. SLOTS)
                 /\ PiecesIn(t, c)[k][1] \in ChainSet(t, c)
           /\ \A l \in ChainSet(t, c) \X (1 .. SLOTS) :
                 \E k \in DOMAIN PiecesIn(t, c) : PiecesIn(t, c)[k] = l
           /\ \A i, k \in DOMAIN PiecesIn(t, c) : PiecesIn(t, c)[i] = PiecesIn(t, c)[k] => i = k
           /\ \A q \in 1 .. Len(ChainIn(t, c)), j \in 1 .. SLOTS :
                 /\ (q - 1) * SLOTS + j \in DOMAIN PiecesIn(t, c)
                 /\ PiecesIn(t, c)[(q - 1) * SLOTS + j] = <<ChainIn(t, c)[q], j>>
           /\ \A k \in DOMAIN PiecesIn(t, c) :
                 \E q \in 1 .. Len(ChainIn(t, c)), j \in 1 .. SLOTS : k = (q - 1) * SLOTS + j
           /\ c \notin Cluster => DOMAIN PiecesIn(t, c) = {} /\ PiecesIn(t, c) = <<>>
<1> DEFINE s == ChainIn(t, c)
           P == PiecesIn(t, c)
           row(k) == (k - 1) \div SLOTS + 1
           place(k) == ((k - 1) % SLOTS) + 1
<1>1. /\ s \in Seq(Cluster) /\ Len(s) \in Nat /\ ChainSet(t, c) \subseteq Cluster
      /\ \A i \in 1 .. Len(s) : s[i] \in Cluster /\ s[i] \in ChainSet(t, c)
      /\ \A k \in ChainSet(t, c) : \E i \in 1 .. Len(s) : k = s[i]
      /\ c \notin Cluster => s = <<>>
  BY ChainFacts
<1>2. \A i, j \in 1 .. Len(s) : s[i] = s[j] => i = j
  BY ChainList DEF IsList
<1>3. P = [k \in 1 .. Len(s) * SLOTS |-> <<s[row(k)], place(k)>>]
  BY Zenon DEF PiecesIn
<1> HIDE DEF s, P
<1>4. /\ Len(s) * SLOTS \in Nat
      /\ \A k \in 1 .. Len(s) * SLOTS :
            row(k) \in 1 .. Len(s) /\ place(k) \in 1 .. SLOTS /\ k = (row(k) - 1) * SLOTS + place(k)
      /\ \A q \in 1 .. Len(s), j \in 1 .. SLOTS :
            /\ (q - 1) * SLOTS + j \in 1 .. Len(s) * SLOTS
            /\ row((q - 1) * SLOTS + j) = q /\ place((q - 1) * SLOTS + j) = j
  <2> DEFINE n == Len(s)
  <2>0. n \in Nat /\ n * SLOTS \in Nat
    BY <1>1, Rows
  <2> HIDE DEF n
  <2>1. ASSUME NEW k \in 1 .. n * SLOTS
        PROVE  row(k) \in 1 .. n /\ place(k) \in 1 .. SLOTS
               /\ k = ((k - 1) \div SLOTS) * SLOTS + place(k)
    BY <2>0, SlotOf
  <2>2. ASSUME NEW k \in 1 .. n * SLOTS PROVE k = (row(k) - 1) * SLOTS + place(k)
    <3>1. (k - 1) \div SLOTS \in Int
      BY <2>0, Constants
    <3>2. row(k) - 1 = (k - 1) \div SLOTS
      BY <3>1
    <3> HIDE DEF row, place
    <3> QED BY <2>1, <3>2
  <2>3. ASSUME NEW q \in 1 .. n, NEW j \in 1 .. SLOTS, NEW k, k = (q - 1) * SLOTS + j
        PROVE  k \in 1 .. n * SLOTS /\ row(k) = q /\ place(k) = j
    BY <2>0, <2>3, SlotAt
  <2> HIDE DEF row, place
  <2> QED BY <2>0, <2>1, <2>2, <2>3 DEF n
<1> HIDE DEF row, place
<1>5. DOMAIN P = 1 .. Len(s) * SLOTS /\ \A k \in DOMAIN P : P[k] = <<s[row(k)], place(k)>>
  BY <1>3
<1>6. ASSUME NEW k \in DOMAIN P
      PROVE  P[k] \in Location /\ P[k] \in ChainSet(t, c) \X (1 .. SLOTS) /\ P[k][1] \in ChainSet(t, c)
  <2>1. s[row(k)] \in Cluster /\ s[row(k)] \in ChainSet(t, c) /\ place(k) \in 1 .. SLOTS
    BY <1>1, <1>4, <1>5
  <2>2. P[k] = <<s[row(k)], place(k)>>
    BY <1>5
  <2>3. P[k][1] = s[row(k)]
    BY <2>2
  <2> QED BY <2>1, <2>2, <2>3 DEF Location
<1>7. P \in Seq(Location) /\ Len(P) = Len(s) * SLOTS
  <2>1. P \in [1 .. Len(s) * SLOTS -> Location]
    BY <1>3, <1>5, <1>6
  <2> QED BY <1>4, <2>1, SMTT(30)
<1>8. ASSUME NEW q \in 1 .. Len(s), NEW j \in 1 .. SLOTS
      PROVE  (q - 1) * SLOTS + j \in DOMAIN P /\ P[(q - 1) * SLOTS + j] = <<s[q], j>>
  BY <1>4, <1>5
<1>9. ASSUME NEW l \in ChainSet(t, c) \X (1 .. SLOTS) PROVE \E k \in DOMAIN P : P[k] = l
  <2>1. PICK q \in 1 .. Len(s) : l[1] = s[q]
    BY <1>1
  <2>2. l[2] \in 1 .. SLOTS /\ l = <<s[q], l[2]>>
    BY <2>1
  <2> QED BY <1>8, <2>2
<1>10. ASSUME NEW i \in DOMAIN P, NEW k \in DOMAIN P, P[i] = P[k] PROVE i = k
  <2>1. s[row(i)] = s[row(k)] /\ place(i) = place(k)
    BY <1>5, <1>10
  <2>2. row(i) = row(k)
    BY <1>2, <1>4, <1>5, <2>1
  <2> QED BY <1>4, <1>5, <2>1, <2>2
<1>11. ASSUME NEW k \in DOMAIN P
       PROVE  \E q \in 1 .. Len(s), j \in 1 .. SLOTS : k = (q - 1) * SLOTS + j
  BY <1>4, <1>5
<1>12. ASSUME c \notin Cluster PROVE DOMAIN P = {} /\ P = <<>>
  <2>1. Len(s) = 0 /\ Len(s) * SLOTS = 0
    BY <1>1, <1>12, Constants
  <2> QED BY <1>5, <1>7, <2>1
<1> QED BY <1>4, <1>5, <1>6, <1>7, <1>8, <1>9, <1>10, <1>11, <1>12 DEF s, P

\* The search stops at place k, with what it looks for.
Hit(s, locs, name, k) ==
    /\ k \in DOMAIN locs /\ Named(On(s, locs[k]), name)
    /\ \A i \in DOMAIN locs : i < k => On(s, locs[i]) # Never /\ ~Named(On(s, locs[i]), name)

\* The search finds nothing, or what it stopped at first.
LEMMA FindIs ==
    ASSUME NEW s, NEW locs, DOMAIN locs \in SUBSET Nat, NEW name,
           \A k \in DOMAIN locs : locs[k] # Missing
    PROVE  /\ \A k : Hit(s, locs, name, k) => FindOn(s, locs, name) = locs[k]
           /\ FindOn(s, locs, name) # Missing =>
                 \E k : Hit(s, locs, name, k) /\ FindOn(s, locs, name) = locs[k]
           /\ FindOn(s, locs, name) = Missing =>
                 \A k \in DOMAIN locs : Named(On(s, locs[k]), name) =>
                    \E i \in DOMAIN locs : i < k /\ On(s, locs[i]) = Never
<1> DEFINE T == {k \in DOMAIN locs : On(s, locs[k]) = Never \/ Named(On(s, locs[k]), name)}
<1>1. T \in SUBSET Nat
  OBVIOUS
<1>2. FindOn(s, locs, name)
        = IF T = {} \/ On(s, locs[Min(T)]) = Never THEN Missing ELSE locs[Min(T)]
  BY DEF FindOn
<1>3. T # {} => Min(T) \in T /\ \A n \in T : Min(T) <= n
  BY <1>1, MinIs
<1>4. \A k \in DOMAIN locs : Named(On(s, locs[k]), name) => On(s, locs[k]) # Never
  BY DEF Named, IsEntry
<1>5. ASSUME NEW k, Hit(s, locs, name, k) PROVE FindOn(s, locs, name) = locs[k]
  <2>1. k \in T /\ On(s, locs[k]) # Never /\ \A n \in T : n \in Nat /\ ~(n < k)
    BY <1>1, <1>4, <1>5 DEF Hit
  <2> DEFINE m == Min(T)
  <2>2. m \in T /\ m <= k
    BY <1>3, <2>1
  <2> HIDE DEF T, m
  <2>3. m = k
    BY <1>1, <2>1, <2>2
  <2> QED BY <1>2, <2>1, <2>3 DEF m
<1>6. ASSUME FindOn(s, locs, name) # Missing
      PROVE  \E k : Hit(s, locs, name, k) /\ FindOn(s, locs, name) = locs[k]
  <2> DEFINE m == Min(T)
  <2>1. T # {} /\ On(s, locs[m]) # Never /\ FindOn(s, locs, name) = locs[m]
    BY <1>2, <1>6
  <2>2. m \in T /\ \A n \in T : m <= n
    BY <1>3, <2>1
  <2> HIDE DEF m
  <2>3. m \in DOMAIN locs /\ Named(On(s, locs[m]), name)
    BY <2>1, <2>2
  <2>4. ASSUME NEW i \in DOMAIN locs, i < m
        PROVE  On(s, locs[i]) # Never /\ ~Named(On(s, locs[i]), name)
    <3>1. i \in Nat /\ m \in Nat /\ ~(m <= i)
      BY <2>3, <2>4
    <3>2. i \notin T
      BY <2>2, <3>1
    <3> QED BY <2>4, <3>2
  <2> HIDE DEF T
  <2>5. Hit(s, locs, name, m)
    BY <2>3, <2>4 DEF Hit
  <2> QED BY <2>1, <2>5
<1>7. ASSUME FindOn(s, locs, name) = Missing, NEW k \in DOMAIN locs, Named(On(s, locs[k]), name)
      PROVE  \E i \in DOMAIN locs : i < k /\ On(s, locs[i]) = Never
  <2> DEFINE m == Min(T)
  <2>1. k \in T /\ On(s, locs[k]) # Never
    BY <1>4, <1>7
  <2>2. m \in T /\ m <= k
    BY <1>3, <2>1
  <2>3. m \in DOMAIN locs
    BY <2>2
  <2> HIDE DEF m, T
  <2>4. On(s, locs[m]) = Never
    BY <1>2, <1>7, <2>1, <2>3 DEF m
  <2>5. m # k /\ m \in Nat /\ k \in Nat
    BY <2>1, <2>3, <2>4
  <2> QED BY <2>2, <2>3, <2>4, <2>5
<1> HIDE DEF T
<1> QED BY <1>5, <1>6, <1>7

\* A search that ends at place k ends there as well where nothing in front of
\* it became what it looks for, or the end mark.
LEMMA HitSame ==
    ASSUME NEW s, NEW r, NEW locs, NEW name, NEW k, Hit(s, locs, name, k),
           \A i \in DOMAIN locs : i <= k =>
              \/ On(r, locs[i]) = On(s, locs[i])
              \/ i # k /\ On(r, locs[i]) # Never /\ ~Named(On(r, locs[i]), name)
              \/ i = k /\ Named(On(r, locs[i]), name),
           DOMAIN locs \in SUBSET Nat
    PROVE  Hit(r, locs, name, k)
<1>1. k \in DOMAIN locs /\ k \in Nat /\ k <= k
  BY DEF Hit
<1>2. Named(On(r, locs[k]), name)
  BY <1>1 DEF Hit
<1>3. ASSUME NEW i \in DOMAIN locs, i < k
      PROVE  On(r, locs[i]) # Never /\ ~Named(On(r, locs[i]), name)
  <2>1. i <= k /\ i # k
    BY <1>1, <1>3
  <2>2. On(s, locs[i]) # Never /\ ~Named(On(s, locs[i]), name)
    BY <1>3 DEF Hit
  <2> QED BY <2>1, <2>2
<1> QED BY <1>1, <1>2, <1>3 DEF Hit

\* Where the pieces are the same, so is what a search finds.
LEMMA FindSame ==
    ASSUME NEW s, NEW r, NEW locs, NEW name,
           DOMAIN locs \in SUBSET Nat,
           \A k \in DOMAIN locs : On(r, locs[k]) = On(s, locs[k])
    PROVE  FindOn(r, locs, name) = FindOn(s, locs, name)
<1> DEFINE T(d) == {k \in DOMAIN locs : On(d, locs[k]) = Never \/ Named(On(d, locs[k]), name)}
           F(d) == IF T(d) = {} \/ On(d, locs[Min(T(d))]) = Never THEN Missing ELSE locs[Min(T(d))]
<1>1. T(r) = T(s)
  OBVIOUS
<1>2. T(s) # {} => F(r) = F(s)
  <2> SUFFICES ASSUME T(s) # {} PROVE F(r) = F(s)
    OBVIOUS
  <2>1. Min(T(s)) \in T(s)
    BY MinIs
  <2> QED BY <1>1, <2>1
<1> QED BY <1>1, <1>2 DEF FindOn

\* A slot that is free, and none in front of it.
LEMMA FreeFound ==
    ASSUME NEW t, NEW s, NEW c, ListsOn(t), FreeSlotIn(t, s, c) # Missing
    PROVE  \E k \in DOMAIN PiecesIn(t, c) :
              /\ FreeSlotIn(t, s, c) = PiecesIn(t, c)[k]
              /\ On(s, PiecesIn(t, c)[k]) \in {Never, Erased}
              /\ \A i \in DOMAIN PiecesIn(t, c) :
                    i < k => On(s, PiecesIn(t, c)[i]) \notin {Never, Erased}
<1> DEFINE P == PiecesIn(t, c)
           T == {k \in DOMAIN P : On(s, P[k]) \in {Never, Erased}}
           m == Min(T)
<1>1. T \in SUBSET Nat /\ DOMAIN P \in SUBSET Nat
  BY PieceFacts
<1>2. T # {} /\ FreeSlotIn(t, s, c) = P[m]
  BY DEF FreeSlotIn
<1> HIDE DEF P
<1>3. m \in T /\ \A n \in T : m <= n
  BY <1>1, <1>2, MinIs
<1> HIDE DEF m
<1>4. ASSUME NEW i \in DOMAIN P, i < m PROVE On(s, P[i]) \notin {Never, Erased}
  <2>1. i \in Nat /\ m \in Nat /\ ~(m <= i)
    BY <1>1, <1>3, <1>4
  <2> QED BY <1>3, <2>1
<1> QED BY <1>2, <1>3, <1>4 DEF P

\* The search ends at a hit.
LEMMA FindHit ==
    ASSUME NEW s, NEW locs, DOMAIN locs \in SUBSET Nat, NEW name,
           \A k \in DOMAIN locs : locs[k] # Missing, NEW k, Hit(s, locs, name, k)
    PROVE  FindOn(s, locs, name) = locs[k]
BY FindIs

\* Pieces are locations in the chain's clusters.
LEMMA PieceIndex ==
    ASSUME NEW t, NEW c, ListsOn(t)
    PROVE  /\ DOMAIN PiecesIn(t, c) \in SUBSET Nat
           /\ \A k \in DOMAIN PiecesIn(t, c) :
                 /\ PiecesIn(t, c)[k] \in ChainSet(t, c) \X (1 .. SLOTS)
                 /\ PiecesIn(t, c)[k][1] \in ChainSet(t, c)
                 /\ PiecesIn(t, c)[k] \in Location /\ PiecesIn(t, c)[k] # Missing
<1>1. DOMAIN PiecesIn(t, c) = 1 .. Len(ChainIn(t, c)) * SLOTS /\ Len(ChainIn(t, c)) * SLOTS \in Nat
  BY PieceFacts
<1>2. \A k \in DOMAIN PiecesIn(t, c) :
                 /\ PiecesIn(t, c)[k] \in ChainSet(t, c) \X (1 .. SLOTS)
                 /\ PiecesIn(t, c)[k][1] \in ChainSet(t, c)
                 /\ PiecesIn(t, c)[k] \in Location
  BY PieceFacts
<1> QED BY <1>1, <1>2, Constants

--------------------------------------------------------------------------------
\* What a volume is to be like: a table t and a disk s.
HeadsIn(t, s) == {RootDirCluster} \cup {On(s, l).first : l \in LinkIn(s, OwnedIn(t, s))}
DirsIn(t, s) ==
    {RootDirCluster} \cup {On(s, l).first : l \in {l \in LinkIn(s, OwnedIn(t, s)) : On(s, l).dir}}

\* "." is the entry of the cluster that it is in.
Dotted(t, s) ==
    \A l \in OwnedIn(t, s) \X (1 .. SLOTS) :
        Named(On(s, l), Dot) => On(s, l) = DirEntry(Dot, l[1]) /\ l[1] \in HeadsIn(t, s)
\* A directory holds itself and the directory that its entry is in.
Parents(t, s) ==
    \A l \in LinkIn(s, OwnedIn(t, s)) : On(s, l).dir =>
        /\ On(s, <<On(s, l).first, 1>>) = DirEntry(Dot, On(s, l).first)
        /\ \E h \in HeadsIn(t, s) : /\ On(s, <<On(s, l).first, 2>>) = DirEntry(DotDot, h)
                                    /\ l[1] \in ChainSet(t, h)
\* Behind the end mark of a directory there is nothing.
Ended(t, s) ==
    \A d \in DirsIn(t, s) : \A i, k \in DOMAIN PiecesIn(t, d) :
        i < k /\ On(s, PiecesIn(t, d)[i]) = Never => On(s, PiecesIn(t, d)[k]) = Never
\* A file's chain is as long as its size asks for, and no longer.
Sized(t, s) ==
    \A l \in LinkIn(s, OwnedIn(t, s)) : ~On(s, l).dir =>
        /\ (Len(ChainIn(t, On(s, l).first)) - 1) * SLOTS < On(s, l).size
        /\ On(s, l).size <= Len(ChainIn(t, On(s, l).first)) * SLOTS
\* What is within a file's size is its text.
Texts(t, s) ==
    \A l \in LinkIn(s, OwnedIn(t, s)) : ~On(s, l).dir =>
        \A k \in DOMAIN PiecesIn(t, On(s, l).first) :
            k <= On(s, l).size => On(s, PiecesIn(t, On(s, l).first)[k]) \in Text

\* A sound volume.
Sound(t, s) ==
    /\ Unique(t, s) /\ Dotted(t, s) /\ Parents(t, s)
    /\ Ended(t, s) /\ Sized(t, s) /\ Texts(t, s)

\* What is reached is closed, and the root is in it.
LEMMA OwnedFacts ==
    ASSUME NEW t, NEW s \in Disk
    PROVE  /\ OwnedIn(t, s) \in SUBSET Cluster /\ RootDirCluster \in OwnedIn(t, s)
           /\ ClosedIn(t, s, OwnedIn(t, s))
           /\ OwnedIn(t, s) \X (1 .. SLOTS) \subseteq Location
BY Constants, BelowClosed DEF OwnedIn, Location

\* The chains that the root and the entries lead to are reached.
LEMMA HeadFacts ==
    ASSUME NEW t, NEW s \in Disk, ListsOn(t), NEW h \in HeadsIn(t, s)
    PROVE  /\ h \in Cluster /\ h \in OwnedIn(t, s) /\ h \in ChainSet(t, h)
           /\ ChainSet(t, h) \subseteq OwnedIn(t, s)
<1> DEFINE O == OwnedIn(t, s)
<1>1. O \in SUBSET Cluster /\ RootDirCluster \in O /\ ClosedIn(t, s, O)
  BY OwnedFacts
<1>2. h \in O
  BY <1>1 DEF HeadsIn, ClosedIn
<1>3. h \in Cluster /\ h \in ChainSet(t, h)
  BY <1>1, <1>2, ChainFacts
<1>4. \A k \in O : t[k] \in Cluster => t[k] \in O
  BY <1>1 DEF ClosedIn
<1>5. ChainSet(t, h) \subseteq O
  BY <1>2, <1>4, ChainInside
<1> QED BY <1>2, <1>3, <1>5

\* Two chains that meet are one.
LEMMA HeadsApart ==
    ASSUME NEW t, NEW s \in Disk, ListsOn(t), Unique(t, s),
           NEW h \in HeadsIn(t, s), NEW g \in HeadsIn(t, s),
           NEW k \in ChainSet(t, h), k \in ChainSet(t, g)
    PROVE  h = g
<1> DEFINE O == OwnedIn(t, s)
           a == ChainIn(t, h)
           b == ChainIn(t, g)
           T == {i \in 1 .. Len(a) : a[i] \in ChainSet(t, g)}
<1>1. ChainSet(t, h) \subseteq O /\ ChainSet(t, g) \subseteq O /\ h \in Cluster /\ g \in Cluster
      /\ h \in O /\ g \in O
  BY HeadFacts
<1>2. /\ Len(a) \in Nat /\ Len(a) > 0 /\ a[1] = h
      /\ \A i \in 1 .. Len(a) : a[i] \in Cluster /\ a[i] \in ChainSet(t, h)
      /\ \A j \in ChainSet(t, h) : \E i \in 1 .. Len(a) : j = a[i]
  BY <1>1, ChainFacts
<1>3. /\ Len(b) \in Nat /\ Len(b) > 0 /\ b[1] = g
      /\ \A i \in 1 .. Len(b) : b[i] \in Cluster /\ b[i] \in ChainSet(t, g)
      /\ \A j \in ChainSet(t, g) : \E i \in 1 .. Len(b) : j = b[i]
  BY <1>1, ChainFacts
<1>4. IsList(t, h, a) /\ IsList(t, g, b)
  BY ChainList
<1> HIDE DEF a, b
<1>5. (\A i \in 1 .. Len(a) - 1 : t[a[i]] = a[i + 1]) /\ (\A i \in 1 .. Len(b) - 1 : t[b[i]] = b[i + 1])
  BY <1>4 DEF IsList
<1>6. ASSUME NEW j \in O PROVE t[j] # h /\ t[j] # g
  BY <1>6 DEF Unique, HeadsIn
<1>7. \A i, j \in O : t[i] = t[j] /\ t[i] \in Cluster => i = j
  BY DEF Unique
<1>8. PICK m \in T : \A n \in T : m <= n
  <2>1. T \in SUBSET Nat
    OBVIOUS
  <2>2. T # {}
    BY <1>2
  <2> HIDE DEF T
  <2> QED BY <2>1, <2>2, Least
<1>9. m \in 1 .. Len(a) /\ a[m] \in ChainSet(t, g)
  BY <1>8
<1>10. PICK j \in 1 .. Len(b) : a[m] = b[j]
  BY <1>3, <1>9
<1>11. ASSUME j # 1 PROVE j - 1 \in 1 .. Len(b) - 1 /\ j - 1 \in 1 .. Len(b) /\ t[b[j - 1]] = b[j]
  <2>1. j - 1 \in 1 .. Len(b) - 1 /\ j - 1 \in 1 .. Len(b) /\ (j - 1) + 1 = j
    BY <1>3, <1>10, <1>11
  <2> QED BY <1>5, <2>1
<1>12. ASSUME m # 1 PROVE m - 1 \in 1 .. Len(a) - 1 /\ m - 1 \in 1 .. Len(a) /\ ~(m <= m - 1)
                          /\ t[a[m - 1]] = a[m]
  <2>1. m - 1 \in 1 .. Len(a) - 1 /\ m - 1 \in 1 .. Len(a) /\ (m - 1) + 1 = m /\ ~(m <= m - 1)
    BY <1>2, <1>9, <1>12
  <2> QED BY <1>5, <2>1
<1>13. CASE m = 1
  <2>1. CASE j = 1
    BY <1>2, <1>3, <1>10, <1>13, <2>1
  <2>2. CASE j # 1
    <3>1. b[j - 1] \in O /\ t[b[j - 1]] = h
      BY <1>1, <1>2, <1>3, <1>10, <1>11, <1>13, <2>2
    <3> QED BY <1>6, <3>1
  <2> QED BY <2>1, <2>2
<1>14. CASE m # 1
  <2>1. a[m - 1] \in O /\ t[a[m - 1]] = a[m] /\ a[m] \in Cluster
    BY <1>1, <1>2, <1>9, <1>12, <1>14
  <2>2. j # 1
    <3> SUFFICES ASSUME j = 1 PROVE FALSE
      OBVIOUS
    <3>1. a[m] = g
      BY <1>3, <1>10
    <3> QED BY <1>6, <2>1, <3>1
  <2>3. b[j - 1] \in O /\ b[j - 1] \in ChainSet(t, g) /\ t[b[j - 1]] = a[m]
    BY <1>1, <1>3, <1>10, <1>11, <2>2
  <2>4. a[m - 1] = b[j - 1]
    BY <1>7, <2>1, <2>3
  <2>5. m - 1 \in T
    BY <1>12, <1>14, <2>3, <2>4
  <2> QED BY <1>8, <1>12, <1>14, <2>5
<1> QED BY <1>13, <1>14
--------------------------------------------------------------------------------
\* Opening.
FindEntry(t, s, e, name) ==
    IF e = NoEntry THEN NoEntry
    ELSE LET l == FindOn(s, ReadableIn(t, e), name) IN IF l = Missing THEN NoEntry ELSE On(s, l)

\* Opening a path is taking its names one after the other (fat.c:341-380).
OpenIn(t, s, path) ==
    LET opened[n \in 0 .. Len(path)] ==
            IF n = 0 THEN Root ELSE FindEntry(t, s, opened[n - 1], path[n])
    IN  opened[Len(path)]

\* g are the entries that opening the path goes through.
Trace(t, s, path, g) ==
    /\ g[0] = Root
    /\ \A n \in 1 .. Len(path) : g[n] = FindEntry(t, s, g[n - 1], path[n])

\* There is one such way ...
LEMMA TraceOne ==
    ASSUME NEW t, NEW s, NEW path, Len(path) \in Nat, NEW g, NEW h,
           Trace(t, s, path, g), Trace(t, s, path, h)
    PROVE  \A n \in 0 .. Len(path) : g[n] = h[n]
<1> DEFINE T == {n \in 0 .. Len(path) : g[n] # h[n]}
<1>1. ASSUME T # {} PROVE FALSE
  <2>1. T \in SUBSET Nat
    OBVIOUS
  <2>2. PICK m \in T : \A n \in T : m <= n
    BY <1>1, <2>1, Least
  <2>3. m \in 0 .. Len(path) /\ g[m] # h[m]
    BY <2>2
  <2>4. m # 0
    BY <2>3 DEF Trace
  <2>5. m \in 1 .. Len(path) /\ m - 1 \in 0 .. Len(path) /\ ~(m <= m - 1)
    BY <2>3, <2>4
  <2>6. g[m - 1] = h[m - 1]
    BY <2>2, <2>5
  <2> QED BY <2>3, <2>5, <2>6 DEF Trace
<1> QED BY <1>1

\* ... and opening ends where it does.
LEMMA OpenTrace ==
    ASSUME NEW t, NEW s, NEW path, Len(path) \in Nat
    PROVE  \E g : Trace(t, s, path, g) /\ OpenIn(t, s, path) = g[Len(path)]
<1> DEFINE F(e, n) == IF n = 0 THEN Root ELSE FindEntry(t, s, e, path[n])
           Is(f, m) == f = [n \in 0 .. m |-> F(f[n - 1], n)]
           T == {m \in Nat : ~ \E f : Is(f, m)}
           opened == CHOOSE f : f = [n \in 0 .. Len(path) |->
                        IF n = 0 THEN Root ELSE FindEntry(t, s, f[n - 1], path[n])]
<1> HIDE DEF F
<1>1. ASSUME T # {} PROVE FALSE
  <2>1. PICK m \in T : \A n \in T : m <= n
    BY <1>1, Least
  <2>2. CASE m = 0
    <3> DEFINE f == [n \in 0 .. 0 |-> Root]
    <3>1. \A n \in 0 .. 0 : f[n] = F(f[n - 1], n)
      BY DEF F
    <3>2. Is(f, m)
      BY <2>2, <3>1
    <3> HIDE DEF Is, f
    <3> QED BY <2>1, <3>2
  <2>3. CASE m # 0
    <3>1. m - 1 \in Nat /\ ~(m <= m - 1) /\ m \in Nat
      BY <2>1, <2>3
    <3>2. PICK f : Is(f, m - 1)
      BY <2>1, <3>1
    <3> DEFINE h == [n \in 0 .. m |-> IF n = m THEN F(f[m - 1], m) ELSE f[n]]
    <3>3. ASSUME NEW n \in 0 .. m PROVE h[n] = F(h[n - 1], n)
      <4>1. CASE n = 0
        BY <2>3, <3>1, <3>2, <4>1 DEF F
      <4>2. CASE n # 0 /\ n = m
        BY <3>1, <4>2
      <4>3. CASE n # 0 /\ n # m
        <5>1. n \in 0 .. m - 1 /\ n - 1 \in 0 .. m /\ n - 1 # m
          BY <3>1, <4>3
        <5>2. h[n] = f[n] /\ h[n - 1] = f[n - 1]
          BY <4>3, <5>1
        <5> QED BY <3>2, <5>1, <5>2
      <4> QED BY <4>1, <4>2, <4>3
    <3>4. Is(h, m)
      BY <3>3
    <3> HIDE DEF Is, h
    <3> QED BY <2>1, <3>4
  <2> QED BY <2>2, <2>3
<1>2. \E f : Is(f, Len(path))
  BY <1>1
<1>3. opened = [n \in 0 .. Len(path) |->
                  IF n = 0 THEN Root ELSE FindEntry(t, s, opened[n - 1], path[n])]
  <2>1. PICK f : f = [n \in 0 .. Len(path) |->
                        IF n = 0 THEN Root ELSE FindEntry(t, s, f[n - 1], path[n])]
    BY <1>2 DEF F
  <2> QED BY <2>1
<1>4. OpenIn(t, s, path) = opened[Len(path)]
  BY DEF OpenIn
<1> HIDE DEF opened
<1>5. Trace(t, s, path, opened)
  BY <1>3 DEF Trace
<1> QED BY <1>4, <1>5

\* A path is that of its directory and a last name.
LEMMA PathEnds ==
    ASSUME NEW X, NEW path \in Seq(X), path # <<>>
    PROVE  /\ Len(path) \in Nat /\ Len(path) > 0
           /\ Front(path) \in Seq(X) /\ Len(Front(path)) = Len(path) - 1
           /\ Last(path) = path[Len(path)]
           /\ \A n \in 1 .. Len(path) - 1 : Front(path)[n] = path[n]
<1>1. Len(path) \in Nat /\ Len(path) > 0
  OBVIOUS
<1>2. Front(path) = SubSeq(path, 1, Len(path) - 1) /\ Last(path) = path[Len(path)]
  BY DEF Front, Last
<1>3. Front(path) \in Seq(X) /\ Len(Front(path)) = Len(path) - 1
      /\ \A n \in 1 .. Len(path) - 1 : Front(path)[n] = path[n]
  <2> DEFINE m == Len(path) - 1
             f == SubSeq(path, 1, m)
  <2>1. m \in Nat /\ m <= Len(path)
    BY <1>1
  <2>2. f \in Seq(X)
    BY <1>1, <2>1
  <2>3. Len(f) = m
    <3>1. \A n \in Nat : n <= Len(path) => Len(SubSeq(path, 1, n)) = n
      BY <1>1
    <3> QED BY <2>1, <3>1
  <2>4. \A n \in 1 .. m : f[n] = path[n]
    BY <1>1, <2>1
  <2> QED BY <1>2, <2>2, <2>3, <2>4
<1> QED BY <1>1, <1>2, <1>3

\* Opening it is opening the directory and finding the name.
LEMMA OpenLast ==
    ASSUME NEW t, NEW s, NEW path, Len(path) \in Nat, Len(path) > 0,
           Len(Front(path)) = Len(path) - 1, Last(path) = path[Len(path)],
           \A n \in 1 .. Len(path) - 1 : Front(path)[n] = path[n]
    PROVE  OpenIn(t, s, path) = FindEntry(t, s, OpenIn(t, s, Front(path)), Last(path))
<1>1. PICK g : Trace(t, s, path, g) /\ OpenIn(t, s, path) = g[Len(path)]
  BY OpenTrace
<1>2. Trace(t, s, Front(path), g)
  BY <1>1 DEF Trace
<1>3. Len(Front(path)) \in Nat /\ Len(path) - 1 \in Nat
  OBVIOUS
<1>4. PICK h : Trace(t, s, Front(path), h) /\ OpenIn(t, s, Front(path)) = h[Len(path) - 1]
  BY <1>3, OpenTrace, SMTT(30)
<1>5. h[Len(path) - 1] = g[Len(path) - 1]
  BY <1>2, <1>3, <1>4, TraceOne
<1>6. g[Len(path)] = FindEntry(t, s, g[Len(path) - 1], path[Len(path)])
  BY <1>1 DEF Trace
<1> QED BY <1>1, <1>4, <1>5, <1>6

--------------------------------------------------------------------------------
\* What opening goes through on a sound volume.
Opened == Entries \cup {Root, NoEntry}
\* The root and the entries that lead to chains.
Leader(t, s) ==
    {Root} \cup {DirEntry(Dot, h) : h \in HeadsIn(t, s)}
           \cup {On(s, l) : l \in LinkIn(s, OwnedIn(t, s))}

\* What is opened has the fields of an entry.
LEMMA OpenedFacts ==
    ASSUME NEW e \in Opened
    PROVE  e.first \in Cluster \cup {FREE} /\ e.dir \in BOOLEAN /\ e.size \in Nat
<1>1. CASE e \in Entries
  BY <1>1, Constants DEF Entries
<1>2. CASE e = Root
  BY <1>2, Constants DEF Root, DirEntry
<1>3. CASE e = NoEntry
  BY <1>3 DEF NoEntry, FileEntry
<1> QED BY <1>1, <1>2, <1>3 DEF Opened

\* What is read of it: all of a directory, of a file as much as its size.
LEMMA ReadFacts ==
    ASSUME NEW t, NEW e \in Opened, ListsOn(t)
    PROVE  /\ e.dir => ReadableIn(t, e) = PiecesIn(t, e.first)
           /\ DOMAIN ReadableIn(t, e) \in SUBSET Nat
           /\ DOMAIN ReadableIn(t, e) \subseteq DOMAIN PiecesIn(t, e.first)
           /\ \A k \in DOMAIN ReadableIn(t, e) :
                 ReadableIn(t, e)[k] = PiecesIn(t, e.first)[k]
           /\ ~e.dir => \A k \in DOMAIN PiecesIn(t, e.first) :
                           k \in DOMAIN ReadableIn(t, e) <=> k <= e.size
           /\ ~e.dir /\ e.size <= Len(PiecesIn(t, e.first)) =>
                 Len(ReadableIn(t, e)) = e.size /\ DOMAIN ReadableIn(t, e) = 1 .. e.size
<1> DEFINE P == PiecesIn(t, e.first)
           n == e.size
           R == ReadableIn(t, e)
           m == Min({n, Len(P)})
<1>1. P \in Seq(Location) /\ Len(P) \in Nat /\ DOMAIN P = 1 .. Len(P)
  BY PieceFacts
<1>2. n \in Nat /\ e.dir \in BOOLEAN
  BY OpenedFacts
<1>3. m \in Nat /\ m <= Len(P) /\ m <= n /\ (m = n \/ m = Len(P))
  <2>1. {n, Len(P)} \in SUBSET Nat /\ {n, Len(P)} # {}
    BY <1>1, <1>2
  <2> HIDE DEF P, n
  <2>2. m \in {n, Len(P)} /\ \A i \in {n, Len(P)} : m <= i
    BY <2>1, MinIs
  <2> QED BY <1>1, <1>2, <2>2
<1>4. R = IF e.dir THEN P ELSE SubSeq(P, 1, m)
  BY DEF ReadableIn, UpTo
<1> HIDE DEF P, n, R, m
<1>5. CASE e.dir
  BY <1>1, <1>4, <1>5 DEF P, R
<1>6. CASE ~e.dir
  <2>1. R = SubSeq(P, 1, m)
    BY <1>4, <1>6
  <2>2. DOMAIN R = 1 .. m /\ Len(R) = m
    <3>1. \A j \in Nat : j <= Len(P) => Len(SubSeq(P, 1, j)) = j /\ DOMAIN SubSeq(P, 1, j) = 1 .. j
      BY <1>1
    <3> QED BY <1>3, <2>1, <3>1
  <2>3. \A k \in 1 .. m : R[k] = P[k]
    <3>1. \A j \in Nat : j <= Len(P) => \A k \in 1 .. j : SubSeq(P, 1, j)[k] = P[k]
      BY <1>1
    <3> QED BY <1>3, <2>1, <3>1
  <2> DEFINE p == Len(P)
  <2>0. p \in Nat /\ DOMAIN P = 1 .. p /\ m \in Nat /\ m <= p /\ m <= n /\ (m = n \/ m = p) /\ n \in Nat
    BY <1>1, <1>2, <1>3
  <2> HIDE DEF p
  <2>4. \A k \in DOMAIN P : k \in DOMAIN R <=> k <= n
    BY <2>0, <2>2
  <2>5. n <= p => m = n
    BY <2>0
  <2>6. DOMAIN R \in SUBSET Nat /\ DOMAIN R \subseteq DOMAIN P
    BY <2>0, <2>2
  <2>7. \A k \in DOMAIN R : R[k] = P[k]
    BY <2>2, <2>3
  <2>8. n <= Len(P) => Len(R) = n /\ DOMAIN R = 1 .. n
    BY <2>2, <2>5 DEF p
  <2> QED BY <1>6, <2>4, <2>6, <2>7, <2>8 DEF p, P, n, R
<1> QED BY <1>2, <1>5, <1>6

\* Nothing is found where there is no chain.
LEMMA FindNothing ==
    ASSUME NEW t, NEW s, NEW e \in Opened, e.first = FREE, ListsOn(t), NEW name
    PROVE  FindEntry(t, s, e, name) = NoEntry
<1>1. DOMAIN PiecesIn(t, e.first) = {}
  BY Constants, PieceFacts
<1>2. DOMAIN ReadableIn(t, e) = {}
  BY <1>1, ReadFacts
<1>3. FindOn(s, ReadableIn(t, e), name) = Missing
  BY <1>2 DEF FindOn
<1> QED BY <1>3 DEF FindEntry

\* What is found is an entry of the chain, with the name.
LEMMA FindEntryIs ==
    ASSUME NEW t, NEW s \in Disk, NEW e \in Opened, ListsOn(t), NEW name,
           FindEntry(t, s, e, name) # NoEntry
    PROVE  /\ e # NoEntry
           /\ \E k : /\ Hit(s, ReadableIn(t, e), name, k)
                     /\ k \in DOMAIN PiecesIn(t, e.first)
                     /\ ReadableIn(t, e)[k] = PiecesIn(t, e.first)[k]
                     /\ FindEntry(t, s, e, name) = On(s, PiecesIn(t, e.first)[k])
                     /\ Named(On(s, PiecesIn(t, e.first)[k]), name)
                     /\ On(s, PiecesIn(t, e.first)[k]) \in Entries
<1> DEFINE R == ReadableIn(t, e)
           P == PiecesIn(t, e.first)
<1>1. /\ DOMAIN R \in SUBSET Nat /\ DOMAIN R \subseteq DOMAIN P
      /\ \A k \in DOMAIN R : R[k] = P[k]
  BY ReadFacts
<1>2. \A k \in DOMAIN P : P[k] \in Location
  BY PieceFacts
<1>3. \A k \in DOMAIN R : R[k] # Missing
  BY <1>1, <1>2, Constants
<1>4. e # NoEntry /\ FindOn(s, R, name) # Missing /\ FindEntry(t, s, e, name) = On(s, FindOn(s, R, name))
  BY DEF FindEntry
<1> HIDE DEF R, P
<1>5. PICK k : Hit(s, R, name, k) /\ FindOn(s, R, name) = R[k]
  BY <1>1, <1>3, <1>4, FindIs
<1>6. k \in DOMAIN R /\ Named(On(s, R[k]), name)
  BY <1>5 DEF Hit
<1>7. k \in DOMAIN P /\ R[k] = P[k] /\ P[k] \in Location
  BY <1>1, <1>2, <1>6
<1>8. On(s, P[k]) \in Entries
  BY <1>6, <1>7, OnPiece, Kinds DEF Named
<1> QED BY <1>4, <1>5, <1>6, <1>7, <1>8 DEF R, P

\* On a sound volume what is found leads on, or to nothing.
LEMMA StepIs ==
    ASSUME NEW t, NEW s \in Disk, ListsOn(t), Sound(t, s),
           NEW e \in Opened, e \in Leader(t, s) \/ e.first = FREE,
           NEW name, name # DotDot,
           NEW f, f = FindEntry(t, s, e, name)
    PROVE  /\ f \in Opened
           /\ f \in Leader(t, s) \/ f.first = FREE
           /\ f # NoEntry =>
                 /\ e \in Leader(t, s) /\ e.dir /\ e # NoEntry /\ e.first \in HeadsIn(t, s)
                 /\ \E k \in DOMAIN PiecesIn(t, e.first) :
                       /\ Hit(s, PiecesIn(t, e.first), name, k)
                       /\ f = On(s, PiecesIn(t, e.first)[k])
                       /\ f \in Entries /\ Named(f, name)
                       /\ PiecesIn(t, e.first)[k] \in OwnedIn(t, s) \X (1 .. SLOTS)
                       /\ PiecesIn(t, e.first)[k][1] \in ChainSet(t, e.first)
                       /\ name = Dot => f = DirEntry(Dot, PiecesIn(t, e.first)[k][1])
                       /\ name # Dot /\ f.first # FREE =>
                             PiecesIn(t, e.first)[k] \in LinkIn(s, OwnedIn(t, s))
<1> DEFINE O == OwnedIn(t, s)
           P == PiecesIn(t, e.first)
<1>1. CASE f = NoEntry
  BY <1>1 DEF Opened, NoEntry, FileEntry
<1>2. CASE f # NoEntry
  <2>1. e # NoEntry /\ e.first # FREE
    BY <1>2, FindNothing, FindEntryIs
  <2>2. e \in Leader(t, s)
    BY <2>1
  <2>3. PICK k : /\ Hit(s, ReadableIn(t, e), name, k) /\ k \in DOMAIN P
                 /\ ReadableIn(t, e)[k] = P[k]
                 /\ f = On(s, P[k]) /\ Named(f, name) /\ f \in Entries
    BY <1>2, FindEntryIs
  <2>4. e.dir
    <3> SUFFICES ASSUME ~e.dir PROVE FALSE
      OBVIOUS
    <3>1. PICK l \in LinkIn(s, O) : e = On(s, l)
      BY <2>2 DEF Leader, Root, DirEntry
    <3>2. k \in DOMAIN ReadableIn(t, e)
      BY <2>3 DEF Hit
    <3>3. k <= e.size
      BY <2>3, <3>2, ReadFacts
    <3>4. On(s, P[k]) \in Text
      BY <2>3, <3>1, <3>3 DEF Sound, Texts
    <3> QED BY <2>3, <3>4 DEF Named, IsEntry
  <2>5. Hit(s, P, name, k)
    BY <2>3, <2>4, ReadFacts
  <2>6. e.first \in HeadsIn(t, s)
    <3>1. CASE e = Root
      BY <3>1 DEF Root, DirEntry, HeadsIn
    <3>2. CASE \E h \in HeadsIn(t, s) : e = DirEntry(Dot, h)
      BY <3>2 DEF DirEntry
    <3>3. CASE \E l \in LinkIn(s, O) : e = On(s, l)
      BY <3>3 DEF HeadsIn
    <3> QED BY <2>2, <3>1, <3>2, <3>3 DEF Leader
  <2>7. P[k] \in ChainSet(t, e.first) \X (1 .. SLOTS) /\ P[k][1] \in ChainSet(t, e.first)
    BY <2>3, PieceFacts
  <2>8. ChainSet(t, e.first) \subseteq O
    BY <2>6, HeadFacts
  <2>9. P[k] \in O \X (1 .. SLOTS)
    BY <2>7, <2>8
  <2>10. ASSUME name = Dot
         PROVE  f = DirEntry(Dot, P[k][1]) /\ f \in Leader(t, s)
    <3>1. f = DirEntry(Dot, P[k][1]) /\ P[k][1] \in HeadsIn(t, s)
      BY <2>3, <2>9, <2>10 DEF Sound, Dotted
    <3> QED BY <3>1 DEF Leader
  <2>11. ASSUME name # Dot, f.first # FREE
         PROVE  P[k] \in LinkIn(s, O) /\ f \in Leader(t, s)
    <3>1. Leads(s, P[k])
      BY <2>3, <2>11 DEF Leads, Named
    <3>2. P[k] \in LinkIn(s, O)
      BY <2>9, <3>1 DEF LinkIn
    <3> QED BY <2>3, <3>2 DEF Leader
  <2>12. f \in Opened
    BY <2>3 DEF Opened
  <2> HIDE DEF P, O
  <2> QED BY <2>1, <2>2, <2>3, <2>4, <2>5, <2>6, <2>7, <2>9, <2>10, <2>11, <2>12 DEF P, O
<1> QED BY <1>1, <1>2

--------------------------------------------------------------------------------
\* The entries that a path without "..." goes through.
Walk(t, s, p, g) ==
    /\ Len(p) \in Nat /\ Trace(t, s, p, g)
    /\ \A n \in 1 .. Len(p) : p[n] # DotDot

\* It leads through the root, entries and nothing else.
LEMMA WalkIn ==
    ASSUME NEW t, NEW s \in Disk, ListsOn(t), Sound(t, s), NEW p, NEW g, Walk(t, s, p, g)
    PROVE  \A n \in 0 .. Len(p) : g[n] \in Opened /\ (g[n] \in Leader(t, s) \/ g[n].first = FREE)
<1> DEFINE Fine(e) == e \in Opened /\ (e \in Leader(t, s) \/ e.first = FREE)
           T == {n \in 0 .. Len(p) : ~Fine(g[n])}
<1>1. Len(p) \in Nat
  BY DEF Walk
<1>2. ASSUME T # {} PROVE FALSE
  <2>1. T \in SUBSET Nat
    OBVIOUS
  <2>2. PICK m \in T : \A n \in T : m <= n
    BY <1>2, <2>1, Least
  <2>3. m \in 0 .. Len(p) /\ ~Fine(g[m])
    BY <2>2
  <2>4. m # 0
    BY <2>3 DEF Walk, Trace, Opened, Leader
  <2>5. m \in 1 .. Len(p) /\ m - 1 \in 0 .. Len(p) /\ ~(m <= m - 1)
    BY <1>1, <2>3, <2>4
  <2>6. Fine(g[m - 1])
    BY <2>2, <2>5
  <2>7. g[m] = FindEntry(t, s, g[m - 1], p[m]) /\ p[m] # DotDot
    BY <2>5 DEF Walk, Trace
  <2>8. Fine(g[m])
    BY <2>6, <2>7, StepIs
  <2> QED BY <2>3, <2>8
<1> QED BY <1>2

\* One step of it.
LEMMA WalkStep ==
    ASSUME NEW t, NEW s \in Disk, ListsOn(t), Sound(t, s), NEW p, NEW g, Walk(t, s, p, g),
           NEW n \in 1 .. Len(p), g[n].first # FREE
    PROVE  /\ g[n - 1] \in Leader(t, s) /\ g[n - 1] \in Opened /\ g[n - 1].dir
           /\ g[n - 1].first # FREE /\ g[n - 1].first \in HeadsIn(t, s)
           /\ g[n - 1] # NoEntry
           /\ g[n] = FindEntry(t, s, g[n - 1], p[n])
           /\ \E k \in DOMAIN PiecesIn(t, g[n - 1].first) :
                 /\ Hit(s, PiecesIn(t, g[n - 1].first), p[n], k)
                 /\ g[n] = On(s, PiecesIn(t, g[n - 1].first)[k])
                 /\ Named(g[n], p[n])
                 /\ PiecesIn(t, g[n - 1].first)[k] \in OwnedIn(t, s) \X (1 .. SLOTS)
                 /\ PiecesIn(t, g[n - 1].first)[k][1] \in ChainSet(t, g[n - 1].first)
                 /\ p[n] = Dot => g[n].first = PiecesIn(t, g[n - 1].first)[k][1]
                 /\ p[n] # Dot =>
                       PiecesIn(t, g[n - 1].first)[k] \in LinkIn(s, OwnedIn(t, s))
<1>1. n - 1 \in 0 .. Len(p) /\ g[n] = FindEntry(t, s, g[n - 1], p[n]) /\ p[n] # DotDot
  BY DEF Walk, Trace
<1>2. g[n - 1] \in Opened /\ (g[n - 1] \in Leader(t, s) \/ g[n - 1].first = FREE)
  BY <1>1, WalkIn
<1>3. g[n] # NoEntry
  BY DEF NoEntry, FileEntry
<1> DEFINE e == g[n - 1]
           f == g[n]
           P == PiecesIn(t, e.first)
<1>4. /\ e \in Leader(t, s) /\ e.dir /\ e # NoEntry /\ e.first \in HeadsIn(t, s)
      /\ \E k \in DOMAIN P :
            /\ Hit(s, P, p[n], k)
            /\ f = On(s, P[k])
            /\ f \in Entries /\ Named(f, p[n])
            /\ P[k] \in OwnedIn(t, s) \X (1 .. SLOTS)
            /\ P[k][1] \in ChainSet(t, e.first)
            /\ p[n] = Dot => f = DirEntry(Dot, P[k][1])
            /\ p[n] # Dot /\ f.first # FREE => P[k] \in LinkIn(s, OwnedIn(t, s))
  <2> HIDE DEF e, f
  <2>1. e \in Opened /\ (e \in Leader(t, s) \/ e.first = FREE) /\ f = FindEntry(t, s, e, p[n])
        /\ f # NoEntry /\ p[n] # DotDot
    BY <1>1, <1>2, <1>3 DEF e, f
  <2> QED BY <2>1, StepIs
<1>5. e.first # FREE
  BY <1>4, HeadFacts, Constants
<1>6. PICK k \in DOMAIN P :
            /\ Hit(s, P, p[n], k)
            /\ f = On(s, P[k])
            /\ f \in Entries /\ Named(f, p[n])
            /\ P[k] \in OwnedIn(t, s) \X (1 .. SLOTS)
            /\ P[k][1] \in ChainSet(t, e.first)
            /\ p[n] = Dot => f = DirEntry(Dot, P[k][1])
            /\ p[n] # Dot /\ f.first # FREE => P[k] \in LinkIn(s, OwnedIn(t, s))
  BY <1>4
<1>7. p[n] = Dot => f.first = P[k][1]
  BY <1>6 DEF DirEntry
<1> HIDE DEF P, e, f
<1>8. f.first # FREE
  BY DEF f
<1> QED BY <1>1, <1>2, <1>4, <1>5, <1>6, <1>7, <1>8 DEF P, e, f

\* Clusters that nothing leads out of are not left again.
LEMMA WalkStays ==
    ASSUME NEW t, NEW s \in Disk, ListsOn(t), Sound(t, s), NEW p, NEW g, Walk(t, s, p, g),
           NEW cs \in SUBSET Cluster, ClosedIn(t, s, cs),
           NEW i \in 0 .. Len(p), g[i].first \in cs \cup {FREE},
           NEW k \in 0 .. Len(p), i <= k
    PROVE  g[k].first \in cs \cup {FREE}
<1> DEFINE T == {n \in 0 .. Len(p) : i <= n /\ g[n].first \notin cs \cup {FREE}}
<1>1. Len(p) \in Nat
  BY DEF Walk
<1>2. ASSUME T # {} PROVE FALSE
  <2>1. T \in SUBSET Nat
    OBVIOUS
  <2>2. PICK m \in T : \A n \in T : m <= n
    BY <1>2, <2>1, Least
  <2>3. m \in 0 .. Len(p) /\ i <= m /\ g[m].first \notin cs /\ g[m].first # FREE
    BY <2>2
  <2>4. m # i
    BY <2>3
  <2>5. m \in 1 .. Len(p) /\ m - 1 \in 0 .. Len(p) /\ ~(m <= m - 1) /\ i <= m - 1
    BY <1>1, <2>3, <2>4
  <2>6. g[m - 1].first \in cs \cup {FREE}
    BY <2>2, <2>5
  <2> DEFINE P == PiecesIn(t, g[m - 1].first)
  <2>7. g[m - 1].first # FREE /\ \E n \in DOMAIN P :
           /\ g[m] = On(s, P[n])
           /\ P[n] \in OwnedIn(t, s) \X (1 .. SLOTS)
           /\ P[n][1] \in ChainSet(t, g[m - 1].first)
           /\ p[m] = Dot => g[m].first = P[n][1]
           /\ p[m] # Dot => P[n] \in LinkIn(s, OwnedIn(t, s))
    BY <2>3, <2>5, WalkStep
  <2>8. PICK n \in DOMAIN P :
           /\ g[m] = On(s, P[n])
           /\ P[n] \in OwnedIn(t, s) \X (1 .. SLOTS)
           /\ P[n][1] \in ChainSet(t, g[m - 1].first)
           /\ p[m] = Dot => g[m].first = P[n][1]
           /\ p[m] # Dot => P[n] \in LinkIn(s, OwnedIn(t, s))
    BY <2>7
  <2> HIDE DEF P
  <2>9. ChainSet(t, g[m - 1].first) \subseteq cs
    <3>1. \A j \in cs : t[j] \in Cluster => t[j] \in cs
      BY DEF ClosedIn
    <3> QED BY <2>6, <2>7, <3>1, ChainInside
  <2>10. CASE p[m] = Dot
    BY <2>3, <2>8, <2>9, <2>10
  <2>11. CASE p[m] # Dot
    <3>1. P[n][1] \in cs /\ P[n] \in LinkIn(s, OwnedIn(t, s))
      BY <2>8, <2>9, <2>11
    <3>2. P[n] \in LinkIn(s, cs)
      BY <2>8, <3>1 DEF LinkIn
    <3> QED BY <2>3, <2>8, <3>2 DEF ClosedIn
  <2> QED BY <2>10, <2>11
<1> QED BY <1>2

\* When opening ends somewhere it passes through chains only.
LEMMA WalkHeads ==
    ASSUME NEW t, NEW s \in Disk, ListsOn(t), Sound(t, s), NEW p, NEW g, Walk(t, s, p, g),
           g[Len(p)].first # FREE
    PROVE  \A n \in 0 .. Len(p) : g[n].first \in HeadsIn(t, s) /\ g[n].first # FREE
<1>1. Len(p) \in Nat
  BY DEF Walk
<1>2. ASSUME NEW n \in 0 .. Len(p) PROVE g[n].first # FREE
  <2> SUFFICES ASSUME g[n].first = FREE PROVE FALSE
    OBVIOUS
  <2> DEFINE cs == {k \in Cluster : FALSE}
  <2>1. cs \in SUBSET Cluster /\ cs = {} /\ ClosedIn(t, s, cs)
    BY DEF ClosedIn, LinkIn
  <2> HIDE DEF cs
  <2>2. Len(p) \in 0 .. Len(p) /\ n <= Len(p)
    BY <1>1
  <2>3. g[Len(p)].first \in cs \cup {FREE}
    BY <2>1, <2>2, WalkStays
  <2> QED BY <2>1, <2>3
<1>3. ASSUME NEW n \in 0 .. Len(p) PROVE g[n].first \in HeadsIn(t, s)
  <2>1. g[n] \in Leader(t, s)
    BY <1>2, WalkIn
  <2> QED BY <2>1 DEF Leader, HeadsIn, Root, DirEntry
<1> QED BY <1>2, <1>3

\* Where nothing that is reached changes, nothing is opened otherwise.
LEMMA WalkSame ==
    ASSUME NEW t, NEW s \in Disk, ListsOn(t), Sound(t, s), NEW p, NEW g, Walk(t, s, p, g),
           NEW u, NEW r \in Disk, ListsOn(u),
           \A k \in OwnedIn(t, s) : u[k] = t[k],
           \A l \in OwnedIn(t, s) \X (1 .. SLOTS) : On(r, l) = On(s, l)
    PROVE  Trace(u, r, p, g)
<1>1. Len(p) \in Nat /\ g[0] = Root
  BY DEF Walk, Trace
<1>2. ASSUME NEW n \in 1 .. Len(p) PROVE g[n] = FindEntry(u, r, g[n - 1], p[n])
  <2> DEFINE e == g[n - 1]
  <2>1. n - 1 \in 0 .. Len(p) /\ g[n] = FindEntry(t, s, e, p[n])
    BY <1>1 DEF Walk, Trace
  <2>2. e \in Opened /\ (e \in Leader(t, s) \/ e.first = FREE)
    BY <2>1, WalkIn
  <2> HIDE DEF e
  <2>3. CASE e.first = FREE
    BY <2>1, <2>2, <2>3, FindNothing DEF e
  <2>4. CASE e \in Leader(t, s)
    <3>1. e.first \in HeadsIn(t, s)
      BY <2>4 DEF Leader, HeadsIn, Root, DirEntry
    <3>2. ChainSet(t, e.first) \subseteq OwnedIn(t, s)
      BY <3>1, HeadFacts
    <3>3. ChainIn(u, e.first) = ChainIn(t, e.first)
      BY <3>2, ChainSame
    <3>4. ReadableIn(u, e) = ReadableIn(t, e)
      BY <3>3 DEF ReadableIn, PiecesIn
    <3> DEFINE R == ReadableIn(t, e)
    <3>5. /\ DOMAIN R \in SUBSET Nat /\ DOMAIN R \subseteq DOMAIN PiecesIn(t, e.first)
          /\ \A k \in DOMAIN R : R[k] = PiecesIn(t, e.first)[k]
      BY <2>2, ReadFacts
    <3>6. \A k \in DOMAIN PiecesIn(t, e.first) :
             PiecesIn(t, e.first)[k] \in ChainSet(t, e.first) \X (1 .. SLOTS)
      BY PieceFacts
    <3> HIDE DEF R
    <3>7. \A k \in DOMAIN R : R[k] \in OwnedIn(t, s) \X (1 .. SLOTS)
      BY <3>2, <3>5, <3>6
    <3>8. \A k \in DOMAIN R : On(r, R[k]) = On(s, R[k])
      BY <3>7
    <3>9. FindOn(r, R, p[n]) = FindOn(s, R, p[n])
      BY <3>5, <3>8, FindSame
    <3>10. \A l : l = FindOn(s, R, p[n]) /\ l # Missing => On(r, l) = On(s, l)
      <4> SUFFICES ASSUME FindOn(s, R, p[n]) # Missing
                   PROVE  On(r, FindOn(s, R, p[n])) = On(s, FindOn(s, R, p[n]))
        OBVIOUS
      <4>1. \A k \in DOMAIN R : R[k] # Missing
        BY <3>7, OwnedFacts, Constants
      <4>2. PICK k : Hit(s, R, p[n], k) /\ FindOn(s, R, p[n]) = R[k]
        BY <3>5, <4>1, FindIs
      <4> QED BY <3>8, <4>2 DEF Hit
    <3>11. FindEntry(u, r, e, p[n]) = FindEntry(t, s, e, p[n])
      BY <3>4, <3>9, <3>10 DEF FindEntry, R
    <3> QED BY <2>1, <3>11 DEF e
  <2> QED BY <2>2, <2>3, <2>4 DEF e
<1> QED BY <1>1, <1>2 DEF Trace

\* Below an entry that opening has gone through, it does not come back to it.
LEMMA NoReturn ==
    ASSUME NEW t, NEW s \in Disk, ListsOn(t), Sound(t, s), NEW p, NEW g, Walk(t, s, p, g),
           g[Len(p)].first # FREE, NEW n \in 1 .. Len(p), g[n - 1].first = g[Len(p)].first
    PROVE  p[n] = Dot
<1> DEFINE P == PiecesIn(t, g[n - 1].first)
           O == OwnedIn(t, s)
           d == g[n - 1].first
<1>1. Len(p) \in Nat /\ n \in 0 .. Len(p) /\ n <= Len(p) /\ Len(p) \in 0 .. Len(p)
  BY DEF Walk
<1>2. g[n].first # FREE /\ d \in HeadsIn(t, s)
  BY <1>1, WalkHeads
<1> SUFFICES ASSUME p[n] # Dot PROVE FALSE
  OBVIOUS
<1>3. \E k \in DOMAIN P :
           /\ g[n] = On(s, P[k])
           /\ P[k][1] \in ChainSet(t, d)
           /\ P[k] \in LinkIn(s, O)
  BY <1>2, WalkStep
<1>4. PICK l \in LinkIn(s, O) : g[n] = On(s, l) /\ l[1] \in ChainSet(t, d)
  BY <1>3
<1> HIDE DEF P, d
<1> DEFINE B == BelowIn(t, s, On(s, l).first)
<1>5. B \in SUBSET Cluster /\ ClosedIn(t, s, B)
  BY BelowClosed
<1>6. l[1] \notin B /\ On(s, l).first \in B
  BY BelowLink DEF Sound
<1> HIDE DEF B
<1>7. g[Len(p)].first \in B \cup {FREE}
  BY <1>1, <1>4, <1>5, <1>6, WalkStays
<1>8. d \in B
  BY <1>7 DEF d
<1>9. ChainSet(t, d) \subseteq B
  <2>1. \A j \in B : t[j] \in Cluster => t[j] \in B
    BY <1>5 DEF ClosedIn
  <2> QED BY <1>8, <2>1, ChainInside
<1> QED BY <1>4, <1>6, <1>9

\* What is changed at m in the directory of the path does not change the way to
\* it, nor does what happens to the clusters B, which only an entry there leads to.
LEMMA WalkPut ==
    ASSUME NEW t, NEW s \in Disk, ListsOn(t), Sound(t, s), NEW p, NEW g, Walk(t, s, p, g),
           NEW d, d = g[Len(p)].first, d # FREE,
           NEW m \in ChainSet(t, d) \X (1 .. SLOTS),
           NEW B \in SUBSET Cluster, ClosedIn(t, s, B), m[1] \notin B,
           \A k \in OwnedIn(t, s) \ B : t[k] \in Cluster => t[k] \notin B,
           NEW r \in Disk, On(r, m) # Never, ~Named(On(s, m), Dot), ~Named(On(r, m), Dot),
           \A l \in (OwnedIn(t, s) \ B) \X (1 .. SLOTS) : l # m => On(r, l) = On(s, l)
    PROVE  Trace(t, r, p, g) /\ d \in HeadsIn(t, s) /\ ChainSet(t, d) \subseteq OwnedIn(t, s) \ B
<1> DEFINE O == OwnedIn(t, s)
<1>1. Len(p) \in Nat /\ g[0] = Root /\ Len(p) \in 0 .. Len(p)
  BY DEF Walk, Trace
<1>2. \A n \in 0 .. Len(p) : g[n].first \in HeadsIn(t, s) /\ g[n].first # FREE
  BY WalkHeads
<1>3. ASSUME NEW n \in 0 .. Len(p), g[n].first \in B PROVE FALSE
  <2>1. d \in B \cup {FREE}
    BY <1>1, <1>3, WalkStays
  <2>2. \A j \in B : t[j] \in Cluster => t[j] \in B
    BY DEF ClosedIn
  <2>3. ChainSet(t, d) \subseteq B
    BY <2>1, <2>2, ChainInside
  <2> QED BY <2>3
<1>4. ASSUME NEW n \in 0 .. Len(p) PROVE ChainSet(t, g[n].first) \subseteq O \ B
  <2>1. g[n].first \in O \ B
    BY <1>2, <1>3, HeadFacts
  <2>2. \A k \in O \ B : t[k] \in Cluster => t[k] \in O \ B
    BY OwnedFacts DEF ClosedIn
  <2> HIDE DEF O
  <2> QED BY <2>1, <2>2, ChainInside
<1>5. d \in HeadsIn(t, s) /\ ChainSet(t, d) \subseteq O \ B
  BY <1>1, <1>2, <1>4
<1>6. ASSUME NEW n \in 1 .. Len(p) PROVE g[n] = FindEntry(t, r, g[n - 1], p[n])
  <2> DEFINE e == g[n - 1]
             P == PiecesIn(t, e.first)
  <2>1. n - 1 \in 0 .. Len(p) /\ n \in 0 .. Len(p)
    BY <1>1
  <2>2. g[n].first # FREE /\ e.first \in HeadsIn(t, s)
    BY <1>2, <2>1
  <2>3. /\ e \in Opened /\ e.dir /\ e # NoEntry
        /\ \E k \in DOMAIN P : Hit(s, P, p[n], k) /\ g[n] = On(s, P[k])
    BY <2>2, WalkStep
  <2>4. PICK k \in DOMAIN P : Hit(s, P, p[n], k) /\ g[n] = On(s, P[k])
    BY <2>3
  <2>5. /\ DOMAIN P \in SUBSET Nat
        /\ \A i \in DOMAIN P : P[i] \in ChainSet(t, e.first) \X (1 .. SLOTS)
                               /\ P[i][1] \in ChainSet(t, e.first) /\ P[i] \in Location
    <3> HIDE DEF e
    <3> QED BY PieceIndex
  <2>6. \A i \in DOMAIN P : P[i] # m => On(r, P[i]) = On(s, P[i])
    BY <1>4, <2>1, <2>5
  <2>7. ASSUME NEW i \in DOMAIN P, P[i] = m PROVE p[n] = Dot
    <3>1. m[1] \in ChainSet(t, e.first) /\ m[1] \in ChainSet(t, d)
      BY <2>5, <2>7
    <3>2. e.first = d
      BY <1>5, <2>2, <3>1, HeadsApart DEF Sound
    <3> QED BY <3>2, NoReturn
  <2>8. Hit(r, P, p[n], k)
    <3> HIDE DEF P
    <3>1. ASSUME NEW i \in DOMAIN P
          PROVE  \/ On(r, P[i]) = On(s, P[i])
                 \/ i # k /\ On(r, P[i]) # Never /\ ~Named(On(r, P[i]), p[n])
                 \/ i = k /\ Named(On(r, P[i]), p[n])
      <4>1. CASE P[i] # m
        BY <2>6, <4>1
      <4>2. CASE P[i] = m
        <5>1. p[n] = Dot
          BY <2>7, <4>2
        <5>2. i # k
          BY <2>4, <4>2, <5>1 DEF Hit
        <5> QED BY <4>2, <5>1, <5>2
      <4> QED BY <4>1, <4>2
    <3> QED BY <2>4, <2>5, <3>1, HitSame
  <2>9. P[k] # m
    <3> SUFFICES ASSUME P[k] = m PROVE FALSE
      OBVIOUS
    <3>1. p[n] = Dot
      BY <2>7
    <3> HIDE DEF P
    <3> QED BY <2>4, <3>1 DEF Hit
  <2>10. FindOn(r, P, p[n]) = P[k] /\ P[k] # Missing
    <3>1. \A i \in DOMAIN P : P[i] # Missing
      BY <2>5, Constants
    <3> HIDE DEF P
    <3>2. FindOn(r, P, p[n]) = P[k]
      BY <2>5, <2>8, <3>1, FindHit
    <3> QED BY <3>1, <3>2
  <2>11. ReadableIn(t, e) = P
    BY <2>3, ReadFacts
  <2>12. FindEntry(t, r, e, p[n]) = On(r, P[k])
    <3> HIDE DEF P, e
    <3> QED BY <2>3, <2>10, <2>11 DEF FindEntry
  <2>13. On(r, P[k]) = g[n]
    BY <2>4, <2>6, <2>9
  <2> QED BY <2>12, <2>13
<1> QED BY <1>1, <1>5, <1>6 DEF Trace

--------------------------------------------------------------------------------
\* What a change at m may do to the end marks.
EndKept(t, s, r, m) ==
    \/ On(s, m) = Never <=> On(r, m) = Never
    \/ /\ On(r, m) # Never
       /\ \E d \in HeadsIn(t, s) : \E k \in DOMAIN PiecesIn(t, d) :
             /\ PiecesIn(t, d)[k] = m
             /\ \A i \in DOMAIN PiecesIn(t, d) : i < k => On(s, PiecesIn(t, d)[i]) # Never

\* The clusters D are as they were, but for the piece at m.
Kept(t, s, u, r, D, m) ==
    /\ D \subseteq OwnedIn(t, s)
    /\ \A k \in D : u[k] = t[k] /\ (t[k] \in Cluster => t[k] \in D)
    /\ \A l \in D \X (1 .. SLOTS) : l # m => On(r, l) = On(s, l)
    /\ m \in D \X (1 .. SLOTS) =>
          /\ On(s, m) \notin Text /\ ~Named(On(s, m), Dot) /\ ~Named(On(s, m), DotDot)
          /\ ~Named(On(r, m), Dot) /\ EndKept(t, s, r, m)

\* The chains there are the same.
LEMMA KeptChain ==
    ASSUME NEW t, NEW s \in Disk, NEW u, NEW r, NEW D, NEW m, ListsOn(t),
           Kept(t, s, u, r, D, m), NEW c \in D
    PROVE  /\ ChainIn(u, c) = ChainIn(t, c) /\ ChainSet(u, c) = ChainSet(t, c)
           /\ PiecesIn(u, c) = PiecesIn(t, c) /\ ChainSet(t, c) \subseteq D
<1>1. \A k \in D : t[k] \in Cluster => t[k] \in D
  BY DEF Kept
<1>2. ChainSet(t, c) \subseteq D
  BY <1>1, ChainInside
<1>3. ChainIn(u, c) = ChainIn(t, c)
  BY <1>2, ChainSame DEF Kept
<1> QED BY <1>2, <1>3 DEF ChainSet, PiecesIn

\* Searches do not stop earlier than they did.
LEMMA KeptEnded ==
    ASSUME NEW t, NEW s \in Disk, NEW u, NEW r, NEW D, NEW m, ListsOn(t), Unique(t, s),
           Kept(t, s, u, r, D, m), NEW d \in D, d \in HeadsIn(t, s),
           \A i, k \in DOMAIN PiecesIn(t, d) :
              i < k /\ On(s, PiecesIn(t, d)[i]) = Never => On(s, PiecesIn(t, d)[k]) = Never,
           NEW i \in DOMAIN PiecesIn(u, d), NEW k \in DOMAIN PiecesIn(u, d), i < k,
           On(r, PiecesIn(u, d)[i]) = Never
    PROVE  On(r, PiecesIn(u, d)[k]) = Never
<1> DEFINE P == PiecesIn(t, d)
<1>1. PiecesIn(u, d) = P /\ ChainSet(t, d) \subseteq D
  BY KeptChain
<1>2. /\ DOMAIN P \in SUBSET Nat
      /\ \A j \in DOMAIN P : P[j] \in ChainSet(t, d) \X (1 .. SLOTS) /\ P[j][1] \in ChainSet(t, d)
  BY PieceIndex
<1>3. \A j \in DOMAIN P : P[j] \in D \X (1 .. SLOTS)
  BY <1>1, <1>2
<1>4. \A j \in DOMAIN P : P[j] # m => On(r, P[j]) = On(s, P[j])
  BY <1>3 DEF Kept
<1>5. i \in DOMAIN P /\ k \in DOMAIN P /\ On(r, P[i]) = Never
  BY <1>1
<1> SUFFICES On(r, P[k]) = Never
  BY <1>1
<1>6. CASE m \notin D \X (1 .. SLOTS)
  BY <1>3, <1>4, <1>5, <1>6
<1>7. CASE m \in D \X (1 .. SLOTS) /\ (On(s, m) = Never <=> On(r, m) = Never)
  BY <1>4, <1>5, <1>7
<1>8. CASE m \in D \X (1 .. SLOTS) /\ ~(On(s, m) = Never <=> On(r, m) = Never)
  <2>1. /\ On(r, m) # Never /\ On(s, m) = Never
        /\ \E h \in HeadsIn(t, s) : \E j \in DOMAIN PiecesIn(t, h) :
             /\ PiecesIn(t, h)[j] = m
             /\ \A n \in DOMAIN PiecesIn(t, h) : n < j => On(s, PiecesIn(t, h)[n]) # Never
    BY <1>8 DEF Kept, EndKept
  <2>2. P[i] # m /\ On(s, P[i]) = Never
    BY <1>4, <1>5, <2>1
  <2>3. On(s, P[k]) = Never
    BY <1>5, <2>2
  <2>4. CASE P[k] # m
    BY <1>4, <1>5, <2>3, <2>4
  <2>5. CASE P[k] = m
    <3>0. PICK h \in HeadsIn(t, s) : \E j \in DOMAIN PiecesIn(t, h) :
             /\ PiecesIn(t, h)[j] = m
             /\ \A n \in DOMAIN PiecesIn(t, h) : n < j => On(s, PiecesIn(t, h)[n]) # Never
      BY <2>1
    <3>1. PICK j \in DOMAIN PiecesIn(t, h) :
             /\ PiecesIn(t, h)[j] = m
             /\ \A n \in DOMAIN PiecesIn(t, h) : n < j => On(s, PiecesIn(t, h)[n]) # Never
      BY <3>0
    <3>2. m[1] \in ChainSet(t, d) /\ m[1] \in ChainSet(t, h)
      BY <1>2, <1>5, <2>5, <3>1, PieceIndex
    <3>3. h = d
      BY <3>2, HeadsApart
    <3>4. j = k
      BY <1>5, <2>5, <3>1, <3>3, PieceFacts
    <3> QED BY <1>5, <2>2, <3>1, <3>3, <3>4
  <2> QED BY <2>4, <2>5
<1> QED BY <1>6, <1>7, <1>8

\* The entries "." and "..".
LEMMA OwnEntries ==
    ASSUME NEW c \in Cluster
    PROVE  /\ DirEntry(Dot, c) \in Entries /\ Named(DirEntry(Dot, c), Dot)
           /\ DirEntry(DotDot, c) \in Entries /\ Named(DirEntry(DotDot, c), DotDot)
<1>1. 0 \in 0 .. EXISTING + 1
  BY Constants
<1>2. DirEntry(Dot, c) \in Entries /\ DirEntry(DotDot, c) \in Entries
  BY <1>1 DEF DirEntry, Entries
<1>3. DirEntry(Dot, c).name = Dot /\ DirEntry(DotDot, c).name = DotDot
  BY DEF DirEntry
<1>4. \A x \in Entries : IsEntry(x)
  BY Kinds DEF Piece
<1> QED BY <1>2, <1>3, <1>4 DEF Named

\* A directory keeps its own two entries.
LEMMA KeptParent ==
    ASSUME NEW t, NEW s \in Disk, NEW u, NEW r, NEW D, NEW m, ListsOn(t),
           Kept(t, s, u, r, D, m), NEW f \in D, NEW h \in D,
           On(s, <<f, 1>>) = DirEntry(Dot, f), On(s, <<f, 2>>) = DirEntry(DotDot, h)
    PROVE  On(r, <<f, 1>>) = DirEntry(Dot, f) /\ On(r, <<f, 2>>) = DirEntry(DotDot, h)
<1>1. <<f, 1>> \in D \X (1 .. SLOTS) /\ <<f, 2>> \in D \X (1 .. SLOTS)
  BY Constants
<1>2. f \in Cluster /\ h \in Cluster
  BY OwnedFacts DEF Kept
<1>3. Named(On(s, <<f, 1>>), Dot) /\ Named(On(s, <<f, 2>>), DotDot)
  BY <1>2, OwnEntries
<1>4. <<f, 1>> # m /\ <<f, 2>> # m
  <2>1. CASE m \in D \X (1 .. SLOTS)
    BY <1>3, <2>1 DEF Kept
  <2>2. CASE m \notin D \X (1 .. SLOTS)
    BY <1>1, <2>2
  <2> QED BY <2>1, <2>2
<1> QED BY <1>1, <1>4 DEF Kept
\* Text is as it was.
LEMMA KeptText ==
    ASSUME NEW t, NEW s \in Disk, NEW u, NEW r, NEW D, NEW m, ListsOn(t),
           Kept(t, s, u, r, D, m), NEW c \in D, NEW k \in DOMAIN PiecesIn(u, c),
           On(s, PiecesIn(t, c)[k]) \in Text
    PROVE  PiecesIn(u, c)[k] = PiecesIn(t, c)[k] /\ On(r, PiecesIn(u, c)[k]) = On(s, PiecesIn(t, c)[k])
           /\ On(r, PiecesIn(u, c)[k]) \in Text
<1>1. PiecesIn(u, c) = PiecesIn(t, c) /\ ChainSet(t, c) \subseteq D
  BY KeptChain
<1>2. PiecesIn(t, c)[k] \in ChainSet(t, c) \X (1 .. SLOTS)
  BY <1>1, PieceIndex
<1>3. PiecesIn(t, c)[k] \in D \X (1 .. SLOTS)
  BY <1>1, <1>2
<1>4. PiecesIn(t, c)[k] # m
  BY <1>3 DEF Kept
<1> QED BY <1>1, <1>3, <1>4 DEF Kept

\* The entry at m is gone, and the clusters B below it with it.
Less(t, s, u, r, B, m) ==
    LET O == OwnedIn(t, s)
        D == O \ B
    IN  /\ Kept(t, s, u, r, D, m) /\ OwnedIn(u, r) = D
        /\ LinkIn(r, D) = {l \in LinkIn(s, O) : l[1] \notin B} \ {m}
        /\ RootDirCluster \notin B /\ \A k \in B : t[k] \in Cluster => t[k] \in B
        /\ \A l \in LinkIn(s, O) : On(s, l).first \notin B <=> l[1] \notin B /\ l # m

\* Without them a sound volume stays sound.
LEMMA SoundLess ==
    ASSUME NEW t, NEW s \in Disk, NEW u, NEW r \in Disk, ListsOn(t), ListsOn(u), Sound(t, s),
           NEW B, NEW m, Less(t, s, u, r, B, m)
    PROVE  Sound(u, r) /\ HeadsIn(u, r) = HeadsIn(t, s) \ B
<1> SUFFICES ASSUME NEW O, NEW D, O = OwnedIn(t, s), D = O \ B, Kept(t, s, u, r, D, m),
             OwnedIn(u, r) = D, LinkIn(r, D) = {l \in LinkIn(s, O) : l[1] \notin B} \ {m},
             RootDirCluster \notin B, \A k \in B : t[k] \in Cluster => t[k] \in B,
             \A l \in LinkIn(s, O) : On(s, l).first \notin B <=> l[1] \notin B /\ l # m
      PROVE  Sound(u, r) /\ HeadsIn(u, r) = HeadsIn(t, s) \ B
  BY DEF Less
<1> DEFINE L == LinkIn(s, O)
           M == LinkIn(r, D)
<1>1. O \in SUBSET Cluster /\ RootDirCluster \in D /\ D \subseteq O
  BY OwnedFacts
<1>2. ASSUME NEW l \in M
      PROVE  /\ l \in L /\ l[1] \in D /\ l # m /\ On(r, l) = On(s, l) /\ l \in D \X (1 .. SLOTS)
             /\ On(s, l).first \in D /\ On(s, l).first \in HeadsIn(t, s)
  <2>1. l \in L /\ l[1] \notin B /\ l # m
    OBVIOUS
  <2>2. l[1] \in O /\ l = <<l[1], l[2]>> /\ l[2] \in 1 .. SLOTS
    BY <1>1, <2>1, LinkFacts
  <2>3. l \in D \X (1 .. SLOTS) /\ l[1] \in D
    BY <2>1, <2>2
  <2>4. On(r, l) = On(s, l)
    BY <2>1, <2>3 DEF Kept
  <2>5. On(s, l).first \in O
    BY <2>1, OwnedFacts DEF ClosedIn
  <2> QED BY <2>1, <2>3, <2>4, <2>5 DEF HeadsIn
<1>3. HeadsIn(u, r) = HeadsIn(t, s) \ B
  <2>1. ASSUME NEW h \in HeadsIn(u, r) PROVE h \in HeadsIn(t, s) \ B
    <3>1. CASE h = RootDirCluster
      BY <3>1 DEF HeadsIn
    <3>2. CASE h # RootDirCluster
      <4>1. PICK l \in M : h = On(r, l).first
        BY <3>2 DEF HeadsIn
      <4> QED BY <1>2, <4>1
    <3> QED BY <3>1, <3>2
  <2>2. ASSUME NEW h \in HeadsIn(t, s) \ B PROVE h \in HeadsIn(u, r)
    <3>1. CASE h = RootDirCluster
      BY <3>1 DEF HeadsIn
    <3>2. CASE h # RootDirCluster
      <4>1. PICK l \in L : h = On(s, l).first
        BY <3>2 DEF HeadsIn
      <4>2. l \in M
        BY <4>1
      <4> QED BY <1>2, <4>1, <4>2 DEF HeadsIn
    <3> QED BY <3>1, <3>2
  <2> QED BY <2>1, <2>2
<1>4. \A k \in D : u[k] = t[k] /\ k \in O
  BY <1>1 DEF Kept
<1>5. Unique(u, r)
  <2>1. /\ \A k \in O : t[k] # RootDirCluster
        /\ \A l \in L : On(s, l).first # RootDirCluster
        /\ \A k, j \in O : t[k] = t[j] /\ t[k] \in Cluster => k = j
        /\ \A l, n \in L : On(s, l).first = On(s, n).first => l = n
        /\ \A l \in L, k \in O : On(s, l).first # t[k]
    BY DEF Sound, Unique
  <2> HIDE DEF L, M
  <2>2. \A l \in M : l \in L /\ On(r, l) = On(s, l)
    BY <1>2
  <2>3. /\ \A k \in D : u[k] # RootDirCluster
        /\ \A l \in M : On(r, l).first # RootDirCluster
        /\ \A k, j \in D : u[k] = u[j] /\ u[k] \in Cluster => k = j
        /\ \A l, n \in M : On(r, l).first = On(r, n).first => l = n
        /\ \A l \in M, k \in D : On(r, l).first # u[k]
    BY <1>4, <2>1, <2>2
  <2> QED BY <2>3 DEF Unique, M
<1>6. Dotted(u, r)
  <2> SUFFICES ASSUME NEW l \in D \X (1 .. SLOTS), Named(On(r, l), Dot)
               PROVE  On(r, l) = DirEntry(Dot, l[1]) /\ l[1] \in HeadsIn(t, s) \ B
    BY <1>3 DEF Dotted
  <2>1. l # m
    BY DEF Kept
  <2>2. On(r, l) = On(s, l) /\ l \in O \X (1 .. SLOTS)
    BY <1>1, <2>1 DEF Kept
  <2> QED BY <2>2 DEF Sound, Dotted
<1>7. Parents(u, r)
  <2> SUFFICES ASSUME NEW l \in M, On(r, l).dir
               PROVE  /\ On(r, <<On(r, l).first, 1>>) = DirEntry(Dot, On(r, l).first)
                      /\ \E h \in HeadsIn(t, s) \ B :
                            /\ On(r, <<On(r, l).first, 2>>) = DirEntry(DotDot, h)
                            /\ l[1] \in ChainSet(u, h)
    BY <1>3 DEF Parents
  <2> DEFINE f == On(s, l).first
  <2>1. l \in L /\ l[1] \in D /\ On(r, l) = On(s, l) /\ f \in D
    BY <1>2
  <2>2. PICK h \in HeadsIn(t, s) : /\ On(s, <<f, 1>>) = DirEntry(Dot, f)
                                   /\ On(s, <<f, 2>>) = DirEntry(DotDot, h)
                                   /\ l[1] \in ChainSet(t, h)
    BY <2>1 DEF Sound, Parents
  <2>3. h \in D
    <3>1. h \in O
      BY HeadFacts
    <3>2. h \in B => ChainSet(t, h) \subseteq B
      BY ChainInside
    <3> QED BY <2>1, <2>2, <3>1, <3>2
  <2>4. On(r, <<f, 1>>) = DirEntry(Dot, f) /\ On(r, <<f, 2>>) = DirEntry(DotDot, h)
    BY <2>1, <2>2, <2>3, KeptParent
  <2>5. ChainSet(u, h) = ChainSet(t, h)
    BY <2>3, KeptChain
  <2> QED BY <2>1, <2>2, <2>3, <2>4, <2>5
<1>8. Ended(u, r)
  <2> SUFFICES ASSUME NEW d \in DirsIn(u, r), NEW i \in DOMAIN PiecesIn(u, d),
                      NEW k \in DOMAIN PiecesIn(u, d), i < k, On(r, PiecesIn(u, d)[i]) = Never
               PROVE  On(r, PiecesIn(u, d)[k]) = Never
    BY DEF Ended
  <2>1. d \in DirsIn(t, s) /\ d \in D
    <3>1. CASE d = RootDirCluster
      BY <1>1, <3>1 DEF DirsIn
    <3>2. CASE d # RootDirCluster
      <4>1. PICK l \in M : On(r, l).dir /\ d = On(r, l).first
        BY <3>2 DEF DirsIn
      <4> QED BY <1>2, <4>1 DEF DirsIn
    <3> QED BY <3>1, <3>2
  <2>2. d \in HeadsIn(t, s)
    BY <2>1 DEF DirsIn, HeadsIn
  <2>3. \A j, n \in DOMAIN PiecesIn(t, d) :
              j < n /\ On(s, PiecesIn(t, d)[j]) = Never => On(s, PiecesIn(t, d)[n]) = Never
    BY <2>1 DEF Sound, Ended
  <2> QED BY <2>1, <2>2, <2>3, KeptEnded DEF Sound
<1>9. Sized(u, r)
  <2> SUFFICES ASSUME NEW l \in M, ~On(r, l).dir
               PROVE  /\ (Len(ChainIn(u, On(r, l).first)) - 1) * SLOTS < On(r, l).size
                      /\ On(r, l).size <= Len(ChainIn(u, On(r, l).first)) * SLOTS
    BY DEF Sized
  <2>1. l \in L /\ On(r, l) = On(s, l) /\ On(s, l).first \in D
    BY <1>2
  <2>2. ChainIn(u, On(s, l).first) = ChainIn(t, On(s, l).first)
    BY <2>1, KeptChain
  <2> QED BY <2>1, <2>2 DEF Sound, Sized
<1>10. Texts(u, r)
  <2> SUFFICES ASSUME NEW l \in M, ~On(r, l).dir, NEW k \in DOMAIN PiecesIn(u, On(r, l).first),
                      k <= On(r, l).size
               PROVE  On(r, PiecesIn(u, On(r, l).first)[k]) \in Text
    BY DEF Texts
  <2>1. l \in L /\ On(r, l) = On(s, l) /\ On(s, l).first \in D
    BY <1>2
  <2> DEFINE f == On(s, l).first
  <2>2. PiecesIn(u, f) = PiecesIn(t, f)
    BY <2>1, KeptChain
  <2>3. k \in DOMAIN PiecesIn(u, f) /\ k \in DOMAIN PiecesIn(t, f) /\ k <= On(s, l).size /\ ~On(s, l).dir
    BY <2>1, <2>2
  <2>4. On(s, PiecesIn(t, f)[k]) \in Text
    BY <2>1, <2>3 DEF Sound, Texts
  <2> HIDE DEF f
  <2>5. On(r, PiecesIn(u, f)[k]) \in Text
    BY <2>1, <2>3, <2>4, KeptText DEF f
  <2> QED BY <2>1, <2>5 DEF f
<1> QED BY <1>3, <1>5, <1>6, <1>7, <1>8, <1>9, <1>10 DEF Sound

\* Where nothing changes that is reached, nothing changes.
LEMMA SoundSame ==
    ASSUME NEW t, NEW s \in Disk, NEW u, NEW r \in Disk, ListsOn(t), ListsOn(u), Sound(t, s),
           NEW O, O = OwnedIn(t, s), \A k \in O : u[k] = t[k],
           \A l \in O \X (1 .. SLOTS) : On(r, l) = On(s, l)
    PROVE  /\ OwnedIn(u, r) = O /\ LinkIn(r, O) = LinkIn(s, O)
           /\ HeadsIn(u, r) = HeadsIn(t, s) /\ Sound(u, r)
<1>1. O \in SUBSET Cluster /\ RootDirCluster \in Cluster /\ ClosedIn(t, s, O)
  BY OwnedFacts, Constants
<1>2. LinkIn(r, O) = LinkIn(s, O)
  BY DEF LinkIn, Leads
<1>3. \A l \in LinkIn(s, O) : On(r, l).first = On(s, l).first
  BY DEF LinkIn
<1>4. OwnedIn(u, r) = O
  BY <1>1, <1>2, <1>3, BelowSame, SMTT(30) DEF OwnedIn, SameBelow
<1> DEFINE B == {k \in Cluster : FALSE}
<1>5. B = {} /\ O \ B = O
  OBVIOUS
<1>6. Missing \notin O \X (1 .. SLOTS)
  BY OwnedFacts, Constants
<1>7. Kept(t, s, u, r, O, Missing)
  BY <1>1, <1>6 DEF Kept, ClosedIn
<1>8. LinkIn(r, O) = {l \in LinkIn(s, O) : l[1] \notin B} \ {Missing}
  BY <1>2, <1>5, <1>6 DEF LinkIn
<1>9. \A l \in LinkIn(s, O) : l # Missing
  BY <1>6 DEF LinkIn
<1> HIDE DEF B
<1>10. \A l \in LinkIn(s, O) : On(s, l).first \notin B <=> l[1] \notin B /\ l # Missing
  BY <1>5, <1>9
<1>11. Less(t, s, u, r, B, Missing)
  BY <1>4, <1>5, <1>7, <1>8, <1>10 DEF Less
<1>12. Sound(u, r) /\ HeadsIn(u, r) = HeadsIn(t, s) \ B
  BY <1>11, SoundLess
<1> QED BY <1>2, <1>4, <1>5, <1>12

\* A piece that leads nowhere is exchanged for another.
LEMMA SoundPut ==
    ASSUME NEW t, NEW s \in Disk, NEW r \in Disk, ListsOn(t), Sound(t, s),
           NEW O, O = OwnedIn(t, s), NEW m \in O \X (1 .. SLOTS),
           ~Leads(s, m), ~Leads(r, m),
           \A l \in O \X (1 .. SLOTS) : l # m => On(r, l) = On(s, l),
           On(s, m) \notin Text, ~Named(On(s, m), Dot), ~Named(On(s, m), DotDot),
           ~Named(On(r, m), Dot), EndKept(t, s, r, m)
    PROVE  /\ OwnedIn(t, r) = O /\ LinkIn(r, O) = LinkIn(s, O)
           /\ HeadsIn(t, r) = HeadsIn(t, s) /\ Sound(t, r)
<1>1. O \in SUBSET Cluster /\ RootDirCluster \in Cluster /\ ClosedIn(t, s, O)
  BY OwnedFacts, Constants
<1>2. LinkIn(r, O) = LinkIn(s, O)
  BY DEF LinkIn, Leads
<1>3. \A l \in LinkIn(s, O) : l # m /\ On(r, l).first = On(s, l).first
  BY DEF LinkIn
<1>4. OwnedIn(t, r) = O
  <2>1. SameBelow(t, s, t, r, OwnedIn(t, s))
    BY <1>2, <1>3 DEF SameBelow
  <2> QED BY <1>1, <2>1, BelowSame DEF OwnedIn
<1> DEFINE B == {k \in Cluster : FALSE}
<1>5. B = {} /\ O \ B = O
  OBVIOUS
<1>7. Kept(t, s, t, r, O, m)
  BY <1>1 DEF Kept, ClosedIn
<1>8. LinkIn(r, O) = {l \in LinkIn(s, O) : l[1] \notin B} \ {m}
  BY <1>2, <1>3, <1>5
<1> HIDE DEF B
<1>10. \A l \in LinkIn(s, O) : On(s, l).first \notin B <=> l[1] \notin B /\ l # m
  BY <1>3, <1>5
<1>11. Less(t, s, t, r, B, m)
  BY <1>4, <1>5, <1>7, <1>8, <1>10 DEF Less
<1>12. Sound(t, r) /\ HeadsIn(t, r) = HeadsIn(t, s) \ B
  BY <1>11, SoundLess
<1> QED BY <1>2, <1>4, <1>5, <1>12

\* What is reached after a removal.
LEMMA OwnedRemoved ==
    ASSUME NEW t, NEW s \in Disk, NEW r \in Disk, ListsOn(t), Unique(t, s)
    PROVE  \A P, l, Q :
              /\ P = OwnedIn(t, s) /\ l \in LinkIn(s, P) /\ Q = BelowIn(t, s, On(s, l).first)
              /\ ~Leads(r, l)
              /\ \A j \in (P \ Q) \X (1 .. SLOTS) : j # l => On(r, j) = On(s, j)
              => /\ OwnedIn(t, r) = P \ Q
                 /\ LinkIn(r, P \ Q) = {j \in LinkIn(s, P) : j[1] \notin Q} \ {l}
<1> SUFFICES ASSUME NEW P, NEW l, NEW Q,
                    P = OwnedIn(t, s), l \in LinkIn(s, P), Q = BelowIn(t, s, On(s, l).first),
                    ~Leads(r, l),
                    \A j \in (P \ Q) \X (1 .. SLOTS) : j # l => On(r, j) = On(s, j)
             PROVE  /\ OwnedIn(t, r) = P \ Q
                    /\ LinkIn(r, P \ Q) = {j \in LinkIn(s, P) : j[1] \notin Q} \ {l}
  OBVIOUS
<1> QED BY OwnedRemove

\* An entry is removed, and what lies below it with it.
Removed(t, s, r, m, O, B) ==
    /\ O = OwnedIn(t, s) /\ m \in LinkIn(s, O) /\ B = BelowIn(t, s, On(s, m).first)
    /\ On(r, m) = Erased
    /\ \A l \in (O \ B) \X (1 .. SLOTS) : l # m => On(r, l) = On(s, l)

\* What is reached then, and that the volume is sound.
Without(t, s, r, m, O, B) ==
    /\ OwnedIn(t, r) = O \ B
    /\ LinkIn(r, O \ B) = {l \in LinkIn(s, O) : l[1] \notin B} \ {m}
    /\ HeadsIn(t, r) = HeadsIn(t, s) \ B /\ Sound(t, r)

\* A removal leaves a sound volume sound.
LEMMA SoundRemove ==
    ASSUME NEW t, NEW s \in Disk, NEW r \in Disk, ListsOn(t), Sound(t, s),
           NEW m, NEW O, NEW B, Removed(t, s, r, m, O, B)
    PROVE  Without(t, s, r, m, O, B)
<1> SUFFICES ASSUME O = OwnedIn(t, s), m \in LinkIn(s, O), B = BelowIn(t, s, On(s, m).first),
                    On(r, m) = Erased,
                    \A l \in (O \ B) \X (1 .. SLOTS) : l # m => On(r, l) = On(s, l)
             PROVE  Without(t, s, r, m, O, B)
  BY DEF Removed
<1> DEFINE D == O \ B
<1>1. O \in SUBSET Cluster /\ RootDirCluster \in Cluster /\ ClosedIn(t, s, O)
      /\ B \in SUBSET Cluster /\ ClosedIn(t, s, B)
  BY OwnedFacts, BelowClosed, Constants
<1>2. Unique(t, s)
  BY DEF Sound
<1>3. /\ B \subseteq O /\ m[1] \notin B /\ RootDirCluster \notin B /\ On(s, m).first \in B
      /\ \A k \in O \ B : t[k] \in Cluster => t[k] \in O \ B
      /\ \A l \in LinkIn(s, O) : l[1] \notin B /\ l # m => On(s, l).first \in O \ B
  <2>1. \A P, l, Q : P = OwnedIn(t, s) /\ l \in LinkIn(s, P) /\ Q = BelowIn(t, s, On(s, l).first)
          => /\ Q \subseteq P /\ l[1] \notin Q /\ RootDirCluster \notin Q /\ On(s, l).first \in Q
             /\ \A k \in P \ Q : t[k] \in Cluster => t[k] \in P \ Q
             /\ \A j \in LinkIn(s, P) : j[1] \notin Q /\ j # l => On(s, j).first \in P \ Q
    BY <1>2, BelowLink
  <2> HIDE DEF D
  <2> QED BY <2>1
<1>4. ~Leads(r, m)
  BY DEF Leads, IsEntry
<1>5. OwnedIn(t, r) = D /\ LinkIn(r, D) = {l \in LinkIn(s, O) : l[1] \notin B} \ {m}
  <2>1. \A P, l, Q :
              /\ P = OwnedIn(t, s) /\ l \in LinkIn(s, P) /\ Q = BelowIn(t, s, On(s, l).first)
              /\ ~Leads(r, l)
              /\ \A j \in (P \ Q) \X (1 .. SLOTS) : j # l => On(r, j) = On(s, j)
              => /\ OwnedIn(t, r) = P \ Q
                 /\ LinkIn(r, P \ Q) = {j \in LinkIn(s, P) : j[1] \notin Q} \ {l}
    BY <1>2, OwnedRemoved
  <2> QED BY <1>4, <2>1
<1>6. m \in O \X (1 .. SLOTS) /\ Leads(s, m)
  BY DEF LinkIn
<1>7. IsEntry(On(s, m)) /\ On(s, m).name \notin {Dot, DotDot} /\ On(s, m) # Never
      /\ On(s, m) \notin Text
  BY <1>6 DEF Leads, IsEntry
<1>8. Erased # Never /\ ~Named(Erased, Dot)
  BY Constants DEF Named, IsEntry
<1>9. EndKept(t, s, r, m)
  BY <1>7, <1>8 DEF EndKept
<1>10. Kept(t, s, t, r, D, m)
  <2>1. D \subseteq OwnedIn(t, s)
    OBVIOUS
  <2>2. \A k \in D : t[k] \in Cluster => t[k] \in D
    BY <1>3
  <2>3. On(s, m) \notin Text /\ ~Named(On(s, m), Dot) /\ ~Named(On(s, m), DotDot)
        /\ ~Named(On(r, m), Dot)
    BY <1>7, <1>8 DEF Named
  <2> HIDE DEF D
  <2> QED BY <1>9, <2>1, <2>2, <2>3 DEF Kept, D
<1>11. \A l \in LinkIn(s, O) : On(s, l).first \notin B <=> l[1] \notin B /\ l # m
  <2> SUFFICES ASSUME NEW l \in LinkIn(s, O)
               PROVE  On(s, l).first \notin B <=> l[1] \notin B /\ l # m
    OBVIOUS
  <2>1. l[1] \notin B /\ l # m => On(s, l).first \notin B
    BY <1>3
  <2>2. l[1] \in B => On(s, l).first \in B
    <3>1. l \in O \X (1 .. SLOTS) /\ Leads(s, l)
      BY DEF LinkIn
    <3>2. l[1] \in B => l \in LinkIn(s, B)
      BY <3>1 DEF LinkIn
    <3> QED BY <1>1, <3>2 DEF ClosedIn
  <2> QED BY <1>3, <2>1, <2>2
<1>12. \A k \in B : t[k] \in Cluster => t[k] \in B
  BY <1>1 DEF ClosedIn
<1>13. Less(t, s, t, r, B, m)
  BY <1>3, <1>5, <1>10, <1>11, <1>12 DEF Less
<1>14. Sound(t, r) /\ HeadsIn(t, r) = HeadsIn(t, s) \ B
  BY <1>13, SoundLess
<1> QED BY <1>5, <1>14 DEF Without

\* The entry at m is new, and so is its chain.
More(t, s, u, r, m) ==
    LET O == OwnedIn(t, s)
        e == On(r, m)
        c == e.first
        H == ChainSet(u, c)
    IN  /\ m \in O \X (1 .. SLOTS) /\ ~Leads(s, m) /\ Leads(r, m) /\ H \cap O = {}
        /\ \A k \in O : u[k] = t[k]
        /\ \A l \in O \X (1 .. SLOTS) : l # m => On(r, l) = On(s, l)
        /\ On(s, m) \notin Text /\ ~Named(On(s, m), Dot) /\ ~Named(On(s, m), DotDot)
        /\ EndKept(t, s, r, m)
        /\ \A l \in H \X (1 .. SLOTS) :
              ~Leads(r, l) /\ (Named(On(r, l), Dot) => On(r, l) = DirEntry(Dot, c) /\ l[1] = c)
        /\ e.dir =>
              /\ On(r, <<c, 1>>) = DirEntry(Dot, c)
              /\ \E h \in HeadsIn(t, s) :
                    On(r, <<c, 2>>) = DirEntry(DotDot, h) /\ m[1] \in ChainSet(t, h)
              /\ \A i, k \in DOMAIN PiecesIn(u, c) :
                    i < k /\ On(r, PiecesIn(u, c)[i]) = Never => On(r, PiecesIn(u, c)[k]) = Never
        /\ ~e.dir =>
              /\ (Len(ChainIn(u, c)) - 1) * SLOTS < e.size
              /\ e.size <= Len(ChainIn(u, c)) * SLOTS
              /\ \A k \in DOMAIN PiecesIn(u, c) : k <= e.size => On(r, PiecesIn(u, c)[k]) \in Text

\* With it a volume is sound.
LEMMA SoundMore ==
    ASSUME NEW t, NEW s \in Disk, NEW u, NEW r \in Disk, ListsOn(t), ListsOn(u), Sound(t, s),
           NEW m, More(t, s, u, r, m)
    PROVE  /\ OwnedIn(u, r) = OwnedIn(t, s) \cup ChainSet(u, On(r, m).first)
           /\ LinkIn(r, OwnedIn(u, r)) = LinkIn(s, OwnedIn(t, s)) \cup {m}
           /\ HeadsIn(u, r) = HeadsIn(t, s) \cup {On(r, m).first} /\ Sound(u, r)
<1> DEFINE O == OwnedIn(t, s)
           e == On(r, m)
           c == e.first
           H == ChainSet(u, c)
           D == O \cup H
           L == LinkIn(s, O)
           M == LinkIn(r, D)
<1>1. /\ m \in O \X (1 .. SLOTS) /\ ~Leads(s, m) /\ Leads(r, m) /\ H \cap O = {}
      /\ \A k \in O : u[k] = t[k]
      /\ \A l \in O \X (1 .. SLOTS) : l # m => On(r, l) = On(s, l)
      /\ On(s, m) \notin Text /\ ~Named(On(s, m), Dot) /\ ~Named(On(s, m), DotDot)
      /\ EndKept(t, s, r, m)
  BY DEF More
<1>2. \A l \in H \X (1 .. SLOTS) :
              ~Leads(r, l) /\ (Named(On(r, l), Dot) => On(r, l) = DirEntry(Dot, c) /\ l[1] = c)
  BY DEF More
<1>3. e.dir =>
              /\ On(r, <<c, 1>>) = DirEntry(Dot, c)
              /\ \E h \in HeadsIn(t, s) :
                    On(r, <<c, 2>>) = DirEntry(DotDot, h) /\ m[1] \in ChainSet(t, h)
              /\ \A i, k \in DOMAIN PiecesIn(u, c) :
                    i < k /\ On(r, PiecesIn(u, c)[i]) = Never => On(r, PiecesIn(u, c)[k]) = Never
  BY DEF More
<1>4. ~e.dir =>
              /\ (Len(ChainIn(u, c)) - 1) * SLOTS < e.size
              /\ e.size <= Len(ChainIn(u, c)) * SLOTS
              /\ \A k \in DOMAIN PiecesIn(u, c) : k <= e.size => On(r, PiecesIn(u, c)[k]) \in Text
  BY DEF More
<1>5. O \in SUBSET Cluster /\ RootDirCluster \in O /\ ClosedIn(t, s, O)
  BY OwnedFacts
<1>6. OwnedIn(u, r) = D /\ M = L \cup {m} /\ m \notin L
  <2>1. \A l \in H \X (1 .. SLOTS) : ~Leads(r, l)
    BY <1>2
  <2> SUFFICES ASSUME NEW P, P = O, NEW Q, Q = H
               PROVE  OwnedIn(u, r) = P \cup Q /\ LinkIn(r, P \cup Q) = LinkIn(s, P) \cup {m}
                      /\ m \notin LinkIn(s, P)
    OBVIOUS
  <2> HIDE DEF e
  <2>2. Q = ChainSet(u, On(r, m).first)
    BY DEF e
  <2> HIDE DEF H, O
  <2> QED BY <1>1, <2>1, <2>2, OwnedGrow DEF H, O
<1>7. c \in Cluster /\ c \in H
  <2>1. m \in M
    BY <1>6
  <2>2. m \in LinkIn(r, O)
    BY <1>1 DEF LinkIn
  <2>3. c \in Cluster
    BY <1>5, <2>2, LinkFacts
  <2> HIDE DEF c, e
  <2> QED BY <2>3, ChainFacts
<1>8. Kept(t, s, u, r, O, m)
  <2>1. ~Named(On(r, m), Dot)
    BY <1>1 DEF Leads, Named
  <2> QED BY <1>1, <1>5, <2>1 DEF Kept, ClosedIn
<1> HIDE DEF e, H, D
<1>9. ASSUME NEW l \in L
      PROVE  /\ l # m /\ l \in O \X (1 .. SLOTS) /\ On(r, l) = On(s, l) /\ l \in M
             /\ On(s, l).first \in O /\ On(s, l).first \in HeadsIn(t, s)
  <2>1. l # m /\ l \in O \X (1 .. SLOTS) /\ l \in M
    BY <1>6 DEF LinkIn
  <2>2. On(s, l).first \in O
    BY <1>5 DEF ClosedIn
  <2> QED BY <1>1, <2>1, <2>2 DEF HeadsIn
<1>10. HeadsIn(u, r) = HeadsIn(t, s) \cup {c}
  <2>1. HeadsIn(u, r) = {RootDirCluster} \cup {On(r, l).first : l \in M}
    BY <1>6 DEF HeadsIn
  <2>2. HeadsIn(t, s) = {RootDirCluster} \cup {On(s, l).first : l \in L}
    BY DEF HeadsIn
  <2>3. {On(r, l).first : l \in M} = {On(s, l).first : l \in L} \cup {c}
    <3>1. ASSUME NEW l \in M PROVE On(r, l).first \in {On(s, n).first : n \in L} \cup {c}
      BY <1>6, <1>9 DEF e
    <3>2. ASSUME NEW l \in L PROVE On(s, l).first \in {On(r, n).first : n \in M}
      BY <1>9
    <3>3. c \in {On(r, n).first : n \in M}
      BY <1>6 DEF e
    <3> HIDE DEF L, M
    <3> QED BY <3>1, <3>2, <3>3
  <2> QED BY <2>1, <2>2, <2>3
<1>11. Unique(u, r)
  <2>1. /\ \A k \in O : t[k] # RootDirCluster
        /\ \A l \in L : On(s, l).first # RootDirCluster
        /\ \A k, j \in O : t[k] = t[j] /\ t[k] \in Cluster => k = j
        /\ \A l, n \in L : On(s, l).first = On(s, n).first => l = n
        /\ \A l \in L, k \in O : On(s, l).first # t[k]
    BY DEF Sound, Unique
  <2> DEFINE q == ChainIn(u, c)
  <2>2. IsList(u, c, q)
    BY ChainList
  <2>3. /\ Len(q) \in Nat /\ Len(q) > 0 /\ q[1] = c
        /\ \A i \in 1 .. Len(q) : q[i] \in Cluster /\ q[i] \in H
        /\ \A j \in H : \E i \in 1 .. Len(q) : j = q[i]
    BY <1>7, ChainFacts DEF H
  <2> HIDE DEF q
  <2>4. /\ \A i \in 1 .. Len(q) - 1 : u[q[i]] = q[i + 1]
        /\ \A i, j \in 1 .. Len(q) : q[i] = q[j] => i = j
        /\ u[q[Len(q)]] \notin Cluster
    BY <1>7, <2>2 DEF IsList
  <2>5. ASSUME NEW k \in H, u[k] \in Cluster
        PROVE  \E i \in 1 .. Len(q) - 1 : k = q[i] /\ u[k] = q[i + 1] /\ i + 1 \in 1 .. Len(q)
                                          /\ i \in 1 .. Len(q) /\ i + 1 # 1
    <3>1. PICK i \in 1 .. Len(q) : k = q[i]
      BY <2>3
    <3>2. i # Len(q)
      BY <2>4, <2>5, <3>1
    <3>3. i \in 1 .. Len(q) - 1 /\ i + 1 \in 1 .. Len(q) /\ i + 1 # 1
      BY <2>3, <3>2
    <3> QED BY <2>4, <3>1, <3>3
  <2>6. \A k \in H : u[k] \in Cluster => u[k] \in H /\ u[k] # c
    <3> SUFFICES ASSUME NEW k \in H, u[k] \in Cluster PROVE u[k] \in H /\ u[k] # c
      OBVIOUS
    <3>1. PICK i \in 1 .. Len(q) - 1 : k = q[i] /\ u[k] = q[i + 1] /\ i + 1 \in 1 .. Len(q)
                                       /\ i \in 1 .. Len(q) /\ i + 1 # 1
      BY <2>5
    <3>2. 1 \in 1 .. Len(q)
      BY <2>3
    <3> QED BY <2>3, <2>4, <3>1, <3>2
  <2>7. \A k, j \in H : u[k] = u[j] /\ u[k] \in Cluster => k = j
    <3> SUFFICES ASSUME NEW k \in H, NEW j \in H, u[k] = u[j], u[k] \in Cluster PROVE k = j
      OBVIOUS
    <3>1. PICK i \in 1 .. Len(q) - 1 : k = q[i] /\ u[k] = q[i + 1] /\ i + 1 \in 1 .. Len(q)
                                       /\ i \in 1 .. Len(q) /\ i + 1 # 1
      BY <2>5
    <3>2. PICK n \in 1 .. Len(q) - 1 : j = q[n] /\ u[j] = q[n + 1] /\ n + 1 \in 1 .. Len(q)
                                       /\ n \in 1 .. Len(q) /\ n + 1 # 1
      BY <2>5
    <3>3. i + 1 = n + 1
      BY <2>4, <3>1, <3>2
    <3>4. i = n
      BY <3>3
    <3> QED BY <3>1, <3>2, <3>4
  <2>8. \A k \in O : u[k] = t[k] /\ k \notin H /\ (u[k] \in Cluster => u[k] \in O)
    BY <1>1, <1>5 DEF ClosedIn
  <2>9. \A l \in M : On(r, l).first = c \/ (l \in L /\ On(r, l).first = On(s, l).first /\ On(s, l).first \in O)
    BY <1>6, <1>9 DEF e
  <2>10. c \notin O /\ c # RootDirCluster
    BY <1>1, <1>5, <1>7
  <2>11. \A k \in D : k \in O \/ k \in H
    BY DEF D
  <2>12. \A l \in M : On(r, l).first \in Cluster
    BY <1>5, <1>7, <2>9
  <2>13. \A k \in D : u[k] # RootDirCluster
    BY <1>1, <1>5, <2>1, <2>6, <2>8, <2>11
  <2>14. \A l \in M : On(r, l).first # RootDirCluster
    BY <2>1, <2>9, <2>10
  <2>15. \A k, j \in D : u[k] = u[j] /\ u[k] \in Cluster => k = j
    BY <1>1, <2>1, <2>6, <2>7, <2>8, <2>11
  <2>16. \A l, n \in M : On(r, l).first = On(r, n).first => l = n
    <3> SUFFICES ASSUME NEW l \in M, NEW n \in M, On(r, l).first = On(r, n).first PROVE l = n
      OBVIOUS
    <3>1. l = m \/ l \in L
      BY <1>6
    <3>2. n = m \/ n \in L
      BY <1>6
    <3>3. On(r, m).first = c
      BY DEF e
    <3>4. \A j \in L : On(r, j).first = On(s, j).first /\ On(r, j).first # c
      BY <1>9, <2>10
    <3> HIDE DEF L, M
    <3> QED BY <2>1, <3>1, <3>2, <3>3, <3>4
  <2>17. \A l \in M, k \in D : On(r, l).first # u[k]
    <3> SUFFICES ASSUME NEW l \in M, NEW k \in D, On(r, l).first = u[k] PROVE FALSE
      OBVIOUS
    <3>1. u[k] \in Cluster
      BY <2>12
    <3>2. CASE k \in H
      BY <1>1, <2>6, <2>9, <3>1, <3>2
    <3>3. CASE k \in O
      BY <2>1, <2>8, <2>9, <2>10, <3>1, <3>3
    <3> QED BY <2>11, <3>2, <3>3
  <2> QED BY <1>6, <2>13, <2>14, <2>15, <2>16, <2>17 DEF Unique
<1>12. Dotted(u, r)
  <2> SUFFICES ASSUME NEW l \in D \X (1 .. SLOTS), Named(On(r, l), Dot)
               PROVE  On(r, l) = DirEntry(Dot, l[1]) /\ l[1] \in HeadsIn(t, s) \cup {c}
    BY <1>6, <1>10 DEF Dotted
  <2>1. l \in O \X (1 .. SLOTS) \/ l \in H \X (1 .. SLOTS)
    BY DEF D
  <2>2. CASE l \in O \X (1 .. SLOTS)
    <3>1. ~Named(On(r, m), Dot)
      BY <1>1 DEF Leads, Named
    <3>2. l # m
      BY <3>1
    <3>3. On(r, l) = On(s, l)
      BY <1>1, <2>2, <3>2
    <3> QED BY <2>2, <3>3 DEF Sound, Dotted
  <2>3. CASE l \in H \X (1 .. SLOTS)
    BY <1>2, <2>3
  <2> QED BY <2>1, <2>2, <2>3
<1>13. Parents(u, r)
  <2> SUFFICES ASSUME NEW l \in M, On(r, l).dir
               PROVE  /\ On(r, <<On(r, l).first, 1>>) = DirEntry(Dot, On(r, l).first)
                      /\ \E h \in HeadsIn(t, s) \cup {c} :
                            /\ On(r, <<On(r, l).first, 2>>) = DirEntry(DotDot, h)
                            /\ l[1] \in ChainSet(u, h)
    BY <1>6, <1>10 DEF Parents
  <2>1. \A h \in HeadsIn(t, s) : h \in O /\ ChainSet(u, h) = ChainSet(t, h)
    BY <1>8, HeadFacts, KeptChain
  <2>2. CASE l = m
    BY <1>3, <2>1, <2>2 DEF e
  <2>3. CASE l # m
    <3> DEFINE f == On(s, l).first
    <3>1. l \in L /\ On(r, l) = On(s, l) /\ f \in O
      BY <1>6, <1>9, <2>3
    <3>2. PICK h \in HeadsIn(t, s) : /\ On(s, <<f, 1>>) = DirEntry(Dot, f)
                                     /\ On(s, <<f, 2>>) = DirEntry(DotDot, h)
                                     /\ l[1] \in ChainSet(t, h)
      BY <3>1 DEF Sound, Parents
    <3>3. h \in O
      BY <2>1
    <3>4. On(r, <<f, 1>>) = DirEntry(Dot, f) /\ On(r, <<f, 2>>) = DirEntry(DotDot, h)
      <4> HIDE DEF f, O
      <4> QED BY <1>8, <3>1, <3>2, <3>3, KeptParent
    <3> QED BY <2>1, <3>1, <3>2, <3>4
  <2> QED BY <2>2, <2>3
<1>14. Ended(u, r)
  <2> SUFFICES ASSUME NEW d \in DirsIn(u, r), NEW i \in DOMAIN PiecesIn(u, d),
                      NEW k \in DOMAIN PiecesIn(u, d), i < k, On(r, PiecesIn(u, d)[i]) = Never
               PROVE  On(r, PiecesIn(u, d)[k]) = Never
    BY DEF Ended
  <2>1. (d = c /\ e.dir) \/ (d \in DirsIn(t, s) /\ d \in O)
    <3>1. CASE d = RootDirCluster
      BY <1>5, <3>1 DEF DirsIn
    <3>2. CASE d # RootDirCluster
      <4>1. PICK l \in M : On(r, l).dir /\ d = On(r, l).first
        BY <1>6, <3>2 DEF DirsIn
      <4>2. CASE l = m
        BY <4>1, <4>2 DEF e
      <4>3. CASE l # m
        BY <1>6, <1>9, <4>1, <4>3 DEF DirsIn
      <4> QED BY <4>2, <4>3
    <3> QED BY <3>1, <3>2
  <2>2. CASE d = c /\ e.dir
    BY <1>3, <2>2
  <2>3. CASE d \in DirsIn(t, s) /\ d \in O
    <3>1. d \in HeadsIn(t, s)
      BY <2>3 DEF DirsIn, HeadsIn
    <3>2. \A j, n \in DOMAIN PiecesIn(t, d) :
              j < n /\ On(s, PiecesIn(t, d)[j]) = Never => On(s, PiecesIn(t, d)[n]) = Never
      BY <2>3 DEF Sound, Ended
    <3> HIDE DEF O
    <3> QED BY <1>8, <2>3, <3>1, <3>2, KeptEnded DEF Sound
  <2> QED BY <2>1, <2>2, <2>3
<1>15. Sized(u, r)
  <2> SUFFICES ASSUME NEW l \in M, ~On(r, l).dir
               PROVE  /\ (Len(ChainIn(u, On(r, l).first)) - 1) * SLOTS < On(r, l).size
                      /\ On(r, l).size <= Len(ChainIn(u, On(r, l).first)) * SLOTS
    BY <1>6 DEF Sized
  <2>1. CASE l = m
    BY <1>4, <2>1 DEF e
  <2>2. CASE l # m
    <3>1. l \in L /\ On(r, l) = On(s, l) /\ On(s, l).first \in O
      BY <1>6, <1>9, <2>2
    <3>2. ChainIn(u, On(s, l).first) = ChainIn(t, On(s, l).first)
      BY <1>8, <3>1, KeptChain
    <3> QED BY <3>1, <3>2 DEF Sound, Sized
  <2> QED BY <2>1, <2>2
<1>16. Texts(u, r)
  <2> SUFFICES ASSUME NEW l \in M, ~On(r, l).dir, NEW k \in DOMAIN PiecesIn(u, On(r, l).first),
                      k <= On(r, l).size
               PROVE  On(r, PiecesIn(u, On(r, l).first)[k]) \in Text
    BY <1>6 DEF Texts
  <2>1. CASE l = m
    BY <1>4, <2>1 DEF e
  <2>2. CASE l # m
    <3> DEFINE f == On(s, l).first
    <3>1. l \in L /\ On(r, l) = On(s, l) /\ f \in O
      BY <1>6, <1>9, <2>2
    <3>2. PiecesIn(u, f) = PiecesIn(t, f)
      BY <1>8, <3>1, KeptChain
    <3>3. k \in DOMAIN PiecesIn(u, f) /\ k \in DOMAIN PiecesIn(t, f) /\ k <= On(s, l).size
          /\ ~On(s, l).dir
      BY <3>1, <3>2
    <3>4. On(s, PiecesIn(t, f)[k]) \in Text
      BY <3>1, <3>3 DEF Sound, Texts
    <3> HIDE DEF f
    <3>5. On(r, PiecesIn(u, f)[k]) \in Text
      BY <1>8, <3>1, <3>3, <3>4, KeptText DEF f
    <3> QED BY <3>1, <3>5 DEF f
  <2> QED BY <2>1, <2>2
<1> QED BY <1>6, <1>10, <1>11, <1>12, <1>13, <1>14, <1>15, <1>16 DEF Sound, D, H, e

--------------------------------------------------------------------------------
\* The volume as the driver's promises see it: while a removal is under way,
\* its entry counts as erased already.
Virtual ==
    IF Removing THEN [sect EXCEPT ![job.at[1]][job.at[2]] = Erased] ELSE sect

\* What the model reads, by the operators above.
LEMMA ReadsAre ==
    /\ \A c : ChainFrom(c) = ChainIn(fat, c) /\ Pieces(c) = PiecesIn(fat, c)
    /\ \A l : At(l) = On(sect, l)
    /\ \A e : Readable(e) = ReadableIn(fat, e)
    /\ \A locs, name : Find(locs, name) = FindOn(sect, locs, name)
    /\ \A e, name : FindInDir(e, name) = FindEntry(fat, sect, e, name)
    /\ \A path : Open(path) = OpenIn(fat, sect, Way(path))
    /\ \A c : FreeSlot(c) = FreeSlotIn(fat, sect, c)
<1>1. \A c : ChainFrom(c) = ChainIn(fat, c)
  BY DEF ChainFrom, ChainIn
<1>2. \A c : Pieces(c) = PiecesIn(fat, c)
  BY <1>1 DEF Pieces, PiecesIn
<1>3. \A l : At(l) = On(sect, l)
  BY DEF At, On
<1>4. \A e : Readable(e) = ReadableIn(fat, e)
  BY <1>2 DEF Readable, ReadableIn
<1>5. \A locs, name : Find(locs, name) = FindOn(sect, locs, name)
  BY <1>3 DEF Find, FindOn
<1>6. \A e, name : FindInDir(e, name) = FindEntry(fat, sect, e, name)
  BY <1>3, <1>4, <1>5 DEF FindInDir, FindEntry
<1>7. \A path : Open(path) = OpenIn(fat, sect, Way(path))
  BY <1>6 DEF Open, Walked, OpenIn
<1>8. \A c : FreeSlot(c) = FreeSlotIn(fat, sect, c)
  BY <1>2, <1>3 DEF FreeSlot, FreeSlotIn
<1> QED BY <1>1, <1>2, <1>3, <1>4, <1>5, <1>6, <1>7, <1>8

\* Disk and place are such that the volume can be read.
InRange == sect \in Disk /\ (Removing => job.at \in Location)

\* It is the disk, but for the entry that is being removed.
LEMMA VirtualIs ==
    ASSUME InRange
    PROVE  /\ Virtual \in Disk
           /\ \A l \in Location : ~(Removing /\ l = job.at) => On(Virtual, l) = On(sect, l)
           /\ Removing => On(Virtual, job.at) = Erased
<1> USE DEF InRange
<1>1. CASE ~Removing
  BY <1>1 DEF Virtual
<1>2. CASE Removing
  <2> DEFINE m == job.at
             r == [sect EXCEPT ![m[1]][m[2]] = Erased]
  <2>1. m[1] \in Cluster /\ m[2] \in 1 .. SLOTS /\ m = <<m[1], m[2]>>
    BY <1>2 DEF Location
  <2>2. Virtual = r
    BY <1>2 DEF Virtual
  <2>3. Erased \in Piece
    BY DEF Piece, Marks
  <2> HIDE DEF m
  <2>4. r \in Disk
    BY <2>1, <2>3 DEF Disk
  <2>5. On(r, m) = Erased
    BY <2>1 DEF Disk, On
  <2>6. ASSUME NEW l \in Location, l # m PROVE On(r, l) = On(sect, l)
    <3>1. l[1] \in Cluster /\ l[2] \in 1 .. SLOTS /\ l = <<l[1], l[2]>>
      BY DEF Location
    <3>2. l[1] # m[1] \/ l[2] # m[2]
      BY <2>1, <2>6, <3>1
    <3> QED BY <2>1, <3>1, <3>2 DEF Disk, On
  <2> QED BY <1>2, <2>2, <2>4, <2>5, <2>6 DEF m
<1> QED BY <1>1, <1>2

\* What the directories lead to, likewise.
LEMMA OwnedIs ==
    ASSUME InRange
    PROVE  /\ \A cs \in SUBSET Cluster : LinksIn(cs) = LinkIn(Virtual, cs)
           /\ \A c : Below(c) = BelowIn(fat, Virtual, c)
           /\ Owned = OwnedIn(fat, Virtual) /\ Owned \in SUBSET Cluster
           /\ Links = LinkIn(Virtual, Owned)
           /\ \A l \in Links : At(l) = On(Virtual, l)
           /\ Heads = HeadsIn(fat, Virtual) /\ Directories = DirsIn(fat, Virtual)
<1>1. /\ Virtual \in Disk
      /\ \A l \in Location : ~(Removing /\ l = job.at) => On(Virtual, l) = On(sect, l)
      /\ Removing => On(Virtual, job.at) = Erased
  BY VirtualIs
<1>2. ~IsEntry(Erased)
  BY DEF IsEntry
<1>3. ASSUME NEW cs \in SUBSET Cluster
      PROVE  LinksIn(cs) = LinkIn(Virtual, cs) /\ \A l \in LinksIn(cs) : At(l) = On(Virtual, l)
  <2>1. cs \X (1 .. SLOTS) \subseteq Location
    BY DEF Location
  <2>2. \A l \in cs \X (1 .. SLOTS) : ~(Removing /\ l = job.at) => On(Virtual, l) = At(l)
    BY <1>1, <2>1 DEF At, On
  <2>3. \A l \in cs \X (1 .. SLOTS) : Removing /\ l = job.at => ~Leads(Virtual, l)
    BY <1>1, <1>2 DEF Leads
  <2> QED BY <2>2, <2>3 DEF LinksIn, LinkIn, Leads
<1>4. \A cs \in SUBSET Cluster : Closed(cs) <=> ClosedIn(fat, Virtual, cs)
  BY <1>3 DEF Closed, ClosedIn
<1>5. \A c : Below(c) = BelowIn(fat, Virtual, c)
  BY <1>4 DEF Below, BelowIn
<1>6. Owned = OwnedIn(fat, Virtual) /\ Owned \in SUBSET Cluster
  BY <1>5 DEF Owned, OwnedIn, Below
<1>7. Links = LinkIn(Virtual, Owned) /\ \A l \in Links : At(l) = On(Virtual, l)
  BY <1>3, <1>6 DEF Links
<1> QED BY <1>3, <1>5, <1>6, <1>7 DEF Heads, Directories, HeadsIn, DirsIn

\* The same of the next state.
LEMMA ReadsNext ==
    /\ \A c : ChainFrom(c)' = ChainIn(fat', c) /\ Pieces(c)' = PiecesIn(fat', c)
    /\ \A l : At(l)' = On(sect', l)
    /\ \A e : Readable(e)' = ReadableIn(fat', e)
    /\ \A path : Open(path)' = OpenIn(fat', sect', Way(path))
<1>1. (\A c : ChainFrom(c) = ChainIn(fat, c) /\ Pieces(c) = PiecesIn(fat, c))'
  BY ReadsAre, PTL
<1>2. (\A l : At(l) = On(sect, l))'
  BY ReadsAre, PTL
<1>3. (\A e : Readable(e) = ReadableIn(fat, e))'
  BY ReadsAre, PTL
<1>4. (\A path : Open(path) = OpenIn(fat, sect, Way(path)))'
  BY ReadsAre, PTL
<1> QED BY <1>1, <1>2, <1>3, <1>4 DEF On, ChainIn, PiecesIn, ReadableIn, OpenIn, Way

\* The same of the next state.
LEMMA OwnedNext ==
    InRange' =>
           /\ \A c : Below(c)' = BelowIn(fat', Virtual', c)
           /\ Owned' = OwnedIn(fat', Virtual') /\ Owned' \in SUBSET Cluster
           /\ Links' = LinkIn(Virtual', Owned')
           /\ \A l \in Links' : At(l)' = On(Virtual', l)
           /\ Heads' = HeadsIn(fat', Virtual') /\ Directories' = DirsIn(fat', Virtual')
<1>1. InRange => \A c : Below(c) = BelowIn(fat, Virtual, c)
  BY OwnedIs
<1>2. InRange => Owned = OwnedIn(fat, Virtual) /\ Owned \in SUBSET Cluster
  BY OwnedIs
<1>3. InRange => Links = LinkIn(Virtual, Owned)
  BY OwnedIs
<1>4. InRange => \A l \in Links : At(l) = On(Virtual, l)
  BY OwnedIs
<1>5. InRange => Heads = HeadsIn(fat, Virtual) /\ Directories = DirsIn(fat, Virtual)
  BY OwnedIs
<1>6. (InRange => \A c : Below(c) = BelowIn(fat, Virtual, c))'
  BY <1>1, PTL
<1>7. (InRange => Owned = OwnedIn(fat, Virtual) /\ Owned \in SUBSET Cluster)'
  BY <1>2, PTL
<1>8. (InRange => Links = LinkIn(Virtual, Owned))'
  BY <1>3, PTL
<1>9. (InRange => \A l \in Links : At(l) = On(Virtual, l))'
  BY <1>4, PTL
<1>10. (InRange => Heads = HeadsIn(fat, Virtual) /\ Directories = DirsIn(fat, Virtual))'
  BY <1>5, PTL
<1> QED BY <1>6, <1>7, <1>8, <1>9, <1>10 DEF BelowIn, On

--------------------------------------------------------------------------------
\* Names as the shell and its user give them: a typed ".." converts to the
\* short name ".", and a typed "..." to ".." (fat.c:106-127), so that neither
\* comes last and the second does not come at all.
PlainNames == \A path \in Paths : DotDot \notin ToSet(path) /\ Last(path) # Dot

\* A name sequence without an empty last name is the way itself.
LEMMA WayFacts ==
    ASSUME NEW names, NEW T, names \in Seq(T)
    PROVE  /\ Len(Way(names)) \in Nat /\ Len(Way(names)) <= Len(names)
           /\ \A n \in 1 .. Len(Way(names)) : n \in 1 .. Len(names) /\ Way(names)[n] = names[n]
           /\ (\A n \in 1 .. Len(names) : names[n] # Blank) => Way(names) = names
<1>1. CASE names = <<>> \/ Last(names) # Blank
  BY <1>1 DEF Way
<1>2. CASE names # <<>> /\ Last(names) = Blank
  <2>1. /\ Len(names) \in Nat /\ Len(names) > 0
        /\ Len(Front(names)) = Len(names) - 1 /\ Last(names) = names[Len(names)]
        /\ \A n \in 1 .. Len(names) - 1 : Front(names)[n] = names[n]
    BY <1>2, PathEnds
  <2>2. Way(names) = Front(names)
    BY <1>2 DEF Way
  <2>3. \E n \in 1 .. Len(names) : names[n] = Blank
    BY <1>2, <2>1
  <2> QED BY <2>1, <2>2, <2>3
<1> QED BY <1>1, <1>2

\* A path's directory and its last name.
LEMMA PathFacts ==
    ASSUME NEW path \in Paths
    PROVE  /\ path # <<>>
           /\ Len(Way(path)) \in Nat /\ Len(Way(Front(path))) \in Nat
           /\ Last(path) \in UNION {ToSet(p) : p \in Paths}
           /\ Blank \notin ToSet(path) => \A t, s :
                 OpenIn(t, s, Way(path))
                    = FindEntry(t, s, OpenIn(t, s, Way(Front(path))), Last(path))
           /\ PlainNames =>
                 /\ \A n \in 1 .. Len(Way(path)) : Way(path)[n] # DotDot
                 /\ \A n \in 1 .. Len(Way(Front(path))) : Way(Front(path))[n] # DotDot
                 /\ Last(path) \notin {Dot, DotDot}
<1>1. path # <<>> /\ path \in Seq(ToSet(path))
  BY Constants
<1>2. /\ Len(path) \in Nat /\ Len(path) > 0
      /\ Front(path) \in Seq(ToSet(path)) /\ Len(Front(path)) = Len(path) - 1
      /\ Last(path) = path[Len(path)]
      /\ \A n \in 1 .. Len(path) - 1 : Front(path)[n] = path[n]
  BY <1>1, PathEnds
<1>3. \A n \in 1 .. Len(path) : path[n] \in ToSet(path)
  BY <1>1, <1>2
<1>4. Last(path) \in ToSet(path)
  BY <1>2, <1>3
<1>5. Last(path) \in UNION {ToSet(p) : p \in Paths}
  BY <1>4
<1>6. /\ Len(Way(path)) \in Nat
      /\ \A n \in 1 .. Len(Way(path)) : n \in 1 .. Len(path) /\ Way(path)[n] = path[n]
      /\ (\A n \in 1 .. Len(path) : path[n] # Blank) => Way(path) = path
  BY <1>1, WayFacts
<1>7. /\ Len(Way(Front(path))) \in Nat
      /\ \A n \in 1 .. Len(Way(Front(path))) :
            n \in 1 .. Len(Front(path)) /\ Way(Front(path))[n] = Front(path)[n]
      /\ (\A n \in 1 .. Len(Front(path)) : Front(path)[n] # Blank)
            => Way(Front(path)) = Front(path)
  BY <1>2, WayFacts
<1>8. \A t, s : OpenIn(t, s, path) = FindEntry(t, s, OpenIn(t, s, Front(path)), Last(path))
  BY <1>2, OpenLast
<1>9. Blank \notin ToSet(path) => Way(path) = path /\ Way(Front(path)) = Front(path)
  <2> SUFFICES ASSUME Blank \notin ToSet(path)
               PROVE  Way(path) = path /\ Way(Front(path)) = Front(path)
    OBVIOUS
  <2>1. \A n \in 1 .. Len(path) : path[n] # Blank
    BY <1>3
  <2>2. \A n \in 1 .. Len(Front(path)) : n \in 1 .. Len(path) /\ Front(path)[n] = path[n]
    BY <1>2
  <2> QED BY <1>6, <1>7, <2>1, <2>2
<1>10. ASSUME PlainNames
       PROVE  /\ \A n \in 1 .. Len(Way(path)) : Way(path)[n] # DotDot
              /\ \A n \in 1 .. Len(Way(Front(path))) : Way(Front(path))[n] # DotDot
              /\ Last(path) \notin {Dot, DotDot}
  <2>1. DotDot \notin ToSet(path) /\ Last(path) # Dot
    BY <1>10 DEF PlainNames
  <2>2. \A n \in 1 .. Len(Front(path)) : n \in 1 .. Len(path) /\ Front(path)[n] = path[n]
    BY <1>2
  <2> QED BY <1>3, <1>4, <1>6, <1>7, <2>1, <2>2
<1> QED BY <1>1, <1>5, <1>6, <1>7, <1>8, <1>9, <1>10

\* Opening gives an entry, the root or nothing.
LEMMA OpenedIs ==
    ASSUME NEW t, NEW s \in Disk, ListsOn(t), NEW p, Len(p) \in Nat
    PROVE  OpenIn(t, s, p) \in Opened
<1>1. PICK g : Trace(t, s, p, g) /\ OpenIn(t, s, p) = g[Len(p)]
  BY OpenTrace
<1> DEFINE T == {n \in 0 .. Len(p) : g[n] \notin Opened}
<1>2. T = {}
  <2> SUFFICES ASSUME T # {} PROVE FALSE
    OBVIOUS
  <2>1. PICK n \in T : \A j \in T : n <= j
    <3>1. T \in SUBSET Nat
      BY DEF T
    <3> HIDE DEF T
    <3> QED BY <3>1, Least
  <2>2. n # 0
    BY <1>1 DEF Trace, Opened
  <2>3. n - 1 \in 0 .. Len(p) /\ n \in 1 .. Len(p) /\ n - 1 \notin T
    BY <2>1, <2>2
  <2>4. g[n - 1] \in Opened /\ g[n] = FindEntry(t, s, g[n - 1], p[n])
    BY <1>1, <2>3 DEF Trace
  <2>5. g[n] # NoEntry => g[n] \in Entries
    BY <2>4, FindEntryIs
  <2> QED BY <2>1, <2>5 DEF Opened
<1> QED BY <1>1, <1>2

\* The directory of a path, as the driver takes it.
DirOf(t, s, path) == OpenIn(t, s, Way(Front(path))).first

\* Paths with plain names are of that kind.
LEMMA WalkOf ==
    ASSUME NEW t, NEW s, PlainNames, NEW path \in Paths
    PROVE  /\ \E g : Walk(t, s, Way(path), g) /\ g[Len(Way(path))] = OpenIn(t, s, Way(path))
           /\ \E g : Walk(t, s, Way(Front(path)), g) /\ g[Len(Way(Front(path)))] = OpenIn(t, s, Way(Front(path)))
<1>1. \E g : Trace(t, s, Way(path), g) /\ OpenIn(t, s, Way(path)) = g[Len(Way(path))]
  <2>1. Len(Way(path)) \in Nat
    BY PathFacts
  <2> QED BY <2>1, OpenTrace
<1>2. \E g : Trace(t, s, Way(Front(path)), g) /\ OpenIn(t, s, Way(Front(path))) = g[Len(Way(Front(path)))]
  BY PathFacts, OpenTrace, ZenonT(40)
<1> QED BY <1>1, <1>2, PathFacts DEF Walk

\* The directory of a path is a chain of the volume, or nothing.
LEMMA DirFacts ==
    ASSUME NEW t, NEW s \in Disk, ListsOn(t), Sound(t, s), PlainNames, NEW path \in Paths,
           NEW d, d = DirOf(t, s, path)
    PROVE  /\ d \in Cluster \cup {FREE}
           /\ d # FREE => /\ d \in HeadsIn(t, s) /\ d \in Cluster
                          /\ ChainSet(t, d) \subseteq OwnedIn(t, s)
           /\ d = FREE => PiecesIn(t, d) = <<>>
           /\ OpenIn(t, s, Way(path)) \in Opened
           /\ OpenIn(t, s, Way(path)) \in Leader(t, s) \/ OpenIn(t, s, Way(path)).first = FREE
           /\ OpenIn(t, s, Way(Front(path))) \in Opened
           /\ OpenIn(t, s, Way(Front(path))) \in Leader(t, s) \/ d = FREE
<1>1. PICK g : Walk(t, s, Way(path), g) /\ g[Len(Way(path))] = OpenIn(t, s, Way(path))
  BY WalkOf
<1>2. PICK h : Walk(t, s, Way(Front(path)), h) /\ h[Len(Way(Front(path)))] = OpenIn(t, s, Way(Front(path)))
  BY WalkOf
<1>3. Len(Way(path)) \in 0 .. Len(Way(path)) /\ Len(Way(Front(path))) \in 0 .. Len(Way(Front(path)))
  BY PathFacts
<1>4. /\ OpenIn(t, s, Way(path)) \in Opened
      /\ OpenIn(t, s, Way(path)) \in Leader(t, s) \/ OpenIn(t, s, Way(path)).first = FREE
  BY <1>1, <1>3, WalkIn
<1>5. /\ OpenIn(t, s, Way(Front(path))) \in Opened
      /\ OpenIn(t, s, Way(Front(path))) \in Leader(t, s) \/ d = FREE
  BY <1>2, <1>3, WalkIn DEF DirOf
<1>6. d \in Cluster \cup {FREE}
  BY <1>5, OpenedFacts DEF DirOf
<1>7. d # FREE => d \in HeadsIn(t, s)
  BY <1>2, <1>3, WalkHeads DEF DirOf
<1>8. d = FREE => PiecesIn(t, d) = <<>>
  BY PieceFacts, Constants
<1> QED BY <1>4, <1>5, <1>6, <1>7, <1>8, HeadFacts

\* The path's entry is the piece m.
Spot(t, s, path, m) ==
    LET locs == PiecesIn(t, DirOf(t, s, path))
    IN  \E k : Hit(s, locs, Last(path), k) /\ locs[k] = m

\* A new entry would be found in front of any other of that name.
FreshIn(t, s, path) ==
    LET locs == PiecesIn(t, DirOf(t, s, path))
    IN  \A k \in DOMAIN locs : Named(On(s, locs[k]), Last(path)) =>
            \E i \in DOMAIN locs : i < k /\ On(s, locs[i]) \in {Never, Erased}

\* What the directories lead to is the same.
Alike(t, s, u, r) ==
    /\ \A k \in OwnedIn(t, s) : u[k] = t[k]
    /\ \A l \in OwnedIn(t, s) \X (1 .. SLOTS) : On(r, l) = On(s, l)

\* Where the two ways are the same, so is what is opened.
LEMMA OpenSame ==
    ASSUME NEW t, NEW s, NEW u, NEW r, NEW p, NEW g, Walk(t, s, p, g), Trace(u, r, p, g)
    PROVE  OpenIn(u, r, p) = OpenIn(t, s, p) /\ OpenIn(u, r, p) = g[Len(p)]
<1>1. Len(p) \in Nat /\ Trace(t, s, p, g)
  BY DEF Walk
<1>2. PICK h : Trace(u, r, p, h) /\ OpenIn(u, r, p) = h[Len(p)]
  BY <1>1, OpenTrace
<1>3. PICK f : Trace(t, s, p, f) /\ OpenIn(t, s, p) = f[Len(p)]
  BY <1>1, OpenTrace
<1>4. \A n \in 0 .. Len(p) : h[n] = g[n]
  BY <1>1, <1>2, TraceOne
<1>5. \A n \in 0 .. Len(p) : f[n] = g[n]
  BY <1>1, <1>3, TraceOne
<1>6. Len(p) \in 0 .. Len(p)
  BY <1>1
<1> QED BY <1>2, <1>3, <1>4, <1>5, <1>6

\* Then a sound volume stays sound ...
LEMMA AlikeVol ==
    ASSUME NEW t, NEW s \in Disk, NEW u, NEW r \in Disk, ListsOn(t), ListsOn(u), Sound(t, s),
           Alike(t, s, u, r)
    PROVE  /\ OwnedIn(u, r) = OwnedIn(t, s)
           /\ LinkIn(r, OwnedIn(u, r)) = LinkIn(s, OwnedIn(t, s))
           /\ HeadsIn(u, r) = HeadsIn(t, s) /\ Sound(u, r)
BY SoundSame DEF Alike

\* ... and every path leads where it did.
LEMMA AlikePath ==
    ASSUME NEW t, NEW s \in Disk, NEW u, NEW r \in Disk, ListsOn(t), ListsOn(u), Sound(t, s),
           Alike(t, s, u, r), PlainNames, NEW path \in Paths
    PROVE  /\ OpenIn(u, r, Way(Front(path))) = OpenIn(t, s, Way(Front(path)))
           /\ DirOf(u, r, path) = DirOf(t, s, path)
           /\ PiecesIn(u, DirOf(t, s, path)) = PiecesIn(t, DirOf(t, s, path))
           /\ FreshIn(t, s, path) => FreshIn(u, r, path)
           /\ \A m : Spot(t, s, path, m) => Spot(u, r, path, m) /\ On(r, m) = On(s, m)
<1> DEFINE d == DirOf(t, s, path)
           P == PiecesIn(t, d)
<1>1. PICK g : Walk(t, s, Way(Front(path)), g) /\ g[Len(Way(Front(path)))] = OpenIn(t, s, Way(Front(path)))
  BY WalkOf
<1>2. Trace(u, r, Way(Front(path)), g)
  BY <1>1, WalkSame DEF Alike
<1>3. OpenIn(u, r, Way(Front(path))) = OpenIn(t, s, Way(Front(path)))
  BY <1>1, <1>2, OpenSame
<1>4. DirOf(u, r, path) = d
  BY <1>3 DEF DirOf
<1>5. d # FREE => d \in Cluster /\ ChainSet(t, d) \subseteq OwnedIn(t, s)
  BY DirFacts
<1>6. ChainIn(u, d) = ChainIn(t, d)
  <2>1. CASE d # FREE
    BY <1>5, <2>1, ChainSame DEF Alike
  <2>2. CASE d = FREE
    BY <2>2, ChainFacts, Constants
  <2> QED BY <2>1, <2>2
<1>7. PiecesIn(u, d) = P
  BY <1>6 DEF PiecesIn
<1>8. DOMAIN P \in SUBSET Nat /\ \A k \in DOMAIN P : On(r, P[k]) = On(s, P[k])
  <2>1. DOMAIN P \in SUBSET Nat /\ \A k \in DOMAIN P : P[k] \in ChainSet(t, d) \X (1 .. SLOTS)
    BY PieceIndex
  <2>2. d = FREE => DOMAIN P = {}
    BY PieceFacts, Constants
  <2> HIDE DEF d, P
  <2> QED BY <1>5, <2>1, <2>2 DEF Alike
<1> HIDE DEF d, P
<1>9. FreshIn(t, s, path) => FreshIn(u, r, path)
  BY <1>4, <1>7, <1>8 DEF FreshIn, d, P
<1>10. ASSUME NEW m, Spot(t, s, path, m) PROVE Spot(u, r, path, m) /\ On(r, m) = On(s, m)
  <2>1. PICK k : Hit(s, P, Last(path), k) /\ P[k] = m
    BY <1>10 DEF Spot, d, P
  <2>2. Hit(r, P, Last(path), k)
    BY <1>8, <2>1 DEF Hit
  <2>3. Spot(u, r, path, m)
    BY <1>4, <1>7, <2>1, <2>2 DEF Spot, d
  <2> QED BY <1>8, <2>1, <2>3 DEF Hit
<1> QED BY <1>3, <1>4, <1>7, <1>9, <1>10 DEF d, P

--------------------------------------------------------------------------------
\* One piece m of a path's directory changes, and the clusters B may as well,
\* which are closed and do not hold it.
PutIn(t, s, r, path, m, B) ==
    /\ DirOf(t, s, path) # FREE
    /\ m \in ChainSet(t, DirOf(t, s, path)) \X (1 .. SLOTS)
    /\ B \in SUBSET Cluster /\ ClosedIn(t, s, B) /\ m[1] \notin B
    /\ \A k \in OwnedIn(t, s) \ B : t[k] \in Cluster => t[k] \notin B
    /\ On(r, m) # Never /\ ~Named(On(s, m), Dot) /\ ~Named(On(r, m), Dot)
    /\ \A l \in (OwnedIn(t, s) \ B) \X (1 .. SLOTS) : l # m => On(r, l) = On(s, l)

\* The directory is still found.
LEMMA PutPath ==
    ASSUME NEW t, NEW s \in Disk, ListsOn(t), Sound(t, s), PlainNames, NEW path \in Paths,
           NEW r \in Disk, NEW m, NEW B, PutIn(t, s, r, path, m, B)
    PROVE  /\ OpenIn(t, r, Way(Front(path))) = OpenIn(t, s, Way(Front(path)))
           /\ DirOf(t, r, path) = DirOf(t, s, path)
           /\ \A k \in DOMAIN PiecesIn(t, DirOf(t, s, path)) :
                 PiecesIn(t, DirOf(t, s, path))[k] # m =>
                    On(r, PiecesIn(t, DirOf(t, s, path))[k])
                       = On(s, PiecesIn(t, DirOf(t, s, path))[k])
<1> DEFINE d == DirOf(t, s, path)
           O == OwnedIn(t, s)
<1>1. PICK g : Walk(t, s, Way(Front(path)), g) /\ g[Len(Way(Front(path)))] = OpenIn(t, s, Way(Front(path)))
  BY WalkOf
<1>2. d = g[Len(Way(Front(path)))].first
  BY <1>1 DEF DirOf
<1>3. /\ d # FREE /\ m \in ChainSet(t, d) \X (1 .. SLOTS)
      /\ B \in SUBSET Cluster /\ ClosedIn(t, s, B) /\ m[1] \notin B
      /\ \A k \in O \ B : t[k] \in Cluster => t[k] \notin B
      /\ On(r, m) # Never /\ ~Named(On(s, m), Dot) /\ ~Named(On(r, m), Dot)
      /\ \A l \in (O \ B) \X (1 .. SLOTS) : l # m => On(r, l) = On(s, l)
  BY DEF PutIn
<1> HIDE DEF d
<1>4. Trace(t, r, Way(Front(path)), g) /\ ChainSet(t, d) \subseteq O \ B
  BY <1>1, <1>2, <1>3, WalkPut
<1>5. OpenIn(t, r, Way(Front(path))) = OpenIn(t, s, Way(Front(path)))
  BY <1>1, <1>4, OpenSame
<1>6. \A k \in DOMAIN PiecesIn(t, d) : PiecesIn(t, d)[k] \in (O \ B) \X (1 .. SLOTS)
  BY <1>4, PieceIndex
<1> QED BY <1>3, <1>5, <1>6 DEF DirOf, d

\* What was put there is found, if nothing in front stopped the search.
LEMMA PutSpot ==
    ASSUME NEW t, NEW s \in Disk, ListsOn(t), Sound(t, s), PlainNames, NEW path \in Paths,
           NEW r \in Disk, NEW m, NEW B, PutIn(t, s, r, path, m, B), Named(On(r, m), Last(path)),
           NEW k \in DOMAIN PiecesIn(t, DirOf(t, s, path)),
           PiecesIn(t, DirOf(t, s, path))[k] = m,
           \A i \in DOMAIN PiecesIn(t, DirOf(t, s, path)) : i < k =>
              /\ On(s, PiecesIn(t, DirOf(t, s, path))[i]) # Never
              /\ ~Named(On(s, PiecesIn(t, DirOf(t, s, path))[i]), Last(path))
    PROVE  Spot(t, r, path, m)
<1> DEFINE P == PiecesIn(t, DirOf(t, s, path))
<1>1. /\ DirOf(t, r, path) = DirOf(t, s, path)
      /\ \A i \in DOMAIN P : P[i] # m => On(r, P[i]) = On(s, P[i])
  BY PutPath
<1>2. DOMAIN P \in SUBSET Nat /\ \A i \in DOMAIN P : P[i] = m => i = k
  <2>1. DOMAIN P \in SUBSET Nat
    BY PieceIndex
  <2>2. \A i, j \in DOMAIN P : P[i] = P[j] => i = j
    BY PieceFacts
  <2> HIDE DEF P
  <2> QED BY <2>1, <2>2 DEF P
<1>3. \A i \in DOMAIN P : i < k => P[i] # m
  BY <1>2
<1>4. Hit(r, P, Last(path), k)
  BY <1>1, <1>3 DEF Hit
<1> QED BY <1>1, <1>4 DEF Spot

\* With a removed entry a new one is found as well.
LEMMA FreshRemoved ==
    ASSUME NEW t, NEW s \in Disk, ListsOn(t), Sound(t, s), PlainNames, NEW path \in Paths,
           NEW r \in Disk, NEW m, NEW B, PutIn(t, s, r, path, m, B), On(r, m) = Erased,
           Spot(t, s, path, m)
    PROVE  FreshIn(t, r, path)
<1> DEFINE P == PiecesIn(t, DirOf(t, s, path))
<1>1. /\ DirOf(t, r, path) = DirOf(t, s, path)
      /\ \A i \in DOMAIN P : P[i] # m => On(r, P[i]) = On(s, P[i])
  BY PutPath
<1>2. PICK k : Hit(s, P, Last(path), k) /\ P[k] = m
  BY DEF Spot
<1>3. DOMAIN P \in SUBSET Nat
  BY PieceIndex
<1>4. ~Named(Erased, Last(path))
  BY DEF Named, IsEntry
<1> HIDE DEF P
<1>5. ASSUME NEW i \in DOMAIN P, Named(On(r, P[i]), Last(path))
      PROVE  \E j \in DOMAIN P : j < i /\ On(r, P[j]) \in {Never, Erased}
  <2>1. P[i] # m /\ i # k
    BY <1>2, <1>4, <1>5
  <2>2. Named(On(s, P[i]), Last(path))
    BY <1>1, <1>5, <2>1
  <2>3. ~(i < k)
    BY <1>2, <2>2 DEF Hit
  <2>4. k < i /\ k \in DOMAIN P
    BY <1>2, <1>3, <2>1, <2>3 DEF Hit
  <2> QED BY <1>2, <2>4
<1> QED BY <1>1, <1>5 DEF FreshIn, P

\* A name that is not found is fresh.
LEMMA FreshMissing ==
    ASSUME NEW t, NEW s \in Disk, ListsOn(t), NEW path,
           FindOn(s, PiecesIn(t, DirOf(t, s, path)), Last(path)) = Missing
    PROVE  FreshIn(t, s, path)
<1> DEFINE P == PiecesIn(t, DirOf(t, s, path))
<1>1. DOMAIN P \in SUBSET Nat /\ \A k \in DOMAIN P : P[k] # Missing
  BY PieceIndex
<1> HIDE DEF P
<1>2. \A k \in DOMAIN P : Named(On(s, P[k]), Last(path)) =>
         \E i \in DOMAIN P : i < k /\ On(s, P[i]) = Never
  BY <1>1, FindIs DEF P
<1> QED BY <1>2 DEF FreshIn, P

\* What a search finds is the spot.
LEMMA FindSpot ==
    ASSUME NEW t, NEW s \in Disk, ListsOn(t), NEW path, NEW m
    PROVE  /\ FindOn(s, PiecesIn(t, DirOf(t, s, path)), Last(path)) = m /\ m # Missing =>
                 Spot(t, s, path, m)
           /\ Spot(t, s, path, m) =>
                 FindOn(s, PiecesIn(t, DirOf(t, s, path)), Last(path)) = m /\ m # Missing
<1> DEFINE P == PiecesIn(t, DirOf(t, s, path))
<1>1. DOMAIN P \in SUBSET Nat /\ \A k \in DOMAIN P : P[k] # Missing
  BY PieceIndex
<1> HIDE DEF P
<1>2. FindOn(s, P, Last(path)) = m /\ m # Missing => \E k : Hit(s, P, Last(path), k) /\ P[k] = m
  BY <1>1, FindIs
<1>3. ASSUME NEW k, Hit(s, P, Last(path), k), P[k] = m
      PROVE  FindOn(s, P, Last(path)) = m /\ m # Missing
  BY <1>1, <1>3, FindHit DEF Hit
<1> QED BY <1>2, <1>3 DEF Spot, P

\* The path's entry is in the path's directory and has its name.
LEMMA SpotFacts ==
    ASSUME NEW t, NEW s \in Disk, ListsOn(t), NEW path, NEW m, Spot(t, s, path, m)
    PROVE  /\ m \in ChainSet(t, DirOf(t, s, path)) \X (1 .. SLOTS)
           /\ m \in Location /\ DirOf(t, s, path) # FREE
           /\ Named(On(s, m), Last(path)) /\ On(s, m) \in Entries
<1> DEFINE d == DirOf(t, s, path)
           P == PiecesIn(t, d)
<1>1. PICK k : Hit(s, P, Last(path), k) /\ P[k] = m
  BY DEF Spot
<1>2. k \in DOMAIN P /\ Named(On(s, m), Last(path))
  BY <1>1 DEF Hit
<1>3. m \in ChainSet(t, d) \X (1 .. SLOTS) /\ m \in Location
  BY <1>1, <1>2, PieceIndex
<1>4. d # FREE
  BY <1>2, PieceFacts, Constants
<1>5. On(s, m) \in Entries
  BY <1>2, <1>3, OnPiece, Kinds DEF Named
<1> QED BY <1>2, <1>3, <1>4, <1>5

\* The free slot that a new entry takes.
LEMMA SlotFacts ==
    ASSUME NEW t, NEW s \in Disk, ListsOn(t), NEW c, NEW m, m = FreeSlotIn(t, s, c), m # Missing
    PROVE  /\ m \in ChainSet(t, c) \X (1 .. SLOTS) /\ m \in Location
           /\ On(s, m) \in {Never, Erased}
           /\ \E k \in DOMAIN PiecesIn(t, c) :
                 /\ PiecesIn(t, c)[k] = m
                 /\ \A i \in DOMAIN PiecesIn(t, c) :
                       i < k => On(s, PiecesIn(t, c)[i]) \notin {Never, Erased}
           /\ \A r : On(r, m) # Never /\ c \in HeadsIn(t, s) => EndKept(t, s, r, m)
           /\ ~Leads(s, m) /\ On(s, m) \notin Text /\ ~Named(On(s, m), Dot)
           /\ ~Named(On(s, m), DotDot)
<1> DEFINE P == PiecesIn(t, c)
<1>1. PICK k \in DOMAIN P : /\ m = P[k] /\ On(s, P[k]) \in {Never, Erased}
                            /\ \A i \in DOMAIN P : i < k => On(s, P[i]) \notin {Never, Erased}
  BY FreeFound
<1>2. m \in ChainSet(t, c) \X (1 .. SLOTS) /\ m \in Location
  BY <1>1, PieceIndex
<1>3. \A r : On(r, m) # Never /\ c \in HeadsIn(t, s) => EndKept(t, s, r, m)
  BY <1>1 DEF EndKept
<1>4. ~Leads(s, m) /\ On(s, m) \notin Text /\ ~Named(On(s, m), Dot) /\ ~Named(On(s, m), DotDot)
  BY <1>1, FatVolumeAssumption DEF Leads, Named, IsEntry
<1> QED BY <1>1, <1>2, <1>3, <1>4

\* In front of the free slot nothing stops a search for a fresh name.
LEMMA FreshSlot ==
    ASSUME NEW t, NEW s \in Disk, ListsOn(t), NEW path, FreshIn(t, s, path),
           NEW k \in DOMAIN PiecesIn(t, DirOf(t, s, path)),
           \A i \in DOMAIN PiecesIn(t, DirOf(t, s, path)) :
              i < k => On(s, PiecesIn(t, DirOf(t, s, path))[i]) \notin {Never, Erased}
    PROVE  \A i \in DOMAIN PiecesIn(t, DirOf(t, s, path)) : i < k =>
              /\ On(s, PiecesIn(t, DirOf(t, s, path))[i]) # Never
              /\ ~Named(On(s, PiecesIn(t, DirOf(t, s, path))[i]), Last(path))
<1> DEFINE P == PiecesIn(t, DirOf(t, s, path))
<1>1. DOMAIN P \in SUBSET Nat
  BY PieceIndex
<1> HIDE DEF P
<1>2. ASSUME NEW i \in DOMAIN P, i < k, Named(On(s, P[i]), Last(path)) PROVE FALSE
  <2>1. PICK j \in DOMAIN P : j < i /\ On(s, P[j]) \in {Never, Erased}
    BY <1>2 DEF FreshIn, P
  <2>2. j < k
    BY <1>1, <1>2, <2>1 DEF P
  <2> QED BY <2>1, <2>2 DEF P
<1> QED BY <1>2 DEF P

--------------------------------------------------------------------------------
\* The invariant, as far as it holds of a volume that was harmed too: the kinds
\* of values, lists for chains, and what the running command is at.
Steps == {"idle", "astray", "zero", "dots", "link", "free", "erase", "create", "alloc",
          "chain", "data", "record", "written"}
\* The running command's variables.
Jobs == [path : Paths \cup {<<>>}, data : Seq(Piece), done : Nat, at : Location,
         cur : Cluster \cup {FREE, EOC}, first : Cluster \cup {FREE},
         prev : Cluster \cup {FREE}, writes : BOOLEAN]

\* Types and lists.
InOrder ==
    /\ fat \in Table /\ sect \in Disk /\ step \in Steps /\ job \in Jobs
    /\ lost \in SUBSET Cluster /\ harmed \in BOOLEAN
    /\ Len(job.data) <= EXISTING + 1 /\ job.done <= EXISTING + SLOTS
    /\ ListsOn(fat)

\* The chain that "print" builds, and its last cluster.
Chain1 == ChainIn(fat, job.first)
AtEnd(c) ==
    /\ c \in ChainSet(fat, job.first) /\ fat[c] = EOC
    /\ c = Chain1[Len(Chain1)]

\* Its first n pieces are written.
WrittenTo(n) ==
    \A k \in DOMAIN PiecesIn(fat, job.first) : k <= n =>
        On(sect, PiecesIn(fat, job.first)[k])
            = IF k <= Len(job.data) THEN job.data[k] ELSE Never

\* What each step of a command knows (fat.c:609-883).
Idling == step \in {"idle", "astray"} => job = NoJob
Making ==
    step \in {"zero", "dots", "link"} =>
        job.path \in Paths /\ job.cur \in Cluster /\ job.prev \in Cluster /\ fat[job.cur] = EOC
Dotting ==
    step = "link" =>
        sect[job.cur] = [i \in 1 .. SLOTS |-> CASE i = 1 -> DirEntry(Dot, job.cur)
                                                [] i = 2 -> DirEntry(DotDot, job.prev)
                                                [] OTHER -> Never]
Unlinking ==
    Removing =>
        /\ job.path \in Paths /\ job.done = 0 /\ job.first = FREE /\ job.prev = FREE
        /\ job.writes => job.data # <<>>
        /\ step = "erase" => job.cur \notin Cluster
        /\ On(sect, job.at) # Never
Creating ==
    step = "create" =>
        /\ job.path \in Paths /\ job.done = 0 /\ job.data # <<>>
        /\ job.first = FREE /\ job.prev = FREE /\ job.cur = FREE
Allocating ==
    step = "alloc" =>
        /\ job.path \in Paths /\ job.done < Len(job.data) /\ Len(Chain1) * SLOTS = job.done
        /\ job.first = FREE => job.cur = FREE /\ job.prev = FREE
        /\ job.first # FREE => job.cur = job.prev /\ AtEnd(job.prev)
        /\ WrittenTo(job.done)
Chaining ==
    step = "chain" =>
        /\ job.path \in Paths /\ job.done < Len(job.data)
        /\ job.cur \in Cluster /\ fat[job.cur] = EOC /\ job.first # FREE
        /\ job.first = job.cur => job.prev = FREE /\ job.done = 0
        /\ job.first # job.cur =>
              /\ AtEnd(job.prev) /\ job.prev # job.cur
              /\ Len(Chain1) * SLOTS = job.done /\ WrittenTo(job.done)
Filling ==
    step = "data" =>
        /\ job.path \in Paths /\ job.done < Len(job.data)
        /\ job.cur \in Cluster /\ job.first # FREE /\ AtEnd(job.cur)
        /\ Len(Chain1) * SLOTS = job.done + SLOTS /\ WrittenTo(job.done)
Recording ==
    step = "record" =>
        /\ job.path \in Paths /\ job.first # FREE /\ job.cur \in ChainSet(fat, job.first)
        /\ Len(Chain1) * SLOTS = job.done /\ WrittenTo(job.done)
        /\ Len(job.data) <= job.done /\ job.done < Len(job.data) + SLOTS
Reporting == step = "written" => job.path \in Paths

\* All of it.
Base ==
    /\ InOrder
    /\ Idling /\ Making /\ Dotting /\ Unlinking /\ Creating
    /\ Allocating /\ Chaining /\ Filling /\ Recording /\ Reporting

--------------------------------------------------------------------------------
\* What the parts of an action do.
LEMMA AbandonIs ==
    ASSUME sect \in Disk, NEW cs \in SUBSET Cluster, Abandon(cs)
    PROVE  /\ sect' \in Disk
           /\ \A l \in Location : l[1] \notin cs => On(sect', l) = On(sect, l)
<1>1. Stale \in Piece
  BY DEF Piece, Marks
<1>2. sect' \in Disk
  BY <1>1 DEF Abandon, Disk
<1> QED BY <1>2 DEF Abandon, Location, On

\* An abandoned cluster's pieces become stale, which is no end mark.
LEMMA AbandonMarks ==
    ASSUME NEW cs, Abandon(cs), NEW l \in Location, On(sect, l) # Never
    PROVE  On(sect', l) # Never
<1>1. l[1] \in Cluster /\ l[2] \in 1 .. SLOTS
  BY DEF Location
<1>2. On(sect', l) = Stale \/ On(sect', l) = On(sect, l)
  BY <1>1 DEF Abandon, On
<1> QED BY <1>2, Constants

\* One piece is written, and no other changes.
LEMMA PutIs ==
    ASSUME sect \in Disk, NEW m \in Location, NEW x \in Piece, Put(m, x)
    PROVE  /\ sect' \in Disk /\ On(sect', m) = x
           /\ \A l \in Location : l # m => On(sect', l) = On(sect, l)
<1>1. m[1] \in Cluster /\ m[2] \in 1 .. SLOTS /\ m = <<m[1], m[2]>>
  BY DEF Location
<1>2. sect' = [sect EXCEPT ![m[1]][m[2]] = x]
  BY DEF Put
<1>3. sect' \in Disk /\ On(sect', m) = x
  BY <1>1, <1>2 DEF Disk, On
<1>4. ASSUME NEW l \in Location, l # m PROVE On(sect', l) = On(sect, l)
  <2>1. l[1] \in Cluster /\ l[2] \in 1 .. SLOTS /\ l = <<l[1], l[2]>>
    BY DEF Location
  <2>2. l[1] # m[1] \/ l[2] # m[2]
    BY <1>1, <1>4, <2>1
  <2> QED BY <1>1, <1>2, <2>1, <2>2 DEF Disk, On
<1> QED BY <1>3, <1>4

\* The allocator finds a free cluster if there is one (fat.c:214-222).
LEMMA LowestIs ==
    ASSUME FreeClusters # {}
    PROVE  Lowest(FreeClusters) \in Cluster /\ fat[Lowest(FreeClusters)] = FREE
<1>1. FreeClusters \in SUBSET Nat
  BY Constants DEF FreeClusters
<1>2. \E c \in FreeClusters : \A d \in FreeClusters : c <= d
  BY <1>1, Least
<1>3. Lowest(FreeClusters) \in FreeClusters
  BY <1>2 DEF Lowest
<1> QED BY <1>3 DEF FreeClusters

\* A chain that ends as one should has no free cluster.
LEMMA ChainInUse ==
    ASSUME NEW t, ListsOn(t), NEW c \in Cluster, t[ChainIn(t, c)[Len(ChainIn(t, c))]] # FREE
    PROVE  \A k \in ChainSet(t, c) : t[k] # FREE
<1> DEFINE q == ChainIn(t, c)
<1>1. IsList(t, c, q)
  BY ChainList
<1>2. /\ Len(q) \in Nat /\ \A k \in ChainSet(t, c) : \E i \in 1 .. Len(q) : k = q[i]
      /\ \A i \in 1 .. Len(q) : q[i] \in Cluster
  BY ChainFacts
<1> HIDE DEF q
<1>3. \A i \in 1 .. Len(q) - 1 : t[q[i]] = q[i + 1]
  BY <1>1 DEF IsList
<1>4. ASSUME NEW i \in 1 .. Len(q) PROVE t[q[i]] # FREE
  <2>1. CASE i = Len(q)
    BY <2>1 DEF q
  <2>2. CASE i # Len(q)
    <3>1. i \in 1 .. Len(q) - 1 /\ i + 1 \in 1 .. Len(q)
      BY <1>2, <2>2
    <3> QED BY <1>2, <1>3, <3>1, Constants
  <2> QED BY <2>1, <2>2
<1> QED BY <1>2, <1>4

\* Taking it marks it as the end of a chain.
LEMMA TakeIs ==
    ASSUME fat \in Table, ListsOn(fat), NEW c \in Cluster, fat[c] = FREE, Take(c)
    PROVE  /\ fat' \in Table /\ ListsOn(fat') /\ fat'[c] = EOC
           /\ \A k \in Cluster : k # c => fat'[k] = fat[k]
           /\ \A q : c \notin ChainSet(fat, q) =>
                 ChainIn(fat', q) = ChainIn(fat, q) /\ ChainSet(fat', q) = ChainSet(fat, q)
                 /\ PiecesIn(fat', q) = PiecesIn(fat, q)
<1>1. fat' = [fat EXCEPT ![c] = EOC]
  BY DEF Take
<1>2. fat' \in Table /\ fat'[c] = EOC /\ \A k \in Cluster : k # c => fat'[k] = fat[k]
  BY <1>1 DEF Table
<1>3. ListsOn(fat')
  BY <1>1, ListCut, Constants
<1>4. ASSUME NEW q, c \notin ChainSet(fat, q) PROVE ChainIn(fat', q) = ChainIn(fat, q)
  <2>1. \A k \in ChainSet(fat, q) : fat'[k] = fat[k]
    BY <1>2, <1>4, ChainFacts
  <2> QED BY <2>1, ChainSame
<1> QED BY <1>2, <1>3, <1>4 DEF ChainSet, PiecesIn

\* What the driver locates, by the operators above.
LEMMA LocateIs ==
    ASSUME fat \in Table, sect \in Disk, ListsOn(fat), NEW path \in Paths
    PROVE  /\ DirCluster(path) = DirOf(fat, sect, path)
           /\ Locate(path) = FindOn(sect, PiecesIn(fat, DirOf(fat, sect, path)), Last(path))
           /\ DirCluster(path) \in Cluster \cup {FREE}
           /\ \A m : m = Locate(path) /\ m # Missing =>
                 /\ Spot(fat, sect, path, m) /\ m \in Location
                 /\ At(m) = On(sect, m) /\ At(m) \in Entries /\ Named(At(m), Last(path))
                 /\ At(m).first \in Cluster \cup {FREE}
<1>1. DirCluster(path) = DirOf(fat, sect, path)
  BY ReadsAre DEF DirCluster, DirOf
<1>2. Locate(path) = FindOn(sect, PiecesIn(fat, DirOf(fat, sect, path)), Last(path))
  BY <1>1, ReadsAre DEF Locate
<1>3. DirCluster(path) \in Cluster \cup {FREE}
  <2>1. Len(Front(path)) \in Nat
    BY PathFacts
  <2> QED BY <1>1, <2>1, OpenedIs, OpenedFacts DEF DirOf
<1>4. ASSUME NEW m, m = Locate(path), m # Missing
      PROVE  /\ Spot(fat, sect, path, m) /\ m \in Location
             /\ At(m) = On(sect, m) /\ At(m) \in Entries /\ Named(At(m), Last(path))
             /\ At(m).first \in Cluster \cup {FREE}
  <2>1. Spot(fat, sect, path, m)
    BY <1>2, <1>4, FindSpot
  <2>2. At(m) = On(sect, m)
    BY ReadsAre
  <2>3. m \in Location /\ At(m) \in Entries /\ Named(At(m), Last(path))
    BY <2>1, <2>2, SpotFacts
  <2> QED BY <2>1, <2>2, <2>3 DEF Entries
<1> QED BY <1>1, <1>2, <1>3, <1>4

\* No command is a command.
LEMMA NoJobIs ==
    /\ NoJob \in Jobs /\ NoJob.done = 0 /\ NoJob.data = <<>> /\ Len(NoJob.data) = 0
    /\ NoJob.cur = FREE /\ NoJob.first = FREE /\ NoJob.prev = FREE /\ NoJob.writes = FALSE
<1>1. <<RootDirCluster, 1>> \in Location
  BY Constants DEF Location
<1>2. <<>> \in Seq(Piece)
  OBVIOUS
<1> QED BY <1>1, <1>2 DEF NoJob, Jobs

--------------------------------------------------------------------------------
\* A command that is over, or has not begun.
LEMMA IdleBase ==
    ASSUME InOrder', step' \in {"idle", "astray"}, job' = NoJob
    PROVE  Base'
BY DEF Base, Idling, Making, Dotting, Unlinking, Creating, Allocating, Chaining, Filling,
       Recording, Reporting, Removing

\* A command that ends leaves types and lists.
LEMMA DoneInOrder ==
    ASSUME InOrder, Done, fat' = fat, sect' \in Disk, lost' \in SUBSET Cluster, harmed' \in BOOLEAN
    PROVE  InOrder'
<1>1. step' \in Steps
  BY DEF Done, Steps
<1>2. job' \in Jobs /\ Len(job'.data) <= EXISTING + 1 /\ job'.done <= EXISTING + SLOTS
  BY NoJobIs, Constants DEF Done
<1> QED BY <1>1, <1>2 DEF InOrder

\* A command that ends leaves nothing to know.
LEMMA DoneBase ==
    ASSUME InOrder, Done, fat' = fat, sect' \in Disk, lost' \in SUBSET Cluster, harmed' \in BOOLEAN
    PROVE  Base'
BY DoneInOrder, IdleBase DEF Done

\* The clusters that the running command holds.
LEMMA HeldIs ==
    ASSUME Base
    PROVE  /\ step \in {"zero", "dots", "link"} => Held = {job.cur} /\ job.cur \in Cluster
           /\ Removing => Held = ChainSet(fat, job.cur)
           /\ step \in {"alloc", "chain", "data", "record"} =>
                 Held = ChainSet(fat, job.first) \cup ({job.cur} \ {FREE})
           /\ step \in {"idle", "astray", "create", "written"} => Held = {}
           /\ Held \in SUBSET Cluster
<1> USE DEF Base, InOrder
<1>1. \A c : ToSet(ChainFrom(c)) = ChainSet(fat, c)
  BY ReadsAre DEF ChainSet
<1>2. step \in {"zero", "dots", "link"} => Held = {job.cur} /\ job.cur \in Cluster
  BY DEF Held, Making, Removing
<1>3. Removing => Held = ChainSet(fat, job.cur)
  BY <1>1 DEF Held, Removing
<1>4. step \in {"alloc", "chain", "data", "record"} =>
         Held = ChainSet(fat, job.first) \cup ({job.cur} \ {FREE})
  BY <1>1 DEF Held, Removing
<1>5. step \in {"idle", "astray", "create", "written"} => Held = {}
  BY DEF Held, Removing
<1>6. \A c : ChainSet(fat, c) \in SUBSET Cluster
  BY ChainFacts
<1>7. step \in {"alloc", "chain", "data", "record"} => job.cur \in Cluster \cup {FREE}
  <2>1. step = "alloc" => job.cur \in Cluster \cup {FREE}
    BY DEF Allocating, Jobs
  <2>2. step = "record" => job.cur \in Cluster
    BY <1>6 DEF Recording
  <2> QED BY <2>1, <2>2 DEF Chaining, Filling
<1>8. Held \in SUBSET Cluster
  <2>1. CASE step \in {"zero", "dots", "link"}
    BY <1>2, <2>1
  <2>2. CASE Removing
    BY <1>3, <1>6, <2>2
  <2>3. CASE step \in {"alloc", "chain", "data", "record"}
    BY <1>4, <1>6, <1>7, <2>3
  <2>4. CASE step \in {"idle", "astray", "create", "written"}
    BY <1>5, <2>4
  <2> QED BY <2>1, <2>2, <2>3, <2>4 DEF Steps, Removing
<1> QED BY <1>2, <1>3, <1>4, <1>5, <1>8

--------------------------------------------------------------------------------
\* One lemma for each action.
LEMMA TouchBase ==
    ASSUME Base, NEW path \in Paths, Touch(path)
    PROVE  Base'
<1> DEFINE m == FreeSlot(DirCluster(path))
<1>1. InOrder /\ Idling
  BY DEF Base
<1>2. m \in Location
  BY <1>1, ReadsAre, SlotFacts DEF InOrder, Touch
<1>3. FileEntry(Last(path)) \in Piece
  BY PathFacts, Constants DEF FileEntry, Piece, Entries
<1>4. sect' \in Disk
  BY <1>1, <1>2, <1>3, PutIs DEF InOrder, Touch
<1>5. InOrder' /\ step' = "idle" /\ job' = NoJob
  BY <1>1, <1>4 DEF InOrder, Idling, Touch
<1> QED BY <1>5, IdleBase

\* Each step keeps Base: "mkdir" ...
LEMMA MkdirBase ==
    ASSUME Base, NEW path \in Paths, Mkdir(path)
    PROVE  Base'
<1> DEFINE c == Lowest(FreeClusters)
           d == DirCluster(path)
<1>1. InOrder
  BY DEF Base
<1>2. c \in Cluster /\ fat[c] = FREE
  BY LowestIs DEF Mkdir
<1>3. d \in Cluster
  BY <1>1, LocateIs DEF InOrder, Mkdir
<1>4. fat' \in Table /\ ListsOn(fat') /\ fat'[c] = EOC
  BY <1>1, <1>2, TakeIs DEF InOrder, Mkdir
<1>5. job' = [NoJob EXCEPT !.path = path, !.cur = c, !.prev = d] /\ step' = "zero"
  BY DEF Mkdir
<1>6. /\ job' \in Jobs /\ job'.done = 0 /\ Len(job'.data) = 0
      /\ job'.path = path /\ job'.cur = c /\ job'.prev = d
  <2> HIDE DEF c, d
  <2> QED BY <1>2, <1>3, <1>5, NoJobIs DEF Jobs
<1> HIDE DEF c, d
<1>7. InOrder'
  BY <1>1, <1>4, <1>5, <1>6, Constants DEF InOrder, Steps, Mkdir
<1> QED BY <1>2, <1>3, <1>4, <1>5, <1>6, <1>7
        DEF Base, Idling, Making, Dotting, Unlinking, Creating, Allocating, Chaining, Filling,
            Recording, Reporting, Removing

LEMMA ZeroBase ==
    ASSUME Base, Zero
    PROVE  Base'
<1>1. InOrder /\ job.path \in Paths /\ job.cur \in Cluster /\ job.prev \in Cluster /\ fat[job.cur] = EOC
  BY DEF Base, Making, Zero
<1>2. Never \in Piece
  BY DEF Piece, Marks
<1>3. sect' \in Disk
  BY <1>1, <1>2 DEF InOrder, Disk, Zero
<1>4. InOrder' /\ step' = "dots" /\ UNCHANGED <<fat, job>>
  BY <1>1, <1>3 DEF InOrder, Steps, Zero
<1> QED BY <1>1, <1>4
        DEF Base, Idling, Making, Dotting, Unlinking, Creating, Allocating, Chaining, Filling,
            Recording, Reporting, Removing

LEMMA DotsBase ==
    ASSUME Base, Dots
    PROVE  Base'
<1> DEFINE dots == [i \in 1 .. SLOTS |-> CASE i = 1 -> DirEntry(Dot, job.cur)
                                           [] i = 2 -> DirEntry(DotDot, job.prev)
                                           [] OTHER -> Never]
<1>1. InOrder /\ job.path \in Paths /\ job.cur \in Cluster /\ job.prev \in Cluster /\ fat[job.cur] = EOC
  BY DEF Base, Making, Dots
<1>2. Never \in Piece /\ DirEntry(Dot, job.cur) \in Piece /\ DirEntry(DotDot, job.prev) \in Piece
  BY <1>1, OwnEntries DEF Piece, Marks
<1>3. sect' = [sect EXCEPT ![job.cur] = dots]
  BY DEF Dots
<1>4. dots \in [1 .. SLOTS -> Piece]
  BY <1>2
<1> HIDE DEF dots
<1>5. sect' \in Disk /\ sect'[job.cur] = dots
  BY <1>1, <1>3, <1>4 DEF InOrder, Disk
<1>6. InOrder' /\ step' = "link" /\ UNCHANGED <<fat, job>>
  BY <1>1, <1>5 DEF InOrder, Steps, Dots
<1>7. Dotting'
  BY <1>5, <1>6 DEF Dotting, dots
<1> QED BY <1>1, <1>6, <1>7
        DEF Base, Idling, Making, Unlinking, Creating, Allocating, Chaining, Filling,
            Recording, Reporting, Removing

LEMMA LinkBase ==
    ASSUME Base, Link
    PROVE  Base'
<1> DEFINE m == FreeSlot(job.prev)
<1>1. InOrder /\ job.path \in Paths /\ job.cur \in Cluster
  BY DEF Base, Making, Link
<1>2. CASE m # Missing
  <2>1. m \in Location
    BY <1>1, <1>2, ReadsAre, SlotFacts DEF InOrder
  <2>2. DirEntry(Last(job.path), job.cur) \in Piece
    <3>1. Last(job.path) \in {Dot, DotDot} \cup UNION {ToSet(path) : path \in Paths}
      BY <1>1, PathFacts
    <3>2. 0 \in 0 .. EXISTING + 1
      BY Constants
    <3> QED BY <1>1, <3>1, <3>2 DEF DirEntry, Piece, Entries
  <2>3. Put(m, DirEntry(Last(job.path), job.cur)) /\ lost' = lost
    BY <1>2 DEF Link
  <2>4. sect' \in Disk
    BY <1>1, <2>1, <2>2, <2>3, PutIs DEF InOrder
  <2> QED BY <1>1, <2>3, <2>4, DoneBase DEF InOrder, Link
<1>3. CASE m = Missing
  <2>1. Lose({job.cur})
    BY <1>3 DEF Link
  <2>2. sect' \in Disk
    BY <1>1, <2>1, AbandonIs DEF InOrder, Lose
  <2> QED BY <1>1, <2>1, <2>2, DoneBase DEF InOrder, Link, Lose
<1> QED BY <1>2, <1>3
\* The front of a sequence.
LEMMA UpToIs ==
    ASSUME NEW X, NEW s \in Seq(X), NEW n \in Nat
    PROVE  /\ UpTo(s, n) \in Seq(X) /\ Len(UpTo(s, n)) \in Nat
           /\ Len(UpTo(s, n)) <= n /\ Len(UpTo(s, n)) <= Len(s)
           /\ \A k \in 1 .. Len(UpTo(s, n)) : UpTo(s, n)[k] = s[k]
<1> DEFINE m == Min({n, Len(s)})
<1>1. Len(s) \in Nat
  OBVIOUS
<1>2. m \in Nat /\ m <= Len(s) /\ m <= n
  <2>1. {n, Len(s)} \in SUBSET Nat /\ {n, Len(s)} # {}
    BY <1>1
  <2>2. m \in {n, Len(s)} /\ \A i \in {n, Len(s)} : m <= i
    BY <2>1, MinIs
  <2> QED BY <1>1, <2>2
<1>3. UpTo(s, n) = SubSeq(s, 1, m)
  BY DEF UpTo
<1> HIDE DEF m
<1>4. \A j \in Nat : j <= Len(s) =>
         /\ SubSeq(s, 1, j) \in Seq(X) /\ Len(SubSeq(s, 1, j)) = j
         /\ \A k \in 1 .. j : SubSeq(s, 1, j)[k] = s[k]
  BY <1>1
<1>5. SubSeq(s, 1, m) \in Seq(X) /\ Len(SubSeq(s, 1, m)) = m
      /\ \A k \in 1 .. m : SubSeq(s, 1, m)[k] = s[k]
  BY <1>2, <1>4
<1> QED BY <1>2, <1>3, <1>5

\* What a file reads as are pieces on the disk.
LEMMA ContentsIs ==
    ASSUME fat \in Table, sect \in Disk, ListsOn(fat), NEW e \in Opened
    PROVE  /\ Contents(e) \in Seq(Piece)
           /\ DOMAIN Contents(e) = DOMAIN ReadableIn(fat, e)
           /\ \A k \in DOMAIN Contents(e) :
                 /\ Contents(e)[k] = On(sect, PiecesIn(fat, e.first)[k])
                 /\ k \in DOMAIN PiecesIn(fat, e.first)
<1> DEFINE P == PiecesIn(fat, e.first)
           R == ReadableIn(fat, e)
<1>1. P \in Seq(Location)
  BY PieceFacts
<1>2. R \in Seq(Location)
  <2>1. e.size \in Nat
    BY OpenedFacts
  <2> QED BY <1>1, <2>1, UpToIs DEF ReadableIn
<1>3. /\ DOMAIN R \in SUBSET Nat /\ DOMAIN R \subseteq DOMAIN P
      /\ \A k \in DOMAIN R : R[k] = P[k]
  BY ReadFacts
<1>4. Contents(e) = [k \in DOMAIN R |-> On(sect, R[k])]
  BY ReadsAre DEF Contents
<1> HIDE DEF R, P
<1>5. \A k \in DOMAIN R : On(sect, R[k]) \in Piece
  BY <1>2, OnPiece
<1>6. DOMAIN R = 1 .. Len(R) /\ Len(R) \in Nat
  BY <1>2
<1>7. Contents(e) \in Seq(Piece)
  BY <1>4, <1>5, <1>6
<1> QED BY <1>3, <1>4, <1>7 DEF R, P

\* The removal that a command begins.
Begun(new) ==
    /\ new \in Jobs /\ new.path \in Paths
    /\ new.done = 0 /\ new.first = FREE /\ new.prev = FREE /\ new.cur = FREE
    /\ new.writes => new.data # <<>>
    /\ Len(new.data) <= EXISTING + 1

\* ... removing what is there ...
LEMMA DeleteBase ==
    ASSUME InOrder, NEW new, Begun(new), Delete(new)
    PROVE  Base'
<1> DEFINE m == Locate(new.path)
           e == At(m)
<1> USE DEF Begun
<1>1. CASE m # Missing
  <2>1. m \in Location /\ e.first \in Cluster \cup {FREE} /\ On(sect, m) # Never
    <3>1. m \in Location /\ e.first \in Cluster \cup {FREE} /\ e = On(sect, m) /\ e \in Entries
      BY <1>1, LocateIs DEF InOrder
    <3> HIDE DEF m, e
    <3> QED BY <3>1, FatVolumeAssumption
  <2>2. job' = [new EXCEPT !.at = m, !.cur = e.first] /\ step' = "free" /\ fat' = fat
        /\ Lose(Below(e.first) \ ToSet(ChainFrom(e.first)))
        /\ harmed' = (harmed \/ Spoils(new))
    BY <1>1 DEF Delete
  <2> HIDE DEF m, e
  <2>3. /\ job' \in Jobs /\ job'.path \in Paths /\ job'.done = 0 /\ job'.first = FREE
        /\ job'.prev = FREE /\ (job'.writes => job'.data # <<>>) /\ Len(job'.data) <= EXISTING + 1
        /\ job'.at = m
    BY <2>1, <2>2 DEF Jobs
  <2>4. Below(e.first) \ ToSet(ChainFrom(e.first)) \in SUBSET Cluster
    BY DEF Below
  <2>5. sect' \in Disk /\ lost' \in SUBSET Cluster
    BY <2>2, <2>4, AbandonIs DEF InOrder, Lose
  <2>6. harmed' \in BOOLEAN
    BY <2>2 DEF InOrder, Spoils
  <2>7. InOrder'
    BY <2>2, <2>3, <2>5, <2>6, Constants DEF InOrder, Steps
  <2>8. On(sect', job'.at) # Never
    BY <2>1, <2>2, <2>3, AbandonMarks DEF Lose
  <2> QED BY <2>2, <2>3, <2>7, <2>8
        DEF On, Base, Idling, Making, Dotting, Unlinking, Creating, Allocating, Chaining, Filling,
            Recording, Reporting, Removing
<1>2. CASE m = Missing
  <2>1. new.writes /\ job' = new /\ step' = "create" /\ UNCHANGED <<fat, sect, lost>>
        /\ harmed' = (harmed \/ Spoils(new))
    BY <1>2 DEF Delete
  <2>2. harmed' \in BOOLEAN
    BY <2>1 DEF InOrder, Spoils
  <2>3. InOrder'
    BY <2>1, <2>2, Constants DEF InOrder, Steps
  <2> QED BY <2>1, <2>3
        DEF Base, Idling, Making, Dotting, Unlinking, Creating, Allocating, Chaining, Filling,
            Recording, Reporting, Removing
<1> QED BY <1>1, <1>2

\* What the commands begin with.
LEMMA RmBegun ==
    ASSUME NEW path \in Paths
    PROVE  Begun([NoJob EXCEPT !.path = path])
<1> DEFINE new == [NoJob EXCEPT !.path = path]
<1>1. NoJob \in Jobs /\ path \in Paths \cup {<<>>}
  BY NoJobIs
<1>2. new \in Jobs /\ new.path = path
  BY <1>1 DEF Jobs
<1>3. /\ new.done = NoJob.done /\ new.first = NoJob.first /\ new.prev = NoJob.prev
      /\ new.cur = NoJob.cur /\ new.writes = NoJob.writes /\ new.data = NoJob.data
  BY <1>1 DEF Jobs
<1>4. EXISTING + 1 >= 0
  BY Constants
<1> HIDE DEF new
<1>5. Begun(new)
  BY <1>2, <1>3, <1>4, NoJobIs DEF Begun
<1> QED BY <1>5 DEF new

LEMMA PrintToBegun ==
    ASSUME NEW path \in Paths, NEW text \in Text
    PROVE  Begun([NoJob EXCEPT !.path = path, !.data = <<text>>, !.writes = TRUE])
<1>1. <<text>> \in Seq(Piece) /\ Len(<<text>>) = 1 /\ <<text>> # <<>>
  BY DEF Piece
<1> DEFINE data == <<text>>
<1>2. data \in Seq(Piece) /\ Len(data) <= EXISTING + 1 /\ data # <<>>
  BY <1>1, Constants
<1> HIDE DEF data
<1>3. Begun([NoJob EXCEPT !.path = path, !.data = data, !.writes = TRUE])
  BY <1>2, NoJobIs, Constants DEF Begun, Jobs
<1> QED BY <1>3 DEF data

LEMMA PrintAppendBegun ==
    ASSUME InOrder, NEW path \in Paths, NEW text \in Text
    PROVE  Begun([NoJob EXCEPT !.path = path, !.data = Append(Existing(path), text),
                               !.writes = TRUE])
<1> DEFINE old == Existing(path)
           data == Append(old, text)
<1>1. Open(path) \in Opened
  BY PathFacts, OpenedIs, ReadsAre DEF InOrder
<1>2. Contents(Open(path)) \in Seq(Piece)
  BY <1>1, ContentsIs DEF InOrder
<1>3. old \in Seq(Piece) /\ Len(old) \in Nat /\ Len(old) <= EXISTING
  BY <1>2, UpToIs, Constants DEF Existing
<1>4. text \in Piece
  BY DEF Piece
<1> HIDE DEF old
<1>5. data \in Seq(Piece) /\ Len(data) = Len(old) + 1
  BY <1>3, <1>4
<1>6. data # <<>> /\ Len(data) <= EXISTING + 1
  <2>1. Len(data) # 0 /\ Len(data) <= EXISTING + 1
    BY <1>3, <1>5, Constants
  <2> HIDE DEF data
  <2> QED BY <2>1
<1> HIDE DEF data
<1>7. Begun([NoJob EXCEPT !.path = path, !.data = data, !.writes = TRUE])
  BY <1>5, <1>6, NoJobIs, Constants DEF Begun, Jobs
<1> QED BY <1>7 DEF data, old

\* ... freeing its chain and erasing its entry ...
LEMMA FreeBase ==
    ASSUME Base, Free
    PROVE  Base'
<1>1. InOrder /\ Unlinking /\ Removing
  BY DEF Base, Free, Removing
<1>2. CASE job.cur \in Cluster
  <2> DEFINE c == job.cur
  <2>1. fat' = [fat EXCEPT ![c] = FREE] /\ job' = [job EXCEPT !.cur = fat[c]] /\ step' = step
        /\ Abandon({c})
    BY <1>2 DEF Free
  <2>2. fat' \in Table /\ ListsOn(fat')
    BY <1>1, <1>2, <2>1, ListCut, Constants DEF InOrder, Table
  <2>3. fat[c] \in Cluster \cup {FREE, EOC}
    BY <1>1, <1>2 DEF InOrder, Table
  <2>4. sect' \in Disk
    BY <1>1, <1>2, <2>1, AbandonIs DEF InOrder
  <2>5. /\ job' \in Jobs /\ job'.path = job.path /\ job'.done = job.done /\ job'.first = job.first
        /\ job'.prev = job.prev /\ job'.writes = job.writes /\ job'.data = job.data
        /\ job'.at = job.at
    BY <1>1, <2>1, <2>3 DEF InOrder, Jobs
  <2> HIDE DEF c
  <2>6. InOrder'
    BY <1>1, <2>1, <2>2, <2>4, <2>5 DEF InOrder, Free
  <2>7. On(sect', job'.at) # Never
    <3>1. job.at \in Location
      BY <1>1 DEF InOrder, Jobs
    <3> QED BY <1>1, <2>1, <2>5, <3>1, AbandonMarks DEF Unlinking
  <2> QED BY <1>1, <2>1, <2>5, <2>6, <2>7
        DEF On, Base, Idling, Making, Dotting, Unlinking, Creating, Allocating, Chaining, Filling,
            Recording, Reporting, Removing, Free
<1>3. CASE job.cur \notin Cluster
  <2>1. UNCHANGED <<fat, sect, job, lost, harmed>> /\ step' = "erase"
    BY <1>3 DEF Free
  <2>2. InOrder'
    BY <1>1, <2>1 DEF InOrder, Steps
  <2> QED BY <1>1, <1>3, <2>1, <2>2
        DEF On, Base, Idling, Making, Dotting, Unlinking, Creating, Allocating, Chaining, Filling,
            Recording, Reporting, Removing
<1> QED BY <1>2, <1>3

LEMMA EraseBase ==
    ASSUME Base, Erase
    PROVE  Base'
<1>1. InOrder /\ Unlinking /\ Removing
  BY DEF Base, Erase, Removing
<1>2. job.at \in Location /\ Erased \in Piece
  BY <1>1 DEF InOrder, Jobs, Piece, Marks
<1>3. sect' \in Disk
  BY <1>1, <1>2, PutIs DEF InOrder, Erase
<1>4. CASE job.writes
  <2>1. step' = "create" /\ job' = [job EXCEPT !.cur = FREE] /\ UNCHANGED <<fat, lost, harmed>>
    BY <1>4 DEF Erase
  <2>2. /\ job' \in Jobs /\ job'.path = job.path /\ job'.done = job.done /\ job'.first = job.first
        /\ job'.prev = job.prev /\ job'.cur = FREE /\ job'.data = job.data
    BY <1>1, <2>1 DEF InOrder, Jobs
  <2>3. InOrder'
    BY <1>1, <1>3, <2>1, <2>2 DEF InOrder, Steps
  <2> QED BY <1>1, <1>4, <2>1, <2>2, <2>3
        DEF Base, Idling, Making, Dotting, Unlinking, Creating, Allocating, Chaining, Filling,
            Recording, Reporting, Removing
<1>5. CASE ~job.writes
  BY <1>1, <1>3, <1>5, DoneBase DEF InOrder, Erase
<1> QED BY <1>4, <1>5

\* ... making the file, and the loop that gives it clusters ...
LEMMA CreateBase ==
    ASSUME Base, Create
    PROVE  Base'
<1> DEFINE c == DirCluster(job.path)
           m == FreeSlot(c)
<1>1. InOrder /\ Creating /\ step = "create"
  BY DEF Base, Create
<1>2. CASE c # FREE /\ m # Missing /\ Put(m, FileEntry(Last(job.path))) /\ step' = "alloc" /\ job' = job
  <2>1. m \in Location
    BY <1>1, <1>2, ReadsAre, SlotFacts DEF InOrder
  <2>2. FileEntry(Last(job.path)) \in Piece
    BY <1>1, PathFacts, Constants DEF FileEntry, Piece, Entries, Creating
  <2>3. sect' \in Disk
    BY <1>1, <1>2, <2>1, <2>2, PutIs DEF InOrder
  <2>4. fat' = fat /\ lost' = lost /\ harmed' = harmed
    BY DEF Create
  <2>5. InOrder'
    BY <1>1, <1>2, <2>3, <2>4 DEF InOrder, Steps
  <2>6. Chain1' = <<>> /\ DOMAIN PiecesIn(fat', job'.first) = {}
    BY <1>1, <1>2, <2>4, ChainFacts, PieceFacts, Constants DEF InOrder, Creating, Chain1
  <2>7. Len(Chain1') * SLOTS = 0
    BY <2>6, Constants
  <2>8. job.done < Len(job.data)
    BY <1>1 DEF InOrder, Jobs, Creating
  <2>9. Allocating'
    BY <1>1, <1>2, <2>6, <2>7, <2>8 DEF Creating, Allocating, WrittenTo
  <2> HIDE DEF c, m
  <2> QED BY <1>2, <2>5, <2>9
        DEF Base, Idling, Making, Dotting, Unlinking, Creating, Chaining, Filling,
            Recording, Reporting, Removing
<1>3. CASE Done /\ sect' = sect
  BY <1>1, <1>3, DoneBase DEF InOrder, Create
<1> QED BY <1>2, <1>3 DEF Create

LEMMA AllocBase ==
    ASSUME Base, Alloc
    PROVE  Base'
<1>1. InOrder /\ Allocating /\ step = "alloc" /\ harmed' = harmed
  BY DEF Base, Alloc
<1>2. CASE FreeClusters # {}
  <2> DEFINE c == Lowest(FreeClusters)
  <2>1. /\ Take(c) /\ step' = "chain" /\ UNCHANGED <<sect, lost>>
        /\ job' = [job EXCEPT !.cur = c, !.first = IF job.first = FREE THEN c ELSE job.first]
    BY <1>2 DEF Alloc
  <2>2. c \in Cluster /\ fat[c] = FREE
    BY <1>2, LowestIs
  <2> HIDE DEF c
  <2>3. /\ fat' \in Table /\ ListsOn(fat') /\ fat'[c] = EOC
        /\ \A k \in Cluster : k # c => fat'[k] = fat[k]
        /\ \A q : c \notin ChainSet(fat, q) =>
              ChainIn(fat', q) = ChainIn(fat, q) /\ ChainSet(fat', q) = ChainSet(fat, q)
              /\ PiecesIn(fat', q) = PiecesIn(fat, q)
    BY <1>1, <2>1, <2>2, TakeIs DEF InOrder
  <2>4. /\ job' \in Jobs /\ job'.path = job.path /\ job'.done = job.done /\ job'.data = job.data
        /\ job'.prev = job.prev /\ job'.cur = c
        /\ job'.first = IF job.first = FREE THEN c ELSE job.first
    BY <1>1, <2>1, <2>2 DEF InOrder, Jobs
  <2>5. InOrder'
    BY <1>1, <2>1, <2>3, <2>4 DEF InOrder, Steps
  <2>6. Chaining'
    <3>1. c # FREE /\ job.path \in Paths /\ job.done < Len(job.data)
      BY <1>1, <2>2, Constants DEF Allocating
    <3>2. CASE job.first = FREE
      <4>1. job.done = 0
        <5>1. Chain1 = <<>>
          BY <1>1, <3>2, ChainFacts, Constants DEF InOrder, Chain1
        <5>2. Len(Chain1) * SLOTS = 0
          BY <5>1, Constants
        <5> QED BY <1>1, <5>2 DEF Allocating
      <4> QED BY <1>1, <2>2, <2>3, <2>4, <3>1, <3>2, <4>1 DEF Allocating, Chaining
    <3>3. CASE job.first # FREE
      <4>1. job.first \in Cluster /\ AtEnd(job.prev) /\ Len(Chain1) * SLOTS = job.done /\ WrittenTo(job.done)
        BY <1>1, <3>3 DEF InOrder, Jobs, Allocating
      <4>2. \A k \in ChainSet(fat, job.first) : fat[k] # FREE
        BY <1>1, <4>1, ChainInUse, Constants DEF InOrder, AtEnd, Chain1
      <4>3. c \notin ChainSet(fat, job.first) /\ job.first # c
        BY <1>1, <2>2, <4>1, <4>2, ChainFacts DEF InOrder
      <4>4. /\ ChainIn(fat', job.first) = ChainIn(fat, job.first)
            /\ ChainSet(fat', job.first) = ChainSet(fat, job.first)
            /\ PiecesIn(fat', job.first) = PiecesIn(fat, job.first)
        BY <2>3, <4>3
      <4>5. job'.first = job.first /\ sect' = sect
        BY <2>1, <2>4, <3>3
      <4>6. WrittenTo(job.done)'
        BY <2>4, <4>1, <4>4, <4>5 DEF WrittenTo
      <4>7. job.prev \in Cluster /\ job.prev # c
        BY <1>1, <4>1, <4>3, ChainFacts DEF AtEnd, InOrder
      <4>8. AtEnd(job.prev)'
        BY <2>3, <2>4, <4>1, <4>4, <4>5, <4>7 DEF AtEnd, Chain1
      <4> QED BY <2>2, <2>3, <2>4, <3>1, <4>1, <4>3, <4>4, <4>5, <4>6, <4>7, <4>8 DEF Chaining, Chain1
    <3> QED BY <3>2, <3>3
  <2> QED BY <2>1, <2>5, <2>6
        DEF Base, Idling, Making, Dotting, Unlinking, Creating, Allocating, Filling,
            Recording, Reporting, Removing
<1>3. CASE FreeClusters = {}
  <2>1. Done /\ Lose(Held) /\ fat' = fat
    BY <1>3 DEF Alloc
  <2>2. Held \in SUBSET Cluster
    BY HeldIs
  <2>3. sect' \in Disk
    BY <1>1, <2>1, <2>2, AbandonIs DEF InOrder, Lose
  <2> QED BY <1>1, <2>1, <2>2, <2>3, DoneBase DEF InOrder, Lose
<1> QED BY <1>2, <1>3

\* In u the chain from f that ended with p goes on to c.
Grown(t, u, p, c, f) ==
    /\ t \in Table /\ ListsOn(t) /\ p \in Cluster /\ c \in Cluster /\ p # c
    /\ t[p] \notin Cluster /\ t[c] \notin Cluster /\ f \in Cluster /\ p \in ChainSet(t, f)
    /\ u = [t EXCEPT ![p] = c]

\* A chain with one more cluster at its end.
LEMMA GrowIs ==
    ASSUME NEW t, NEW p, NEW c, NEW f, NEW u, Grown(t, u, p, c, f)
    PROVE  /\ u \in Table /\ ListsOn(u) /\ u[c] = t[c]
           /\ ChainIn(u, f) = Append(ChainIn(t, f), c)
           /\ Len(ChainIn(u, f)) = Len(ChainIn(t, f)) + 1
           /\ ChainIn(u, f)[Len(ChainIn(u, f))] = c
           /\ ChainSet(u, f) = ChainSet(t, f) \cup {c}
           /\ \A k \in DOMAIN PiecesIn(t, f) :
                 k \in DOMAIN PiecesIn(u, f) /\ PiecesIn(u, f)[k] = PiecesIn(t, f)[k]
<1> DEFINE q == ChainIn(t, f)
           w == ChainIn(u, f)
           n == Len(q)
<1> USE DEF Grown
<1>1. u \in Table /\ u[c] = t[c]
  BY DEF Table
<1>2. ListsOn(u) /\ w = Append(q, c)
  BY ListGrow, ZenonT(40)
<1>3. q \in Seq(Cluster) /\ n \in Nat
  BY ChainFacts
<1> HIDE DEF q, w
<1>4. w \in Seq(Cluster) /\ Len(w) = n + 1 /\ w[n + 1] = c /\ \A i \in 1 .. n : w[i] = q[i]
  BY <1>2, <1>3
<1>5. ChainSet(u, f) = ChainSet(t, f) \cup {c}
  <2>1. ChainSet(u, f) = {w[i] : i \in DOMAIN w} /\ ChainSet(t, f) = {q[i] : i \in DOMAIN q}
    BY DEF ChainSet, ToSet, q, w
  <2>2. DOMAIN w = 1 .. n + 1 /\ DOMAIN q = 1 .. n
    BY <1>3, <1>4
  <2> HIDE DEF n
  <2>3. \A i \in 1 .. n + 1 : i \in 1 .. n \/ i = n + 1
    BY <1>3
  <2>4. 1 .. n \subseteq 1 .. n + 1 /\ n + 1 \in 1 .. n + 1
    BY <1>3
  <2>5. ASSUME NEW k \in ChainSet(u, f) PROVE k \in ChainSet(t, f) \cup {c}
    <3>1. PICK i \in 1 .. n + 1 : k = w[i]
      BY <2>1, <2>2
    <3>2. CASE i \in 1 .. n
      <4>1. k = q[i]
        BY <1>4, <3>1, <3>2
      <4> QED BY <2>1, <2>2, <3>2, <4>1
    <3>3. CASE i = n + 1
      BY <1>4, <3>1, <3>3
    <3> QED BY <2>3, <3>1, <3>2, <3>3
  <2>6. ASSUME NEW k \in ChainSet(t, f) PROVE k \in ChainSet(u, f)
    <3>1. PICK i \in 1 .. n : k = q[i]
      BY <2>1, <2>2
    <3>2. k = w[i] /\ i \in 1 .. n + 1
      BY <1>4, <2>4, <3>1
    <3> QED BY <2>1, <2>2, <3>2
  <2>7. c \in ChainSet(u, f)
    BY <1>4, <2>1, <2>2, <2>4 DEF n
  <2> QED BY <2>5, <2>6, <2>7
<1>6. ASSUME NEW k \in DOMAIN PiecesIn(t, f)
      PROVE  k \in DOMAIN PiecesIn(u, f) /\ PiecesIn(u, f)[k] = PiecesIn(t, f)[k]
  <2>1. DOMAIN PiecesIn(t, f) = 1 .. n * SLOTS /\ DOMAIN PiecesIn(u, f) = 1 .. (n + 1) * SLOTS
    BY <1>2, <1>4, PieceFacts DEF q, w
  <2>2. n * SLOTS \in Nat /\ (n + 1) * SLOTS = n * SLOTS + SLOTS /\ SLOTS \in Nat
    BY <1>3, Rows, Constants
  <2>3. k \in 1 .. n * SLOTS /\ k \in DOMAIN PiecesIn(u, f)
    BY <2>1, <2>2
  <2>4. (k - 1) \div SLOTS + 1 \in 1 .. n
    BY <1>3, <2>3, SlotOf
  <2>5. w[(k - 1) \div SLOTS + 1] = q[(k - 1) \div SLOTS + 1]
    BY <1>4, <2>4
  <2>6. PiecesIn(u, f)[k] = <<w[(k - 1) \div SLOTS + 1], ((k - 1) % SLOTS) + 1>>
    BY <2>3 DEF PiecesIn, w
  <2>7. PiecesIn(t, f)[k] = <<q[(k - 1) \div SLOTS + 1], ((k - 1) % SLOTS) + 1>>
    BY DEF PiecesIn, q
  <2> QED BY <2>3, <2>5, <2>6, <2>7
<1> QED BY <1>1, <1>2, <1>4, <1>5, <1>6 DEF q, w, n

\* A chain of one cluster.
LEMMA OneCluster ==
    ASSUME NEW t, NEW c \in Cluster, t[c] \notin Cluster
    PROVE  /\ ChainIn(t, c) = <<c>> /\ Len(ChainIn(t, c)) = 1 /\ ChainIn(t, c)[1] = c
           /\ ChainSet(t, c) = {c}
<1>1. IsList(t, c, <<c>>)
  BY DEF IsList
<1>2. ChainIn(t, c) = <<c>>
  BY <1>1, ChainIsList
<1> QED BY <1>2 DEF ChainSet, ToSet

LEMMA ChainBase ==
    ASSUME Base, Chain
    PROVE  Base'
<1>1. /\ InOrder /\ Chaining /\ step = "chain" /\ step' = "data"
      /\ UNCHANGED <<sect, job, lost, harmed>>
  BY DEF Base, Chain
<1>2. /\ job.path \in Paths /\ job.done < Len(job.data) /\ job.cur \in Cluster
      /\ fat[job.cur] = EOC /\ job.first # FREE /\ job.first \in Cluster
  BY <1>1 DEF Chaining, InOrder, Jobs
<1>3. CASE job.first = job.cur
  <2>1. job.prev = FREE /\ job.done = 0 /\ fat' = fat
    BY <1>1, <1>3 DEF Chaining, Chain
  <2>2. Chain1 = <<job.cur>> /\ Len(Chain1) = 1 /\ Chain1[1] = job.cur /\ ChainSet(fat, job.first) = {job.cur}
    <3>1. fat[job.cur] \notin Cluster
      BY <1>2, Constants
    <3>2. /\ ChainIn(fat, job.cur) = <<job.cur>> /\ Len(ChainIn(fat, job.cur)) = 1
          /\ ChainIn(fat, job.cur)[1] = job.cur /\ ChainSet(fat, job.cur) = {job.cur}
      BY <1>2, <3>1, OneCluster
    <3> QED BY <1>3, <3>2 DEF Chain1
  <2>3. AtEnd(job.cur)
    BY <1>2, <2>2 DEF AtEnd
  <2>4. Len(Chain1) * SLOTS = job.done + SLOTS
    BY <2>1, <2>2, Constants
  <2>5. WrittenTo(0)
    BY <1>1, PieceFacts DEF WrittenTo, InOrder
  <2>6. InOrder'
    BY <1>1, <2>1 DEF InOrder, Steps
  <2>7. Filling'
    BY <1>1, <1>2, <2>1, <2>3, <2>4, <2>5 DEF Filling, AtEnd, Chain1, WrittenTo
  <2> QED BY <1>1, <2>6, <2>7
        DEF Base, Idling, Making, Dotting, Unlinking, Creating, Allocating, Chaining,
            Recording, Reporting, Removing
<1>4. CASE job.first # job.cur
  <2>1. AtEnd(job.prev) /\ job.prev # job.cur /\ Len(Chain1) * SLOTS = job.done /\ WrittenTo(job.done)
    BY <1>1, <1>4 DEF Chaining
  <2>2. job.prev \in Cluster /\ fat[job.prev] = EOC /\ job.prev \in ChainSet(fat, job.first)
    BY <1>1, <2>1, ChainFacts DEF AtEnd, InOrder
  <2>3. fat' = [fat EXCEPT ![job.prev] = job.cur]
    BY <2>2, Constants DEF Chain
  <2> DEFINE f == job.first
  <2>4. /\ fat' \in Table /\ ListsOn(fat') /\ fat'[job.cur] = EOC
        /\ Len(ChainIn(fat', f)) = Len(ChainIn(fat, f)) + 1
        /\ ChainIn(fat', f)[Len(ChainIn(fat', f))] = job.cur
        /\ ChainSet(fat', f) = ChainSet(fat, f) \cup {job.cur}
        /\ \A k \in DOMAIN PiecesIn(fat, f) :
              k \in DOMAIN PiecesIn(fat', f) /\ PiecesIn(fat', f)[k] = PiecesIn(fat, f)[k]
    <3>1. fat[job.prev] \notin Cluster /\ fat[job.cur] \notin Cluster /\ fat \in Table /\ ListsOn(fat)
          /\ f \in Cluster /\ job.prev \in ChainSet(fat, f)
      BY <1>1, <1>2, <2>2, Constants DEF InOrder
    <3>2. Grown(fat, fat', job.prev, job.cur, f)
      BY <1>2, <2>1, <2>2, <2>3, <3>1 DEF Grown
    <3> QED BY <1>2, <3>2, GrowIs
  <2>5. InOrder'
    BY <1>1, <2>4 DEF InOrder, Steps
  <2>6. AtEnd(job.cur)'
    BY <1>1, <2>4 DEF AtEnd, Chain1
  <2>7. Len(Chain1') * SLOTS = job.done + SLOTS
    <3>1. Len(ChainIn(fat, f)) \in Nat /\ Chain1' = ChainIn(fat', f) /\ Chain1 = ChainIn(fat, f)
      BY <1>1, ChainFacts DEF InOrder, Chain1
    <3> HIDE DEF f
    <3> QED BY <2>1, <2>4, <3>1, Rows
  <2>8. WrittenTo(job.done)'
    <3>1. DOMAIN PiecesIn(fat, f) = 1 .. job.done /\ DOMAIN PiecesIn(fat', f) = 1 .. job.done + SLOTS
      BY <1>1, <2>1, <2>4, <2>7, PieceFacts DEF InOrder, Chain1
    <3>2. job.done \in Nat
      BY <1>1 DEF InOrder, Jobs
    <3>3. \A k \in DOMAIN PiecesIn(fat', f) : k <= job.done => k \in DOMAIN PiecesIn(fat, f)
      BY <3>1, <3>2, Constants
    <3> QED BY <1>1, <2>1, <2>4, <3>3 DEF WrittenTo
  <2>9. Filling'
    BY <1>1, <1>2, <2>6, <2>7, <2>8 DEF Filling
  <2> QED BY <1>1, <2>5, <2>9
        DEF Base, Idling, Making, Dotting, Unlinking, Creating, Allocating, Chaining,
            Recording, Reporting, Removing
<1> QED BY <1>3, <1>4

LEMMA DataBase ==
    ASSUME Base, Data
    PROVE  Base'
<1> DEFINE c == job.cur
           f == job.first
           n == Len(Chain1)
           P == PiecesIn(fat, f)
           row == [i \in 1 .. SLOTS |->
                      IF job.done + i <= Len(job.data) THEN job.data[job.done + i] ELSE Never]
<1>1. InOrder /\ Filling /\ step = "data"
  BY DEF Base, Data
<1>2. /\ job.path \in Paths /\ job.done < Len(job.data) /\ c \in Cluster /\ f # FREE /\ f \in Cluster
      /\ AtEnd(c) /\ n * SLOTS = job.done + SLOTS /\ WrittenTo(job.done)
      /\ job.data \in Seq(Piece) /\ job.done \in Nat /\ Len(job.data) \in Nat
  BY <1>1 DEF InOrder, Jobs, Filling
<1>3. /\ sect' = [sect EXCEPT ![c] = row] /\ UNCHANGED <<fat, lost, harmed>>
      /\ job' = [job EXCEPT !.done = job.done + SLOTS, !.prev = c]
      /\ step' = IF job.done + SLOTS >= Len(job.data) THEN "record" ELSE "alloc"
  BY DEF Data
<1>4. row \in [1 .. SLOTS -> Piece]
  <2>1. \A i \in 1 .. SLOTS : job.done + i <= Len(job.data) => job.data[job.done + i] \in Piece
    BY <1>2, Constants
  <2> QED BY <2>1 DEF Piece, Marks
<1>5. \A j \in 1 .. SLOTS : row[j] = IF job.done + j <= Len(job.data) THEN job.data[job.done + j] ELSE Never
  OBVIOUS
<1> HIDE DEF row
<1>6. sect' \in Disk /\ sect'[c] = row /\ \A k \in Cluster : k # c => sect'[k] = sect[k]
  BY <1>1, <1>2, <1>3, <1>4 DEF InOrder, Disk
<1>7. /\ job' \in Jobs /\ job'.done = job.done + SLOTS /\ job'.prev = c /\ job'.cur = c
      /\ job'.first = f /\ job'.data = job.data /\ job'.path = job.path
  <2> DEFINE n1 == job.done + SLOTS
  <2>1. n1 \in Nat /\ job \in Jobs /\ c \in Cluster
    BY <1>1, <1>2, Constants DEF InOrder
  <2>2. job' = [job EXCEPT !.done = n1, !.prev = c]
    BY <1>3
  <2> HIDE DEF n1
  <2> QED BY <2>1, <2>2 DEF Jobs, n1
<1>8. InOrder'
  <2>1. job.done + SLOTS <= EXISTING + SLOTS
    BY <1>1, <1>2, Constants DEF InOrder
  <2> QED BY <1>1, <1>3, <1>6, <1>7, <2>1 DEF InOrder, Steps
<1>9. /\ n \in Nat /\ DOMAIN P = 1 .. n * SLOTS
      /\ \A q \in 1 .. n, j \in 1 .. SLOTS : P[(q - 1) * SLOTS + j] = <<Chain1[q], j>>
      /\ \A k \in DOMAIN P : \E q \in 1 .. n, j \in 1 .. SLOTS : k = (q - 1) * SLOTS + j
      /\ \A q \in 1 .. n : Chain1[q] \in Cluster
  BY <1>1, PieceFacts, ChainFacts DEF InOrder, Chain1
<1>10. \A q \in 1 .. n : Chain1[q] = c => q = n
  <2>1. IsList(fat, f, Chain1)
    BY <1>1, <1>2, ChainList DEF InOrder, Chain1
  <2>2. \A i, j \in 1 .. n : Chain1[i] = Chain1[j] => i = j
    BY <1>2, <2>1 DEF IsList
  <2>3. c = Chain1[n] /\ n # 0
    <3>1. n # 0
      BY <1>2, Constants
    <3> QED BY <1>2, <3>1 DEF AtEnd
  <2>4. n \in 1 .. n
    BY <1>9, <2>3
  <2> QED BY <2>2, <2>3, <2>4
<1> HIDE DEF c, f, n, P
<1>11. \A k \in DOMAIN P : On(sect', P[k]) = IF k <= Len(job.data) THEN job.data[k] ELSE Never
  <2> SUFFICES ASSUME NEW k \in DOMAIN P
               PROVE  On(sect', P[k]) = IF k <= Len(job.data) THEN job.data[k] ELSE Never
    OBVIOUS
  <2>1. PICK q \in 1 .. n, j \in 1 .. SLOTS : k = (q - 1) * SLOTS + j
    BY <1>9
  <2>2. P[k] = <<Chain1[q], j>> /\ Chain1[q] \in Cluster
    BY <1>9, <2>1
  <2>3. CASE q = n
    <3>1. (n - 1) * SLOTS = job.done
      <4>1. n - 1 \in Nat /\ n = (n - 1) + 1
        BY <1>9
      <4>2. ((n - 1) + 1) * SLOTS = (n - 1) * SLOTS + SLOTS /\ (n - 1) * SLOTS \in Nat
        BY <4>1, Rows
      <4>3. n * SLOTS = (n - 1) * SLOTS + SLOTS
        BY <4>1, <4>2
      <4> QED BY <1>2, <4>2, <4>3, Constants
    <3>2. k = job.done + j
      BY <2>1, <2>3, <3>1
    <3>3. P[k] = <<c, j>>
      BY <1>2, <2>2, <2>3 DEF AtEnd, n
    <3>4. On(sect', P[k]) = row[j]
      BY <1>6, <3>3 DEF On
    <3> QED BY <1>5, <3>2, <3>4
  <2>4. CASE q # n
    <3>1. Chain1[q] # c
      BY <1>10, <2>4
    <3>2. On(sect', P[k]) = On(sect, P[k])
      BY <1>6, <2>2, <3>1 DEF On
    <3>3. k <= job.done
      <4>1. q - 1 \in Nat /\ q \in Nat /\ n - 1 \in Nat /\ q <= n - 1
        BY <1>9, <2>4
      <4>2. q * SLOTS = (q - 1) * SLOTS + SLOTS /\ n * SLOTS = (n - 1) * SLOTS + SLOTS
        <5>1. ((q - 1) + 1) * SLOTS = (q - 1) * SLOTS + SLOTS /\ (q - 1) + 1 = q
          BY <4>1, Rows
        <5>2. ((n - 1) + 1) * SLOTS = (n - 1) * SLOTS + SLOTS /\ (n - 1) + 1 = n
          BY <1>9, <4>1, Rows
        <5> QED BY <5>1, <5>2
      <4>3. q * SLOTS <= (n - 1) * SLOTS /\ (q - 1) * SLOTS \in Nat /\ (n - 1) * SLOTS \in Nat
        BY <4>1, Rows
      <4> DEFINE a == (q - 1) * SLOTS
                 b == (n - 1) * SLOTS
      <4>4. a \in Nat /\ b \in Nat /\ a + SLOTS <= b /\ b = job.done /\ k = a + j
        <5>1. a + SLOTS <= b /\ b + SLOTS = job.done + SLOTS
          BY <1>2, <4>2, <4>3
        <5> HIDE DEF a, b
        <5>2. a \in Nat /\ b \in Nat
          BY <4>3 DEF a, b
        <5>3. b = job.done
          BY <1>2, <5>1, <5>2, Constants
        <5> QED BY <2>1, <5>1, <5>2, <5>3 DEF a
      <4> HIDE DEF a, b
      <4> QED BY <4>4, Constants
    <3> QED BY <1>2, <3>2, <3>3 DEF WrittenTo, P, f
  <2> QED BY <2>3, <2>4
<1>12. WrittenTo(job.done)'
  BY <1>3, <1>7, <1>11 DEF WrittenTo, P
<1>13. Len(Chain1') * SLOTS = job.done + SLOTS
  BY <1>2, <1>3, <1>7 DEF Chain1, n, f
<1>14. CASE job.done + SLOTS >= Len(job.data)
  <2>1. step' = "record"
    BY <1>3, <1>14
  <2>2. Recording'
    <3>1. job.done + SLOTS < Len(job.data) + SLOTS
      BY <1>2, Constants
    <3>2. job'.cur \in ChainSet(fat', job'.first)
      BY <1>2, <1>3, <1>7 DEF AtEnd, c, f
    <3> QED BY <1>2, <1>7, <1>12, <1>13, <1>14, <3>1, <3>2 DEF Recording, WrittenTo, c, f
  <2> QED BY <1>8, <2>1, <2>2
        DEF Base, Idling, Making, Dotting, Unlinking, Creating, Allocating, Chaining,
            Filling, Reporting, Removing
<1>15. CASE ~(job.done + SLOTS >= Len(job.data))
  <2>1. step' = "alloc" /\ job.done + SLOTS < Len(job.data)
    BY <1>2, <1>3, <1>15, Constants
  <2>2. AtEnd(c)'
    BY <1>2, <1>3, <1>7 DEF AtEnd, Chain1, f, c
  <2>3. Allocating'
    BY <1>2, <1>7, <1>12, <1>13, <2>1, <2>2 DEF Allocating, WrittenTo, AtEnd, c, f
  <2> QED BY <1>8, <2>1, <2>3
        DEF Base, Idling, Making, Dotting, Unlinking, Creating, Recording, Chaining,
            Filling, Reporting, Removing
<1> QED BY <1>14, <1>15

\* ... recording its size, and what else a step may be.
LEMMA RecordBase ==
    ASSUME Base, Record
    PROVE  Base'
<1> DEFINE m == Locate(job.path)
<1>1. InOrder /\ Recording /\ step = "record" /\ fat' = fat /\ harmed' = harmed
  BY DEF Base, Record
<1>2. CASE m # Missing
  <2>1. Put(m, Recorded(At(m))) /\ step' = "written" /\ job' = job /\ lost' = lost
    BY <1>2 DEF Record
  <2>2. m \in Location /\ At(m) \in Entries
    BY <1>1, <1>2, LocateIs DEF InOrder, Recording
  <2>3. job.first \in Cluster /\ Len(job.data) \in 0 .. EXISTING + 1
    BY <1>1, Constants DEF Recording, InOrder, Jobs
  <2>4. Recorded(At(m)) \in Piece
    BY <2>2, <2>3 DEF Recorded, Entries, Piece
  <2>5. sect' \in Disk
    BY <1>1, <2>1, <2>2, <2>4, PutIs DEF InOrder
  <2>6. InOrder'
    BY <1>1, <2>1, <2>5 DEF InOrder, Steps
  <2> HIDE DEF m
  <2> QED BY <1>1, <2>1, <2>6
        DEF Base, Idling, Making, Dotting, Unlinking, Creating, Allocating, Chaining,
            Filling, Recording, Reporting, Removing
<1>3. CASE m = Missing
  <2>1. Done /\ Lose(Held)
    BY <1>3 DEF Record
  <2>2. Held \in SUBSET Cluster
    BY HeldIs
  <2>3. sect' \in Disk
    BY <1>1, <2>1, <2>2, AbandonIs DEF InOrder, Lose
  <2> QED BY <1>1, <2>1, <2>2, <2>3, DoneBase DEF InOrder, Lose
<1> QED BY <1>2, <1>3

LEMMA ReportBase ==
    ASSUME Base, Report
    PROVE  Base'
BY DoneBase DEF Base, InOrder, Report

LEMMA StrayBase ==
    ASSUME Base, NEW path \in Paths, Stray(path)
    PROVE  Base'
<1>1. InOrder' /\ step' = "astray" /\ job' = NoJob
  BY DEF Base, InOrder, Steps, Idling, Stray
<1> QED BY <1>1, IdleBase

LEMMA PowerLossBase ==
    ASSUME Base, PowerLoss
    PROVE  Base'
<1>1. Held \in SUBSET Cluster /\ InOrder
  BY HeldIs DEF Base
<1>2. sect' \in Disk /\ lost' \in SUBSET Cluster
  <2> DEFINE cs == IF Removing THEN {} ELSE Held
  <2>1. cs \in SUBSET Cluster /\ Abandon(cs) /\ lost' = lost \cup cs
    BY <1>1 DEF PowerLoss, Lose
  <2> HIDE DEF cs
  <2> QED BY <1>1, <2>1, AbandonIs DEF InOrder
<1>3. harmed' \in BOOLEAN
  BY <1>1 DEF InOrder, PowerLoss, Removing
<1> QED BY <1>1, <1>2, <1>3, DoneBase DEF PowerLoss

\* A new volume.
LEMMA InitBase ==
    ASSUME Init
    PROVE  Base
<1>1. fat \in Table /\ sect \in Disk
  BY Constants DEF Init, Table, Disk, Piece, Marks
<1>2. ASSUME NEW c \in Cluster PROVE \E s : IsList(fat, c, s)
  <2>1. fat[c] \notin Cluster
    BY Constants DEF Init
  <2>2. IsList(fat, c, <<c>>)
    BY <2>1 DEF IsList
  <2> QED BY <2>2
<1>3. job = NoJob /\ step = "idle" /\ lost = {} /\ harmed = FALSE
  BY DEF Init
<1>4. InOrder
  <2>1. job \in Jobs /\ Len(job.data) <= EXISTING + 1 /\ job.done <= EXISTING + SLOTS
    BY <1>3, NoJobIs, Constants
  <2> QED BY <1>1, <1>2, <1>3, <2>1 DEF InOrder, Steps, ListsOn
<1> QED BY <1>3, <1>4
        DEF Base, Idling, Making, Dotting, Unlinking, Creating, Allocating, Chaining,
            Filling, Recording, Reporting, Removing

\* Every step.
LEMMA NextBase ==
    ASSUME Base, [Next]_vars
    PROVE  Base'
<1>1. CASE UNCHANGED vars
  BY <1>1 DEF vars, On, Base, InOrder, Idling, Making, Dotting, Unlinking, Creating, Allocating,
              Chaining, Filling, Recording, Reporting, Removing, AtEnd, Chain1, WrittenTo
<1>2. ASSUME NEW path \in Paths, Touch(path) PROVE Base'
  BY <1>2, TouchBase
<1>3. ASSUME NEW path \in Paths, Mkdir(path) PROVE Base'
  BY <1>3, MkdirBase
<1>4. ASSUME NEW path \in Paths, Rm(path) PROVE Base'
  BY <1>4, RmBegun, DeleteBase DEF Rm, Base
<1>5. ASSUME NEW path \in Paths, Stray(path) PROVE Base'
  BY <1>5, StrayBase
<1>6. ASSUME NEW path \in Paths, NEW text \in Text, PrintTo(path, text) PROVE Base'
  BY <1>6, PrintToBegun, DeleteBase DEF PrintTo, Base
<1>7. ASSUME NEW path \in Paths, NEW text \in Text, PrintAppend(path, text) PROVE Base'
  BY <1>7, PrintAppendBegun, DeleteBase DEF PrintAppend, Base
<1>8. CASE Zero \/ Dots \/ Link \/ Free \/ Erase
  BY <1>8, ZeroBase, DotsBase, LinkBase, FreeBase, EraseBase
<1>9. CASE Create \/ Alloc \/ Chain \/ Data \/ Record \/ Report \/ PowerLoss
  BY <1>9, CreateBase, AllocBase, ChainBase, DataBase, RecordBase, ReportBase, PowerLossBase
<1> QED BY <1>1, <1>2, <1>3, <1>4, <1>5, <1>6, <1>7, <1>8, <1>9 DEF Next

--------------------------------------------------------------------------------
\* What holds besides, unless the volume was harmed.
Accounts ==
    /\ Owned \cup Held \cup lost = Cluster \ FreeClusters
    /\ Owned \cap (Held \cup lost) = {} /\ Held \cap lost = {}

\* What "print" reports.
Printed ==
    Blank \notin ToSet(job.path) /\ Open(Front(job.path)).dir
        => ~Open(job.path).dir /\ Contents(Open(job.path)) = job.data

\* What the running command relies on, and its result.
Placed ==
    /\ step \in {"zero", "dots", "link"} => job.prev \in Heads
    /\ Removing \/ step = "create" => FreshIn(fat, Virtual, job.path)
    /\ step \in {"alloc", "chain", "data", "record"} =>
          \E m \in Location : Spot(fat, sect, job.path, m) /\ On(sect, m) = FileEntry(Last(job.path))
    /\ job.data \in Seq(Text)
    /\ step = "written" => Printed

Good == Sound(fat, Virtual) /\ Accounts /\ Placed

\* Base says that the volume can be read.
LEMMA BaseRange ==
    /\ Base => InRange
    /\ Base' => InRange'
<1>1. Base => InRange
  BY DEF Base, InOrder, InRange, Jobs
<1>2. (Base => InRange)'
  BY <1>1, PTL
<1> QED BY <1>1, <1>2

\* The volume of the next state.
LEMMA VirtualNext ==
    Base' => /\ Virtual' \in Disk
             /\ \A l \in Location : ~(Removing' /\ l = job'.at) => On(Virtual', l) = On(sect', l)
             /\ Removing' => On(Virtual', job'.at) = Erased
             /\ ~Removing' => Virtual' = sect'
<1>1. Base => /\ Virtual \in Disk
              /\ \A l \in Location : ~(Removing /\ l = job.at) => On(Virtual, l) = On(sect, l)
              /\ Removing => On(Virtual, job.at) = Erased
              /\ ~Removing => Virtual = sect
  BY VirtualIs, BaseRange DEF Virtual
<1>2. (Base => /\ Virtual \in Disk
               /\ \A l \in Location : ~(Removing /\ l = job.at) => On(Virtual, l) = On(sect, l)
               /\ Removing => On(Virtual, job.at) = Erased
               /\ ~Removing => Virtual = sect)'
  BY <1>1, PTL
<1> QED BY <1>2 DEF Disk, Location, On

\* What is held then.
LEMMA HeldNext ==
    Base' =>
       /\ step' \in {"zero", "dots", "link"} => Held' = {job'.cur} /\ job'.cur \in Cluster
       /\ Removing' => Held' = ChainSet(fat', job'.cur)
       /\ step' \in {"alloc", "chain", "data", "record"} =>
             Held' = ChainSet(fat', job'.first) \cup ({job'.cur} \ {FREE})
       /\ step' \in {"idle", "astray", "create", "written"} => Held' = {}
       /\ Held' \in SUBSET Cluster
<1>1. Base =>
       /\ step \in {"zero", "dots", "link"} => Held = {job.cur} /\ job.cur \in Cluster
       /\ Removing => Held = ChainSet(fat, job.cur)
       /\ step \in {"alloc", "chain", "data", "record"} =>
             Held = ChainSet(fat, job.first) \cup ({job.cur} \ {FREE})
       /\ step \in {"idle", "astray", "create", "written"} => Held = {}
       /\ Held \in SUBSET Cluster
  BY HeldIs
<1>2. (Base =>
       /\ step \in {"zero", "dots", "link"} => Held = {job.cur} /\ job.cur \in Cluster
       /\ Removing => Held = ChainSet(fat, job.cur)
       /\ step \in {"alloc", "chain", "data", "record"} =>
             Held = ChainSet(fat, job.first) \cup ({job.cur} \ {FREE})
       /\ step \in {"idle", "astray", "create", "written"} => Held = {}
       /\ Held \in SUBSET Cluster)'
  BY <1>1, PTL
<1> QED BY <1>2 DEF ChainSet, ChainIn, ToSet, Cluster

\* Nobody but the directories has a cluster of theirs.
LEMMA Apart ==
    ASSUME Base, Good
    PROVE  /\ Owned \in SUBSET Cluster /\ RootDirCluster \in Owned
           /\ Owned = OwnedIn(fat, Virtual) /\ Owned \X (1 .. SLOTS) \subseteq Location
           /\ \A k \in Owned : fat[k] # FREE /\ k \notin Held /\ k \notin lost
           /\ Heads = HeadsIn(fat, Virtual)
           /\ ~Removing => Virtual = sect
           /\ Virtual \in Disk /\ ListsOn(fat) /\ sect \in Disk /\ fat \in Table
<1>1. Owned = OwnedIn(fat, Virtual) /\ Heads = HeadsIn(fat, Virtual) /\ Virtual \in Disk
  BY BaseRange, OwnedIs, VirtualIs
<1>2. /\ Owned \in SUBSET Cluster /\ RootDirCluster \in Owned
      /\ Owned \X (1 .. SLOTS) \subseteq Location
  BY <1>1, OwnedFacts
<1>3. \A k \in Owned : fat[k] # FREE /\ k \notin Held /\ k \notin lost
  BY <1>2 DEF Good, Accounts, FreeClusters
<1> QED BY <1>1, <1>2, <1>3 DEF Base, InOrder, Virtual

\* What an action may do to a cluster that the directories lead to.
Spared ==
    \A l \in Owned \X (1 .. SLOTS) :
        \/ l[1] \in lost'
        \/ /\ fat'[l[1]] = fat[l[1]]
           /\ \/ On(sect', l) = On(sect, l)
              \/ ~Leads(Virtual, l) /\ On(Virtual, l) \notin Text

\* An action that leaves them alone.
Quiet ==
    /\ \A k \in Owned : fat'[k] = fat[k]
    /\ \A l \in Owned \X (1 .. SLOTS) : ~(Removing /\ l = job.at) => On(sect', l) = On(sect, l)
    /\ Removing' => Removing /\ job'.at = job.at
    /\ Removing /\ ~Removing' => On(sect', job.at) = Erased

\* After a quiet step the volume is what it was ...
LEMMA QuietIs ==
    ASSUME Base, Base', Good, Quiet
    PROVE  /\ Sound(fat', Virtual') /\ Owned' = Owned /\ Heads' = Heads /\ Spared
           /\ Alike(fat, Virtual, fat', Virtual')
<1>1. /\ Owned \in SUBSET Cluster /\ Owned = OwnedIn(fat, Virtual)
      /\ Owned \X (1 .. SLOTS) \subseteq Location /\ Heads = HeadsIn(fat, Virtual)
  BY Apart
<1>2. /\ Virtual \in Disk
      /\ \A l \in Location : ~(Removing /\ l = job.at) => On(Virtual, l) = On(sect, l)
      /\ Removing => On(Virtual, job.at) = Erased
  BY BaseRange, VirtualIs
<1>3. /\ Virtual' \in Disk
      /\ \A l \in Location : ~(Removing' /\ l = job'.at) => On(Virtual', l) = On(sect', l)
      /\ Removing' => On(Virtual', job'.at) = Erased
  BY VirtualNext
<1>4. /\ Owned' = OwnedIn(fat', Virtual') /\ Heads' = HeadsIn(fat', Virtual')
  BY BaseRange, OwnedNext
<1>5. \A l \in Owned \X (1 .. SLOTS) : On(Virtual', l) = On(Virtual, l)
  <2> SUFFICES ASSUME NEW l \in Owned \X (1 .. SLOTS) PROVE On(Virtual', l) = On(Virtual, l)
    OBVIOUS
  <2>1. l \in Location
    BY <1>1
  <2>2. CASE Removing /\ l = job.at
    BY <1>2, <1>3, <2>1, <2>2 DEF Quiet
  <2>3. CASE ~(Removing /\ l = job.at)
    BY <1>2, <1>3, <2>1, <2>3 DEF Quiet
  <2> QED BY <2>2, <2>3
<1>6. Alike(fat, Virtual, fat', Virtual')
  BY <1>1, <1>5 DEF Quiet, Alike
<1>7. /\ Sound(fat', Virtual') /\ OwnedIn(fat', Virtual') = OwnedIn(fat, Virtual)
      /\ HeadsIn(fat', Virtual') = HeadsIn(fat, Virtual)
  BY <1>2, <1>3, <1>6, AlikeVol DEF Good, Base, InOrder
<1>8. Spared
  <2> SUFFICES ASSUME NEW l \in Owned \X (1 .. SLOTS)
               PROVE  /\ fat'[l[1]] = fat[l[1]]
                      /\ \/ On(sect', l) = On(sect, l)
                         \/ ~Leads(Virtual, l) /\ On(Virtual, l) \notin Text
    BY DEF Spared
  <2>1. l[1] \in Owned /\ l \in Location
    BY <1>1
  <2>2. CASE Removing /\ l = job.at
    BY <1>2, <2>1, <2>2, FatVolumeAssumption DEF Leads, IsEntry, Quiet
  <2>3. CASE ~(Removing /\ l = job.at)
    BY <2>1, <2>3 DEF Quiet
  <2> QED BY <2>2, <2>3
<1> QED BY <1>1, <1>4, <1>6, <1>7, <1>8

\* The accounts, when only what the commands hold changes hands.
LEMMA QuietAccounts ==
    ASSUME Base, Base', Good, Owned' = Owned,
           NEW held, Held' = held, NEW free, FreeClusters' = free,
           held \cup lost' \cup free = Held \cup lost \cup FreeClusters,
           held \cap lost' = {}, held \cap free = {}, lost' \cap free = {}
    PROVE  Accounts'
<1>1. /\ Owned \cup Held \cup lost = Cluster \ FreeClusters
      /\ Owned \cap (Held \cup lost) = {} /\ Held \cap lost = {} /\ FreeClusters \subseteq Cluster
  BY DEF Good, Accounts, FreeClusters
<1>2. held \in SUBSET Cluster /\ lost' \in SUBSET Cluster /\ free \subseteq Cluster
  BY HeldNext DEF Base, InOrder, FreeClusters
<1>3. Owned' \cup Held' \cup lost' = Cluster \ FreeClusters'
  BY <1>1, <1>2
<1> QED BY <1>1, <1>3 DEF Accounts

\* ... every path leads where it did ...
LEMMA QuietPath ==
    ASSUME Base, Base', Good, Quiet, PlainNames, NEW path \in Paths
    PROVE  /\ FreshIn(fat, Virtual, path) => FreshIn(fat', Virtual', path)
           /\ \A m : Spot(fat, Virtual, path, m) =>
                 Spot(fat', Virtual', path, m) /\ On(Virtual', m) = On(Virtual, m)
<1>1. Alike(fat, Virtual, fat', Virtual')
  BY QuietIs
<1>2. Virtual \in Disk
  BY BaseRange, VirtualIs
<1>3. Virtual' \in Disk
  BY VirtualNext
<1> QED BY <1>1, <1>2, <1>3, AlikePath DEF Good, Base, InOrder

--------------------------------------------------------------------------------
\* The steps that leave alone what the directories lead to.
LEMMA IdlePlaced ==
    ASSUME step' \in {"idle", "astray"}, job' = NoJob
    PROVE  Placed'
<1>1. <<>> \in Seq(Text)
  OBVIOUS
<1> QED BY <1>1, NoJobIs DEF Placed, Removing

\* ... and a command may end with it.
LEMMA QuietIdle ==
    ASSUME Base, Base', Good, Quiet, step' \in {"idle", "astray"}, job' = NoJob,
           fat' = fat, lost' = lost \cup Held
    PROVE  Good' /\ Spared
<1>1. Sound(fat', Virtual') /\ Owned' = Owned /\ Spared
  BY QuietIs
<1>2. Held' = {} /\ FreeClusters' = FreeClusters
  BY HeldNext DEF FreeClusters
<1>3. lost \cap FreeClusters = {} /\ Held \cap FreeClusters = {}
  BY DEF Good, Accounts
<1>4. Accounts'
  BY <1>1, <1>2, <1>3, QuietAccounts
<1> QED BY <1>1, <1>4, IdlePlaced DEF Good

\* The same for a step of a command that goes on.
LEMMA QuietStep ==
    ASSUME Base, Base', Good, Quiet, Placed', Held' \cup FreeClusters' = Held \cup FreeClusters,
           Held' \cap FreeClusters' = {}, lost' = lost
    PROVE  Good' /\ Spared
<1>1. Sound(fat', Virtual') /\ Owned' = Owned /\ Spared
  BY QuietIs
<1>2. lost \cap FreeClusters = {} /\ lost \cap Held = {}
  BY DEF Good, Accounts
<1>3. lost' \cap Held' = {} /\ lost' \cap FreeClusters' = {}
  BY <1>2
<1>4. Held' \cup lost' \cup FreeClusters' = Held \cup lost \cup FreeClusters
  OBVIOUS
<1>5. Accounts'
  BY <1>1, <1>3, <1>4, QuietAccounts
<1> QED BY <1>1, <1>5 DEF Good

\* Each step keeps Good and spares the files: "mkdir" ...
LEMMA MkdirGood ==
    ASSUME Base, Base', Good, PlainNames, NEW path \in Paths, Mkdir(path)
    PROVE  Good' /\ Spared
<1> DEFINE c == Lowest(FreeClusters)
<1>1. /\ step = "idle" /\ fat' = [fat EXCEPT ![c] = EOC] /\ step' = "zero"
      /\ job' = [NoJob EXCEPT !.path = path, !.cur = c, !.prev = DirCluster(path)]
      /\ UNCHANGED <<sect, lost, harmed>> /\ DirCluster(path) # FREE
  BY DEF Mkdir, Take
<1>2. c \in Cluster /\ fat[c] = FREE
  BY LowestIs DEF Mkdir
<1>3. \A k \in Owned : k # c
  BY <1>2, Apart
<1>4. fat \in Table /\ Virtual = sect /\ Heads = HeadsIn(fat, Virtual)
  BY <1>1, Apart DEF Removing
<1>5. ~Removing /\ ~Removing'
  BY <1>1 DEF Removing
<1>6. job'.cur = c /\ job'.prev = DirCluster(path) /\ job'.data = <<>>
  BY <1>1, NoJobIs DEF Jobs
<1> HIDE DEF c
<1>7. Quiet
  BY <1>1, <1>3, <1>4, <1>5, Apart DEF Quiet, Table
<1>8. Held = {} /\ Held' = {c} /\ FreeClusters' = FreeClusters \ {c} /\ c \in FreeClusters
  <2>1. Held = {} /\ Held' = {c}
    BY <1>1, <1>6, HeldIs, HeldNext
  <2>2. FreeClusters' = FreeClusters \ {c} /\ c \in FreeClusters
    BY <1>1, <1>2, <1>4, Constants DEF FreeClusters, Table
  <2> QED BY <2>1, <2>2
<1>9. DirCluster(path) \in Heads
  BY <1>1, <1>4, LocateIs, DirFacts DEF Base, InOrder, Good
<1>10. Placed'
  <2>1. <<>> \in Seq(Text)
    OBVIOUS
  <2>2. Heads' = Heads
    BY <1>7, QuietIs
  <2>3. job'.prev \in Heads'
    BY <1>6, <1>9, <2>2
  <2>4. job'.data \in Seq(Text)
    BY <1>6, <2>1
  <2> QED BY <1>1, <1>5, <2>3, <2>4 DEF Placed
<1> QED BY <1>1, <1>7, <1>8, <1>10, QuietStep

LEMMA ZeroGood ==
    ASSUME Base, Base', Good, Zero \/ Dots
    PROVE  Good' /\ Spared
<1>1. /\ step \in {"zero", "dots"} /\ step' \in {"dots", "link"} /\ UNCHANGED <<fat, job, lost>>
      /\ \A k \in Cluster : k # job.cur => sect'[k] = sect[k]
  BY Apart DEF Zero, Dots, Disk
<1>2. ~Removing /\ ~Removing' /\ Held = {job.cur} /\ Held' = {job.cur}
  BY <1>1, HeldIs, HeldNext DEF Removing
<1>3. Quiet
  <2>1. \A k \in Owned : k # job.cur /\ k \in Cluster
    BY <1>2, Apart
  <2> QED BY <1>1, <1>2, <2>1 DEF Quiet, On
<1>4. Placed'
  BY <1>1, <1>2, <1>3, QuietIs DEF Good, Placed
<1>5. FreeClusters' = FreeClusters /\ Held \cap FreeClusters = {}
  BY <1>1 DEF FreeClusters, Good, Accounts
<1> QED BY <1>1, <1>2, <1>3, <1>4, <1>5, QuietStep

\* A command that is given up, whose clusters are lost.
LEMMA LoseGood ==
    ASSUME Base, Base', Good, ~Removing, Done, Lose(Held), fat' = fat
    PROVE  Good' /\ Spared
<1>1. /\ Held \in SUBSET Cluster /\ lost' = lost \cup Held
      /\ \A l \in Location : l[1] \notin Held => On(sect', l) = On(sect, l)
  BY HeldIs, AbandonIs DEF Lose, Base, InOrder
<1>2. Quiet
  <2>1. ~Removing'
    BY DEF Done, Removing
  <2>2. \A l \in Owned \X (1 .. SLOTS) : l \in Location /\ l[1] \notin Held
    BY Apart
  <2> QED BY <1>1, <2>1, <2>2 DEF Quiet
<1> QED BY <1>1, <1>2, QuietIdle DEF Done

\* ... freeing a chain and erasing its entry ...
LEMMA FreeGood ==
    ASSUME Base, Base', Good, PlainNames, Free
    PROVE  Good' /\ Spared
<1> DEFINE c == job.cur
<1>1. step = "free" /\ Removing /\ Removing' /\ lost' = lost /\ job'.at = job.at
      /\ job'.path = job.path /\ job'.data = job.data /\ job.path \in Paths
  BY DEF Free, Removing, Base, InOrder, Jobs, Unlinking
<1>2. Held = ChainSet(fat, c) /\ Held' = ChainSet(fat', job'.cur)
  BY <1>1, HeldIs, HeldNext
<1>3. fat \in Table /\ ListsOn(fat)
  BY Apart
<1>4. Quiet /\ Held' \cup FreeClusters' = Held \cup FreeClusters /\ Held' \cap FreeClusters' = {}
  <2>1. CASE c \in Cluster
    <3>1. fat' = [fat EXCEPT ![c] = FREE] /\ job'.cur = fat[c] /\ Abandon({c})
      BY <2>1 DEF Free, Base, InOrder, Jobs
    <3>2. \A l \in Location : l[1] # c => On(sect', l) = On(sect, l)
      BY <2>1, <3>1, AbandonIs DEF Base, InOrder
    <3>3. c \in Held
      BY <1>2, <1>3, <2>1, ChainFacts
    <3>4. \A k \in Owned : k # c /\ k \in Cluster
      BY <3>3, Apart
    <3>5. Quiet
      <4>1. \A k \in Owned : fat'[k] = fat[k]
        BY <1>3, <3>1, <3>4 DEF Table
      <4>2. \A l \in Owned \X (1 .. SLOTS) : On(sect', l) = On(sect, l)
        BY <3>2, <3>4 DEF Location
      <4> QED BY <1>1, <4>1, <4>2 DEF Quiet
    <3>6. Held' = Held \ {c}
      BY <1>2, <1>3, <2>1, <3>1, ChainTail
    <3>7. FreeClusters' = FreeClusters \cup {c}
      BY <1>3, <2>1, <3>1 DEF FreeClusters, Table
    <3>8. Held \cap FreeClusters = {}
      BY DEF Good, Accounts
    <3> QED BY <3>3, <3>5, <3>6, <3>7, <3>8
  <2>2. CASE c \notin Cluster
    <3>1. UNCHANGED <<fat, sect, job>>
      BY <2>2 DEF Free
    <3>2. Quiet
      BY <1>1, <3>1 DEF Quiet, On
    <3>3. Held' = Held /\ FreeClusters' = FreeClusters /\ Held \cap FreeClusters = {}
      BY <1>2, <3>1 DEF FreeClusters, Good, Accounts
    <3> QED BY <3>2, <3>3
  <2> QED BY <2>1, <2>2
<1> HIDE DEF c
<1>5. Placed'
  <2>1. FreshIn(fat', Virtual', job.path)
    BY <1>1, <1>4, QuietPath DEF Good, Placed
  <2>2. job.data \in Seq(Text)
    BY DEF Good, Placed
  <2> QED BY <1>1, <2>1, <2>2 DEF Placed, Removing
<1> QED BY <1>1, <1>4, <1>5, QuietStep

LEMMA EraseGood ==
    ASSUME Base, Base', Good, PlainNames, Erase
    PROVE  Good' /\ Spared
<1>1. step = "erase" /\ Removing /\ ~Removing' /\ UNCHANGED <<fat, lost, harmed>> /\ Put(job.at, Erased)
      /\ job.path \in Paths /\ job.at \in Location /\ job.cur \notin Cluster
  BY DEF Erase, Removing, Base, InOrder, Jobs, Unlinking, Done
<1>2. On(sect', job.at) = Erased /\ \A l \in Location : l # job.at => On(sect', l) = On(sect, l)
  <2>1. Erased \in Piece
    BY DEF Piece, Marks
  <2> QED BY <1>1, <2>1, PutIs DEF Base, InOrder
<1>3. Quiet
  BY <1>1, <1>2, Apart DEF Quiet
<1>4. Held = {} /\ Held' = {} /\ FreeClusters' = FreeClusters
  <2>1. Held = {}
    BY <1>1, HeldIs, ChainFacts, Apart
  <2>2. step' \in {"idle", "create"}
    BY DEF Erase, Done
  <2> QED BY <1>1, <2>1, <2>2, HeldNext DEF FreeClusters
<1>5. CASE job.writes
  <2>1. step' = "create" /\ job'.path = job.path /\ job'.data = job.data
    BY <1>5 DEF Erase, Base, InOrder, Jobs
  <2>2. FreshIn(fat', Virtual', job.path)
    BY <1>1, <1>3, QuietPath DEF Good, Placed
  <2>3. job.data \in Seq(Text)
    BY DEF Good, Placed
  <2>4. Placed'
    BY <1>1, <2>1, <2>2, <2>3 DEF Placed
  <2> QED BY <1>1, <1>3, <1>4, <2>4, QuietStep
<1>6. CASE ~job.writes
  BY <1>1, <1>3, <1>4, <1>6, QuietIdle, Zenon DEF Erase, Done
<1> QED BY <1>5, <1>6

LEMMA SpotStep ==
    ASSUME Base, Base', Good, Quiet, PlainNames, job.path \in Paths,
           step \in {"alloc", "chain", "data"}, step' \in {"alloc", "chain", "data", "record"},
           job'.path = job.path, job'.data = job.data
    PROVE  Placed'
<1>1. Virtual = sect /\ Virtual' = sect' /\ ~Removing'
  BY Apart, VirtualNext DEF Removing
<1>2. PICK m \in Location : Spot(fat, sect, job.path, m) /\ On(sect, m) = FileEntry(Last(job.path))
  BY DEF Good, Placed
<1>3. Spot(fat', sect', job.path, m) /\ On(sect', m) = FileEntry(Last(job.path))
  BY <1>1, <1>2, QuietPath
<1>4. job'.data \in Seq(Text)
  BY DEF Good, Placed
<1>5. \E n \in Location : Spot(fat', sect', job'.path, n) /\ On(sect', n) = FileEntry(Last(job'.path))
  BY <1>3
<1>6. step' \notin {"zero", "dots", "link", "create", "written"}
  OBVIOUS
<1> QED BY <1>1, <1>4, <1>5, <1>6 DEF Placed, Spot, DirOf, Way, OpenIn, PiecesIn, ChainIn, On

\* ... giving a file clusters and text ...
LEMMA AllocGood ==
    ASSUME Base, Base', Good, PlainNames, Alloc
    PROVE  Good' /\ Spared
<1>1. /\ step = "alloc" /\ ~Removing /\ InOrder /\ Allocating /\ job.path \in Paths
  BY DEF Alloc, Removing, Base, Allocating
<1>2. CASE FreeClusters = {}
  BY <1>1, <1>2, LoseGood DEF Alloc
<1>3. CASE FreeClusters # {}
  <2> DEFINE c == Lowest(FreeClusters)
             f == job.first
  <2>1. /\ Take(c) /\ step' = "chain" /\ UNCHANGED <<sect, lost>>
        /\ job' = [job EXCEPT !.cur = c, !.first = IF f = FREE THEN c ELSE f]
    BY <1>3 DEF Alloc
  <2>2. c \in Cluster /\ fat[c] = FREE
    BY <1>3, LowestIs
  <2> HIDE DEF c
  <2>3. /\ fat'[c] = EOC
        /\ \A k \in Cluster : k # c => fat'[k] = fat[k]
        /\ \A q : c \notin ChainSet(fat, q) => ChainSet(fat', q) = ChainSet(fat, q)
    BY <2>1, <2>2, Apart, TakeIs
  <2>4. /\ job'.path = job.path /\ job'.data = job.data /\ job'.cur = c
        /\ job'.first = IF f = FREE THEN c ELSE f
    BY <1>1, <2>1 DEF InOrder, Jobs
  <2>5. ~Removing'
    BY <2>1 DEF Removing
  <2>6. Quiet
    <3>1. \A k \in Owned : k # c /\ k \in Cluster
      BY <2>2, Apart
    <3> QED BY <1>1, <2>1, <2>3, <2>5, <3>1 DEF Quiet, On
  <2>7. FreeClusters' = FreeClusters \ {c} /\ c \in FreeClusters /\ Held \cap FreeClusters = {}
    BY <2>2, <2>3, Constants DEF FreeClusters, Good, Accounts
  <2>8. Held = ChainSet(fat, f) \cup ({job.cur} \ {FREE})
    BY <1>1, HeldIs
  <2>9. Held' = ChainSet(fat', job'.first) \cup ({c} \ {FREE})
    BY <2>1, <2>4, HeldNext
  <2>10. Held' = Held \cup {c}
    <3>1. {c} \ {FREE} = {c}
      BY <2>2, Constants
    <3>2. CASE f = FREE
      <4>1. job.cur = FREE /\ ChainSet(fat, f) = {}
        BY <1>1, <3>2, ChainFacts, Constants, Apart DEF Allocating
      <4>2. fat'[c] \notin Cluster
        BY <2>3, Constants
      <4>3. ChainSet(fat', c) = {c} /\ job'.first = c
        BY <2>2, <2>4, <3>2, <4>2, OneCluster
      <4> QED BY <2>8, <2>9, <3>1, <4>1, <4>3
    <3>3. CASE f # FREE
      <4>1. job.cur \in ChainSet(fat, f) /\ c \notin ChainSet(fat, f) /\ job'.first = f
        <5>1. job.cur \in ChainSet(fat, f)
          BY <1>1, <3>3 DEF Allocating, AtEnd
        <5> QED BY <2>4, <2>7, <2>8, <3>3, <5>1
      <4> QED BY <2>3, <2>8, <2>9, <3>1, <4>1
    <3> QED BY <3>2, <3>3
  <2>11. Placed'
    BY <1>1, <2>1, <2>4, <2>6, SpotStep
  <2> QED BY <2>1, <2>6, <2>7, <2>10, <2>11, QuietStep
<1> QED BY <1>2, <1>3

LEMMA ChainGood ==
    ASSUME Base, Base', Good, PlainNames, Chain
    PROVE  Good' /\ Spared
<1> DEFINE f == job.first
           p == job.prev
           c == job.cur
<1>1. /\ step = "chain" /\ step' = "data" /\ UNCHANGED <<sect, job, lost, harmed>> /\ ~Removing
      /\ ~Removing' /\ InOrder /\ Chaining /\ job.path \in Paths
  BY DEF Chain, Removing, Base, Chaining
<1>2. c \in Cluster /\ fat[c] = EOC /\ f \in Cluster
  BY <1>1 DEF Chaining, InOrder, Jobs
<1>3. Held = ChainSet(fat, f) \cup {c} /\ Held' = ChainSet(fat', f) \cup {c}
  BY <1>1, <1>2, HeldIs, HeldNext, Constants
<1>4. Held \cap FreeClusters = {}
  BY DEF Good, Accounts
<1>5. Quiet /\ Held' = Held /\ FreeClusters' = FreeClusters
  <2>1. CASE f = c
    <3>1. fat' = fat
      BY <1>1, <2>1 DEF Chaining, Chain
    <3> QED BY <1>1, <1>3, <3>1 DEF Quiet, On, FreeClusters
  <2>2. CASE f # c
    <3>1. AtEnd(p) /\ p # c
      BY <1>1, <2>2 DEF Chaining
    <3>2. p \in Cluster /\ fat[p] = EOC /\ p \in ChainSet(fat, f)
      BY <3>1, Apart, ChainFacts DEF AtEnd
    <3>3. fat' = [fat EXCEPT ![p] = c]
      BY <3>2, Constants DEF Chain
    <3>4. Grown(fat, fat', p, c, f)
      BY <1>2, <3>1, <3>2, <3>3, Apart, Constants DEF Grown
    <3>5. ChainSet(fat', f) = ChainSet(fat, f) \cup {c}
      BY <3>4, GrowIs
    <3>6. p \in Held
      BY <1>3, <3>2
    <3>7. \A k \in Owned : k # p /\ k \in Cluster
      BY <3>6, Apart
    <3>8. fat \in Table
      BY Apart
    <3>9. \A k \in Cluster : k # p => fat'[k] = fat[k]
      BY <3>3, <3>8 DEF Table
    <3>10. FreeClusters' = FreeClusters
      BY <1>2, <3>2, <3>3, <3>8, Constants DEF FreeClusters, Table
    <3>11. Quiet
      BY <1>1, <3>7, <3>9 DEF Quiet, On
    <3> QED BY <1>3, <3>5, <3>10, <3>11
  <2> QED BY <2>1, <2>2
<1>6. Placed'
  BY <1>1, <1>5, SpotStep
<1> QED BY <1>1, <1>4, <1>5, <1>6, QuietStep

LEMMA DataGood ==
    ASSUME Base, Base', Good, PlainNames, Data
    PROVE  Good' /\ Spared
<1>1. /\ step = "data" /\ step' \in {"alloc", "record"} /\ UNCHANGED <<fat, lost>> /\ ~Removing
      /\ ~Removing' /\ InOrder /\ Filling /\ job.path \in Paths
      /\ job'.first = job.first /\ job'.cur = job.cur /\ job'.path = job.path /\ job'.data = job.data
      /\ \A k \in Cluster : k # job.cur => sect'[k] = sect[k]
  <2>1. step = "data" /\ step' \in {"alloc", "record"} /\ UNCHANGED <<fat, lost>> /\ InOrder /\ Filling
    BY DEF Data, Base
  <2>2. /\ job'.first = job.first /\ job'.cur = job.cur /\ job'.path = job.path
        /\ job'.data = job.data
    BY <2>1 DEF Data, InOrder, Jobs
  <2>3. \A k \in Cluster : k # job.cur => sect'[k] = sect[k]
    BY Apart DEF Data, Disk
  <2> QED BY <2>1, <2>2, <2>3 DEF Removing, Filling
<1>2. Held = ChainSet(fat, job.first) \cup ({job.cur} \ {FREE}) /\ Held' = Held
  BY <1>1, HeldIs, HeldNext
<1>3. job.cur \in Held
  BY <1>1, <1>2 DEF Filling, AtEnd
<1>4. Quiet
  <2>1. \A k \in Owned : k # job.cur /\ k \in Cluster
    BY <1>3, Apart
  <2> QED BY <1>1, <2>1 DEF Quiet, On
<1>5. FreeClusters' = FreeClusters /\ Held \cap FreeClusters = {}
  BY <1>1 DEF FreeClusters, Good, Accounts
<1>6. Placed'
  BY <1>1, <1>4, SpotStep
<1> QED BY <1>1, <1>2, <1>4, <1>5, <1>6, QuietStep

\* ... reporting ...
LEMMA ReportGood ==
    ASSUME Base, Base', Good, Report
    PROVE  Good' /\ Spared
<1>1. step = "written" /\ Done /\ UNCHANGED <<fat, sect, lost>>
  BY DEF Report
<1>2. Held = {} /\ ~Removing /\ ~Removing'
  BY <1>1, HeldIs DEF Removing, Done
<1>3. Quiet
  BY <1>1, <1>2 DEF Quiet, On
<1> QED BY <1>1, <1>2, <1>3, QuietIdle DEF Done

\* ... a search that does not end ...
LEMMA StrayGood ==
    ASSUME Base, Base', Good, NEW path \in Paths, Stray(path)
    PROVE  Good' /\ Spared
<1>1. step = "idle" /\ step' = "astray" /\ UNCHANGED <<fat, sect, job, lost>> /\ job = NoJob
  BY DEF Stray, Base, Idling
<1>2. Held = {} /\ ~Removing /\ ~Removing'
  BY <1>1, HeldIs DEF Removing
<1>3. Quiet
  BY <1>1, <1>2 DEF Quiet, On
<1> QED BY <1>1, <1>2, <1>3, QuietIdle

\* ... power loss ...
LEMMA PowerLossGood ==
    ASSUME Base, Base', Good, PowerLoss, ~harmed'
    PROVE  Good' /\ Spared
<1>1. ~Removing
  BY DEF PowerLoss, Removing
<1>2. Lose(Held) /\ Done /\ fat' = fat
  BY <1>1 DEF PowerLoss
<1> QED BY <1>1, <1>2, LoseGood

--------------------------------------------------------------------------------
\* The steps that change one piece of a directory.
LEMMA PutGood ==
    ASSUME Base, Base', Good, ~Removing, ~Removing', fat' = fat, NEW m \in Owned \X (1 .. SLOTS),
           ~Leads(sect, m), ~Leads(sect', m), \A l \in Location : l # m => On(sect', l) = On(sect, l),
           On(sect, m) \notin Text, ~Named(On(sect, m), Dot), ~Named(On(sect, m), DotDot),
           ~Named(On(sect', m), Dot), EndKept(fat, sect, sect', m)
    PROVE  Sound(fat', Virtual') /\ Owned' = Owned /\ Heads' = Heads /\ Spared
<1>1. Virtual = sect /\ Virtual' = sect' /\ sect \in Disk /\ sect' \in Disk
  BY Apart, VirtualNext
<1>2. Owned = OwnedIn(fat, sect) /\ Heads = HeadsIn(fat, sect) /\ ListsOn(fat) /\ Sound(fat, sect)
      /\ Owned \X (1 .. SLOTS) \subseteq Location
  BY <1>1, Apart DEF Good
<1>3. OwnedIn(fat, sect') = Owned /\ HeadsIn(fat, sect') = Heads /\ Sound(fat, sect')
  <2> DEFINE O == Owned
  <2>1. O = OwnedIn(fat, sect) /\ m \in O \X (1 .. SLOTS)
        /\ \A l \in O \X (1 .. SLOTS) : l # m => On(sect', l) = On(sect, l)
    BY <1>2
  <2> HIDE DEF O
  <2>2. OwnedIn(fat, sect') = O /\ HeadsIn(fat, sect') = HeadsIn(fat, sect) /\ Sound(fat, sect')
    BY <1>1, <1>2, <2>1, SoundPut
  <2> QED BY <1>2, <2>2 DEF O
<1>4. Owned' = OwnedIn(fat', Virtual') /\ Heads' = HeadsIn(fat', Virtual')
  BY BaseRange, OwnedNext
<1>5. Spared
  BY <1>1, <1>2 DEF Spared
<1> QED BY <1>1, <1>3, <1>4, <1>5

\* A new entry for a file, in a directory's first free slot.
LEMMA NewEntry ==
    ASSUME Base, Base', Good, PlainNames, NEW path \in Paths, ~Removing, ~Removing', fat' = fat,
           DirCluster(path) # FREE, NEW m, m = FreeSlot(DirCluster(path)), m # Missing,
           Put(m, FileEntry(Last(path)))
    PROVE  /\ Sound(fat', Virtual') /\ Owned' = Owned /\ Spared
           /\ FreshIn(fat, sect, path) =>
                 m \in Location /\ Spot(fat', sect', path, m) /\ On(sect', m) = FileEntry(Last(path))
<1> DEFINE d == DirOf(fat, sect, path)
           e == FileEntry(Last(path))
<1>1. /\ Virtual = sect /\ sect \in Disk /\ ListsOn(fat) /\ Sound(fat, sect)
      /\ Owned = OwnedIn(fat, sect) /\ fat \in Table
  BY Apart DEF Good
<1>2. d = DirCluster(path) /\ d # FREE
  BY <1>1, LocateIs
<1>3. d \in HeadsIn(fat, sect) /\ ChainSet(fat, d) \subseteq Owned
  BY <1>1, <1>2, DirFacts
<1>4. m = FreeSlotIn(fat, sect, d)
  BY <1>2, ReadsAre
<1> HIDE DEF d
<1>5. /\ m \in ChainSet(fat, d) \X (1 .. SLOTS) /\ m \in Location
      /\ On(sect, m) \in {Never, Erased}
      /\ \E k \in DOMAIN PiecesIn(fat, d) :
            /\ PiecesIn(fat, d)[k] = m
            /\ \A i \in DOMAIN PiecesIn(fat, d) :
                  i < k => On(sect, PiecesIn(fat, d)[i]) \notin {Never, Erased}
      /\ On(sect', m) # Never => EndKept(fat, sect, sect', m)
      /\ ~Leads(sect, m) /\ On(sect, m) \notin Text /\ ~Named(On(sect, m), Dot)
      /\ ~Named(On(sect, m), DotDot)
  BY <1>1, <1>3, <1>4, SlotFacts
<1>6. e \in Piece /\ e \in Entries
  <2>1. Last(path) \in {Dot, DotDot} \cup UNION {ToSet(p) : p \in Paths}
    BY PathFacts
  <2>2. 0 \in 0 .. EXISTING + 1
    BY Constants
  <2>3. e \in Entries
    BY <2>1, <2>2 DEF FileEntry, Entries
  <2> QED BY <2>3 DEF Piece
<1>7. sect' \in Disk /\ On(sect', m) = e /\ \A l \in Location : l # m => On(sect', l) = On(sect, l)
  BY <1>1, <1>5, <1>6, PutIs
<1>8. e # Never /\ ~Leads(sect', m) /\ ~Named(e, Dot) /\ Named(e, Last(path))
  <2>1. e.name = Last(path) /\ e.first = FREE /\ Last(path) \notin {Dot, DotDot}
    BY PathFacts DEF FileEntry
  <2>2. IsEntry(e) /\ e # Never
    BY <1>6, Kinds
  <2> HIDE DEF e
  <2> QED BY <1>7, <2>1, <2>2 DEF Leads, Named
<1>9. m \in Owned \X (1 .. SLOTS)
  BY <1>3, <1>5
<1> HIDE DEF e
<1>10. Sound(fat', Virtual') /\ Owned' = Owned /\ Spared
  BY <1>5, <1>7, <1>8, <1>9, PutGood
<1>11. ASSUME FreshIn(fat, sect, path)
       PROVE  Spot(fat, sect', path, m)
  <2> DEFINE P == PiecesIn(fat, d)
  <2>1. PICK k \in DOMAIN P : P[k] = m /\ \A i \in DOMAIN P : i < k => On(sect, P[i]) \notin {Never, Erased}
    BY <1>5
  <2>2. \A i \in DOMAIN P : i < k => On(sect, P[i]) # Never /\ ~Named(On(sect, P[i]), Last(path))
    BY <1>1, <1>11, <2>1, FreshSlot DEF d
  <2>3. PutIn(fat, sect, sect', path, m, {})
    <3>1. Owned \X (1 .. SLOTS) \subseteq Location /\ Owned \ {} = Owned
      BY Apart
    <3>2. ClosedIn(fat, sect, {})
      BY DEF ClosedIn, LinkIn
    <3> QED BY <1>1, <1>2, <1>5, <1>7, <1>8, <3>1, <3>2 DEF PutIn, d
  <2>4. Named(On(sect', m), Last(path))
    BY <1>7, <1>8
  <2> QED BY <1>1, <1>7, <2>1, <2>2, <2>3, <2>4, PutSpot DEF d
<1> QED BY <1>5, <1>7, <1>10, <1>11 DEF e

\* ... making an empty file ...
LEMMA TouchGood ==
    ASSUME Base, Base', Good, PlainNames, NEW path \in Paths, Touch(path)
    PROVE  Good' /\ Spared
<1>1. /\ step = "idle" /\ step' = "idle" /\ UNCHANGED <<fat, job, lost>> /\ job = NoJob
      /\ ~Removing /\ ~Removing'
  BY DEF Touch, Base, Idling, Removing
<1>2. Sound(fat', Virtual') /\ Owned' = Owned /\ Spared
  BY <1>1, NewEntry DEF Touch
<1>3. Held = {} /\ Held' = {} /\ FreeClusters' = FreeClusters
  BY <1>1, HeldIs, HeldNext DEF FreeClusters
<1>4. Accounts'
  BY <1>1, <1>2, <1>3 DEF Good, Accounts
<1> QED BY <1>1, <1>2, <1>4, IdlePlaced DEF Good

LEMMA CreateGood ==
    ASSUME Base, Base', Good, PlainNames, Create
    PROVE  Good' /\ Spared
<1> DEFINE c == DirCluster(job.path)
           m == FreeSlot(c)
<1>1. /\ step = "create" /\ UNCHANGED <<fat, lost, harmed>> /\ job.path \in Paths /\ ~Removing
      /\ job.first = FREE /\ job.cur = FREE
  BY DEF Create, Base, Creating, Removing
<1>2. Held = {} /\ FreeClusters' = FreeClusters /\ Virtual = sect
  BY <1>1, HeldIs, Apart DEF FreeClusters
<1>3. CASE c # FREE /\ m # Missing /\ Put(m, FileEntry(Last(job.path))) /\ step' = "alloc" /\ job' = job
  <2>1. ~Removing'
    BY <1>3 DEF Removing
  <2>2. FreshIn(fat, sect, job.path)
    BY <1>1, <1>2 DEF Good, Placed
  <2>3. /\ Sound(fat', Virtual') /\ Owned' = Owned /\ Spared
        /\ m \in Location /\ Spot(fat', sect', job.path, m) /\ On(sect', m) = FileEntry(Last(job.path))
    BY <1>1, <1>3, <2>1, <2>2, NewEntry
  <2>4. Held' = {}
    <3>1. ChainSet(fat', FREE) = {}
      BY <1>1, ChainFacts, Constants, Apart
    <3> QED BY <1>1, <1>3, <3>1, HeldNext
  <2>5. Accounts'
    BY <1>1, <1>2, <2>3, <2>4, Zenon DEF Good, Accounts
  <2>6. Placed'
    <3>1. job.data \in Seq(Text)
      BY DEF Good, Placed
    <3> HIDE DEF m, c
    <3>2. \E n \in Location : Spot(fat', sect', job'.path, n) /\ On(sect', n) = FileEntry(Last(job'.path))
      BY <1>3, <2>3
    <3> QED BY <1>3, <2>1, <3>1, <3>2 DEF Placed, Spot, DirOf, Way, OpenIn, PiecesIn, ChainIn, On
  <2> QED BY <2>3, <2>5, <2>6 DEF Good
<1>4. CASE Done /\ sect' = sect
  <2>1. ~Removing'
    BY <1>4 DEF Done, Removing
  <2>2. Quiet
    BY <1>1, <1>4, <2>1 DEF Quiet, On
  <2> QED BY <1>1, <1>2, <1>4, <2>2, QuietIdle DEF Done
<1> QED BY <1>3, <1>4 DEF Create

--------------------------------------------------------------------------------
\* The removal of an entry.
LEMMA NothingBelow ==
    ASSUME NEW t, NEW s
    PROVE  BelowIn(t, s, FREE) = {}
<1>1. ClosedIn(t, s, {}) /\ {} \in SUBSET Cluster /\ FREE \notin Cluster
  BY Constants DEF ClosedIn, LinkIn
<1> QED BY <1>1, BelowLeast

\* ... removing what is there ...
LEMMA DeleteFound ==
    ASSUME Base, Base', Good, PlainNames, step = "idle", NEW new, Begun(new), Delete(new),
           new.data \in Seq(Text), Locate(new.path) # Missing
    PROVE  Good' /\ Spared
<1> DEFINE m == Locate(new.path)
           e == At(m)
           B == BelowIn(fat, sect, e.first)
           H == ChainSet(fat, e.first)
           O == Owned
<1>1. /\ job' = [new EXCEPT !.at = m, !.cur = e.first] /\ step' = "free" /\ fat' = fat
      /\ Lose(Below(e.first) \ ToSet(ChainFrom(e.first)))
  BY DEF Delete
<1>2. /\ job'.at = m /\ job'.cur = e.first /\ job'.path = new.path /\ job'.data = new.data
      /\ new.path \in Paths
  BY <1>1 DEF Begun, Jobs
<1>3. ~Removing /\ Removing' /\ Held = {}
  BY <1>1, HeldIs DEF Removing
<1>4. /\ Virtual = sect /\ sect \in Disk /\ ListsOn(fat) /\ fat \in Table /\ Sound(fat, sect)
      /\ O = OwnedIn(fat, sect) /\ O \in SUBSET Cluster /\ O \X (1 .. SLOTS) \subseteq Location
  BY <1>3, Apart DEF Good
<1>5. /\ Spot(fat, sect, new.path, m) /\ m \in Location /\ e = On(sect, m) /\ e \in Entries
      /\ Named(e, Last(new.path)) /\ e.first \in Cluster \cup {FREE}
  BY <1>2, <1>4, LocateIs
<1>6. Last(new.path) \notin {Dot, DotDot} /\ ~Named(e, Dot) /\ ~Named(e, DotDot)
  BY <1>2, <1>5, PathFacts DEF Named
<1>7. m \in O \X (1 .. SLOTS) /\ m \in ChainSet(fat, DirOf(fat, sect, new.path)) \X (1 .. SLOTS)
      /\ DirOf(fat, sect, new.path) # FREE
  BY <1>2, <1>4, <1>5, SpotFacts, DirFacts
<1>8. Below(e.first) = B /\ ToSet(ChainFrom(e.first)) = H
  BY <1>4, BaseRange, OwnedIs, ReadsAre DEF ChainSet
<1>9. lost' = lost \cup (B \ H) /\ Abandon(B \ H)
  BY <1>1, <1>8 DEF Lose
<1>10. B \in SUBSET Cluster /\ ClosedIn(fat, sect, B) /\ (e.first \in Cluster => e.first \in B)
  BY <1>4, BelowClosed
<1>11. H \subseteq B
  BY <1>4, <1>10, ChainInside DEF ClosedIn
<1> DEFINE r == Virtual'
<1>12. /\ r \in Disk /\ On(r, m) = Erased
       /\ \A l \in Location : l # m /\ l[1] \notin B => On(r, l) = On(sect, l)
  <2>1. \A l \in Location : l[1] \notin B \ H => On(sect', l) = On(sect, l)
    BY <1>4, <1>9, <1>10, AbandonIs
  <2> QED BY <1>2, <1>3, <2>1, VirtualNext
<1> HIDE DEF m, e, B, H, r
<1>13. ~Leads(r, m) /\ Erased # Never /\ ~Named(Erased, Dot)
  BY <1>12, FatVolumeAssumption DEF Leads, Named, IsEntry
<1>14. /\ B \subseteq O /\ m[1] \notin B /\ OwnedIn(fat, r) = O \ B /\ Sound(fat, r)
       /\ \A k \in O \ B : fat[k] \in Cluster => fat[k] \notin B
  <2>1. CASE e.first = FREE
    <3>1. B = {} /\ O \ B = O
      BY <2>1, NothingBelow DEF B
    <3>2. ~Leads(sect, m) /\ On(sect, m) \notin Text /\ On(sect, m) # Never
      BY <1>5, <2>1, Kinds DEF Leads, Piece
    <3>3. EndKept(fat, sect, r, m)
      BY <1>12, <1>13, <3>2 DEF EndKept
    <3>4. \A l \in O \X (1 .. SLOTS) : l # m => On(r, l) = On(sect, l)
      BY <1>4, <1>12, <3>1
    <3>5. OwnedIn(fat, r) = O /\ Sound(fat, r)
      <4> HIDE DEF O
      <4> QED BY <1>4, <1>5, <1>6, <1>7, <1>12, <1>13, <3>2, <3>3, <3>4, SoundPut
    <3> QED BY <3>1, <3>5
  <2>2. CASE e.first # FREE
    <3>1. m \in LinkIn(sect, O)
      BY <1>5, <1>6, <1>7, <2>2 DEF LinkIn, Leads, Named
    <3>2. B = BelowIn(fat, sect, On(sect, m).first) /\ Unique(fat, sect)
      BY <1>4, <1>5 DEF B, Sound
    <3>3. \A l \in (O \ B) \X (1 .. SLOTS) : l # m => On(r, l) = On(sect, l)
      BY <1>4, <1>12
    <3> HIDE DEF O
    <3>4. Removed(fat, sect, r, m, O, B)
      BY <1>4, <1>12, <3>1, <3>2, <3>3 DEF Removed
    <3>6. OwnedIn(fat, r) = O \ B /\ Sound(fat, r)
      <4>1. sect \in Disk /\ r \in Disk /\ ListsOn(fat) /\ Sound(fat, sect)
        BY <1>4, <1>12
      <4>2. Without(fat, sect, r, m, O, B)
        BY <3>4, <4>1, SoundRemove
      <4> QED BY <4>2 DEF Without
    <3>5. B \subseteq O /\ m[1] \notin B /\ \A k \in O \ B : fat[k] \in Cluster => fat[k] \in O \ B
      BY <1>4, <3>1, <3>2, BelowLink
    <3> QED BY <3>5, <3>6
  <2> QED BY <2>1, <2>2
<1>15. Owned' = O \ B
  BY <1>1, <1>14, BaseRange, OwnedNext DEF r
<1>16. Held' = H /\ FreeClusters' = FreeClusters
  BY <1>1, <1>2, <1>3, HeldNext DEF FreeClusters, H
<1>17. Accounts'
  <2>1. O \cup lost = Cluster \ FreeClusters /\ O \cap lost = {}
    BY <1>3 DEF Good, Accounts
  <2> QED BY <1>9, <1>11, <1>14, <1>15, <1>16, <2>1 DEF Accounts
<1>18. FreshIn(fat, r, new.path)
  <2>1. PutIn(fat, sect, r, new.path, m, B)
    <3>1. \A l \in (O \ B) \X (1 .. SLOTS) : l # m => On(r, l) = On(sect, l)
      BY <1>4, <1>12
    <3> QED BY <1>4, <1>5, <1>6, <1>7, <1>10, <1>12, <1>13, <1>14, <3>1 DEF PutIn
  <2> QED BY <1>2, <1>4, <1>5, <1>12, <2>1, FreshRemoved
<1>19. Placed'
  BY <1>1, <1>2, <1>18 DEF Placed, r
<1>20. Spared
  <2>1. \A l \in Location : l[1] \notin B \ H => On(sect', l) = On(sect, l)
    BY <1>4, <1>9, <1>10, AbandonIs
  <2> QED BY <1>1, <1>4, <1>9, <2>1 DEF Spared
<1> QED BY <1>1, <1>14, <1>17, <1>19, <1>20 DEF Good, r

LEMMA DeleteMissing ==
    ASSUME Base, Base', Good, PlainNames, step = "idle", NEW new, Begun(new), Delete(new),
           new.data \in Seq(Text), Locate(new.path) = Missing
    PROVE  Good' /\ Spared
<1>1. /\ job' = new /\ step' = "create" /\ UNCHANGED <<fat, sect, lost>>
      /\ new.path \in Paths
  BY DEF Delete, Begun
<1>2. ~Removing /\ ~Removing' /\ Held = {} /\ Held' = {} /\ FreeClusters' = FreeClusters
  BY <1>1, HeldIs, HeldNext DEF Removing, FreeClusters
<1>3. Quiet
  BY <1>1, <1>2 DEF Quiet, On
<1>4. Virtual = sect /\ Virtual' = sect' /\ sect \in Disk /\ ListsOn(fat) /\ fat \in Table
  BY <1>2, Apart, VirtualNext
<1>5. FreshIn(fat, sect, new.path)
  BY <1>1, <1>4, LocateIs, FreshMissing
<1>6. Placed'
  BY <1>1, <1>2, <1>4, <1>5 DEF Placed
<1> QED BY <1>1, <1>2, <1>3, <1>6, QuietStep

\* What is written is text, unless it does harm.
LEMMA TextOnly ==
    ASSUME NEW new, Begun(new), Delete(new), ~harmed'
    PROVE  new.data \in Seq(Text)
<1>1. new.data \in Seq(Piece)
  BY DEF Begun, Jobs
<1>2. \A i \in DOMAIN new.data : new.data[i] \in Text
  BY DEF Delete, Spoils
<1> QED BY <1>1, <1>2

LEMMA DeleteGood ==
    ASSUME Base, Base', Good, PlainNames, step = "idle", NEW new, Begun(new), Delete(new), ~harmed'
    PROVE  Good' /\ Spared
BY TextOnly, DeleteFound, DeleteMissing

\* ... beginning to remove or to write ...
LEMMA RmGood ==
    ASSUME Base, Base', Good, PlainNames, NEW path \in Paths, Rm(path), ~harmed'
    PROVE  Good' /\ Spared
<1> DEFINE new == [NoJob EXCEPT !.path = path]
<1>1. Begun(new) /\ Delete(new) /\ step = "idle"
  BY RmBegun DEF Rm
<1> HIDE DEF new
<1> QED BY <1>1, DeleteGood

LEMMA PrintToGood ==
    ASSUME Base, Base', Good, PlainNames, NEW path \in Paths, NEW text \in Text,
           PrintTo(path, text), ~harmed'
    PROVE  Good' /\ Spared
<1> DEFINE new == [NoJob EXCEPT !.path = path, !.data = <<text>>, !.writes = TRUE]
<1>1. Begun(new) /\ Delete(new) /\ step = "idle"
  BY PrintToBegun DEF PrintTo
<1> HIDE DEF new
<1> QED BY <1>1, DeleteGood

LEMMA PrintAppendGood ==
    ASSUME Base, Base', Good, PlainNames, NEW path \in Paths, NEW text \in Text,
           PrintAppend(path, text), ~harmed'
    PROVE  Good' /\ Spared
<1> DEFINE new == [NoJob EXCEPT !.path = path, !.data = Append(Existing(path), text),
                                !.writes = TRUE]
<1>1. Begun(new) /\ Delete(new) /\ step = "idle"
  BY PrintAppendBegun DEF PrintAppend, Base
<1> HIDE DEF new
<1> QED BY <1>1, DeleteGood

--------------------------------------------------------------------------------
\* The steps that hand the running command's clusters to an entry.
LEMMA MoreGood ==
    ASSUME Base, Base', Good, ~Removing, ~Removing', fat' = fat, lost' = lost, Held' = {},
           NEW m, More(fat, sect, fat, sect', m), ChainSet(fat, On(sect', m).first) = Held,
           \A l \in Location : l # m => On(sect', l) = On(sect, l)
    PROVE  Sound(fat', Virtual') /\ Accounts' /\ Spared
<1>1. /\ Virtual = sect /\ sect \in Disk /\ ListsOn(fat) /\ Sound(fat, sect)
      /\ Owned = OwnedIn(fat, sect) /\ Owned \X (1 .. SLOTS) \subseteq Location
  BY Apart DEF Good
<1>2. Virtual' = sect' /\ sect' \in Disk
  BY VirtualNext
<1>3. /\ OwnedIn(fat, sect') = OwnedIn(fat, sect) \cup ChainSet(fat, On(sect', m).first)
      /\ Sound(fat, sect')
  BY <1>1, <1>2, SoundMore
<1>4. Owned' = Owned \cup Held
  BY <1>1, <1>2, <1>3, BaseRange, OwnedNext
<1>5. FreeClusters' = FreeClusters
  BY DEF FreeClusters
<1>6. Accounts'
  BY <1>4, <1>5 DEF Good, Accounts
<1>7. ~Leads(sect, m) /\ On(sect, m) \notin Text
  BY DEF More
<1>8. Spared
  BY <1>1, <1>7 DEF Spared
<1> QED BY <1>2, <1>3, <1>6, <1>8

\* The pieces of a cluster that is a chain by itself.
LEMMA OnePieces ==
    ASSUME NEW t, ListsOn(t), NEW c \in Cluster, t[c] \notin Cluster
    PROVE  DOMAIN PiecesIn(t, c) = 1 .. SLOTS /\ \A k \in 1 .. SLOTS : PiecesIn(t, c)[k] = <<c, k>>
<1>1. Len(ChainIn(t, c)) = 1 /\ ChainIn(t, c)[1] = c
  BY OneCluster
<1>2. DOMAIN PiecesIn(t, c) = 1 .. 1 * SLOTS
  BY <1>1, PieceFacts
<1>3. \A q \in 1 .. 1, j \in 1 .. SLOTS : PiecesIn(t, c)[(q - 1) * SLOTS + j] = <<ChainIn(t, c)[q], j>>
  BY <1>1, PieceFacts
<1>4. 1 * SLOTS = SLOTS /\ \A j \in 1 .. SLOTS : (1 - 1) * SLOTS + j = j
  BY Constants
<1> QED BY <1>1, <1>2, <1>3, <1>4

\* ... linking a new directory ...
LEMMA LinkGood ==
    ASSUME Base, Base', Good, PlainNames, Link
    PROVE  Good' /\ Spared
<1> DEFINE c == job.cur
           p == job.prev
           m == FreeSlot(p)
           e == DirEntry(Last(job.path), c)
<1>1. /\ step = "link" /\ Done /\ fat' = fat /\ harmed' = harmed /\ ~Removing /\ ~Removing'
      /\ job.path \in Paths /\ c \in Cluster /\ p \in Cluster /\ fat[c] = EOC
  BY DEF Link, Done, Removing, Base, Making
<1>2. sect[c] = [i \in 1 .. SLOTS |-> CASE i = 1 -> DirEntry(Dot, c)
                                        [] i = 2 -> DirEntry(DotDot, p)
                                        [] OTHER -> Never]
  BY <1>1 DEF Base, Dotting
<1>3. Held = {c} /\ Held' = {}
  BY <1>1, HeldIs, HeldNext DEF Done
<1>4. CASE m = Missing
  <2>1. Lose(Held)
    BY <1>3, <1>4 DEF Link
  <2> QED BY <1>1, <2>1, LoseGood
<1>5. CASE m # Missing
  <2>1. Put(m, e) /\ lost' = lost
    BY <1>5 DEF Link
  <2>2. /\ Virtual = sect /\ sect \in Disk /\ ListsOn(fat) /\ Sound(fat, sect)
        /\ Owned = OwnedIn(fat, sect) /\ Owned \in SUBSET Cluster /\ c \notin Owned
        /\ Heads = HeadsIn(fat, sect)
    BY <1>1, <1>3, Apart DEF Good
  <2>3. p \in HeadsIn(fat, sect)
    BY <1>1, <2>2 DEF Good, Placed
  <2>4. ChainSet(fat, p) \subseteq Owned
    BY <2>2, <2>3, HeadFacts
  <2>5. m = FreeSlotIn(fat, sect, p)
    BY ReadsAre
  <2> HIDE DEF m, p
  <2>6. /\ m \in ChainSet(fat, p) \X (1 .. SLOTS) /\ m \in Location
        /\ On(sect', m) # Never => EndKept(fat, sect, sect', m)
        /\ ~Leads(sect, m) /\ On(sect, m) \notin Text /\ ~Named(On(sect, m), Dot)
        /\ ~Named(On(sect, m), DotDot)
    BY <1>5, <2>2, <2>3, <2>5, SlotFacts
  <2>7. e \in Entries /\ e \in Piece
    <3>1. Last(job.path) \in {Dot, DotDot} \cup UNION {ToSet(q) : q \in Paths}
      BY <1>1, PathFacts
    <3>2. 0 \in 0 .. EXISTING + 1
      BY Constants
    <3> QED BY <1>1, <3>1, <3>2 DEF DirEntry, Entries, Piece
  <2>8. On(sect', m) = e /\ \A l \in Location : l # m => On(sect', l) = On(sect, l)
    BY <2>1, <2>2, <2>6, <2>7, PutIs
  <2>9. /\ e.name = Last(job.path) /\ e.first = c /\ e.dir /\ e.name \notin {Dot, DotDot}
        /\ c # FREE
    BY <1>1, PathFacts, Constants DEF DirEntry
  <2>10. e # Never /\ Leads(sect', m)
    BY <2>7, <2>8, <2>9, Kinds DEF Leads
  <2>11. ChainSet(fat, c) = {c}
    BY <1>1, OneCluster, Constants
  <2>12. m \in Owned \X (1 .. SLOTS) /\ m[1] # c /\ m[1] \in ChainSet(fat, p)
    BY <2>2, <2>4, <2>6
  <2>13. \A i \in 1 .. SLOTS :
            On(sect', <<c, i>>) = CASE i = 1 -> DirEntry(Dot, c)
                                    [] i = 2 -> DirEntry(DotDot, p)
                                    [] OTHER -> Never
    <3>1. \A i \in 1 .. SLOTS : <<c, i>> \in Location /\ <<c, i>> # m
      BY <1>1, <2>12 DEF Location
    <3>2. \A i \in 1 .. SLOTS : On(sect', <<c, i>>) = sect[c][i]
      BY <2>8, <3>1 DEF On
    <3> QED BY <1>2, <3>2 DEF p
  <2> HIDE DEF c, e
  <2>14. \A l \in {c} \X (1 .. SLOTS) :
            ~Leads(sect', l) /\ (Named(On(sect', l), Dot) => On(sect', l) = DirEntry(Dot, c) /\ l[1] = c)
    <3> SUFFICES ASSUME NEW i \in 1 .. SLOTS
                 PROVE  /\ ~Leads(sect', <<c, i>>)
                        /\ Named(On(sect', <<c, i>>), Dot) => On(sect', <<c, i>>) = DirEntry(Dot, c)
      OBVIOUS
    <3>1. CASE i = 1
      <4>1. On(sect', <<c, i>>) = DirEntry(Dot, c)
        BY <2>13, <3>1
      <4> QED BY <4>1 DEF Leads, DirEntry
    <3>2. CASE i = 2
      <4>1. On(sect', <<c, i>>) = DirEntry(DotDot, p)
        BY <2>13, <3>2
      <4> QED BY <4>1, Constants DEF Leads, Named, DirEntry
    <3>3. CASE i # 1 /\ i # 2
      <4>1. On(sect', <<c, i>>) = Never
        BY <2>13, <3>3
      <4> QED BY <4>1 DEF Leads, Named, IsEntry
    <3> QED BY <3>1, <3>2, <3>3
  <2>15. /\ On(sect', <<c, 1>>) = DirEntry(Dot, c)
         /\ On(sect', <<c, 2>>) = DirEntry(DotDot, p)
    <3>1. 1 \in 1 .. SLOTS /\ 2 \in 1 .. SLOTS
      BY Constants
    <3> QED BY <2>13, <3>1
  <2>16. \A i, k \in DOMAIN PiecesIn(fat, c) :
            i < k /\ On(sect', PiecesIn(fat, c)[i]) = Never => On(sect', PiecesIn(fat, c)[k]) = Never
    <3>1. DOMAIN PiecesIn(fat, c) = 1 .. SLOTS /\ \A k \in 1 .. SLOTS : PiecesIn(fat, c)[k] = <<c, k>>
      BY <1>1, <2>2, OnePieces, Constants DEF c
    <3>2. DirEntry(Dot, c) # Never /\ DirEntry(DotDot, p) # Never
      <4>1. DirEntry(Dot, c) \in Entries /\ DirEntry(DotDot, p) \in Entries
        BY <1>1, OwnEntries DEF p, c
      <4>2. Never \notin Entries
        BY FatVolumeAssumption
      <4> QED BY <4>1, <4>2
    <3> SUFFICES ASSUME NEW i \in 1 .. SLOTS, NEW k \in 1 .. SLOTS, i < k,
                        On(sect', <<c, i>>) = Never
                 PROVE  On(sect', <<c, k>>) = Never
      BY <3>1
    <3>3. i # 1 /\ i # 2
      BY <2>13, <3>2
    <3>4. k # 1 /\ k # 2
      BY <3>3, Constants
    <3> QED BY <2>13, <3>4
  <2>17. \A k \in Owned : fat[k] = fat[k]
    OBVIOUS
  <2>18. \A l \in OwnedIn(fat, sect) \X (1 .. SLOTS) : l # m => On(sect', l) = On(sect, l)
    BY <2>2, <2>8 DEF Location
  <2>19. {c} \cap OwnedIn(fat, sect) = {}
    BY <2>2 DEF c
  <2>20. m \in OwnedIn(fat, sect) \X (1 .. SLOTS) /\ EndKept(fat, sect, sect', m)
    BY <2>2, <2>6, <2>8, <2>10, <2>12
  <2>21. More(fat, sect, fat, sect', m)
    BY <2>3, <2>6, <2>8, <2>9, <2>10, <2>11, <2>12, <2>14, <2>15, <2>16, <2>18, <2>19, <2>20
       DEF More, c, e
  <2>22. Sound(fat', Virtual') /\ Accounts' /\ Spared
    <3>1. ChainSet(fat, On(sect', m).first) = Held
      BY <1>3, <2>8, <2>9, <2>11 DEF c, e
    <3> QED BY <1>1, <1>3, <2>1, <2>8, <2>21, <3>1, MoreGood
  <2> QED BY <1>1, <2>22, IdlePlaced DEF Good, Done
<1> QED BY <1>4, <1>5

\* What "print" reports, as the volume has it.
ContentsIn(t, s, e) == [k \in DOMAIN ReadableIn(t, e) |-> On(s, ReadableIn(t, e)[k])]
\* "print" has done what it reports.
Result(t, s, path, data) ==
    Blank \notin ToSet(path) /\ OpenIn(t, s, Way(Front(path))).dir =>
        ~OpenIn(t, s, Way(path)).dir /\ ContentsIn(t, s, OpenIn(t, s, Way(path))) = data

LEMMA ResultIs ==
    Printed <=> Result(fat, sect, job.path, job.data)
<1>1. \A e : Contents(e) = ContentsIn(fat, sect, e)
  BY ReadsAre, Zenon DEF Contents, ContentsIn
<1> QED BY <1>1, ReadsAre DEF Result, Printed

\* The same of the next state.
LEMMA ResultNext ==
    Printed' <=> Result(fat', sect', job'.path, job'.data)
<1>1. (Printed <=> Result(fat, sect, job.path, job.data))'
  BY ResultIs, PTL
<1> QED BY <1>1 DEF Result, ContentsIn, ReadableIn, OpenIn, Way, PiecesIn, ChainIn, On

\* The entry that "print" has made gets its chain, and the file can be read.
LEMMA ChainWritten ==
    ASSUME Base, step = "record", job.data \in Seq(Text)
    PROVE  /\ job.first \in Cluster /\ Len(job.data) \in Nat /\ ListsOn(fat)
           /\ Len(PiecesIn(fat, job.first)) = job.done
           /\ DOMAIN PiecesIn(fat, job.first) = 1 .. job.done /\ Len(job.data) <= job.done
           /\ (Len(ChainIn(fat, job.first)) - 1) * SLOTS < Len(job.data)
           /\ Len(job.data) <= Len(ChainIn(fat, job.first)) * SLOTS
           /\ \A k \in 1 .. job.done :
                 On(sect, PiecesIn(fat, job.first)[k])
                    = IF k <= Len(job.data) THEN job.data[k] ELSE Never
           /\ \A k \in 1 .. Len(job.data) : job.data[k] \in Text
           /\ \A l \in ChainSet(fat, job.first) \X (1 .. SLOTS) : On(sect, l) \in Text \cup {Never}
           /\ Held = ChainSet(fat, job.first)
<1> DEFINE f == job.first
           n == Len(ChainIn(fat, f))
<1>1. Recording /\ InOrder
  BY DEF Base
<1>2. /\ f \in Cluster /\ Len(job.data) \in Nat /\ ListsOn(fat) /\ job.done \in Nat
      /\ n * SLOTS = job.done /\ WrittenTo(job.done)
      /\ Len(job.data) <= job.done /\ job.done < Len(job.data) + SLOTS
  BY <1>1 DEF Recording, InOrder, Jobs, Chain1
<1>3. DOMAIN PiecesIn(fat, f) = 1 .. job.done /\ Len(PiecesIn(fat, f)) = job.done
  BY <1>2, PieceFacts
<1>4. n \in Nat
  BY <1>2, ChainFacts
<1>5. (n - 1) * SLOTS = n * SLOTS - SLOTS
  <2> HIDE DEF n
  <2>1. \A a, b \in Int : (a - 1) * b = a * b - b
    OBVIOUS
  <2> QED BY <1>4, <2>1, Constants
<1> HIDE DEF n
<1>6. (n - 1) * SLOTS < Len(job.data) /\ Len(job.data) <= n * SLOTS
  BY <1>2, <1>5, Constants
<1>7. \A k \in 1 .. job.done :
         On(sect, PiecesIn(fat, f)[k]) = IF k <= Len(job.data) THEN job.data[k] ELSE Never
  BY <1>2, <1>3 DEF WrittenTo
<1>8. \A k \in 1 .. Len(job.data) : job.data[k] \in Text
  OBVIOUS
<1>9. \A l \in ChainSet(fat, f) \X (1 .. SLOTS) : On(sect, l) \in Text \cup {Never}
  <2> SUFFICES ASSUME NEW l \in ChainSet(fat, f) \X (1 .. SLOTS)
               PROVE  On(sect, l) \in Text \cup {Never}
    OBVIOUS
  <2>1. PICK k \in DOMAIN PiecesIn(fat, f) : PiecesIn(fat, f)[k] = l
    BY <1>2, PieceFacts
  <2>2. k \in 1 .. job.done /\ (k <= Len(job.data) => k \in 1 .. Len(job.data))
    BY <1>2, <1>3, <2>1
  <2> QED BY <1>7, <1>8, <2>1, <2>2
<1>10. Held = ChainSet(fat, f)
  <2>1. job.cur \in ChainSet(fat, f)
    BY <1>1 DEF Recording
  <2> QED BY <2>1, HeldIs
<1> QED BY <1>2, <1>3, <1>6, <1>7, <1>8, <1>9, <1>10 DEF n

\* ... and recording first cluster and size.
LEMMA RecordFound ==
    ASSUME Base, Base', Good, PlainNames, Record, Locate(job.path) # Missing
    PROVE  Good' /\ Spared
<1> DEFINE m == Locate(job.path)
           f == job.first
           d == DirOf(fat, sect, job.path)
           e == [name |-> Last(job.path), dir |-> FALSE, first |-> f, size |-> Len(job.data)]
<1>1. /\ step = "record" /\ fat' = fat /\ harmed' = harmed /\ ~Removing /\ ~Removing'
      /\ Put(m, Recorded(At(m))) /\ step' = "written" /\ job' = job /\ lost' = lost
      /\ job.path \in Paths
  BY DEF Record, Done, Removing, Base, Recording
<1>2. job.data \in Seq(Text)
  BY DEF Good, Placed
<1>3. /\ Virtual = sect /\ sect \in Disk /\ ListsOn(fat) /\ Sound(fat, sect) /\ fat \in Table
      /\ Owned = OwnedIn(fat, sect) /\ Owned \in SUBSET Cluster
      /\ Owned \X (1 .. SLOTS) \subseteq Location
      /\ \A k \in Owned : k \notin Held
  BY <1>1, Apart DEF Good
<1>4. /\ f \in Cluster /\ Len(job.data) \in Nat
      /\ Len(PiecesIn(fat, f)) = job.done
      /\ DOMAIN PiecesIn(fat, f) = 1 .. job.done /\ Len(job.data) <= job.done
      /\ (Len(ChainIn(fat, f)) - 1) * SLOTS < Len(job.data)
      /\ Len(job.data) <= Len(ChainIn(fat, f)) * SLOTS
      /\ \A k \in 1 .. job.done :
            On(sect, PiecesIn(fat, f)[k]) = IF k <= Len(job.data) THEN job.data[k] ELSE Never
      /\ \A k \in 1 .. Len(job.data) : job.data[k] \in Text
      /\ \A l \in ChainSet(fat, f) \X (1 .. SLOTS) : On(sect, l) \in Text \cup {Never}
      /\ Held = ChainSet(fat, f)
  BY <1>1, <1>2, ChainWritten
<1>5. Held' = {} /\ job.done \in Nat /\ Len(job.data) <= EXISTING + 1
  BY <1>1, HeldNext DEF Base, InOrder, Jobs
<1>6. Spot(fat, sect, job.path, m) /\ m \in Location /\ On(sect, m) = FileEntry(Last(job.path))
      /\ At(m) = On(sect, m)
  <2>1. PICK n \in Location : Spot(fat, sect, job.path, n) /\ On(sect, n) = FileEntry(Last(job.path))
    BY <1>1 DEF Good, Placed
  <2>2. m = n
    <3>1. m = FindOn(sect, PiecesIn(fat, d), Last(job.path))
      BY <1>1, <1>3, LocateIs
    <3> QED BY <1>3, <2>1, <3>1, FindSpot
  <2>3. At(m) = On(sect, m)
    BY ReadsAre
  <2> QED BY <2>1, <2>2, <2>3
<1>7. m \in ChainSet(fat, d) \X (1 .. SLOTS) /\ d # FREE /\ ChainSet(fat, d) \subseteq Owned
  BY <1>1, <1>3, <1>6, SpotFacts, DirFacts
<1>8. e \in Entries /\ e \in Piece
  <2>1. Last(job.path) \in {Dot, DotDot} \cup UNION {ToSet(q) : q \in Paths}
    BY <1>1, PathFacts
  <2>2. Len(job.data) \in 0 .. EXISTING + 1
    BY <1>4, <1>5, Constants
  <2> HIDE DEF f
  <2> QED BY <1>4, <2>1, <2>2 DEF Entries, Piece
<1>9. Recorded(At(m)) = e
  <2> DEFINE x == FileEntry(Last(job.path))
             y == [x EXCEPT !.first = f, !.size = Len(job.data)]
  <2>1. x \in Entries
    BY <1>3, <1>6, SpotFacts
  <2>2. x.name = Last(job.path) /\ x.dir = FALSE
    BY DEF FileEntry
  <2> HIDE DEF x
  <2>3. y.name = x.name /\ y.dir = x.dir /\ y.first = f /\ y.size = Len(job.data)
    BY <2>1 DEF Entries
  <2>4. y = [name |-> y.name, dir |-> y.dir, first |-> y.first, size |-> y.size]
    <3>1. f \in Cluster \cup {FREE} /\ Len(job.data) \in 0 .. EXISTING + 1
      BY <1>4, <1>5, Constants
    <3> HIDE DEF f
    <3>2. y \in Entries
      BY <2>1, <3>1 DEF Entries
    <3>3. \A z \in Entries : z = [name |-> z.name, dir |-> z.dir, first |-> z.first, size |-> z.size]
      BY DEF Entries
    <3> HIDE DEF y
    <3> QED BY <3>2, <3>3
  <2>5. At(m) = x
    BY <1>6 DEF x
  <2> HIDE DEF m
  <2>6. Recorded(At(m)) = y
    BY <2>5 DEF Recorded
  <2> HIDE DEF y
  <2> QED BY <2>2, <2>3, <2>4, <2>6
<1> HIDE DEF m, d
<1>10. On(sect', m) = e /\ \A l \in Location : l # m => On(sect', l) = On(sect, l)
  BY <1>1, <1>3, <1>6, <1>8, <1>9, PutIs
<1>11. /\ e.name = Last(job.path) /\ e.first = f /\ ~e.dir /\ e.name \notin {Dot, DotDot}
       /\ e.size = Len(job.data) /\ f # FREE
  BY <1>1, <1>4, PathFacts, Constants
<1> HIDE DEF e
<1>12. /\ e # Never /\ Leads(sect', m) /\ ~Named(On(sect', m), Dot)
       /\ Named(On(sect', m), Last(job.path))
  BY <1>8, <1>10, <1>11, Kinds DEF Leads, Named
<1>13. /\ ~Leads(sect, m) /\ On(sect, m) \notin Text /\ On(sect, m) # Never
       /\ ~Named(On(sect, m), Dot) /\ ~Named(On(sect, m), DotDot)
  <2> DEFINE x == FileEntry(Last(job.path))
  <2>1. x.first = FREE /\ x.name = Last(job.path)
    BY DEF FileEntry
  <2>2. x \in Entries
    BY <1>3, <1>6, SpotFacts
  <2>3. Last(job.path) \notin {Dot, DotDot}
    BY <1>1, PathFacts
  <2>4. x \notin Text /\ x # Never
    BY <2>2, FatVolumeAssumption
  <2> HIDE DEF x
  <2>5. On(sect, m) = x
    BY <1>6 DEF x
  <2> QED BY <2>1, <2>3, <2>4, <2>5 DEF Leads, Named
<1>14. EndKept(fat, sect, sect', m)
  BY <1>10, <1>12, <1>13 DEF EndKept
<1>15. m \in Owned \X (1 .. SLOTS) /\ ChainSet(fat, f) \cap Owned = {}
  BY <1>3, <1>4, <1>7
<1>16. \A l \in ChainSet(fat, f) \X (1 .. SLOTS) :
          l \in Location /\ l # m /\ On(sect', l) = On(sect, l)
  <2>1. ChainSet(fat, f) \in SUBSET Cluster
    BY <1>3, ChainFacts
  <2> QED BY <1>10, <1>15, <2>1 DEF Location
<1>17. \A l \in ChainSet(fat, f) \X (1 .. SLOTS) :
          ~Leads(sect', l) /\ ~Named(On(sect', l), Dot)
  BY <1>4, <1>16 DEF Leads, Named, IsEntry
<1>18. \A k \in 1 .. job.done :
          /\ PiecesIn(fat, f)[k] \in ChainSet(fat, f) \X (1 .. SLOTS)
          /\ On(sect', PiecesIn(fat, f)[k]) = IF k <= Len(job.data) THEN job.data[k] ELSE Never
  <2>1. \A k \in 1 .. job.done : PiecesIn(fat, f)[k] \in ChainSet(fat, f) \X (1 .. SLOTS)
    BY <1>3, <1>4, PieceIndex
  <2> QED BY <1>4, <1>16, <2>1
<1> HIDE DEF f
<1>19. \A k \in DOMAIN PiecesIn(fat, f) : k <= Len(job.data) =>
          On(sect', PiecesIn(fat, f)[k]) \in Text
  BY <1>4, <1>5, <1>18
<1>20. \A l \in OwnedIn(fat, sect) \X (1 .. SLOTS) : l # m => On(sect', l) = On(sect, l)
  BY <1>3, <1>10
<1>21. More(fat, sect, fat, sect', m)
  <2>1. m \in OwnedIn(fat, sect) \X (1 .. SLOTS) /\ ChainSet(fat, f) \cap OwnedIn(fat, sect) = {}
    BY <1>3, <1>15
  <2>2. On(sect', m).first = f /\ ~On(sect', m).dir /\ On(sect', m).size = Len(job.data)
    BY <1>10, <1>11
  <2> QED BY <1>4, <1>12, <1>13, <1>14, <1>17, <1>19, <1>20, <2>1, <2>2 DEF More
<1>22. Sound(fat', Virtual') /\ Accounts' /\ Spared
  <2>1. ChainSet(fat, On(sect', m).first) = Held
    BY <1>4, <1>10, <1>11
  <2> QED BY <1>1, <1>5, <1>10, <1>21, <2>1, MoreGood
<1>23. Virtual' = sect' /\ sect' \in Disk
  BY <1>1, VirtualNext
<1>24. PutIn(fat, sect, sect', job.path, m, {})
  <2>1. ClosedIn(fat, sect, {}) /\ {} \in SUBSET Cluster
    BY DEF ClosedIn, LinkIn
  <2> QED BY <1>7, <1>10, <1>12, <1>13, <1>20, <2>1 DEF PutIn, d
<1>25. /\ OpenIn(fat, sect', Way(Front(job.path))) = OpenIn(fat, sect, Way(Front(job.path)))
       /\ DirOf(fat, sect', job.path) = d
  BY <1>1, <1>3, <1>23, <1>24, PutPath DEF d
<1>26. Spot(fat, sect', job.path, m)
  <2>1. PICK k : Hit(sect, PiecesIn(fat, d), Last(job.path), k) /\ PiecesIn(fat, d)[k] = m
    BY <1>6 DEF Spot, d
  <2> QED BY <1>1, <1>3, <1>12, <1>23, <1>24, <2>1, PutSpot DEF Hit, d
<1>27. FindOn(sect', PiecesIn(fat, d), Last(job.path)) = m /\ m # Missing
  BY <1>3, <1>23, <1>25, <1>26, FindSpot
<1>28. ASSUME Blank \notin ToSet(job.path), OpenIn(fat, sect', Way(Front(job.path))).dir
       PROVE  OpenIn(fat, sect', Way(job.path)) = e
  <2> DEFINE F == OpenIn(fat, sect', Way(Front(job.path)))
  <2>1. F \in Opened /\ F.first = d
    BY <1>1, <1>3, <1>25, DirFacts DEF DirOf, d
  <2>2. F # NoEntry
    BY <1>28 DEF NoEntry, FileEntry
  <2>3. OpenIn(fat, sect', Way(job.path)) = FindEntry(fat, sect', F, Last(job.path))
    BY <1>1, <1>28, PathFacts
  <2>4. F.dir
    BY <1>28
  <2> HIDE DEF F
  <2>5. ReadableIn(fat, F) = PiecesIn(fat, d)
    BY <1>3, <2>1, <2>4, ReadFacts
  <2> QED BY <1>10, <1>27, <2>2, <2>3, <2>5 DEF FindEntry
<1>29. ContentsIn(fat, sect', e) = job.data
  <2>1. e \in Opened /\ e.size <= Len(PiecesIn(fat, e.first)) /\ e.first = f
    BY <1>4, <1>8, <1>11 DEF Opened
  <2>2. /\ DOMAIN ReadableIn(fat, e) = 1 .. Len(job.data)
        /\ \A k \in 1 .. Len(job.data) : ReadableIn(fat, e)[k] = PiecesIn(fat, f)[k]
    BY <1>3, <1>11, <2>1, ReadFacts
  <2>3. \A k \in 1 .. Len(job.data) : On(sect', ReadableIn(fat, e)[k]) = job.data[k]
    <3>1. \A k \in 1 .. Len(job.data) : k \in 1 .. job.done /\ k <= Len(job.data)
      BY <1>4, <1>5
    <3> QED BY <1>18, <2>2, <3>1
  <2>4. ContentsIn(fat, sect', e) = [k \in 1 .. Len(job.data) |-> job.data[k]]
    BY <2>2, <2>3 DEF ContentsIn
  <2> QED BY <1>2, <2>4
<1>30. Result(fat', sect', job'.path, job'.data)
  BY <1>1, <1>11, <1>28, <1>29 DEF Result
<1>31. Placed'
  <2>1. Printed'
    BY <1>30, ResultNext
  <2> QED BY <1>1, <1>2, <2>1 DEF Placed
<1> QED BY <1>22, <1>31 DEF Good

\* Whether the entry is found or not.
LEMMA RecordGood ==
    ASSUME Base, Base', Good, PlainNames, Record
    PROVE  Good' /\ Spared
<1>1. CASE Locate(job.path) = Missing
  BY <1>1, LoseGood DEF Record, Removing
<1>2. CASE Locate(job.path) # Missing
  BY <1>2, RecordFound
<1> QED BY <1>1, <1>2

--------------------------------------------------------------------------------
\* The invariant holds of a new volume, and every step keeps it.
LEMMA InitGood ==
    ASSUME Init
    PROVE  Good
<1> DEFINE r == RootDirCluster
<1>1. /\ step = "idle" /\ job = NoJob /\ lost = {} /\ ~Removing
      /\ fat = [c \in Cluster |-> IF c = r THEN EOC ELSE FREE]
      /\ sect = [c \in Cluster |-> [i \in 1 .. SLOTS |-> IF c = r THEN Never ELSE Stale]]
  BY DEF Init, Removing
<1>2. Base
  BY InitBase
<1>3. Virtual = sect /\ sect \in Disk /\ ListsOn(fat) /\ InRange
  BY <1>1, <1>2, BaseRange DEF Virtual, Base, InOrder
<1>4. r \in Cluster /\ fat[r] = EOC /\ EOC \notin Cluster /\ fat[r] \notin Cluster
  BY <1>1, Constants
<1>5. \A i \in 1 .. SLOTS : On(sect, <<r, i>>) = Never
  BY <1>1, <1>4 DEF On
<1> HIDE DEF r
<1>6. LinkIn(sect, {r}) = {}
  <2>1. \A l \in {r} \X (1 .. SLOTS) : On(sect, l) = Never
    BY <1>5
  <2> QED BY <2>1 DEF LinkIn, Leads, IsEntry
<1>7. OwnedIn(fat, sect) = {r}
  <2>1. ClosedIn(fat, sect, {r})
    BY <1>4, <1>6 DEF ClosedIn
  <2>2. OwnedIn(fat, sect) \subseteq {r}
    BY <1>4, <2>1, BelowLeast DEF OwnedIn, r
  <2>3. r \in OwnedIn(fat, sect)
    BY <1>3, OwnedFacts DEF r
  <2> QED BY <2>2, <2>3
<1>8. Unique(fat, sect)
  BY <1>4, <1>6, <1>7 DEF Unique, r
<1>9. Dotted(fat, sect)
  <2>1. \A l \in {r} \X (1 .. SLOTS) : ~Named(On(sect, l), Dot)
    BY <1>5 DEF Named, IsEntry
  <2> QED BY <1>7, <2>1 DEF Dotted
<1>10. Parents(fat, sect) /\ Sized(fat, sect) /\ Texts(fat, sect)
  BY <1>6, <1>7 DEF Parents, Sized, Texts
<1>11. Ended(fat, sect)
  <2>1. DirsIn(fat, sect) = {r}
    BY <1>6, <1>7 DEF DirsIn, r
  <2>2. \A k \in DOMAIN PiecesIn(fat, r) : PiecesIn(fat, r)[k] \in {r} \X (1 .. SLOTS)
    <3>1. ChainSet(fat, r) = {r}
      BY <1>4, OneCluster
    <3> QED BY <1>3, <3>1, PieceIndex
  <2>3. \A k \in DOMAIN PiecesIn(fat, r) : On(sect, PiecesIn(fat, r)[k]) = Never
    BY <1>5, <2>2
  <2> QED BY <2>1, <2>3 DEF Ended
<1>12. Sound(fat, Virtual)
  BY <1>3, <1>8, <1>9, <1>10, <1>11 DEF Sound
<1>13. Accounts
  <2>1. Owned = {r}
    BY <1>3, <1>7, OwnedIs
  <2>2. Held = {}
    BY <1>1, <1>2, HeldIs
  <2>3. FreeClusters = Cluster \ {r}
    BY <1>1, Constants DEF FreeClusters, r
  <2> QED BY <1>1, <1>4, <2>1, <2>2, <2>3 DEF Accounts
<1>14. Placed
  <2>1. <<>> \in Seq(Text)
    OBVIOUS
  <2> QED BY <1>1, <2>1, NoJobIs DEF Placed
<1> QED BY <1>12, <1>13, <1>14 DEF Good

\* A volume that was harmed stays so.
LEMMA HarmStays ==
    ASSUME Next, ~harmed'
    PROVE  ~harmed
<1>1. ASSUME NEW path \in Paths, Touch(path) \/ Mkdir(path) \/ Stray(path) PROVE ~harmed
  BY <1>1 DEF Touch, Mkdir, Stray
<1>2. ASSUME NEW new, Delete(new) PROVE ~harmed
  BY <1>2 DEF Delete
<1>3. ASSUME NEW path \in Paths, Rm(path) PROVE ~harmed
  BY <1>2, <1>3 DEF Rm
<1>4. ASSUME NEW path \in Paths, NEW text \in Text, PrintTo(path, text) \/ PrintAppend(path, text)
      PROVE  ~harmed
  BY <1>2, <1>4 DEF PrintTo, PrintAppend
<1>5. CASE Zero \/ Dots \/ Link \/ Free \/ Erase
  BY <1>5 DEF Zero, Dots, Link, Free, Erase
<1>6. CASE Create \/ Alloc \/ Chain \/ Data \/ Record \/ Report \/ PowerLoss
  BY <1>6 DEF Create, Alloc, Chain, Data, Record, Report, PowerLoss
<1> QED BY <1>1, <1>3, <1>4, <1>5, <1>6 DEF Next

\* Every step keeps Good and spares the files.
LEMMA NextGood ==
    ASSUME Base, Base', Good, PlainNames, Next, ~harmed'
    PROVE  Good' /\ Spared
<1>1. ASSUME NEW path \in Paths, Touch(path) PROVE Good' /\ Spared
  BY <1>1, TouchGood
<1>2. ASSUME NEW path \in Paths, Mkdir(path) PROVE Good' /\ Spared
  BY <1>2, MkdirGood
<1>3. ASSUME NEW path \in Paths, Rm(path) PROVE Good' /\ Spared
  BY <1>3, RmGood
<1>4. ASSUME NEW path \in Paths, Stray(path) PROVE Good' /\ Spared
  BY <1>4, StrayGood
<1>5. ASSUME NEW path \in Paths, NEW text \in Text, PrintTo(path, text) PROVE Good' /\ Spared
  BY <1>5, PrintToGood
<1>6. ASSUME NEW path \in Paths, NEW text \in Text, PrintAppend(path, text) PROVE Good' /\ Spared
  BY <1>6, PrintAppendGood
<1>7. CASE Zero \/ Dots \/ Link \/ Free \/ Erase
  BY <1>7, ZeroGood, LinkGood, FreeGood, EraseGood
<1>8. CASE Create \/ Alloc \/ Chain \/ Data \/ Record \/ Report \/ PowerLoss
  BY <1>8, CreateGood, AllocGood, ChainGood, DataGood, RecordGood, ReportGood, PowerLossGood
<1> QED BY <1>1, <1>2, <1>3, <1>4, <1>5, <1>6, <1>7, <1>8 DEF Next

\* So does none.
LEMMA StutterGood ==
    ASSUME Base, Base', Good, UNCHANGED vars
    PROVE  Good'
<1>1. UNCHANGED <<fat, sect, step, job, lost, harmed>>
  BY DEF vars
<1>2. Quiet
  BY <1>1, VirtualNext DEF Quiet, On, Removing
<1>3. Sound(fat', Virtual') /\ Owned' = Owned /\ Heads' = Heads
  BY <1>2, QuietIs
<1>4. Held' = Held /\ FreeClusters' = FreeClusters
  BY <1>1 DEF Held, FreeClusters, Removing, ChainFrom
<1>5. Accounts'
  BY <1>1, <1>3, <1>4 DEF Good, Accounts
<1>6. Placed'
  <2>1. Printed => Printed'
    BY <1>1, ResultIs, ResultNext
  <2>2. Virtual' = Virtual
    BY <1>1 DEF Virtual, Removing
  <2>3. job'.data \in Seq(Text) /\ step' = step /\ job' = job
    BY <1>1 DEF Good, Placed
  <2>4. CASE Removing \/ step = "create"
    <3>1. FreshIn(fat', Virtual', job'.path)
      BY <1>1, <2>2, <2>4, Zenon DEF Good, Placed
    <3> QED BY <2>3, <2>4, <3>1 DEF Placed, Removing
  <2>5. CASE step \in {"alloc", "chain", "data", "record"}
    <3>1. \E m \in Location : Spot(fat', sect', job'.path, m) /\ On(sect', m) = FileEntry(Last(job'.path))
      BY <1>1, <2>5 DEF Good, Placed
    <3> QED BY <2>3, <2>5, <3>1 DEF Placed, Removing, Spot, DirOf, Way, OpenIn, PiecesIn, ChainIn, On
  <2>6. CASE step \in {"zero", "dots", "link"}
    BY <1>1, <1>3, <2>3, <2>6 DEF Good, Placed, Removing
  <2>7. CASE step = "written"
    BY <2>1, <2>3, <2>7 DEF Good, Placed, Removing
  <2>8. CASE step \in {"idle", "astray"}
    BY <2>3, <2>8 DEF Placed, Removing
  <2> QED BY <2>4, <2>5, <2>6, <2>7, <2>8 DEF Base, InOrder, Steps, Removing
<1> QED BY <1>3, <1>5, <1>6 DEF Good

--------------------------------------------------------------------------------
\* The inductive invariant.
Inv == Base /\ (~harmed => Good)

\* Every step keeps it.
LEMMA StepInv ==
    ASSUME Inv, PlainNames, [Next]_vars
    PROVE  Inv' /\ (~harmed' => Spared \/ UNCHANGED vars)
<1>1. Base /\ Base'
  BY NextBase DEF Inv
<1>2. CASE Next
  BY <1>1, <1>2, HarmStays, NextGood DEF Inv
<1>3. CASE UNCHANGED vars
  BY <1>1, <1>3, StutterGood DEF Inv, vars
<1> QED BY <1>2, <1>3

\* The inductive invariant of the volume and the command at work on it, as long
\* as nobody types names that are the driver's own (fat.c:106-127): of a volume
\* that has not been harmed, Good besides Base.
THEOREM VolumeInvariance ==
    ASSUME PlainNames
    PROVE  Spec => []Inv
<1>1. Init => Inv
  BY InitBase, InitGood DEF Inv
<1>2. Inv /\ [Next]_vars => Inv'
  BY StepInv
<1> QED BY <1>1, <1>2, PTL DEF Spec

\* The part of it that no name endangers: chains are lists, and the command is
\* where its variables say (fat.c:609-883).
THEOREM VolumeBase ==
    Spec => []Base
<1>1. Init => Base
  BY InitBase
<1>2. Base /\ [Next]_vars => Base'
  BY NextBase
<1> QED BY <1>1, <1>2, PTL DEF Spec

\* Table, disk, entries and the running command's variables keep their types,
\* whatever is typed (fat.c:106-127, 609-883).
THEOREM VolumeTyped ==
    Spec => []TypeOK
<1>1. Base => TypeOK
  BY DEF Base, InOrder, TypeOK, Table, Disk, Piece, Marks
<1> QED BY <1>1, VolumeBase, PTL

--------------------------------------------------------------------------------
\* On a good volume no cluster has two owners.
LEMMA GoodOwners ==
    ASSUME Base, Good
    PROVE  \A c \in Cluster : \A p, q \in Owners(c, Owned) : p = q /\ c # RootDirCluster
<1>1. /\ Owned = OwnedIn(fat, Virtual) /\ Links = LinkIn(Virtual, Owned)
      /\ \A l \in Links : At(l) = On(Virtual, l)
  BY BaseRange, OwnedIs
<1>2. Unique(fat, Virtual)
  BY DEF Good, Sound
<1>3. /\ \A k \in Owned : fat[k] # RootDirCluster
      /\ \A l \in Links : At(l).first # RootDirCluster
      /\ \A k, j \in Owned : fat[k] = fat[j] /\ fat[k] \in Cluster => k = j
      /\ \A l, m \in Links : At(l).first = At(m).first => l = m
      /\ \A l \in Links, k \in Owned : At(l).first # fat[k]
  BY <1>1, <1>2 DEF Unique
<1> SUFFICES ASSUME NEW c \in Cluster, NEW p \in Owners(c, Owned), NEW q \in Owners(c, Owned)
             PROVE  p = q /\ c # RootDirCluster
  OBVIOUS
<1>4. (p \in Links /\ At(p).first = c) \/ \E k \in Owned : p = <<k>> /\ fat[k] = c
  BY DEF Owners, Links
<1>5. (q \in Links /\ At(q).first = c) \/ \E k \in Owned : q = <<k>> /\ fat[k] = c
  BY DEF Owners, Links
<1> QED BY <1>3, <1>4, <1>5

\* No cluster is in two chains, and none is the first of two entries, at any
\* write of mkdir, rm and print, unless the volume is harmed (fat.c:214-222, 819-823).
THEOREM ClustersKeepOneOwner ==
    ASSUME PlainNames
    PROVE  Spec => []NoCrossLink
<1>1. Inv => NoCrossLink
  BY GoodOwners DEF Inv, NoCrossLink
<1> QED BY <1>1, VolumeInvariance, PTL

\* At every write each cluster is free, reached from the root, held by the running
\* command, or one of those that are known to be lost, and only one of these,
\* unless the volume is harmed (fat.c:658-883).
THEOREM ClustersStayAccounted ==
    ASSUME PlainNames
    PROVE  Spec => []Accounted
<1>1. Inv => Accounted
  BY DEF Inv, Good, Accounts, Accounted
<1> QED BY <1>1, VolumeInvariance, PTL

\* When "print" has returned TRUE the file is there and reads as the text that
\* was given, all of it and no more, unless the volume is harmed or the path has
\* an empty name in it (fat.c:797-883, 382-433).
THEOREM FilesReadBack ==
    ASSUME PlainNames
    PROVE  Spec => []ReadBack
<1>1. Inv => ReadBack
  BY DEF Inv, Good, Placed, Printed, ReadBack
<1> QED BY <1>1, VolumeInvariance, PTL

\* What Virtual has and is not erased is on the disk.
LEMMA VirtualKept ==
    ASSUME Base
    PROVE  /\ \A l \in Location : On(Virtual, l) # Erased => At(l) = On(Virtual, l)
           /\ \A l \in Location : At(l) = Never => On(Virtual, l) = Never
           /\ \A l \in Location : On(Virtual, l) = Never => At(l) = Never
<1>1. /\ \A l \in Location : ~(Removing /\ l = job.at) => On(Virtual, l) = On(sect, l)
      /\ Removing => On(Virtual, job.at) = Erased
  BY BaseRange, VirtualIs
<1>2. Removing => On(sect, job.at) # Never
  BY DEF Base, Unlinking
<1>3. \A l : At(l) = On(sect, l)
  BY ReadsAre
<1> QED BY <1>1, <1>2, <1>3, Constants

\* On a good volume chains fit the sizes.
LEMMA GoodSizes ==
    ASSUME Base, Good
    PROVE  \A l \in Links : ~At(l).dir =>
              LET n == Len(ChainFrom(At(l).first))
              IN  (n - 1) * SLOTS < At(l).size /\ At(l).size <= n * SLOTS
<1>1. /\ Owned = OwnedIn(fat, Virtual) /\ Links = LinkIn(Virtual, Owned)
      /\ \A l \in Links : At(l) = On(Virtual, l)
  BY BaseRange, OwnedIs
<1>2. Sized(fat, Virtual)
  BY DEF Good, Sound
<1>3. \A c : ChainFrom(c) = ChainIn(fat, c)
  BY ReadsAre
<1> QED BY <1>1, <1>2, <1>3 DEF Sized

\* On a good volume directories have their own two entries and their end.
LEMMA GoodDirs ==
    ASSUME Base, Good
    PROVE  /\ \A l \in Links : At(l).dir =>
                 /\ sect[At(l).first][1] = DirEntry(Dot, At(l).first)
                 /\ \E h \in Heads : /\ sect[At(l).first][2] = DirEntry(DotDot, h)
                                     /\ l[1] \in ToSet(ChainFrom(h))
           /\ \A d \in Directories : \A i, k \in DOMAIN Pieces(d) :
                 i < k /\ At(Pieces(d)[i]) = Never => At(Pieces(d)[k]) = Never
<1>1. /\ Owned = OwnedIn(fat, Virtual) /\ Links = LinkIn(Virtual, Owned)
      /\ \A l \in Links : At(l) = On(Virtual, l)
      /\ Heads = HeadsIn(fat, Virtual) /\ Directories = DirsIn(fat, Virtual)
      /\ ListsOn(fat) /\ Virtual \in Disk
  BY BaseRange, OwnedIs, Apart
<1>2. Parents(fat, Virtual) /\ Ended(fat, Virtual)
  BY DEF Good, Sound
<1>3. \A c : ChainFrom(c) = ChainIn(fat, c) /\ Pieces(c) = PiecesIn(fat, c)
  BY ReadsAre, SMTT(30)
<1>4. ASSUME NEW l \in Links, At(l).dir
      PROVE  /\ sect[At(l).first][1] = DirEntry(Dot, At(l).first)
             /\ \E h \in Heads : /\ sect[At(l).first][2] = DirEntry(DotDot, h)
                                 /\ l[1] \in ToSet(ChainFrom(h))
  <2> DEFINE c == At(l).first
  <2>1. /\ On(Virtual, <<c, 1>>) = DirEntry(Dot, c)
        /\ \E h \in Heads : On(Virtual, <<c, 2>>) = DirEntry(DotDot, h) /\ l[1] \in ChainSet(fat, h)
    BY <1>1, <1>2, <1>4 DEF Parents
  <2>2. c \in Heads
    BY <1>1 DEF HeadsIn
  <2>3. c \in Cluster /\ Heads \subseteq Cluster
    BY <1>1, <2>2, HeadFacts
  <2>4. <<c, 1>> \in Location /\ <<c, 2>> \in Location
    BY <2>3, Constants DEF Location
  <2> HIDE DEF c
  <2>5. \A h \in Heads : DirEntry(DotDot, h) # Erased
    BY <2>3, OwnEntries, FatVolumeAssumption
  <2>6. DirEntry(Dot, c) # Erased
    BY <2>3, OwnEntries, FatVolumeAssumption
  <2>7. At(<<c, 1>>) = DirEntry(Dot, c)
    BY <2>1, <2>4, <2>6, VirtualKept
  <2>8. PICK h \in Heads : On(Virtual, <<c, 2>>) = DirEntry(DotDot, h) /\ l[1] \in ChainSet(fat, h)
    BY <2>1
  <2>9. At(<<c, 2>>) = DirEntry(DotDot, h)
    BY <2>4, <2>5, <2>8, VirtualKept
  <2> QED BY <1>3, <2>7, <2>8, <2>9 DEF At, ChainSet, c
<1>5. ASSUME NEW d \in Directories, NEW i \in DOMAIN Pieces(d), NEW k \in DOMAIN Pieces(d),
             i < k, At(Pieces(d)[i]) = Never
      PROVE  At(Pieces(d)[k]) = Never
  <2>1. Pieces(d)[i] \in Location /\ Pieces(d)[k] \in Location
    BY <1>1, <1>3, PieceIndex
  <2>2. On(Virtual, Pieces(d)[i]) = Never
    BY <1>5, <2>1, VirtualKept
  <2>3. On(Virtual, Pieces(d)[k]) = Never
    BY <1>1, <1>2, <1>3, <1>5, <2>2 DEF Ended
  <2> QED BY <2>1, <2>3, VirtualKept
<1> QED BY <1>4, <1>5

\* At every write the chains of files are as long as their sizes ask for,
\* directories hold themselves and their parents, and nothing lies behind their
\* end marks, unless the volume is harmed (fat.c:609-883).
THEOREM EntriesStaySound ==
    ASSUME PlainNames
    PROVE  Spec => []EntriesSound
<1>1. Inv => SizeCovered /\ DirsSound
  BY GoodSizes, GoodDirs DEF Inv, SizeCovered, DirsSound
<1>2. Spec => []TypeOK
  BY VolumeTyped
<1> QED BY <1>1, <1>2, VolumeInvariance, PTL DEF EntriesSound

--------------------------------------------------------------------------------
\* Files that are spared are the same, but for the clusters that get lost.
LEMMA SparedFiles ==
    ASSUME Base, Good, Spared
    PROVE  \A l \in {l \in Links : ~At(l).dir} :
              /\ l[1] \in lost' \/ At(l)' = At(l)
              /\ \A p \in ToSet(Readable(At(l))) :
                    p[1] \in lost' \/ (fat'[p[1]] = fat[p[1]] /\ At(p)' = At(p))
<1>1. /\ Owned = OwnedIn(fat, Virtual) /\ Links = LinkIn(Virtual, Owned)
      /\ \A l \in Links : At(l) = On(Virtual, l)
      /\ Heads = HeadsIn(fat, Virtual) /\ ListsOn(fat) /\ Virtual \in Disk
      /\ Owned \X (1 .. SLOTS) \subseteq Location
  BY BaseRange, OwnedIs, Apart
<1>2. Texts(fat, Virtual)
  BY DEF Good, Sound
<1>3. (\A l : At(l) = On(sect, l)) /\ \A l : At(l)' = On(sect', l)
  BY ReadsAre, ReadsNext
<1>4. \A e : Readable(e) = ReadableIn(fat, e)
  BY ReadsAre
<1> SUFFICES ASSUME NEW l \in Links, ~At(l).dir
             PROVE  /\ l[1] \in lost' \/ At(l)' = At(l)
                    /\ \A p \in ToSet(Readable(At(l))) :
                          p[1] \in lost' \/ (fat'[p[1]] = fat[p[1]] /\ At(p)' = At(p))
  OBVIOUS
<1> DEFINE e == At(l)
<1>5. e = On(Virtual, l) /\ l \in Owned \X (1 .. SLOTS) /\ Leads(Virtual, l) /\ ~e.dir
  BY <1>1 DEF LinkIn
<1>6. l[1] \in lost' \/ At(l)' = At(l)
  BY <1>3, <1>5 DEF Spared
<1>7. e.first \in Heads
  BY <1>1, <1>5 DEF HeadsIn
<1>8. e \in Opened
  <2>1. On(Virtual, l) \in Piece
    BY <1>1, <1>5, OnPiece
  <2>2. e \in Entries
    BY <1>5, <2>1, Kinds DEF Leads
  <2> QED BY <2>2 DEF Opened
<1>9. ChainSet(fat, e.first) \subseteq Owned
  BY <1>1, <1>7, HeadFacts
<1> HIDE DEF e
<1>10. ASSUME NEW p \in ToSet(Readable(e))
       PROVE  p[1] \in lost' \/ (fat'[p[1]] = fat[p[1]] /\ At(p)' = At(p))
  <2>1. PICK k \in DOMAIN ReadableIn(fat, e) : p = ReadableIn(fat, e)[k]
    BY <1>4 DEF ToSet
  <2>2. k \in DOMAIN PiecesIn(fat, e.first) /\ p = PiecesIn(fat, e.first)[k] /\ k <= e.size
    BY <1>1, <1>5, <1>8, <2>1, ReadFacts
  <2>3. On(Virtual, p) \in Text
    BY <1>1, <1>2, <1>5, <2>2 DEF Texts
  <2>4. p \in Owned \X (1 .. SLOTS)
    BY <1>1, <1>9, <2>2, PieceIndex
  <2>5. ~Leads(Virtual, p) \/ On(Virtual, p) \in Text
    BY <2>3
  <2> QED BY <1>3, <2>3, <2>4 DEF Spared
<1> QED BY <1>6, <1>10 DEF e

\* No write of a command changes the entry, the chain or the text of a file
\* that it does not remove: unless the volume is harmed, what changes is in
\* clusters that got lost (fat.c:609-883).
THEOREM OthersStayUntouched ==
    ASSUME PlainNames
    PROVE  Spec => OthersUntouched
<1> DEFINE A == \A l \in {l \in Links : ~At(l).dir} :
                   /\ l[1] \in lost' \/ At(l)' = At(l)
                   /\ \A p \in ToSet(Readable(At(l))) :
                         p[1] \in lost' \/ (fat'[p[1]] = fat[p[1]] /\ At(p)' = At(p))
<1>1. Inv /\ [Next]_vars => [~harmed' => A]_vars
  <2> SUFFICES ASSUME Inv, Next, ~harmed' PROVE A \/ UNCHANGED vars
    OBVIOUS
  <2>1. Base /\ Good
    BY HarmStays DEF Inv
  <2>2. Spared \/ UNCHANGED vars
    BY StepInv
  <2> QED BY <2>1, <2>2, SparedFiles
<1> QED BY <1>1, VolumeInvariance, PTL DEF Spec, OthersUntouched
================================================================================
