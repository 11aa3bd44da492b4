------------------------------ MODULE DiskProofs ------------------------------
(******************************************************************************)
(* Proofs about what lies below the files.  First the window over the         *)
(* allocation table (FatTable), for every sector size, window size and length *)
(* of the table: a window that was read without an error holds what the disk  *)
(* holds; a change is made to both; so every later answer taken from the      *)
(* window is the disk's, wherever the window sits.  Then the driver of the    *)
(* disk (Ata), for every size of the disk, of its sectors and of the calls,   *)
(* and every limit of the poll.                                               *)
(******************************************************************************)
EXTENDS FatTable, Ata, TLAPS

\* The window: its types, and what it holds while nothing has failed.
TableInv == TableTypeOK /\ Coherent

\* Every entry lies in a sector of the area, at an offset of that sector.
LEMMA EntryPlace ==
    ASSUME NEW k \in Cluster
    PROVE  /\ SectorOf(k) \in 0 .. LastSector
           /\ OffsetOf(k) \in Offset
           /\ LastSector \in Nat
<1>1. PER_SECTOR \in Nat /\ PER_SECTOR > 0 /\ total_clusters \in Nat /\ total_clusters > 2
  BY FatTableAssumption
<1>2. k \in Nat /\ k <= total_clusters - 1 /\ total_clusters - 1 \in Nat
  BY <1>1 DEF Cluster
<1>3. k % PER_SECTOR \in 0 .. PER_SECTOR - 1
  BY <1>1, <1>2
<1>4. k \div PER_SECTOR \in Nat /\ (total_clusters - 1) \div PER_SECTOR \in Nat
  BY <1>1, <1>2
<1>5. k \div PER_SECTOR <= (total_clusters - 1) \div PER_SECTOR
  BY <1>1, <1>2
<1> QED BY <1>3, <1>4, <1>5 DEF SectorOf, OffsetOf, Offset, LastSector

\* A window that covers an entry: its place and shape, and, when nothing has
\* failed, its contents.
LEMMA WindowIs ==
    ASSUME TableInv, NEW k \in Cluster, NEW w \in Windows(SectorOf(k))
    PROVE  /\ w = [pos |-> w.pos, cache |-> w.cache, ok |-> w.ok]
           /\ w.pos \in 0 .. LastSector
           /\ w.cache \in [Slice -> [Offset -> Value]]
           /\ w.ok \in BOOLEAN
           /\ SectorOf(k) - w.pos \in Slice
           /\ ~failed /\ w.ok => \A j \in Slice : w.cache[j] = fat[w.pos + j]
<1>1. /\ FAT_CACHE_SIZE \in Nat /\ FAT_CACHE_SIZE > 0
      /\ SectorOf(k) \in 0 .. LastSector /\ LastSector \in Nat
  BY FatTableAssumption, EntryPlace
<1>2. CASE Covered(SectorOf(k))
  <2>1. w = [pos |-> FatCachePosition, cache |-> FatCache, ok |-> TRUE]
    BY <1>2 DEF Windows
  <2>2. FatCachePosition \in 0 .. LastSector /\ SectorOf(k) - FatCachePosition \in Slice
    BY <1>1, <1>2 DEF Covered, TableInv, TableTypeOK, Slice
  <2> QED BY <1>2, <2>1, <2>2 DEF Covered, TableInv, TableTypeOK, Coherent
<1>3. CASE ~Covered(SectorOf(k))
  <2>1. PICK n \in Transferred :
          w = [pos   |-> SectorOf(k),
               cache |-> [j \in Slice |-> IF j < n THEN fat[SectorOf(k) + j] ELSE FatCache[j]],
               ok    |-> n = FAT_CACHE_SIZE]
    BY <1>3 DEF Windows
  <2>2. \A j \in Slice : SectorOf(k) + j \in Area
    BY <1>1 DEF Slice, Area
  <2>3. w.cache \in [Slice -> [Offset -> Value]]
    BY <2>1, <2>2 DEF TableInv, TableTypeOK
  <2>4. ASSUME w.ok PROVE \A j \in Slice : w.cache[j] = fat[w.pos + j]
    <3>1. w.ok = (n = FAT_CACHE_SIZE)
      BY <2>1
    <3>2. n = FAT_CACHE_SIZE
      BY <2>4, <3>1, Zenon
    <3>3. \A j \in Slice : j < n
      BY <1>1, <3>2 DEF Slice
    <3> QED BY <2>1, <3>3
  <2> QED BY <1>1, <2>1, <2>3, <2>4 DEF Slice
<1> QED BY <1>2, <1>3

\* fat_set_cluster keeps the window and the disk equal, and on the disk changes
\* the one entry it is about.
LEMMA StoreKeeps ==
    ASSUME TableInv, NEW k \in Cluster, NEW v \in Value, NEW w \in Windows(SectorOf(k)),
           StoreEntry(w, k, v)
    PROVE  /\ fat' \in [Area -> [Offset -> Value]]
           /\ FatCachePosition' \in 0 .. LastSector
           /\ FatCache' \in [Slice -> [Offset -> Value]]
           /\ failed' \in BOOLEAN
           /\ Coherent'
           /\ ~failed' => fat' = [fat EXCEPT ![SectorOf(k)][OffsetOf(k)] = v]
<1>1. /\ w = [pos |-> w.pos, cache |-> w.cache, ok |-> w.ok]
      /\ w.pos \in 0 .. LastSector
      /\ w.cache \in [Slice -> [Offset -> Value]]
      /\ w.ok \in BOOLEAN
      /\ SectorOf(k) - w.pos \in Slice
      /\ ~failed /\ w.ok => \A j \in Slice : w.cache[j] = fat[w.pos + j]
  BY WindowIs
<1>2. /\ FAT_CACHE_SIZE \in Nat /\ FAT_CACHE_SIZE > 0
      /\ SectorOf(k) \in 0 .. LastSector /\ LastSector \in Nat
      /\ OffsetOf(k) \in Offset
      /\ fat \in [Area -> [Offset -> Value]] /\ failed \in BOOLEAN
  BY FatTableAssumption, EntryPlace DEF TableInv, TableTypeOK
<1> DEFINE new == [w.cache EXCEPT ![SectorOf(k) - w.pos][OffsetOf(k)] = v]
<1>3. Changed(w, k, v).pos = w.pos /\ Changed(w, k, v).cache = new
  BY <1>1 DEF Changed
<1>4. new \in [Slice -> [Offset -> Value]]
  BY <1>1, <1>2
<1>5. PICK n \in Transferred :
        /\ FatCachePosition' = w.pos
        /\ FatCache' = new
        /\ fat' = [q \in Area |-> IF w.pos <= q /\ q < w.pos + n
                                  THEN new[q - w.pos] ELSE fat[q]]
        /\ failed' = (failed \/ ~w.ok \/ n < FAT_CACHE_SIZE)
  BY <1>3 DEF StoreEntry, UseWindow, WriteBack
<1>6. n \in 0 .. FAT_CACHE_SIZE
  BY <1>2 DEF Transferred
<1> HIDE DEF new
<1>7. fat' \in [Area -> [Offset -> Value]]
  <2> SUFFICES ASSUME NEW q \in Area, w.pos <= q, q < w.pos + n
               PROVE  new[q - w.pos] \in [Offset -> Value]
    BY <1>2, <1>5
  <2>1. q - w.pos \in Slice
    BY <1>1, <1>2, <1>6 DEF Area, Slice
  <2> QED BY <1>4, <2>1
<1>8. ~failed' => n = FAT_CACHE_SIZE /\ ~failed /\ w.ok
  <2>1. ~failed' => ~failed /\ w.ok /\ ~(n < FAT_CACHE_SIZE)
    BY <1>5, Zenon
  <2>2. ~(n < FAT_CACHE_SIZE) => n = FAT_CACHE_SIZE
    BY <1>2, <1>6
  <2> QED BY <2>1, <2>2, Zenon
<1>9. Coherent'
  <2> SUFFICES ASSUME ~failed', NEW j \in Slice
               PROVE  new[j] = fat'[w.pos + j]
    BY <1>5 DEF Coherent
  <2>1. w.pos + j \in Area /\ w.pos <= w.pos + j /\ w.pos + j < w.pos + n
        /\ (w.pos + j) - w.pos = j
    BY <1>1, <1>2, <1>8 DEF Area, Slice
  <2> QED BY <1>5, <2>1
<1>10. ASSUME ~failed'
       PROVE  fat' = [fat EXCEPT ![SectorOf(k)][OffsetOf(k)] = v]
  <2>1. \A j \in Slice : w.cache[j] = fat[w.pos + j]
    BY <1>1, <1>8, <1>10
  <2>2. SectorOf(k) \in Area
    BY <1>2 DEF Area
  <2> SUFFICES ASSUME NEW q \in Area
               PROVE  fat'[q] = IF q = SectorOf(k)
                                THEN [fat[q] EXCEPT ![OffsetOf(k)] = v] ELSE fat[q]
    BY <1>2, <1>5, <2>2
  <2>3. CASE w.pos <= q /\ q < w.pos + n
    <3>1. q - w.pos \in Slice /\ w.pos + (q - w.pos) = q
      BY <1>1, <1>2, <1>6, <2>3 DEF Area, Slice
    <3>2. fat'[q] = new[q - w.pos] /\ w.cache[q - w.pos] = fat[q]
      BY <1>5, <2>1, <2>3, <3>1
    <3>3. q - w.pos = SectorOf(k) - w.pos <=> q = SectorOf(k)
      BY <1>1, <1>2 DEF Area
    <3>4. new[q - w.pos] = IF q - w.pos = SectorOf(k) - w.pos
                           THEN [w.cache[q - w.pos] EXCEPT ![OffsetOf(k)] = v]
                           ELSE w.cache[q - w.pos]
      BY <1>1, <3>1 DEF new
    <3> QED BY <3>2, <3>3, <3>4
  <2>4. CASE ~(w.pos <= q /\ q < w.pos + n)
    <3>1. q # SectorOf(k)
      BY <1>1, <1>2, <1>8, <1>10, <2>4 DEF Slice
    <3> QED BY <1>5, <2>4, <3>1
  <2> QED BY <2>3, <2>4
<1> QED BY <1>1, <1>2, <1>4, <1>5, <1>7, <1>9, <1>10

\* fat_next_cluster, and a turn of the search that takes nothing: the window may
\* move, the disk does not change, and the entry is the disk's.
LEMMA LookKeeps ==
    ASSUME TableInv, NEW k \in Cluster, NEW w \in Windows(SectorOf(k)),
           UseWindow(w), failed' = (failed \/ ~w.ok), fat' = fat
    PROVE  /\ FatCachePosition' \in 0 .. LastSector
           /\ FatCache' \in [Slice -> [Offset -> Value]]
           /\ failed' \in BOOLEAN
           /\ Coherent'
<1>1. /\ w.pos \in 0 .. LastSector
      /\ w.cache \in [Slice -> [Offset -> Value]]
      /\ w.ok \in BOOLEAN
      /\ ~failed /\ w.ok => \A j \in Slice : w.cache[j] = fat[w.pos + j]
  BY WindowIs
<1>2. ~failed' => ~failed /\ w.ok
  BY Zenon
<1>3. failed' \in BOOLEAN
  OBVIOUS
<1> QED BY <1>1, <1>2, <1>3 DEF UseWindow, Coherent

LEMMA EntryIs ==
    ASSUME TableInv, NEW k \in Cluster, NEW w \in Windows(SectorOf(k))
    PROVE  /\ Entry(w, k) \in Value
           /\ ~failed /\ w.ok => Entry(w, k) = OnDisk(k)
<1>1. /\ w.pos \in 0 .. LastSector
      /\ w.cache \in [Slice -> [Offset -> Value]]
      /\ SectorOf(k) - w.pos \in Slice
      /\ ~failed /\ w.ok => \A j \in Slice : w.cache[j] = fat[w.pos + j]
  BY WindowIs
<1>2. SectorOf(k) \in 0 .. LastSector /\ LastSector \in Nat /\ OffsetOf(k) \in Offset
  BY EntryPlace
<1>3. w.pos + (SectorOf(k) - w.pos) = SectorOf(k)
  BY <1>1, <1>2
<1> QED BY <1>1, <1>2, <1>3 DEF Entry, OnDisk

LEMMA TableInitial == TableInit => TableInv
<1> SUFFICES ASSUME TableInit PROVE TableInv
  OBVIOUS
<1>1. FREE \in Value /\ total_clusters \in Nat /\ total_clusters > 2 /\ Nowhere \notin Nat
  BY FatTableAssumption
<1>2. TableTypeOK
  <2>1. FatCache \in [Slice -> [Offset -> Value]]
    BY <1>1 DEF TableInit
  <2>2. c \in 2 .. total_clusters /\ returned \in Value \cup Cluster
    BY <1>1 DEF TableInit, Cluster
  <2> QED BY <2>1, <2>2 DEF TableInit, TableTypeOK
<1>3. Coherent
  BY DEF TableInit, Coherent
<1> QED BY <1>2, <1>3 DEF TableInv

LEMMA TableInductive == TableInv /\ [TableNext]_tableVars => TableInv'
<1> SUFFICES ASSUME TableInv, [TableNext]_tableVars PROVE TableInv'
  OBVIOUS
<1> USE DEF TableInv
<1>1. ASSUME NEW k \in Cluster, fat_next_cluster(k)
      PROVE  TableInv'
  <2>1. PICK w \in Windows(SectorOf(k)) :
           /\ UseWindow(w)
           /\ returned' = Entry(w, k)
           /\ failed' = (failed \/ ~w.ok)
    BY <1>1 DEF fat_next_cluster
  <2>2. UNCHANGED <<fat, at, c>>
    BY <1>1 DEF fat_next_cluster
  <2> QED BY <2>1, <2>2, LookKeeps, EntryIs DEF TableTypeOK
<1>2. ASSUME NEW k \in Cluster, NEW v \in Value, fat_set_cluster(k, v)
      PROVE  TableInv'
  <2>1. PICK w \in Windows(SectorOf(k)) : StoreEntry(w, k, v)
    BY <1>2 DEF fat_set_cluster
  <2>2. UNCHANGED <<at, c, returned>>
    BY <1>2 DEF fat_set_cluster
  <2> QED BY <2>1, <2>2, StoreKeeps DEF TableTypeOK
<1>3. CASE fat_alloc_cluster
  BY <1>3, FatTableAssumption DEF fat_alloc_cluster, TableTypeOK, Coherent
<1>4. CASE ScanNext
  <2>1. c \in Cluster /\ c \in Nat /\ c + 1 \in 2 .. total_clusters
    BY <1>4, FatTableAssumption DEF ScanNext, ScanLimit, TableTypeOK, Cluster
  <2>2. PICK w \in Windows(SectorOf(c)) :
           IF Entry(w, c) = FREE
           THEN /\ StoreEntry(w, c, EOC)
                /\ returned' = c
                /\ at' = "idle"
                /\ UNCHANGED c
           ELSE /\ UseWindow(w)
                /\ failed' = (failed \/ ~w.ok)
                /\ c' = c + 1
                /\ UNCHANGED <<fat, returned, at>>
    BY <1>4 DEF ScanNext
  <2>3. CASE Entry(w, c) = FREE
    <3>1. StoreEntry(w, c, EOC) /\ returned' = c /\ at' = "idle" /\ c' = c
      BY <2>2, <2>3
    <3>2. EOC \in Value
      BY FatTableAssumption
    <3> QED BY <2>1, <3>1, <3>2, StoreKeeps DEF TableTypeOK
  <2>4. CASE Entry(w, c) # FREE
    <3>1. /\ UseWindow(w) /\ failed' = (failed \/ ~w.ok)
          /\ c' = c + 1 /\ fat' = fat /\ returned' = returned /\ at' = at
      BY <2>2, <2>4
    <3> QED BY <2>1, <3>1, LookKeeps DEF TableTypeOK
  <2> QED BY <2>3, <2>4
<1>5. CASE ScanEnd
  <2>1. 0 \in Cluster
    BY FatTableAssumption DEF Cluster
  <2> QED BY <1>5, <2>1 DEF ScanEnd, TableTypeOK, Coherent
<1>6. CASE UNCHANGED tableVars
  BY <1>6 DEF tableVars, TableTypeOK, Coherent
<1> QED BY <1>1, <1>2, <1>3, <1>4, <1>5, <1>6 DEF TableNext

\* Types, and a window that equals the disk, on a disk that may fail
\* (fat.c:162-224).
THEOREM TableInvariance == TableSpec => []TableInv
BY TableInitial, TableInductive, PTL DEF TableSpec

\* Entries, window and loop counter keep their types, disk errors or not.
THEOREM TableTypeCorrect == TableSpec => []TableTypeOK
BY TableInvariance, PTL DEF TableInv

\* While no transfer fails the window equals the disk at its position
\* (fat.c:182-211).
THEOREM WindowCoherent == TableSpec => []Coherent
BY TableInvariance, PTL DEF TableInv

\* Writing the window back never changes a sector behind the last entry
\* (fat.c:172-175, 210), unless a transfer failed.
THEOREM NothingBehindChanges == TableSpec => BehindUntouched
<1>1. ASSUME TableInv, [TableNext]_tableVars, ~failed', NEW q \in Area, q > LastSector
      PROVE  fat'[q] = fat[q]
  <2>1. ASSUME NEW k \in Cluster, NEW v \in Value, NEW w \in Windows(SectorOf(k)),
               StoreEntry(w, k, v)
        PROVE  fat'[q] = fat[q]
    <3>1. fat' = [fat EXCEPT ![SectorOf(k)][OffsetOf(k)] = v]
      BY <1>1, <2>1, StoreKeeps
    <3>2. q # SectorOf(k)
      BY <1>1, EntryPlace DEF Area
    <3> QED BY <1>1, <3>1, <3>2 DEF TableInv, TableTypeOK
  <2>2. CASE ScanNext
    <3>1. c \in Cluster
      BY <1>1, <2>2, FatTableAssumption DEF ScanNext, ScanLimit, TableInv, TableTypeOK, Cluster
    <3>2. EOC \in Value
      BY FatTableAssumption
    <3> QED BY <2>1, <2>2, <3>1, <3>2 DEF ScanNext
  <2>3. CASE fat_alloc_cluster \/ ScanEnd \/ UNCHANGED tableVars
    BY <2>3 DEF fat_alloc_cluster, ScanEnd, tableVars
  <2>4. ASSUME NEW k \in Cluster, fat_next_cluster(k)
        PROVE  fat'[q] = fat[q]
    BY <2>4 DEF fat_next_cluster
  <2>5. ASSUME NEW k \in Cluster, NEW v \in Value, fat_set_cluster(k, v)
        PROVE  fat'[q] = fat[q]
    BY <2>1, <2>5 DEF fat_set_cluster
  <2> QED BY <1>1, <2>2, <2>3, <2>4, <2>5 DEF TableNext
<1>2. TableInv /\ [TableNext]_tableVars
        => (~failed' => \A q \in Area : q > LastSector => fat'[q] = fat[q])
  BY <1>1
<1> QED BY <1>2, TableInvariance, PTL DEF TableSpec, BehindUntouched

\* On a disk that does not fail: nothing has failed, and the search has passed
\* no free cluster.
Passed ==
    /\ ~failed
    /\ at = "scan" => \A d \in Cluster : 2 <= d /\ d < c => OnDisk(d) # FREE

\* Two clusters have their entries in different places.
LEMMA PlacesDiffer ==
    ASSUME NEW k \in Cluster, NEW d \in Cluster,
           SectorOf(d) = SectorOf(k), OffsetOf(d) = OffsetOf(k)
    PROVE  d = k
<1>1. PER_SECTOR \in Nat /\ PER_SECTOR > 0 /\ total_clusters \in Nat
  BY FatTableAssumption
<1>2. k \in Nat /\ d \in Nat
  BY <1>1 DEF Cluster
<1>3. k = PER_SECTOR * (k \div PER_SECTOR) + (k % PER_SECTOR)
  BY <1>1, <1>2
<1>4. d = PER_SECTOR * (d \div PER_SECTOR) + (d % PER_SECTOR)
  BY <1>1, <1>2
<1>5. k \div PER_SECTOR = d \div PER_SECTOR /\ k % PER_SECTOR = d % PER_SECTOR
  BY DEF SectorOf, OffsetOf
<1> QED BY <1>3, <1>4, <1>5

\* On the disk, storing an entry changes that entry and no other.
LEMMA StoreSets ==
    ASSUME TableInv, NEW k \in Cluster, NEW v \in Value, NEW w \in Windows(SectorOf(k)),
           StoreEntry(w, k, v), ~failed', NEW d \in Cluster
    PROVE  OnDisk(d)' = IF d = k THEN v ELSE OnDisk(d)
<1>1. fat' = [fat EXCEPT ![SectorOf(k)][OffsetOf(k)] = v]
  BY StoreKeeps
<1>2. /\ SectorOf(k) \in Area /\ OffsetOf(k) \in Offset
      /\ SectorOf(d) \in Area /\ OffsetOf(d) \in Offset
  BY EntryPlace, FatTableAssumption DEF Area
<1>3. fat \in [Area -> [Offset -> Value]]
  BY DEF TableInv, TableTypeOK
<1>4. CASE d = k
  BY <1>1, <1>2, <1>3, <1>4 DEF OnDisk
<1>5. CASE d # k
  <2>1. SectorOf(d) # SectorOf(k) \/ OffsetOf(d) # OffsetOf(k)
    BY <1>5, PlacesDiffer
  <2> QED BY <1>1, <1>2, <1>3, <1>5, <2>1 DEF OnDisk
<1> QED BY <1>4, <1>5

\* On a disk that does not fail, a window is read whole.
LEMMA AllRead ==
    ASSUME Errors = FALSE, NEW q
    PROVE  \A w \in Windows(q) : w.ok = TRUE
<1> SUFFICES ASSUME NEW w \in Windows(q) PROVE w.ok = TRUE
  OBVIOUS
<1>1. Transferred = {FAT_CACHE_SIZE}
  BY DEF Transferred
<1>2. CASE Covered(q)
  BY <1>2 DEF Windows
<1>3. CASE ~Covered(q)
  <2>1. PICK n \in Transferred : w.ok = (n = FAT_CACHE_SIZE)
    BY <1>3 DEF Windows
  <2>2. n = FAT_CACHE_SIZE
    BY <1>1
  <2> QED BY <2>1, <2>2, Zenon
<1> QED BY <1>2, <1>3

\* The same of storing an entry.
LEMMA AllWritten ==
    ASSUME Errors = FALSE, ~failed, TableInv, NEW k \in Cluster, NEW v \in Value,
           NEW w \in Windows(SectorOf(k)), StoreEntry(w, k, v)
    PROVE  ~failed'
<1>1. w.ok = TRUE
  BY AllRead
<1>2. PICK n \in Transferred : failed' = (failed \/ ~w.ok \/ n < FAT_CACHE_SIZE)
  BY DEF StoreEntry
<1>3. ~(n < FAT_CACHE_SIZE)
  BY <1>2, FatTableAssumption DEF Transferred
<1> QED BY <1>1, <1>2, <1>3, Zenon

LEMMA InitPassed == TableInit => Passed
BY DEF TableInit, Passed

\* Each step on a disk that does not fail is a step of the map, or none that
\* shows, and the search goes on.
LEMMA StepMaps ==
    ASSUME Errors = FALSE, TableInv, Passed, [TableNext]_tableVars
    PROVE  Passed' /\ [Map!Next]_(Map!mapVars)
<1> DEFINE tab == [k \in Cluster |-> OnDisk(k)]
<1>1. ASSUME fat' = fat PROVE tab' = tab /\ \A d \in Cluster : OnDisk(d)' = OnDisk(d)
  BY <1>1 DEF OnDisk
<1>2. ASSUME NEW k \in Cluster, NEW w \in Windows(SectorOf(k)),
             UseWindow(w), failed' = (failed \/ ~w.ok)
      PROVE  ~failed' /\ Entry(w, k) = OnDisk(k)
  <2>1. w.ok = TRUE
    BY AllRead
  <2>2. Entry(w, k) = OnDisk(k)
    BY <2>1, EntryIs DEF Passed
  <2> QED BY <1>2, <2>1, <2>2, Zenon DEF Passed
<1>3. ASSUME NEW k \in Cluster, NEW v \in Value, NEW w \in Windows(SectorOf(k)),
             StoreEntry(w, k, v)
      PROVE  ~failed' /\ tab' = [tab EXCEPT ![k] = v]
  <2>1. ~failed'
    BY <1>3, AllWritten DEF Passed
  <2>2. \A d \in Cluster : OnDisk(d)' = IF d = k THEN v ELSE OnDisk(d)
    BY <1>3, <2>1, StoreSets
  <2> QED BY <2>1, <2>2
<1>4. ASSUME NEW k \in Cluster, fat_next_cluster(k)
      PROVE  Passed' /\ Map!NextOf(k)
  <2>1. PICK w \in Windows(SectorOf(k)) :
           /\ UseWindow(w)
           /\ returned' = Entry(w, k)
           /\ failed' = (failed \/ ~w.ok)
    BY <1>4 DEF fat_next_cluster
  <2>2. fat' = fat /\ at' = "idle"
    BY <1>4 DEF fat_next_cluster
  <2>3. ~failed' /\ returned' = tab[k]
    BY <1>2, <2>1
  <2> QED BY <1>1, <2>2, <2>3 DEF Passed, Map!NextOf
<1>5. ASSUME NEW k \in Cluster, NEW v \in Value, fat_set_cluster(k, v)
      PROVE  Passed' /\ Map!Set(k, v)
  <2>1. ~failed' /\ tab' = [tab EXCEPT ![k] = v]
    BY <1>3, <1>5 DEF fat_set_cluster
  <2>2. at' = "idle" /\ returned' = returned
    BY <1>5 DEF fat_set_cluster
  <2> QED BY <2>1, <2>2 DEF Passed, Map!Set
<1>6. CASE fat_alloc_cluster
  <2>1. fat' = fat /\ returned' = returned /\ failed' = failed /\ c' = 2
    BY <1>6 DEF fat_alloc_cluster
  <2>2. \A d \in Cluster : ~(2 <= d /\ d < 2)
    BY FatTableAssumption DEF Cluster
  <2> QED BY <1>1, <2>1, <2>2 DEF Passed, Map!mapVars
<1>7. CASE ScanNext
  <2>1. /\ at = "scan" /\ c \in Cluster /\ c \in Nat /\ 2 <= c
        /\ total_clusters \in Nat /\ c < total_clusters
    BY <1>7, FatTableAssumption DEF ScanNext, ScanLimit, TableInv, TableTypeOK, Cluster
  <2>2. \A d \in Cluster : 2 <= d /\ d < c => tab[d] # FREE
    BY <2>1 DEF Passed
  <2>3. PICK w \in Windows(SectorOf(c)) :
           IF Entry(w, c) = FREE
           THEN /\ StoreEntry(w, c, EOC)
                /\ returned' = c
                /\ at' = "idle"
                /\ UNCHANGED c
           ELSE /\ UseWindow(w)
                /\ failed' = (failed \/ ~w.ok)
                /\ c' = c + 1
                /\ UNCHANGED <<fat, returned, at>>
    BY <1>7 DEF ScanNext
  <2>4. w.ok = TRUE
    BY AllRead
  <2>5. Entry(w, c) = OnDisk(c)
    BY <2>1, <2>4, EntryIs DEF Passed
  <2>6. CASE Entry(w, c) = FREE
    <3>1. StoreEntry(w, c, EOC) /\ returned' = c /\ at' = "idle"
      BY <2>3, <2>6
    <3>2. EOC \in Value
      BY FatTableAssumption
    <3>3. ~failed' /\ tab' = [tab EXCEPT ![c] = EOC]
      BY <1>3, <2>1, <3>1, <3>2
    <3>4. c \in Map!Free
      BY <2>1, <2>5, <2>6 DEF Map!Free
    <3>5. \A d \in Map!Free : c <= d
      BY <2>1, <2>2, FatTableAssumption DEF Map!Free, Cluster
    <3>6. Map!Alloc
      BY <3>1, <3>3, <3>4, <3>5 DEF Map!Alloc
    <3> QED BY <3>1, <3>3, <3>6 DEF Passed, Map!Next
  <2>7. CASE Entry(w, c) # FREE
    <3>1. /\ UseWindow(w) /\ failed' = (failed \/ ~w.ok)
          /\ c' = c + 1 /\ fat' = fat /\ returned' = returned /\ at' = at
      BY <2>3, <2>7
    <3>2. ~failed'
      BY <1>2, <2>1, <3>1
    <3>3. \A d \in Cluster : 2 <= d /\ d < c' => OnDisk(d)' # FREE
      <4> SUFFICES ASSUME NEW d \in Cluster, 2 <= d, d < c + 1
                   PROVE  OnDisk(d) # FREE
        BY <1>1, <3>1
      <4>1. d < c \/ d = c
        BY <2>1, FatTableAssumption DEF Cluster
      <4> QED BY <2>2, <2>5, <2>7, <4>1
    <3> QED BY <1>1, <3>1, <3>2, <3>3 DEF Passed, Map!mapVars
  <2> QED BY <2>6, <2>7
<1>8. CASE ScanEnd
  <2>1. /\ fat' = fat /\ returned' = 0 /\ failed' = failed /\ at' = "idle"
        /\ at = "scan" /\ c >= total_clusters
    BY <1>8 DEF ScanEnd, ScanLimit
  <2>2. Map!Free = {}
    BY <2>1, FatTableAssumption DEF Map!Free, Passed, Cluster, TableInv, TableTypeOK
  <2> QED BY <1>1, <2>1, <2>2 DEF Passed, Map!AllocFails, Map!Next
<1>9. CASE UNCHANGED tableVars
  BY <1>1, <1>9 DEF tableVars, Passed, Map!mapVars
<1> QED BY <1>4, <1>5, <1>6, <1>7, <1>8, <1>9 DEF TableNext, Map!Next

\* A disk that does not fail: the window does not show.  The driver's calls are
\* those of a map, and an allocation takes the lowest free cluster
\* (fat.c:182-224).
THEOREM TableIsMap ==
    ASSUME Errors = FALSE
    PROVE  TableSpec => IsMap
<1>1. TableInit => Map!Init
  <2> SUFFICES ASSUME TableInit PROVE Map!Init
    OBVIOUS
  <2>1. TableInv
    BY TableInitial
  <2>2. \A k \in Cluster : OnDisk(k) \in Value
    <3> SUFFICES ASSUME NEW k \in Cluster PROVE OnDisk(k) \in Value
      OBVIOUS
    <3>1. SectorOf(k) \in Area /\ OffsetOf(k) \in Offset
      BY EntryPlace, FatTableAssumption DEF Area
    <3> QED BY <2>1, <3>1 DEF OnDisk, TableInv, TableTypeOK
  <2> QED BY <2>2 DEF TableInit, Map!Init
<1>2. TableInv /\ Passed /\ [TableNext]_tableVars => Passed' /\ [Map!Next]_(Map!mapVars)
  BY StepMaps
<1> QED BY <1>1, <1>2, InitPassed, TableInvariance, PTL DEF TableSpec, IsMap, Map!Spec

\* On such a disk the cluster that fat_alloc_cluster returns was free
\* (fat.c:213-224).
THEOREM FindsFree ==
    ASSUME Errors = FALSE
    PROVE  TableSpec => AllocFindsFree
<1>1. ASSUME TableInv, Passed, [TableNext]_tableVars, Allocates
      PROVE  OnDisk(returned') = FREE
  <2>1. ScanNext \/ ScanEnd
    BY <1>1 DEF TableNext, Allocates, tableVars, fat_next_cluster, fat_set_cluster, fat_alloc_cluster
  <2>2. ScanNext
    BY <1>1, <2>1 DEF Allocates, ScanEnd
  <2>3. c \in Cluster
    BY <1>1, <2>2, FatTableAssumption DEF ScanNext, ScanLimit, TableInv, TableTypeOK, Cluster
  <2>4. PICK w \in Windows(SectorOf(c)) : Entry(w, c) = FREE /\ returned' = c
    BY <1>1, <2>2 DEF ScanNext, Allocates
  <2>5. w.ok = TRUE
    BY AllRead
  <2> QED BY <1>1, <2>3, <2>4, <2>5, EntryIs DEF Passed
<1>2. TableInv /\ Passed /\ [TableNext]_tableVars => (Allocates => OnDisk(returned') = FREE)
  BY <1>1
<1>3. TableInv /\ Passed /\ [TableNext]_tableVars => Passed'
  BY StepMaps
<1> QED BY <1>2, <1>3, InitPassed, TableInvariance, PTL DEF TableSpec, AllocFindsFree

--------------------------------------------------------------------------------
\* The types of the state.
Shape ==
    /\ TypeOK
    /\ kind \in {"none", "atapi", "prompt", "slow"}
    /\ bsy \in BOOLEAN /\ err \in BOOLEAN /\ overtaken \in BOOLEAN
    /\ todo \in [cmd : {"none", "identify", "read", "write", "flush"}, lba : Nat, left : Nat]
    /\ regs \in [lba : Nat, left : Nat]
    /\ sector \in [0 .. WORDS - 1 -> Word]
    /\ call \in [op : {"identify", "read", "write"}, lba : Sector, count : 1 .. MaxCount]
    /\ answer \in {"none", "yes", "no"}

\* The drive: what its phases mean.  Only a disk works, and one that is prompt
\* shows it; with an error it is idle; and it is past the last word of a sector
\* only between taking it and putting it down.
DriveSound ==
    /\ kind \in {"none", "atapi"} => phase = "idle"
    /\ err => phase = "idle"
    /\ kind = "prompt" /\ phase = "work" => bsy
    /\ phase = "in" => todo.cmd \in {"identify", "read"}
    /\ phase = "out" => todo.cmd = "write"
    /\ phase = "in" /\ todo.cmd = "read" => todo.lba \in Sector /\ sector = disk[todo.lba]
    /\ word = WORDS => phase = "idle" \/ (phase = "work" /\ todo.cmd = "write")

\* The driver: what its places mean.
Loops ==
    /\ pc = "idle" <=> answer # "none"
    /\ pc \in {"identify", "status"} => call.op = "identify"
    /\ pc \in {"bsy", "select", "command", "sector"} => call.op # "identify"
    /\ pc \in {"flush", "flushed"} => call.op = "write" /\ s = call.count - 1
    /\ pc # "data" => i = 0
    /\ pc \in {"bsy", "select", "command"} \/ call.op = "identify" => s = 0
    /\ s < call.count

\* The sector of the call that the drive is at.
Reached == todo.lba - call.lba

\* As long as no call has left the drive behind, both are at the same command and
\* sector, but that the drive may still have to put down the one before.
InStep ==
    ~overtaken =>
    /\ pc \in {"identify", "idle", "bsy", "select", "command"} => phase = "idle"
    /\ pc = "command" => regs = [lba |-> call.lba, left |-> call.count]
    /\ pc \in {"status", "sector", "drq", "data"} /\ phase # "idle" => todo.cmd = call.op
    /\ pc \in {"flush", "flushed"} /\ phase # "idle" =>
         phase = "work" /\ (todo.cmd = "flush" \/ (todo.cmd = "write" /\ word = WORDS))
    /\ phase # "idle" /\ todo.cmd \in {"read", "write"} =>
         /\ Reached \in Nat
         /\ todo.left = call.count - Reached
         /\ Reached = IF word = WORDS /\ pc \in {"sector", "drq"} THEN s - 1 ELSE s
    /\ pc = "data" => phase \in {"in", "out"} /\ word = i
    /\ pc \in {"status", "sector", "drq"} /\ phase # "idle" /\ word # WORDS => word = 0
    /\ pc = "drq" /\ phase = "work" => kind = "slow"

\* The word w of the sector m of the call is the same on the disk and in memory.
Same(m, w) ==
    call.lba + m \in Sector /\ buf[m * WORDS + w] = disk[call.lba + m][w]

\* How many sectors of a write are put down, of those that are sure to be.
Put == IF word = WORDS /\ pc \in {"sector", "drq"} THEN s - 1 ELSE s

\* What a call has moved so far.
Progress ==
    ~overtaken /\ pc # "idle" =>
    /\ call.op = "read" =>
         /\ \A m \in 0 .. s - 1 : \A w \in 0 .. WORDS - 1 : Same(m, w)
         /\ \A w \in 0 .. i - 1 : Same(s, w)
    /\ call.op = "write" => \A m \in 0 .. Put - 1 : \A w \in 0 .. WORDS - 1 : Same(m, w)
    /\ phase = "out" /\ pc = "data" => \A w \in 0 .. i - 1 : sector[w] = buf[s * WORDS + w]
    /\ phase = "work" /\ word = WORDS =>
         \A w \in 0 .. WORDS - 1 : sector[w] = buf[Reached * WORDS + w]

IInv == Shape /\ DriveSound /\ Loops /\ InStep /\ NeverOvertakes /\ Progress

\* What a step has to be for the calls to be transfers.
MapStep == [overtaken' \/ T!Next]_(T!transferVars)

--------------------------------------------------------------------------------
\* A place in memory is a sector and a word of it.
LEMMA PlaceOf ==
    ASSUME NEW m \in Nat, NEW w \in 0 .. WORDS - 1
    PROVE  /\ m * WORDS + w \in Nat
           /\ (m * WORDS + w) \div WORDS = m
           /\ (m * WORDS + w) % WORDS = w
           /\ \A n \in Nat : m < n => m * WORDS + w < n * WORDS
<1>1. WORDS \in Nat /\ WORDS > 0 /\ w \in Nat /\ w < WORDS
  BY AtaAssumption
<1>2. m * WORDS \in Nat
  BY <1>1
<1>3. (m * WORDS + w) \div WORDS = m /\ (m * WORDS + w) % WORDS = w
  <2> DEFINE e == m * WORDS + w
             q == e \div WORDS
  <2>1. e \in Nat /\ q \in Nat /\ e = q * WORDS + (e % WORDS) /\ e % WORDS \in 0 .. WORDS - 1
    BY <1>1, <1>2
  <2>2. q < m => q * WORDS + WORDS <= m * WORDS
    BY <1>1, <2>1
  <2>3. m < q => m * WORDS + WORDS <= q * WORDS
    BY <1>1, <2>1
  <2>4. q * WORDS \in Nat
    BY <1>1, <2>1
  <2>5. q = m
    <3>1. ~(q < m)
      BY <1>1, <1>2, <2>1, <2>2, <2>4
    <3>2. ~(m < q)
      BY <1>1, <1>2, <2>1, <2>3, <2>4
    <3> QED BY <2>1, <3>1, <3>2
  <2>6. e % WORDS = w
    BY <1>1, <1>2, <2>1, <2>5
  <2> QED BY <2>5, <2>6
<1>4. ASSUME NEW n \in Nat, m < n PROVE m * WORDS + w < n * WORDS
  <2>1. m * WORDS + WORDS <= n * WORDS
    BY <1>1, <1>4
  <2> QED BY <1>1, <1>2, <2>1
<1> QED BY <1>1, <1>2, <1>3, <1>4

LEMMA OfPlace ==
    ASSUME NEW n \in Nat, NEW j \in 0 .. n * WORDS - 1
    PROVE  /\ j \div WORDS \in 0 .. n - 1
           /\ j % WORDS \in 0 .. WORDS - 1
           /\ j = (j \div WORDS) * WORDS + (j % WORDS)
<1>1. WORDS \in Nat /\ WORDS > 0 /\ j \in Nat /\ n * WORDS \in Nat /\ j < n * WORDS
  BY AtaAssumption
<1>2. /\ j % WORDS \in 0 .. WORDS - 1 /\ j \div WORDS \in Nat
      /\ j = (j \div WORDS) * WORDS + (j % WORDS)
  BY <1>1
<1>3. (j \div WORDS) < n
  <2>1. CASE n <= j \div WORDS
    <3>1. n * WORDS <= (j \div WORDS) * WORDS
      BY <1>1, <1>2, <2>1
    <3> QED BY <1>1, <1>2, <3>1
  <2> QED BY <1>2, <2>1
<1> QED BY <1>2, <1>3

LEMMA Bounds ==
    ASSUME Shape, Loops
    PROVE  /\ WORDS \in Nat /\ WORDS > 0 /\ s \in Nat /\ i \in 0 .. WORDS - 1
           /\ Where \in 0 .. MaxCount * WORDS - 1
           /\ call.count \in 1 .. MaxCount /\ call.lba \in Nat /\ s < call.count
<1>1. /\ WORDS \in Nat /\ WORDS > 0 /\ s \in Nat /\ i \in 0 .. WORDS - 1
      /\ MaxCount \in Nat /\ s < MaxCount
      /\ call.count \in 1 .. MaxCount /\ call.lba \in Nat /\ s < call.count
  <2>1. /\ s \in 0 .. MaxCount - 1 /\ i \in 0 .. WORDS - 1 /\ s < call.count
        /\ call \in [op : {"identify", "read", "write"}, lba : Sector, count : 1 .. MaxCount]
    BY Zenon DEF Shape, TypeOK, Loops
  <2>2. /\ WORDS \in Nat \ {0} /\ MaxCount \in Nat \ {0} /\ SECTORS \in Nat \ {0}
    BY AtaAssumption
  <2>3. call.count \in 1 .. MaxCount /\ call.lba \in Sector
    BY <2>1
  <2>4. call.lba \in Nat
    BY <2>2, <2>3 DEF Sector
  <2> QED BY <2>1, <2>2, <2>3, <2>4
<1>2. s * WORDS + i \in Nat /\ s * WORDS + i < MaxCount * WORDS
  BY <1>1, PlaceOf
<1> QED BY <1>1, <1>2 DEF Where

LEMMA NoCommandTyped ==
    NoCommand \in [cmd : {"none", "identify", "read", "write", "flush"}, lba : Nat, left : Nat]
BY DEF NoCommand

LEMMA InitIInv == Init => IInv
<1> SUFFICES ASSUME Init PROVE IInv
  OBVIOUS
<1> USE DEF Init
<1>1. /\ {SECTORS, WORDS, MaxCount, POLLS} \subseteq Nat \ {0}
      /\ 0 \in Sector /\ Nothing \in Word
  BY AtaAssumption DEF Sector, Word
<1>2. disk \in [Sector -> [0 .. WORDS - 1 -> Word]]
  BY DEF Word
<1>3. TypeOK
  BY <1>1, <1>2 DEF TypeOK, Places
<1>4. Shape
  <2>1. call \in [op : {"identify", "read", "write"}, lba : Sector, count : 1 .. MaxCount]
    BY <1>1
  <2>2. todo \in [cmd : {"none", "identify", "read", "write", "flush"}, lba : Nat, left : Nat]
    BY DEF NoCommand
  <2>3. regs \in [lba : Nat, left : Nat] /\ sector \in [0 .. WORDS - 1 -> Word]
    BY <1>1
  <2> QED BY <1>3, <2>1, <2>2, <2>3 DEF Shape
<1>5. DriveSound /\ NeverOvertakes
  BY <1>1 DEF DriveSound, NeverOvertakes
<1>6. Loops
  BY <1>1 DEF Loops
<1>7. InStep
  BY <1>1 DEF InStep
<1>8. Progress
  BY <1>1 DEF Progress
<1> QED BY <1>4, <1>5, <1>6, <1>7, <1>8 DEF IInv

LEMMA QuietMap ==
    ASSUME UNCHANGED <<disk, buf, call>>,
           answer' = answer \/ (call.op = "identify" /\ call'.op = "identify")
    PROVE  MapStep
BY DEF MapStep, T!transferVars

\* What a step keeps that moves no word and leaves the driver where it is.
LEMMA ProgressKept ==
    ASSUME Progress, UNCHANGED <<disk, buf, call, s, i, pc>>, overtaken' = overtaken,
           phase' = "work" /\ word = WORDS => phase = "work" /\ todo' = todo /\ sector' = sector,
           phase' = "out" /\ pc = "data" => overtaken \/ (phase = "out" /\ sector' = sector),
           word' = word
    PROVE  Progress'
BY DEF Progress, Same, Put, Reached

\* The drive shows that it is busy, or works on anything but a sector put down.
LEMMA StepDrive ==
    ASSUME IInv, ShowsBusy \/ (Work /\ ~PutDown), UNCHANGED <<pc, call, buf, s, i, polls, answer, overtaken>>
    PROVE  IInv' /\ MapStep
<1> USE DEF IInv
<1>1. /\ disk' = disk /\ kind' = kind /\ regs' = regs /\ word' = word
      /\ phase = "work"
  BY DEF ShowsBusy, Work, Fetch, Ask, Flush, Fails
<1>2. MapStep
  BY <1>1, QuietMap
<1>3. Shape'
  <2>1. sector' \in [0 .. WORDS - 1 -> Word]
    <3>1. Nothing \in Word
      BY DEF Word
    <3> QED BY <3>1 DEF Shape, TypeOK, ShowsBusy, Work, Fetch, Ask, Flush, Fails
  <2>2. TypeOK' /\ err' \in BOOLEAN /\ bsy' \in BOOLEAN
    <3>1. /\ phase' \in {"idle", "work", "in", "out"} /\ bsy' \in BOOLEAN
          /\ bsy' => phase' = "work"
          /\ err' = err \/ err' = TRUE
      BY <1>1 DEF ShowsBusy, Work, Fetch, Ask, Flush, Fails
    <3>2. TypeOK /\ err \in BOOLEAN
      BY DEF Shape
    <3> QED BY <1>1, <3>1, <3>2 DEF TypeOK
  <2>3. todo' \in [cmd : {"none", "identify", "read", "write", "flush"}, lba : Nat, left : Nat]
    BY DEF Shape, ShowsBusy, Work, Fetch, Ask, Flush, Fails, NoCommand
  <2> QED BY <1>1, <2>1, <2>2, <2>3 DEF Shape
<1>4. DriveSound'
  <2>1. WORDS # 0 /\ err \in BOOLEAN
    BY AtaAssumption DEF Shape
  <2> QED BY <1>1, <2>1 DEF DriveSound, ShowsBusy, Work, Fetch, Ask, Flush, Fails
<1>5. Loops' /\ NeverOvertakes'
  BY <1>1 DEF Loops, NeverOvertakes
<1>6. InStep'
  <2>1. WORDS # 0
    BY AtaAssumption
  <2>2. \/ phase' = "idle"
        \/ /\ todo' = todo
           /\ \/ phase' = "work"
              \/ phase' = "in" /\ todo.cmd \in {"identify", "read"}
              \/ phase' = "out" /\ todo.cmd = "write" /\ word = 0
    BY <1>1 DEF ShowsBusy, Work, Fetch, Ask, Flush, Fails
  <2>3. CASE phase' = "idle"
    BY <1>1, <2>3 DEF InStep
  <2>4. CASE phase' # "idle"
    BY <1>1, <2>1, <2>2, <2>4 DEF InStep, Reached
  <2> QED BY <2>3, <2>4
<1>7. Progress'
  <2>1. phase' = "work" => todo' = todo /\ sector' = sector
    BY DEF ShowsBusy, Work, Fetch, Ask, Flush, Fails
  <2>2. pc = "data" => overtaken
    BY <1>1 DEF InStep
  <2> QED BY <1>1, <2>1, <2>2, ProgressKept
<1> QED BY <1>2, <1>3, <1>4, <1>5, <1>6, <1>7

\* The drive puts down a sector that it was given: the words of the sector of the
\* call that it has reached, and no other.
LEMMA StepPutDown ==
    ASSUME IInv, Work, PutDown, UNCHANGED <<pc, call, buf, s, i, polls, answer, overtaken>>
    PROVE  IInv' /\ MapStep
<1> USE DEF IInv
<1>1. /\ phase = "work" /\ todo.cmd = "write" /\ word = WORDS /\ bsy' = FALSE
      /\ kind' = kind /\ regs' = regs /\ sector' = sector /\ word' \in {0, WORDS}
      /\ WORDS \in Nat /\ WORDS > 0
  BY AtaAssumption DEF Work, PutDown, Fails, Fetch, Ask, Flush
<1>2. Loops' /\ NeverOvertakes'
  BY <1>1 DEF Loops, NeverOvertakes
<1>3. CASE phase' = "idle" /\ err' = TRUE /\ todo' = NoCommand /\ disk' = disk /\ word' = word
  <2>1. Shape'
    BY <1>1, <1>3 DEF Shape, TypeOK, NoCommand
  <2>2. DriveSound' /\ InStep'
    BY <1>1, <1>3 DEF DriveSound, InStep
  <2>3. Progress'
    BY <1>1, <1>3, ProgressKept
  <2>4. MapStep
    BY <1>3, QuietMap
  <2> QED BY <1>2, <2>1, <2>2, <2>3, <2>4
<1>4. CASE /\ todo.lba \in Sector
           /\ disk' = [disk EXCEPT ![todo.lba] = sector]
           /\ word' = 0 /\ err' = err
           /\ IF todo.left > 1
              THEN /\ todo' = [todo EXCEPT !.lba = @ + 1, !.left = @ - 1]
                   /\ phase' = "out"
              ELSE todo' = NoCommand /\ phase' = "idle"
  <2>0. /\ todo.lba \in Nat /\ todo.left \in Nat /\ phase' \in {"out", "idle"}
        /\ phase' = "idle" => ~(todo.left > 1) /\ todo' = NoCommand
        /\ phase' = "out" => /\ todo.left > 1
                             /\ todo' = [cmd |-> "write", lba |-> todo.lba + 1, left |-> todo.left - 1]
    BY <1>1, <1>4 DEF Shape
  <2>1. Shape'
    <3>1. disk' \in [Sector -> [0 .. WORDS - 1 -> Word]]
      BY <1>4 DEF Shape, TypeOK
    <3>2. TypeOK'
      BY <1>1, <1>4, <3>1 DEF Shape, TypeOK
    <3>3. todo' \in [cmd : {"none", "identify", "read", "write", "flush"}, lba : Nat, left : Nat]
      BY <2>0, NoCommandTyped
    <3> QED BY <1>1, <1>4, <3>2, <3>3 DEF Shape
  <2>2. DriveSound'
    BY <1>1, <1>4, <2>0 DEF Shape, DriveSound
  <2>a. /\ WORDS \in Nat /\ s \in Nat /\ call.count \in 1 .. MaxCount /\ call.lba \in Nat
        /\ s < call.count /\ todo.lba \in Nat /\ todo.left \in Nat
    BY <2>0, Bounds
  <2>b. /\ call.op \in {"identify", "read", "write"}
        /\ pc \in {"flush", "flushed"} => call.op = "write" /\ s = call.count - 1
        /\ pc = "idle" <=> answer # "none"
        /\ pc \in {"identify", "status"} => call.op = "identify"
        /\ pc \in {"bsy", "select", "command", "sector"} => call.op # "identify"
        /\ pc \in Places
    BY DEF Shape, TypeOK, Loops
  <2>3. ~overtaken =>
          /\ call.op = "write" /\ pc \in {"sector", "drq", "flush", "flushed"}
          /\ Reached = Put /\ Reached \in Nat /\ todo.left = call.count - Reached
          /\ s \in Nat /\ call.lba \in Nat /\ call.count \in 1 .. MaxCount /\ s < call.count
          /\ todo.lba = call.lba + Reached /\ todo.lba \in Nat /\ Reached < call.count
          /\ pc \in {"flush", "flushed"} => Reached = s /\ todo.left = 1
          /\ pc \in {"sector", "drq"} => Reached = s - 1 /\ todo.left > 1
    BY <1>1, <2>a, <2>b DEF Places, InStep, Put, Reached
  <2>4. InStep'
    <3> SUFFICES ASSUME ~overtaken PROVE InStep'
      BY DEF InStep
    <3>1. CASE phase' = "idle"
      BY <1>1, <1>4, <2>3, <3>1 DEF InStep
    <3>2. CASE phase' = "out"
      <4>1. /\ pc \in {"sector", "drq"} /\ todo'.cmd = "write" /\ s \in Nat
            /\ todo'.left = call.count - s /\ Reached' = s
        BY <2>0, <2>3, <3>2 DEF Reached
      <4> QED BY <1>1, <1>4, <2>3, <3>2, <4>1 DEF InStep
    <3> QED BY <2>0, <3>1, <3>2
  <2>5. ASSUME ~overtaken, NEW w \in 0 .. WORDS - 1
        PROVE  disk'[todo.lba][w] = buf[Reached * WORDS + w]
    BY <1>1, <1>4, <2>3, <2>5 DEF Shape, TypeOK, Progress, Loops
  <2>6. Progress'
    <3> SUFFICES ASSUME ~overtaken PROVE Progress'
      BY DEF Progress
    <3>1. Put' = s /\ phase' # "work" /\ ~(phase' = "out" /\ pc = "data")
      BY <1>1, <1>4, <2>3 DEF Put
    <3>2. ASSUME NEW m \in 0 .. s - 1, NEW w \in 0 .. WORDS - 1 PROVE Same(m, w)'
      <4>1. CASE m < Put
        <5>1. Same(m, w)
          BY <2>3, <3>2, <4>1 DEF Progress, Put
        <5>2. call.lba + m # todo.lba
          BY <2>3, <4>1
        <5> QED BY <1>4, <5>1, <5>2 DEF Same, Shape, TypeOK
      <4>2. CASE ~(m < Put)
        <5>1. m = Reached
          BY <2>3, <4>2, <1>1
        <5> QED BY <1>4, <2>3, <2>5, <5>1 DEF Same
      <4> QED BY <4>1, <4>2
    <3> QED BY <2>3, <3>1, <3>2 DEF Progress
  <2>7. MapStep
    <3> SUFFICES ASSUME ~overtaken PROVE T!Step
      BY DEF MapStep, T!Next
    <3>1. ASSUME NEW l \in Sector, NEW w \in 0 .. WORDS - 1
          PROVE  \/ disk'[l][w] = disk[l][w]
                 \/ \E j \in T!Asked(call.count) :
                        T!SectorOf(j) = l /\ j % WORDS = w /\ disk'[l][w] = buf[j]
      <4>1. CASE l # todo.lba
        BY <1>4, <4>1 DEF Shape, TypeOK
      <4>2. CASE l = todo.lba
        <5> DEFINE j == Reached * WORDS + w
        <5>1. /\ j \in Nat /\ j \div WORDS = Reached /\ j % WORDS = w
              /\ j < call.count * WORDS
          BY <2>3, PlaceOf
        <5>2. T!SectorOf(j) = l
          BY <2>3, <4>2, <5>1 DEF T!SectorOf
        <5>3. call.count * WORDS \in Nat
          BY <1>1, <2>3
        <5>4. j \in T!Asked(call.count)
          BY <5>1, <5>2, <5>3 DEF T!Asked
        <5>5. disk'[l][w] = buf[j]
          BY <2>5, <4>2
        <5> HIDE DEF j
        <5> QED BY <5>1, <5>2, <5>4, <5>5
      <4> QED BY <4>1, <4>2
    <3>2. T!Move
      BY <2>3, <3>1 DEF T!Move
    <3>3. answer = "none"
      BY <2>3 DEF Loops
    <3> QED BY <2>3, <3>2, <3>3 DEF T!Step
  <2> QED BY <1>2, <2>1, <2>2, <2>4, <2>6, <2>7
<1> QED BY <1>1, <1>3, <1>4 DEF Work, PutDown, Fails, Fetch, Ask, Flush

\* The drive takes a command only when it is idle, and then begins anew.
LEMMA GiveEffect ==
    ASSUME Shape, DriveSound, NEW cmd \in {"identify", "read", "write", "flush"}, Give(cmd)
    PROVE  /\ disk' = disk /\ sector' = sector /\ regs' = regs /\ kind' = kind
           /\ DriveSound'
           /\ todo' \in [cmd : {"none", "identify", "read", "write", "flush"}, lba : Nat, left : Nat]
           /\ phase' \in {"idle", "work", "in", "out"} /\ word' \in 0 .. WORDS
           /\ bsy' \in BOOLEAN /\ err' \in BOOLEAN /\ (bsy' => phase' = "work")
           /\ phase # "idle" => UNCHANGED <<phase, bsy, err, todo, word>>
           /\ phase = "idle" =>
                 \/ phase' = "idle"
                 \/ /\ phase' = "work" /\ word' = 0
                    /\ todo' = [cmd |-> cmd, lba |-> regs.lba, left |-> regs.left]
<1>1. disk' = disk /\ sector' = sector /\ regs' = regs /\ kind' = kind /\ WORDS \in Nat /\ WORDS > 0
  BY AtaAssumption DEF Give
<1>2. CASE UNCHANGED <<phase, bsy, err, todo, word>> /\ (phase # "idle" \/ phase' = "idle")
  BY <1>1, <1>2 DEF Shape, TypeOK, DriveSound
<1>3. CASE /\ phase = "idle" /\ kind # "none" /\ word' = 0
           /\ todo' = [cmd |-> cmd, lba |-> regs.lba, left |-> regs.left]
           /\ err' = (kind = "atapi")
           /\ phase' = IF kind = "atapi" THEN "idle" ELSE "work"
           /\ bsy' \in IF kind = "slow" THEN BOOLEAN ELSE {kind = "prompt"}
  <2>1. regs.lba \in Nat /\ regs.left \in Nat
    BY DEF Shape
  <2>2. todo' \in [cmd : {"none", "identify", "read", "write", "flush"}, lba : Nat, left : Nat]
    BY <1>3, <2>1
  <2>3. /\ bsy' \in BOOLEAN /\ err' \in BOOLEAN /\ (bsy' => phase' = "work")
        /\ (kind = "prompt" => bsy')
    BY <1>3, Zenon DEF Shape
  <2>4. /\ kind' = kind /\ kind # "none" /\ phase' \in {"idle", "work"}
        /\ err' => kind = "atapi"
        /\ kind = "atapi" => phase' = "idle"
    BY <1>1, <1>3, Zenon
  <2>5. DriveSound'
    <3>1. word' # WORDS
      BY <1>1, <1>3
    <3> QED BY <2>3, <2>4, <3>1, Zenon DEF DriveSound
  <2> QED BY <1>1, <1>3, <2>2, <2>3, <2>5
<1> QED BY <1>2, <1>3 DEF Give

LEMMA StepInitialize == IInv /\ ATA_Initialize => IInv' /\ MapStep
<1> SUFFICES ASSUME IInv, ATA_Initialize PROVE IInv' /\ MapStep
  OBVIOUS
<1> USE DEF IInv
<1>1. /\ pc = "identify" /\ pc' = "status" /\ Give("identify")
      /\ UNCHANGED <<call, buf, s, i, polls, answer, overtaken>>
      /\ call.op = "identify" /\ WORDS \in Nat /\ WORDS > 0
  BY AtaAssumption DEF ATA_Initialize, Loops
<1>2. /\ disk' = disk /\ sector' = sector /\ regs' = regs /\ kind' = kind /\ DriveSound'
      /\ todo' \in [cmd : {"none", "identify", "read", "write", "flush"}, lba : Nat, left : Nat]
      /\ phase' \in {"idle", "work", "in", "out"} /\ word' \in 0 .. WORDS
      /\ bsy' \in BOOLEAN /\ err' \in BOOLEAN /\ (bsy' => phase' = "work")
      /\ ~overtaken => phase' = "idle" \/ (phase' = "work" /\ word' = 0 /\ todo'.cmd = "identify")
  BY <1>1, GiveEffect DEF InStep
<1>3. Shape'
  BY <1>1, <1>2 DEF Shape, TypeOK, Places
<1>4. Loops' /\ NeverOvertakes' /\ InStep'
  BY <1>1, <1>2 DEF Loops, NeverOvertakes, InStep
<1>5. Progress'
  BY <1>1, <1>2 DEF Progress
<1>6. MapStep
  BY <1>1, <1>2, QuietMap
<1> QED BY <1>2, <1>3, <1>4, <1>5, <1>6

\* A step of the driver that leaves the drive and the memory alone keeps what has
\* been moved, whatever place it goes to but the data.
LEMMA ProgressMoves ==
    ASSUME Progress, UNCHANGED <<disk, buf, call, s, phase, word, todo, sector, overtaken>>,
           pc # "idle", i' = 0, i = 0, Put' = Put
    PROVE  Progress'
BY DEF Progress, Same, Reached

LEMMA StepStatus == IInv /\ IdentifyStatus => IInv' /\ MapStep
<1> SUFFICES ASSUME IInv, IdentifyStatus PROVE IInv' /\ MapStep
  OBVIOUS
<1> USE DEF IInv
<1>1. /\ pc = "status" /\ UNCHANGED driveVars /\ ~bsy /\ UNCHANGED <<call, buf, s, i, polls>>
      /\ call.op = "identify" /\ i = 0 /\ s = 0
  BY DEF IdentifyStatus, Loops
<1>2. /\ overtaken' = overtaken
      /\ \/ pc' = "idle" /\ answer' = "no" /\ phase = "idle"
         \/ pc' = "drq" /\ answer' = answer /\ ~(kind = "prompt" /\ phase = "work")
  BY <1>1, Zenon DEF IdentifyStatus, Return, Shape, DriveSound, driveVars
<1>3. Shape'
  BY <1>1, <1>2 DEF Shape, TypeOK, Places, driveVars
<1>4. DriveSound' /\ NeverOvertakes' /\ Loops'
  BY <1>1, <1>2 DEF DriveSound, NeverOvertakes, Loops, driveVars
<1>5. InStep'
  BY <1>1, <1>2 DEF Shape, DriveSound, InStep, Reached, driveVars
<1>6. Progress'
  BY <1>1, <1>2, Bounds DEF Progress, DriveSound, InStep, driveVars
<1>7. MapStep
  BY <1>1, <1>2, QuietMap DEF driveVars
<1> QED BY <1>3, <1>4, <1>5, <1>6, <1>7

LEMMA StepWait ==
    IInv /\ (ata_wait_bsy("bsy", "select") \/ ata_wait_bsy("sector", "drq")) => IInv' /\ MapStep
<1> SUFFICES ASSUME IInv, ata_wait_bsy("bsy", "select") \/ ata_wait_bsy("sector", "drq")
             PROVE  IInv' /\ MapStep
  OBVIOUS
<1> USE DEF IInv
<1>1. /\ \/ pc = "bsy" /\ pc' = "select"
         \/ pc = "sector" /\ pc' = "drq" /\ ~(kind = "prompt" /\ phase = "work")
      /\ UNCHANGED <<driveVars, call, buf, s, i, polls, answer, overtaken>> /\ i = 0
  BY DEF ata_wait_bsy, Loops, DriveSound
<1>2. Shape' /\ DriveSound' /\ NeverOvertakes' /\ Loops'
  BY <1>1 DEF Shape, TypeOK, Places, DriveSound, NeverOvertakes, Loops, driveVars
<1>3. InStep'
  BY <1>1 DEF Shape, DriveSound, InStep, Reached, driveVars
<1>4. Progress'
  BY <1>1, ProgressMoves DEF Put, driveVars
<1>5. MapStep
  BY <1>1, QuietMap DEF driveVars
<1> QED BY <1>2, <1>3, <1>4, <1>5

LEMMA StepSelect == IInv /\ ata_select_lba => IInv' /\ MapStep
<1> SUFFICES ASSUME IInv, ata_select_lba PROVE IInv' /\ MapStep
  OBVIOUS
<1> USE DEF IInv
<1>1. /\ pc = "select" /\ pc' = "command" /\ i = 0
      /\ UNCHANGED <<kind, disk, phase, bsy, err, todo, sector, word>>
      /\ UNCHANGED <<call, buf, s, i, polls, answer, overtaken>>
      /\ regs' = IF phase = "idle" THEN [lba |-> call.lba, left |-> call.count] ELSE regs
  BY DEF ata_select_lba, Loops
<1>2. regs' \in [lba : Nat, left : Nat]
  <2>1. call.lba \in Nat /\ call.count \in Nat
    BY Bounds
  <2> QED BY <1>1, <2>1 DEF Shape
<1>3. Shape'
  BY <1>1, <1>2 DEF Shape, TypeOK, Places
<1>4. DriveSound' /\ NeverOvertakes' /\ Loops' /\ InStep'
  BY <1>1 DEF DriveSound, NeverOvertakes, Loops, InStep
<1>5. Progress'
  BY <1>1, ProgressMoves DEF Put
<1>6. MapStep
  BY <1>1, QuietMap
<1> QED BY <1>3, <1>4, <1>5, <1>6

LEMMA StepCommand == IInv /\ Command => IInv' /\ MapStep
<1> SUFFICES ASSUME IInv, Command PROVE IInv' /\ MapStep
  OBVIOUS
<1> USE DEF IInv
<1>1. /\ pc = "command" /\ pc' = "sector" /\ Give(call.op) /\ i = 0 /\ s = 0
      /\ UNCHANGED <<call, buf, s, i, polls, answer, overtaken>>
      /\ call.op \in {"read", "write"} /\ WORDS \in Nat /\ WORDS > 0
  BY AtaAssumption DEF Command, Loops, Shape
<1>2. /\ disk' = disk /\ sector' = sector /\ regs' = regs /\ kind' = kind /\ DriveSound'
      /\ todo' \in [cmd : {"none", "identify", "read", "write", "flush"}, lba : Nat, left : Nat]
      /\ phase' \in {"idle", "work", "in", "out"} /\ word' \in 0 .. WORDS
      /\ bsy' \in BOOLEAN /\ err' \in BOOLEAN /\ (bsy' => phase' = "work")
      /\ ~overtaken => \/ phase' = "idle"
                       \/ /\ phase' = "work" /\ word' = 0
                          /\ todo' = [cmd |-> call.op, lba |-> call.lba, left |-> call.count]
  BY <1>1, GiveEffect DEF InStep
<1>3. Shape'
  BY <1>1, <1>2 DEF Shape, TypeOK, Places
<1>4. Loops' /\ NeverOvertakes'
  BY <1>1, <1>2 DEF Loops, NeverOvertakes
<1>5. InStep'
  <2>1. call.lba \in Nat /\ call.count \in Nat
    BY Bounds
  <2> QED BY <1>1, <1>2, <2>1 DEF InStep, Reached
<1>6. Progress'
  BY <1>1, <1>2 DEF Progress, Put
<1>7. MapStep
  BY <1>1, <1>2, QuietMap
<1> QED BY <1>2, <1>3, <1>4, <1>5, <1>6, <1>7

\* A step that only makes the answer known, and the answer is not TRUE.
LEMMA GiveUp ==
    ASSUME UNCHANGED <<disk, buf, call>>, answer = "none", answer' = "no",
           call.op \in {"identify", "read", "write"},
           disk \in [Sector -> [0 .. WORDS - 1 -> Word]]
    PROVE  MapStep
<1>1. CASE call.op = "identify"
  BY <1>1, QuietMap
<1>2. CASE call.op # "identify"
  <2>1. T!Move
    BY <1>2 DEF T!Move
  <2>2. T!Step
    BY <1>2, <2>1 DEF T!Step
  <2> QED BY <2>2 DEF MapStep, T!Next
<1> QED BY <1>1, <1>2

LEMMA StepDrq == IInv /\ ata_wait_drq => IInv' /\ MapStep
<1> SUFFICES ASSUME IInv, ata_wait_drq PROVE IInv' /\ MapStep
  OBVIOUS
<1> USE DEF IInv
<1>1. /\ pc = "drq" /\ UNCHANGED driveVars /\ UNCHANGED <<call, buf, s, i>> /\ i = 0
      /\ answer = "none"
  BY DEF ata_wait_drq, Loops, Shape
<1>2. UNCHANGED <<kind, disk, phase, bsy, err, todo, regs, sector, word>>
  BY <1>1 DEF driveVars
<1>3. \/ pc' = "idle" /\ answer' = "no" /\ polls' = polls /\ overtaken' = (overtaken \/ phase # "idle")
         /\ phase \in {"idle", "work"}
      \/ pc' = "data" /\ phase \in {"in", "out"} /\ polls' = 0 /\ answer' = answer /\ overtaken' = overtaken
      \/ pc' = "drq" /\ polls' = polls + 1 /\ polls + 1 < POLLS /\ answer' = answer /\ overtaken' = overtaken
  BY <1>1, <1>2, Zenon DEF ata_wait_drq, Return, Shape, TypeOK, DriveSound
<1>4. Shape'
  <2>1. overtaken' \in BOOLEAN
    BY <1>3, Zenon DEF Shape
  <2>2. pc' \in Places /\ answer' \in {"none", "yes", "no"}
    BY <1>1, <1>3 DEF Places
  <2>3. polls' \in 0 .. POLLS - 1
    <3>1. POLLS \in Nat /\ POLLS > 0 /\ polls \in 0 .. POLLS - 1
      BY AtaAssumption DEF Shape, TypeOK
    <3> QED BY <1>3, <3>1
  <2>4. TypeOK'
    BY <1>1, <1>2, <2>2, <2>3 DEF Shape, TypeOK
  <2> QED BY <1>1, <1>2, <2>1, <2>2, <2>4 DEF Shape
<1>5. DriveSound' /\ Loops'
  BY <1>1, <1>2, <1>3 DEF DriveSound, Loops
<1>6. NeverOvertakes'
  BY <1>1, <1>2, <1>3, Zenon DEF NeverOvertakes, InStep
<1>7. overtaken \/ phase = "idle" \/ pc' # "idle" \/ overtaken'
  BY <1>3, Zenon
<1>8. InStep'
  <2> SUFFICES ASSUME ~overtaken' PROVE InStep'
    BY DEF InStep
  <2>1. ~overtaken
    BY <1>3, Zenon
  <2>2. CASE pc' = "idle"
    BY <1>2, <1>7, <2>1, <2>2 DEF InStep
  <2>3. CASE pc' \in {"data", "drq"}
    BY <1>1, <1>2, <1>3, <2>1, <2>3 DEF InStep, DriveSound, Reached
  <2> QED BY <1>3, <2>2, <2>3
<1>9. Progress'
  <2>1. CASE pc' = "idle"
    BY <2>1 DEF Progress
  <2>2. CASE pc' \in {"data", "drq"}
    <3>1. Put' = Put /\ overtaken' = overtaken
      BY <1>1, <1>2, <1>3, <2>2 DEF Put, DriveSound
    <3> QED BY <1>1, <1>2, <3>1, ProgressMoves
  <2> QED BY <1>3, <2>1, <2>2
<1>10. MapStep
  <2>1. CASE answer' = "no"
    BY <1>1, <1>2, <2>1, GiveUp DEF Shape, TypeOK
  <2>2. CASE answer' = answer
    BY <1>1, <1>2, <2>2, QuietMap
  <2> QED BY <1>3, <2>1, <2>2
<1> QED BY <1>4, <1>5, <1>6, <1>8, <1>9, <1>10

LEMMA StepFlush == IInv /\ FlushCache => IInv' /\ MapStep
<1> SUFFICES ASSUME IInv, FlushCache PROVE IInv' /\ MapStep
  OBVIOUS
<1> USE DEF IInv
<1>1. /\ pc = "flush" /\ pc' = "flushed" /\ Give("flush") /\ i = 0
      /\ UNCHANGED <<call, buf, s, i, polls, answer, overtaken>>
      /\ call.op = "write" /\ WORDS \in Nat /\ WORDS > 0
  BY AtaAssumption DEF FlushCache, Loops, Shape
<1>2. /\ disk' = disk /\ sector' = sector /\ regs' = regs /\ kind' = kind /\ DriveSound'
      /\ todo' \in [cmd : {"none", "identify", "read", "write", "flush"}, lba : Nat, left : Nat]
      /\ phase' \in {"idle", "work", "in", "out"} /\ word' \in 0 .. WORDS
      /\ bsy' \in BOOLEAN /\ err' \in BOOLEAN /\ (bsy' => phase' = "work")
      /\ phase # "idle" => UNCHANGED <<phase, bsy, err, todo, word>>
      /\ phase = "idle" => phase' = "idle" \/ (phase' = "work" /\ word' = 0 /\ todo'.cmd = "flush")
  BY <1>1, GiveEffect
<1>3. Shape'
  BY <1>1, <1>2 DEF Shape, TypeOK, Places
<1>4. Loops' /\ NeverOvertakes'
  BY <1>1, <1>2 DEF Loops, NeverOvertakes
<1>5. InStep'
  BY <1>1, <1>2 DEF InStep, Reached
<1>6. Put = s /\ Put' = s
  BY <1>1 DEF Put
<1>7. Progress'
  BY <1>1, <1>2, <1>6 DEF Progress, Same, Reached
<1>8. MapStep
  BY <1>1, <1>2, QuietMap
<1> QED BY <1>2, <1>3, <1>4, <1>5, <1>7, <1>8

\* What has been moved, in the words of the abstract specification.
LEMMA MovedAll ==
    ASSUME NEW n \in Nat, NEW d, NEW b,
           \A m \in 0 .. n - 1 : \A w \in 0 .. WORDS - 1 :
              call.lba + m \in Sector /\ b[m * WORDS + w] = d[call.lba + m][w]
    PROVE  T!Moved(n, d, b)
<1> SUFFICES ASSUME NEW j \in 0 .. n * WORDS - 1
             PROVE  j \in T!Asked(n) /\ b[j] = T!WordOn(d, j)
  BY DEF T!Moved
<1> DEFINE m == j \div WORDS
           w == j % WORDS
<1>1. m \in 0 .. n - 1 /\ w \in 0 .. WORDS - 1 /\ j = m * WORDS + w
  BY OfPlace
<1> HIDE DEF m, w
<1>2. call.lba + m \in Sector /\ b[j] = d[call.lba + m][w]
  BY <1>1
<1> QED BY <1>2 DEF m, w, T!Asked, T!SectorOf, T!WordOn

LEMMA StepFlushed == IInv /\ Flushed => IInv' /\ MapStep
<1> SUFFICES ASSUME IInv, Flushed PROVE IInv' /\ MapStep
  OBVIOUS
<1> USE DEF IInv
<1>1. /\ pc = "flushed" /\ pc' = "idle" /\ answer = "none" /\ answer' = "yes" /\ ~bsy
      /\ UNCHANGED <<kind, disk, phase, bsy, err, todo, regs, sector, word>>
      /\ UNCHANGED <<call, buf, s, i, polls>> /\ call.op = "write" /\ s = call.count - 1
  BY DEF Flushed, Return, Loops, Shape, driveVars
<1>2. overtaken' = (overtaken \/ phase # "idle")
  BY <1>1, Zenon DEF Flushed, Return
<1>3. overtaken' \in BOOLEAN /\ NeverOvertakes' /\ (~overtaken' => ~overtaken /\ phase = "idle")
  BY <1>1, <1>2, Zenon DEF Shape, DriveSound, InStep, NeverOvertakes
<1>4. Shape' /\ DriveSound' /\ Loops'
  BY <1>1, <1>3 DEF Shape, TypeOK, Places, DriveSound, Loops
<1>5. InStep' /\ Progress'
  BY <1>1, <1>3 DEF InStep, Progress
<1>6. MapStep
  <2> SUFFICES ASSUME ~overtaken' PROVE T!Step
    BY DEF MapStep, T!Next
  <2>1. Put = s /\ s \in Nat /\ call.count - 1 \in Nat
    BY <1>1, Bounds DEF Put
  <2>2. \A m \in 0 .. s - 1 : \A w \in 0 .. WORDS - 1 : Same(m, w)
    BY <1>1, <1>3, <2>1 DEF Progress
  <2>3. T!Moved(call.count - 1, disk', buf')
    BY <1>1, <2>1, <2>2, MovedAll DEF Same
  <2>4. T!Move
    BY <1>1 DEF T!Move
  <2> QED BY <1>1, <2>3, <2>4 DEF T!Step
<1> QED BY <1>3, <1>4, <1>5, <1>6

LEMMA StepCall ==
    ASSUME IInv, NEW op \in {"read", "write"}, NEW lba \in Sector, NEW count \in 1 .. MaxCount,
           NEW v \in 0 .. 1, ATA_Call(op, lba, count, v)
    PROVE  IInv' /\ MapStep
<1> USE DEF IInv
<1>1. /\ pc = "idle" /\ pc' = "bsy" /\ answer # "none" /\ answer' = "none"
      /\ call' = [op |-> op, lba |-> lba, count |-> count]
      /\ s' = 0 /\ i' = 0 /\ polls' = 0 /\ overtaken' = overtaken
      /\ UNCHANGED <<kind, disk, phase, bsy, err, todo, regs, sector, word>>
      /\ WORDS \in Nat \ {0} /\ MaxCount \in Nat \ {0} /\ POLLS \in Nat \ {0}
  BY AtaAssumption DEF ATA_Call, Loops, driveVars
<1>2. buf' \in [0 .. MaxCount * WORDS - 1 -> Word]
  <2>1. buf' = [j \in 0 .. MaxCount * WORDS - 1 |->
                  LET l == lba + j \div WORDS
                  IN IF op = "write" /\ l \in Sector THEN <<l, j % WORDS, v>> ELSE Nothing]
    BY DEF ATA_Call
  <2>2. ASSUME NEW j \in 0 .. MaxCount * WORDS - 1
        PROVE  (LET l == lba + j \div WORDS
                IN IF op = "write" /\ l \in Sector THEN <<l, j % WORDS, v>> ELSE Nothing) \in Word
    <3>1. j % WORDS \in 0 .. WORDS - 1
      BY <1>1, OfPlace
    <3> QED BY <3>1 DEF Word
  <2> QED BY <2>1, <2>2
<1>3. call' \in [op : {"identify", "read", "write"}, lba : Sector, count : 1 .. MaxCount]
  BY <1>1
<1>4. Shape'
  BY <1>1, <1>2, <1>3 DEF Shape, TypeOK, Places
<1>5. DriveSound' /\ NeverOvertakes' /\ Loops'
  BY <1>1 DEF DriveSound, NeverOvertakes, Loops
<1>6. InStep'
  BY <1>1 DEF InStep
<1>7. Progress'
  BY <1>1, <1>6, AtaAssumption DEF Progress, Put, InStep
<1>8. MapStep
  <2>1. call' \in T!Calls /\ buf' \in [T!Place -> Word]
    BY <1>1, <1>2 DEF T!Calls, T!Place
  <2>2. T!Start
    BY <1>1, <2>1 DEF T!Start
  <2> QED BY <2>2 DEF MapStep, T!Next
<1> QED BY <1>4, <1>5, <1>6, <1>7, <1>8

LEMMA StepCallInitialize == IInv /\ ATA_CallInitialize => IInv' /\ MapStep
<1> SUFFICES ASSUME IInv, ATA_CallInitialize PROVE IInv' /\ MapStep
  OBVIOUS
<1> USE DEF IInv
<1>1. /\ pc = "idle" /\ pc' = "identify" /\ answer # "none" /\ answer' = "none"
      /\ call' = [op |-> "identify", lba |-> 0, count |-> 1]
      /\ s' = 0 /\ i' = 0 /\ polls' = 0 /\ overtaken' = overtaken /\ buf' = buf
      /\ UNCHANGED <<kind, disk, phase, bsy, err, todo, regs, sector, word>>
      /\ WORDS \in Nat \ {0} /\ MaxCount \in Nat \ {0} /\ POLLS \in Nat \ {0}
  BY AtaAssumption DEF ATA_CallInitialize, Loops, driveVars
<1>2. 0 \in Sector
  BY AtaAssumption DEF Sector
<1>3. Shape'
  BY <1>1, <1>2 DEF Shape, TypeOK, Places
<1>4. DriveSound' /\ NeverOvertakes' /\ Loops'
  BY <1>1 DEF DriveSound, NeverOvertakes, Loops
<1>5. InStep'
  BY <1>1 DEF InStep
<1>6. Progress'
  BY <1>1, <1>5 DEF Progress, InStep
<1>7. MapStep
  <2>1. T!Probe
    BY <1>1 DEF T!Probe
  <2> QED BY <2>1 DEF MapStep, T!Next
<1> QED BY <1>3, <1>4, <1>5, <1>6, <1>7

\* What the driver does after a word, in the two ways that it can go.
LEMMA AdvanceEffect ==
    ASSUME Shape, Loops, pc = "data", Advance
    PROVE  /\ i' \in 0 .. WORDS - 1 /\ s' \in Nat
           /\ \/ /\ i + 1 < WORDS /\ i' = i + 1
                 /\ pc' = "data" /\ s' = s /\ answer' = answer /\ overtaken' = overtaken
              \/ /\ i + 1 = WORDS /\ i' = 0 /\ call.op # "identify" /\ s + 1 < call.count
                 /\ pc' = "sector" /\ s' = s + 1 /\ answer' = answer /\ overtaken' = overtaken
              \/ /\ i + 1 = WORDS /\ i' = 0 /\ call.op = "write" /\ s = call.count - 1
                 /\ pc' = "flush" /\ s' = s /\ answer' = answer /\ overtaken' = overtaken
              \/ /\ i + 1 = WORDS /\ i' = 0
                 /\ call.op = "identify" \/ (call.op = "read" /\ s = call.count - 1)
                 /\ pc' = "idle" /\ s' = s /\ answer' = "yes"
                 /\ overtaken' = (overtaken \/ phase' # "idle")
<1>1. /\ WORDS \in Nat /\ WORDS > 0 /\ i \in 0 .. WORDS - 1 /\ s \in Nat
      /\ call.count \in Nat /\ s < call.count /\ call.op \in {"identify", "read", "write"}
  BY Bounds DEF Shape
<1>2. i' \in 0 .. WORDS - 1 /\ s' \in Nat
  BY <1>1 DEF Advance
<1>3. i + 1 < WORDS \/ i + 1 = WORDS
  BY <1>1
<1>4. CASE i + 1 < WORDS
  BY <1>2, <1>4, Zenon DEF Advance
<1>5. CASE i + 1 = WORDS
  <2>1. ~(i + 1 < WORDS) /\ (~(s + 1 < call.count) => s = call.count - 1)
    BY <1>1, <1>5
  <2> QED BY <1>1, <1>2, <1>5, <2>1, Zenon DEF Advance, Return
<1> QED BY <1>3, <1>4, <1>5

\* What the drive does after a word, in the four ways that it can go.
LEMMA StrobeEffect ==
    ASSUME Shape, DriveSound, phase \in {"in", "out"}, Strobe
    PROVE  /\ UNCHANGED <<kind, disk, err, regs>> /\ word \in 0 .. WORDS - 1
           /\ \/ /\ word + 1 < WORDS /\ word' = word + 1 /\ UNCHANGED <<phase, bsy, todo>>
              \/ /\ word + 1 = WORDS /\ phase = "out" /\ word' = WORDS /\ phase' = "work"
                 /\ bsy' = (kind = "prompt") /\ todo' = todo
              \/ /\ word + 1 = WORDS /\ phase = "in" /\ word' = 0 /\ todo.cmd = "read"
                 /\ todo.left > 1 /\ phase' = "work" /\ bsy' = (kind = "prompt")
                 /\ todo' = [cmd |-> "read", lba |-> todo.lba + 1, left |-> todo.left - 1]
              \/ /\ word + 1 = WORDS /\ phase = "in" /\ word' = 0 /\ phase' = "idle"
                 /\ ~(todo.cmd = "read" /\ todo.left > 1) /\ todo' = NoCommand /\ bsy' = bsy
<1>1. WORDS \in Nat /\ word \in 0 .. WORDS - 1
  <2>1. WORDS \in Nat \ {0} /\ word \in 0 .. WORDS
    BY AtaAssumption DEF Shape, TypeOK
  <2>2. word # WORDS
    BY DEF DriveSound
  <2> QED BY <2>1, <2>2
<1>2. UNCHANGED <<kind, disk, err, regs>>
  BY DEF Strobe
<1>3. word + 1 < WORDS \/ word + 1 = WORDS
  BY <1>1
<1>4. CASE word + 1 < WORDS
  BY <1>1, <1>2, <1>4, Zenon DEF Strobe
<1>5. CASE word + 1 = WORDS
  <2>1. ~(word + 1 < WORDS)
    BY <1>1, <1>5
  <2>2. CASE phase = "out"
    BY <1>1, <1>2, <1>5, <2>1, <2>2, Zenon DEF Strobe
  <2>3. CASE phase = "in" /\ ~(todo.cmd = "read" /\ todo.left > 1)
    <3>1. phase # "out"
      BY <2>3
    <3> QED BY <1>1, <1>2, <1>5, <2>1, <2>3, <3>1, Zenon DEF Strobe
  <2>4. CASE phase = "in" /\ todo.cmd = "read" /\ todo.left > 1
    <3>1. phase # "out"
      BY <2>4
    <3>2. word' = 0 /\ phase' = "work" /\ bsy' = (kind = "prompt")
          /\ todo' = [todo EXCEPT !.lba = @ + 1, !.left = @ - 1]
      BY <2>1, <2>4, <3>1, Zenon DEF Strobe
    <3>3. todo' = [cmd |-> "read", lba |-> todo.lba + 1, left |-> todo.left - 1]
      BY <2>4, <3>2 DEF Shape
    <3> QED BY <1>1, <1>2, <1>5, <2>4, <3>2, <3>3, Zenon
  <2> QED BY <2>2, <2>3, <2>4
<1> QED BY <1>3, <1>4, <1>5

\* What holds of every word that is moved, also after the drive was left behind.
LEMMA DataSound ==
    ASSUME IInv, DataWord
    PROVE  Shape' /\ DriveSound' /\ Loops' /\ call' = call /\ disk' = disk /\ kind' = kind
<1> USE DEF IInv
<1>1. pc = "data" /\ Advance /\ UNCHANGED <<call, polls>>
  BY DEF DataWord
<1>2. /\ WORDS \in Nat /\ WORDS > 0 /\ Where \in 0 .. MaxCount * WORDS - 1
      /\ s \in Nat /\ call.count \in 1 .. MaxCount /\ s < call.count
      /\ MaxCount \in Nat /\ MaxCount > 0 /\ POLLS \in Nat
  BY Bounds, AtaAssumption
<1>3. /\ UNCHANGED <<kind, disk, err, regs>>
      /\ phase' \in {"idle", "work", "in", "out"} /\ word' \in 0 .. WORDS
      /\ bsy' \in BOOLEAN /\ (bsy' => phase' = "work")
      /\ todo' \in [cmd : {"none", "identify", "read", "write", "flush"}, lba : Nat, left : Nat]
      /\ sector' \in [0 .. WORDS - 1 -> Word] /\ DriveSound'
  <2>1. CASE phase \notin {"in", "out"}
    <3>1. UNCHANGED <<kind, disk, phase, bsy, err, todo, regs, sector, word>>
      BY <2>1 DEF DataWord
    <3> QED BY <3>1 DEF Shape, TypeOK, DriveSound
  <2>2. CASE phase \in {"in", "out"}
    <3>1. Strobe
      BY <2>2 DEF DataWord
    <3>2. sector' = sector \/ (phase = "out" /\ sector' = [sector EXCEPT ![word] = buf[Where]])
      BY DEF DataWord
    <3>3. sector' \in [0 .. WORDS - 1 -> Word] /\ (phase = "in" => sector' = sector)
      BY <1>2, <3>2 DEF Shape, TypeOK
    <3>4. ~err /\ kind \notin {"none", "atapi"}
      BY <2>2 DEF DriveSound
    <3>5. todo' \in [cmd : {"none", "identify", "read", "write", "flush"}, lba : Nat, left : Nat]
      <4>1. todo.left \in Nat /\ todo.lba \in Nat
        BY DEF Shape
      <4>2. \/ todo' = todo \/ todo' = NoCommand
            \/ /\ todo.left > 1
               /\ todo' = [cmd |-> "read", lba |-> todo.lba + 1, left |-> todo.left - 1]
        BY <2>2, <3>1, StrobeEffect, Zenon
      <4>3. ASSUME todo.left > 1
            PROVE  [cmd |-> "read", lba |-> todo.lba + 1, left |-> todo.left - 1] \in
                   [cmd : {"none", "identify", "read", "write", "flush"}, lba : Nat, left : Nat]
        BY <4>1, <4>3
      <4> QED BY <4>2, <4>3, NoCommandTyped, Zenon DEF Shape
    <3>6. DriveSound'
      <4>1. /\ kind' = kind /\ err' = err /\ word # WORDS /\ 0 # WORDS
            /\ \/ phase' = phase /\ todo' = todo /\ word' # WORDS /\ disk' = disk
               \/ phase = "out" /\ phase' = "work" /\ todo' = todo /\ bsy' = (kind = "prompt")
               \/ phase' = "work" /\ bsy' = (kind = "prompt") /\ word' # WORDS
               \/ phase' = "idle"
        BY <1>2, <2>2, <3>1, StrobeEffect
      <4>2. CASE phase' = phase /\ todo' = todo /\ word' # WORDS /\ disk' = disk
        <5>1. phase # "work" /\ (phase' = "in" => sector' = sector)
          BY <2>2, <3>3, <4>2
        <5> QED BY <3>4, <4>1, <4>2, <5>1 DEF DriveSound
      <4>3. CASE phase' = "work" /\ bsy' = (kind = "prompt")
        <5>1. /\ kind' = "prompt" => bsy'
              /\ word' = WORDS => phase = "out" /\ todo' = todo
          BY <4>1, <4>3, <2>2, Zenon
        <5> QED BY <3>4, <4>1, <4>3, <5>1 DEF DriveSound
      <4>4. CASE phase' = "idle"
        BY <4>4 DEF DriveSound
      <4>5. \/ phase' = phase /\ todo' = todo /\ word' # WORDS /\ disk' = disk
            \/ phase' = "work" /\ bsy' = (kind = "prompt")
            \/ phase' = "idle"
        BY <4>1, Zenon
      <4> QED BY <4>2, <4>3, <4>4, <4>5, Zenon
    <3>7. /\ bsy' \in BOOLEAN /\ (bsy' => phase' = "work")
      <4>1. \/ bsy' = bsy
            \/ phase' = "work" /\ bsy' = (kind = "prompt")
        BY <2>2, <3>1, StrobeEffect, Zenon
      <4>2. bsy \in BOOLEAN /\ (bsy => phase = "work") /\ phase # "work"
        BY <2>2 DEF Shape, TypeOK
      <4>3. CASE bsy' = bsy
        BY <4>2, <4>3, Zenon
      <4>4. CASE phase' = "work" /\ bsy' = (kind = "prompt")
        BY <4>4, Zenon
      <4> QED BY <4>1, <4>3, <4>4, Zenon
    <3>8. phase' \in {"idle", "work", "in", "out"} /\ word' \in 0 .. WORDS
      BY <1>2, <2>2, <3>1, StrobeEffect
    <3> QED BY <2>2, <3>1, <3>3, <3>5, <3>6, <3>7, <3>8, StrobeEffect
  <2> QED BY <2>1, <2>2
<1>4. buf' \in [0 .. MaxCount * WORDS - 1 -> Word]
  <2>1. CASE buf' = buf
    BY <2>1 DEF Shape, TypeOK
  <2>2. CASE phase = "in" /\ buf' = [buf EXCEPT ![Where] = sector[word]]
    <3>1. word \in 0 .. WORDS - 1
      BY <1>2, <2>2 DEF Shape, TypeOK, DriveSound
    <3> QED BY <2>2, <3>1 DEF Shape, TypeOK
  <2> QED BY <2>1, <2>2 DEF DataWord
<1>5. /\ i' \in 0 .. WORDS - 1 /\ s' \in 0 .. MaxCount - 1 /\ s' < call.count
      /\ pc' \in {"data", "sector", "flush", "idle"} /\ (pc' = "idle" <=> answer' = "yes")
      /\ answer' \in {"none", "yes"}
  BY <1>1, <1>2, AdvanceEffect DEF Loops
<1>6. overtaken' \in BOOLEAN
  BY <1>1, AdvanceEffect, Zenon DEF Shape
<1>7. TypeOK'
  BY <1>1, <1>3, <1>4, <1>5 DEF Shape, TypeOK, Places
<1>8. Shape'
  BY <1>1, <1>3, <1>5, <1>6, <1>7 DEF Shape
<1>9. Loops'
  BY <1>1, <1>2, AdvanceEffect DEF Loops
<1> QED BY <1>1, <1>3, <1>8, <1>9

\* A word moved in step: the drive and the driver go the same of five ways.
LEMMA DataWays ==
    ASSUME IInv, DataWord, ~overtaken
    PROVE  /\ ~overtaken' /\ i \in 0 .. WORDS - 1 /\ word = i /\ todo.cmd = call.op
           /\ phase = IF call.op = "write" THEN "out" ELSE "in"
           /\ \/ /\ i + 1 < WORDS /\ i' = i + 1 /\ word' = i + 1 /\ pc' = "data" /\ s' = s
                 /\ UNCHANGED <<phase, todo, answer>>
              \/ /\ i + 1 = WORDS /\ i' = 0 /\ word' = 0 /\ pc' = "sector" /\ s' = s + 1
                 /\ call.op = "read" /\ s + 1 < call.count /\ phase' = "work" /\ answer' = answer
                 /\ todo' = [cmd |-> "read", lba |-> todo.lba + 1, left |-> todo.left - 1]
              \/ /\ i + 1 = WORDS /\ i' = 0 /\ word' = WORDS /\ pc' = "sector" /\ s' = s + 1
                 /\ call.op = "write" /\ s + 1 < call.count /\ phase' = "work"
                 /\ UNCHANGED <<todo, answer>>
              \/ /\ i + 1 = WORDS /\ i' = 0 /\ word' = WORDS /\ pc' = "flush" /\ s' = s
                 /\ call.op = "write" /\ s = call.count - 1 /\ phase' = "work"
                 /\ UNCHANGED <<todo, answer>>
              \/ /\ i + 1 = WORDS /\ i' = 0 /\ word' = 0 /\ pc' = "idle" /\ s' = s
                 /\ call.op = "identify" \/ (call.op = "read" /\ s = call.count - 1)
                 /\ phase' = "idle" /\ answer' = "yes"
<1> USE DEF IInv
<1>1. /\ pc = "data" /\ Advance /\ phase \in {"in", "out"} /\ word = i /\ todo.cmd = call.op
      /\ Strobe /\ call.op \in {"identify", "read", "write"} /\ WORDS \in Nat /\ WORDS > 0
      /\ i \in 0 .. WORDS - 1 /\ call.count \in Nat /\ s \in Nat /\ s < call.count
  <2>1. pc = "data"
    BY DEF DataWord
  <2>2. phase \in {"in", "out"} /\ word = i /\ todo.cmd = call.op
    BY <2>1 DEF InStep
  <2>3. Advance /\ Strobe
    BY <2>2 DEF DataWord
  <2>4. call.op \in {"identify", "read", "write"}
    BY DEF Shape
  <2>5. /\ WORDS \in Nat /\ WORDS > 0 /\ i \in 0 .. WORDS - 1
        /\ call.count \in Nat /\ s \in Nat /\ s < call.count
    BY Bounds
  <2> QED BY <2>1, <2>2, <2>3, <2>4, <2>5
<1>2. phase = IF call.op = "write" THEN "out" ELSE "in"
  BY <1>1 DEF DriveSound
<1>3. call.op = "read" => todo.left = call.count - s
  BY <1>1, <1>2 DEF InStep
<1>4. (todo.cmd = "read" /\ todo.left > 1) <=> (call.op = "read" /\ s + 1 < call.count)
  BY <1>1, <1>3
<1>5. CASE i + 1 < WORDS
  <2>1. /\ i + 1 # WORDS /\ word + 1 # WORDS
    BY <1>1, <1>5
  <2>2. i' = i + 1 /\ pc' = "data" /\ s' = s /\ answer' = answer /\ overtaken' = overtaken
    BY <1>1, <2>1, AdvanceEffect, Zenon
  <2>3. word' = i + 1 /\ UNCHANGED <<phase, todo>>
    BY <1>1, <2>1, StrobeEffect, Zenon
  <2>4. ~overtaken'
    BY <2>2, Zenon
  <2> QED BY <1>1, <1>2, <1>5, <2>2, <2>3, <2>4, Zenon
<1>6. CASE i + 1 = WORDS
  <2>1. ~(i + 1 < WORDS) /\ ~(word + 1 < WORDS) /\ (s + 1 < call.count => s # call.count - 1)
    BY <1>1, <1>6
  <2>2. CASE call.op = "write"
    <3>1. word' = WORDS /\ phase' = "work" /\ todo' = todo
      BY <1>1, <1>2, <2>1, <2>2, StrobeEffect, Zenon
    <3>2. /\ i' = 0 /\ answer' = answer /\ overtaken' = overtaken
          /\ \/ pc' = "sector" /\ s' = s + 1 /\ s + 1 < call.count
             \/ pc' = "flush" /\ s' = s /\ s = call.count - 1
      BY <1>1, <2>1, <2>2, AdvanceEffect, Zenon
    <3>3. ~overtaken'
      BY <3>2, Zenon
    <3> QED BY <1>1, <1>2, <1>6, <2>2, <3>1, <3>2, <3>3, Zenon
  <2>3. CASE call.op = "read" /\ s + 1 < call.count
    <3>1. /\ word' = 0 /\ phase' = "work"
          /\ todo' = [cmd |-> "read", lba |-> todo.lba + 1, left |-> todo.left - 1]
      BY <1>1, <1>2, <1>4, <2>1, <2>3, StrobeEffect, Zenon
    <3>2. /\ i' = 0 /\ answer' = answer /\ overtaken' = overtaken /\ pc' = "sector" /\ s' = s + 1
      BY <1>1, <2>1, <2>3, AdvanceEffect, Zenon
    <3>3. ~overtaken'
      BY <3>2, Zenon
    <3> QED BY <1>1, <1>2, <1>6, <2>3, <3>1, <3>2, <3>3, Zenon
  <2>4. CASE call.op = "identify" \/ (call.op = "read" /\ ~(s + 1 < call.count))
    <3>1. /\ word' = 0 /\ phase' = "idle"
      BY <1>1, <1>2, <1>4, <2>1, <2>4, StrobeEffect, Zenon
    <3>2. /\ i' = 0 /\ answer' = "yes" /\ overtaken' = (overtaken \/ phase' # "idle")
          /\ pc' = "idle" /\ s' = s
          /\ call.op = "identify" \/ (call.op = "read" /\ s = call.count - 1)
      BY <1>1, <2>1, <2>4, AdvanceEffect, Zenon
    <3>3. ~overtaken'
      BY <3>1, <3>2, Zenon
    <3> QED BY <1>1, <1>2, <1>6, <3>1, <3>2, <3>3, Zenon
  <2> QED BY <1>1, <2>2, <2>3, <2>4
<1> QED BY <1>1, <1>5, <1>6

LEMMA DataKeepsStep ==
    ASSUME IInv, DataWord, ~overtaken
    PROVE  InStep'
<1> USE DEF IInv
<1>1. /\ call' = call /\ kind' = kind /\ WORDS \in Nat /\ WORDS > 0 /\ i \in 0 .. WORDS - 1
      /\ call.count \in Nat /\ s \in Nat /\ s < call.count /\ call.lba \in Nat /\ todo.lba \in Nat
      /\ call.op \in {"identify", "read", "write"} /\ word # WORDS /\ pc = "data"
  <2>1. call' = call /\ kind' = kind /\ pc = "data"
    BY DataSound DEF DataWord
  <2>2. i \in 0 .. WORDS - 1 /\ word = i
    BY DataWays
  <2>3. /\ WORDS \in Nat /\ WORDS > 0 /\ s \in Nat /\ s < call.count
        /\ call.count \in 1 .. MaxCount /\ call.lba \in Nat
    BY Bounds
  <2>4. call.op \in {"identify", "read", "write"} /\ todo.lba \in Nat
    BY DEF Shape
  <2> QED BY <2>1, <2>2, <2>3, <2>4
<1>2. /\ todo.cmd = call.op /\ phase # "idle"
      /\ call.op \in {"read", "write"} => Reached = s /\ todo.left = call.count - s
  BY <1>1, DataWays DEF InStep
<1>3. CASE pc' = "data"
  <2>1. /\ word' = i' /\ word' # WORDS /\ s' = s /\ UNCHANGED <<phase, todo>>
        /\ phase = IF call.op = "write" THEN "out" ELSE "in"
    BY <1>1, <1>3, DataWays
  <2> QED BY <1>1, <1>2, <1>3, <2>1 DEF InStep, Reached
<1>4. CASE pc' = "sector" /\ call.op = "read"
  <2>1. /\ word' = 0 /\ s' = s + 1 /\ phase' = "work" /\ s + 1 < call.count
        /\ todo' = [cmd |-> "read", lba |-> todo.lba + 1, left |-> todo.left - 1]
    BY <1>4, DataWays
  <2>2. Reached' = s + 1 /\ todo'.left = call.count - (s + 1)
    BY <1>1, <1>2, <1>4, <2>1 DEF Reached
  <2> QED BY <1>1, <1>4, <2>1, <2>2 DEF InStep
<1>5. CASE pc' = "sector" /\ call.op = "write"
  <2>1. word' = WORDS /\ s' = s + 1 /\ phase' = "work" /\ todo' = todo
    BY <1>5, DataWays
  <2> QED BY <1>1, <1>2, <1>5, <2>1 DEF InStep, Reached
<1>6. CASE pc' = "flush"
  <2>1. word' = WORDS /\ s' = s /\ phase' = "work" /\ todo' = todo /\ call.op = "write"
    BY <1>6, DataWays
  <2> QED BY <1>1, <1>2, <1>6, <2>1 DEF InStep, Reached
<1>7. CASE pc' = "idle"
  <2>1. phase' = "idle"
    BY <1>7, DataWays
  <2> QED BY <1>7, <2>1 DEF InStep
<1> QED BY <1>3, <1>4, <1>5, <1>6, <1>7, DataWays

\* A read: the word that moves is the one of the disk, the others stay.
LEMMA DataRead ==
    ASSUME IInv, DataWord, ~overtaken, call.op = "read"
    PROVE  Progress' /\ MapStep
<1> USE DEF IInv
<1> DEFINE Now(m, w) == call.lba + m \in Sector /\ buf'[m * WORDS + w] = disk'[call.lba + m][w]
<1>1. /\ call' = call /\ disk' = disk /\ WORDS \in Nat /\ WORDS > 0 /\ i \in 0 .. WORDS - 1
      /\ call.count \in 1 .. MaxCount /\ s \in Nat /\ s < call.count /\ call.lba \in Nat
      /\ MaxCount \in Nat /\ word = i /\ pc = "data" /\ phase = "in" /\ todo.cmd = "read"
      /\ Where \in 0 .. MaxCount * WORDS - 1
  BY DataSound, DataWays, Bounds, AtaAssumption DEF DataWord
<1>2. /\ buf' = [buf EXCEPT ![Where] = sector[word]] /\ buf \in [0 .. MaxCount * WORDS - 1 -> Word]
  BY <1>1 DEF DataWord, Shape, TypeOK
<1>3. todo.lba = call.lba + s /\ call.lba + s \in Sector /\ sector = disk[call.lba + s]
  <2>1. Reached = s /\ todo.lba \in Nat
    BY <1>1 DEF InStep, Shape
  <2> QED BY <1>1, <2>1 DEF Reached, DriveSound
<1>4. \A m \in 0 .. s - 1 : \A w \in 0 .. WORDS - 1 : Now(m, w)
  <2> SUFFICES ASSUME NEW m \in 0 .. s - 1, NEW w \in 0 .. WORDS - 1 PROVE Now(m, w)
    OBVIOUS
  <2>1. Same(m, w)
    BY <1>1 DEF Progress
  <2>2. m \in Nat /\ m < s /\ m < MaxCount
    BY <1>1
  <2>3. /\ m * WORDS + w \in Nat /\ m * WORDS + w < s * WORDS
        /\ m * WORDS + w < MaxCount * WORDS
    BY <1>1, <2>2, PlaceOf
  <2>4. s * WORDS \in Nat /\ MaxCount * WORDS \in Nat
    BY <1>1
  <2>5. m * WORDS + w # Where /\ m * WORDS + w \in 0 .. MaxCount * WORDS - 1
    BY <1>1, <2>3, <2>4 DEF Where
  <2> QED BY <1>1, <1>2, <2>1, <2>5 DEF Same
<1>5. \A w \in 0 .. i : Now(s, w)
  <2> SUFFICES ASSUME NEW w \in 0 .. i PROVE Now(s, w)
    OBVIOUS
  <2>1. CASE w = i
    BY <1>1, <1>2, <1>3, <2>1 DEF Same, Where
  <2>2. CASE w # i
    <3>1. Same(s, w)
      BY <1>1, <2>2 DEF Progress
    <3>2. /\ s * WORDS \in Nat /\ MaxCount * WORDS \in Nat
          /\ s * WORDS + i < MaxCount * WORDS
      BY <1>1 DEF Where
    <3>3. s * WORDS + w # Where /\ s * WORDS + w \in 0 .. MaxCount * WORDS - 1
      BY <1>1, <2>2, <3>2 DEF Where
    <3> QED BY <1>1, <1>2, <3>1, <3>3 DEF Same
  <2> QED BY <2>1, <2>2
<1>6. i + 1 = WORDS => \A m \in 0 .. s : \A w \in 0 .. WORDS - 1 : Now(m, w)
  BY <1>1, <1>4, <1>5
<1>7. Progress'
  <2>1. CASE pc' = "data"
    <3>1. i' = i + 1 /\ s' = s /\ phase' = "in"
      BY <1>1, <2>1, DataWays
    <3> QED BY <1>1, <1>4, <1>5, <3>1 DEF Progress, Same
  <2>2. CASE pc' = "sector"
    <3>1. i + 1 = WORDS /\ i' = 0 /\ s' = s + 1 /\ phase' = "work" /\ word' # WORDS
      BY <1>1, <2>2, DataWays
    <3>2. \A m \in 0 .. s' - 1 : \A w \in 0 .. WORDS - 1 : Now(m, w)
      BY <1>1, <1>6, <3>1
    <3>3. \A w \in 0 .. i' - 1 : FALSE
      BY <3>1
    <3> QED BY <1>1, <3>1, <3>2, <3>3 DEF Progress, Same
  <2>3. CASE pc' = "idle"
    BY <2>3 DEF Progress
  <2> QED BY <1>1, <2>1, <2>2, <2>3, DataWays
<1>8. T!Move
  <2> SUFFICES ASSUME NEW j \in T!Place
               PROVE  buf'[j] = buf[j] \/ (j \in T!Asked(call.count) /\ buf'[j] = T!WordOn(disk, j))
    BY <1>1 DEF T!Move
  <2>1. CASE j # Where
    BY <1>2, <2>1 DEF T!Place
  <2>2. CASE j = Where
    <3>1. j \in Nat /\ j \div WORDS = s /\ j % WORDS = i /\ j < call.count * WORDS
      BY <1>1, <2>2, PlaceOf DEF Where
    <3>2. call.count * WORDS \in Nat
      BY <1>1
    <3>3. j \in T!Asked(call.count)
      BY <1>3, <3>1, <3>2 DEF T!Asked, T!SectorOf
    <3>4. T!WordOn(disk, j) = disk[call.lba + s][i]
      BY <3>1 DEF T!WordOn, T!SectorOf
    <3>5. buf'[j] = sector[i]
      BY <1>1, <1>2, <2>2
    <3> QED BY <1>3, <3>3, <3>4, <3>5
  <2> QED BY <2>1, <2>2
<1>9. /\ answer = "none" /\ answer' \in {"none", "yes"}
      /\ answer' = "yes" => s = call.count - 1 /\ i + 1 = WORDS
  BY <1>1, DataWays DEF Loops
<1>10. answer' = "yes" => T!Moved(call.count, disk', buf')
  <2> SUFFICES ASSUME answer' = "yes" PROVE T!Moved(call.count, disk', buf')
    OBVIOUS
  <2>1. \A m \in 0 .. call.count - 1 : \A w \in 0 .. WORDS - 1 :
           call.lba + m \in Sector /\ buf'[m * WORDS + w] = disk'[call.lba + m][w]
    BY <1>1, <1>6, <1>9 DEF Same
  <2> QED BY <1>1, <2>1, MovedAll
<1>11. T!Step
  BY <1>1, <1>8, <1>9, <1>10 DEF T!Step
<1> QED BY <1>7, <1>11 DEF MapStep, T!Next

\* A write: the word that moves goes into the buffer of the drive.
LEMMA DataWrite ==
    ASSUME IInv, DataWord, ~overtaken, call.op = "write"
    PROVE  Progress' /\ MapStep
<1> USE DEF IInv
<1>1. /\ call' = call /\ disk' = disk /\ WORDS \in Nat /\ WORDS > 0 /\ i \in 0 .. WORDS - 1
      /\ s \in Nat /\ word = i /\ pc = "data" /\ phase = "out" /\ todo.cmd = "write"
  BY DataSound, DataWays, Bounds DEF DataWord
<1>2. /\ buf' = buf /\ sector' = [sector EXCEPT ![i] = buf[s * WORDS + i]]
      /\ sector \in [0 .. WORDS - 1 -> Word]
  BY <1>1 DEF DataWord, Shape, Where
<1>3. /\ pc' \in {"data", "sector", "flush"} /\ answer' = answer /\ todo' = todo
      /\ pc' = "data" => i' = i + 1 /\ s' = s /\ phase' = "out" /\ word' = i + 1 /\ i + 1 < WORDS
      /\ pc' # "data" => i + 1 = WORDS /\ phase' = "work" /\ word' = WORDS
      /\ pc' = "sector" => s' = s + 1
      /\ pc' = "flush" => s' = s
  <2>1. \/ /\ i + 1 < WORDS /\ i' = i + 1 /\ word' = i + 1 /\ pc' = "data" /\ s' = s
           /\ UNCHANGED <<phase, todo, answer>>
        \/ /\ i + 1 = WORDS /\ word' = WORDS /\ pc' = "sector" /\ s' = s + 1
           /\ phase' = "work" /\ UNCHANGED <<todo, answer>>
        \/ /\ i + 1 = WORDS /\ word' = WORDS /\ pc' = "flush" /\ s' = s
           /\ phase' = "work" /\ UNCHANGED <<todo, answer>>
    BY <1>1, DataWays
  <2> QED BY <1>1, <2>1
<1>4. Put = s /\ Put' = s /\ Reached = s /\ Reached' = s
  BY <1>1, <1>3 DEF Put, InStep, Reached
<1>5. \A w \in 0 .. i : sector'[w] = buf[s * WORDS + w]
  <2>1. \A w \in 0 .. i - 1 : sector[w] = buf[s * WORDS + w]
    BY <1>1 DEF Progress
  <2>2. sector'[i] = buf[s * WORDS + i] /\ \A w \in 0 .. i - 1 : sector'[w] = sector[w]
    BY <1>1, <1>2
  <2> QED BY <1>1, <2>1, <2>2
<1>6. \A m \in 0 .. Put' - 1 : \A w \in 0 .. WORDS - 1 :
         call.lba + m \in Sector /\ buf'[m * WORDS + w] = disk'[call.lba + m][w]
  BY <1>1, <1>2, <1>4 DEF Progress, Same
<1>7. phase' = "out" /\ pc' = "data" => \A w \in 0 .. i' - 1 : sector'[w] = buf'[s' * WORDS + w]
  BY <1>1, <1>2, <1>3, <1>5
<1>8. phase' = "work" => \A w \in 0 .. WORDS - 1 : sector'[w] = buf'[Reached' * WORDS + w]
  <2> SUFFICES ASSUME phase' = "work", NEW w \in 0 .. WORDS - 1
               PROVE  sector'[w] = buf'[Reached' * WORDS + w]
    OBVIOUS
  <2>1. i + 1 = WORDS
    BY <1>3
  <2>2. w \in 0 .. i
    BY <1>1, <2>1
  <2> QED BY <1>2, <1>4, <1>5, <2>2
<1>9. Progress'
  BY <1>1, <1>6, <1>7, <1>8 DEF Progress, Same
<1>10. MapStep
  BY <1>1, <1>2, <1>3, QuietMap
<1> QED BY <1>9, <1>10

LEMMA StepData == IInv /\ DataWord => IInv' /\ MapStep
<1> SUFFICES ASSUME IInv, DataWord PROVE IInv' /\ MapStep
  OBVIOUS
<1>1. Shape' /\ DriveSound' /\ Loops' /\ call' = call /\ disk' = disk /\ kind' = kind
  BY DataSound
<1>2. CASE overtaken
  <2>1. overtaken'
    <3>1. Shape /\ Loops /\ pc = "data" /\ Advance
      BY DEF IInv, DataWord
    <3> QED BY <1>2, <3>1, AdvanceEffect, Zenon
  <2> QED BY <1>1, <1>2, <2>1, Zenon DEF IInv, NeverOvertakes, InStep, Progress, MapStep
<1>3. CASE ~overtaken
  <2>1. ~overtaken' /\ NeverOvertakes' /\ InStep'
    BY <1>3, DataWays, DataKeepsStep DEF NeverOvertakes
  <2>2. CASE call.op = "identify"
    <3>1. buf' = buf
      BY <2>2 DEF DataWord
    <3>2. MapStep
      BY <1>1, <2>2, <3>1, QuietMap
    <3>3. Progress'
      BY <1>1, <1>3, <2>2, DataWays DEF Progress
    <3> QED BY <1>1, <2>1, <3>2, <3>3 DEF IInv
  <2>3. CASE call.op = "read"
    BY <1>1, <1>3, <2>1, <2>3, DataRead DEF IInv
  <2>4. CASE call.op = "write"
    BY <1>1, <1>3, <2>1, <2>4, DataWrite DEF IInv
  <2> QED BY <2>2, <2>3, <2>4 DEF IInv, Shape
<1> QED BY <1>2, <1>3

LEMMA StepIdle == IInv /\ UNCHANGED vars => IInv' /\ MapStep
<1> SUFFICES ASSUME IInv, UNCHANGED vars PROVE IInv' /\ MapStep
  OBVIOUS
<1>1. Shape' /\ DriveSound' /\ Loops' /\ NeverOvertakes'
  BY DEF IInv, Shape, TypeOK, DriveSound, Loops, NeverOvertakes, vars, driveVars
<1>2. InStep' /\ Progress'
  BY DEF IInv, InStep, Progress, Same, Put, Reached, vars, driveVars
<1>3. MapStep
  BY QuietMap DEF vars, driveVars
<1> QED BY <1>1, <1>2, <1>3 DEF IInv

\* Every step keeps the invariant and is one of a transfer.
LEMMA IInductive == IInv /\ [Next]_vars => IInv' /\ MapStep
<1> SUFFICES ASSUME IInv, [Next]_vars PROVE IInv' /\ MapStep
  OBVIOUS
<1>1. CASE Drive
  BY <1>1, StepDrive, StepPutDown DEF Drive
<1>2. CASE Driver
  BY <1>2, StepInitialize, StepStatus, StepWait, StepSelect, StepCommand, StepDrq, StepData,
     StepFlush, StepFlushed DEF Driver
<1>3. CASE Caller
  BY <1>3, StepCall, StepCallInitialize DEF Caller
<1>4. CASE UNCHANGED vars
  BY <1>4, StepIdle
<1> QED BY <1>1, <1>2, <1>3, <1>4 DEF Next

--------------------------------------------------------------------------------
\* The invariant that the rest follows from: what the phases of the drive and the
\* places of the driver mean, and how far the two are apart (ata.c:30-149).
THEOREM AtaInvariance == Spec => []IInv
<1>1. Init => IInv
  BY InitIInv
<1>2. IInv /\ [Next]_vars => IInv'
  BY IInductive
<1> QED BY <1>1, <1>2, PTL DEF Spec

\* The driver's loops stay within the memory of the caller, and only a drive that
\* is slow to show BSY can still be at work when a call returns, whatever the size
\* of the call and the limit of the poll (ata.c:36-55, 102-149).
THEOREM DriverStaysSound == Spec => []DriverSound
<1>1. IInv => DriverSound
  BY DEF IInv, Shape, DriverSound
<1> QED BY <1>1, AtaInvariance, PTL

\* The driver implements the transfer that its callers count on: a call moves the
\* words it was asked to and no others, and TRUE means that they have moved, as
\* long as no call has left the drive behind at work (ata.c:102-149).
THEOREM CallsAreTransfers == Spec => IsTransfer
<1>1. Init => T!Init
  BY DEF Init, T!Init
<1>2. IInv /\ [Next]_vars => MapStep
  BY IInductive
<1>3. IsTransfer <=> T!Init /\ [][overtaken' \/ T!Next]_(T!transferVars)
  BY DEF IsTransfer
<1> QED BY <1>1, <1>2, <1>3, AtaInvariance, PTL DEF Spec, MapStep
================================================================================
