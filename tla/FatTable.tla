-------------------------------- MODULE FatTable --------------------------------
(******************************************************************************)
(* The file allocation table as the kernel's driver reaches it                *)
(* (src/kernel/fs/fat.c:165-224): through a window of FAT_CACHE_SIZE sectors  *)
(* that is read when an entry lies outside it and written back, whole, after  *)
(* every change.  The results of the reads and writes are ignored.            *)
(******************************************************************************)
EXTENDS Integers

CONSTANTS
    PER_SECTOR,       \* entries in a sector: SECTOR_SIZE / 4
    FAT_CACHE_SIZE,   \* sectors in the window
    total_clusters,   \* TotalSectors / SectorsPerCluster: where the search ends
    FREE, EOC,        \* 0 and 0x0FFFFFFF
    Value,            \* the contents of an entry that are told apart
    Nowhere,          \* the position 0xFFFFFFFF of a window not read yet
    Errors            \* whether the disk may fail

Offset == 0 .. PER_SECTOR - 1
Slice == 0 .. FAT_CACHE_SIZE - 1
Cluster == 0 .. total_clusters - 1

SectorOf(k) == k \div PER_SECTOR
OffsetOf(k) == k % PER_SECTOR

\* The sectors that a window may cover.  They are the first FAT's and, since
\* total_clusters counts more clusters than it has entries for, some of the
\* second FAT's, which nothing else reads or writes.
LastSector == SectorOf(total_clusters - 1)
Area == 0 .. LastSector + FAT_CACHE_SIZE - 1

ASSUME FatTableAssumption ==
    /\ PER_SECTOR \in Nat \ {0}
    /\ FAT_CACHE_SIZE \in Nat \ {0}
    /\ total_clusters \in Nat /\ total_clusters > 2
    /\ FREE \in Value /\ EOC \in Value /\ FREE # EOC
    /\ Nowhere \notin Nat
    /\ Errors \in BOOLEAN

VARIABLES
    fat,                \* the sectors on the disk
    FatCachePosition,   \* the first sector of the window
    FatCache,           \* its contents
    at,                 \* the loop of fat_alloc_cluster, or "idle"
    c,                  \* its counter
    returned,           \* what the last call returned
    failed              \* a read or a write has failed

tableVars == <<fat, FatCachePosition, FatCache, at, c, returned, failed>>

OnDisk(k) == fat[SectorOf(k)][OffsetOf(k)]

TableInit ==
    /\ fat \in [Area -> [Offset -> Value]]
    /\ \A k \in Cluster : k < 2 => OnDisk(k) # FREE
    /\ FatCachePosition = Nowhere
    /\ FatCache = [i \in Slice |-> [o \in Offset |-> FREE]]
    /\ at = "idle"
    /\ c = 2
    /\ returned = 0
    /\ failed = FALSE

Covered(s) ==
    /\ FatCachePosition # Nowhere
    /\ FatCachePosition <= s
    /\ s < FatCachePosition + FAT_CACHE_SIZE

\* How many sectors a transfer of the window moves before it fails, if it does.
Transferred == IF Errors THEN 0 .. FAT_CACHE_SIZE ELSE {FAT_CACHE_SIZE}

\* A mutant of Windows: the window keeps its old contents.
Windows_NotRead(s) ==
    {[pos |-> IF Covered(s) THEN FatCachePosition ELSE s, cache |-> FatCache, ok |-> TRUE]}

\* The window once sector s is in it: read anew when it was not.
Windows(s) ==
    IF Covered(s)
    THEN {[pos |-> FatCachePosition, cache |-> FatCache, ok |-> TRUE]}
    ELSE {[pos   |-> s,
           cache |-> [i \in Slice |-> IF i < n THEN fat[s + i] ELSE FatCache[i]],
           ok    |-> n = FAT_CACHE_SIZE] : n \in Transferred}

Entry(w, k) == w.cache[SectorOf(k) - w.pos][OffsetOf(k)]

UseWindow(w) ==
    /\ FatCachePosition' = w.pos
    /\ FatCache' = w.cache

\* The window w with cluster k's entry set to v.
Changed(w, k, v) ==
    [w EXCEPT !.cache[SectorOf(k) - w.pos][OffsetOf(k)] = v]

\* fat_write_fat: n sectors of the window reach the disk.
WriteBack(w, n) ==
    fat' = [s \in Area |-> IF w.pos <= s /\ s < w.pos + n
                           THEN w.cache[s - w.pos] ELSE fat[s]]

\* A mutant of StoreEntry: the window is not written back.
StoreEntry_NoWrite(w, k, v) ==
    /\ UseWindow(Changed(w, k, v))
    /\ UNCHANGED fat
    /\ failed' = (failed \/ ~w.ok)

\* A mutant of StoreEntry: only the window's first sector is written back.
StoreEntry_OneSector(w, k, v) ==
    /\ UseWindow(Changed(w, k, v))
    /\ WriteBack(Changed(w, k, v), 1)
    /\ failed' = (failed \/ ~w.ok)

\* fat_set_cluster once the window w covers the entry.
StoreEntry(w, k, v) ==
    \E n \in Transferred :
        /\ UseWindow(Changed(w, k, v))
        /\ WriteBack(Changed(w, k, v), n)
        /\ failed' = (failed \/ ~w.ok \/ n < FAT_CACHE_SIZE)

fat_next_cluster(k) ==
    /\ at = "idle"
    /\ \E w \in Windows(SectorOf(k)) :
        /\ UseWindow(w)
        /\ returned' = Entry(w, k)
        /\ failed' = (failed \/ ~w.ok)
    /\ UNCHANGED <<fat, at, c>>

fat_set_cluster(k, v) ==
    /\ at = "idle"
    /\ \E w \in Windows(SectorOf(k)) : StoreEntry(w, k, v)
    /\ UNCHANGED <<at, c, returned>>

\* fat_alloc_cluster: the loop starts at cluster 2.
fat_alloc_cluster ==
    /\ at = "idle"
    /\ at' = "scan"
    /\ c' = 2
    /\ UNCHANGED <<fat, FatCachePosition, FatCache, returned, failed>>

\* A mutant of ScanLimit: one cluster too many.
ScanLimit_OneMore == total_clusters + 1

ScanLimit == total_clusters

\* One turn of that loop: the entry is looked at; a free one is taken.
ScanNext ==
    /\ at = "scan"
    /\ c < ScanLimit
    /\ \E w \in Windows(SectorOf(c)) :
        IF Entry(w, c) = FREE
        THEN /\ StoreEntry(w, c, EOC)
             /\ returned' = c
             /\ at' = "idle"
             /\ UNCHANGED c
        ELSE /\ UseWindow(w)
             /\ failed' = (failed \/ ~w.ok)
             /\ c' = c + 1
             /\ UNCHANGED <<fat, returned, at>>

\* return 0: no free cluster.
ScanEnd ==
    /\ at = "scan"
    /\ c >= ScanLimit
    /\ returned' = 0
    /\ at' = "idle"
    /\ UNCHANGED <<fat, FatCachePosition, FatCache, c, failed>>

TableNext ==
    \/ \E k \in Cluster : \/ fat_next_cluster(k)
                          \/ \E v \in Value : fat_set_cluster(k, v)
    \/ fat_alloc_cluster
    \/ ScanNext
    \/ ScanEnd

TableSpec == TableInit /\ [][TableNext]_tableVars

--------------------------------------------------------------------------------
TableTypeOK ==
    /\ fat \in [Area -> [Offset -> Value]]
    /\ FatCachePosition \in (0 .. LastSector) \cup {Nowhere}
    /\ FatCache \in [Slice -> [Offset -> Value]]
    /\ at \in {"idle", "scan"}
    /\ c \in 2 .. total_clusters
    /\ returned \in Value \cup Cluster
    /\ failed \in BOOLEAN

\* As long as no transfer has failed the window is what the disk holds at its
\* position, the sectors behind the last entry included (fat.c:182-211).
Coherent ==
    ~failed /\ FatCachePosition # Nowhere
        => \A i \in Slice : FatCache[i] = fat[FatCachePosition + i]

\* Writing the whole window back, at the end of the table too, changes no
\* sector without an entry in it (fat.c:172-175, 210).
BehindUntouched ==
    [][~failed' => \A q \in Area : q > LastSector => fat'[q] = fat[q]]_tableVars

Allocates == at = "scan" /\ at' = "idle" /\ returned' # 0

\* "Find a free cluster in the FAT" (fat.c:213): the cluster that
\* fat_alloc_cluster returns was free on the disk.
AllocFindsFree == [][Allocates => OnDisk(returned') = FREE]_tableVars

Map == INSTANCE FatMap WITH table  <- [k \in Cluster |-> OnDisk(k)],
                            answer <- returned

\* While the disk works the window does not show: each call reads or changes
\* the one entry it is about, and an allocation takes the lowest free cluster
\* (fat.c:182-224).
IsMap == Map!Spec
================================================================================
