--------------------------------- MODULE Stage2 ---------------------------------
(******************************************************************************)
(* The second stage (src/bootloader/stage2): it finds the partition, opens    *)
(* the FAT volume on it, collects the memory map, reads /boot/kernel.elf,     *)
(* opening it anew for each segment and reading up to it, and jumps to it.    *)
(*                                                                            *)
(* A sector is SECTOR_SIZE pieces, each a directory entry, the ELF header, a  *)
(* program header or a part of a segment, and a sector of the table is        *)
(* ENTRIES numbers.  Numbers of clusters are small: END stands for 0xFFFFFFF8 *)
(* and Eoc[t] for the end mark in a table of type t.                          *)
(******************************************************************************)
EXTENDS Bios

CONSTANTS
    SECTOR_SIZE, ENTRIES, FAT_CACHE_SIZE, MAX_FILE_HANDLES, MAX_REGIONS,
    MEMORY_LOAD_SIZE,   \* pieces in the buffer for loading: 0x10000 bytes
    COUNT_WIDTH,        \* memcpy and memset count with 16 bits: 0x10000 bytes
    MEMORY,             \* pieces of the memory that segments are loaded to
    FAT12_CLUSTERS,     \* a volume of fewer clusters is taken for FAT12: 0xFF5
    END, Eoc,
    Junk, Zero, Unset   \* pieces that no file has

ASSUME Stage2Assumption ==
    /\ {SECTOR_SIZE, ENTRIES, FAT_CACHE_SIZE, MAX_FILE_HANDLES, MAX_REGIONS,
        MEMORY_LOAD_SIZE, COUNT_WIDTH} \subseteq Nat \ {0}
    /\ DOMAIN Eoc = {12, 16, 32} /\ \A t \in {12, 16, 32} : Eoc[t] < END

VARIABLES
    fat,                \* the disk's and the volume's parameters, and FatCache
    file,               \* RootDirectory and OpenedFiles
    walk,               \* FAT_Open: how many names it has gone through, the file
                        \* it has come to, and where it returns to
    want, out,          \* FAT_Read: what is still to be read, what has been
    e820, regions,      \* Memory_Detect: the last answer, and g_MemRegions
    elf,                \* the locals of ELF_Read
    memory,
    failed,             \* a sector could not be read
    unnoticed           \* what was read is not what the disk has, and no one asked

fileVars == <<file, walk, want, out>>
elfVars == <<elf, memory>>
mapVars == <<e820, regions>>
stage2Vars == <<fat, fileVars, mapVars, elfVars, failed, unnoticed>>

ROOT_DIRECTORY_HANDLE == -1
Handle == 0 .. MAX_FILE_HANDLES - 1
Path == <<"BOOT", "KERNEL">>

NoFile == [Opened |-> FALSE, Position |-> 0, Size |-> 0, IsDirectory |-> FALSE,
           FirstCluster |-> 0, CurrentCluster |-> 0, CurrentSectorInCluster |-> 0,
           Buffer |-> [i \in 1 .. SECTOR_SIZE |-> Junk]]

Stage2Init ==
    /\ fat = [partitionOffset |-> 0, BS |-> <<>>, DataSectionLba |-> 0, FatType |-> 0,
              FatCache |-> [k \in 1 .. FAT_CACHE_SIZE |-> [i \in 1 .. ENTRIES |-> [next |-> 0]]],
              FatCachePosition |-> END]
    /\ file = [h \in Handle \cup {ROOT_DIRECTORY_HANDLE} |-> NoFile]
    /\ walk = [depth |-> 0, current |-> ROOT_DIRECTORY_HANDLE, then |-> "header"]
    /\ want = 0
    /\ out = <<>>
    /\ e820 = [ret |-> 0, block |-> 0, continuation |-> 0]
    /\ regions = <<>>
    /\ elf = [header |-> Junk, headers |-> <<>>, i |-> 1, virtAddress |-> 0]
    /\ memory = [a \in 0 .. MEMORY - 1 |-> Unset]
    /\ failed = FALSE
    /\ unnoticed = FALSE

--------------------------------------------------------------------------------
(* disk.c, mbr.c and the functions of fat.c that the steps are made of.       *)

DISK_LBA2CHS(lba) ==
    <<(lba \div SECTORS) \div HEADS, (lba % SECTORS) + 1, (lba \div SECTORS) % HEADS>>

\* The outcomes of DISK_ReadSectors: a fault that is gone within its three tries,
\* with a reset behind each, does not show.
DISK_ReadSectors(lba, n) ==
    LET l == AtCHS(DISK_LBA2CHS(lba))
    IN  {[ok |-> FALSE, fault |-> Present(l, n), data |-> <<>>]}
        \cup (IF Present(l, n) THEN {[ok |-> TRUE, fault |-> FALSE, data |-> OnDisk(l, n)]}
              ELSE {})

Partition_ReadSectors(lba, n) == DISK_ReadSectors(lba + fat.partitionOffset, n)

\* A mutant of FAT_ClusterToLba: clusters are counted from 0.
FAT_ClusterToLba_FromZero(c) == fat.DataSectionLba + c * fat.BS.SectorsPerCluster

FAT_ClusterToLba(c) == fat.DataSectionLba + (c - 2) * fat.BS.SectorsPerCluster

\* The file with its next sector in the buffer, or with the old one.
Filled(f, lba) ==
    {[file |-> IF r.ok THEN [f EXCEPT !.Buffer = r.data[1]] ELSE f, ok |-> r.ok,
      fault |-> r.fault]
        : r \in Partition_ReadSectors(lba, 1)}

InCache(sector) ==
    fat.FatCachePosition <= sector /\ sector < fat.FatCachePosition + FAT_CACHE_SIZE

\* The driver with the sector in its window.  Whether it could be read is not
\* looked at: the old contents are then taken for the new.
Windows(sector) ==
    IF InCache(sector) THEN {[fat |-> fat, ok |-> TRUE]}
    ELSE {[fat |-> [fat EXCEPT !.FatCachePosition = sector,
                               !.FatCache = IF r.ok THEN r.data ELSE @],
           ok  |-> r.ok]
             : r \in Partition_ReadSectors(fat.BS.ReservedSectors + sector, FAT_CACHE_SIZE)}

\* What an entry of the table says: the end marks of FAT12 and FAT16 are widened,
\* that of FAT32 is not.
Widened(type, entry) == IF type # 32 /\ entry >= Eoc[type] THEN END ELSE entry

\* An entry of FAT12 that begins in the last byte of the window goes on in
\* FatCachePosition, which lies behind it.
Straddles(window, c) ==
    /\ window.FatType = 12
    /\ c \in machine.straddles
    /\ c \div ENTRIES = window.FatCachePosition + FAT_CACHE_SIZE - 1

FAT_NextCluster(c) ==
    UNION {LET k == c \div ENTRIES - w.fat.FatCachePosition + 1
               entry == Widened(w.fat.FatType, w.fat.FatCache[k][(c % ENTRIES) + 1].next)
               torn == Straddles(w.fat, c)
           IN  {[cluster |-> n, fat |-> w.fat, ok |-> w.ok /\ n = entry]
                   : n \in IF torn THEN {entry, END} ELSE {entry}}
              : w \in Windows(c \div ENTRIES)}

--------------------------------------------------------------------------------
(* The beginning of start(), up to the kernel.                                *)

DISK_Initialize ==
    /\ pc = "stage2"
    /\ pc' \in {"partition", "halt"}
    /\ UNCHANGED <<machine, partition_entry, stage2Vars>>

\* Its entry lies where the FAT driver's data will.
MBR_DetectPartition ==
    /\ pc = "partition"
    /\ fat' = [fat EXCEPT !.partitionOffset =
                  IF machine.floppy THEN 0
                  ELSE IF partition_entry = "entry" THEN machine.partition ELSE END]
    /\ pc' = "volume"
    /\ UNCHANGED <<machine, partition_entry, fileVars, mapVars, elfVars, failed, unnoticed>>

SectorsOfFat(bs) == IF bs.SectorsPerFat = 0 THEN bs.LargeSectorsPerFat ELSE bs.SectorsPerFat
Tables(bs) == bs.ReservedSectors + SectorsOfFat(bs) * bs.FatCount
DataSection(bs) ==
    IF bs.SectorsPerFat = 0 THEN Tables(bs)
    ELSE Tables(bs) + (bs.DirEntryCount + SECTOR_SIZE - 1) \div SECTOR_SIZE
RootLba(bs) ==
    IF bs.SectorsPerFat = 0
    THEN DataSection(bs) + (bs.RootDirectoryCluster - 2) * bs.SectorsPerCluster
    ELSE Tables(bs)

FAT_Detect(bs) ==
    IF (bs.TotalSectors - DataSection(bs)) \div bs.SectorsPerCluster < FAT12_CLUSTERS THEN 12
    ELSE IF bs.SectorsPerFat # 0 THEN 16 ELSE 32

\* FAT_Initialize.  On FAT32 the root directory has no size.
FAT_Initialize ==
    /\ pc = "volume"
    /\ partition_entry' = "driver"
    /\ \E boot \in Partition_ReadSectors(0, 1) :
       IF ~boot.ok
       THEN pc' = "halt" /\ failed' = boot.fault /\ UNCHANGED <<fat, file>>
       ELSE LET bs == boot.data[1][1]
                root == [NoFile EXCEPT !.Opened = TRUE, !.IsDirectory = TRUE,
                                       !.Size = bs.DirEntryCount,
                                       !.FirstCluster = RootLba(bs),
                                       !.CurrentCluster = RootLba(bs)]
            IN  \E l \in Filled(root, RootLba(bs)) :
                    /\ fat' = [fat EXCEPT !.BS = bs, !.DataSectionLba = DataSection(bs),
                                          !.FatType = FAT_Detect(bs)]
                    /\ file' = [h \in DOMAIN file |->
                                   IF h = ROOT_DIRECTORY_HANDLE THEN l.file ELSE NoFile]
                    /\ pc' = IF l.ok THEN "detect" ELSE "halt"
                    /\ failed' = l.fault
    /\ UNCHANGED <<machine, walk, want, out, mapVars, elfVars, unnoticed>>

\* int 15h: the block behind the continuation, and the next continuation, which
\* is 0 with the last block or not before the map is over.
E820GetNextBlock(c) ==
    IF c >= machine.blocks THEN [ret |-> -1, block |-> e820.block, continuation |-> c]
    ELSE [ret |-> 1, block |-> c + 1,
          continuation |-> IF c + 1 = machine.blocks /\ machine.endsWithLast THEN 0 ELSE c + 1]

DetectFirst ==
    /\ pc = "detect"
    /\ e820' = E820GetNextBlock(0)
    /\ pc' = "map"
    /\ UNCHANGED <<machine, partition_entry, fat, fileVars, regions, elfVars, failed, unnoticed>>

\* A mutant of InMap: the continuation is not looked at.
InMap_AnyContinuation == e820.ret > 0

InMap == e820.ret > 0 /\ e820.continuation # 0

\* The loop of Memory_Detect, which does not ask whether there is room.
DetectNext ==
    /\ pc = "map"
    /\ \/ /\ InMap
          /\ regions' = Append(regions, e820.block)
          /\ e820' = E820GetNextBlock(e820.continuation)
          /\ pc' = IF Len(regions) < MAX_REGIONS THEN "map" ELSE "lost"
       \/ /\ ~InMap
          /\ pc' = "elf"
          /\ UNCHANGED mapVars
    /\ UNCHANGED <<machine, partition_entry, fat, fileVars, elfVars, failed, unnoticed>>

--------------------------------------------------------------------------------
(* FAT_Read and FAT_Close                                                     *)

Read(f, n) ==
    /\ want' = IF ~f.IsDirectory \/ f.Size # 0 THEN Min({n, f.Size - f.Position}) ELSE n
    /\ out' = <<>>

\* The file with its next sector; more says whether it has one.
NextSector(f) ==
    IF walk.current = ROOT_DIRECTORY_HANDLE
    THEN {[file |-> l.file, fat |-> fat, more |-> l.ok, fault |-> l.fault, unnoticed |-> FALSE]
             : l \in Filled([f EXCEPT !.CurrentCluster = @ + 1], f.CurrentCluster + 1)}
    ELSE LET s == f.CurrentSectorInCluster + 1
             places == IF s < fat.BS.SectorsPerCluster
                       THEN {[cluster |-> f.CurrentCluster, fat |-> fat, ok |-> TRUE]}
                       ELSE FAT_NextCluster(f.CurrentCluster)
             sector == s % fat.BS.SectorsPerCluster
         IN  UNION {LET g == [f EXCEPT !.CurrentCluster = p.cluster,
                                       !.CurrentSectorInCluster = sector]
                    IN  IF p.cluster >= END
                        THEN {[file |-> [g EXCEPT !.Size = g.Position], fat |-> p.fat,
                               more |-> FALSE, fault |-> FALSE, unnoticed |-> ~p.ok]}
                        ELSE {[file |-> l.file, fat |-> p.fat, more |-> l.ok, fault |-> l.fault,
                               unnoticed |-> ~p.ok]
                                 : l \in Filled(g, FAT_ClusterToLba(p.cluster) + sector)}
                       : p \in places}

\* One turn of the loop of FAT_Read.  A sector that cannot be read ends it, and
\* shows only if there was more to come and the result is looked at, which it is
\* not in front of the program headers: else the old one is read on.
ReadPiece ==
    /\ want > 0
    /\ LET f == file[walk.current]
           from == f.Position % SECTOR_SIZE
           take == Min({want, SECTOR_SIZE - from})
           moved == [f EXCEPT !.Position = @ + take]
       IN
       /\ out' = out \o [i \in 1 .. take |-> f.Buffer[from + i]]
       /\ IF from + take < SECTOR_SIZE
          THEN /\ want' = want - take
               /\ file' = [file EXCEPT ![walk.current] = moved]
               /\ UNCHANGED <<fat, failed, unnoticed>>
          ELSE \E n \in NextSector(moved) :
               /\ want' = IF n.more THEN want - take ELSE 0
               /\ file' = [file EXCEPT ![walk.current] = n.file]
               /\ fat' = n.fat
               /\ failed' = (failed \/ n.fault)
               /\ unnoticed' = (unnoticed \/ n.unnoticed
                                    \/ (n.fault /\ (want = take \/ pc = "table")))
    /\ UNCHANGED <<machine, pc, partition_entry, walk, mapVars, elfVars>>

\* A mutant of FAT_Close: the root directory is read on.
FAT_Close_KeepsRoot ==
    [file EXCEPT ![walk.current] =
        IF walk.current = ROOT_DIRECTORY_HANDLE THEN [@ EXCEPT !.Position = 0]
        ELSE [@ EXCEPT !.Opened = FALSE]]

\* The root directory's sector in the buffer stays.
FAT_Close ==
    [file EXCEPT ![walk.current] =
        IF walk.current = ROOT_DIRECTORY_HANDLE
        THEN [@ EXCEPT !.Position = 0, !.CurrentCluster = file[walk.current].FirstCluster]
        ELSE [@ EXCEPT !.Opened = FALSE]]

--------------------------------------------------------------------------------
(* FAT_Open                                                                   *)

\* It begins in the root directory and comes back to the place then.
FAT_Open(then) ==
    /\ walk' = [depth |-> 0, current |-> ROOT_DIRECTORY_HANDLE, then |-> then]
    /\ Read(file[ROOT_DIRECTORY_HANDLE], 1)
    /\ pc' = "find"

\* The buffer holds something behind the directory: what a search finds there
\* depends on the disk.
Behind ==
    file[walk.current].CurrentCluster
        \notin IF walk.current = ROOT_DIRECTORY_HANDLE THEN machine.root ELSE machine.clusters

\* FAT_FindFile looks at every entry, the erased ones and those behind the end
\* mark too.  A file that is not there is NULL, which nobody looks at.
FAT_FindFile ==
    /\ pc = "find" /\ want = 0
    /\ \/ /\ out = <<>>
          /\ pc' = "lost"
          /\ file' = FAT_Close
          /\ UNCHANGED <<want, out>>
       \/ /\ out # <<>>
          /\ out[1] \in machine.entries /\ out[1].name = Path[walk.depth + 1]
          /\ pc' = "entry"
          /\ file' = FAT_Close
          /\ UNCHANGED <<want, out>>
       \/ /\ out # <<>>
          /\ ~(out[1] \in machine.entries /\ out[1].name = Path[walk.depth + 1])
          /\ IF Behind
             THEN pc' = "lost" /\ UNCHANGED <<want, out>>
             ELSE Read(file[walk.current], 1) /\ UNCHANGED pc
          /\ UNCHANGED file
    /\ UNCHANGED <<machine, partition_entry, fat, walk, mapVars, elfVars, failed, unnoticed>>

\* The first handle that is free: there is one, since a file is closed before the
\* next is opened (the boot would stand still here, which BootEnds excludes).  A
\* name that is no directory is opened as one.
FAT_OpenEntry ==
    /\ pc = "entry"
    /\ \E h \in Handle :
        /\ ~file[h].Opened /\ \A g \in Handle : ~file[g].Opened => h <= g
        /\ LET e == out[1]
               opened == [NoFile EXCEPT !.IsDirectory = e.dir, !.Size = e.size,
                                        !.FirstCluster = e.first, !.CurrentCluster = e.first]
           IN  \E l \in Filled(opened, FAT_ClusterToLba(e.first)) :
               /\ file' = [file EXCEPT ![h] = [l.file EXCEPT !.Opened = l.ok]]
               /\ failed' = (failed \/ l.fault)
               /\ walk' = [walk EXCEPT !.depth = @ + 1, !.current = h]
               /\ IF ~l.ok
                  THEN pc' = "lost" /\ UNCHANGED <<want, out>>
                  ELSE IF walk.depth + 1 < Len(Path)
                  THEN pc' = "find" /\ Read(l.file, 1)
                  ELSE pc' = walk.then /\ want' = 0 /\ out' = <<>>
    /\ UNCHANGED <<machine, partition_entry, fat, mapVars, elfVars, unnoticed>>

--------------------------------------------------------------------------------
(* ELF_Read                                                                   *)

\* A step of it that reads n pieces of the file next.
Reads(here, there, n) ==
    /\ pc = here /\ want = 0
    /\ pc' = there
    /\ Read(file[walk.current], n)
    /\ UNCHANGED <<machine, partition_entry, fat, file, walk, mapVars, failed, unnoticed>>

\* A read that came short of n pieces stops the boot.
Short(here, n) ==
    /\ pc = here /\ want = 0
    /\ Len(out) # n
    /\ pc' = "halt"
    /\ UNCHANGED <<machine, partition_entry, stage2Vars>>

Header == elf.headers[elf.i]

ELF_Read ==
    /\ pc = "elf"
    /\ FAT_Open("header")
    /\ UNCHANGED <<machine, partition_entry, fat, file, mapVars, elfVars, failed, unnoticed>>

\* The header, which is not checked though it is compared, what lies in front of
\* the table of program headers, and the table.
ReadHeader ==
    \/ Reads("header", "gap", 1) /\ UNCHANGED elfVars
    \/ Short("gap", 1)
    \/ /\ pc = "gap" /\ Len(out) = 1
       /\ Reads("gap", "table", out[1].ProgramHeaderTablePosition - 1)
       /\ elf' = [elf EXCEPT !.header = out[1]]
       /\ UNCHANGED memory
    \/ /\ Reads("table", "headers", elf.header.ProgramHeaderTableEntryCount)
       /\ UNCHANGED elfVars
    \/ Short("headers", elf.header.ProgramHeaderTableEntryCount)

ReadHeaders ==
    /\ pc = "headers" /\ want = 0
    /\ Len(out) = elf.header.ProgramHeaderTableEntryCount
    /\ elf' = [elf EXCEPT !.headers = out]
    /\ file' = FAT_Close
    /\ pc' = IF Range(out) \subseteq machine.headers THEN "segment" ELSE "lost"
    /\ UNCHANGED <<machine, partition_entry, fat, walk, want, out, mapVars, memory,
                   failed, unnoticed>>

\* A mutant of Cleared: only what the file does not fill.
Cleared_FileSize(h) ==
    [a \in DOMAIN memory |->
        IF h.VirtualAddress <= a /\ a < h.VirtualAddress + (h.FileSize % COUNT_WIDTH)
        THEN Zero ELSE memory[a]]

\* memset.
Cleared(h) ==
    [a \in DOMAIN memory |->
        IF h.VirtualAddress <= a /\ a < h.VirtualAddress + (h.MemorySize % COUNT_WIDTH)
        THEN Zero ELSE memory[a]]

\* memcpy.
Copied(at, data) ==
    [a \in DOMAIN memory |->
        IF at <= a /\ a < at + (Len(data) % COUNT_WIDTH) THEN data[a - at + 1] ELSE memory[a]]

\* The next program header: a segment is cleared and the file opened anew.
Segment ==
    /\ pc = "segment"
    /\ \/ /\ elf.i > Len(elf.headers)
          /\ pc' = "kernel"
          /\ UNCHANGED <<walk, want, out, elfVars>>
       \/ /\ elf.i <= Len(elf.headers)
          /\ ~Header.Load
          /\ elf' = [elf EXCEPT !.i = @ + 1]
          /\ UNCHANGED <<pc, walk, want, out, memory>>
       \/ /\ elf.i <= Len(elf.headers)
          /\ Header.Load
          /\ memory' = Cleared(Header)
          /\ elf' = [elf EXCEPT !.virtAddress = Header.VirtualAddress]
          /\ FAT_Open("seek")
    /\ UNCHANGED <<machine, partition_entry, fat, file, mapVars, failed, unnoticed>>

\* The pieces in front of the segment are read and forgotten.
Seek ==
    LET n == Min({Header.Offset, MEMORY_LOAD_SIZE}) IN
    \/ Reads("seek", "sought", n) /\ Header.Offset > 0 /\ UNCHANGED elfVars
    \/ Short("sought", n)
    \/ /\ pc = "sought" /\ want = 0 /\ Len(out) = n
       /\ elf' = [elf EXCEPT !.headers[elf.i].Offset = @ - n]
       /\ pc' = "seek"
       /\ UNCHANGED <<machine, partition_entry, fat, fileVars, mapVars, memory, failed, unnoticed>>

\* The segment is read and copied to its place; then the file is closed.
Load ==
    LET n == Min({Header.FileSize, MEMORY_LOAD_SIZE}) IN
    \/ /\ Reads("seek", "loaded", n)
       /\ Header.Offset = 0 /\ Header.FileSize > 0
       /\ UNCHANGED elfVars
    \/ Short("loaded", n)
    \/ /\ pc = "loaded" /\ want = 0 /\ Len(out) = n
       /\ memory' = Copied(elf.virtAddress, out)
       /\ elf' = [elf EXCEPT !.headers[elf.i].FileSize = @ - n, !.virtAddress = @ + n]
       /\ pc' = "seek"
       /\ UNCHANGED <<machine, partition_entry, fat, fileVars, mapVars, failed, unnoticed>>
    \/ /\ pc = "seek" /\ Header.Offset = 0 /\ Header.FileSize = 0
       /\ file' = FAT_Close
       /\ elf' = [elf EXCEPT !.i = @ + 1]
       /\ pc' = "segment"
       /\ UNCHANGED <<machine, partition_entry, fat, walk, want, out, mapVars, memory,
                   failed, unnoticed>>

Stage2Next ==
    \/ DISK_Initialize \/ MBR_DetectPartition \/ FAT_Initialize
    \/ DetectFirst \/ DetectNext
    \/ ReadPiece \/ FAT_FindFile \/ FAT_OpenEntry
    \/ ELF_Read \/ ReadHeader \/ ReadHeaders
    \/ Segment \/ Seek \/ Load
================================================================================
