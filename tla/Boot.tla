---------------------------------- MODULE Boot ----------------------------------
(******************************************************************************)
(* The boot: Stage1 loads Stage2, which loads the kernel and hands it the     *)
(* memory map.  The kernel's own start is not part of it.                     *)
(******************************************************************************)
EXTENDS Stage1, Stage2

bootVars == <<machine, pc, partition_entry, stage1Vars, stage2Vars>>

--------------------------------------------------------------------------------
(* What is on the disk of a machine m, without the loader.                    *)

\* The sector a volume begins with, and what it says.
Offset(m) == IF m.floppy THEN 0 ELSE m.partition
BootSector(m) == m.disk[Offset(m)][1]

\* What the table says of a cluster.
TableSector(m, c) == Offset(m) + BootSector(m).ReservedSectors + c \div ENTRIES
Linked(m, c) ==
    Widened(FAT_Detect(BootSector(m)), m.disk[TableSector(m, c)][(c % ENTRIES) + 1].next)

\* A place is a sector of a cluster.
SectorAt(m, at) ==
    Offset(m) + DataSection(BootSector(m)) + (at.cluster - 2) * BootSector(m).SectorsPerCluster
        + at.sector

\* What begins at a cluster lies at these places, one after the other.
LiesAt(m, first, places) ==
    /\ places \in Seq([cluster : m.clusters, sector : 0 .. BootSector(m).SectorsPerCluster - 1])
    /\ places # <<>> => places[1] = [cluster |-> first, sector |-> 0]
    /\ \A n \in DOMAIN places :
        LET at == places[n] IN
        /\ SectorAt(m, at) \in DOMAIN m.disk
        /\ n < Len(places) =>
              /\ TableSector(m, at.cluster) \in DOMAIN m.disk
              /\ places[n + 1] =
                    IF at.sector + 1 < BootSector(m).SectorsPerCluster
                    THEN [cluster |-> at.cluster, sector |-> at.sector + 1]
                    ELSE [cluster |-> Linked(m, at.cluster), sector |-> 0]

IsNamed(m, x, name) == x \in m.entries /\ x.name = name

\* A directory holds an entry of the kernel.
HoldsEntry(m, first) ==
    /\ LiesAt(m, first, m.bootPlaces)
    /\ \E n \in DOMAIN m.bootPlaces, j \in 1 .. SECTOR_SIZE :
          IsNamed(m, m.disk[SectorAt(m, m.bootPlaces[n])][j], Path[2])

\* A file holds the kernel.
HoldsKernel(m, first) ==
    /\ LiesAt(m, first, m.kernelPlaces)
    /\ Len(m.kernel) <= Len(m.kernelPlaces) * SECTOR_SIZE
    /\ \A n \in DOMAIN m.kernelPlaces, j \in 1 .. SECTOR_SIZE :
          LET k == (n - 1) * SECTOR_SIZE + j
          IN  k <= Len(m.kernel) => m.kernel[k] = m.disk[SectorAt(m, m.kernelPlaces[n])][j]

\* The directory "boot" at a place of the root directory, the first one if there is
\* another, and whatever has its name.
SoundRoot(m) ==
    LET n == (m.bootAt - 1) \div SECTOR_SIZE
        root == RootLba(BootSector(m))
    IN  /\ m.bootAt \in Nat
        /\ m.bootAt # 0 =>
            /\ \A k \in 0 .. n : root + k \in m.root /\ Offset(m) + root + k \in DOMAIN m.disk
            /\ IsNamed(m, m.disk[Offset(m) + root + n][((m.bootAt - 1) % SECTOR_SIZE) + 1], Path[1])
            /\ BootSector(m).DirEntryCount = 0 \/ m.bootAt <= BootSector(m).DirEntryCount
        /\ \A e \in m.entries : e.name = Path[1] =>
            e.dir = TRUE /\ e.size = 0 /\ HoldsEntry(m, e.first)

HeaderSet ==
    [Load : BOOLEAN, Offset : Nat, VirtualAddress : Nat, FileSize : Nat, MemorySize : Nat]

\* A kernel's program headers are in its table, and its segments do not overlap.
SoundKernel(m) ==
    LET table == m.kernel[1].ProgramHeaderTablePosition
        count == m.kernel[1].ProgramHeaderTableEntryCount
        h(i) == m.kernel[table + i]
    IN  /\ Len(m.kernel) \in Nat \ {0} /\ table \in Nat \ {0} /\ count \in Nat
        /\ table + count <= Len(m.kernel)
        /\ m.headers = {h(i) : i \in 1 .. count}
        /\ \A i \in 1 .. count :
            /\ h(i) \in HeaderSet
            /\ h(i).Load => /\ h(i).FileSize <= h(i).MemorySize
                            /\ h(i).VirtualAddress + h(i).MemorySize <= MEMORY
        /\ \A i, j \in 1 .. count : i # j /\ h(i).Load /\ h(j).Load =>
              \/ h(i).VirtualAddress + h(i).MemorySize <= h(j).VirtualAddress
              \/ h(j).VirtualAddress + h(j).MemorySize <= h(i).VirtualAddress
        /\ \A e \in m.entries : e.name = Path[2] =>
              e.dir = FALSE /\ e.size \in 0 .. Len(m.kernel) /\ HoldsKernel(m, e.first)

\* The table of the boot sector lists all of stage 2, piece by piece, with sectors that
\* int 13h can be told with and without the extensions.
SoundLoader(m) ==
    LET piece == m.stage2_location IN
    /\ piece \in Seq([lba : Nat, count : Nat]) /\ piece # <<>>
    /\ m.image # 0
    /\ piece[1].lba = IF m.stage2 = 0 THEN 0 ELSE m.image
    /\ \A i \in DOMAIN piece : piece[i].lba # 0 =>
        /\ piece[i].count > 0
        /\ piece[i].lba < LBA_WIDTH /\ piece[i].lba < CYLINDERS * HEADS * SECTORS
        /\ i < Len(piece)
        /\ piece[i + 1].lba = IF piece[i].lba + piece[i].count = m.image + m.stage2
                              THEN 0 ELSE piece[i].lba + piece[i].count

ASSUME BootAssumption ==
    /\ MEMORY \in Nat /\ {RETRIES, LBA_WIDTH, END} \subseteq Nat \ {0}
    /\ \A m \in Machines :
        LET bs == BootSector(m) IN
        /\ {bs.ReservedSectors, DataSection(bs), RootLba(bs), bs.DirEntryCount, m.blocks,
            m.image, m.stage2} \subseteq Nat
        /\ bs.SectorsPerCluster \in Nat \ {0}
        /\ m.clusters \subseteq 2 .. END - 1
        /\ SoundLoader(m) /\ SoundRoot(m) /\ SoundKernel(m)

--------------------------------------------------------------------------------
BootInit ==
    /\ machine \in Machines
    /\ pc = "start"
    /\ partition_entry = "junk"
    /\ Stage1Init
    /\ Stage2Init

BootNext ==
    \/ Stage1Next /\ UNCHANGED stage2Vars
    \/ Stage2Next /\ UNCHANGED stage1Vars

BootSpec == BootInit /\ [][BootNext]_bootVars /\ WF_bootVars(BootNext)

--------------------------------------------------------------------------------
\* What the kernel file asks for is in memory.
InMemory(h) ==
    \A a \in 0 .. h.MemorySize - 1 :
        memory[h.VirtualAddress + a]
            = IF a < h.FileSize THEN machine.kernel[h.Offset + a + 1] ELSE Zero

Small(h) == h.FileSize < COUNT_WIDTH /\ h.MemorySize < COUNT_WIDTH

\* When the kernel is started, memory holds each of its segments with zeros
\* behind what the file gives, whichever clusters the file lies in and however
\* its window moved over the table, as long as the segment is smaller than what
\* memcpy and memset can count; and the map it is given has every block but,
\* maybe, the last (elf.c:52-94, stage2/fat.c:252-367, memdetect.c:10-35).
HandedOver ==
    pc = "kernel" /\ ~unnoticed =>
        /\ \A h \in machine.headers : h.Load /\ Small(h) => InMemory(h)
        /\ regions = [k \in 1 .. Len(regions) |-> k]
        /\ Len(regions) = IF machine.endsWithLast /\ machine.blocks > 0
                          THEN machine.blocks - 1 ELSE machine.blocks

\* The loader never runs into something that is not there: a NULL file, a piece
\* of stage 2 that was not read, memory behind g_MemRegions.  The exceptions: a
\* sector that cannot be read, a kernel that is not there, an entry of "boot" that
\* is the last of the root directory's first sector, which FAT_Close leaves for
\* the next one, a BIOS that counts in extensions_dap, and a map that is too long
\* (stage1/boot.asm:121-138, 261-319, stage2/fat.c:374-385, 457-512).
NeverLost ==
    pc = "lost" => \/ failed \/ unnoticed
                   \/ machine.bootAt \in {0, SECTOR_SIZE}
                   \/ machine.reports
                   \/ machine.blocks > MAX_REGIONS

\* A boot ends: in the kernel, in the endless loop of an error, or in a restart.
BootEnds == <>(pc \in {"kernel", "halt", "reboot", "lost"} \/ unnoticed)
================================================================================
