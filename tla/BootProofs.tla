------------------------------- MODULE BootProofs -------------------------------
(******************************************************************************)
(* Proofs about Boot, for every machine that is sound: the kernel that is     *)
(* started is the one on the disk, and the loader runs into nothing that is   *)
(* not there but in the cases NeverLost names.                                *)
(******************************************************************************)
EXTENDS Boot, SequenceTheorems, TLAPS

--------------------------------------------------------------------------------
(* The inductive invariant.                                                   *)

Loading == {"loop", "read", "reset"}
Before == Loading \cup {"start", "stage2", "partition", "volume"}
Opening == {"find", "entry"}
Segments == {"seek", "sought", "loaded"}
InFile == {"header", "gap", "table", "headers"} \cup Segments
Going == {"detect", "map", "elf", "segment"} \cup Opening \cup InFile

\* Stage 1: what has come is stage 2's, and the next piece is behind it.
Whole ==
    LET piece == machine.stage2_location IN
    /\ es \in Nat
    /\ stage2 = [k \in 1 .. machine.stage2 |-> stage2[k]]
    /\ \A k \in DOMAIN stage2 : k <= es => stage2[k] = machine.disk[machine.image + k - 1]
    /\ pc \in {"start", "loop"} =>
          /\ si \in DOMAIN piece
          /\ piece[si].lba = IF es = machine.stage2 THEN 0 ELSE machine.image + es
    /\ pc \in {"read", "reset"} =>
          \E i \in DOMAIN piece :
              /\ si = i + 1 /\ piece[i].lba = machine.image + es /\ piece[i].lba # 0
              /\ request = [lba |-> piece[i].lba, count |-> piece[i].count,
                            asked |-> piece[i].count]

\* Stage 2 has not begun.
Untouched ==
    /\ failed = FALSE /\ unnoticed = FALSE
    /\ fat \in [partitionOffset : Int, BS : {<<>>}, DataSectionLba : {0}, FatType : {0},
                FatCache : {fat.FatCache}, FatCachePosition : {END}]
    /\ file = [h \in Handle \cup {ROOT_DIRECTORY_HANDLE} |-> NoFile]
    /\ walk = [depth |-> 0, current |-> ROOT_DIRECTORY_HANDLE, then |-> "header"]
    /\ want = 0 /\ out = <<>> /\ regions = <<>>
    /\ elf = [header |-> Junk, headers |-> <<>>, i |-> 1, virtAddress |-> 0]
    /\ memory = [a \in 0 .. MEMORY - 1 |-> Unset]
    /\ pc \in Loading \cup {"stage2", "partition"} => partition_entry = "entry"
    /\ pc = "volume" => fat.partitionOffset = Offset(machine)

\* The memory map: the blocks so far, and what the BIOS has answered last.
Map ==
    LET n == Len(regions)
        answered == e820.ret > 0
    IN  /\ regions \in Seq(Nat) /\ \A k \in 1 .. n : regions[k] = k
        /\ n <= machine.blocks
        /\ e820.ret \in Int
        /\ answered => /\ e820.block = n + 1 /\ n < machine.blocks
                       /\ e820.continuation =
                             IF n + 1 = machine.blocks /\ machine.endsWithLast THEN 0 ELSE n + 1
        /\ ~answered => n = machine.blocks /\ ~(machine.endsWithLast /\ machine.blocks > 0)

MapHanded ==
    /\ regions = [k \in 1 .. Len(regions) |-> k]
    /\ Len(regions) = IF machine.endsWithLast /\ machine.blocks > 0
                      THEN machine.blocks - 1 ELSE machine.blocks

Mapped ==
    /\ pc = "detect" => regions = <<>>
    /\ pc = "map" => Map
    /\ pc \in (Going \ {"detect", "map"}) \cup {"kernel"} => MapHanded

--------------------------------------------------------------------------------
(* As long as nothing was misread without notice.                             *)

\* Where a sector of the volume is read from.
DiskAt(lba) == AtCHS(DISK_LBA2CHS(lba + Offset(machine)))

\* The volume is the one on the disk, and so is what the window holds.
Mounted(v) ==
    LET bs == BootSector(machine) IN
    /\ v \in [partitionOffset : {Offset(machine)}, BS : {bs}, DataSectionLba : {DataSection(bs)},
              FatType : {FAT_Detect(bs)}, FatCache : {v.FatCache}, FatCachePosition : Nat]
    /\ v.FatCachePosition # END =>
          v.FatCache = OnDisk(DiskAt(bs.ReservedSectors + v.FatCachePosition), FAT_CACHE_SIZE)

Handles == Handle \cup {ROOT_DIRECTORY_HANDLE}

\* What a handle is, whatever it is open on.
IsFile(f) ==
    f \in [Opened : BOOLEAN, Position : Nat, Size : Int, IsDirectory : BOOLEAN,
           FirstCluster : {f.FirstCluster}, CurrentCluster : {f.CurrentCluster},
           CurrentSectorInCluster : {f.CurrentSectorInCluster}, Buffer : {f.Buffer}]

\* A file at its place.
OnPlace(f, places) ==
    \E n \in DOMAIN places, j \in 0 .. SECTOR_SIZE - 1 :
        /\ f.Position = (n - 1) * SECTOR_SIZE + j
        /\ f.CurrentCluster = places[n].cluster
        /\ f.CurrentSectorInCluster = places[n].sector
        /\ f.Buffer = machine.disk[SectorAt(machine, places[n])]

\* A search has passed what it has read but the last, up to the place t.
Searching(p, t, name) ==
    /\ p - Len(out) < t /\ p <= t
    /\ p = t /\ out # <<>> => IsNamed(machine, out[1], name)

\* The root directory: the sector in its buffer is not always its first, but it is
\* when "boot" is there.
RootSector(n) == machine.disk[Offset(machine) + RootLba(BootSector(machine)) + n]
Findable == machine.bootAt \notin {0, SECTOR_SIZE}

RootAt(f, n, j) ==
    /\ f.Position = n * SECTOR_SIZE + j
    /\ f.CurrentCluster = f.FirstCluster + n
    /\ n > 0 => f.Buffer = RootSector(n)

Root ==
    LET f == file[ROOT_DIRECTORY_HANDLE] IN
    /\ f.IsDirectory /\ f.FirstCluster = RootLba(BootSector(machine))
    /\ f.Size = BootSector(machine).DirEntryCount
    /\ f.Size # 0 => f.Position + (IF pc = "find" /\ walk.current = ROOT_DIRECTORY_HANDLE
                                   THEN want ELSE 0) <= f.Size
    /\ Findable /\ machine.bootAt < SECTOR_SIZE => f.Buffer = RootSector(0)
    /\ Findable =>
          IF pc = "find" /\ walk.current = ROOT_DIRECTORY_HANDLE
          THEN /\ Searching(f.Position, machine.bootAt, Path[1])
               /\ f.Position < machine.bootAt =>
                     \E n \in 0 .. f.Position, j \in 0 .. SECTOR_SIZE - 1 : RootAt(f, n, j)
          ELSE RootAt(f, 0, 0)

\* The directory "boot".
Directory ==
    pc = "find" /\ walk.current # ROOT_DIRECTORY_HANDLE =>
        LET f == file[walk.current] IN
        /\ f.IsDirectory /\ HoldsEntry(machine, f.FirstCluster)
        /\ \E n \in DOMAIN machine.bootPlaces, j \in 1 .. SECTOR_SIZE :
              LET t == (n - 1) * SECTOR_SIZE + j IN
              /\ IsNamed(machine, machine.disk[SectorAt(machine, machine.bootPlaces[n])][j], Path[2])
              /\ Searching(f.Position, t, Path[2])
              /\ f.Position < t => f.Size = 0 /\ OnPlace(f, machine.bootPlaces)

\* The path.
Walk ==
    /\ pc \in Opening => walk.depth = IF walk.current = ROOT_DIRECTORY_HANDLE THEN 0 ELSE 1
    /\ pc = "find" => want + Len(out) <= 1 /\ (Findable => want + Len(out) = 1)
    /\ pc = "entry" => /\ want = 0 /\ Len(out) = 1
                       /\ IsNamed(machine, out[1], Path[walk.depth + 1])
    /\ pc \notin Opening \cup InFile => want = 0

--------------------------------------------------------------------------------
(* The kernel.                                                                *)

TableAt == machine.kernel[1].ProgramHeaderTablePosition
Count == machine.kernel[1].ProgramHeaderTableEntryCount
Asked(j) == machine.kernel[TableAt + j]

\* The file of the kernel, and what a read has brought.
InKernel ==
    LET f == file[walk.current] IN
    /\ ~f.IsDirectory /\ f.Size <= Len(machine.kernel) /\ HoldsKernel(machine, f.FirstCluster)
    /\ f.Position + want <= f.Size
    /\ f.Position < Len(machine.kernelPlaces) * SECTOR_SIZE => OnPlace(f, machine.kernelPlaces)
    /\ Len(out) <= f.Position
    /\ \A k \in 1 .. Len(out) : out[k] = machine.kernel[(f.Position - Len(out)) + k]

From == file[walk.current].Position - Len(out)

\* How many pieces a step waits for.
Waits ==
    CASE pc = "gap" -> 1
      [] pc = "headers" -> Count
      [] pc = "sought" -> Min({Header.Offset, MEMORY_LOAD_SIZE})
      [] pc = "loaded" -> Min({Header.FileSize, MEMORY_LOAD_SIZE})
      [] OTHER -> 0

\* A sector that could not be read has ended the read short of them.
Missed == want = 0 /\ Len(out) < Waits

\* How much of the segment has been passed and loaded.
Sought == Asked(elf.i).Offset - Header.Offset
Loaded == Asked(elf.i).FileSize - Header.FileSize

Reading ==
    /\ pc \in InFile => walk.current \in Handle
    /\ pc \in {"header", "table", "seek"} => InKernel
    /\ pc \in {"gap", "headers", "sought", "loaded"} =>
          Len(out) + want <= Waits /\ (InKernel \/ Missed)
    /\ pc = "header" => From = 0 /\ want = 0 /\ out = <<>>
    /\ pc = "gap" /\ InKernel => From = 0
    /\ pc = "table" => file[walk.current].Position + want \in {TableAt, file[walk.current].Size}
    /\ pc = "headers" /\ InKernel => From = TableAt \/ Len(out) + want = 0
    /\ pc = "seek" => want = 0 /\ file[walk.current].Position = Sought + Loaded
    /\ pc \in {"sought", "loaded"} /\ InKernel => From = Sought + Loaded
    /\ pc = "sought" => Header.Offset > 0
    /\ pc = "loaded" => Header.Offset = 0 /\ Header.FileSize > 0

\* Memory holds n pieces of a segment and zeros behind.
Holds(h, n) ==
    \A a \in 0 .. h.MemorySize - 1 :
        memory[h.VirtualAddress + a] = IF a < n THEN machine.kernel[h.Offset + a + 1] ELSE Zero

\* The segments in front of the i-th are in memory.
DoneTo(i) == \A j \in 1 .. Count : j < i /\ Asked(j).Load /\ Small(Asked(j)) =>
                Holds(Asked(j), Asked(j).FileSize)

\* The one that is being loaded.
Now ==
    LET h == Asked(elf.i) IN
    /\ elf.i <= Count /\ h.Load
    /\ Header = [h EXCEPT !.Offset = Header.Offset, !.FileSize = Header.FileSize]
    /\ Header.Offset <= h.Offset /\ Header.FileSize <= h.FileSize
    /\ Header.FileSize < h.FileSize => Header.Offset = 0
    /\ elf.virtAddress = h.VirtualAddress + Loaded
    /\ Small(h) => Holds(h, Loaded)
    /\ pc \in Opening => Header = h

IsLoading == pc = "segment" \/ pc \in Segments \/ (pc \in Opening /\ walk.then = "seek")

Segmented ==
    /\ DOMAIN memory = 0 .. MEMORY - 1
    /\ ~IsLoading => elf.i = 1
    /\ pc \in {"table", "headers"} => elf.header = machine.kernel[1]
    /\ IsLoading =>
        /\ elf.headers \in Seq(HeaderSet) /\ Len(elf.headers) = Count
        /\ elf.i \in 1 .. Count + 1
        /\ \A j \in 1 .. Count : j > elf.i \/ (pc = "segment" /\ j = elf.i) =>
              elf.headers[j] = Asked(j)
        /\ DoneTo(elf.i)
        /\ pc # "segment" => Now

Typed ==
    /\ file = [h \in Handles |-> file[h]] /\ \A h \in Handles : IsFile(file[h])
    /\ walk.depth \in 0 .. 2 /\ walk.current \in Handles
    /\ want \in Nat /\ out \in Seq(Range(out))
    /\ elf \in [header : {elf.header}, headers : {elf.headers}, i : Nat, virtAddress : Int]

Returns == walk \in [depth : {walk.depth}, current : {walk.current}, then : {"header", "seek"}]

Good == Typed /\ Mounted(fat) /\ Root /\ Directory /\ Walk /\ Reading /\ Segmented

IInv ==
    /\ machine \in Machines
    /\ pc \in Before \cup Going \cup {"kernel", "halt", "reboot", "lost"}
    /\ pc \in Loading \cup {"start"} /\ ~machine.reports => Whole
    /\ pc \in Before => Untouched
    /\ Returns
    /\ Mapped
    /\ pc \in Going /\ ~unnoticed => Good
    /\ HandedOver /\ NeverLost

--------------------------------------------------------------------------------
(* Numbers.                                                                   *)

LEMMA Divide ==
    ASSUME NEW a \in Nat, NEW n \in Nat, n > 0
    PROVE  /\ a \div n \in Nat /\ a % n \in 0 .. n - 1
           /\ a = (a \div n) * n + (a % n)
OBVIOUS

LEMMA Farther ==
    ASSUME NEW a \in Nat, NEW b \in Nat, NEW d \in Nat, a <= b
    PROVE  a <= b + d
OBVIOUS

LEMMA Multiples ==
    ASSUME NEW n \in Nat
    PROVE  /\ \A a \in Nat : a * n \in Nat /\ (a + 1) * n = a * n + n
           /\ \A a, b \in Nat : a <= b => a * n <= b * n
<1>1. \A a \in Nat : a * n \in Nat /\ (a + 1) * n = a * n + n
  OBVIOUS
<1>2. ASSUME NEW a \in Nat, NEW b \in Nat, a <= b PROVE a * n <= b * n
  <2>1. b - a \in Nat /\ b * n = a * n + (b - a) * n
    BY <1>2
  <2>2. (b - a) * n \in Nat /\ a * n \in Nat
    BY <1>1, <2>1
  <2> QED BY <2>1, <2>2
<1> QED BY <1>1, <1>2

\* Quotient and remainder are unique.
LEMMA DivideOne ==
    ASSUME NEW q \in Nat, NEW j \in Nat, NEW p \in Nat, NEW i \in Nat, NEW n \in Nat,
           j < n, i < n, q * n + j = p * n + i
    PROVE  q = p /\ j = i
<1>1. /\ q * n \in Nat /\ p * n \in Nat
      /\ (q + 1) * n = q * n + n /\ (p + 1) * n = p * n + n
      /\ q + 1 <= p => (q + 1) * n <= p * n
      /\ p + 1 <= q => (p + 1) * n <= q * n
  BY Multiples
<1> DEFINE Q == q * n
           P == p * n
           Q1 == (q + 1) * n
           P1 == (p + 1) * n
<1>2. /\ Q \in Nat /\ P \in Nat /\ Q1 = Q + n /\ P1 = P + n /\ Q + j = P + i
      /\ q + 1 <= p => Q1 <= P
      /\ p + 1 <= q => P1 <= Q
  BY <1>1
<1> HIDE DEF Q, P, Q1, P1
<1>3. q = p
  BY <1>2
<1>4. q = p => Q = P
  BY DEF Q, P
<1> QED BY <1>2, <1>3, <1>4

LEMMA DivideBack ==
    ASSUME NEW q \in Nat, NEW n \in Nat, NEW j \in Nat, j < n
    PROVE  q * n + j \in Nat /\ (q * n + j) \div n = q /\ (q * n + j) % n = j
<1> DEFINE a == q * n + j
<1>1. q * n \in Nat /\ n > 0
  OBVIOUS
<1>2. a \in Nat
  BY <1>1
<1> DEFINE p == a \div n
           i == a % n
<1>3. p \in Nat /\ i \in 0 .. n - 1 /\ a = p * n + i
  BY <1>1, <1>2, Divide
<1> HIDE DEF p, i
<1>4. i \in Nat /\ i < n /\ q * n + j = p * n + i
  BY <1>3
<1>5. q = p /\ j = i
  BY <1>3, <1>4, DivideOne
<1> QED BY <1>2, <1>5 DEF p, i, a

LEMMA Rest ==
    ASSUME NEW s \in Nat, NEW n \in Nat, n > 0
    PROVE  /\ s < n => s % n = s
           /\ s = n => s % n = 0
<1>1. s = 0 * n + s /\ n = 1 * n + 0
  OBVIOUS
<1>2. s < n => s % n = s
  BY <1>1, DivideBack
<1>3. n % n = 0
  BY <1>1, DivideBack
<1> QED BY <1>2, <1>3

LEMMA SectorSize ==
    SECTOR_SIZE \in Nat /\ SECTOR_SIZE > 0
BY Stage2Assumption

LEMMA MinTwo ==
    ASSUME NEW a \in Int, NEW b \in Int
    PROVE  Min({a, b}) = IF a <= b THEN a ELSE b
<1> DEFINE m == IF a <= b THEN a ELSE b
<1>1. m \in {a, b} /\ \A y \in {a, b} : m <= y
  OBVIOUS
<1>2. \A x \in {a, b} : (\A y \in {a, b} : x <= y) => x = m
  OBVIOUS
<1>3. PICK x \in {a, b} : x = Min({a, b}) /\ \A y \in {a, b} : x <= y
  BY <1>1 DEF Min
<1> QED BY <1>2, <1>3

\* Where a read stands: piece j of the n-th sector, from 0.
LEMMA Place ==
    ASSUME NEW n \in Nat, NEW j \in Nat, j < SECTOR_SIZE, NEW p, p = n * SECTOR_SIZE + j
    PROVE  /\ p \in Nat /\ p % SECTOR_SIZE = j /\ p \div SECTOR_SIZE = n
           /\ n * SECTOR_SIZE \in Nat
           /\ (n + 1) * SECTOR_SIZE = n * SECTOR_SIZE + SECTOR_SIZE
<1>1. SECTOR_SIZE \in Nat
  BY Stage2Assumption
<1> QED BY <1>1, DivideBack, Multiples

LEMMA PlaceSome ==
    ASSUME NEW p \in Nat
    PROVE  \E n \in Nat, j \in 0 .. SECTOR_SIZE - 1 : p = n * SECTOR_SIZE + j
<1>1. SECTOR_SIZE \in Nat /\ SECTOR_SIZE > 0
  BY Stage2Assumption
<1> QED BY <1>1, Divide

--------------------------------------------------------------------------------
(* The disk.                                                                  *)

\* A sector's number comes back from cylinder, head and sector.
LEMMA CHSBack ==
    ASSUME NEW l \in Nat, l < CYLINDERS * HEADS * SECTORS
    PROVE  AtCHS(<<(l \div SECTORS) \div HEADS, (l % SECTORS) + 1, (l \div SECTORS) % HEADS>>) = l
<1> DEFINE t == l \div SECTORS
           s == l % SECTORS
           c == t \div HEADS
           h == t % HEADS
<1>1. /\ SECTORS \in Nat /\ SECTORS > 0 /\ HEADS \in Nat /\ HEADS > 0
      /\ CYLINDERS \in Nat /\ CYLINDERS > 0
  BY BiosAssumption
<1>2. t \in Nat /\ s \in 0 .. SECTORS - 1 /\ l = t * SECTORS + s
  BY <1>1, Divide
<1> HIDE DEF t, s
<1>3. c \in Nat /\ h \in 0 .. HEADS - 1 /\ t = c * HEADS + h
  BY <1>1, <1>2, Divide
<1> HIDE DEF c, h
<1>4. c < CYLINDERS
  <2>1. ASSUME CYLINDERS <= c PROVE FALSE
    <3>1. CYLINDERS * HEADS <= c * HEADS /\ CYLINDERS * HEADS \in Nat /\ c * HEADS \in Nat
      BY <1>1, <1>3, <2>1, Multiples
    <3>2. CYLINDERS * HEADS <= t
      BY <1>3, <3>1
    <3>3. (CYLINDERS * HEADS) * SECTORS <= t * SECTORS /\ t * SECTORS \in Nat
          /\ (CYLINDERS * HEADS) * SECTORS \in Nat
      BY <1>1, <1>2, <3>1, <3>2, Multiples
    <3> QED BY <1>2, <3>3
  <2> QED BY <1>1, <1>3, <2>1
<1>5. c % CYLINDERS = c
  BY <1>1, <1>3, <1>4
<1>6. ((c % CYLINDERS) * HEADS + h) * SECTORS + (s + 1) - 1 = l
  <2>1. t * SECTORS \in Nat
    BY <1>1, <1>2, Multiples
  <2>2. (c % CYLINDERS) * HEADS + h = t
    BY <1>3, <1>5
  <2> DEFINE T == t * SECTORS
  <2>3. T \in Nat /\ l = T + s
    BY <1>2, <2>1
  <2> HIDE DEF T
  <2>4. T + (s + 1) - 1 = l
    BY <1>2, <2>3
  <2> QED BY <2>2, <2>4 DEF T
<1>7. AtCHS(<<c, s + 1, h>>) = l
  BY <1>6 DEF AtCHS
<1> QED BY <1>7 DEF t, s, c, h

\* What the assumptions say of a machine.
LEMMA MachineIs ==
    ASSUME NEW m \in Machines
    PROVE  /\ \A l \in DOMAIN m.disk : l \in Nat /\ l < CYLINDERS * HEADS * SECTORS
           /\ Offset(m) \in Nat /\ m.floppy \in BOOLEAN /\ m.endsWithLast \in BOOLEAN
           /\ BootSector(m).ReservedSectors \in Nat /\ DataSection(BootSector(m)) \in Nat
           /\ RootLba(BootSector(m)) \in Nat /\ BootSector(m).DirEntryCount \in Nat
           /\ BootSector(m).SectorsPerCluster \in Nat \ {0}
           /\ m.blocks \in Nat /\ m.image \in Nat /\ m.stage2 \in Nat
           /\ m.clusters \subseteq 2 .. END - 1
           /\ SoundLoader(m) /\ SoundRoot(m) /\ SoundKernel(m)
<1>1. /\ {m.floppy, m.endsWithLast, m.reports} \subseteq BOOLEAN
      /\ \A l \in DOMAIN m.disk : l \in 0 .. CYLINDERS * HEADS * SECTORS - 1
      /\ m.partition \in DOMAIN m.disk
  BY BiosAssumption
<1>2. CYLINDERS * HEADS * SECTORS \in Nat
  BY BiosAssumption, Multiples
<1>3. \A l \in DOMAIN m.disk : l \in Nat /\ l < CYLINDERS * HEADS * SECTORS
  <2> DEFINE all == CYLINDERS * HEADS * SECTORS
  <2>1. all \in Nat /\ \A l \in DOMAIN m.disk : l \in 0 .. all - 1
    BY <1>1, <1>2
  <2> HIDE DEF all
  <2>2. \A l \in DOMAIN m.disk : l \in Nat /\ l < all
    BY <2>1
  <2> QED BY <2>2 DEF all
<1>4. Offset(m) \in Nat
  BY <1>1, <1>3 DEF Offset
<1> QED BY <1>1, <1>3, <1>4, BootAssumption, Zenon

LEMMA AtDisk ==
    ASSUME machine \in Machines, NEW lba \in Int, lba + Offset(machine) \in DOMAIN machine.disk
    PROVE  DiskAt(lba) = lba + Offset(machine)
<1> DEFINE l == lba + Offset(machine)
<1>1. l \in Nat /\ l < CYLINDERS * HEADS * SECTORS
  BY MachineIs
<1> HIDE DEF l
<1>2. AtCHS(DISK_LBA2CHS(l)) = l
  BY <1>1, CHSBack DEF DISK_LBA2CHS
<1> QED BY <1>2 DEF DiskAt, l

LEMMA ReadIs ==
    ASSUME NEW lba, NEW n, NEW r \in Partition_ReadSectors(lba, n)
    PROVE  /\ r.ok \in BOOLEAN /\ r.fault \in BOOLEAN
           /\ r.ok => ~r.fault /\ r.data = OnDisk(AtCHS(DISK_LBA2CHS(lba + fat.partitionOffset)), n)
           /\ ~r.ok => r.fault = Present(AtCHS(DISK_LBA2CHS(lba + fat.partitionOffset)), n)
<1> DEFINE l == AtCHS(DISK_LBA2CHS(lba + fat.partitionOffset))
           P == Present(l, n)
<1>1. P \in BOOLEAN
  BY Zenon DEF Present
<1>2. \/ r = [ok |-> FALSE, fault |-> P, data |-> <<>>]
      \/ r = [ok |-> TRUE, fault |-> FALSE, data |-> OnDisk(l, n)]
  <2>1. r \in {[ok |-> FALSE, fault |-> P, data |-> <<>>]}
             \cup (IF P THEN {[ok |-> TRUE, fault |-> FALSE, data |-> OnDisk(l, n)]} ELSE {})
    BY Zenon DEF Partition_ReadSectors, DISK_ReadSectors
  <2> HIDE DEF P, l
  <2> QED BY <2>1
<1> HIDE DEF P, l
<1>3. CASE r = [ok |-> FALSE, fault |-> P, data |-> <<>>]
  <2>1. r.ok = FALSE /\ r.fault = P
    BY <1>3
  <2> QED BY <1>1, <2>1, Zenon DEF P, l
<1>4. CASE r = [ok |-> TRUE, fault |-> FALSE, data |-> OnDisk(l, n)]
  <2>1. r.ok = TRUE /\ r.fault = FALSE /\ r.data = OnDisk(l, n)
    BY <1>4
  <2> QED BY <2>1, Zenon DEF P, l
<1> QED BY <1>2, <1>3, <1>4

\* What a file is after its next sector was read, and when it could be.
LEMMA FilledAny ==
    ASSUME NEW f, IsFile(f), NEW lba, NEW r \in Filled(f, lba)
    PROVE  /\ r.ok \in BOOLEAN /\ r.fault \in BOOLEAN
           /\ \E b : r.file = [f EXCEPT !.Buffer = b]
           /\ ~r.ok => r.file = f
<1>1. PICK d \in Partition_ReadSectors(lba, 1) :
        r = [file |-> IF d.ok THEN [f EXCEPT !.Buffer = d.data[1]] ELSE f, ok |-> d.ok,
             fault |-> d.fault]
  BY DEF Filled
<1>2. d.ok \in BOOLEAN /\ d.fault \in BOOLEAN
  BY ReadIs
<1>3. r.ok = d.ok /\ r.fault = d.fault
      /\ r.file = IF d.ok THEN [f EXCEPT !.Buffer = d.data[1]] ELSE f
  BY <1>1
<1>4. f = [f EXCEPT !.Buffer = f.Buffer]
  BY DEF IsFile
<1> QED BY <1>2, <1>3, <1>4

LEMMA FilledThere ==
    ASSUME machine \in Machines, fat.partitionOffset = Offset(machine), NEW f, IsFile(f),
           NEW lba \in Int, lba + Offset(machine) \in DOMAIN machine.disk, NEW r \in Filled(f, lba)
    PROVE  /\ r.ok => /\ r.file = [f EXCEPT !.Buffer = machine.disk[lba + Offset(machine)]]
                      /\ ~r.fault
           /\ ~r.ok => r.fault
<1> DEFINE l == lba + Offset(machine)
<1>1. PICK d \in Partition_ReadSectors(lba, 1) :
        r = [file |-> IF d.ok THEN [f EXCEPT !.Buffer = d.data[1]] ELSE f, ok |-> d.ok,
             fault |-> d.fault]
  BY DEF Filled
<1>2. AtCHS(DISK_LBA2CHS(lba + fat.partitionOffset)) = l /\ l \in Nat
  BY AtDisk, MachineIs DEF DiskAt
<1>3. Present(l, 1) /\ OnDisk(l, 1)[1] = machine.disk[l]
  <2>1. \A k \in 0 .. 1 - 1 : l + k = l
    BY <1>2
  <2>2. 1 \in 1 .. 1 /\ l + 1 - 1 = l
    BY <1>2
  <2> QED BY <2>1, <2>2 DEF Present, OnDisk
<1> HIDE DEF l
<1>4. /\ d.ok \in BOOLEAN /\ d.fault \in BOOLEAN
      /\ d.ok => ~d.fault /\ d.data = OnDisk(l, 1)
      /\ ~d.ok => d.fault
  <2> DEFINE at == AtCHS(DISK_LBA2CHS(lba + fat.partitionOffset))
  <2>1. /\ d.ok \in BOOLEAN /\ d.fault \in BOOLEAN
        /\ d.ok => ~d.fault /\ d.data = OnDisk(at, 1)
        /\ ~d.ok => d.fault = Present(at, 1)
    BY ReadIs
  <2>2. at = l
    BY <1>2
  <2> HIDE DEF at
  <2> QED BY <1>3, <2>1, <2>2
<1>5. r.ok = d.ok /\ r.fault = d.fault
      /\ r.file = IF d.ok THEN [f EXCEPT !.Buffer = d.data[1]] ELSE f
  BY <1>1
<1> QED BY <1>3, <1>4, <1>5 DEF l

LEMMA WindowIs ==
    ASSUME machine \in Machines, Mounted(fat), NEW s \in Nat, s < END, NEW w \in Windows(s)
    PROVE  /\ w.ok \in BOOLEAN
           /\ w.ok => /\ Mounted(w.fat) /\ w.fat.FatCachePosition # END
                      /\ w.fat.FatCachePosition <= s
                      /\ s < w.fat.FatCachePosition + FAT_CACHE_SIZE
<1>0. END \in Nat /\ FAT_CACHE_SIZE \in Nat /\ FAT_CACHE_SIZE > 0
  BY BootAssumption, Stage2Assumption
<1>1. CASE InCache(s)
  <2>1. w = [fat |-> fat, ok |-> TRUE]
    BY <1>1 DEF Windows
  <2>2. /\ fat.FatCachePosition \in Nat /\ fat.FatCachePosition <= s
        /\ s < fat.FatCachePosition + FAT_CACHE_SIZE
    BY <1>1 DEF InCache, Mounted
  <2> QED BY <1>0, <2>1, <2>2
<1>2. CASE ~InCache(s)
  <2> DEFINE bs == BootSector(machine)
  <2>1. PICK r \in Partition_ReadSectors(fat.BS.ReservedSectors + s, FAT_CACHE_SIZE) :
          w = [fat |-> [fat EXCEPT !.FatCachePosition = s,
                                   !.FatCache = IF r.ok THEN r.data ELSE @],
               ok  |-> r.ok]
    BY <1>2 DEF Windows
  <2>2. r.ok \in BOOLEAN
    BY ReadIs
  <2>3. fat.BS = bs /\ fat.partitionOffset = Offset(machine)
    BY DEF Mounted
  <2>4. r.ok => r.data = OnDisk(DiskAt(bs.ReservedSectors + s), FAT_CACHE_SIZE)
    BY <2>3, ReadIs DEF DiskAt
  <2>5. ASSUME r.ok PROVE Mounted(w.fat) /\ w.fat.FatCachePosition = s
    <3>1. w.fat = [fat EXCEPT !.FatCachePosition = s, !.FatCache = r.data]
      BY <2>1, <2>5
    <3>2. fat \in [partitionOffset : {Offset(machine)}, BS : {bs},
                   DataSectionLba : {DataSection(bs)}, FatType : {FAT_Detect(bs)},
                   FatCache : {fat.FatCache}, FatCachePosition : Nat]
      BY DEF Mounted
    <3>3. /\ w.fat \in [partitionOffset : {Offset(machine)}, BS : {bs},
                        DataSectionLba : {DataSection(bs)}, FatType : {FAT_Detect(bs)},
                        FatCache : {r.data}, FatCachePosition : Nat]
          /\ w.fat.FatCachePosition = s /\ w.fat.FatCache = r.data
      BY <3>1, <3>2
    <3> QED BY <2>4, <2>5, <3>3 DEF Mounted
  <2>6. w.ok = r.ok
    BY <2>1
  <2> QED BY <1>0, <2>2, <2>5, <2>6
<1> QED BY <1>1, <1>2

\* The cluster behind another is the one that the table on the disk says.
LEMMA NextIs ==
    ASSUME machine \in Machines, Mounted(fat), NEW c \in Nat, c < END, NEW n \in FAT_NextCluster(c)
    PROVE  /\ n.ok \in BOOLEAN
           /\ n.ok => Mounted(n.fat)
           /\ n.ok /\ TableSector(machine, c) \in DOMAIN machine.disk =>
                 n.cluster = Linked(machine, c)
<1> DEFINE s == c \div ENTRIES
           bs == BootSector(machine)
           K(w) == s - w.fat.FatCachePosition + 1
           E(w) == Widened(w.fat.FatType, w.fat.FatCache[K(w)][(c % ENTRIES) + 1].next)
<1>1. ENTRIES \in Nat /\ ENTRIES > 0 /\ END \in Nat /\ bs.ReservedSectors \in Nat
  BY Stage2Assumption, BootAssumption, MachineIs
<1>2. s \in Nat /\ s < END
  <2>1. s \in Nat /\ c % ENTRIES \in Nat /\ c = s * ENTRIES + (c % ENTRIES)
    BY <1>1, Divide
  <2> HIDE DEF s
  <2>2. s * 1 <= s * ENTRIES
    <3>1. 1 * s <= ENTRIES * s
      BY <1>1, <2>1, Multiples
    <3> QED BY <1>1, <2>1, <3>1
  <2> DEFINE e == s * ENTRIES
             r == c % ENTRIES
  <2>3. s \in Nat /\ s <= e /\ e \in Nat /\ r \in Nat /\ c = e + r
    <3>1. s * 1 = s /\ s * ENTRIES \in Nat
      BY <1>1, <2>1, Multiples
    <3> QED BY <2>1, <2>2, <3>1
  <2> HIDE DEF e, r
  <2>4. s <= c /\ s \in Nat
    <3>1. s <= e + r
      BY <2>3, Farther, Zenon
    <3> QED BY <2>3, <3>1, Zenon
  <2> QED BY <1>1, <2>4
<1>3. PICK w \in Windows(s) :
        \E x : n = [cluster |-> x, fat |-> w.fat, ok |-> w.ok /\ x = E(w)]
  BY DEF FAT_NextCluster
<1>4. /\ w.ok \in BOOLEAN
      /\ w.ok => /\ Mounted(w.fat) /\ w.fat.FatCachePosition # END
                 /\ w.fat.FatCachePosition <= s
                 /\ s < w.fat.FatCachePosition + FAT_CACHE_SIZE
  BY <1>2, WindowIs
<1>5. n.ok \in BOOLEAN /\ (n.ok => w.ok /\ n.cluster = E(w)) /\ n.fat = w.fat
  <2> HIDE DEF E
  <2>1. PICK x : n = [cluster |-> x, fat |-> w.fat, ok |-> w.ok /\ x = E(w)]
    BY <1>3
  <2>2. n.cluster = x /\ n.fat = w.fat /\ n.ok = (w.ok /\ x = E(w))
    BY <2>1
  <2> QED BY <1>4, <2>2, Zenon
<1>6. ASSUME w.ok, TableSector(machine, c) \in DOMAIN machine.disk
      PROVE  E(w) = Linked(machine, c)
  <2> DEFINE pos == w.fat.FatCachePosition
  <2>1. /\ pos \in Nat /\ pos <= s /\ s < pos + FAT_CACHE_SIZE
        /\ w.fat.FatType = FAT_Detect(bs)
        /\ w.fat.FatCache = OnDisk(DiskAt(bs.ReservedSectors + pos), FAT_CACHE_SIZE)
    BY <1>4, <1>6 DEF Mounted
  <2> HIDE DEF pos
  <2>2. Offset(machine) \in Nat /\ FAT_CACHE_SIZE \in Nat
    BY MachineIs, Stage2Assumption
  <2>3. TableSector(machine, c) = Offset(machine) + bs.ReservedSectors + s
    BY DEF TableSector
  <2>4. /\ TableSector(machine, c) \in Nat
        /\ TableSector(machine, c) < CYLINDERS * HEADS * SECTORS
    BY <1>6, MachineIs
  <2> DEFINE l == bs.ReservedSectors + pos + Offset(machine)
             all == CYLINDERS * HEADS * SECTORS
  <2>5. l \in Nat /\ l < all
    <3>1. all \in Nat
      BY BiosAssumption, Multiples
    <3> HIDE DEF all
    <3> QED BY <1>1, <1>2, <2>1, <2>2, <2>3, <2>4, <3>1 DEF all
  <2>6. DiskAt(bs.ReservedSectors + pos) = l
    BY <2>5, CHSBack DEF DiskAt, DISK_LBA2CHS
  <2> DEFINE k == s - pos + 1
  <2>7. k \in 1 .. FAT_CACHE_SIZE /\ l + k - 1 = TableSector(machine, c)
    <3> DEFINE z == bs.ReservedSectors
               o == Offset(machine)
    <3>1. z \in Nat /\ o \in Nat /\ l = z + pos + o /\ TableSector(machine, c) = o + z + s
      BY <1>1, <2>2, <2>3
    <3> HIDE DEF z, o, s, l
    <3> QED BY <1>2, <2>1, <2>2, <3>1
  <2> HIDE DEF l, k
  <2>8. w.fat.FatCache[k] = machine.disk[TableSector(machine, c)]
    BY <2>1, <2>6, <2>7 DEF OnDisk
  <2>9. E(w) = Widened(w.fat.FatType, w.fat.FatCache[k][(c % ENTRIES) + 1].next)
    BY DEF k, pos
  <2> QED BY <2>1, <2>8, <2>9 DEF Linked
<1> QED BY <1>4, <1>5, <1>6

--------------------------------------------------------------------------------
(* A file moves along its places.                                             *)

\* A file changed by a move, and nothing else of it.
Moved(g, f) ==
    /\ IsFile(g) /\ g.Position = f.Position /\ g.IsDirectory = f.IsDirectory
    /\ g.FirstCluster = f.FirstCluster /\ g.Size \in {f.Size, f.Position}

At(f, place) ==
    /\ f.CurrentCluster = place.cluster /\ f.CurrentSectorInCluster = place.sector
    /\ f.Buffer = machine.disk[SectorAt(machine, place)]

\* A place that a chain goes through.
LEMMA PlaceIs ==
    ASSUME machine \in Machines, NEW first, NEW places, LiesAt(machine, first, places),
           NEW q \in DOMAIN places
    PROVE  Len(places) \in Nat /\ DOMAIN places = 1 .. Len(places) /\
           LET at == places[q]
               per == BootSector(machine).SectorsPerCluster
           IN  /\ at.cluster \in machine.clusters /\ at.cluster \in Nat /\ at.cluster >= 2
               /\ at.cluster < END
               /\ at.sector \in Nat /\ at.sector < per
               /\ SectorAt(machine, at) \in DOMAIN machine.disk
               /\ q < Len(places) =>
                     /\ TableSector(machine, at.cluster) \in DOMAIN machine.disk
                     /\ places[q + 1] =
                           IF at.sector + 1 < per
                           THEN [cluster |-> at.cluster, sector |-> at.sector + 1]
                           ELSE [cluster |-> Linked(machine, at.cluster), sector |-> 0]
<1> DEFINE at == places[q]
           per == BootSector(machine).SectorsPerCluster
<1>0. places \in Seq([cluster : machine.clusters, sector : 0 .. per - 1])
  BY Zenon DEF LiesAt
<1>a. /\ Len(places) \in Nat /\ DOMAIN places = 1 .. Len(places)
      /\ at \in [cluster : machine.clusters, sector : 0 .. per - 1]
  BY <1>0, LenProperties, ElementOfSeq
<1>b. at.cluster \in machine.clusters /\ at.sector \in 0 .. per - 1
  BY <1>a
<1>1. /\ SectorAt(machine, at) \in DOMAIN machine.disk
      /\ q < Len(places) =>
            /\ TableSector(machine, at.cluster) \in DOMAIN machine.disk
            /\ places[q + 1] =
                  IF at.sector + 1 < per
                  THEN [cluster |-> at.cluster, sector |-> at.sector + 1]
                  ELSE [cluster |-> Linked(machine, at.cluster), sector |-> 0]
  BY Zenon DEF LiesAt
<1>2. machine.clusters \subseteq 2 .. END - 1 /\ per \in Nat /\ END \in Nat
  BY MachineIs, BootAssumption
<1>3. at.cluster \in Nat /\ at.cluster >= 2 /\ at.cluster < END
  BY <1>b, <1>2
<1>4. at.sector \in Nat /\ at.sector < per
  BY <1>b, <1>2
<1> HIDE DEF at, per
<1> QED BY <1>a, <1>b, <1>1, <1>3, <1>4 DEF at, per

\* Where the sector of a place is read from.
LEMMA PlaceLba ==
    ASSUME machine \in Machines, Mounted(fat), NEW at, at.cluster \in Nat, at.sector \in Nat
    PROVE  /\ FAT_ClusterToLba(at.cluster) + at.sector \in Int
           /\ FAT_ClusterToLba(at.cluster) + at.sector + Offset(machine) = SectorAt(machine, at)
<1> DEFINE bs == BootSector(machine)
           c == at.cluster
           d == DataSection(bs)
           o == Offset(machine)
           x == (c - 2) * bs.SectorsPerCluster
<1>1. fat.DataSectionLba = d /\ fat.BS = bs
  BY DEF Mounted
<1>2. d \in Nat /\ o \in Nat /\ bs.SectorsPerCluster \in Nat
  BY MachineIs
<1>3. x \in Int
  BY <1>2
<1>4. FAT_ClusterToLba(c) = d + x /\ SectorAt(machine, at) = o + d + x + at.sector
  BY <1>1 DEF FAT_ClusterToLba, SectorAt
<1> HIDE DEF x, d, o, c
<1>5. d + x + at.sector \in Int /\ d + x + at.sector + o = o + d + x + at.sector
  BY <1>2, <1>3
<1> QED BY <1>4, <1>5 DEF c, d, o

\* The cluster a file goes on in, behind a place.
LEMMA ClusterBehind ==
    ASSUME machine \in Machines, Mounted(fat), NEW first, NEW places,
           LiesAt(machine, first, places), NEW q \in DOMAIN places,
           NEW p \in FAT_NextCluster(places[q].cluster), p.ok
    PROVE  /\ Mounted(p.fat)
           /\ q < Len(places) => p.cluster = Linked(machine, places[q].cluster)
<1> DEFINE at == places[q]
<1>1. /\ at.cluster \in Nat /\ at.cluster < END
      /\ q < Len(places) => TableSector(machine, at.cluster) \in DOMAIN machine.disk
  BY PlaceIs, Zenon
<1> QED BY <1>1, NextIs, Zenon

\* A file that has been read up to the end of a place: it is on the next one, or a
\* sector could not be read, or there is none.
LEMMA NextPlace ==
    ASSUME machine \in Machines, Mounted(fat), walk.current # ROOT_DIRECTORY_HANDLE,
           NEW first, NEW places, LiesAt(machine, first, places),
           NEW q \in DOMAIN places, NEW f, IsFile(f),
           f.CurrentCluster = places[q].cluster, f.CurrentSectorInCluster = places[q].sector,
           NEW n \in NextSector(f), ~n.unnoticed
    PROVE  /\ n.more \in BOOLEAN /\ n.fault \in BOOLEAN
           /\ Mounted(n.fat) /\ Moved(n.file, f)
           /\ q < Len(places) => /\ n.file.Size = f.Size
                                 /\ n.more => At(n.file, places[q + 1])
                                 /\ ~n.more => n.fault
<1> DEFINE per == BootSector(machine).SectorsPerCluster
           at == places[q]
           s == f.CurrentSectorInCluster + 1
           nexts == IF s < fat.BS.SectorsPerCluster
                    THEN {[cluster |-> f.CurrentCluster, fat |-> fat, ok |-> TRUE]}
                    ELSE FAT_NextCluster(f.CurrentCluster)
           sector == s % fat.BS.SectorsPerCluster
           G(p) == [f EXCEPT !.CurrentCluster = p.cluster, !.CurrentSectorInCluster = sector]
           Ends(p) == {[file |-> [G(p) EXCEPT !.Size = G(p).Position], fat |-> p.fat,
                        more |-> FALSE, fault |-> FALSE, unnoticed |-> ~p.ok]}
           Goes(p) == {[file |-> l.file, fat |-> p.fat, more |-> l.ok, fault |-> l.fault,
                        unnoticed |-> ~p.ok]
                         : l \in Filled(G(p), FAT_ClusterToLba(p.cluster) + sector)}
<1>1. PICK p \in nexts : n \in IF p.cluster >= END THEN Ends(p) ELSE Goes(p)
  <2>1. NextSector(f) = UNION {IF p.cluster >= END THEN Ends(p) ELSE Goes(p) : p \in nexts}
    BY Zenon DEF NextSector
  <2> HIDE DEF Ends, Goes, nexts
  <2> QED BY <2>1
<1>2. /\ at.cluster \in machine.clusters /\ at.cluster \in Nat /\ at.cluster < END
      /\ at.sector \in Nat /\ at.sector < per /\ per \in Nat
      /\ q < Len(places) =>
            places[q + 1] = IF at.sector + 1 < per
                            THEN [cluster |-> at.cluster, sector |-> at.sector + 1]
                            ELSE [cluster |-> Linked(machine, at.cluster), sector |-> 0]
  <2>1. per \in Nat
    BY MachineIs
  <2> QED BY <2>1, PlaceIs, Zenon
<1>3. fat.BS.SectorsPerCluster = per
  BY DEF Mounted
<1>4. /\ s = at.sector + 1 /\ s \in Nat
      /\ s < per => sector = s
      /\ ~(s < per) => sector = 0
      /\ sector \in Nat
  <2> HIDE DEF per
  <2>1. s = at.sector + 1 /\ s \in Nat /\ sector = s % per
    BY <1>2, <1>3
  <2> HIDE DEF s, sector, at
  <2>2. /\ s < per => s % per = s
        /\ s = per => s % per = 0
    <3>1. per \in Nat /\ per > 0
      BY <1>2
    <3> QED BY <2>1, <3>1, Rest, Zenon
  <2>4. s < per \/ s = per
    BY <1>2, <2>1
  <2> QED BY <2>1, <2>2, <2>4
<1>5. p.ok => /\ Mounted(p.fat)
              /\ q < Len(places) => [cluster |-> p.cluster, sector |-> sector] = places[q + 1]
  <2>1. CASE s < per
    <3>1. p.cluster = at.cluster /\ p.fat = fat
      BY <1>1, <1>3, <2>1
    <3> QED BY <1>2, <1>4, <2>1, <3>1
  <2>2. CASE ~(s < per)
    <3>1. p \in FAT_NextCluster(at.cluster)
      BY <1>1, <1>3, <2>2
    <3>2. p.ok => /\ Mounted(p.fat)
                  /\ q < Len(places) => p.cluster = Linked(machine, at.cluster)
      BY <3>1, ClusterBehind, Zenon
    <3> QED BY <1>2, <1>4, <2>2, <3>2
  <2> QED BY <2>1, <2>2
<1>6. ASSUME q < Len(places) PROVE q + 1 \in DOMAIN places
  <2>1. Len(places) \in Nat /\ DOMAIN places = 1 .. Len(places)
    BY PlaceIs, Zenon
  <2> QED BY <1>6, <2>1
<1>7. IsFile(G(p)) /\ Moved(G(p), f) /\ G(p).Size = f.Size
      /\ G(p).CurrentCluster = p.cluster /\ G(p).CurrentSectorInCluster = sector
  BY DEF IsFile, Moved
<1> HIDE DEF G, nexts, sector
<1>8. CASE p.cluster >= END
  <2>1. n = [file |-> [G(p) EXCEPT !.Size = G(p).Position], fat |-> p.fat,
             more |-> FALSE, fault |-> FALSE, unnoticed |-> ~p.ok]
    BY <1>1, <1>8
  <2>2. /\ n.file = [G(p) EXCEPT !.Size = G(p).Position] /\ n.fat = p.fat
        /\ n.more = FALSE /\ n.fault = FALSE /\ n.unnoticed = ~p.ok
    BY <2>1
  <2>3. Moved(n.file, f)
    BY <1>7, <2>2 DEF IsFile, Moved
  <2>4. p.ok
    BY <2>2, Zenon
  <2>5. ~(q < Len(places))
    <3>1. ASSUME q < Len(places) PROVE FALSE
      <4>1. p.cluster = places[q + 1].cluster
        BY <1>5, <2>4, <3>1
      <4>2. places[q + 1].cluster \in Nat /\ places[q + 1].cluster < END
        BY <1>6, <3>1, PlaceIs, Zenon
      <4>3. END \in Nat
        BY BootAssumption
      <4> QED BY <1>8, <4>1, <4>2, <4>3
    <3> QED BY <3>1
  <2> QED BY <1>5, <2>2, <2>3, <2>4, <2>5
<1>9. CASE ~(p.cluster >= END)
  <2>1. PICK l \in Filled(G(p), FAT_ClusterToLba(p.cluster) + sector) :
          n = [file |-> l.file, fat |-> p.fat, more |-> l.ok, fault |-> l.fault,
               unnoticed |-> ~p.ok]
    BY <1>1, <1>9, Zenon
  <2>2. /\ n.file = l.file /\ n.fat = p.fat /\ n.more = l.ok /\ n.fault = l.fault
        /\ n.unnoticed = ~p.ok
    BY <2>1
  <2>3. p.ok
    BY <2>2, Zenon
  <2>4. /\ l.ok \in BOOLEAN /\ l.fault \in BOOLEAN
        /\ \E b : l.file = [G(p) EXCEPT !.Buffer = b]
    BY <1>7, FilledAny, Zenon
  <2>5. /\ Moved(l.file, f) /\ l.file.Size = f.Size
        /\ l.file.CurrentCluster = p.cluster /\ l.file.CurrentSectorInCluster = sector
    <3>1. PICK b : l.file = [G(p) EXCEPT !.Buffer = b]
      BY <2>4
    <3> QED BY <1>7, <3>1 DEF IsFile, Moved
  <2>6. ASSUME q < Len(places)
        PROVE  /\ l.ok => At(l.file, places[q + 1])
               /\ ~l.ok => l.fault
    <3> DEFINE to == places[q + 1]
               lba == FAT_ClusterToLba(p.cluster) + sector
    <3>1. to = [cluster |-> p.cluster, sector |-> sector]
      BY <1>5, <2>3, <2>6
    <3>2. to.cluster = p.cluster /\ to.sector = sector
      BY <3>1
    <3>3. to.cluster \in Nat /\ to.sector \in Nat /\ SectorAt(machine, to) \in DOMAIN machine.disk
      BY <1>6, <2>6, PlaceIs, Zenon
    <3>4. lba \in Int /\ lba + Offset(machine) = SectorAt(machine, to)
      <4> HIDE DEF to
      <4>1. /\ FAT_ClusterToLba(to.cluster) + to.sector \in Int
            /\ FAT_ClusterToLba(to.cluster) + to.sector + Offset(machine) = SectorAt(machine, to)
        BY <3>3, PlaceLba, Zenon
      <4> QED BY <3>2, <4>1
    <3>5. fat.partitionOffset = Offset(machine)
      BY DEF Mounted
    <3> HIDE DEF lba, to
    <3>6. /\ l.ok => l.file = [G(p) EXCEPT !.Buffer = machine.disk[SectorAt(machine, to)]]
          /\ ~l.ok => l.fault
      <4>1. lba + Offset(machine) \in DOMAIN machine.disk
        BY <3>3, <3>4
      <4>2. l \in Filled(G(p), lba)
        BY <2>1 DEF lba
      <4>3. /\ l.ok => l.file = [G(p) EXCEPT !.Buffer = machine.disk[lba + Offset(machine)]]
            /\ ~l.ok => l.fault
        BY <1>7, <3>4, <3>5, <4>1, <4>2, FilledThere
      <4> QED BY <3>4, <4>3
    <3>7. l.ok => l.file.Buffer = machine.disk[SectorAt(machine, to)]
      BY <1>7, <3>6 DEF IsFile
    <3> QED BY <2>5, <3>2, <3>6, <3>7 DEF At, to
  <2> QED BY <1>5, <2>2, <2>3, <2>4, <2>5, <2>6
<1> QED BY <1>8, <1>9

--------------------------------------------------------------------------------
(* One turn of FAT_Read.                                                      *)

\* What a turn leaves alone.
Aside ==
    UNCHANGED <<machine, pc, partition_entry, walk, e820, regions, elf, memory>>

\* Some pieces of a sector.
Pieces(B, from, take) == [i \in 1 .. take |-> B[from + i]]

\* A turn that takes some pieces, from a place of the buffer on.
TurnsBy(f, from, take) ==
    LET moved == [f EXCEPT !.Position = @ + take] IN
    /\ from = f.Position % SECTOR_SIZE /\ take = Min({want, SECTOR_SIZE - from})
    /\ take > 0 /\ take <= want /\ from + take <= SECTOR_SIZE
    /\ out' = out \o Pieces(f.Buffer, from, take)
    /\ \/ /\ from + take < SECTOR_SIZE
          /\ want' = want - take
          /\ file' = [file EXCEPT ![walk.current] = moved]
          /\ UNCHANGED <<fat, failed, unnoticed>>
       \/ /\ from + take = SECTOR_SIZE
          /\ \E n \in NextSector(moved) :
                /\ want' = IF n.more THEN want - take ELSE 0
                /\ file' = [file EXCEPT ![walk.current] = n.file]
                /\ fat' = n.fat
                /\ failed' = (failed \/ n.fault)
                /\ unnoticed' = (unnoticed \/ n.unnoticed
                                     \/ (n.fault /\ (want = take \/ pc = "table")))

LEMMA TurnIs ==
    ASSUME Typed, ReadPiece, NEW f, f = file[walk.current]
    PROVE  \E from, take \in Nat : TurnsBy(f, from, take)
<1> DEFINE from == f.Position % SECTOR_SIZE
           take == Min({want, SECTOR_SIZE - from})
<1>1. SECTOR_SIZE \in Nat /\ SECTOR_SIZE > 0
  BY Stage2Assumption
<1>2. f.Position \in Nat /\ want \in Nat /\ want > 0
  <2>1. want > 0
    BY Zenon DEF ReadPiece
  <2>2. IsFile(f) /\ want \in Nat
    BY DEF Typed
  <2> QED BY <2>1, <2>2 DEF IsFile
<1>3. from \in 0 .. SECTOR_SIZE - 1
  BY <1>1, <1>2, Divide
<1> HIDE DEF from
<1>4. take = IF want <= SECTOR_SIZE - from THEN want ELSE SECTOR_SIZE - from
  BY <1>1, <1>2, <1>3, MinTwo
<1> HIDE DEF take
<1>5. from \in Nat /\ take \in Nat /\ take > 0 /\ take <= want /\ from + take <= SECTOR_SIZE
  BY <1>1, <1>2, <1>3, <1>4
<1>6. /\ out' = out \o [i \in 1 .. take |-> f.Buffer[from + i]]
      /\ IF from + take < SECTOR_SIZE
         THEN /\ want' = want - take
              /\ file' = [file EXCEPT ![walk.current] = [f EXCEPT !.Position = @ + take]]
              /\ UNCHANGED <<fat, failed, unnoticed>>
         ELSE \E n \in NextSector([f EXCEPT !.Position = @ + take]) :
              /\ want' = IF n.more THEN want - take ELSE 0
              /\ file' = [file EXCEPT ![walk.current] = n.file]
              /\ fat' = n.fat
              /\ failed' = (failed \/ n.fault)
              /\ unnoticed' = (unnoticed \/ n.unnoticed
                                   \/ (n.fault /\ (want = take \/ pc = "table")))
  BY Zenon DEF ReadPiece, from, take
<1>7. ~(from + take < SECTOR_SIZE) => from + take = SECTOR_SIZE
  BY <1>1, <1>5
<1>8. from = f.Position % SECTOR_SIZE /\ take = Min({want, SECTOR_SIZE - from})
  BY DEF from, take
<1> DEFINE moved == [f EXCEPT !.Position = @ + take]
           Stays == /\ want' = want - take
                    /\ file' = [file EXCEPT ![walk.current] = moved]
                    /\ UNCHANGED <<fat, failed, unnoticed>>
           Goes == \E n \in NextSector(moved) :
                      /\ want' = IF n.more THEN want - take ELSE 0
                      /\ file' = [file EXCEPT ![walk.current] = n.file]
                      /\ fat' = n.fat
                      /\ failed' = (failed \/ n.fault)
                      /\ unnoticed' = (unnoticed \/ n.unnoticed
                                           \/ (n.fault /\ (want = take \/ pc = "table")))
<1>9. IF from + take < SECTOR_SIZE THEN Stays ELSE Goes
  BY <1>6, Zenon
<1>10. out' = out \o [i \in 1 .. take |-> f.Buffer[from + i]]
  BY <1>6, Zenon
<1>11. \/ from + take < SECTOR_SIZE /\ Stays
       \/ from + take = SECTOR_SIZE /\ Goes
  <2> HIDE DEF Stays, Goes
  <2> QED BY <1>7, <1>9, Zenon
<1> HIDE DEF Stays, Goes, moved
<1>12. TurnsBy(f, from, take)
  BY <1>5, <1>8, <1>10, <1>11, Zenon DEF Stays, Goes, moved, TurnsBy, Pieces
<1> QED BY <1>5, <1>12, Zenon

LEMMA TurnAside ==
    ASSUME ReadPiece
    PROVE  Aside
BY Zenon DEF ReadPiece, Aside, mapVars, elfVars

LEMMA SeqOver ==
    ASSUME NEW n \in Nat, NEW q, NEW Q, \A i \in 1 .. n : q[i] \in Q
    PROVE  [i \in 1 .. n |-> q[i]] \in Seq(Q)
OBVIOUS

\* What has come, in front of what comes with a turn.
LEMMA OutIs ==
    ASSUME NEW S, NEW o \in Seq(S), NEW R, NEW r \in Seq(R), NEW q, q = o \o r
    PROVE  /\ Len(o) \in Nat /\ Len(q) = Len(o) + Len(r)
           /\ q \in Seq(Range(q))
           /\ \A k \in 1 .. Len(o) : q[k] = o[k]
           /\ \A i \in 1 .. Len(r) : q[Len(o) + i] = r[i]
<1> DEFINE T == S \cup R
<1>1. o \in Seq(T) /\ r \in Seq(T)
  <2>1. S \subseteq T /\ R \subseteq T
    OBVIOUS
  <2> HIDE DEF T
  <2> QED BY <2>1
<1> HIDE DEF T
<1>2. Len(o) \in Nat /\ Len(r) \in Nat
  BY LenProperties
<1>3. /\ q \in Seq(T) /\ Len(q) = Len(o) + Len(r)
      /\ \A k \in 1 .. Len(o) + Len(r) : q[k] = IF k <= Len(o) THEN o[k] ELSE r[k - Len(o)]
  BY <1>1, ConcatProperties, Zenon
<1>4. \A k \in 1 .. Len(o) : q[k] = o[k]
  BY <1>2, <1>3
<1>5. \A i \in 1 .. Len(r) : q[Len(o) + i] = r[i]
  <2> TAKE i \in 1 .. Len(r)
  <2>1. /\ Len(o) + i \in 1 .. Len(o) + Len(r) /\ ~(Len(o) + i <= Len(o))
        /\ Len(o) + i - Len(o) = i
    BY <1>2
  <2> QED BY <1>3, <2>1
<1>6. q \in Seq(Range(q))
  <2>1. q = [i \in 1 .. Len(q) |-> q[i]] /\ Len(q) \in Nat /\ DOMAIN q = 1 .. Len(q)
    BY <1>3, LenProperties
  <2>2. \A i \in 1 .. Len(q) : q[i] \in Range(q)
    BY <2>1 DEF Range
  <2>3. [i \in 1 .. Len(q) |-> q[i]] \in Seq(Range(q))
    BY <2>1, <2>2, SeqOver
  <2> QED BY <2>1, <2>3
<1> QED BY <1>2, <1>3, <1>4, <1>5, <1>6

\* What has come after a turn.
Grown(B, from, take) ==
    /\ out' \in Seq(Range(out')) /\ Len(out') = Len(out) + take
    /\ \A k \in 1 .. Len(out) : out'[k] = out[k]
    /\ \A i \in 1 .. take : out'[Len(out) + i] = B[from + i]

LEMMA OutGrows ==
    ASSUME NEW S, out \in Seq(S), NEW take \in Nat, NEW B, NEW from,
           out' = out \o Pieces(B, from, take)
    PROVE  Grown(B, from, take)
<1> DEFINE r == [i \in 1 .. take |-> B[from + i]]
           R == {B[from + i] : i \in 1 .. take}
<1>1. r \in Seq(R) /\ Len(r) = take /\ \A i \in 1 .. take : r[i] = B[from + i]
  <2>1. \A i \in 1 .. take : B[from + i] \in R
    OBVIOUS
  <2> HIDE DEF R
  <2>2. r \in Seq(R)
    BY <2>1
  <2> QED BY <2>2
<1> HIDE DEF R
<1>2. out' = out \o r
  BY DEF Pieces
<1> HIDE DEF r
<1>3. Len(out') = Len(out) + Len(r)
  BY <1>1, <1>2, OutIs
<1>4. out' \in Seq(Range(out'))
  BY <1>1, <1>2, OutIs
<1>5. \A k \in 1 .. Len(out) : out'[k] = out[k]
  BY <1>1, <1>2, OutIs
<1>6. \A i \in 1 .. Len(r) : out'[Len(out) + i] = r[i]
  BY <1>1, <1>2, OutIs
<1> QED BY <1>1, <1>3, <1>4, <1>5, <1>6 DEF Grown

\* The handles, when one of them is written.
LEMMA FileSet ==
    ASSUME Typed, NEW h \in Handles, NEW g, IsFile(g), file' = [file EXCEPT ![h] = g]
    PROVE  /\ file' = [k \in Handles |-> file'[k]]
           /\ \A k \in Handles : IsFile(file'[k])
           /\ file'[h] = g
           /\ \A k \in Handles \ {h} : file'[k] = file[k]
<1>1. file = [k \in Handles |-> file[k]] /\ \A k \in Handles : IsFile(file[k])
  BY Zenon DEF Typed
<1> HIDE DEF IsFile, Handles
<1> QED BY <1>1

LEMMA PositionSet ==
    ASSUME NEW f, IsFile(f), NEW take \in Nat
    PROVE  LET moved == [f EXCEPT !.Position = @ + take] IN
           /\ IsFile(moved) /\ moved.Position = f.Position + take
           /\ moved.IsDirectory = f.IsDirectory /\ moved.FirstCluster = f.FirstCluster
           /\ moved.Size = f.Size /\ moved.CurrentCluster = f.CurrentCluster
           /\ moved.CurrentSectorInCluster = f.CurrentSectorInCluster
           /\ moved.Buffer = f.Buffer
BY DEF IsFile

\* A turn that takes pieces of a place's sector; the file is then at a place again, or behind
\* the last one, or the turn comes short of what was to be read.
TakesAt(f, places, q, from, take) ==
    LET g == file'[walk.current] IN
    /\ take > 0 /\ take <= want /\ take = Min({want, SECTOR_SIZE - from})
    /\ from + take <= SECTOR_SIZE
    /\ out' = out \o Pieces(machine.disk[SectorAt(machine, places[q])], from, take)
    /\ Mounted(fat')
    /\ IsFile(g) /\ g.Position = f.Position + take /\ g.IsDirectory = f.IsDirectory
    /\ g.FirstCluster = f.FirstCluster
    /\ file' = [file EXCEPT ![walk.current] = g]
    /\ from + take < SECTOR_SIZE \/ q < Len(places) => g.Size = f.Size
    /\ g.Size \in {f.Size, g.Position}
    /\ \/ from + take < SECTOR_SIZE /\ want' = want - take /\ At(g, places[q])
       \/ /\ from + take = SECTOR_SIZE /\ q < Len(places)
          /\ want' = want - take /\ At(g, places[q + 1])
       \/ /\ from + take = SECTOR_SIZE /\ q < Len(places)
          /\ want' = 0 /\ take < want /\ pc # "table"
       \/ from + take = SECTOR_SIZE /\ q = Len(places) /\ want' \in {0, want - take}

\* A turn on a file that is at its place: it takes pieces from the place's sector, and is
\* then at a place again, or behind the last one, or short of what it was to read.
LEMMA TurnOnPlace ==
    ASSUME machine \in Machines, Typed, Mounted(fat), ReadPiece, ~unnoticed',
           walk.current # ROOT_DIRECTORY_HANDLE,
           NEW first, NEW places, LiesAt(machine, first, places),
           NEW f, f = file[walk.current], NEW q \in DOMAIN places, NEW from,
           from \in 0 .. SECTOR_SIZE - 1, f.Position = (q - 1) * SECTOR_SIZE + from,
           At(f, places[q])
    PROVE  \E take \in Nat : TakesAt(f, places, q, from, take)
<1>1. PICK from_ \in Nat, take \in Nat : TurnsBy(f, from_, take)
  BY TurnIs, Zenon
<1>2. /\ from_ = f.Position % SECTOR_SIZE /\ take = Min({want, SECTOR_SIZE - from_})
      /\ take > 0 /\ take <= want /\ from_ + take <= SECTOR_SIZE
      /\ out' = out \o Pieces(f.Buffer, from_, take)
  BY <1>1, Zenon DEF TurnsBy
<1>3. from_ = from /\ from \in Nat
  <2>1. Len(places) \in Nat /\ DOMAIN places = 1 .. Len(places)
    BY PlaceIs, Zenon
  <2>2. q - 1 \in Nat /\ from \in Nat /\ from < SECTOR_SIZE /\ SECTOR_SIZE \in Nat
    <3>1. q \in 1 .. Len(places) /\ from \in 0 .. SECTOR_SIZE - 1
      BY <2>1, Zenon
    <3> QED BY <2>1, <3>1, SectorSize
  <2>3. ((q - 1) * SECTOR_SIZE + from) % SECTOR_SIZE = from
    BY <2>2, DivideBack
  <2> QED BY <1>2, <2>2, <2>3
<1>4. IsFile(f) /\ walk.current \in Handles /\ f.Position \in Nat /\ want \in Nat
  BY DEF Typed, IsFile
<1>5. f.Buffer = machine.disk[SectorAt(machine, places[q])]
  BY DEF At
<1> DEFINE moved == [f EXCEPT !.Position = @ + take]
<1>6. /\ IsFile(moved) /\ moved.Position = f.Position + take
      /\ moved.IsDirectory = f.IsDirectory /\ moved.FirstCluster = f.FirstCluster
      /\ moved.Size = f.Size /\ moved.CurrentCluster = f.CurrentCluster
      /\ moved.CurrentSectorInCluster = f.CurrentSectorInCluster
      /\ moved.Buffer = f.Buffer
  BY <1>4, PositionSet
<1>8. take \in Nat /\ take > 0 /\ take <= want /\ take = Min({want, SECTOR_SIZE - from})
      /\ from + take <= SECTOR_SIZE
      /\ out' = out \o Pieces(machine.disk[SectorAt(machine, places[q])], from, take)
  BY <1>2, <1>3, <1>5, Zenon
<1> DEFINE g == file'[walk.current]
           Outcome ==
              /\ Mounted(fat')
              /\ IsFile(g) /\ g.Position = f.Position + take /\ g.IsDirectory = f.IsDirectory
              /\ g.FirstCluster = f.FirstCluster
              /\ file' = [file EXCEPT ![walk.current] = g]
              /\ from + take < SECTOR_SIZE \/ q < Len(places) => g.Size = f.Size
              /\ g.Size \in {f.Size, g.Position}
              /\ \/ from + take < SECTOR_SIZE /\ want' = want - take /\ At(g, places[q])
                 \/ /\ from + take = SECTOR_SIZE /\ q < Len(places)
                    /\ want' = want - take /\ At(g, places[q + 1])
                 \/ /\ from + take = SECTOR_SIZE /\ q < Len(places)
                    /\ want' = 0 /\ take < want /\ pc # "table"
                 \/ from + take = SECTOR_SIZE /\ q = Len(places) /\ want' \in {0, want - take}
           Stays ==
              /\ from + take < SECTOR_SIZE
              /\ want' = want - take
              /\ file' = [file EXCEPT ![walk.current] = moved]
              /\ UNCHANGED <<fat, failed, unnoticed>>
           Goes ==
              /\ from + take = SECTOR_SIZE
              /\ \E n \in NextSector(moved) :
                    /\ want' = IF n.more THEN want - take ELSE 0
                    /\ file' = [file EXCEPT ![walk.current] = n.file]
                    /\ fat' = n.fat
                    /\ failed' = (failed \/ n.fault)
                    /\ unnoticed' = (unnoticed \/ n.unnoticed
                                         \/ (n.fault /\ (want = take \/ pc = "table")))
<1>7. Stays \/ Goes
  BY <1>1, <1>3, Zenon DEF TurnsBy, moved
<1> HIDE DEF moved
<1>8a. /\ take \in Nat /\ take > 0 /\ take <= want /\ from + take <= SECTOR_SIZE
       /\ want \in Nat /\ SECTOR_SIZE \in Nat
  BY <1>2, <1>3, <1>4, Stage2Assumption
<1>9. ASSUME Stays PROVE Outcome
  <2>1. g = moved
    BY <1>4, <1>6, <1>9, FileSet, Zenon
  <2>2. Mounted(fat')
    <3>1. fat' = fat
      BY <1>9
    <3> QED BY <3>1, Zenon
  <2>3. At(moved, places[q])
    BY <1>6 DEF At
  <2>4. /\ from + take < SECTOR_SIZE /\ want' = want - take
        /\ file' = [file EXCEPT ![walk.current] = g]
    BY <1>9, <2>1
  <2>5. /\ IsFile(g) /\ g.Position = f.Position + take /\ g.IsDirectory = f.IsDirectory
        /\ g.FirstCluster = f.FirstCluster /\ g.Size = f.Size /\ g.Size \in {f.Size, g.Position}
        /\ At(g, places[q])
    BY <1>6, <2>1, <2>3
  <2> HIDE DEF g
  <2> QED BY <2>2, <2>4, <2>5, Zenon
<1>10. ASSUME Goes PROVE Outcome
  <2>1. PICK n \in NextSector(moved) :
           /\ want' = IF n.more THEN want - take ELSE 0
           /\ file' = [file EXCEPT ![walk.current] = n.file]
           /\ fat' = n.fat
           /\ unnoticed' = (unnoticed \/ n.unnoticed
                                \/ (n.fault /\ (want = take \/ pc = "table")))
    BY <1>10, Zenon
  <2>2. ~n.unnoticed /\ ~(n.fault /\ (want = take \/ pc = "table"))
    BY <2>1, Zenon
  <2>3. moved.CurrentCluster = places[q].cluster /\ moved.CurrentSectorInCluster = places[q].sector
    BY <1>6 DEF At
  <2>4. /\ n.more \in BOOLEAN /\ n.fault \in BOOLEAN
        /\ Mounted(n.fat) /\ Moved(n.file, moved)
        /\ q < Len(places) => /\ n.file.Size = moved.Size
                              /\ n.more => At(n.file, places[q + 1])
                              /\ ~n.more => n.fault
    BY <1>6, <2>2, <2>3, NextPlace, Zenon
  <2>5. IsFile(n.file) /\ g = n.file
    <3>1. IsFile(n.file)
      BY <2>4 DEF Moved
    <3> QED BY <1>4, <2>1, <3>1, FileSet, Zenon
  <2>6. /\ g.Position = f.Position + take /\ g.IsDirectory = f.IsDirectory
        /\ g.FirstCluster = f.FirstCluster /\ g.Size \in {f.Size, g.Position}
        /\ q < Len(places) => g.Size = f.Size
    BY <1>6, <2>4, <2>5, Zenon DEF Moved
  <2>7. q < Len(places) \/ q = Len(places)
    <3>1. Len(places) \in Nat /\ DOMAIN places = 1 .. Len(places)
      BY PlaceIs, Zenon
    <3> QED BY <3>1
  <2>8. file' = [file EXCEPT ![walk.current] = g]
    BY <2>1, <2>5
  <2>9. want' \in {0, want - take}
    BY <2>1
  <2>10. ~(from + take < SECTOR_SIZE)
    BY <1>3, <1>8a, <1>10
  <2>11. ASSUME q < Len(places)
         PROVE  \/ want' = want - take /\ At(g, places[q + 1])
                \/ want' = 0 /\ take < want /\ pc # "table"
    <3>1. CASE n.more
      BY <2>1, <2>4, <2>5, <2>11, <3>1, Zenon
    <3>2. CASE ~n.more
      <4>1. want # take /\ pc # "table" /\ want' = 0
        BY <2>1, <2>2, <2>4, <2>11, <3>2, Zenon
      <4> QED BY <1>8a, <4>1
    <3> QED BY <2>4, <3>1, <3>2
  <2>12. Mounted(fat')
    BY <2>1, <2>4, Zenon
  <2> HIDE DEF g
  <2>13. from + take = SECTOR_SIZE
    BY <1>10
  <2> QED BY <2>13, <2>5, <2>6, <2>7, <2>8, <2>9, <2>10, <2>11, <2>12, Zenon
<1>11. Outcome
  BY <1>7, <1>9, <1>10, Zenon
<1>12. TakesAt(f, places, q, from, take)
  BY <1>8, <1>11, Zenon DEF TakesAt
<1> QED BY <1>8a, <1>12, Zenon

--------------------------------------------------------------------------------
(* Reading the kernel, the directory and the root directory.                  *)

LEMMA KernelIs ==
    ASSUME machine \in Machines
    PROVE  /\ Len(machine.kernel) \in Nat \ {0}
           /\ TableAt \in Nat \ {0} /\ Count \in Nat /\ TableAt + Count <= Len(machine.kernel)
           /\ machine.headers = {Asked(i) : i \in 1 .. Count}
           /\ \A i \in 1 .. Count :
                 /\ Asked(i) \in HeaderSet
                 /\ Asked(i).Load =>
                       /\ Asked(i).FileSize <= Asked(i).MemorySize
                       /\ Asked(i).VirtualAddress + Asked(i).MemorySize <= MEMORY
           /\ \A i, j \in 1 .. Count : i # j /\ Asked(i).Load /\ Asked(j).Load =>
                 \/ Asked(i).VirtualAddress + Asked(i).MemorySize <= Asked(j).VirtualAddress
                 \/ Asked(j).VirtualAddress + Asked(j).MemorySize <= Asked(i).VirtualAddress
           /\ \A e \in machine.entries : e.name = Path[2] =>
                 /\ e.dir = FALSE /\ e.size \in 0 .. Len(machine.kernel)
                 /\ HoldsKernel(machine, e.first)
<1>1. SoundKernel(machine)
  BY MachineIs, Zenon
<1> QED BY <1>1, Zenon DEF SoundKernel, TableAt, Count, Asked

\* What a place of the kernel's file holds.
LEMMA KernelAt ==
    ASSUME machine \in Machines, NEW first, HoldsKernel(machine, first),
           NEW q \in DOMAIN machine.kernelPlaces, NEW k \in 1 .. Len(machine.kernel),
           NEW j \in 1 .. SECTOR_SIZE, k = (q - 1) * SECTOR_SIZE + j
    PROVE  machine.kernel[k] = machine.disk[SectorAt(machine, machine.kernelPlaces[q])][j]
<1>1. LET n == (q - 1) * SECTOR_SIZE + j
      IN  n <= Len(machine.kernel) =>
            machine.kernel[n] = machine.disk[SectorAt(machine, machine.kernelPlaces[q])][j]
  BY Zenon DEF HoldsKernel
<1>2. k <= Len(machine.kernel)
  BY KernelIs
<1> QED BY <1>1, <1>2, Zenon

\* A turn on the file of the kernel.
LEMMA KernelTurn ==
    ASSUME machine \in Machines, Typed, Mounted(fat), ReadPiece, ~unnoticed', InKernel,
           walk.current \in Handle
    PROVE  /\ want' \in Nat /\ out' \in Seq(Range(out'))
           /\ Mounted(fat')
           /\ file' = [k \in Handles |-> file'[k]] /\ \A k \in Handles : IsFile(file'[k])
           /\ \A k \in Handles \ {walk.current} : file'[k] = file[k]
           /\ Len(out') + want' <= Len(out) + want
           /\ From' = From
           /\ \/ /\ InKernel' /\ Len(out') + want' = Len(out) + want
                 /\ (file[walk.current].Position + want)' = file[walk.current].Position + want
                 /\ file'[walk.current].Size \in
                       {file[walk.current].Size, file[walk.current].Position + want}
              \/ want' = 0 /\ Len(out') < Len(out) + want /\ pc # "table"
<1> DEFINE f == file[walk.current]
           places == machine.kernelPlaces
           size == Len(machine.kernel)
           S == Range(out)
<1>1. /\ f.IsDirectory = FALSE /\ f.Size <= size /\ HoldsKernel(machine, f.FirstCluster)
      /\ f.Position + want <= f.Size
      /\ f.Position < Len(places) * SECTOR_SIZE => OnPlace(f, places)
      /\ Len(out) <= f.Position
      /\ \A k \in 1 .. Len(out) : out[k] = machine.kernel[(f.Position - Len(out)) + k]
  <2>1. f.IsDirectory \in BOOLEAN
    BY DEF Typed, IsFile, Handles
  <2> QED BY <2>1 DEF InKernel
<1>2. LiesAt(machine, f.FirstCluster, places) /\ size <= Len(places) * SECTOR_SIZE
  BY <1>1, Zenon DEF HoldsKernel
<1>3. /\ IsFile(f) /\ f.Position \in Nat /\ f.Size \in Int /\ want \in Nat /\ want > 0
      /\ size \in Nat /\ walk.current \in Handles /\ SECTOR_SIZE \in Nat /\ SECTOR_SIZE > 0
      /\ walk.current # ROOT_DIRECTORY_HANDLE /\ out \in Seq(S) /\ Len(out) \in Nat
  <2>1. want > 0
    BY Zenon DEF ReadPiece
  <2>2. IsFile(f) /\ want \in Nat /\ out \in Seq(S)
    BY DEF Typed, Handles
  <2>3. walk.current # ROOT_DIRECTORY_HANDLE
    BY DEF Handle, ROOT_DIRECTORY_HANDLE
  <2>4. Len(out) \in Nat
    BY <2>2, LenProperties
  <2>5. f.Position \in Nat /\ f.Size \in Int
    BY <2>2 DEF IsFile
  <2>6. size \in Nat
    BY KernelIs
  <2>7. walk.current \in Handles
    BY DEF Handles
  <2> QED BY <2>1, <2>2, <2>3, <2>4, <2>5, <2>6, <2>7, SectorSize
<1>4. places \in Seq([cluster : machine.clusters,
                      sector : 0 .. BootSector(machine).SectorsPerCluster - 1])
  BY <1>2, Zenon DEF LiesAt
<1>5. Len(places) \in Nat /\ DOMAIN places = 1 .. Len(places) /\ Len(places) * SECTOR_SIZE \in Nat
  BY <1>3, <1>4, LenProperties, Multiples
<1>6. f.Position < Len(places) * SECTOR_SIZE
  <2> DEFINE all == Len(places) * SECTOR_SIZE
             p == f.Position
             z == f.Size
             w == want
  <2>1. all \in Nat /\ size <= all /\ p + w <= z /\ z <= size /\ p \in Nat /\ z \in Int
        /\ w \in Nat /\ w > 0 /\ size \in Nat
    BY <1>1, <1>2, <1>3, <1>5
  <2> HIDE DEF all, p, z, w, size
  <2>2. p < all
    BY <2>1
  <2> QED BY <2>2 DEF all, p
<1>7. PICK q \in DOMAIN places, from \in 0 .. SECTOR_SIZE - 1 :
        f.Position = (q - 1) * SECTOR_SIZE + from /\ At(f, places[q])
  BY <1>1, <1>6 DEF OnPlace, At
<1> HIDE DEF places, size
<1>8. PICK take \in Nat : TakesAt(f, places, q, from, take)
  <2> HIDE DEF f
  <2> QED BY <1>2, <1>3, <1>7, TurnOnPlace, Zenon DEF f
<1> DEFINE g == file'[walk.current]
           B == machine.disk[SectorAt(machine, places[q])]
<1>9. /\ take > 0 /\ take <= want /\ from + take <= SECTOR_SIZE /\ from \in Nat
      /\ g.Position = f.Position + take
      /\ f.Position = (q - 1) * SECTOR_SIZE + from
  <2>1. /\ take > 0 /\ take <= want /\ from + take <= SECTOR_SIZE
        /\ g.Position = f.Position + take
    BY <1>8, Zenon DEF TakesAt
  <2>2. from \in Nat
    BY <1>7
  <2> QED BY <1>7, <2>1, <2>2, Zenon
<1>10. /\ out' \in Seq(Range(out')) /\ Len(out') = Len(out) + take
       /\ \A k \in 1 .. Len(out) : out'[k] = out[k]
       /\ \A i \in 1 .. take : out'[Len(out) + i] = B[from + i]
  <2>1. out' = out \o Pieces(B, from, take)
    BY <1>8, Zenon DEF TakesAt
  <2> HIDE DEF B, S
  <2>2. out \in Seq(S)
    BY <1>3
  <2>3. Grown(B, from, take)
    BY <2>1, <2>2, OutGrows
  <2> QED BY <2>3, Zenon DEF Grown
<1>11. walk' = walk /\ machine' = machine /\ pc' = pc
  BY TurnAside DEF Aside
<1>12. /\ file' = [k \in Handles |-> file'[k]] /\ \A k \in Handles : IsFile(file'[k])
       /\ \A k \in Handles \ {walk.current} : file'[k] = file[k]
  BY <1>3, <1>8, FileSet, Zenon DEF TakesAt
\* What comes is the kernel's.
<1>13. \A k \in 1 .. Len(out') : out'[k] = machine.kernel[(f.Position - Len(out)) + k]
  <2> TAKE k \in 1 .. Len(out')
  <2> HIDE DEF f, g, S, B
  <2>1. CASE k <= Len(out)
    <3>1. k \in 1 .. Len(out)
      BY <2>1
    <3> QED BY <1>1, <1>10, <3>1, Zenon
  <2>2. CASE ~(k <= Len(out))
    <3> DEFINE i == k - Len(out)
               j == from + i
               n == f.Position + i
    <3>1. i \in 1 .. take /\ k = Len(out) + i /\ j \in 1 .. SECTOR_SIZE /\ n \in 1 .. size
      <4>1. k \in Nat /\ k > Len(out) /\ k <= Len(out) + take
        BY <1>3, <1>10, <2>2
      <4>2. f.Position + want <= f.Size /\ f.Size <= size
        BY <1>1, Zenon
      <4> DEFINE o == Len(out)
                 p == f.Position
                 z == f.Size
                 w == want
      <4>3. o \in Nat /\ p \in Nat /\ z \in Int /\ w \in Nat /\ size \in Nat /\ p + w <= z
            /\ z <= size /\ k > o /\ k <= o + take /\ take <= w /\ from + take <= SECTOR_SIZE
            /\ from \in Nat /\ SECTOR_SIZE \in Nat
        BY <1>3, <1>9, <4>1, <4>2
      <4> HIDE DEF o, p, z, w
      <4>4. k - o \in 1 .. take /\ k = o + (k - o)
        BY <4>1, <4>3
      <4>5. from + (k - o) \in 1 .. SECTOR_SIZE
        BY <4>1, <4>3
      <4>6. p + (k - o) \in 1 .. size
        BY <4>1, <4>3
      <4> QED BY <4>4, <4>5, <4>6 DEF o, p
    <3>2. n = (q - 1) * SECTOR_SIZE + j
      <4> DEFINE x == (q - 1) * SECTOR_SIZE
      <4>1. x \in Nat /\ f.Position = x + from
        <5>1. q - 1 \in Nat
          BY <1>5
        <5> QED BY <1>3, <1>9, <5>1, Multiples
      <4> HIDE DEF x
      <4> QED BY <1>9, <3>1, <4>1 DEF x
    <3> HIDE DEF n, j, i
    <3>3. machine.kernel[n] = B[j]
      BY <1>1, <1>7, <3>1, <3>2, KernelAt, Zenon DEF size, places, B
    <3>4. (f.Position - Len(out)) + k = n
      BY <1>3, <3>1 DEF n
    <3> QED BY <1>10, <3>1, <3>3, <3>4 DEF j
  <2> QED BY <2>1, <2>2
\* Where the file is then.
<1> DEFINE Ahead(n, j) == n \in DOMAIN places /\ g.Position = (n - 1) * SECTOR_SIZE + j
                             /\ j \in 0 .. SECTOR_SIZE - 1 /\ At(g, places[n])
           Shortened == want' = 0 /\ take < want /\ pc # "table"
           all == Len(places) * SECTOR_SIZE
           base == (q - 1) * SECTOR_SIZE
<1>14. /\ q \in Nat /\ q > 0 /\ q <= Len(places) /\ q - 1 \in Nat /\ base \in Nat
       /\ q * SECTOR_SIZE = base + SECTOR_SIZE /\ q + 1 - 1 = q
  <2>1. q \in Nat /\ q > 0 /\ q <= Len(places) /\ q - 1 \in Nat /\ q - 1 + 1 = q /\ q + 1 - 1 = q
    BY <1>5, <1>7
  <2>2. (q - 1) * SECTOR_SIZE \in Nat
        /\ (q - 1 + 1) * SECTOR_SIZE = (q - 1) * SECTOR_SIZE + SECTOR_SIZE
    BY <1>3, <2>1, Multiples
  <2> QED BY <2>1, <2>2
<1>15. \/ want' = want - take /\ g.Size = f.Size /\ \E n, j : Ahead(n, j)
       \/ Shortened
       \/ want' = 0 /\ take = want /\ g.Position >= all /\ g.Size \in {f.Size, g.Position}
  <2>1. /\ from + take < SECTOR_SIZE \/ q < Len(places) => g.Size = f.Size
        /\ g.Size \in {f.Size, g.Position}
        /\ \/ from + take < SECTOR_SIZE /\ want' = want - take /\ At(g, places[q])
           \/ /\ from + take = SECTOR_SIZE /\ q < Len(places)
              /\ want' = want - take /\ At(g, places[q + 1])
           \/ /\ from + take = SECTOR_SIZE /\ q < Len(places)
              /\ want' = 0 /\ take < want /\ pc # "table"
           \/ from + take = SECTOR_SIZE /\ q = Len(places) /\ want' \in {0, want - take}
    BY <1>8, Zenon DEF TakesAt
  <2>2. /\ f.Position = base + from /\ g.Position = base + from + take /\ base \in Nat
        /\ from \in Nat /\ SECTOR_SIZE \in Nat /\ q * SECTOR_SIZE = base + SECTOR_SIZE
    BY <1>3, <1>9, <1>14
  <2>3. CASE from + take < SECTOR_SIZE /\ want' = want - take /\ At(g, places[q])
    <3>1. g.Position = (q - 1) * SECTOR_SIZE + (from + take)
      <4> HIDE DEF g, f
      <4> QED BY <2>2
    <3>2. from + take \in 0 .. SECTOR_SIZE - 1
      BY <2>2, <2>3
    <3>3. Ahead(q, from + take)
      BY <1>7, <2>3, <3>1, <3>2
    <3> QED BY <2>1, <2>3, <3>3
  <2>4. CASE /\ from + take = SECTOR_SIZE /\ q < Len(places)
             /\ want' = want - take /\ At(g, places[q + 1])
    <3>1. g.Position = q * SECTOR_SIZE + 0
      <4> DEFINE e == q * SECTOR_SIZE
                 p == g.Position
      <4>1. e = base + SECTOR_SIZE /\ p = base + from + take /\ base \in Nat /\ from \in Nat
            /\ SECTOR_SIZE \in Nat /\ from + take = SECTOR_SIZE
        BY <2>2, <2>4
      <4> HIDE DEF g, f, base, e, p
      <4>2. p = e + 0
        BY <4>1
      <4> QED BY <4>2 DEF e, p
    <3>2. q + 1 \in DOMAIN places /\ 0 \in 0 .. SECTOR_SIZE - 1 /\ q + 1 - 1 = q
      <4>1. Len(places) \in Nat /\ DOMAIN places = 1 .. Len(places) /\ q < Len(places)
        BY <1>5, <2>4
      <4> HIDE DEF base, all, g, f
      <4>2. q + 1 \in 1 .. Len(places)
        BY <1>14, <4>1
      <4>3. 0 \in 0 .. SECTOR_SIZE - 1
        BY SectorSize
      <4> QED BY <1>14, <4>1, <4>2, <4>3, Zenon
    <3>3. Ahead(q + 1, 0)
      BY <2>4, <3>1, <3>2
    <3> QED BY <2>1, <2>4, <3>3
  <2>5. CASE from + take = SECTOR_SIZE /\ q = Len(places) /\ want' \in {0, want - take}
    <3>1. all = base + SECTOR_SIZE /\ all \in Nat
      BY <1>5, <1>14, <2>5
    <3>2. f.Position + want <= f.Size /\ f.Size <= size /\ size <= all /\ f.Size \in Int
          /\ want \in Nat /\ size \in Nat
      BY <1>1, <1>2, <1>3
    <3> HIDE DEF all, base, f, g, size
    <3>3. take = want
      BY <1>9, <2>2, <2>5, <3>1, <3>2
    <3>4. g.Position >= all
      BY <2>2, <2>5, <3>1
    <3>5. want' = 0
      BY <2>5, <3>2, <3>3
    <3> QED BY <2>1, <3>3, <3>4, <3>5
  <2> QED BY <2>1, <2>3, <2>4, <2>5
<1>16. Len(out') + want' <= Len(out) + want /\ want' \in Nat
  <2>1. want' = want - take \/ want' = 0
    BY <1>15
  <2>2. Len(out') = Len(out) + take
    BY <1>10
  <2> QED BY <1>3, <1>9, <2>1, <2>2
<1>20. From' = From
  <2>1. Len(out') = Len(out) + take
    BY <1>10
  <2> HIDE DEF f, g
  <2>2. file'[walk'.current] = g /\ file[walk.current] = f
    BY <1>11 DEF g, f
  <2>3. g.Position - Len(out') = f.Position - Len(out)
    BY <1>3, <1>9, <2>1
  <2> QED BY <2>2, <2>3 DEF From
<1>17. CASE Shortened
  <2>1. want' = 0 /\ Len(out') < Len(out) + want /\ pc # "table"
    BY <1>3, <1>10, <1>17
  <2> QED BY <1>8, <1>10, <1>12, <1>16, <1>20, <2>1, Zenon DEF TakesAt
<1>18. CASE ~Shortened
  <2>1. /\ want' = want - take /\ g.Position + want' = f.Position + want
        /\ g.Position + want' <= g.Size /\ g.Size \in {f.Size, f.Position + want}
        /\ g.Position < all => \E n, j : Ahead(n, j)
    <3>1. CASE want' = want - take /\ g.Size = f.Size /\ \E n, j : Ahead(n, j)
      <4> HIDE DEF Ahead
      <4>1. f.Position + want <= f.Size
        BY <1>1
      <4> HIDE DEF f, g, all
      <4> QED BY <1>3, <1>9, <3>1, <4>1
    <3>2. CASE want' = 0 /\ take = want /\ g.Position >= all /\ g.Size \in {f.Size, g.Position}
      <4>1. f.Position + want <= f.Size /\ all \in Nat
        BY <1>1, <1>5
      <4> HIDE DEF f, g, all, Ahead
      <4>2. g.Position = f.Position + want /\ f.Position + want \in Nat /\ ~(g.Position < all)
        BY <1>3, <1>9, <3>2, <4>1
      <4> QED BY <1>3, <3>2, <4>1, <4>2
    <3> QED BY <1>15, <1>18, <3>1, <3>2
  <2>2. /\ g.IsDirectory = FALSE /\ g.FirstCluster = f.FirstCluster
        /\ HoldsKernel(machine, g.FirstCluster)
    BY <1>1, <1>8, Zenon DEF TakesAt
  <2>3. /\ Len(out') <= g.Position /\ g.Position - Len(out') = f.Position - Len(out)
        /\ Len(out') + want' = Len(out) + want /\ g.Size <= size
    <3>1. Len(out) <= f.Position /\ f.Size <= size /\ f.Position + want <= f.Size
      BY <1>1
    <3>2. Len(out') = Len(out) + take
      BY <1>10
    <3> DEFINE o == Len(out)
               o1 == Len(out')
               p == f.Position
               p1 == g.Position
               z == f.Size
               z1 == g.Size
               w == want
               w1 == want'
    <3>3. /\ o \in Nat /\ p \in Nat /\ z \in Int /\ w \in Nat /\ size \in Nat /\ o <= p
          /\ z <= size /\ p + w <= z /\ o1 = o + take /\ take \in Nat /\ take <= w
          /\ p1 = p + take /\ w1 = w - take /\ (z1 = z \/ z1 = p + w)
      BY <1>3, <1>9, <2>1, <3>1, <3>2
    <3> HIDE DEF o, o1, p, p1, z, z1, w, w1, f, g, all, Ahead
    <3>4. o1 <= p1 /\ p1 - o1 = p - o
      BY <3>3
    <3>5. o1 + w1 = o + w /\ z1 <= size
      BY <3>3
    <3> QED BY <3>4, <3>5 DEF o, o1, p, p1, z1, w, w1
  <2>4. \A k \in 1 .. Len(out') : out'[k] = machine.kernel[(g.Position - Len(out')) + k]
    BY <1>13, <2>3
  <2>5. g.Position < all => \E n \in DOMAIN places, j \in 0 .. SECTOR_SIZE - 1 :
             /\ g.Position = (n - 1) * SECTOR_SIZE + j
             /\ g.CurrentCluster = places[n].cluster
             /\ g.CurrentSectorInCluster = places[n].sector
             /\ g.Buffer = machine.disk[SectorAt(machine, places[n])]
    BY <2>1 DEF At
  <2>6. InKernel'
    <3> HIDE DEF f, g
    <3>1. file'[walk'.current] = g /\ file[walk.current] = f
      BY <1>11 DEF g, f
    <3> QED
      <4>1. g.Position < all => OnPlace(file[walk.current], places)'
        BY <1>11, <2>5, <3>1 DEF OnPlace, places
      <4>2. /\ ~g.IsDirectory /\ g.Size <= size /\ HoldsKernel(machine, g.FirstCluster)
            /\ g.Position + want' <= g.Size /\ Len(out') <= g.Position
        BY <2>1, <2>2, <2>3
      <4> QED BY <1>11, <2>4, <3>1, <4>1, <4>2, Zenon DEF InKernel, places, size, all
  <2>7. (file[walk.current].Position + want)' = f.Position + want
    BY <1>11, <2>1
  <2> QED BY <1>8, <1>10, <1>12, <1>16, <1>20, <2>1, <2>3, <2>6, <2>7, Zenon DEF TakesAt
<1> QED BY <1>17, <1>18

LEMMA PlaceNext ==
    ASSUME NEW q \in Nat, q > 0
    PROVE  /\ q - 1 \in Nat /\ (q - 1) * SECTOR_SIZE \in Nat /\ q * SECTOR_SIZE \in Nat
           /\ q * SECTOR_SIZE = (q - 1) * SECTOR_SIZE + SECTOR_SIZE
<1>1. SECTOR_SIZE \in Nat /\ q - 1 \in Nat /\ q - 1 + 1 = q
  BY Stage2Assumption
<1> QED BY <1>1, Multiples

\* The piece that is read is the one at a place.
LEMMA PlaceSame ==
    ASSUME NEW q \in Nat, q > 0, NEW n \in Nat, n > 0, NEW from \in 0 .. SECTOR_SIZE - 1,
           NEW j \in 1 .. SECTOR_SIZE,
           (q - 1) * SECTOR_SIZE + from + 1 = (n - 1) * SECTOR_SIZE + j
    PROVE  n = q /\ j = from + 1
<1> DEFINE b == (q - 1) * SECTOR_SIZE
           t == (n - 1) * SECTOR_SIZE
           i == j - 1
           q1 == q - 1
           n1 == n - 1
<1>1. /\ SECTOR_SIZE \in Nat /\ i \in Nat /\ i < SECTOR_SIZE /\ from \in Nat
      /\ from < SECTOR_SIZE /\ q1 \in Nat /\ n1 \in Nat /\ j = i + 1
      /\ q = q1 + 1 /\ n = n1 + 1
  BY Stage2Assumption
<1>2. b \in Nat /\ t \in Nat /\ b + from + 1 = t + j
  BY PlaceNext
<1> HIDE DEF i
<1>3. b + from = t + i
  <2> HIDE DEF b, t
  <2> QED BY <1>1, <1>2
<1>4. q1 * SECTOR_SIZE + from = n1 * SECTOR_SIZE + i
  BY <1>3
<1> HIDE DEF q1, n1, b, t
<1>5. q1 = n1 /\ from = i
  BY <1>1, <1>4, DivideOne
<1> QED BY <1>1, <1>5

LEMMA PlaceBefore ==
    ASSUME NEW q \in Nat, NEW n \in Nat, n > 0, n <= q, NEW j \in 1 .. SECTOR_SIZE
    PROVE  (n - 1) * SECTOR_SIZE + j <= q * SECTOR_SIZE
<1> DEFINE d == n * SECTOR_SIZE
           e == q * SECTOR_SIZE
           t == (n - 1) * SECTOR_SIZE
<1>1. SECTOR_SIZE \in Nat /\ j \in Nat /\ j <= SECTOR_SIZE
  BY Stage2Assumption
<1>2. d <= e /\ e \in Nat /\ d \in Nat
  BY <1>1, Multiples
<1>3. d = t + SECTOR_SIZE /\ t \in Nat
  BY PlaceNext
<1> HIDE DEF d, e, t
<1>4. t + j <= e
  BY <1>1, <1>2, <1>3
<1> QED BY <1>4 DEF t, e

LEMMA MinOne ==
    ASSUME NEW n \in Nat, n > 0
    PROVE  Min({1, n}) = 1
BY MinTwo

\* What a search has read before it reads again.
LEMMA SearchReads ==
    ASSUME Typed, Walk, pc = "find", ReadPiece
    PROVE  want = 1 /\ out = <<>> /\ Len(out) = 0 /\ out \in Seq(Range(out))
<1>1. want \in Nat /\ out \in Seq(Range(out)) /\ want + Len(out) <= 1
  BY DEF Typed, Walk
<1>2. want > 0
  BY Zenon DEF ReadPiece
<1>3. Len(out) \in Nat
  BY <1>1, LenProperties
<1>4. want = 1 /\ Len(out) = 0
  BY <1>1, <1>2, <1>3
<1> QED BY <1>1, <1>4, EmptySeq

\* A turn on the directory "boot".
LEMMA DirectoryTurn ==
    ASSUME machine \in Machines, Typed, Mounted(fat), ReadPiece, ~unnoticed', Directory, Walk,
           pc = "find", walk.current # ROOT_DIRECTORY_HANDLE
    PROVE  /\ want' = 0 /\ out' \in Seq(Range(out')) /\ Len(out') = 1
           /\ Mounted(fat')
           /\ file' = [k \in Handles |-> file'[k]] /\ \A k \in Handles : IsFile(file'[k])
           /\ \A k \in Handles \ {walk.current} : file'[k] = file[k]
           /\ Directory'
<1> DEFINE f == file[walk.current]
           places == machine.bootPlaces
           S == Range(out)
           T(n, j) == (n - 1) * SECTOR_SIZE + j
<1>1. want = 1 /\ Len(out) = 0 /\ out \in Seq(S)
  BY SearchReads
<1>2. f.IsDirectory /\ HoldsEntry(machine, f.FirstCluster)
  BY Zenon DEF Directory
<1>3. PICK n \in DOMAIN places, j \in 1 .. SECTOR_SIZE :
        /\ IsNamed(machine, machine.disk[SectorAt(machine, places[n])][j], Path[2])
        /\ Searching(f.Position, T(n, j), Path[2])
        /\ f.Position < T(n, j) => f.Size = 0 /\ OnPlace(f, places)
  BY Zenon DEF Directory
<1>4. LiesAt(machine, f.FirstCluster, places)
  BY <1>2, Zenon DEF HoldsEntry
<1>5. IsFile(f) /\ walk.current \in Handles /\ SECTOR_SIZE \in Nat /\ SECTOR_SIZE > 0
  BY SectorSize DEF Typed
<1>6. f.Position \in Nat
  BY <1>5 DEF IsFile
<1>7. f.Position < T(n, j)
  BY <1>1, <1>3, <1>6 DEF Searching
<1>8. f.Size = 0 /\ OnPlace(f, places)
  BY <1>3, <1>7
<1>9. PICK q \in DOMAIN places, from \in 0 .. SECTOR_SIZE - 1 :
        f.Position = (q - 1) * SECTOR_SIZE + from /\ At(f, places[q])
  BY <1>8 DEF OnPlace, At
<1> HIDE DEF places, T
<1>10. PICK take \in Nat : TakesAt(f, places, q, from, take)
  <2> HIDE DEF f
  <2> QED BY <1>4, <1>5, <1>9, TurnOnPlace, Zenon DEF f
<1> DEFINE g == file'[walk.current]
           B == machine.disk[SectorAt(machine, places[q])]
<1>11. take = 1 /\ from + 1 <= SECTOR_SIZE /\ from \in Nat
  <2>1. take > 0 /\ take <= want /\ from + take <= SECTOR_SIZE
    BY <1>10, Zenon DEF TakesAt
  <2> QED BY <1>1, <1>9, <2>1
<1>12. out' \in Seq(Range(out')) /\ Len(out') = 1 /\ out'[1] = B[from + 1]
  <2>1. out' = out \o Pieces(B, from, take)
    BY <1>10, Zenon DEF TakesAt
  <2> HIDE DEF B, S
  <2>2. Grown(B, from, take)
    BY <1>1, <2>1, OutGrows
  <2>3. /\ out' \in Seq(Range(out')) /\ Len(out') = Len(out) + take
        /\ \A i \in 1 .. take : out'[Len(out) + i] = B[from + i]
    BY <2>2, Zenon DEF Grown
  <2> QED BY <1>1, <1>11, <2>3
<1>13. walk' = walk /\ machine' = machine /\ pc' = pc
  BY TurnAside DEF Aside
<1>14. /\ file' = [k \in Handles |-> file'[k]] /\ \A k \in Handles : IsFile(file'[k])
       /\ \A k \in Handles \ {walk.current} : file'[k] = file[k]
  BY <1>5, <1>10, FileSet, Zenon DEF TakesAt
<1>15. /\ g.IsDirectory = f.IsDirectory /\ g.FirstCluster = f.FirstCluster
       /\ g.Position = f.Position + 1
  BY <1>10, <1>11, Zenon DEF TakesAt
<1>16. /\ Len(places) \in Nat /\ DOMAIN places = 1 .. Len(places)
  BY <1>4, <1>9, PlaceIs, Zenon
<1>17. /\ n - 1 \in Nat /\ q - 1 \in Nat /\ j - 1 \in Nat /\ j - 1 < SECTOR_SIZE
       /\ j \in Nat /\ from < SECTOR_SIZE /\ n \in Nat /\ q \in Nat /\ q <= Len(places)
       /\ n <= Len(places)
  BY <1>3, <1>5, <1>9, <1>16
<1> DEFINE base == (q - 1) * SECTOR_SIZE
           t == (n - 1) * SECTOR_SIZE
<1>18. base \in Nat /\ t \in Nat /\ q * SECTOR_SIZE = base + SECTOR_SIZE
  <2>1. q - 1 + 1 = q
    BY <1>17
  <2> QED BY <1>5, <1>17, <2>1, Multiples
<1> HIDE DEF f, g, B, S
\* The entry is the one that has come.
<1>19. g.Position = T(n, j) => n = q /\ j = from + 1
  <2>1. ASSUME g.Position = T(n, j) PROVE n = q /\ j = from + 1
    <3>1. g.Position = (q - 1) * SECTOR_SIZE + from + 1
      BY <1>9, <1>15
    <3>2. (q - 1) * SECTOR_SIZE + from + 1 = (n - 1) * SECTOR_SIZE + j
      BY <2>1, <3>1 DEF T
    <3>3. q > 0 /\ n > 0 /\ q \in Nat /\ n \in Nat
      BY <1>17
    <3> QED BY <3>2, <3>3, PlaceSame
  <2> QED BY <2>1
<1>20. /\ g.Position - Len(out') < T(n, j) /\ g.Position <= T(n, j)
       /\ g.Position = T(n, j) => IsNamed(machine, out'[1], Path[2])
  <2>1. T(n, j) \in Nat /\ Len(out') = 1
    <3>1. t \in Nat /\ j \in Nat /\ T(n, j) = t + j
      BY <1>17, <1>18 DEF T
    <3> HIDE DEF t
    <3> QED BY <1>12, <3>1
  <2>2. g.Position - Len(out') < T(n, j) /\ g.Position <= T(n, j)
    <3> HIDE DEF g, f
    <3> QED BY <1>6, <1>7, <1>15, <2>1
  <2>3. ASSUME g.Position = T(n, j) PROVE IsNamed(machine, out'[1], Path[2])
    <3>1. out'[1] = machine.disk[SectorAt(machine, places[n])][j]
      BY <1>12, <1>19, <2>3 DEF B
    <3> QED BY <1>3, <3>1
  <2> QED BY <2>2, <2>3
\* It was not: the directory goes on.
<1> DEFINE Ahead(x, y) == x \in DOMAIN places /\ g.Position = (x - 1) * SECTOR_SIZE + y
                             /\ y \in 0 .. SECTOR_SIZE - 1 /\ At(g, places[x])
<1>21. ASSUME g.Position < T(n, j)
       PROVE  g.Size = 0 /\ \E x, y : Ahead(x, y)
  <2>1. /\ from + take < SECTOR_SIZE \/ q < Len(places) => g.Size = f.Size
        /\ \/ from + take < SECTOR_SIZE /\ At(g, places[q])
           \/ from + take = SECTOR_SIZE /\ q < Len(places) /\ At(g, places[q + 1])
           \/ take < want
           \/ from + take = SECTOR_SIZE /\ q = Len(places)
    BY <1>10, Zenon DEF TakesAt, g
  <2>2. g.Position = base + from + 1
    BY <1>9, <1>15
  <2>3. CASE from + 1 < SECTOR_SIZE
    <3>1. At(g, places[q]) /\ g.Size = 0
      BY <1>1, <1>8, <1>11, <2>1, <2>3
    <3>2. g.Position = base + (from + 1) /\ from + 1 \in 0 .. SECTOR_SIZE - 1
      <4> HIDE DEF g
      <4> QED BY <1>5, <1>11, <1>18, <2>2, <2>3
    <3>3. Ahead(q, from + 1)
      BY <1>9, <3>1, <3>2
    <3> QED BY <3>1, <3>3
  <2>4. CASE from + 1 = SECTOR_SIZE
    <3>1. g.Position = q * SECTOR_SIZE
      <4> DEFINE e == q * SECTOR_SIZE
      <4>1. e = base + SECTOR_SIZE /\ base \in Nat
        BY <1>18
      <4> HIDE DEF g, base, e
      <4>2. g.Position = e
        BY <1>5, <1>11, <2>2, <2>4, <4>1
      <4> QED BY <4>2 DEF e
    <3>2. q < Len(places)
      <4>1. ASSUME q = Len(places) PROVE FALSE
        <5>1. n <= q /\ n > 0
          BY <1>17, <4>1
        <5>2. T(n, j) <= q * SECTOR_SIZE
          BY <1>17, <5>1, PlaceBefore, Zenon DEF T
        <5>3. q * SECTOR_SIZE \in Nat
          BY <1>5, <1>17, Multiples
        <5> DEFINE e == q * SECTOR_SIZE
        <5>4. g.Position = e /\ e \in Nat /\ T(n, j) <= e /\ T(n, j) \in Nat
          <6>1. (n - 1) * SECTOR_SIZE + j \in Nat
            <7>1. t \in Nat /\ j \in Nat
              BY <1>17, <1>18
            <7> HIDE DEF t
            <7>2. t + j \in Nat
              BY <7>1
            <7> QED BY <7>2 DEF t
          <6> QED BY <3>1, <5>2, <5>3, <6>1, Zenon DEF T
        <5> DEFINE x == T(n, j)
                   p == g.Position
        <5>5. p < x /\ p = e /\ e \in Nat /\ x <= e /\ x \in Nat
          BY <1>21, <5>4, Zenon
        <5> HIDE DEF e, x, p
        <5> QED BY <5>5
      <4> QED BY <1>17, <4>1
    <3>3. At(g, places[q + 1]) /\ g.Size = 0
      <4>1. from + take = SECTOR_SIZE /\ ~(take < want) /\ ~(q = Len(places))
            /\ ~(from + take < SECTOR_SIZE)
        <5> DEFINE m == Len(places)
        <5>1. take = 1 /\ want = 1 /\ from \in Nat /\ from + 1 = SECTOR_SIZE /\ q < m
              /\ q \in Nat /\ m \in Nat
          BY <1>1, <1>11, <1>16, <1>17, <2>4, <3>2
        <5> HIDE DEF m
        <5>2. from + take = SECTOR_SIZE /\ ~(take < want) /\ ~(q = m) /\ ~(from + take < SECTOR_SIZE)
          BY <5>1
        <5> QED BY <5>2 DEF m
      <4> QED BY <1>8, <2>1, <3>2, <4>1, Zenon
    <3>4. /\ q + 1 \in DOMAIN places /\ 0 \in 0 .. SECTOR_SIZE - 1
          /\ g.Position = q * SECTOR_SIZE + 0
      <4>1. q * SECTOR_SIZE \in Nat
        BY <1>18, <1>5
      <4>2. q + 1 \in DOMAIN places /\ 0 \in 0 .. SECTOR_SIZE - 1
        BY <1>5, <1>16, <1>17, <3>2
      <4> DEFINE e == q * SECTOR_SIZE
      <4>3. e \in Nat /\ g.Position = e
        BY <3>1, <4>1
      <4> HIDE DEF g, e
      <4>4. g.Position = e + 0
        BY <4>3
      <4> QED BY <4>2, <4>4 DEF e
    <3>5. g.Position = ((q + 1) - 1) * SECTOR_SIZE + 0
      <4>1. (q + 1) - 1 = q
        BY <1>17
      <4> QED BY <3>4, <4>1
    <3>6. Ahead(q + 1, 0)
      BY <3>3, <3>4, <3>5, Zenon
    <3> QED BY <3>3, <3>6
  <2> QED BY <1>5, <1>11, <2>3, <2>4
<1>22. want' = 0
  <2>1. want' \in {0, want - take}
    BY <1>10, Zenon DEF TakesAt
  <2> QED BY <1>1, <1>11, <2>1
<1>23. Directory'
  <2> HIDE DEF f, g
  <2>1. file'[walk'.current] = g
    BY <1>13 DEF g
  <2>2. /\ g.IsDirectory /\ HoldsEntry(machine, g.FirstCluster)
    BY <1>2, <1>15
  <2>3. g.Position < T(n, j) => g.Size = 0 /\ OnPlace(file[walk.current], places)'
    BY <1>13, <1>21, <2>1 DEF OnPlace, At, places, Ahead
  <2>4. Searching(file[walk.current].Position, T(n, j), Path[2])'
    BY <1>13, <1>20, <2>1 DEF Searching
  <2> QED BY <1>3, <1>13, <2>1, <2>2, <2>3, <2>4, Zenon DEF Directory, places, T
<1>24. Mounted(fat')
  BY <1>10, Zenon DEF TakesAt
<1> QED BY <1>12, <1>14, <1>22, <1>23, <1>24

\* The entry of "boot" in the root directory.
BootIsAt(n, j) ==
    LET root == RootLba(BootSector(machine)) IN
    /\ machine.bootAt = n * SECTOR_SIZE + j
    /\ \A k \in 0 .. n : root + k \in machine.root /\ Offset(machine) + root + k \in DOMAIN machine.disk
    /\ IsNamed(machine, RootSector(n)[j], Path[1])

LEMMA RootIs ==
    ASSUME machine \in Machines
    PROVE  /\ machine.bootAt \in Nat
           /\ machine.bootAt # 0 =>
                 /\ \E n \in Nat, j \in 1 .. SECTOR_SIZE : BootIsAt(n, j)
                 /\ \/ BootSector(machine).DirEntryCount = 0
                    \/ machine.bootAt <= BootSector(machine).DirEntryCount
           /\ \A e \in machine.entries : e.name = Path[1] =>
                 e.dir = TRUE /\ e.size = 0 /\ HoldsEntry(machine, e.first)
<1> DEFINE at == machine.bootAt
           root == RootLba(BootSector(machine))
           n == (at - 1) \div SECTOR_SIZE
           i == (at - 1) % SECTOR_SIZE
<1>1. /\ at \in Nat
      /\ at # 0 =>
            /\ \A k \in 0 .. n : root + k \in machine.root /\ Offset(machine) + root + k \in DOMAIN machine.disk
            /\ IsNamed(machine, machine.disk[Offset(machine) + root + n][i + 1], Path[1])
            /\ BootSector(machine).DirEntryCount = 0 \/ at <= BootSector(machine).DirEntryCount
      /\ \A e \in machine.entries : e.name = Path[1] =>
            e.dir = TRUE /\ e.size = 0 /\ HoldsEntry(machine, e.first)
  <2>1. SoundRoot(machine)
    BY MachineIs, Zenon
  <2> QED BY <2>1, Zenon DEF SoundRoot
<1>2. ASSUME at # 0 PROVE \E n_ \in Nat, j \in 1 .. SECTOR_SIZE : BootIsAt(n_, j)
  <2>1. SECTOR_SIZE \in Nat /\ SECTOR_SIZE > 0 /\ at - 1 \in Nat
    BY <1>1, <1>2, Stage2Assumption
  <2>2. n \in Nat /\ i \in 0 .. SECTOR_SIZE - 1 /\ at - 1 = n * SECTOR_SIZE + i
    BY <2>1, Divide, Zenon
  <2>3. /\ \A k \in 0 .. n : root + k \in machine.root /\ Offset(machine) + root + k \in DOMAIN machine.disk
        /\ IsNamed(machine, machine.disk[Offset(machine) + root + n][i + 1], Path[1])
    BY <1>1, <1>2, Zenon
  <2>4. RootSector(n) = machine.disk[Offset(machine) + root + n]
    BY DEF RootSector
  <2> HIDE DEF n, i, at
  <2>5. i + 1 \in 1 .. SECTOR_SIZE /\ at = n * SECTOR_SIZE + (i + 1)
    <3> DEFINE b == n * SECTOR_SIZE
    <3>1. b \in Nat /\ at - 1 = b + i /\ at \in Nat
      BY <1>1, <2>1, <2>2, Multiples
    <3> HIDE DEF b
    <3>2. at = b + (i + 1) /\ i + 1 \in 1 .. SECTOR_SIZE
      BY <2>1, <2>2, <3>1
    <3> QED BY <3>2 DEF b
  <2>6. BootIsAt(n, i + 1)
    BY <2>3, <2>4, <2>5, Zenon DEF BootIsAt, at
  <2> QED BY <2>2, <2>5, <2>6, Zenon
<1> QED BY <1>1, <1>2, Zenon

\* The root directory's file, when its next sector is asked for.
LEMMA RootNext ==
    ASSUME machine \in Machines, Mounted(fat), walk.current = ROOT_DIRECTORY_HANDLE,
           NEW f, IsFile(f), NEW n \in NextSector(f)
    PROVE  /\ n.more \in BOOLEAN /\ n.fault \in BOOLEAN /\ n.fat = fat
           /\ IsFile(n.file) /\ n.file.Position = f.Position /\ n.file.Size = f.Size
           /\ n.file.IsDirectory = f.IsDirectory /\ n.file.FirstCluster = f.FirstCluster
           /\ n.file.CurrentCluster = f.CurrentCluster + 1
           /\ f.CurrentCluster \in Int /\
              f.CurrentCluster + 1 + Offset(machine) \in DOMAIN machine.disk =>
                 /\ n.more => n.file.Buffer = machine.disk[f.CurrentCluster + 1 + Offset(machine)]
                 /\ ~n.more => n.fault
<1> DEFINE c == f.CurrentCluster + 1
           e == [f EXCEPT !.CurrentCluster = @ + 1]
<1>1. PICK l \in Filled(e, c) :
        n = [file |-> l.file, fat |-> fat, more |-> l.ok, fault |-> l.fault, unnoticed |-> FALSE]
  BY DEF NextSector
<1>2. n.file = l.file /\ n.fat = fat /\ n.more = l.ok /\ n.fault = l.fault
  BY <1>1
<1>3. /\ IsFile(e) /\ e.Position = f.Position /\ e.Size = f.Size /\ e.IsDirectory = f.IsDirectory
      /\ e.FirstCluster = f.FirstCluster /\ e.CurrentCluster = c
  BY DEF IsFile
<1> HIDE DEF e
<1>4. /\ l.ok \in BOOLEAN /\ l.fault \in BOOLEAN
      /\ \E b : l.file = [e EXCEPT !.Buffer = b]
  BY <1>3, FilledAny, Zenon
<1>5. /\ IsFile(l.file) /\ l.file.Position = e.Position /\ l.file.Size = e.Size
      /\ l.file.IsDirectory = e.IsDirectory /\ l.file.FirstCluster = e.FirstCluster
      /\ l.file.CurrentCluster = e.CurrentCluster
  <2>1. PICK b : l.file = [e EXCEPT !.Buffer = b]
    BY <1>4
  <2> QED BY <1>3, <2>1 DEF IsFile
<1>6. ASSUME f.CurrentCluster \in Int, c + Offset(machine) \in DOMAIN machine.disk
      PROVE  /\ l.ok => l.file.Buffer = machine.disk[c + Offset(machine)]
             /\ ~l.ok => l.fault
  <2>1. c \in Int /\ fat.partitionOffset = Offset(machine)
    BY <1>6 DEF Mounted
  <2> HIDE DEF c
  <2>2. /\ l.ok => l.file = [e EXCEPT !.Buffer = machine.disk[c + Offset(machine)]]
        /\ ~l.ok => l.fault
    BY <1>3, <1>6, <2>1, FilledThere
  <2> QED BY <1>3, <2>2 DEF IsFile
<1> QED BY <1>2, <1>3, <1>4, <1>5, <1>6

\* A turn on the root directory.
LEMMA RootTurn ==
    ASSUME machine \in Machines, Typed, Mounted(fat), ReadPiece, ~unnoticed', Root, Walk,
           pc = "find", walk.current = ROOT_DIRECTORY_HANDLE
    PROVE  /\ want' = 0 /\ out' \in Seq(Range(out')) /\ Len(out') = 1
           /\ fat' = fat
           /\ file' = [k \in Handles |-> file'[k]] /\ \A k \in Handles : IsFile(file'[k])
           /\ \A k \in Handles \ {walk.current} : file'[k] = file[k]
           /\ Root'
<1> DEFINE f == file[ROOT_DIRECTORY_HANDLE]
           g == file'[ROOT_DIRECTORY_HANDLE]
           bs == BootSector(machine)
           root == RootLba(bs)
           S == Range(out)
           at == machine.bootAt
<1>1. want = 1 /\ Len(out) = 0 /\ out \in Seq(S)
  BY SearchReads
<1>2. /\ f.IsDirectory /\ f.FirstCluster = root /\ f.Size = bs.DirEntryCount
      /\ f.Size # 0 => f.Position + want <= f.Size
      /\ Findable /\ at < SECTOR_SIZE => f.Buffer = RootSector(0)
      /\ Findable =>
            /\ Searching(f.Position, at, Path[1])
            /\ f.Position < at =>
                  \E n \in 0 .. f.Position, j \in 0 .. SECTOR_SIZE - 1 : RootAt(f, n, j)
  BY Zenon DEF Root
<1>3. IsFile(f) /\ ROOT_DIRECTORY_HANDLE \in Handles /\ SECTOR_SIZE \in Nat /\ SECTOR_SIZE > 0
      /\ root \in Nat /\ Offset(machine) \in Nat /\ at \in Nat
  <2>1. IsFile(f) /\ ROOT_DIRECTORY_HANDLE \in Handles
    BY DEF Typed, Handles
  <2>2. root \in Nat /\ Offset(machine) \in Nat /\ at \in Nat
    BY MachineIs, RootIs, Zenon
  <2> QED BY <2>1, <2>2, Stage2Assumption
<1>4. f.Position \in Nat
  BY <1>3 DEF IsFile
<1>5. walk' = walk /\ machine' = machine /\ pc' = pc
  BY TurnAside DEF Aside
<1>6. PICK from \in Nat, take \in Nat : TurnsBy(f, from, take)
  BY TurnIs, Zenon
<1> DEFINE moved == [f EXCEPT !.Position = @ + take]
<1>7. /\ from = f.Position % SECTOR_SIZE /\ take > 0 /\ take <= want
      /\ from + take <= SECTOR_SIZE /\ out' = out \o Pieces(f.Buffer, from, take)
      /\ \/ /\ from + take < SECTOR_SIZE /\ want' = want - take
            /\ file' = [file EXCEPT ![ROOT_DIRECTORY_HANDLE] = moved]
            /\ UNCHANGED <<fat, failed, unnoticed>>
         \/ /\ from + take = SECTOR_SIZE
            /\ \E n \in NextSector(moved) :
                  /\ want' = IF n.more THEN want - take ELSE 0
                  /\ file' = [file EXCEPT ![ROOT_DIRECTORY_HANDLE] = n.file]
                  /\ fat' = n.fat
                  /\ unnoticed' = (unnoticed \/ n.unnoticed
                                       \/ (n.fault /\ (want = take \/ pc = "table")))
  BY <1>6, Zenon DEF TurnsBy
<1>8. /\ IsFile(moved) /\ moved.Position = f.Position + take
      /\ moved.IsDirectory = f.IsDirectory /\ moved.FirstCluster = f.FirstCluster
      /\ moved.Size = f.Size /\ moved.CurrentCluster = f.CurrentCluster
      /\ moved.Buffer = f.Buffer
  BY <1>3, PositionSet
<1>9. take = 1
  BY <1>1, <1>7
<1> DEFINE crosses == from + 1 = SECTOR_SIZE
<1>10. /\ IsFile(g) /\ g.Position = f.Position + 1 /\ g.IsDirectory = f.IsDirectory
       /\ g.FirstCluster = f.FirstCluster /\ g.Size = f.Size
       /\ want' = 0 /\ fat' = fat
       /\ file' = [file EXCEPT ![ROOT_DIRECTORY_HANDLE] = g]
       /\ \/ from + 1 < SECTOR_SIZE /\ g.Buffer = f.Buffer /\ g.CurrentCluster = f.CurrentCluster
          \/ /\ from + 1 = SECTOR_SIZE /\ g.CurrentCluster = f.CurrentCluster + 1
             /\ f.CurrentCluster \in Int /\
                f.CurrentCluster + 1 + Offset(machine) \in DOMAIN machine.disk =>
                   g.Buffer = machine.disk[f.CurrentCluster + 1 + Offset(machine)]
  <2>1. CASE /\ from + take < SECTOR_SIZE /\ want' = want - take
             /\ file' = [file EXCEPT ![ROOT_DIRECTORY_HANDLE] = moved]
             /\ UNCHANGED <<fat, failed, unnoticed>>
    <3> HIDE DEF moved
    <3>1. g = moved
      BY <1>3, <1>8, <2>1, FileSet, Zenon
    <3>2. fat' = fat /\ want' = 0 /\ from + 1 < SECTOR_SIZE
      BY <1>1, <1>9, <2>1
    <3> HIDE DEF g, f
    <3> QED BY <1>8, <1>9, <2>1, <3>1, <3>2, Zenon
  <2>2. CASE /\ from + take = SECTOR_SIZE
             /\ \E n \in NextSector(moved) :
                   /\ want' = IF n.more THEN want - take ELSE 0
                   /\ file' = [file EXCEPT ![ROOT_DIRECTORY_HANDLE] = n.file]
                   /\ fat' = n.fat
                   /\ unnoticed' = (unnoticed \/ n.unnoticed
                                        \/ (n.fault /\ (want = take \/ pc = "table")))
    <3> HIDE DEF moved
    <3>1. PICK n \in NextSector(moved) :
             /\ want' = IF n.more THEN want - take ELSE 0
             /\ file' = [file EXCEPT ![ROOT_DIRECTORY_HANDLE] = n.file]
             /\ fat' = n.fat
             /\ unnoticed' = (unnoticed \/ n.unnoticed
                                  \/ (n.fault /\ (want = take \/ pc = "table")))
      BY <2>2, Zenon
    <3>2. /\ n.more \in BOOLEAN /\ n.fault \in BOOLEAN /\ n.fat = fat
          /\ IsFile(n.file) /\ n.file.Position = moved.Position /\ n.file.Size = moved.Size
          /\ n.file.IsDirectory = moved.IsDirectory /\ n.file.FirstCluster = moved.FirstCluster
          /\ n.file.CurrentCluster = moved.CurrentCluster + 1
          /\ moved.CurrentCluster \in Int /\
             moved.CurrentCluster + 1 + Offset(machine) \in DOMAIN machine.disk =>
                /\ n.more => n.file.Buffer = machine.disk[moved.CurrentCluster + 1 + Offset(machine)]
                /\ ~n.more => n.fault
      BY <1>8, RootNext, Zenon
    <3>3. ~n.fault
      BY <1>1, <1>9, <3>1, Zenon
    <3>4. g = n.file
      BY <1>3, <3>1, <3>2, FileSet, Zenon
    <3>5. want' = 0 /\ fat' = fat /\ from + 1 = SECTOR_SIZE
      BY <1>1, <1>9, <2>2, <3>1, <3>2
    <3> HIDE DEF g, f
    <3> QED BY <1>8, <1>9, <3>1, <3>2, <3>3, <3>4, <3>5, Zenon
  <2> QED BY <1>7, <2>1, <2>2, Zenon
<1> HIDE DEF moved
<1>11. out' \in Seq(Range(out')) /\ Len(out') = 1 /\ out'[1] = f.Buffer[from + 1]
  <2> HIDE DEF S
  <2>1. Grown(f.Buffer, from, take)
    BY <1>1, <1>7, OutGrows
  <2>2. /\ out' \in Seq(Range(out')) /\ Len(out') = Len(out) + take
        /\ \A i \in 1 .. take : out'[Len(out) + i] = f.Buffer[from + i]
    BY <2>1, Zenon DEF Grown
  <2> QED BY <1>1, <1>9, <2>2
<1>12. /\ file' = [k \in Handles |-> file'[k]] /\ \A k \in Handles : IsFile(file'[k])
       /\ \A k \in Handles \ {ROOT_DIRECTORY_HANDLE} : file'[k] = file[k]
  BY <1>3, <1>10, FileSet, Zenon
<1> HIDE DEF f, g, S
\* When the entry can be found: where it is, and where the file is.
<1>13. ASSUME Findable
       PROVE  /\ Findable /\ at < SECTOR_SIZE => g.Buffer = RootSector(0)
              /\ g.Position - 1 < at /\ g.Position <= at
              /\ g.Position = at => IsNamed(machine, out'[1], Path[1])
              /\ g.Position < at =>
                    \E n \in 0 .. g.Position, j \in 0 .. SECTOR_SIZE - 1 : RootAt(g, n, j)
  <2>1. f.Position < at /\ at # 0 /\ at # SECTOR_SIZE
    BY <1>1, <1>2, <1>4, <1>13 DEF Searching, Findable
  <2>2. PICK n \in 0 .. f.Position, j \in 0 .. SECTOR_SIZE - 1 : RootAt(f, n, j)
    BY <1>2, <1>13, <2>1
  <2>3. PICK N \in Nat, J \in 1 .. SECTOR_SIZE : BootIsAt(N, J)
    BY <2>1, RootIs, Zenon
  <2> DEFINE base == n * SECTOR_SIZE
  <2>4. /\ n \in Nat /\ j \in Nat /\ j < SECTOR_SIZE /\ base \in Nat /\ f.Position = base + j
        /\ (n + 1) * SECTOR_SIZE = base + SECTOR_SIZE /\ f.CurrentCluster = root + n
        /\ n > 0 => f.Buffer = RootSector(n)
        /\ n <= f.Position
    <3>1. /\ f.Position = base + j /\ f.CurrentCluster = f.FirstCluster + n
          /\ n > 0 => f.Buffer = RootSector(n)
      BY <2>2, Zenon DEF RootAt
    <3>2. n \in Nat /\ j \in Nat /\ j < SECTOR_SIZE /\ n <= f.Position
      BY <1>3, <1>4
    <3>3. base \in Nat /\ (n + 1) * SECTOR_SIZE = base + SECTOR_SIZE
      BY <1>3, <3>2, Multiples
    <3> QED BY <1>2, <3>1, <3>2, <3>3
  <2>5. from = j /\ from \in 0 .. SECTOR_SIZE - 1
    <3>1. (n * SECTOR_SIZE + j) % SECTOR_SIZE = j
      <4>1. n \in Nat /\ SECTOR_SIZE \in Nat /\ j \in Nat /\ j < SECTOR_SIZE
        BY <1>3, <2>4
      <4> QED BY <4>1, DivideBack
    <3> QED BY <1>3, <1>7, <2>4, <3>1
  <2>6. /\ at = N * SECTOR_SIZE + J
        /\ \A k \in 0 .. N : Offset(machine) + root + k \in DOMAIN machine.disk
        /\ IsNamed(machine, RootSector(N)[J], Path[1])
    BY <2>3, Zenon DEF BootIsAt
  <2> DEFINE B == N * SECTOR_SIZE
  <2>7. /\ J \in Nat /\ J >= 1 /\ J <= SECTOR_SIZE /\ B \in Nat /\ at = B + J
        /\ at \in Nat /\ f.Position \in Nat /\ g.Position = f.Position + 1
    BY <1>3, <1>4, <1>10, <2>6, Multiples
\* The first sector of the root directory is in the buffer if the entry is there.
  <2>8. N = 0 => f.Buffer = RootSector(0)
    <3>1. ASSUME N = 0 PROVE at < SECTOR_SIZE
      <4>1. B = 0
        BY <1>3, <3>1
      <4> HIDE DEF B, at
      <4> QED BY <1>3, <2>1, <2>7, <4>1
    <3> QED BY <1>2, <1>13, <3>1
  <2>9. ASSUME g.Position = at PROVE IsNamed(machine, out'[1], Path[1])
    <3>1. base + j + 1 = B + J
      <4> HIDE DEF base, B, at
      <4> QED BY <2>4, <2>7, <2>9
    <3> DEFINE q == n + 1
               r == N + 1
    <3>2. /\ q \in Nat /\ r \in Nat /\ q > 0 /\ r > 0 /\ q - 1 = n /\ r - 1 = N
      BY <2>4
    <3>3. (q - 1) * SECTOR_SIZE + from + 1 = (r - 1) * SECTOR_SIZE + J
      BY <2>5, <3>1, <3>2
    <3> HIDE DEF q, r
    <3>4. r = q /\ J = from + 1
      <4>1. /\ q \in Nat /\ q > 0 /\ r \in Nat /\ r > 0 /\ from \in 0 .. SECTOR_SIZE - 1
            /\ J \in 1 .. SECTOR_SIZE
        BY <2>3, <2>5, <3>2
      <4> HIDE DEF base, B, at
      <4> QED BY <3>3, <4>1, PlaceSame
    <3>5. n = N
      BY <3>2, <3>4
    <3>6. f.Buffer = RootSector(N)
      BY <2>4, <2>8, <3>5
    <3> QED BY <1>11, <2>6, <3>4, <3>6
  <2>10. g.Position - 1 < at /\ g.Position <= at
    <3> HIDE DEF at
    <3> QED BY <2>1, <2>7
  <2>11. CASE from + 1 < SECTOR_SIZE /\ g.Buffer = f.Buffer /\ g.CurrentCluster = f.CurrentCluster
    <3>1. g.Position = n * SECTOR_SIZE + (from + 1)
      <4>1. g.Position = base + (from + 1)
        <5> HIDE DEF base
        <5> QED BY <2>4, <2>5, <2>7
      <4> QED BY <4>1
    <3>2. g.CurrentCluster = g.FirstCluster + n /\ (n > 0 => g.Buffer = RootSector(n))
      BY <1>2, <1>10, <2>4, <2>11
    <3>3. RootAt(g, n, from + 1)
      BY <3>1, <3>2, Zenon DEF RootAt
    <3>4. n \in 0 .. g.Position /\ from + 1 \in 0 .. SECTOR_SIZE - 1
      <4> HIDE DEF base, B, at
      <4>1. n \in 0 .. g.Position
        BY <2>4, <2>7
      <4>2. from + 1 \in 0 .. SECTOR_SIZE - 1
        BY <1>3, <2>5, <2>11
      <4> QED BY <4>1, <4>2
    <3> QED BY <1>2, <1>13, <2>9, <2>10, <2>11, <3>3, <3>4
  <2>12. CASE /\ from + 1 = SECTOR_SIZE /\ g.CurrentCluster = f.CurrentCluster + 1
              /\ f.CurrentCluster \in Int /\
                 f.CurrentCluster + 1 + Offset(machine) \in DOMAIN machine.disk =>
                    g.Buffer = machine.disk[f.CurrentCluster + 1 + Offset(machine)]
    <3>1. g.Position = base + SECTOR_SIZE
      <4> HIDE DEF base
      <4> QED BY <1>3, <2>4, <2>5, <2>7, <2>12
    <3>2. ~(at < SECTOR_SIZE)
      <4> HIDE DEF base, at
      <4> QED BY <1>3, <2>4, <2>7, <2>10, <3>1
    <3>3. ASSUME g.Position < at
          PROVE  \E x \in 0 .. g.Position, y \in 0 .. SECTOR_SIZE - 1 : RootAt(g, x, y)
      <4> DEFINE m == n + 1
      <4>1. ~(N <= n)
        <5>1. ASSUME N <= n PROVE FALSE
          <6> DEFINE r == N + 1
          <6>1. r \in Nat /\ r > 0 /\ m \in Nat /\ r <= m /\ r - 1 = N
            BY <2>4, <5>1
          <6> HIDE DEF r, m
          <6>2. (r - 1) * SECTOR_SIZE + J <= m * SECTOR_SIZE
            BY <6>1, PlaceBefore
          <6>3. N * SECTOR_SIZE + J <= (n + 1) * SECTOR_SIZE
            BY <6>1, <6>2 DEF m
          <6>4. B + J <= base + SECTOR_SIZE
            BY <2>4, <6>3
          <6> HIDE DEF B, base, at
          <6> QED BY <1>3, <2>4, <2>7, <3>1, <3>3, <6>4
        <5> QED BY <5>1
      <4>2. m \in 0 .. N /\ m \in Nat /\ m \in 0 .. g.Position /\ 0 \in 0 .. SECTOR_SIZE - 1
        BY <1>3, <2>4, <2>7, <4>1
      <4>3. Offset(machine) + root + m \in DOMAIN machine.disk
        BY <2>6, <4>2
      <4>4. /\ f.CurrentCluster \in Int /\ g.CurrentCluster = root + m
            /\ f.CurrentCluster + 1 + Offset(machine) = Offset(machine) + root + m
        <5> HIDE DEF root
        <5> QED BY <1>3, <2>4, <2>12
      <4>5. g.Buffer = RootSector(m)
        <5>1. RootSector(m) = machine.disk[Offset(machine) + root + m]
          BY DEF RootSector
        <5> QED BY <2>12, <4>3, <4>4, <5>1
      <4>6. g.Position = m * SECTOR_SIZE + 0
        <5> DEFINE e == m * SECTOR_SIZE
        <5>1. e = base + SECTOR_SIZE /\ e \in Nat
          BY <1>3, <2>4
        <5> HIDE DEF e, base
        <5>2. g.Position = e + 0
          BY <3>1, <5>1
        <5> QED BY <5>2 DEF e
      <4>7. g.CurrentCluster = g.FirstCluster + m
        BY <1>2, <1>10, <4>4
      <4> HIDE DEF m
      <4>8. RootAt(g, m, 0)
        BY <4>5, <4>6, <4>7, Zenon DEF RootAt
      <4> QED BY <4>2, <4>8, Zenon
    <3> QED BY <2>9, <2>10, <3>2, <3>3
  <2> QED BY <1>10, <2>11, <2>12, Zenon
<1>14. Root'
  <2>1. /\ file'[ROOT_DIRECTORY_HANDLE] = g /\ Len(out') = 1 /\ want' = 0
        /\ machine' = machine /\ pc' = pc /\ walk' = walk /\ (Findable <=> Findable')
    BY <1>5, <1>10, <1>11 DEF g, Findable
  <2>2. /\ g.IsDirectory /\ g.FirstCluster = root /\ g.Size = bs.DirEntryCount
        /\ g.Size # 0 => g.Position + 0 <= g.Size
    BY <1>1, <1>2, <1>4, <1>10
  <2>3. Findable => Searching(file[ROOT_DIRECTORY_HANDLE].Position, at, Path[1])'
    BY <1>13, <2>1 DEF Searching
  <2>4. Findable /\ at < SECTOR_SIZE => g.Buffer = RootSector(0)
    BY <1>13
  <2>5. Findable /\ g.Position < at =>
          (\E n \in 0 .. file[ROOT_DIRECTORY_HANDLE].Position, j \in 0 .. SECTOR_SIZE - 1 :
              RootAt(file[ROOT_DIRECTORY_HANDLE], n, j))'
    <3>1. ASSUME NEW n, NEW j, RootAt(g, n, j)
          PROVE  RootAt(file[ROOT_DIRECTORY_HANDLE], n, j)'
      BY <2>1, <3>1 DEF RootAt, RootSector
    <3> QED BY <1>13, <2>1, <3>1
  <2>6. RootSector(0)' = RootSector(0)
    BY <2>1 DEF RootSector
  <2> QED BY <1>5, <2>1, <2>2, <2>3, <2>4, <2>5, <2>6, Zenon DEF Root
<1> QED BY <1>10, <1>11, <1>12, <1>14, Zenon

--------------------------------------------------------------------------------
(* What the steps have in common.                                             *)

After == Going \ {"detect", "map"}

\* A step of the loader behind the memory map.
LEMMA StaysGoing ==
    ASSUME IInv, machine' = machine, regions' = regions, pc \in After, pc' \in After,
           unnoticed => unnoticed', Returns', ~unnoticed' => Good'
    PROVE  IInv'
<1> USE DEF After, Before, Loading, Going, Opening, InFile, Segments
<1>1. machine' \in Machines
  BY DEF IInv
<1>2. Mapped'
  <2>1. MapHanded
    BY DEF IInv, Mapped
  <2>2. MapHanded'
    BY <2>1 DEF MapHanded
  <2> QED BY <2>2 DEF Mapped
<1>3. HandedOver' /\ NeverLost'
  BY DEF HandedOver, NeverLost
<1> QED BY <1>1, <1>2, <1>3 DEF IInv

\* A step that stops the boot.
LEMMA Stops ==
    ASSUME IInv, machine' = machine, pc' \in {"halt", "reboot", "lost"}, Returns', NeverLost'
    PROVE  IInv'
<1> USE DEF Before, Loading, Going, Opening, InFile, Segments
<1>1. machine' \in Machines
  BY DEF IInv
<1>2. HandedOver' /\ Mapped'
  BY DEF HandedOver, Mapped
<1> QED BY <1>1, <1>2 DEF IInv

LEMMA Halts ==
    ASSUME IInv, machine' = machine, pc' \in {"halt", "reboot"}, walk' = walk
    PROVE  IInv'
<1>1. Returns'
  BY DEF IInv, Returns
<1>2. NeverLost'
  BY DEF NeverLost
<1> QED BY <1>1, <1>2, Stops

LEMMA MountedThen ==
    ASSUME Mounted(fat'), machine' = machine
    PROVE  Mounted(fat)'
BY DEF Mounted, DiskAt, OnDisk

LEMMA TypedSame ==
    ASSUME Typed, file' = [h \in Handles |-> file'[h]], \A h \in Handles : IsFile(file'[h]),
           walk' = walk, want' \in Nat, out' \in Seq(Range(out')),
           elf' = elf
    PROVE  Typed'
BY DEF Typed, IsFile, Handles

LEMMA RootSame ==
    ASSUME Root, machine' = machine, file'[ROOT_DIRECTORY_HANDLE] = file[ROOT_DIRECTORY_HANDLE],
           ~(pc = "find" /\ walk.current = ROOT_DIRECTORY_HANDLE),
           ~(pc' = "find" /\ walk'.current = ROOT_DIRECTORY_HANDLE)
    PROVE  Root'
BY DEF Root, RootAt, RootSector, Findable

LEMMA SegmentedSame ==
    ASSUME Segmented, machine' = machine, elf' = elf, memory' = memory, IsLoading' <=> IsLoading,
           pc' \in {"table", "headers"} => pc \in {"table", "headers"},
           pc' = "segment" <=> pc = "segment", pc' \in Opening => pc \in Opening
    PROVE  Segmented'
<1>4. Count' = Count /\ \A j : Asked(j)' = Asked(j)
  BY DEF Count, Asked, TableAt
<1>1. \A h, n : Holds(h, n)' <=> Holds(h, n)
  BY Zenon DEF Holds
<1>2. DoneTo(elf.i) => DoneTo(elf.i)'
  BY <1>1, <1>4, Zenon DEF DoneTo, Small
<1>5. Header' = Header /\ Loaded' = Loaded /\ Asked(elf.i)' = Asked(elf.i)
  BY <1>4, Zenon DEF Header, Loaded
<1>3. Now => Now'
  <2>1. \A h : Small(h) => (Holds(h, Loaded)' <=> Holds(h, Loaded))
    BY <1>1, <1>5, Zenon
  <2> SUFFICES ASSUME Now PROVE Now'
    OBVIOUS
  <2> DEFINE h == Asked(elf.i)
  <2>2. /\ elf.i <= Count /\ h.Load
        /\ Header = [h EXCEPT !.Offset = Header.Offset, !.FileSize = Header.FileSize]
        /\ Header.Offset <= h.Offset /\ Header.FileSize <= h.FileSize
        /\ Header.FileSize < h.FileSize => Header.Offset = 0
        /\ elf.virtAddress = h.VirtualAddress + Loaded
        /\ Small(h) => Holds(h, Loaded)
        /\ pc \in Opening => Header = h
    BY Zenon DEF Now
  <2>3. Small(h) => Holds(h, Loaded)'
    BY <1>5, <2>1, <2>2, Zenon
  <2>4. pc' \in Opening => Header' = h
    BY <1>5, <2>2, Zenon
  <2> QED BY <1>4, <1>5, <2>2, <2>3, <2>4, Zenon DEF Now, Small
<1> QED BY <1>2, <1>3, <1>4, Zenon DEF Segmented

LEMMA ReadingElsewhere ==
    ASSUME pc' \notin InFile
    PROVE  Reading'
BY DEF Reading, InFile, Segments

LEMMA DirectoryElsewhere ==
    ASSUME pc' # "find" \/ walk'.current = ROOT_DIRECTORY_HANDLE
    PROVE  Directory'
BY DEF Directory

\* The header of the segment that is being loaded.
LEMMA HeaderIs ==
    ASSUME Segmented, IsLoading, pc # "segment"
    PROVE  /\ Header \in HeaderSet /\ elf.i \in 1 .. Count
           /\ Header.Offset \in Nat /\ Header.FileSize \in Nat
<1>1. elf.headers \in Seq(HeaderSet) /\ Len(elf.headers) = Count /\ elf.i \in 1 .. Count + 1
      /\ elf.i <= Count
  BY DEF Segmented, Now
<1>2. Len(elf.headers) \in Nat
  BY <1>1, LenProperties
<1>3. elf.i \in 1 .. Len(elf.headers)
  BY <1>1, <1>2
<1>4. Header \in HeaderSet
  BY <1>1, <1>3 DEF Header
<1> QED BY <1>1, <1>3, <1>4 DEF HeaderSet

LEMMA WaitsIs ==
    ASSUME machine \in Machines, Segmented
    PROVE  Waits \in Nat
<1>1. CASE pc \in {"sought", "loaded"}
  <2>1. Header.Offset \in Nat /\ Header.FileSize \in Nat /\ MEMORY_LOAD_SIZE \in Nat
    BY <1>1, HeaderIs, Stage2Assumption DEF IsLoading, Segments
  <2>2. Min({Header.Offset, MEMORY_LOAD_SIZE}) \in Nat /\ Min({Header.FileSize, MEMORY_LOAD_SIZE}) \in Nat
    BY <2>1, MinTwo
  <2> QED BY <1>1, <2>2 DEF Waits
<1>2. CASE pc \notin {"sought", "loaded"}
  <2>1. Count \in Nat
    BY KernelIs
  <2> QED BY <1>2, <2>1 DEF Waits
<1> QED BY <1>1, <1>2

--------------------------------------------------------------------------------
(* The steps of FAT_Read, FAT_FindFile and FAT_Open.                          *)

LEMMA TurnKeeps ==
    ASSUME ReadPiece
    PROVE  unnoticed => unnoticed'
<1>1. PICK n, take : \/ unnoticed' = unnoticed
                     \/ unnoticed' = (unnoticed \/ n.unnoticed
                                        \/ (n.fault /\ (want = take \/ pc = "table")))
  <2> DEFINE f == file[walk.current]
             from == f.Position % SECTOR_SIZE
             take == Min({want, SECTOR_SIZE - from})
             moved == [f EXCEPT !.Position = @ + take]
  <2>1. IF from + take < SECTOR_SIZE
        THEN UNCHANGED <<fat, failed, unnoticed>>
        ELSE \E n \in NextSector(moved) :
                unnoticed' = (unnoticed \/ n.unnoticed
                                 \/ (n.fault /\ (want = take \/ pc = "table")))
    BY Zenon DEF ReadPiece
  <2> HIDE DEF moved, take, from
  <2> QED BY <2>1, Zenon
<1> QED BY <1>1, Zenon

LEMMA ReadPieceStep ==
    ASSUME IInv, ReadPiece
    PROVE  IInv'
<1>1. /\ walk' = walk /\ machine' = machine /\ pc' = pc /\ regions' = regions /\ elf' = elf
      /\ memory' = memory
  BY TurnAside DEF Aside
<1>2. Returns' /\ (unnoticed => unnoticed') /\ want > 0
  <2>1. want > 0
    BY Zenon DEF ReadPiece
  <2>2. Returns'
    BY <1>1 DEF IInv, Returns
  <2> QED BY <2>1, <2>2, TurnKeeps
<1>3. machine \in Machines
  BY DEF IInv
<1>4. CASE pc \in Before
  <2>1. want = 0
    BY <1>4 DEF IInv, Untouched
  <2> QED BY <1>2, <2>1
<1>5. CASE pc \in {"kernel", "halt", "reboot", "lost"}
  <2> USE DEF Before, Loading, Going, Opening, InFile, Segments
  <2>1. Mapped'
    BY <1>1, <1>5 DEF IInv, Mapped, MapHanded
  <2>2. HandedOver'
    BY <1>1, <1>2 DEF IInv, HandedOver, Small, InMemory
  <2>3. NeverLost'
    <3>1. failed => failed'
      <4> DEFINE f == file[walk.current]
                 from == f.Position % SECTOR_SIZE
                 take == Min({want, SECTOR_SIZE - from})
                 moved == [f EXCEPT !.Position = @ + take]
      <4>1. IF from + take < SECTOR_SIZE
            THEN UNCHANGED <<fat, failed, unnoticed>>
            ELSE \E n \in NextSector(moved) : failed' = (failed \/ n.fault)
        BY Zenon DEF ReadPiece
      <4> HIDE DEF moved, take, from
      <4> QED BY <4>1, Zenon
    <3> QED BY <1>1, <1>2, <3>1 DEF IInv, NeverLost
  <2> QED BY <1>1, <1>2, <1>3, <1>5, <2>1, <2>2, <2>3 DEF IInv
<1>6. CASE pc \in {"detect", "map"}
  <2> USE DEF Before, Loading, Going, Opening, InFile, Segments
  <2>1. ~unnoticed' => FALSE
    BY <1>2, <1>6 DEF IInv, Good, Walk
  <2>2. Mapped'
    <3>1. e820' = e820
      BY TurnAside DEF Aside
    <3> QED BY <1>1, <3>1 DEF IInv, Mapped, MapHanded, Map
  <2>3. HandedOver' /\ NeverLost'
    BY <1>1, <1>6 DEF HandedOver, NeverLost
  <2> QED BY <1>1, <1>2, <1>3, <1>6, <2>1, <2>2, <2>3 DEF IInv
<1>7. CASE pc \in After
  <2>1. SUFFICES ASSUME ~unnoticed' PROVE Good'
    BY <1>1, <1>2, <1>7, StaysGoing
  <2>2. Good
    BY <1>2, <1>7, <2>1 DEF IInv, After
  <2>3. Typed /\ Mounted(fat) /\ Root /\ Directory /\ Walk /\ Reading /\ Segmented
    BY <2>2 DEF Good
  <2>4. Segmented'
    BY <1>1, <2>3, SegmentedSame DEF IsLoading
  <2>5. pc = "find" \/ pc \in InFile
    BY <1>2, <1>7, <2>3 DEF Walk, After, Going, Opening, InFile, Segments
  <2>6. CASE pc = "find" /\ walk.current = ROOT_DIRECTORY_HANDLE
    <3>1. /\ want' = 0 /\ out' \in Seq(Range(out')) /\ Len(out') = 1
          /\ fat' = fat
          /\ file' = [k \in Handles |-> file'[k]] /\ \A k \in Handles : IsFile(file'[k])
          /\ Root'
      BY <1>3, <2>1, <2>3, <2>6, RootTurn, Zenon
    <3>2. Typed'
      BY <1>1, <2>3, <3>1, TypedSame
    <3>3. Mounted(fat)'
      BY <1>1, <2>3, <3>1, MountedThen
    <3>4. Walk'
      BY <1>1, <2>3, <2>6, <3>1 DEF Walk, Opening
    <3> QED BY <1>1, <2>4, <2>6, <3>1, <3>2, <3>3, <3>4, DirectoryElsewhere,
               ReadingElsewhere DEF Good, InFile, Segments
  <2>7. CASE pc = "find" /\ walk.current # ROOT_DIRECTORY_HANDLE
    <3>1. /\ want' = 0 /\ out' \in Seq(Range(out')) /\ Len(out') = 1
          /\ Mounted(fat')
          /\ file' = [k \in Handles |-> file'[k]] /\ \A k \in Handles : IsFile(file'[k])
          /\ \A k \in Handles \ {walk.current} : file'[k] = file[k]
          /\ Directory'
      BY <1>3, <2>1, <2>3, <2>7, DirectoryTurn, Zenon
    <3>2. Typed'
      BY <1>1, <2>3, <3>1, TypedSame
    <3>3. Mounted(fat)'
      BY <1>1, <3>1, MountedThen
    <3>4. Walk'
      BY <1>1, <2>3, <2>7, <3>1 DEF Walk, Opening
    <3>5. Root'
      BY <1>1, <2>3, <2>7, <3>1, RootSame DEF Handles
    <3> QED BY <1>1, <2>4, <2>7, <3>1, <3>2, <3>3, <3>4, <3>5,
               ReadingElsewhere DEF Good, InFile, Segments
  <2>8. CASE pc \in InFile
    <3>1. walk.current \in Handle /\ InKernel
      BY <1>2, <2>3, <2>8 DEF Reading, Missed, InFile, Segments
    <3>2. /\ want' \in Nat /\ out' \in Seq(Range(out'))
          /\ Mounted(fat')
          /\ file' = [k \in Handles |-> file'[k]] /\ \A k \in Handles : IsFile(file'[k])
          /\ \A k \in Handles \ {walk.current} : file'[k] = file[k]
          /\ Len(out') + want' <= Len(out) + want
          /\ From' = From
          /\ \/ /\ InKernel' /\ Len(out') + want' = Len(out) + want
                /\ (file[walk.current].Position + want)' = file[walk.current].Position + want
                /\ file'[walk.current].Size \in
                      {file[walk.current].Size, file[walk.current].Position + want}
             \/ want' = 0 /\ Len(out') < Len(out) + want /\ pc # "table"
      BY <1>3, <2>1, <2>3, <3>1, KernelTurn, Zenon
    <3>3. Typed'
      BY <1>1, <2>3, <3>2, TypedSame
    <3>4. Mounted(fat)'
      BY <1>1, <3>2, MountedThen
    <3>5. walk.current # ROOT_DIRECTORY_HANDLE
      BY <3>1 DEF Handle, ROOT_DIRECTORY_HANDLE
    <3>6. Root'
      BY <1>1, <2>3, <3>2, <3>5, RootSame DEF Handles
    <3>7. Walk'
      BY <1>1, <2>8 DEF Walk, Opening, InFile, Segments
    <3>8. pc # "find"
      BY <2>8 DEF InFile, Segments
    <3>9. Reading'
      <4>1. Waits' = Waits /\ Sought' = Sought /\ Loaded' = Loaded /\ Header' = Header
            /\ TableAt' = TableAt /\ Count' = Count
        BY <1>1 DEF Waits, Sought, Loaded, Header, TableAt, Count, Asked
      <4>2. want \in Nat /\ Len(out) \in Nat /\ Len(out') \in Nat
        BY <2>3, <3>2, LenProperties DEF Typed
      <4>3. pc \notin {"header", "seek"}
        BY <1>2, <2>3 DEF Reading
      <4>4. CASE pc = "table"
        <5>1. InKernel' /\ file'[walk'.current].Position + want' \in {TableAt, file'[walk'.current].Size}
          BY <1>1, <2>3, <3>2, <4>4 DEF Reading
        <5> QED BY <1>1, <3>1, <4>1, <4>4, <5>1 DEF Reading, InFile, Segments
      <4>5. CASE pc \in {"gap", "headers", "sought", "loaded"}
        <5>1. Len(out) + want <= Waits
          BY <2>3, <4>5 DEF Reading
        <5>2. Waits \in Nat
          BY <1>3, <2>3, WaitsIs
        <5>3. Len(out') + want' <= Waits' /\ (InKernel' \/ Missed')
          <6> DEFINE w == Waits
          <6> HIDE DEF w
          <6>1. Len(out) + want <= w /\ w \in Nat /\ w = Waits
            BY <5>1, <5>2 DEF w
          <6>2. Len(out') + want' <= w /\ (InKernel' \/ (want' = 0 /\ Len(out') < w))
            BY <3>2, <4>2, <6>1
          <6> QED BY <4>1, <6>1, <6>2 DEF Missed
        <5>4. pc = "headers" => From' = TableAt' \/ Len(out') + want' = 0
          BY <2>3, <3>1, <3>2, <4>1, <4>2 DEF Reading
        <5>5. /\ pc = "gap" => From' = 0
              /\ pc \in {"sought", "loaded"} => From' = Sought' + Loaded'
              /\ pc = "sought" => Header'.Offset > 0
              /\ pc = "loaded" => Header'.Offset = 0 /\ Header'.FileSize > 0
          BY <2>3, <3>1, <3>2, <4>1 DEF Reading
        <5> QED BY <1>1, <3>1, <4>1, <4>5, <5>3, <5>4, <5>5 DEF Reading, InFile, Segments
      <4> QED BY <2>8, <4>3, <4>4, <4>5 DEF InFile, Segments
    <3> QED BY <1>1, <2>4, <3>3, <3>4, <3>6, <3>7, <3>8, <3>9, DirectoryElsewhere DEF Good
  <2> QED BY <2>5, <2>6, <2>7, <2>8
<1> QED BY <1>4, <1>5, <1>6, <1>7 DEF IInv, After

LEMMA CloseIs ==
    ASSUME Typed, file' = FAT_Close
    PROVE  /\ file' = [k \in Handles |-> file'[k]] /\ \A k \in Handles : IsFile(file'[k])
           /\ \A k \in Handles \ {walk.current} : file'[k] = file[k]
           /\ walk.current = ROOT_DIRECTORY_HANDLE =>
                 file'[ROOT_DIRECTORY_HANDLE]
                    = [file[ROOT_DIRECTORY_HANDLE] EXCEPT
                          !.Position = 0,
                          !.CurrentCluster = file[ROOT_DIRECTORY_HANDLE].FirstCluster]
<1> DEFINE f == file[walk.current]
           g == IF walk.current = ROOT_DIRECTORY_HANDLE
                THEN [f EXCEPT !.Position = 0, !.CurrentCluster = f.FirstCluster]
                ELSE [f EXCEPT !.Opened = FALSE]
<1>1. IsFile(f) /\ walk.current \in Handles /\ file = [h \in Handles |-> file[h]]
  BY DEF Typed
<1>2. IsFile(g)
  BY <1>1 DEF IsFile
<1>3. file' = [file EXCEPT ![walk.current] = g]
  BY <1>1 DEF FAT_Close
<1> HIDE DEF g
<1>4. /\ file' = [k \in Handles |-> file'[k]] /\ \A k \in Handles : IsFile(file'[k])
      /\ file'[walk.current] = g
      /\ \A k \in Handles \ {walk.current} : file'[k] = file[k]
  BY <1>1, <1>2, <1>3, FileSet, Zenon
<1>5. ASSUME walk.current = ROOT_DIRECTORY_HANDLE
      PROVE  file'[ROOT_DIRECTORY_HANDLE]
                = [file[ROOT_DIRECTORY_HANDLE] EXCEPT
                      !.Position = 0, !.CurrentCluster = file[ROOT_DIRECTORY_HANDLE].FirstCluster]
  <2>1. g = [f EXCEPT !.Position = 0, !.CurrentCluster = f.FirstCluster]
    BY <1>5 DEF g
  <2>2. f = file[ROOT_DIRECTORY_HANDLE] /\ file'[ROOT_DIRECTORY_HANDLE] = g
    BY <1>4, <1>5, Zenon
  <2> HIDE DEF f
  <2> QED BY <2>1, <2>2, Zenon
<1> QED BY <1>4, <1>5

\* The root directory when it is closed: it begins again, with what is in its buffer.
LEMMA RootClosed ==
    ASSUME machine \in Machines, Typed, Root, file' = FAT_Close, machine' = machine,
           pc' # "find"
    PROVE  Root'
<1> DEFINE f == file[ROOT_DIRECTORY_HANDLE]
           g == file'[ROOT_DIRECTORY_HANDLE]
<1>1. CASE walk.current = ROOT_DIRECTORY_HANDLE
  <2>1. g = [f EXCEPT !.Position = 0, !.CurrentCluster = f.FirstCluster] /\ IsFile(f)
    BY <1>1, CloseIs DEF Typed
  <2>2. /\ g.Position = 0 /\ g.CurrentCluster = g.FirstCluster /\ g.FirstCluster = f.FirstCluster
        /\ g.Size = f.Size /\ g.IsDirectory = f.IsDirectory /\ g.Buffer = f.Buffer
    BY <2>1 DEF IsFile
  <2> HIDE DEF g, f
  <2>3. /\ f.IsDirectory /\ f.FirstCluster = RootLba(BootSector(machine))
        /\ f.Size = BootSector(machine).DirEntryCount
        /\ Findable /\ machine.bootAt < SECTOR_SIZE => f.Buffer = RootSector(0)
    BY Zenon DEF Root, f
  <2>4. RootLba(BootSector(machine)) \in Nat /\ BootSector(machine).DirEntryCount \in Nat
        /\ SECTOR_SIZE \in Nat
    BY MachineIs, Stage2Assumption
  <2>5. g.Position = 0 * SECTOR_SIZE + 0 /\ g.CurrentCluster = g.FirstCluster + 0 /\ ~(0 > 0)
        /\ g.Position + 0 <= g.Size
    BY <2>2, <2>3, <2>4
  <2>6. RootAt(file[ROOT_DIRECTORY_HANDLE], 0, 0)'
    BY <2>5 DEF RootAt, g
  <2>7. (Findable <=> Findable') /\ RootSector(0)' = RootSector(0)
    BY DEF Findable, RootSector
  <2> QED BY <2>2, <2>3, <2>5, <2>6, <2>7 DEF Root, g
<1>2. CASE walk.current # ROOT_DIRECTORY_HANDLE
  <2>1. g = f
    BY <1>2, CloseIs DEF Handles
  <2> QED BY <1>2, <2>1, RootSame
<1> QED BY <1>1, <1>2

\* Read, of a directory: one more entry, unless it has a size and ends there.
LEMMA DirectoryReads ==
    ASSUME NEW f, IsFile(f), f.IsDirectory, Read(f, 1), f.Size # 0 => f.Position <= f.Size
    PROVE  /\ out' = <<>> /\ Len(out') = 0 /\ out' \in Seq(Range(out')) /\ want' \in {0, 1}
           /\ f.Size # 0 => f.Position + want' <= f.Size
           /\ f.Size = 0 \/ f.Position < f.Size => want' = 1
<1>1. out' = <<>> /\ want' = IF f.Size # 0 THEN Min({1, f.Size - f.Position}) ELSE 1
  BY DEF Read
<1>2. f.Position \in Nat /\ f.Size \in Int
  BY DEF IsFile
<1>3. Len(out') = 0 /\ out' \in Seq(Range(out'))
  BY <1>1
<1>4. Min({1, f.Size - f.Position}) = IF 1 <= f.Size - f.Position THEN 1 ELSE f.Size - f.Position
  BY <1>2, MinTwo
<1> QED BY <1>1, <1>2, <1>3, <1>4

\* A search that has not found what is ahead has not passed it.
LEMMA NotPassed ==
    ASSUME NEW p \in Int, NEW t, NEW name, Searching(p, t, name), t \in Int,
           out # <<>>, ~IsNamed(machine, out[1], name)
    PROVE  p < t
BY DEF Searching

LEMMA FindGoesOn ==
    ASSUME IInv, pc = "find", ~unnoticed, Good, out # <<>>,
           ~IsNamed(machine, out[1], Path[walk.depth + 1])
    PROVE  /\ walk.current = ROOT_DIRECTORY_HANDLE /\ Findable =>
                /\ file[ROOT_DIRECTORY_HANDLE].Position < machine.bootAt
                /\ file[ROOT_DIRECTORY_HANDLE].CurrentCluster \in machine.root
           /\ walk.current # ROOT_DIRECTORY_HANDLE =>
                /\ file[walk.current].CurrentCluster \in machine.clusters
                /\ \E n \in DOMAIN machine.bootPlaces, j \in 1 .. SECTOR_SIZE :
                      LET t == (n - 1) * SECTOR_SIZE + j IN
                      /\ IsNamed(machine, machine.disk[SectorAt(machine, machine.bootPlaces[n])][j], Path[2])
                      /\ t \in Nat /\ file[walk.current].Position < t
                      /\ file[walk.current].Size = 0
                      /\ OnPlace(file[walk.current], machine.bootPlaces)
<1> DEFINE f == file[walk.current]
<1>1. machine \in Machines /\ Typed /\ Root /\ Directory /\ Walk
  BY DEF IInv, Good
<1>2. IsFile(f) /\ f.Position \in Nat /\ SECTOR_SIZE \in Nat /\ SECTOR_SIZE > 0
      /\ Path[1] = "BOOT" /\ Path[2] = "KERNEL"
  BY <1>1, SectorSize DEF Typed, IsFile, Path
<1>3. ASSUME walk.current = ROOT_DIRECTORY_HANDLE, Findable
      PROVE  /\ f.Position < machine.bootAt
             /\ f.CurrentCluster \in machine.root
  <2>1. /\ f.FirstCluster = RootLba(BootSector(machine))
        /\ Searching(f.Position, machine.bootAt, Path[1])
        /\ f.Position < machine.bootAt =>
              \E n \in 0 .. f.Position, j \in 0 .. SECTOR_SIZE - 1 : RootAt(f, n, j)
    BY <1>1, <1>3, Zenon DEF Root
  <2>2. walk.depth + 1 = 1 /\ machine.bootAt \in Nat /\ machine.bootAt # 0
    BY <1>1, <1>3, RootIs DEF Walk, Opening, Findable
  <2>3. f.Position < machine.bootAt
    BY <1>2, <2>1, <2>2, NotPassed
  <2>4. PICK n \in 0 .. f.Position, j \in 0 .. SECTOR_SIZE - 1 : RootAt(f, n, j)
    BY <2>1, <2>3
  <2>5. PICK N \in Nat, J \in 1 .. SECTOR_SIZE : BootIsAt(N, J)
    BY <1>1, <2>2, RootIs, Zenon
  <2>6. /\ f.Position = n * SECTOR_SIZE + j /\ f.CurrentCluster = f.FirstCluster + n
        /\ machine.bootAt = N * SECTOR_SIZE + J
        /\ \A k \in 0 .. N : RootLba(BootSector(machine)) + k \in machine.root
    BY <2>4, <2>5, Zenon DEF RootAt, BootIsAt
  <2>7. n \in 0 .. N
    <3> DEFINE b == n * SECTOR_SIZE
               B == N * SECTOR_SIZE
               C == (N + 1) * SECTOR_SIZE
               m == N + 1
    <3>1. /\ n \in Nat /\ j \in Nat /\ J \in Nat /\ J <= SECTOR_SIZE /\ m \in Nat
          /\ b \in Nat /\ B \in Nat /\ C = B + SECTOR_SIZE
      BY <1>2, Multiples
    <3>2. m <= n => C <= b
      BY <1>2, <3>1, Multiples
    <3>3. f.Position = b + j /\ machine.bootAt = B + J
      BY <2>6
    <3> HIDE DEF b, B, C, f
    <3>4. ~(C <= b)
      BY <1>2, <2>3, <3>1, <3>3
    <3> QED BY <3>1, <3>2, <3>4
  <2> QED BY <2>1, <2>3, <2>6, <2>7
<1>4. ASSUME walk.current # ROOT_DIRECTORY_HANDLE
      PROVE  /\ f.CurrentCluster \in machine.clusters
             /\ \E n \in DOMAIN machine.bootPlaces, j \in 1 .. SECTOR_SIZE :
                   LET t == (n - 1) * SECTOR_SIZE + j IN
                   /\ IsNamed(machine, machine.disk[SectorAt(machine, machine.bootPlaces[n])][j], Path[2])
                   /\ t \in Nat /\ f.Position < t
                   /\ f.Size = 0
                   /\ OnPlace(f, machine.bootPlaces)
  <2> DEFINE places == machine.bootPlaces
             T(n, j) == (n - 1) * SECTOR_SIZE + j
  <2>1. f.IsDirectory /\ HoldsEntry(machine, f.FirstCluster)
    BY <1>1, <1>4, Zenon DEF Directory
  <2>2. PICK n \in DOMAIN places, j \in 1 .. SECTOR_SIZE :
          /\ IsNamed(machine, machine.disk[SectorAt(machine, places[n])][j], Path[2])
          /\ Searching(f.Position, T(n, j), Path[2])
          /\ f.Position < T(n, j) => f.Size = 0 /\ OnPlace(f, places)
    BY <1>1, <1>4, Zenon DEF Directory
  <2>3. LiesAt(machine, f.FirstCluster, places)
    BY <2>1, Zenon DEF HoldsEntry
  <2>4. Len(places) \in Nat /\ DOMAIN places = 1 .. Len(places)
    BY <2>3, LenProperties DEF LiesAt
  <2>5. T(n, j) \in Nat
    <3>1. n \in Nat /\ n > 0 /\ j \in Nat
      BY <1>2, <2>4
    <3>2. (n - 1) * SECTOR_SIZE \in Nat
      BY <3>1, PlaceNext
    <3> QED BY <3>1, <3>2
  <2>6. walk.depth + 1 = 2
    BY <1>1, <1>4 DEF Walk, Opening
  <2>7. f.Position < T(n, j)
    <3> HIDE DEF T, f
    <3>1. f.Position \in Int /\ T(n, j) \in Int
      BY <1>2, <2>5
    <3> QED BY <2>2, <2>6, <3>1, NotPassed
  <2>8. OnPlace(f, places) /\ f.Size = 0
    BY <2>2, <2>7, Zenon
  <2>9. PICK x \in DOMAIN places : f.CurrentCluster = places[x].cluster
    BY <2>8 DEF OnPlace
  <2>10. f.CurrentCluster \in machine.clusters
    <3>1. places[x].cluster \in machine.clusters
      BY <1>1, <2>3, PlaceIs, Zenon
    <3> QED BY <2>9, <3>1
  <2> QED BY <2>2, <2>5, <2>7, <2>8, <2>10, Zenon
<1> QED BY <1>3, <1>4

LEMMA FindFileStep ==
    ASSUME IInv, FAT_FindFile
    PROVE  IInv'
<1> DEFINE f == file[walk.current]
           named == IsNamed(machine, out[1], Path[walk.depth + 1])
<1>1. /\ pc = "find" /\ want = 0
      /\ machine' = machine /\ fat' = fat /\ walk' = walk /\ regions' = regions /\ elf' = elf
      /\ memory' = memory /\ failed' = failed /\ unnoticed' = unnoticed
      /\ \/ out = <<>> /\ pc' = "lost"
         \/ out # <<>> /\ named /\ pc' = "entry" /\ file' = FAT_Close /\ want' = want /\ out' = out
         \/ /\ out # <<>> /\ ~named /\ file' = file
            /\ IF Behind THEN pc' = "lost" ELSE Read(f, 1) /\ pc' = pc
  BY Zenon DEF FAT_FindFile, mapVars, elfVars, IsNamed
<1> HIDE DEF named
<1>2. machine \in Machines /\ Returns /\ Returns' /\ pc \in After
  BY <1>1 DEF IInv, Returns, After, Going, Opening
<1>3. ~unnoticed => Good
  BY <1>1 DEF IInv, Going, Opening
<1>4. CASE out = <<>> /\ pc' = "lost"
  <2>1. ASSUME ~unnoticed PROVE machine.bootAt \in {0, SECTOR_SIZE}
    <3>1. Walk
      BY <1>3, <2>1 DEF Good
    <3>2. want + Len(out) = 0
      BY <1>1, <1>4
    <3> QED BY <1>1, <3>1, <3>2 DEF Walk, Findable
  <2>2. NeverLost'
    BY <1>1, <2>1 DEF NeverLost
  <2> QED BY <1>1, <1>2, <1>4, <2>2, Stops
<1>5. CASE out # <<>> /\ named /\ pc' = "entry" /\ file' = FAT_Close /\ want' = want /\ out' = out
  <2>1. SUFFICES ASSUME ~unnoticed' PROVE Good'
    BY <1>1, <1>2, <1>5, StaysGoing DEF After, Going, Opening
  <2>2. Typed /\ Mounted(fat) /\ Root /\ Directory /\ Walk /\ Reading /\ Segmented
    BY <1>1, <1>3, <2>1 DEF Good
  <2>3. Typed'
    <3>1. want' \in Nat /\ out' \in Seq(Range(out'))
      BY <1>5, <2>2 DEF Typed
    <3> QED BY <1>1, <1>5, <2>2, <3>1, CloseIs, TypedSame
  <2>4. Mounted(fat)'
    BY <1>1, <2>2, MountedThen
  <2>5. Root'
    BY <1>1, <1>2, <1>5, <2>2, RootClosed
  <2>6. Segmented'
    BY <1>1, <1>5, <2>2, SegmentedSame DEF IsLoading, Opening, Segments
  <2>7. Walk'
    <3>1. Len(out) = 1
      <4>1. Len(out) \in Nat /\ (Len(out) = 0 => out = <<>>)
        BY <2>2, LenProperties, EmptySeq DEF Typed
      <4>2. want + Len(out) <= 1 /\ want = 0 /\ out # <<>>
        BY <1>1, <1>5, <2>2, Zenon DEF Walk
      <4> DEFINE n == Len(out)
      <4>3. n # 0 /\ n \in Nat /\ want = 0 /\ want + n <= 1
        BY <4>1, <4>2, Zenon
      <4> HIDE DEF n
      <4>4. n = 1
        BY <4>3
      <4> QED BY <4>4 DEF n
    <3>2. IsNamed(machine, out[1], Path[walk.depth + 1])'
      BY <1>1, <1>5 DEF named, IsNamed
    <3> QED BY <1>1, <1>5, <2>2, <3>1, <3>2 DEF Walk, Opening
  <2> QED BY <1>5, <2>3, <2>4, <2>5, <2>6, <2>7, DirectoryElsewhere, ReadingElsewhere
          DEF Good, InFile, Segments
<1>6. CASE /\ out # <<>> /\ ~named /\ file' = file
           /\ IF Behind THEN pc' = "lost" ELSE Read(f, 1) /\ pc' = pc
  <2>1. ASSUME ~unnoticed
        PROVE  /\ walk.current = ROOT_DIRECTORY_HANDLE /\ Findable =>
                    /\ file[ROOT_DIRECTORY_HANDLE].Position < machine.bootAt
                    /\ file[ROOT_DIRECTORY_HANDLE].CurrentCluster \in machine.root
               /\ walk.current # ROOT_DIRECTORY_HANDLE =>
                    /\ file[walk.current].CurrentCluster \in machine.clusters
                    /\ \E n \in DOMAIN machine.bootPlaces, j \in 1 .. SECTOR_SIZE :
                          LET t == (n - 1) * SECTOR_SIZE + j IN
                          /\ IsNamed(machine, machine.disk[SectorAt(machine, machine.bootPlaces[n])][j], Path[2])
                          /\ t \in Nat /\ file[walk.current].Position < t
                          /\ file[walk.current].Size = 0
                          /\ OnPlace(file[walk.current], machine.bootPlaces)
    BY <1>1, <1>3, <1>6, <2>1, FindGoesOn, Zenon DEF named
  <2>2. CASE Behind /\ pc' = "lost"
    <3>1. ~unnoticed => walk.current = ROOT_DIRECTORY_HANDLE /\ ~Findable
      BY <2>1, <2>2 DEF Behind
    <3>2. NeverLost'
      BY <1>1, <3>1 DEF NeverLost, Findable
    <3> QED BY <1>1, <1>2, <2>2, <3>2, Stops
  <2>3. CASE Read(f, 1) /\ pc' = pc
    <3>1. SUFFICES ASSUME ~unnoticed' PROVE Good'
      BY <1>1, <1>2, <2>3, StaysGoing
    <3>2. Typed /\ Mounted(fat) /\ Root /\ Directory /\ Walk /\ Reading /\ Segmented
      BY <1>1, <1>3, <3>1 DEF Good
    <3>3. IsFile(f) /\ f.IsDirectory /\ (f.Size # 0 => f.Position <= f.Size)
      <4>1. IsFile(f)
        BY <3>2 DEF Typed
      <4>2. CASE walk.current = ROOT_DIRECTORY_HANDLE
        <5>1. f.IsDirectory /\ (f.Size # 0 => f.Position + want <= f.Size)
          BY <1>1, <3>2, <4>2, Zenon DEF Root
        <5> QED BY <1>1, <4>1, <5>1 DEF IsFile
      <4>3. CASE walk.current # ROOT_DIRECTORY_HANDLE
        <5>1. f.IsDirectory
          BY <1>1, <3>2, <4>3, Zenon DEF Directory
        <5>2. f.Size = 0
          BY <1>1, <2>1, <3>1, <4>3
        <5> QED BY <4>1, <5>1, <5>2
      <4> QED BY <4>2, <4>3
    <3>4. /\ out' = <<>> /\ Len(out') = 0 /\ out' \in Seq(Range(out')) /\ want' \in {0, 1}
          /\ f.Size # 0 => f.Position + want' <= f.Size
          /\ f.Size = 0 \/ f.Position < f.Size => want' = 1
      BY <2>3, <3>3, DirectoryReads, Zenon
    <3>5. Typed'
      BY <1>1, <1>6, <3>2, <3>4, TypedSame DEF Typed
    <3>6. Mounted(fat)' /\ Segmented'
      BY <1>1, <2>3, <3>2, MountedThen, SegmentedSame DEF IsLoading
    <3>7. CASE walk.current = ROOT_DIRECTORY_HANDLE
      <4>1. /\ f.IsDirectory /\ f.FirstCluster = RootLba(BootSector(machine))
            /\ f.Size = BootSector(machine).DirEntryCount
            /\ Findable /\ machine.bootAt < SECTOR_SIZE => f.Buffer = RootSector(0)
            /\ Findable =>
                 /\ Searching(f.Position, machine.bootAt, Path[1])
                 /\ f.Position < machine.bootAt =>
                       \E n \in 0 .. f.Position, j \in 0 .. SECTOR_SIZE - 1 : RootAt(f, n, j)
        BY <1>1, <3>2, <3>7, Zenon DEF Root
      <4>2. (Findable <=> Findable') /\ RootSector(0)' = RootSector(0)
            /\ file'[ROOT_DIRECTORY_HANDLE] = f
        BY <1>1, <1>6, <3>7 DEF Findable, RootSector
      <4>3. ASSUME Findable
            PROVE  /\ f.Position < machine.bootAt
                   /\ Searching(file[ROOT_DIRECTORY_HANDLE].Position, machine.bootAt, Path[1])'
                   /\ want' = 1
        <5>1. f.Position < machine.bootAt
          BY <2>1, <1>1, <3>1, <3>7, <4>3
        <5>2. machine.bootAt \in Nat /\ machine.bootAt # 0 /\ f.Position \in Nat
              /\ (f.Size = 0 \/ machine.bootAt <= f.Size) /\ f.Size \in Int
          BY <1>2, <3>3, <4>1, <4>3, RootIs DEF Findable, IsFile
        <5>3. want' = 1
          BY <3>4, <5>1, <5>2
        <5> HIDE DEF f
        <5>4. f.Position - Len(out') < machine.bootAt /\ f.Position <= machine.bootAt
              /\ f.Position # machine.bootAt
          BY <3>4, <5>1, <5>2
        <5> QED BY <1>1, <4>2, <5>1, <5>3, <5>4 DEF Searching
      <4>4. Findable =>
              (\E n \in 0 .. file[ROOT_DIRECTORY_HANDLE].Position, j \in 0 .. SECTOR_SIZE - 1 :
                  RootAt(file[ROOT_DIRECTORY_HANDLE], n, j))'
        <5>1. ASSUME NEW n, NEW j, RootAt(f, n, j)
              PROVE  RootAt(file[ROOT_DIRECTORY_HANDLE], n, j)'
          BY <1>1, <4>2, <5>1 DEF RootAt, RootSector
        <5> QED BY <4>1, <4>2, <4>3, <5>1
      <4> HIDE DEF f
      <4>5. Root'
        <5>1. machine' = machine /\ pc' = "find" /\ walk'.current = ROOT_DIRECTORY_HANDLE
          BY <1>1, <2>3, <3>7
        <5>2. f.Size # 0 => f.Position + (IF pc' = "find" /\ walk'.current = ROOT_DIRECTORY_HANDLE
                                          THEN want' ELSE 0) <= f.Size
          BY <3>4, <5>1
        <5> QED BY <4>1, <4>2, <4>3, <4>4, <5>1, <5>2, Zenon DEF Root
      <4>6. Walk'
        <5>1. Findable' => want' = 1
          BY <4>2, <4>3, Zenon
        <5> DEFINE n == Len(out')
        <5> HIDE DEF n
        <5>4. want' + n <= 1 /\ (want' = 1 => want' + n = 1)
          <6> DEFINE w == want'
          <6> HIDE DEF w
          <6>1. n = 0 /\ (w = 0 \/ w = 1)
            BY <3>4 DEF n, w
          <6>2. w + n <= 1 /\ (w = 1 => w + n = 1)
            BY <6>1
          <6> QED BY <6>2 DEF w
        <5>2. want' + Len(out') <= 1 /\ (want' = 1 => want' + Len(out') = 1)
          BY <5>4 DEF n
        <5>3. pc' = "find" /\ walk' = walk /\ pc = "find"
          BY <1>1, <2>3
        <5> QED BY <3>2, <5>1, <5>2, <5>3 DEF Walk, Opening
      <4> QED BY <1>1, <2>3, <3>5, <3>6, <3>7, <4>5, <4>6, DirectoryElsewhere, ReadingElsewhere
              DEF Good, InFile, Segments
    <3>8. CASE walk.current # ROOT_DIRECTORY_HANDLE
      <4>1. PICK n \in DOMAIN machine.bootPlaces, j \in 1 .. SECTOR_SIZE :
               LET t == (n - 1) * SECTOR_SIZE + j IN
               /\ IsNamed(machine, machine.disk[SectorAt(machine, machine.bootPlaces[n])][j], Path[2])
               /\ t \in Nat /\ f.Position < t
               /\ f.Size = 0
               /\ OnPlace(f, machine.bootPlaces)
        BY <1>1, <2>1, <3>1, <3>8
      <4> DEFINE t == (n - 1) * SECTOR_SIZE + j
      <4>2. HoldsEntry(machine, f.FirstCluster)
        BY <1>1, <3>2, <3>8, Zenon DEF Directory
      <4>3. file'[walk'.current] = f /\ want' = 1
        BY <1>1, <1>6, <3>4, <4>1
      <4>4. Searching(file[walk.current].Position, t, Path[2])'
        <5>1. f.Position \in Nat /\ t \in Nat /\ f.Position < t
          BY <3>3, <4>1 DEF IsFile
        <5> HIDE DEF f, t
        <5>2. f.Position - Len(out') < t /\ f.Position <= t /\ f.Position # t
          BY <3>4, <5>1
        <5> QED BY <1>1, <4>3, <5>2 DEF Searching, t
      <4>5. OnPlace(file[walk.current], machine.bootPlaces)'
        BY <1>1, <4>1, <4>3 DEF OnPlace
      <4>6. Directory'
        BY <1>1, <2>3, <3>3, <4>1, <4>2, <4>3, <4>4, <4>5, Zenon DEF Directory
      <4>7. Root'
        BY <1>1, <1>6, <3>2, <3>8, RootSame
      <4>8. Walk'
        BY <1>1, <2>3, <3>2, <3>4, <4>3 DEF Walk, Opening
      <4> QED BY <1>1, <2>3, <3>5, <3>6, <4>6, <4>7, <4>8, ReadingElsewhere
              DEF Good, InFile, Segments
    <3> QED BY <3>7, <3>8
  <2> QED BY <1>6, <2>2, <2>3
<1> QED BY <1>1, <1>4, <1>5, <1>6

\* The first place of what is opened.
LEMMA FirstPlace ==
    ASSUME machine \in Machines, Mounted(fat), NEW first, NEW places,
           LiesAt(machine, first, places), places # <<>>, NEW f, IsFile(f),
           f.CurrentCluster = first, f.CurrentSectorInCluster = 0,
           NEW l \in Filled(f, FAT_ClusterToLba(first))
    PROVE  /\ 1 \in DOMAIN places
           /\ l.ok \in BOOLEAN
           /\ l.ok => \E b : l.file = [f EXCEPT !.Buffer = b] /\ At(l.file, places[1])
           /\ ~l.ok => l.fault
<1>1. Len(places) \in Nat /\ DOMAIN places = 1 .. Len(places) /\ (Len(places) = 0 => places = <<>>)
      /\ places[1] = [cluster |-> first, sector |-> 0]
  <2>1. places \in Seq([cluster : machine.clusters, sector : 0 .. BootSector(machine).SectorsPerCluster - 1])
        /\ places[1] = [cluster |-> first, sector |-> 0]
    BY Zenon DEF LiesAt
  <2> QED BY <2>1, LenProperties, EmptySeq
<1>2. 1 \in DOMAIN places
  <2> DEFINE n == Len(places)
  <2>1. n \in Nat /\ DOMAIN places = 1 .. n /\ n # 0
    BY <1>1, Zenon
  <2> HIDE DEF n
  <2> QED BY <2>1
<1> DEFINE at == places[1]
<1>3. at.cluster = first /\ at.sector = 0
  BY <1>1
<1>4. /\ at.cluster \in Nat /\ at.sector \in Nat /\ SectorAt(machine, at) \in DOMAIN machine.disk
  BY <1>2, PlaceIs, Zenon
<1> HIDE DEF at
<1> DEFINE lba == FAT_ClusterToLba(first)
<1>5. lba \in Int /\ lba + Offset(machine) = SectorAt(machine, at)
  <2>1. lba + 0 \in Int /\ lba + 0 + Offset(machine) = SectorAt(machine, at)
    BY <1>3, <1>4, PlaceLba
  <2>2. lba \in Int
    <3> DEFINE d == fat.DataSectionLba
               x == (first - 2) * fat.BS.SectorsPerCluster
    <3>1. lba = d + x
      BY DEF FAT_ClusterToLba
    <3>2. d \in Int /\ fat.BS.SectorsPerCluster \in Nat
      BY MachineIs DEF Mounted
    <3>3. x \in Int
      BY <1>3, <1>4, <3>2
    <3> HIDE DEF d, x, lba
    <3> QED BY <3>1, <3>2, <3>3
  <2> HIDE DEF lba
  <2> QED BY <2>1, <2>2
<1>6. fat.partitionOffset = Offset(machine)
  BY DEF Mounted
<1> HIDE DEF lba
<1>7. l.ok \in BOOLEAN
  BY FilledAny DEF lba
<1>8. /\ l.ok => /\ l.file = [f EXCEPT !.Buffer = machine.disk[lba + Offset(machine)]]
                 /\ ~l.fault
      /\ ~l.ok => l.fault
  BY <1>4, <1>5, <1>6, FilledThere DEF lba
<1>9. ASSUME l.ok PROVE At(l.file, at)
  <2>1. l.file = [f EXCEPT !.Buffer = machine.disk[SectorAt(machine, at)]]
    BY <1>5, <1>8, <1>9
  <2>2. /\ l.file.CurrentCluster = f.CurrentCluster /\ l.file.Buffer = machine.disk[SectorAt(machine, at)]
        /\ l.file.CurrentSectorInCluster = f.CurrentSectorInCluster
    BY <2>1 DEF IsFile
  <2> QED BY <1>3, <2>2 DEF At
<1> QED BY <1>2, <1>7, <1>8, <1>9 DEF at

\* What is opened is the one or the other.
LEMMA EntryOpens ==
    ASSUME machine \in Machines, Good, pc = "entry", NEW e, e = out[1],
           NEW l \in Filled([NoFile EXCEPT !.IsDirectory = e.dir, !.Size = e.size,
                                           !.FirstCluster = e.first, !.CurrentCluster = e.first],
                            FAT_ClusterToLba(e.first)),
           NEW g, g = [l.file EXCEPT !.Opened = l.ok]
    PROVE  /\ l.ok \in BOOLEAN /\ (~l.ok => l.fault)
           /\ l.ok => /\ IsFile(g) /\ g.Position = 0 /\ g.Size = e.size
                      /\ g.IsDirectory = e.dir /\ g.FirstCluster = e.first
                      /\ walk.depth = 0 =>
                            /\ 1 \in DOMAIN machine.bootPlaces /\ At(g, machine.bootPlaces[1])
                            /\ e.dir = TRUE /\ e.size = 0 /\ HoldsEntry(machine, e.first)
                      /\ walk.depth = 1 =>
                            /\ 1 \in DOMAIN machine.kernelPlaces /\ At(g, machine.kernelPlaces[1])
                            /\ e.dir = FALSE /\ e.size \in 0 .. Len(machine.kernel)
                            /\ HoldsKernel(machine, e.first)
<1> DEFINE f == [NoFile EXCEPT !.IsDirectory = e.dir, !.Size = e.size,
                               !.FirstCluster = e.first, !.CurrentCluster = e.first]
<1>1. Mounted(fat) /\ Walk
  BY DEF Good
<1>2. walk.depth \in {0, 1} /\ IsNamed(machine, e, Path[walk.depth + 1])
  BY <1>1 DEF Walk, Opening
<1>3. /\ walk.depth = 0 => e.dir = TRUE /\ e.size = 0 /\ HoldsEntry(machine, e.first)
      /\ walk.depth = 1 => e.dir = FALSE /\ e.size \in 0 .. Len(machine.kernel)
                              /\ HoldsKernel(machine, e.first)
  <2>1. walk.depth = 0 => IsNamed(machine, e, Path[1])
    BY <1>2
  <2>2. walk.depth = 1 => IsNamed(machine, e, Path[2])
    BY <1>2
  <2> QED BY <2>1, <2>2, RootIs, KernelIs, Zenon DEF IsNamed
<1>4. /\ IsFile(f) /\ f.Position = 0 /\ f.Size = e.size /\ f.IsDirectory = e.dir
      /\ f.FirstCluster = e.first /\ f.CurrentCluster = e.first /\ f.CurrentSectorInCluster = 0
  <2>1. e.dir \in BOOLEAN /\ e.size \in Int
    <3>1. Len(machine.kernel) \in Nat
      BY KernelIs
    <3> DEFINE n == Len(machine.kernel)
               z == e.size
    <3> HIDE DEF n, z
    <3>2. (e.dir = TRUE /\ z = 0) \/ (e.dir = FALSE /\ z \in 0 .. n)
      BY <1>2, <1>3 DEF n, z
    <3>3. e.dir \in BOOLEAN
      BY <3>2, Zenon
    <3>4. n \in Nat /\ (z = 0 \/ z \in 0 .. n)
      BY <3>1, <3>2, Zenon DEF n
    <3>5. z \in Int
      BY <3>4
    <3> QED BY <3>3, <3>5 DEF z
  <2> QED BY <2>1 DEF IsFile, NoFile
<1> HIDE DEF f
<1>5. ASSUME NEW places, LiesAt(machine, e.first, places), places # <<>>
      PROVE  /\ l.ok \in BOOLEAN /\ (~l.ok => l.fault)
             /\ l.ok => /\ IsFile(g) /\ g.Position = 0 /\ g.Size = e.size
                        /\ g.IsDirectory = e.dir /\ g.FirstCluster = e.first
                        /\ 1 \in DOMAIN places /\ At(g, places[1])
  <2>1. /\ 1 \in DOMAIN places
        /\ l.ok \in BOOLEAN
        /\ l.ok => \E b : l.file = [f EXCEPT !.Buffer = b] /\ At(l.file, places[1])
        /\ ~l.ok => l.fault
    BY <1>1, <1>4, <1>5, FirstPlace, Zenon DEF f
  <2>2. ASSUME l.ok
        PROVE  /\ IsFile(g) /\ g.Position = 0 /\ g.Size = e.size
               /\ g.IsDirectory = e.dir /\ g.FirstCluster = e.first /\ At(g, places[1])
    <3>1. PICK b : l.file = [f EXCEPT !.Buffer = b] /\ At(l.file, places[1])
      BY <2>1, <2>2
    <3>2. l.ok = TRUE
      BY <2>1, <2>2
    <3>3. g = [f EXCEPT !.Buffer = b, !.Opened = TRUE]
      BY <3>1, <3>2
    <3>4. /\ IsFile(g) /\ g.Position = 0 /\ g.Size = e.size
          /\ g.IsDirectory = e.dir /\ g.FirstCluster = e.first
          /\ g.CurrentCluster = f.CurrentCluster /\ g.Buffer = b
          /\ g.CurrentSectorInCluster = f.CurrentSectorInCluster
      BY <1>4, <3>3 DEF IsFile
    <3>5. /\ l.file.CurrentCluster = f.CurrentCluster /\ l.file.Buffer = b
          /\ l.file.CurrentSectorInCluster = f.CurrentSectorInCluster
      BY <1>4, <3>1 DEF IsFile
    <3>6. At(g, places[1])
      BY <3>1, <3>4, <3>5 DEF At
    <3> QED BY <3>4, <3>6
  <2> QED BY <2>1, <2>2
<1>6. CASE walk.depth = 0
  <2>1. HoldsEntry(machine, e.first)
    BY <1>3, <1>6
  <2>2. LiesAt(machine, e.first, machine.bootPlaces)
    BY <2>1, Zenon DEF HoldsEntry
  <2>3. machine.bootPlaces # <<>>
    <3>1. \E n \in DOMAIN machine.bootPlaces : TRUE
      BY <2>1, Zenon DEF HoldsEntry
    <3> QED BY <3>1
  <2> QED BY <1>3, <1>5, <1>6, <2>2, <2>3
<1>7. CASE walk.depth = 1
  <2>1. HoldsKernel(machine, e.first)
    BY <1>3, <1>7
  <2>2. LiesAt(machine, e.first, machine.kernelPlaces)
        /\ Len(machine.kernel) <= Len(machine.kernelPlaces) * SECTOR_SIZE
    BY <2>1, Zenon DEF HoldsKernel
  <2>3. machine.kernelPlaces # <<>>
    <3>1. Len(machine.kernel) \in Nat /\ Len(machine.kernel) # 0 /\ SECTOR_SIZE \in Nat
      BY KernelIs, Stage2Assumption
    <3>2. Len(machine.kernelPlaces) # 0
      <4>1. 0 * SECTOR_SIZE = 0
        BY <3>1
      <4> QED BY <2>2, <3>1, <4>1
    <3> QED BY <3>2
  <2> QED BY <1>3, <1>5, <1>7, <2>2, <2>3
<1> QED BY <1>2, <1>6, <1>7

LEMMA OpenEntryStep ==
    ASSUME IInv, FAT_OpenEntry
    PROVE  IInv'
<1> DEFINE e == out[1]
           opened == [NoFile EXCEPT !.IsDirectory = e.dir, !.Size = e.size,
                                    !.FirstCluster = e.first, !.CurrentCluster = e.first]
<1>1. PICK h \in Handle, l \in Filled(opened, FAT_ClusterToLba(e.first)) :
        /\ file' = [file EXCEPT ![h] = [l.file EXCEPT !.Opened = l.ok]]
        /\ failed' = (failed \/ l.fault)
        /\ walk' = [walk EXCEPT !.depth = @ + 1, !.current = h]
        /\ IF ~l.ok
           THEN pc' = "lost" /\ UNCHANGED <<want, out>>
           ELSE IF walk.depth + 1 < Len(Path)
           THEN pc' = "find" /\ Read(l.file, 1)
           ELSE pc' = walk.then /\ want' = 0 /\ out' = <<>>
  BY Zenon DEF FAT_OpenEntry
<1>2. /\ pc = "entry" /\ machine' = machine /\ fat' = fat /\ regions' = regions
      /\ elf' = elf /\ memory' = memory /\ unnoticed' = unnoticed
  BY Zenon DEF FAT_OpenEntry, mapVars, elfVars
<1>3. /\ machine \in Machines /\ Returns /\ pc \in After /\ (~unnoticed => Good)
      /\ walk.then \in {"header", "seek"}
  BY <1>2 DEF IInv, Returns, After, Going, Opening
<1>4. Returns' /\ walk'.then = walk.then /\ walk'.current = h
  BY <1>1, <1>3 DEF Returns
<1> DEFINE g == [l.file EXCEPT !.Opened = l.ok]
<1>5. ASSUME Good
      PROVE  /\ l.ok \in BOOLEAN /\ (~l.ok => l.fault)
             /\ l.ok => /\ IsFile(g) /\ g.Position = 0 /\ g.Size = e.size
                        /\ g.IsDirectory = e.dir /\ g.FirstCluster = e.first
                        /\ walk.depth = 0 =>
                              /\ 1 \in DOMAIN machine.bootPlaces /\ At(g, machine.bootPlaces[1])
                              /\ e.dir = TRUE /\ e.size = 0 /\ HoldsEntry(machine, e.first)
                        /\ walk.depth = 1 =>
                              /\ 1 \in DOMAIN machine.kernelPlaces /\ At(g, machine.kernelPlaces[1])
                              /\ e.dir = FALSE /\ e.size \in 0 .. Len(machine.kernel)
                              /\ HoldsKernel(machine, e.first)
  BY <1>2, <1>3, <1>5, EntryOpens, Zenon
<1> HIDE DEF opened
<1>6. CASE ~l.ok
  <2>1. NeverLost'
    <3>1. ~unnoticed => failed'
      BY <1>1, <1>3, <1>5, <1>6, Zenon
    <3> QED BY <1>2, <3>1 DEF NeverLost
  <2>2. pc' = "lost"
    BY <1>1, <1>6
  <2> QED BY <1>2, <1>4, <2>1, <2>2, Stops
<1>7. CASE l.ok
  <2>1. \/ walk.depth + 1 < 2 /\ pc' = "find" /\ Read(l.file, 1)
        \/ ~(walk.depth + 1 < 2) /\ pc' = walk.then /\ want' = 0 /\ out' = <<>>
    <3>1. Len(Path) = 2
      BY DEF Path
    <3> QED BY <1>1, <1>7, <3>1, Zenon
  <2>2. SUFFICES ASSUME ~unnoticed' PROVE Good'
    BY <1>2, <1>3, <1>4, <2>1, StaysGoing DEF After, Going, Opening, InFile, Segments
  <2>3. Good
    BY <1>2, <1>3, <2>2
  <2>4. Typed /\ Mounted(fat) /\ Root /\ Directory /\ Walk /\ Reading /\ Segmented
    BY <2>3 DEF Good
  <2>5. /\ IsFile(g) /\ g.Position = 0 /\ g.Size = e.size
        /\ g.IsDirectory = e.dir /\ g.FirstCluster = e.first
        /\ walk.depth = 0 =>
              /\ 1 \in DOMAIN machine.bootPlaces /\ At(g, machine.bootPlaces[1])
              /\ e.dir = TRUE /\ e.size = 0 /\ HoldsEntry(machine, e.first)
        /\ walk.depth = 1 =>
              /\ 1 \in DOMAIN machine.kernelPlaces /\ At(g, machine.kernelPlaces[1])
              /\ e.dir = FALSE /\ e.size \in 0 .. Len(machine.kernel)
              /\ HoldsKernel(machine, e.first)
    BY <1>5, <1>7, <2>3, Zenon
  <2>6. h \in Handles /\ h # ROOT_DIRECTORY_HANDLE /\ SECTOR_SIZE \in Nat /\ SECTOR_SIZE > 0
    BY Stage2Assumption DEF Handles, Handle, ROOT_DIRECTORY_HANDLE
  <2>7. /\ file' = [k \in Handles |-> file'[k]] /\ \A k \in Handles : IsFile(file'[k])
        /\ file'[h] = g /\ \A k \in Handles \ {h} : file'[k] = file[k]
    BY <1>1, <2>4, <2>5, <2>6, FileSet, Zenon
  <2>8. Root'
    <3>1. file'[ROOT_DIRECTORY_HANDLE] = file[ROOT_DIRECTORY_HANDLE]
      BY <2>6, <2>7 DEF Handles
    <3> QED BY <1>2, <1>4, <2>4, <2>6, <3>1, RootSame
  <2>9. Mounted(fat)'
    BY <1>2, <2>4, MountedThen
  <2>10. walk.depth = IF walk.current = ROOT_DIRECTORY_HANDLE THEN 0 ELSE 1
    BY <1>2, <2>4 DEF Walk, Opening
  <2>11. walk'.depth = walk.depth + 1 /\ walk'.depth \in 0 .. 2
    <3>1. walk' = [walk EXCEPT !.depth = @ + 1, !.current = h]
      BY <1>1
    <3> QED BY <1>3, <2>10, <3>1 DEF Returns
  <2> HIDE DEF g
\* The directory.
  <2>12. CASE walk.depth + 1 < 2 /\ pc' = "find" /\ Read(l.file, 1)
    <3>1. walk.depth = 0
      BY <2>10, <2>12
    <3>2. want' = 1 /\ out' = <<>> /\ Len(out') = 0 /\ out' \in Seq(Range(out'))
      <4>1. IsFile(g) /\ g.IsDirectory /\ g.Size = 0
        BY <2>5, <3>1
      <4>2. l.file.IsDirectory = g.IsDirectory /\ l.file.Size = g.Size /\ l.file.Position = g.Position
        BY DEF g
      <4>3. Read(g, 1)
        BY <2>12, <4>2 DEF Read
      <4> QED BY <4>1, <4>3, DirectoryReads
    <3>3. Typed'
      BY <1>2, <1>4, <2>4, <2>6, <2>7, <2>11, <3>2 DEF Typed, IsFile, Handles
    <3>4. Segmented'
      BY <1>2, <1>4, <2>4, <2>12, SegmentedSame DEF IsLoading, Opening, Segments
    <3>5. Walk'
      BY <1>4, <2>6, <2>11, <2>12, <3>1, <3>2 DEF Walk, Opening
    <3>6. Directory'
      <4> DEFINE places == machine.bootPlaces
                 T(n, j) == (n - 1) * SECTOR_SIZE + j
      <4>1. PICK n \in DOMAIN places, j \in 1 .. SECTOR_SIZE :
              IsNamed(machine, machine.disk[SectorAt(machine, places[n])][j], Path[2])
        BY <2>5, <3>1, Zenon DEF HoldsEntry
      <4>2. T(n, j) \in Nat /\ T(n, j) > 0
        <5>1. LiesAt(machine, e.first, places)
          BY <2>5, <3>1, Zenon DEF HoldsEntry
        <5>2. Len(places) \in Nat /\ DOMAIN places = 1 .. Len(places)
          BY <1>3, <5>1, <4>1, PlaceIs, Zenon
        <5>3. n \in Nat /\ n > 0 /\ j \in Nat /\ j > 0
          BY <2>6, <5>2
        <5> DEFINE b == (n - 1) * SECTOR_SIZE
        <5>4. b \in Nat
          BY <5>3, PlaceNext
        <5> HIDE DEF b
        <5>5. b + j \in Nat /\ b + j > 0
          BY <5>3, <5>4
        <5> QED BY <5>5 DEF b
      <4>3. Searching(file[walk.current].Position, T(n, j), Path[2])'
        <5> HIDE DEF T
        <5>1. 0 - Len(out') < T(n, j) /\ 0 <= T(n, j) /\ 0 # T(n, j)
          BY <3>2, <4>2
        <5> QED BY <1>4, <2>5, <2>7, <5>1 DEF Searching, T
      <4>4. OnPlace(file[walk.current], places)'
        <5>1. 0 = (1 - 1) * SECTOR_SIZE + 0 /\ 0 \in 0 .. SECTOR_SIZE - 1
          BY <2>6
        <5>2. 1 \in DOMAIN places /\ g.Position = (1 - 1) * SECTOR_SIZE + 0 /\ At(g, places[1])
          BY <2>5, <3>1, <5>1
        <5> QED BY <1>2, <1>4, <2>7, <5>1, <5>2 DEF OnPlace, At
      <4>5. /\ file'[walk'.current] = g /\ g.IsDirectory /\ HoldsEntry(machine, g.FirstCluster)
            /\ g.Size = 0
        BY <1>4, <2>5, <2>7, <3>1
      <4> QED BY <1>2, <4>1, <4>3, <4>4, <4>5, Zenon DEF Directory
    <3> QED BY <2>8, <2>9, <2>12, <3>3, <3>4, <3>5, <3>6, ReadingElsewhere
            DEF Good, InFile, Segments
\* The kernel's file.
  <2>13. CASE ~(walk.depth + 1 < 2) /\ pc' = walk.then /\ want' = 0 /\ out' = <<>>
    <3>1. walk.depth = 1 /\ pc' \in {"header", "seek"}
      BY <1>3, <2>10, <2>13
    <3>2. Len(out') = 0 /\ out' \in Seq(Range(out'))
      BY <2>13
    <3>3. Typed'
      BY <1>2, <1>4, <2>4, <2>6, <2>7, <2>11, <2>13, <3>2 DEF Typed, IsFile, Handles
    <3>4. Segmented'
      <4>1. IsLoading' <=> IsLoading
        BY <1>2, <1>3, <1>4, <2>13 DEF IsLoading, Opening, Segments
      <4> QED BY <1>2, <1>4, <2>4, <3>1, <4>1, SegmentedSame DEF Opening
    <3>5. Walk'
      BY <2>13, <3>1 DEF Walk, Opening, InFile, Segments
    <3>6. InKernel'
      <4>1. file'[walk'.current] = g
        BY <1>4, <2>7
      <4>2. OnPlace(file[walk.current], machine.kernelPlaces)'
        <5>1. 0 = (1 - 1) * SECTOR_SIZE + 0 /\ 0 \in 0 .. SECTOR_SIZE - 1
          BY <2>6
        <5>2. /\ 1 \in DOMAIN machine.kernelPlaces /\ g.Position = (1 - 1) * SECTOR_SIZE + 0
              /\ At(g, machine.kernelPlaces[1])
          BY <2>5, <3>1, <5>1
        <5> QED BY <1>2, <4>1, <5>1, <5>2 DEF OnPlace, At
      <4>3. /\ ~g.IsDirectory /\ g.Size <= Len(machine.kernel) /\ HoldsKernel(machine, g.FirstCluster)
            /\ g.Position + want' <= g.Size /\ Len(out') <= g.Position
        <5>1. Len(machine.kernel) \in Nat
          BY <1>3, KernelIs
        <5> DEFINE n == Len(machine.kernel)
        <5> HIDE DEF n, e
        <5>2. n \in Nat /\ g.Size \in 0 .. n /\ g.Position = 0
          BY <2>5, <3>1, <5>1 DEF n
        <5>3. g.Size <= n /\ g.Position + want' <= g.Size /\ Len(out') <= g.Position
          BY <2>13, <3>2, <5>2
        <5> QED BY <2>5, <3>1, <5>3 DEF n
      <4>4. \A k \in 1 .. Len(out') : FALSE
        BY <3>2
      <4> QED BY <1>2, <4>1, <4>2, <4>3, <4>4, Zenon DEF InKernel
    <3>7. Reading'
      <4>1. From' = 0
        BY <1>4, <2>5, <2>7, <3>1, <3>2 DEF From
      <4>2. pc' = "seek" => Sought' + Loaded' = 0
        <5>1. ASSUME pc' = "seek" PROVE Sought' + Loaded' = 0
          <6>1. IsLoading /\ pc \in Opening
            BY <1>2, <1>4, <2>13, <5>1 DEF IsLoading, Opening
          <6>2. Header = Asked(elf.i) /\ Header.Offset \in Nat /\ Header.FileSize \in Nat
            BY <1>2, <2>4, <6>1, HeaderIs DEF Segmented, Now
          <6>3. Sought = 0 /\ Loaded = 0
            BY <6>2 DEF Sought, Loaded
          <6> QED BY <1>2, <6>3 DEF Sought, Loaded, Asked, TableAt, Header
        <5> QED BY <5>1
      <4>3. file'[walk'.current].Position = 0 /\ walk'.current \in Handle
        BY <1>4, <2>5, <2>7
      <4> QED BY <2>13, <3>1, <3>6, <4>1, <4>2, <4>3 DEF Reading, InFile, Segments
    <3> QED BY <2>8, <2>9, <3>1, <3>3, <3>4, <3>5, <3>6, <3>7, DirectoryElsewhere DEF Good
  <2> QED BY <2>1, <2>12, <2>13
<1> QED BY <1>6, <1>7

\* FAT_Open begins in the root directory, which has been closed.
LEMMA OpensRoot ==
    ASSUME machine \in Machines, Typed, Root, pc \notin Opening, NEW then, then \in {"header", "seek"},
           Returns, FAT_Open(then), machine' = machine, file' = file
    PROVE  /\ want' \in {0, 1} /\ out' = <<>> /\ Len(out') = 0 /\ out' \in Seq(Range(out'))
           /\ Root' /\ Walk' /\ Returns'
           /\ walk'.current = ROOT_DIRECTORY_HANDLE /\ walk'.then = then /\ pc' = "find"
           /\ walk'.depth \in 0 .. 2
<1> DEFINE f == file[ROOT_DIRECTORY_HANDLE]
<1>1. /\ walk' = [depth |-> 0, current |-> ROOT_DIRECTORY_HANDLE, then |-> then]
      /\ Read(f, 1) /\ pc' = "find"
  BY Zenon DEF FAT_Open
<1>2. /\ walk'.depth = 0 /\ walk'.current = ROOT_DIRECTORY_HANDLE /\ walk'.then = then /\ Returns'
  BY <1>1 DEF Returns
<1>3. /\ f.IsDirectory /\ f.FirstCluster = RootLba(BootSector(machine))
      /\ f.Size = BootSector(machine).DirEntryCount
      /\ f.Size # 0 => f.Position + 0 <= f.Size
      /\ Findable /\ machine.bootAt < SECTOR_SIZE => f.Buffer = RootSector(0)
      /\ Findable => RootAt(f, 0, 0)
  <2>1. ~(pc = "find" /\ walk.current = ROOT_DIRECTORY_HANDLE)
    BY DEF Opening
  <2> QED BY <2>1, Zenon DEF Root
<1>4. IsFile(f)
  BY DEF Typed, Handles
<1>5. f.Position \in Nat /\ f.Size \in Nat /\ SECTOR_SIZE \in Nat /\ SECTOR_SIZE > 0
  BY <1>3, <1>4, MachineIs, Stage2Assumption DEF IsFile
<1>6. /\ out' = <<>> /\ Len(out') = 0 /\ out' \in Seq(Range(out')) /\ want' \in {0, 1}
      /\ f.Size # 0 => f.Position + want' <= f.Size
      /\ f.Size = 0 \/ f.Position < f.Size => want' = 1
  <2>1. f.Size # 0 => f.Position <= f.Size
    BY <1>3, <1>5
  <2> QED BY <1>1, <1>3, <1>4, <2>1, DirectoryReads, Zenon
<1>7. (Findable <=> Findable') /\ RootSector(0)' = RootSector(0)
      /\ file'[ROOT_DIRECTORY_HANDLE] = f
  BY DEF Findable, RootSector
<1>8. ASSUME Findable
      PROVE  /\ want' = 1
             /\ Searching(file[ROOT_DIRECTORY_HANDLE].Position, machine.bootAt, Path[1])'
             /\ (\E n \in 0 .. file[ROOT_DIRECTORY_HANDLE].Position, j \in 0 .. SECTOR_SIZE - 1 :
                    RootAt(file[ROOT_DIRECTORY_HANDLE], n, j))'
  <2>1. machine.bootAt \in Nat /\ machine.bootAt > 0 /\ (f.Size = 0 \/ machine.bootAt <= f.Size)
    BY <1>3, <1>8, RootIs DEF Findable
  <2>2. f.Position = 0
    BY <1>3, <1>5, <1>8 DEF RootAt
  <2>3. want' = 1
    BY <1>5, <1>6, <2>1, <2>2
  <2>4. Searching(file[ROOT_DIRECTORY_HANDLE].Position, machine.bootAt, Path[1])'
    <3> HIDE DEF f
    <3>1. f.Position - Len(out') < machine.bootAt /\ f.Position <= machine.bootAt
          /\ f.Position # machine.bootAt
      BY <1>6, <2>1, <2>2
    <3> QED BY <1>7, <3>1 DEF Searching
  <2>5. RootAt(file[ROOT_DIRECTORY_HANDLE], 0, 0)'
    BY <1>3, <1>7, <1>8 DEF RootAt, RootSector
  <2>6. 0 \in 0 .. file'[ROOT_DIRECTORY_HANDLE].Position /\ 0 \in 0 .. SECTOR_SIZE - 1
    BY <1>5, <1>7, <2>2
  <2> QED BY <2>3, <2>4, <2>5, <2>6
<1> HIDE DEF f
<1>9. Root'
  <2>1. machine' = machine /\ pc' = "find" /\ walk'.current = ROOT_DIRECTORY_HANDLE
    BY <1>1, <1>2
  <2>2. f.Size # 0 => f.Position + (IF pc' = "find" /\ walk'.current = ROOT_DIRECTORY_HANDLE
                                    THEN want' ELSE 0) <= f.Size
    BY <1>6, <2>1
  <2> QED BY <1>3, <1>7, <1>8, <2>1, <2>2, Zenon DEF Root
<1>10. Walk'
  <2>1. Findable' => want' = 1
    BY <1>7, <1>8, Zenon
  <2> DEFINE n == Len(out')
             w == want'
  <2> HIDE DEF n, w
  <2>2. n = 0 /\ (w = 0 \/ w = 1)
    BY <1>6 DEF n, w
  <2>3. w + n <= 1 /\ (w = 1 => w + n = 1)
    BY <2>2
  <2>4. want' + Len(out') <= 1 /\ (want' = 1 => want' + Len(out') = 1)
    BY <2>3 DEF n, w
  <2> QED BY <1>1, <1>2, <2>1, <2>4 DEF Walk, Opening
<1>11. walk'.depth \in 0 .. 2
  BY <1>2
<1> QED BY <1>1, <1>2, <1>6, <1>9, <1>10, <1>11

LEMMA ELFReadStep ==
    ASSUME IInv, ELF_Read
    PROVE  IInv'
<1>1. /\ pc = "elf" /\ FAT_Open("header") /\ machine' = machine /\ fat' = fat /\ file' = file
      /\ regions' = regions /\ elf' = elf /\ memory' = memory /\ unnoticed' = unnoticed
  BY Zenon DEF ELF_Read, mapVars, elfVars
<1>2. /\ machine \in Machines /\ Returns /\ pc \in After /\ (~unnoticed => Good)
  BY <1>1 DEF IInv, After, Going, Opening
<1>3. pc' = "find" /\ walk'.then = "header" /\ Returns'
  BY <1>1, <1>2 DEF FAT_Open, Returns
<1>4. SUFFICES ASSUME ~unnoticed' PROVE Good'
  BY <1>1, <1>2, <1>3, StaysGoing DEF After, Going, Opening
<1>5. Typed /\ Mounted(fat) /\ Root /\ Directory /\ Walk /\ Reading /\ Segmented
  BY <1>1, <1>2, <1>4 DEF Good
<1>6. /\ want' \in {0, 1} /\ out' = <<>> /\ Len(out') = 0 /\ out' \in Seq(Range(out'))
      /\ Root' /\ Walk' /\ walk'.current = ROOT_DIRECTORY_HANDLE /\ walk'.depth \in 0 .. 2
  BY <1>1, <1>2, <1>5, OpensRoot DEF Opening
<1>7. Typed'
  <2>1. want' \in Nat
    BY <1>6
  <2>2. /\ file = [h \in Handles |-> file[h]] /\ \A h \in Handles : IsFile(file[h])
        /\ elf \in [header : {elf.header}, headers : {elf.headers}, i : Nat, virtAddress : Int]
    BY <1>5, Zenon DEF Typed
  <2>3. \A h \in Handles : IsFile(file[h])'
    BY <1>1, <2>2 DEF IsFile, Handles
  <2>4. ROOT_DIRECTORY_HANDLE \in Handles /\ Handles' = Handles
    BY DEF Handles, Handle
  <2> QED BY <1>1, <1>6, <2>1, <2>2, <2>3, <2>4, Zenon DEF Typed
<1>8. Mounted(fat)'
  BY <1>1, <1>5, MountedThen
<1>9. Segmented'
  <2>1. ~IsLoading /\ ~IsLoading'
    BY <1>1, <1>3 DEF IsLoading, Opening, Segments
  <2> QED BY <1>1, <1>3, <1>5, <2>1 DEF Segmented
<1> QED BY <1>3, <1>6, <1>7, <1>8, <1>9, DirectoryElsewhere, ReadingElsewhere
        DEF Good, InFile, Segments

--------------------------------------------------------------------------------
(* ELF_Read                                                                   *)

\* Read, of the kernel's file.
LEMMA KernelReads ==
    ASSUME machine \in Machines, Typed, InKernel, NEW n \in Nat, Read(file[walk.current], n),
           want = 0, machine' = machine, file' = file, walk' = walk
    PROVE  /\ out' = <<>> /\ Len(out') = 0 /\ out' \in Seq(Range(out')) /\ want' \in Nat
           /\ InKernel' /\ want' <= n /\ From' = file[walk.current].Position
           /\ want' = n \/ file[walk.current].Position + want' = file[walk.current].Size
<1> DEFINE f == file[walk.current]
<1>1. /\ ~f.IsDirectory /\ f.Size <= Len(machine.kernel) /\ HoldsKernel(machine, f.FirstCluster)
      /\ f.Position + want <= f.Size
      /\ f.Position < Len(machine.kernelPlaces) * SECTOR_SIZE => OnPlace(f, machine.kernelPlaces)
  BY Zenon DEF InKernel
<1>2. f.Position \in Nat /\ f.Size \in Int
  BY DEF Typed, IsFile, Handles
<1>3. out' = <<>> /\ want' = Min({n, f.Size - f.Position})
  BY <1>1 DEF Read
<1>4. Len(out') = 0 /\ out' \in Seq(Range(out'))
  BY <1>3
<1>5. file'[walk'.current] = f
  OBVIOUS
<1> HIDE DEF f
<1>6. Min({n, f.Size - f.Position}) = IF n <= f.Size - f.Position THEN n ELSE f.Size - f.Position
  BY <1>2, MinTwo
<1>7. want' \in Nat /\ want' <= n /\ (want' = n \/ f.Position + want' = f.Size)
      /\ f.Position + want' <= f.Size
  BY <1>1, <1>2, <1>3, <1>6
<1>8. From' = f.Position
  BY <1>2, <1>4, <1>5 DEF From
<1>9. InKernel'
  <2>1. f.Position < Len(machine.kernelPlaces) * SECTOR_SIZE
          => OnPlace(file[walk.current], machine.kernelPlaces)'
    BY <1>1, <1>5 DEF OnPlace
  <2>2. Len(out') <= f.Position /\ \A k \in 1 .. Len(out') : FALSE
    BY <1>2, <1>4
  <2> QED BY <1>1, <1>5, <1>7, <2>1, <2>2, Zenon DEF InKernel
<1> QED BY <1>3, <1>4, <1>7, <1>8, <1>9 DEF f

\* The parts that a step of ELF_Read leaves as they are, when it does nothing to the disk.
LEMMA InFileSame ==
    ASSUME machine \in Machines, Good, pc \in InFile, pc' \in InFile,
           machine' = machine, fat' = fat, file' = file, walk' = walk,
           want' \in Nat, out' \in Seq(Range(out')),
           elf' \in [header : {elf'.header}, headers : {elf'.headers}, i : Nat, virtAddress : Int]
    PROVE  Typed' /\ Mounted(fat)' /\ Root' /\ Directory' /\ Walk'
<1>1. Typed /\ Mounted(fat) /\ Root /\ Reading /\ pc # "find" /\ pc' # "find"
  BY DEF Good, InFile, Segments
<1>2. Typed'
  BY <1>1 DEF Typed, IsFile, Handles
<1>3. Walk'
  BY DEF Walk, Opening, InFile, Segments
<1> QED BY <1>1, <1>2, <1>3, MountedThen, RootSame, DirectoryElsewhere

LEMMA ReadsIs ==
    ASSUME NEW here, NEW there, NEW n, Reads(here, there, n)
    PROVE  /\ pc = here /\ want = 0 /\ pc' = there /\ Read(file[walk.current], n)
           /\ machine' = machine /\ fat' = fat /\ file' = file /\ walk' = walk
           /\ regions' = regions /\ unnoticed' = unnoticed
BY Zenon DEF Reads, mapVars

\* A step of ELF_Read in the file of the kernel.
LEMMA InFileStep ==
    ASSUME IInv, pc \in InFile, pc' \in InFile, machine' = machine, walk' = walk,
           regions' = regions, unnoticed' = unnoticed,
           Good => Good'
    PROVE  IInv'
<1>1. pc \in After /\ pc' \in After
  BY DEF After, Going, InFile, Segments
<1>2. Returns' /\ (~unnoticed => Good)
  BY DEF IInv, Returns, Going
<1> QED BY <1>1, <1>2, StaysGoing

LEMMA ShortStep ==
    ASSUME IInv, NEW here, NEW n, Short(here, n)
    PROVE  IInv'
<1>1. machine' = machine /\ pc' = "halt" /\ walk' = walk
  BY Zenon DEF Short, stage2Vars, fileVars
<1> QED BY <1>1, Halts

LEMMA ElfSame ==
    ASSUME Typed, elf' = elf
    PROVE  elf' \in [header : {elf'.header}, headers : {elf'.headers}, i : Nat, virtAddress : Int]
BY DEF Typed

LEMMA ReadsHeaderStep ==
    ASSUME IInv, Reads("header", "gap", 1), UNCHANGED elfVars
    PROVE  IInv'
<1>1. /\ pc = "header" /\ want = 0 /\ pc' = "gap" /\ Read(file[walk.current], 1)
      /\ machine' = machine /\ fat' = fat /\ file' = file /\ walk' = walk
      /\ regions' = regions /\ unnoticed' = unnoticed /\ elf' = elf /\ memory' = memory
  BY ReadsIs, Zenon DEF elfVars
<1>2. pc \in InFile /\ pc' \in InFile /\ machine \in Machines
  BY <1>1 DEF IInv, InFile
<1>3. SUFFICES ASSUME Good PROVE Good'
  BY <1>1, <1>2, InFileStep
<1>4. Typed /\ Reading /\ Segmented
  BY <1>3 DEF Good
<1>5. InKernel /\ walk.current \in Handle /\ From = 0 /\ out = <<>>
  BY <1>1, <1>2, <1>4 DEF Reading
<1>6. /\ out' = <<>> /\ Len(out') = 0 /\ out' \in Seq(Range(out')) /\ want' \in Nat
      /\ InKernel' /\ want' <= 1 /\ From' = file[walk.current].Position
  BY <1>1, <1>2, <1>4, <1>5, KernelReads
<1>7. Typed' /\ Mounted(fat)' /\ Root' /\ Directory' /\ Walk'
  BY <1>1, <1>2, <1>3, <1>4, <1>6, InFileSame, ElfSame
<1>8. Segmented'
  BY <1>1, <1>4, SegmentedSame DEF IsLoading, Opening, Segments
<1>9. Reading'
  <2>1. From' = 0
    <3>1. file[walk.current].Position \in Nat /\ Len(out) = 0
      BY <1>4, <1>5 DEF Typed, IsFile, Handles
    <3>2. file[walk.current].Position = 0
      BY <1>5, <3>1 DEF From
    <3> QED BY <1>6, <3>2
  <2>2. Waits' = 1
    BY <1>1 DEF Waits
  <2> DEFINE w == want'
             n == Len(out')
  <2>3. w \in Nat /\ w <= 1 /\ n = 0
    BY <1>6
  <2> HIDE DEF w, n
  <2>4. n + w <= 1
    BY <2>3
  <2>5. Len(out') + want' <= Waits'
    BY <2>2, <2>4 DEF n, w
  <2> QED BY <1>1, <1>5, <1>6, <2>1, <2>5 DEF Reading, InFile
<1> QED BY <1>7, <1>8, <1>9 DEF Good

\* The header has come: it is the kernel's, and what lies in front of its table is next.
LEMMA ReadsGapStep ==
    ASSUME IInv, pc = "gap", Len(out) = 1,
           Reads("gap", "table", out[1].ProgramHeaderTablePosition - 1),
           elf' = [elf EXCEPT !.header = out[1]], memory' = memory
    PROVE  IInv'
<1> DEFINE n == out[1].ProgramHeaderTablePosition - 1
           f == file[walk.current]
<1>1. /\ pc = "gap" /\ want = 0 /\ pc' = "table" /\ Read(f, n)
      /\ machine' = machine /\ fat' = fat /\ file' = file /\ walk' = walk
      /\ regions' = regions /\ unnoticed' = unnoticed
  BY ReadsIs, Zenon
<1>2. pc \in InFile /\ pc' \in InFile /\ machine \in Machines
  BY <1>1 DEF IInv, InFile
<1>3. SUFFICES ASSUME Good PROVE Good'
  BY <1>1, <1>2, InFileStep
<1>4. Typed /\ Reading /\ Segmented
  BY <1>3 DEF Good
<1>5. InKernel /\ walk.current \in Handle /\ From = 0
  <2>1. ~Missed
    BY <1>1 DEF Missed, Waits
  <2> QED BY <1>1, <1>2, <1>4, <2>1 DEF Reading
<1>6. f.Position = 1 /\ out[1] = machine.kernel[1]
  <2>1. f.Position \in Nat
    BY <1>4, <1>5 DEF Typed, IsFile, Handles
  <2>2. f.Position = 1
    BY <1>5, <2>1 DEF From
  <2>3. \A k \in 1 .. 1 : out[k] = machine.kernel[(f.Position - 1) + k]
    BY <1>5, Zenon DEF InKernel
  <2>4. (f.Position - 1) + 1 = 1 /\ 1 \in 1 .. 1
    BY <2>2
  <2>5. out[1] = machine.kernel[(f.Position - 1) + 1]
    BY <2>3, <2>4
  <2> QED BY <2>2, <2>4, <2>5
<1>7. n \in Nat /\ 1 + n = TableAt
  <2>1. TableAt \in Nat /\ TableAt # 0 /\ out[1].ProgramHeaderTablePosition = TableAt
    BY <1>2, <1>6, KernelIs DEF TableAt
  <2> QED BY <2>1
<1> HIDE DEF n
<1>8. /\ out' = <<>> /\ Len(out') = 0 /\ out' \in Seq(Range(out')) /\ want' \in Nat
      /\ InKernel' /\ want' <= n /\ From' = f.Position
      /\ want' = n \/ f.Position + want' = f.Size
  BY <1>1, <1>2, <1>4, <1>5, <1>7, KernelReads
<1>9. /\ elf' \in [header : {elf'.header}, headers : {elf'.headers}, i : Nat, virtAddress : Int]
      /\ elf'.header = machine.kernel[1] /\ elf'.i = elf.i /\ elf'.headers = elf.headers
  BY <1>4, <1>6 DEF Typed
<1>10. Typed' /\ Mounted(fat)' /\ Root' /\ Directory' /\ Walk'
  BY <1>1, <1>2, <1>3, <1>8, <1>9, InFileSame
<1>11. Segmented'
  <2>1. ~IsLoading /\ ~IsLoading'
    BY <1>1 DEF IsLoading, Opening, Segments
  <2> QED BY <1>1, <1>4, <1>9, <2>1 DEF Segmented
<1>12. Reading'
  <2>1. f.Position + want' \in {TableAt, f.Size}
    BY <1>6, <1>7, <1>8
  <2>2. TableAt' = TableAt
    BY <1>1 DEF TableAt
  <2> QED BY <1>1, <1>5, <1>8, <2>1, <2>2 DEF Reading, InFile
<1> QED BY <1>10, <1>11, <1>12 DEF Good

LEMMA ReadsTableStep ==
    ASSUME IInv, Reads("table", "headers", elf.header.ProgramHeaderTableEntryCount),
           UNCHANGED elfVars
    PROVE  IInv'
<1> DEFINE n == elf.header.ProgramHeaderTableEntryCount
           f == file[walk.current]
<1>1. /\ pc = "table" /\ want = 0 /\ pc' = "headers" /\ Read(f, n)
      /\ machine' = machine /\ fat' = fat /\ file' = file /\ walk' = walk
      /\ regions' = regions /\ unnoticed' = unnoticed /\ elf' = elf /\ memory' = memory
  BY ReadsIs, Zenon DEF elfVars
<1>2. pc \in InFile /\ pc' \in InFile /\ machine \in Machines
  BY <1>1 DEF IInv, InFile
<1>3. SUFFICES ASSUME Good PROVE Good'
  BY <1>1, <1>2, InFileStep
<1>4. Typed /\ Reading /\ Segmented
  BY <1>3 DEF Good
<1>5. InKernel /\ walk.current \in Handle /\ f.Position + want \in {TableAt, f.Size}
  BY <1>1, <1>2, <1>4 DEF Reading
<1>6. n = Count /\ n \in Nat
  BY <1>1, <1>2, <1>4, KernelIs DEF Segmented, Count
<1> HIDE DEF n
<1>7. /\ out' = <<>> /\ Len(out') = 0 /\ out' \in Seq(Range(out')) /\ want' \in Nat
      /\ InKernel' /\ want' <= n /\ From' = f.Position
      /\ want' = n \/ f.Position + want' = f.Size
      /\ f.Position + want' <= f.Size
  <2>1. /\ out' = <<>> /\ Len(out') = 0 /\ out' \in Seq(Range(out')) /\ want' \in Nat
        /\ InKernel' /\ want' <= n /\ From' = f.Position
        /\ want' = n \/ f.Position + want' = f.Size
    BY <1>1, <1>2, <1>4, <1>5, <1>6, KernelReads
  <2>2. f.Position + want' <= f.Size
    BY <1>1, <2>1 DEF InKernel
  <2> QED BY <2>1, <2>2
<1>8. Typed' /\ Mounted(fat)' /\ Root' /\ Directory' /\ Walk'
  BY <1>1, <1>2, <1>3, <1>4, <1>7, InFileSame, ElfSame
<1>9. Segmented'
  BY <1>1, <1>4, SegmentedSame DEF IsLoading, Opening, Segments
<1>10. Reading'
  <2>1. Waits' = n /\ TableAt' = TableAt
    BY <1>1, <1>6 DEF Waits, Count, TableAt
  <2>2. f.Position \in Nat /\ f.Size \in Int
    BY <1>4, <1>5 DEF Typed, IsFile, Handles
  <2> DEFINE w == want'
             t == TableAt
  <2>3. w \in Nat /\ f.Position + w <= f.Size /\ f.Position + 0 \in {t, f.Size}
    BY <1>1, <1>5, <1>7
  <2> HIDE DEF w, t, f
  <2>4. f.Position = t \/ w = 0
    BY <2>2, <2>3
  <2>5. From' = TableAt' \/ Len(out') + want' = 0
    <3>1. w = 0 => Len(out') + w = 0
      BY <1>7
    <3> QED BY <1>7, <2>1, <2>4, <3>1 DEF w, t
  <2>6. Len(out') + want' <= Waits'
    <3> DEFINE m == Len(out')
    <3>1. w <= n /\ m = 0
      BY <1>7 DEF w
    <3> HIDE DEF m
    <3>2. m + w <= n
      BY <1>6, <2>3, <3>1
    <3> QED BY <2>1, <3>2 DEF w, m
  <2> QED BY <1>1, <1>5, <1>7, <2>5, <2>6 DEF Reading, InFile
<1> QED BY <1>8, <1>9, <1>10 DEF Good

LEMMA ReadHeaderStep ==
    ASSUME IInv, ReadHeader
    PROVE  IInv'
<1>1. \/ Reads("header", "gap", 1) /\ UNCHANGED elfVars
      \/ Short("gap", 1)
      \/ /\ pc = "gap" /\ Len(out) = 1
         /\ Reads("gap", "table", out[1].ProgramHeaderTablePosition - 1)
         /\ elf' = [elf EXCEPT !.header = out[1]] /\ memory' = memory
      \/ /\ Reads("table", "headers", elf.header.ProgramHeaderTableEntryCount)
         /\ UNCHANGED elfVars
      \/ Short("headers", elf.header.ProgramHeaderTableEntryCount)
  BY Zenon DEF ReadHeader
<1> QED BY <1>1, ReadsHeaderStep, ShortStep, ReadsGapStep, ReadsTableStep, Zenon

\* The program headers that have come are the kernel's.
LEMMA HeadersCome ==
    ASSUME machine \in Machines, Good, pc = "headers", want = 0,
           Len(out) = elf.header.ProgramHeaderTableEntryCount
    PROVE  /\ walk.current \in Handle /\ Len(out) = Count /\ out \in Seq(HeaderSet)
           /\ \A k \in 1 .. Count : out[k] = Asked(k)
           /\ Range(out) \subseteq machine.headers
<1>1. Typed /\ Reading /\ Segmented
  BY DEF Good
<1>2. Len(out) = Count /\ Count \in Nat
  BY <1>1, KernelIs DEF Segmented, Count
<1>3. walk.current \in Handle /\ InKernel /\ (From = TableAt \/ Len(out) + want = 0)
  <2>1. ~Missed
    <3>1. Waits = Count
      BY DEF Waits
    <3> QED BY <1>2, <3>1 DEF Missed
  <2> QED BY <1>1, <2>1 DEF Reading, InFile
<1>4. \A k \in 1 .. Count : out[k] = Asked(k)
  <2> TAKE k \in 1 .. Count
  <2>1. From = TableAt
    BY <1>2, <1>3
  <2>2. out[k] = machine.kernel[(file[walk.current].Position - Len(out)) + k]
    BY <1>2, <1>3, Zenon DEF InKernel
  <2> QED BY <2>1, <2>2, Zenon DEF From, Asked
<1>5. \A k \in 1 .. Count : Asked(k) \in HeaderSet /\ Asked(k) \in machine.headers
  BY KernelIs
<1>6. out = [k \in 1 .. Count |-> out[k]]
  BY <1>1, <1>2 DEF Typed
<1>7. out \in Seq(HeaderSet)
  <2>1. [k \in 1 .. Count |-> out[k]] \in Seq(HeaderSet)
    BY <1>2, <1>4, <1>5, SeqOver
  <2> QED BY <1>6, <2>1
<1>8. Range(out) \subseteq machine.headers
  <2>1. DOMAIN out = 1 .. Count
    BY <1>6
  <2> QED BY <1>4, <1>5, <2>1 DEF Range
<1> QED BY <1>2, <1>3, <1>4, <1>7, <1>8

LEMMA ReadHeadersStep ==
    ASSUME IInv, ReadHeaders
    PROVE  IInv'
<1>1. /\ pc = "headers" /\ want = 0
      /\ Len(out) = elf.header.ProgramHeaderTableEntryCount
      /\ elf' = [elf EXCEPT !.headers = out]
      /\ file' = FAT_Close
      /\ pc' = IF Range(out) \subseteq machine.headers THEN "segment" ELSE "lost"
      /\ machine' = machine /\ fat' = fat /\ walk' = walk /\ want' = want /\ out' = out
      /\ regions' = regions /\ memory' = memory /\ unnoticed' = unnoticed
  BY Zenon DEF ReadHeaders, mapVars
<1>2. /\ machine \in Machines /\ Returns /\ pc \in After /\ (~unnoticed => Good)
  BY <1>1 DEF IInv, After, Going, InFile
<1>3. Returns'
  BY <1>1, <1>2 DEF Returns
<1>4. ASSUME Good
      PROVE  /\ walk.current \in Handle /\ Len(out) = Count /\ out \in Seq(HeaderSet)
             /\ \A k \in 1 .. Count : out[k] = Asked(k)
             /\ Range(out) \subseteq machine.headers
  BY <1>1, <1>2, <1>4, HeadersCome
<1>5. CASE pc' = "lost"
  <2>1. unnoticed'
    BY <1>1, <1>2, <1>4, <1>5
  <2>2. NeverLost'
    BY <2>1 DEF NeverLost
  <2> QED BY <1>1, <1>3, <1>5, <2>2, Stops
<1>6. CASE pc' = "segment"
  <2>1. SUFFICES ASSUME ~unnoticed' PROVE Good'
    BY <1>1, <1>2, <1>3, <1>6, StaysGoing DEF After, Going
  <2>2. Good
    BY <1>1, <1>2, <2>1
  <2>3. Typed /\ Mounted(fat) /\ Root /\ Walk /\ Segmented
    BY <2>2 DEF Good
  <2>4. /\ walk.current \in Handle /\ Len(out) = Count /\ out \in Seq(HeaderSet)
        /\ \A k \in 1 .. Count : out[k] = Asked(k)
    BY <1>4, <2>2
  <2>5. elf' \in [header : {elf'.header}, headers : {elf'.headers}, i : Nat, virtAddress : Int]
        /\ elf'.headers = out /\ elf'.i = elf.i
    BY <1>1, <2>3 DEF Typed
  <2>6. Typed'
    <3>1. file' = [h \in Handles |-> file'[h]] /\ \A h \in Handles : IsFile(file'[h])
      BY <1>1, <2>3, CloseIs
    <3> QED BY <1>1, <2>3, <2>5, <3>1 DEF Typed, IsFile, Handles
  <2>7. Mounted(fat)' /\ Root'
    BY <1>1, <1>2, <1>6, <2>3, MountedThen, RootClosed
  <2>8. Walk'
    BY <1>1, <1>6 DEF Walk, Opening, InFile, Segments
  <2>9. Segmented'
    <3>1. elf.i = 1 /\ DOMAIN memory = 0 .. MEMORY - 1
      BY <1>1, <2>3 DEF Segmented, IsLoading, Opening, Segments
    <3>2. Count' = Count /\ Count \in Nat /\ \A j : Asked(j)' = Asked(j)
      BY <1>1, <1>2, KernelIs DEF Count, Asked, TableAt
    <3>3. DoneTo(1)'
      BY <3>2 DEF DoneTo
    <3>4. elf'.i \in 1 .. Count' + 1
      BY <2>5, <3>1, <3>2
    <3>5. \A j \in 1 .. Count' : elf'.headers[j] = Asked(j)'
      BY <2>4, <2>5, <3>2
    <3>6. elf'.headers \in Seq(HeaderSet) /\ Len(elf'.headers) = Count'
      BY <2>4, <2>5, <3>2
    <3>7. DoneTo(elf.i)'
      BY <2>5, <3>1, <3>3
    <3>8. IsLoading' /\ elf'.i = 1 /\ DOMAIN memory' = 0 .. MEMORY - 1
      BY <1>1, <1>6, <2>5, <3>1 DEF IsLoading
    <3> QED BY <1>6, <3>4, <3>5, <3>6, <3>7, <3>8, Zenon DEF Segmented
  <2> QED BY <1>6, <2>6, <2>7, <2>8, <2>9, DirectoryElsewhere, ReadingElsewhere
          DEF Good, InFile, Segments
<1> QED BY <1>1, <1>5, <1>6

--------------------------------------------------------------------------------
(* Segments.                                                                  *)

\* Memory that is not written.
LEMMA HoldsOn ==
    ASSUME NEW h, NEW n, Holds(h, n), machine' = machine,
           \A a \in 0 .. h.MemorySize - 1 : memory'[h.VirtualAddress + a] = memory[h.VirtualAddress + a]
    PROVE  \A a \in 0 .. h.MemorySize - 1 :
              memory'[h.VirtualAddress + a] = IF a < n THEN machine.kernel[h.Offset + a + 1] ELSE Zero
BY Zenon DEF Holds

\* Only the i-th segment is written.
LEMMA OthersHold ==
    ASSUME machine \in Machines, DoneTo(elf.i), machine' = machine, elf.i \in 1 .. Count,
           Asked(elf.i).Load,
           \A a \in 0 .. MEMORY - 1 : a < Asked(elf.i).VirtualAddress
                             \/ Asked(elf.i).VirtualAddress + Asked(elf.i).MemorySize <= a
                => memory'[a] = memory[a],
           elf'.i = elf.i
    PROVE  DoneTo(elf.i)'
<1> DEFINE i == elf.i
<1>1. /\ \A j : Asked(j)' = Asked(j)
      /\ Count' = Count /\ Count \in Nat
  BY KernelIs DEF Count, Asked, TableAt
<1>2. ASSUME NEW j \in 1 .. Count, j < i, Asked(j).Load, Small(Asked(j))
      PROVE  \A a \in 0 .. Asked(j).MemorySize - 1 :
                memory'[Asked(j).VirtualAddress + a]
                   = IF a < Asked(j).FileSize THEN machine.kernel[Asked(j).Offset + a + 1] ELSE Zero
  <2> DEFINE h == Asked(j)
             g == Asked(i)
  <2>1. Holds(h, h.FileSize)
    BY <1>2, Zenon DEF DoneTo
  <2>2. h \in HeaderSet /\ g \in HeaderSet /\ i # j
        /\ \/ h.VirtualAddress + h.MemorySize <= g.VirtualAddress
           \/ g.VirtualAddress + g.MemorySize <= h.VirtualAddress
        /\ h.VirtualAddress + h.MemorySize <= MEMORY
    <3>1. i # j
      BY <1>1, <1>2
    <3> QED BY <1>2, <3>1, KernelIs
  <2>3. /\ h.VirtualAddress \in Nat /\ h.MemorySize \in Nat
        /\ g.VirtualAddress \in Nat /\ g.MemorySize \in Nat /\ MEMORY \in Nat
    BY <2>2, BootAssumption DEF HeaderSet
  <2>4. \A a \in 0 .. h.MemorySize - 1 : memory'[h.VirtualAddress + a] = memory[h.VirtualAddress + a]
    <3> TAKE a \in 0 .. h.MemorySize - 1
    <3> DEFINE b == h.VirtualAddress + a
    <3>1. b \in 0 .. MEMORY - 1 /\ (b < g.VirtualAddress \/ g.VirtualAddress + g.MemorySize <= b)
      <4> HIDE DEF h, g
      <4> QED BY <2>2, <2>3
    <3> HIDE DEF b
    <3>2. memory'[b] = memory[b]
      BY <3>1, Zenon
    <3> QED BY <3>2 DEF b
  <2> HIDE DEF h
  <2>5. \A a \in 0 .. h.MemorySize - 1 :
           memory'[h.VirtualAddress + a] = IF a < h.FileSize THEN machine.kernel[h.Offset + a + 1] ELSE Zero
    BY <2>1, <2>4, HoldsOn, Zenon
  <2> QED BY <2>5, Zenon DEF h
<1>3. \A h : Small(h)' <=> Small(h)
  BY DEF Small
<1>4. ASSUME NEW j \in 1 .. Count, j < i, Asked(j).Load, Small(Asked(j))
      PROVE  Holds(Asked(j), Asked(j).FileSize)'
  BY <1>1, <1>2, <1>4, Zenon DEF Holds
<1> QED BY <1>1, <1>3, <1>4, Zenon DEF DoneTo

\* The segments are over: all that the kernel asks for is in memory.
LEMMA SegmentsEnd ==
    ASSUME IInv, pc = "segment", elf.i > Len(elf.headers), pc' = "kernel", machine' = machine,
           walk' = walk, regions' = regions, memory' = memory, unnoticed' = unnoticed
    PROVE  IInv'
<1>1. machine \in Machines /\ MapHanded /\ (~unnoticed => Good) /\ Returns
  BY DEF IInv, Mapped, Going, Opening, InFile
<1>2. MapHanded' /\ Returns'
  BY <1>1 DEF MapHanded, Returns
<1>3. Mapped'
  BY <1>2 DEF Mapped
<1>4. ASSUME ~unnoticed, NEW h \in machine.headers, h.Load, Small(h)
      PROVE  InMemory(h)'
  <2>1. Segmented
    BY <1>1, <1>4 DEF Good
  <2>2. elf.i \in 1 .. Count + 1 /\ Len(elf.headers) = Count /\ DoneTo(elf.i)
    BY <2>1 DEF Segmented, IsLoading
  <2>3. Count \in Nat /\ machine.headers = {Asked(j) : j \in 1 .. Count}
    BY <1>1, KernelIs
  <2>4. PICK j \in 1 .. Count : h = Asked(j)
    BY <1>4, <2>3
  <2>5. j < elf.i
    BY <2>2, <2>3
  <2>6. Holds(h, h.FileSize)
    BY <1>4, <2>2, <2>4, <2>5, Zenon DEF DoneTo
  <2> QED BY <2>6, Zenon DEF Holds, InMemory
<1>5. HandedOver'
  BY <1>2, <1>4, Zenon DEF HandedOver, MapHanded, Small
<1>6. NeverLost'
  BY DEF NeverLost
<1> QED BY <1>1, <1>2, <1>3, <1>5, <1>6
        DEF IInv, Before, Loading, Going, Opening, InFile, Segments

\* A header that asks for nothing.
LEMMA SegmentPasses ==
    ASSUME IInv, pc = "segment", elf.i <= Len(elf.headers), ~Header.Load,
           elf' = [elf EXCEPT !.i = @ + 1], pc' = pc, machine' = machine, walk' = walk,
           want' = want, out' = out, fat' = fat, file' = file,
           regions' = regions, memory' = memory, unnoticed' = unnoticed
    PROVE  IInv'
<1>1. machine \in Machines /\ pc \in After /\ pc' \in After /\ (~unnoticed => Good) /\ Returns'
  BY DEF IInv, After, Returns, Going
<1>2. SUFFICES ASSUME ~unnoticed' PROVE Good'
  BY <1>1, StaysGoing
<1>3. Typed /\ Mounted(fat) /\ Root /\ Segmented
  BY <1>1, <1>2 DEF Good
<1>4. /\ elf'.i = elf.i + 1 /\ elf'.headers = elf.headers
      /\ elf' \in [header : {elf'.header}, headers : {elf'.headers}, i : Nat, virtAddress : Int]
  BY <1>3 DEF Typed
<1>5. Typed'
  BY <1>3, <1>4 DEF Typed, IsFile, Handles
<1>6. Mounted(fat)' /\ Root'
  BY <1>3, MountedThen, RootSame
<1>7. Walk'
  <2>1. want = 0
    BY <1>1, <1>2 DEF Good, Walk, Opening, InFile, Segments
  <2> QED BY <2>1 DEF Walk, Opening, InFile, Segments
<1>8. Segmented'
  <2>1. /\ DOMAIN memory = 0 .. MEMORY - 1 /\ elf.headers \in Seq(HeaderSet)
        /\ Len(elf.headers) = Count /\ elf.i \in 1 .. Count + 1 /\ DoneTo(elf.i)
        /\ \A j \in 1 .. Count : j >= elf.i => elf.headers[j] = Asked(j)
    <3>1. elf.i \in Int /\ Count \in Nat
      BY <1>1, <1>3, KernelIs DEF Typed
    <3>2. \A j \in 1 .. Count : j >= elf.i => j > elf.i \/ j = elf.i
      BY <3>1
    <3> QED BY <1>3, <3>2 DEF Segmented, IsLoading
  <2>2. Count' = Count /\ Count \in Nat /\ \A j : Asked(j)' = Asked(j)
    BY <1>1, KernelIs DEF Count, Asked, TableAt
  <2>3. elf.i \in 1 .. Count /\ ~Asked(elf.i).Load
    <3>1. elf.i \in 1 .. Count
      BY <2>1, <2>2
    <3>2. elf.i >= elf.i
      BY <3>1
    <3>3. elf.headers[elf.i] = Asked(elf.i)
      BY <2>1, <3>1, <3>2
    <3> QED BY <3>1, <3>3 DEF Header
  <2>4. ASSUME NEW j \in 1 .. Count, j < elf.i + 1, Asked(j).Load, Small(Asked(j))
        PROVE  Holds(Asked(j), Asked(j).FileSize)
    <3>1. j < elf.i
      <4>1. j # elf.i
        BY <2>3, <2>4
      <4> QED BY <2>3, <2>4, <4>1
    <3> QED BY <2>1, <2>4, <3>1, Zenon DEF DoneTo
  <2>5. DoneTo(elf.i)'
    BY <1>4, <2>2, <2>4, Zenon DEF DoneTo, Holds, Small
  <2>6. elf'.i \in 1 .. Count' + 1
    BY <1>4, <2>2, <2>3
  <2>7. \A j \in 1 .. Count' : j > elf'.i \/ j = elf'.i => elf'.headers[j] = Asked(j)'
    <3> TAKE j \in 1 .. Count'
    <3> HAVE j > elf'.i \/ j = elf'.i
    <3>1. j >= elf.i /\ j \in 1 .. Count
      BY <1>4, <2>2, <2>3
    <3> QED BY <1>4, <2>1, <2>2, <3>1
  <2>8. IsLoading'
    BY DEF IsLoading
  <2>9. elf'.headers \in Seq(HeaderSet) /\ Len(elf'.headers) = Count' /\ DOMAIN memory' = 0 .. MEMORY - 1
    BY <1>4, <2>1, <2>2
  <2> QED BY <2>5, <2>6, <2>7, <2>8, <2>9, Zenon DEF Segmented
<1> QED BY <1>5, <1>6, <1>7, <1>8, DirectoryElsewhere, ReadingElsewhere
        DEF Good, InFile, Segments

\* A segment's bytes, cleared as far as memset counts.
LEMMA ClearedIs ==
    ASSUME machine \in Machines, NEW i \in 1 .. Count, Asked(i).Load,
           DOMAIN memory = 0 .. MEMORY - 1, memory' = Cleared(Asked(i))
    PROVE  /\ DOMAIN memory' = 0 .. MEMORY - 1
           /\ \A a \in 0 .. MEMORY - 1 : a < Asked(i).VirtualAddress
                             \/ Asked(i).VirtualAddress + Asked(i).MemorySize <= a
                => memory'[a] = memory[a]
           /\ Small(Asked(i)) => \A a \in 0 .. Asked(i).MemorySize - 1 :
                                    memory'[Asked(i).VirtualAddress + a] = Zero
<1> DEFINE h == Asked(i)
           v == h.VirtualAddress
           s == h.MemorySize
           c == s % COUNT_WIDTH
<1>1. /\ v \in Nat /\ s \in Nat /\ v + s <= MEMORY
      /\ MEMORY \in Nat /\ COUNT_WIDTH \in Nat /\ COUNT_WIDTH > 0
  <2>1. h \in HeaderSet /\ v + s <= MEMORY
    BY KernelIs
  <2>2. MEMORY \in Nat
    BY BootAssumption
  <2>3. COUNT_WIDTH \in Nat /\ COUNT_WIDTH > 0
    BY Stage2Assumption
  <2> HIDE DEF h
  <2> QED BY <2>1, <2>2, <2>3 DEF HeaderSet
<1>2. memory' = [a \in 0 .. MEMORY - 1 |-> IF v <= a /\ a < v + c THEN Zero ELSE memory[a]]
  BY DEF Cleared
<1>3. c \in Nat /\ c <= s /\ (Small(h) => c = s)
  <2>1. s < COUNT_WIDTH => c = s
    BY <1>1, Rest
  <2>2. c \in Nat /\ c <= s
    <3>1. c \in 0 .. COUNT_WIDTH - 1
      BY <1>1, Divide
    <3>2. s >= COUNT_WIDTH => c <= s
      BY <1>1, <3>1
    <3> HIDE DEF c, s
    <3> QED BY <1>1, <2>1, <3>1, <3>2
  <2> QED BY <2>1, <2>2 DEF Small
<1> HIDE DEF h, v, s, c
<1>4. DOMAIN memory' = 0 .. MEMORY - 1
  BY <1>2
<1>5. ASSUME NEW a \in 0 .. MEMORY - 1, a < v \/ v + s <= a
      PROVE  memory'[a] = memory[a]
  <2>1. ~(v <= a /\ a < v + c)
    BY <1>1, <1>3, <1>5
  <2> QED BY <1>2, <2>1
<1>6. ASSUME Small(h), NEW a \in 0 .. s - 1
      PROVE  memory'[v + a] = Zero
  <2>1. v <= v + a /\ v + a < v + c /\ v + a \in 0 .. MEMORY - 1
    BY <1>1, <1>3, <1>6
  <2> QED BY <1>2, <2>1
<1> QED BY <1>4, <1>5, <1>6, Zenon DEF h, v, s

LEMMA SegmentBegins ==
    ASSUME IInv, pc = "segment", elf.i <= Len(elf.headers), Header.Load,
           memory' = Cleared(Header), elf' = [elf EXCEPT !.virtAddress = Header.VirtualAddress],
           FAT_Open("seek"), machine' = machine, fat' = fat, file' = file,
           regions' = regions, unnoticed' = unnoticed
    PROVE  IInv'
<1>1. /\ machine \in Machines /\ Returns /\ pc \in After /\ (~unnoticed => Good)
  BY DEF IInv, After, Going
<1>2. pc' = "find" /\ walk'.then = "seek" /\ Returns'
  BY <1>1 DEF FAT_Open, Returns
<1>3. SUFFICES ASSUME ~unnoticed' PROVE Good'
  BY <1>1, <1>2, StaysGoing DEF After, Going, Opening
<1>4. Typed /\ Mounted(fat) /\ Root /\ Directory /\ Walk /\ Reading /\ Segmented
  BY <1>1, <1>3 DEF Good
<1>5. /\ want' \in {0, 1} /\ out' = <<>> /\ Len(out') = 0 /\ out' \in Seq(Range(out'))
      /\ Root' /\ Walk' /\ walk'.current = ROOT_DIRECTORY_HANDLE /\ walk'.depth \in 0 .. 2
  BY <1>1, <1>4, OpensRoot DEF Opening
<1>0. PICK h : h = Asked(elf.i)
  OBVIOUS
<1>6. /\ DOMAIN memory = 0 .. MEMORY - 1 /\ elf.headers \in Seq(HeaderSet)
      /\ Len(elf.headers) = Count /\ elf.i \in 1 .. Count /\ DoneTo(elf.i)
      /\ \A j \in 1 .. Count : j > elf.i => elf.headers[j] = Asked(j)
      /\ Header = h
  <2>1. /\ DOMAIN memory = 0 .. MEMORY - 1 /\ elf.headers \in Seq(HeaderSet)
        /\ Len(elf.headers) = Count /\ elf.i \in 1 .. Count + 1 /\ DoneTo(elf.i)
        /\ \A j \in 1 .. Count : j > elf.i \/ j = elf.i => elf.headers[j] = Asked(j)
    BY <1>4 DEF Segmented, IsLoading
  <2>2. elf.i \in 1 .. Count
    BY <1>1, <2>1, KernelIs
  <2>3. Header = h
    BY <1>0, <2>1, <2>2 DEF Header
  <2> QED BY <2>1, <2>2, <2>3
<1>7. /\ elf'.i = elf.i /\ elf'.headers = elf.headers /\ elf'.virtAddress = h.VirtualAddress
      /\ elf' \in [header : {elf'.header}, headers : {elf'.headers}, i : Nat, virtAddress : Int]
  <2>1. h.VirtualAddress \in Int
    BY <1>0, <1>1, <1>6, KernelIs DEF HeaderSet
  <2> QED BY <1>4, <1>6, <2>1 DEF Typed
<1>8. Typed'
  <2>1. want' \in Nat
    BY <1>5
  <2>2. file = [k \in Handles |-> file[k]] /\ \A k \in Handles : IsFile(file[k])
    BY <1>4, Zenon DEF Typed
  <2>3. \A k \in Handles : IsFile(file[k])'
    BY <2>2 DEF IsFile, Handles
  <2>4. ROOT_DIRECTORY_HANDLE \in Handles /\ Handles' = Handles
    BY DEF Handles, Handle
  <2> QED BY <1>5, <1>7, <2>1, <2>2, <2>3, <2>4, Zenon DEF Typed
<1>9. /\ h.Load /\ h \in HeaderSet
      /\ DOMAIN memory' = 0 .. MEMORY - 1
      /\ \A a \in 0 .. MEMORY - 1 : a < h.VirtualAddress \/ h.VirtualAddress + h.MemorySize <= a
             => memory'[a] = memory[a]
      /\ Small(h) => \A a \in 0 .. h.MemorySize - 1 : memory'[h.VirtualAddress + a] = Zero
  <2>1. h.Load /\ h \in HeaderSet /\ memory' = Cleared(h)
    BY <1>0, <1>1, <1>6, KernelIs
  <2> QED BY <1>0, <1>1, <1>6, <2>1, ClearedIs
<1>10. Count' = Count /\ Count \in Nat /\ \A j : Asked(j)' = Asked(j)
  BY <1>1, KernelIs DEF Count, Asked, TableAt
<1>11. DoneTo(elf.i)'
  BY <1>0, <1>1, <1>6, <1>7, <1>9, OthersHold
<1>12. Now'
  <2>1. Asked(elf.i)' = h /\ Header' = h
    BY <1>0, <1>6, <1>7, <1>10 DEF Header
  <2>2. h.FileSize \in Nat /\ h.Offset \in Nat /\ h.VirtualAddress \in Nat
    BY <1>9 DEF HeaderSet
  <2>3. Loaded' = 0
    BY <2>1, <2>2 DEF Loaded
  <2>4. Small(h) => Holds(h, 0)'
    <3>1. \A a \in 0 .. h.MemorySize - 1 : ~(a < 0)
      BY <1>9 DEF HeaderSet
    <3> QED BY <1>9, <3>1, Zenon DEF Holds
  <2>5. elf'.virtAddress = h.VirtualAddress + 0
    BY <1>7, <2>2
  <2>6. h = [h EXCEPT !.Offset = h.Offset, !.FileSize = h.FileSize]
    BY <1>9 DEF HeaderSet
  <2>7. elf'.i <= Count'
    BY <1>6, <1>7, <1>10
  <2>8. h.Offset <= h.Offset /\ h.FileSize <= h.FileSize /\ ~(h.FileSize < h.FileSize)
    BY <2>2
  <2>9. ~(pc' \in Opening) \/ Header' = h
    BY <2>1
  <2> QED BY <1>7, <1>9, <2>1, <2>3, <2>4, <2>5, <2>6, <2>7, <2>8, <2>9 DEF Now, Small
<1>13. Segmented'
  <2>1. IsLoading' /\ pc' # "segment" /\ ~(pc' \in {"table", "headers"})
    BY <1>2 DEF IsLoading, Opening
  <2>2. elf'.i \in 1 .. Count' + 1
    BY <1>6, <1>7, <1>10
  <2>3. \A j \in 1 .. Count' : j > elf'.i => elf'.headers[j] = Asked(j)'
    BY <1>6, <1>7, <1>10
  <2>4. elf'.headers \in Seq(HeaderSet) /\ Len(elf'.headers) = Count'
    BY <1>6, <1>7, <1>10
  <2> QED BY <1>9, <1>11, <1>12, <2>1, <2>2, <2>3, <2>4, Zenon DEF Segmented
<1>14. Mounted(fat)'
  BY <1>4, MountedThen
<1> QED BY <1>2, <1>5, <1>8, <1>13, <1>14, DirectoryElsewhere, ReadingElsewhere
        DEF Good, InFile, Segments

LEMMA SegmentStep ==
    ASSUME IInv, Segment
    PROVE  IInv'
<1>1. /\ pc = "segment" /\ machine' = machine /\ fat' = fat /\ file' = file
      /\ regions' = regions /\ unnoticed' = unnoticed
      /\ \/ /\ elf.i > Len(elf.headers) /\ pc' = "kernel" /\ walk' = walk /\ memory' = memory
         \/ /\ elf.i <= Len(elf.headers) /\ ~Header.Load
            /\ elf' = [elf EXCEPT !.i = @ + 1]
            /\ pc' = pc /\ walk' = walk /\ want' = want /\ out' = out /\ memory' = memory
         \/ /\ elf.i <= Len(elf.headers) /\ Header.Load
            /\ memory' = Cleared(Header)
            /\ elf' = [elf EXCEPT !.virtAddress = Header.VirtualAddress]
            /\ FAT_Open("seek")
  BY Zenon DEF Segment, mapVars, elfVars
<1> QED BY <1>1, SegmentsEnd, SegmentPasses, SegmentBegins, Zenon

\* The next read of a segment.
LEMMA SegmentReads ==
    ASSUME IInv, NEW there \in {"sought", "loaded"}, NEW n, Reads("seek", there, n),
           elf' = elf, memory' = memory,
           there = "sought" => n = Min({Header.Offset, MEMORY_LOAD_SIZE}) /\ Header.Offset > 0,
           there = "loaded" => /\ n = Min({Header.FileSize, MEMORY_LOAD_SIZE})
                               /\ Header.Offset = 0 /\ Header.FileSize > 0
    PROVE  IInv'
<1> DEFINE f == file[walk.current]
<1>1. /\ pc = "seek" /\ want = 0 /\ pc' = there /\ Read(f, n)
      /\ machine' = machine /\ fat' = fat /\ file' = file /\ walk' = walk
      /\ regions' = regions /\ unnoticed' = unnoticed
  BY ReadsIs, Zenon
<1>2. pc \in InFile /\ pc' \in InFile /\ machine \in Machines
  BY <1>1 DEF IInv, InFile, Segments
<1>3. SUFFICES ASSUME Good PROVE Good'
  BY <1>1, <1>2, InFileStep
<1>4. Typed /\ Reading /\ Segmented
  BY <1>3 DEF Good
<1>5. InKernel /\ walk.current \in Handle /\ f.Position = Sought + Loaded
  BY <1>1, <1>2, <1>4 DEF Reading
<1>6. n \in Nat
  <2>1. Header.Offset \in Nat /\ Header.FileSize \in Nat /\ MEMORY_LOAD_SIZE \in Nat
    BY <1>1, <1>4, HeaderIs, Stage2Assumption DEF IsLoading, Segments
  <2>2. Min({Header.Offset, MEMORY_LOAD_SIZE}) \in Nat /\ Min({Header.FileSize, MEMORY_LOAD_SIZE}) \in Nat
    BY <2>1, MinTwo
  <2> QED BY <2>2
<1>7. /\ out' = <<>> /\ Len(out') = 0 /\ out' \in Seq(Range(out')) /\ want' \in Nat
      /\ InKernel' /\ want' <= n /\ From' = f.Position
  BY <1>1, <1>2, <1>4, <1>5, <1>6, KernelReads
<1>8. Typed' /\ Mounted(fat)' /\ Root' /\ Directory' /\ Walk'
  BY <1>1, <1>2, <1>3, <1>4, <1>7, InFileSame, ElfSame
<1>9. Segmented'
  BY <1>1, <1>4, SegmentedSame DEF IsLoading, Opening, Segments
<1>10. Reading'
  <2>1. Header' = Header /\ Sought' = Sought /\ Loaded' = Loaded
    BY <1>1 DEF Header, Sought, Loaded, Asked, TableAt
  <2>2. Waits' = n
    BY <1>1, <2>1 DEF Waits
  <2> DEFINE w == want'
             m == Len(out')
  <2>3. w \in Nat /\ w <= n /\ m = 0
    BY <1>7
  <2> HIDE DEF w, m
  <2>4. m + w <= n
    BY <1>6, <2>3
  <2>5. Len(out') + want' <= Waits'
    BY <2>2, <2>4 DEF w, m
  <2> QED BY <1>1, <1>5, <1>7, <2>1, <2>5 DEF Reading, InFile
<1> QED BY <1>8, <1>9, <1>10 DEF Good

\* The header of the segment when some of it has been passed or loaded.
LEMMA HeaderMoves ==
    ASSUME machine \in Machines, Segmented, pc \in Segments, pc' \in Segments, machine' = machine,
           NEW h, h = Asked(elf.i),
           NEW g \in HeaderSet, elf'.headers = [elf.headers EXCEPT ![elf.i] = g], elf'.i = elf.i,
           g = [h EXCEPT !.Offset = g.Offset, !.FileSize = g.FileSize],
           g.Offset <= Header.Offset, g.FileSize <= Header.FileSize,
           g.FileSize < h.FileSize => g.Offset = 0,
           elf'.virtAddress = h.VirtualAddress + (h.FileSize - g.FileSize),
           Small(h) => Holds(h, h.FileSize - g.FileSize)',
           DOMAIN memory' = 0 .. MEMORY - 1, DoneTo(elf.i)'
    PROVE  Segmented' /\ Header' = g
<1>1. h = Asked(elf.i)
  OBVIOUS
<1>2. IsLoading /\ IsLoading' /\ pc # "segment" /\ pc' # "segment" /\ pc' \notin Opening
      /\ pc' \notin {"table", "headers"}
  BY DEF IsLoading, Segments, Opening
<1>3. /\ elf.headers \in Seq(HeaderSet) /\ Len(elf.headers) = Count
      /\ elf.i \in 1 .. Count + 1
      /\ \A j \in 1 .. Count : j > elf.i => elf.headers[j] = Asked(j)
      /\ Now
  BY <1>2 DEF Segmented
<1>4. /\ elf.i \in 1 .. Count /\ Header \in HeaderSet /\ Count \in Nat
      /\ h \in HeaderSet /\ h.Load
      /\ Header.Offset <= h.Offset /\ Header.FileSize <= h.FileSize
  <2>1. Header \in HeaderSet /\ elf.i \in 1 .. Count
    BY <1>2, HeaderIs
  <2>2. h \in HeaderSet /\ Count \in Nat
    BY <1>1, <2>1, KernelIs
  <2> QED BY <1>1, <1>3, <2>1, <2>2 DEF Now
<1>5. Count' = Count /\ \A j : Asked(j)' = Asked(j)
  BY DEF Count, Asked, TableAt
<1>6. /\ elf'.headers \in Seq(HeaderSet) /\ Len(elf'.headers) = Count
      /\ elf'.headers[elf.i] = g
      /\ \A j \in 1 .. Count : j # elf.i => elf'.headers[j] = elf.headers[j]
  BY <1>3, <1>4
<1>7. Header' = g
  BY <1>6 DEF Header
<1>8. Asked(elf.i)' = h
  BY <1>1, <1>5
<1>9. g.Offset <= h.Offset /\ g.FileSize <= h.FileSize
  <2>1. /\ g.Offset \in Nat /\ g.FileSize \in Nat /\ h.Offset \in Nat /\ h.FileSize \in Nat
        /\ Header.Offset \in Nat /\ Header.FileSize \in Nat
    BY <1>4 DEF HeaderSet
  <2> QED BY <1>4, <2>1
<1>10. Now'
  <2>1. elf'.i <= Count'
    BY <1>4, <1>5
  <2>2. Loaded' = h.FileSize - g.FileSize
    BY <1>7, <1>8 DEF Loaded
  <2> QED BY <1>1, <1>2, <1>4, <1>7, <1>8, <1>9, <2>1, <2>2 DEF Now, Small
<1>11. \A j \in 1 .. Count' : j > elf'.i => elf'.headers[j] = Asked(j)'
  <2> TAKE j \in 1 .. Count'
  <2> HAVE j > elf'.i
  <2>1. j \in 1 .. Count /\ j # elf.i /\ j > elf.i
    BY <1>4, <1>5
  <2> QED BY <1>3, <1>5, <1>6, <2>1
<1>12. elf'.i \in 1 .. Count' + 1 /\ Len(elf'.headers) = Count'
  BY <1>3, <1>5, <1>6
<1>13. DoneTo(elf.i)'
  OBVIOUS
<1>14. Segmented'
  BY <1>2, <1>6, <1>10, <1>11, <1>12, <1>13, Zenon DEF Segmented
<1> QED BY <1>7, <1>14

\* What a read of a segment waits for has come.
LEMMA SegmentCome ==
    ASSUME machine \in Machines, Good, pc \in {"sought", "loaded"}, want = 0, Len(out) = Waits
    PROVE  /\ walk.current \in Handle /\ InKernel /\ From = Sought + Loaded
           /\ Len(out) \in Nat /\ file[walk.current].Position \in Nat
           /\ pc = "sought" => Header.Offset > 0
           /\ pc = "loaded" => Header.Offset = 0 /\ Header.FileSize > 0
<1>1. Typed /\ Reading /\ Segmented
  BY DEF Good
<1>2. ~Missed
  <2>1. Waits \in Nat
    BY <1>1, WaitsIs
  <2> QED BY <2>1 DEF Missed
<1>3. pc \in InFile
  BY DEF InFile, Segments
<1>4. out \in Seq(Range(out)) /\ \A h \in Handles : IsFile(file[h])
  BY <1>1, Zenon DEF Typed
<1>5. Len(out) \in Nat
  BY <1>4, LenProperties
<1>6. file[walk.current].Position \in Nat
  BY <1>1, <1>3, <1>4 DEF Reading, IsFile, Handles
<1> QED BY <1>1, <1>2, <1>3, <1>5, <1>6 DEF Reading

\* Some of what lies in front of the segment has been passed.
LEMMA SoughtStep ==
    ASSUME IInv, NEW n, n = Min({Header.Offset, MEMORY_LOAD_SIZE}),
           pc = "sought", want = 0, Len(out) = n,
           elf' = [elf EXCEPT !.headers[elf.i].Offset = @ - n], pc' = "seek",
           machine' = machine, fat' = fat, file' = file, walk' = walk, want' = want, out' = out,
           regions' = regions, memory' = memory, unnoticed' = unnoticed
    PROVE  IInv'
<1>1. pc \in InFile /\ pc' \in InFile /\ machine \in Machines /\ pc \in Segments /\ pc' \in Segments
  BY DEF IInv, InFile, Segments
<1>2. SUFFICES ASSUME Good PROVE Good'
  BY <1>1, InFileStep
<1>3. Typed /\ Segmented
  BY <1>2 DEF Good
<1>4. /\ walk.current \in Handle /\ InKernel /\ From = Sought + Loaded
      /\ Len(out) \in Nat /\ file[walk.current].Position \in Nat /\ Header.Offset > 0
  BY <1>1, <1>2, SegmentCome DEF Waits
<1>5. PICK h : h = Asked(elf.i)
  OBVIOUS
<1>6. /\ Header \in HeaderSet /\ elf.i \in 1 .. Count /\ Now
      /\ elf.headers \in Seq(HeaderSet) /\ Len(elf.headers) = Count /\ Count \in Nat
      /\ DOMAIN memory = 0 .. MEMORY - 1 /\ DoneTo(elf.i) /\ h \in HeaderSet
  <2>1. IsLoading /\ pc # "segment"
    BY DEF IsLoading, Segments
  <2>2. Header \in HeaderSet /\ elf.i \in 1 .. Count
    BY <1>3, <2>1, HeaderIs
  <2>3. h \in HeaderSet /\ Count \in Nat
    BY <1>1, <1>5, <2>2, KernelIs
  <2> QED BY <1>3, <2>1, <2>2, <2>3 DEF Segmented
<1>7. /\ h.Offset \in Nat /\ h.FileSize \in Nat /\ h.VirtualAddress \in Nat
      /\ Header.Offset \in Nat /\ Header.FileSize \in Nat
      /\ Header.Offset <= h.Offset /\ Header.FileSize <= h.FileSize
      /\ Header = [h EXCEPT !.Offset = Header.Offset, !.FileSize = Header.FileSize]
      /\ Header.FileSize = h.FileSize
      /\ elf.virtAddress = h.VirtualAddress + (h.FileSize - Header.FileSize)
      /\ Small(h) => Holds(h, h.FileSize - Header.FileSize)
  <2>1. /\ h.Offset \in Nat /\ h.FileSize \in Nat /\ h.VirtualAddress \in Nat
        /\ Header.Offset \in Nat /\ Header.FileSize \in Nat
    BY <1>6 DEF HeaderSet
  <2>2. /\ Header.Offset <= h.Offset /\ Header.FileSize <= h.FileSize
        /\ Header = [h EXCEPT !.Offset = Header.Offset, !.FileSize = Header.FileSize]
        /\ Header.FileSize < h.FileSize => Header.Offset = 0
        /\ elf.virtAddress = h.VirtualAddress + (h.FileSize - Header.FileSize)
        /\ Small(h) => Holds(h, h.FileSize - Header.FileSize)
    BY <1>5, <1>6, Zenon DEF Now, Loaded
  <2>3. Header.FileSize = h.FileSize
    BY <1>4, <2>1, <2>2
  <2> QED BY <2>1, <2>2, <2>3
<1>8. n \in Nat /\ n <= Header.Offset
  <2>1. MEMORY_LOAD_SIZE \in Nat
    BY Stage2Assumption
  <2>2. Header.Offset \in Int /\ MEMORY_LOAD_SIZE \in Int
    BY <1>7, <2>1
  <2>3. n = IF Header.Offset <= MEMORY_LOAD_SIZE THEN Header.Offset ELSE MEMORY_LOAD_SIZE
    BY <2>2, MinTwo
  <2> DEFINE o == Header.Offset
             l == MEMORY_LOAD_SIZE
  <2>4. o \in Nat /\ l \in Nat /\ n = IF o <= l THEN o ELSE l
    BY <1>7, <2>1, <2>3
  <2> HIDE DEF o, l
  <2>5. n \in Nat /\ n <= o
    BY <2>4
  <2> QED BY <2>5 DEF o
<1>9. PICK g : g = [Header EXCEPT !.Offset = @ - n]
  OBVIOUS
<1>10. /\ g \in HeaderSet /\ g.Offset = Header.Offset - n /\ g.FileSize = Header.FileSize
       /\ g = [h EXCEPT !.Offset = g.Offset, !.FileSize = g.FileSize]
       /\ g.Offset <= Header.Offset
  <2>1. Header.Offset - n \in Nat /\ Header.Offset - n <= Header.Offset
    BY <1>7, <1>8
  <2>2. g.Offset = Header.Offset - n /\ g.FileSize = Header.FileSize /\ g \in HeaderSet
    BY <1>6, <1>9, <2>1 DEF HeaderSet
  <2>3. g = [h EXCEPT !.Offset = g.Offset, !.FileSize = g.FileSize]
    BY <1>6, <1>7, <1>9, <2>2 DEF HeaderSet
  <2> QED BY <2>1, <2>2, <2>3
<1>11. /\ elf'.headers = [elf.headers EXCEPT ![elf.i] = g] /\ elf'.i = elf.i
       /\ elf'.virtAddress = elf.virtAddress
       /\ elf' \in [header : {elf'.header}, headers : {elf'.headers}, i : Nat, virtAddress : Int]
  <2>1. elf' = [elf EXCEPT !.headers = [elf.headers EXCEPT ![elf.i] = g]]
    BY <1>3, <1>6, <1>9 DEF Typed, Header
  <2> QED BY <1>3, <2>1 DEF Typed
<1>12. DoneTo(elf.i)'
  <2>1. Count' = Count /\ \A j : Asked(j)' = Asked(j)
    BY DEF Count, Asked, TableAt
  <2>2. \A x : DoneTo(x)' <=> DoneTo(x)
    BY <2>1, ZenonT(40) DEF DoneTo, Holds, Small
  <2> QED BY <1>6, <1>11, <2>2, Zenon
<1>13. Small(h) => Holds(h, h.FileSize - g.FileSize)'
  BY <1>7, <1>10, Zenon DEF Holds
<1>14. Segmented' /\ Header' = g
  <2>1. g.FileSize <= Header.FileSize /\ ~(g.FileSize < h.FileSize)
    BY <1>7, <1>10
  <2>2. elf'.virtAddress = h.VirtualAddress + (h.FileSize - g.FileSize)
    BY <1>7, <1>10, <1>11
  <2> QED BY <1>1, <1>3, <1>5, <1>6, <1>10, <1>11, <1>12, <1>13, <2>1, <2>2, HeaderMoves
<1>15. Typed' /\ Mounted(fat)' /\ Root' /\ Directory' /\ Walk'
  <2>1. want' \in Nat /\ out' \in Seq(Range(out'))
    BY <1>3 DEF Typed
  <2> QED BY <1>1, <1>2, <1>11, <2>1, InFileSame
<1>16. InKernel'
  BY <1>4 DEF InKernel, OnPlace
<1>17. file'[walk'.current].Position = Sought' + Loaded'
  <2>1. Sought' = h.Offset - g.Offset /\ Loaded' = h.FileSize - g.FileSize
    <3>1. Asked(elf.i)' = h
      BY <1>5, <1>11 DEF Asked, TableAt
    <3> QED BY <1>14, <3>1 DEF Sought, Loaded
  <2>2. Sought = h.Offset - Header.Offset /\ Loaded = h.FileSize - Header.FileSize
    BY <1>5 DEF Sought, Loaded
  <2>3. file[walk.current].Position - n = Sought + Loaded
    BY <1>4 DEF From
  <2>4. /\ h.Offset \in Nat /\ h.FileSize \in Nat /\ Header.Offset \in Nat
        /\ g.Offset = Header.Offset - n /\ g.FileSize = Header.FileSize
    BY <1>7, <1>10
  <2> DEFINE p == file[walk.current].Position
             o == Header.Offset
             l == Header.FileSize
             a == h.Offset
             b == h.FileSize
  <2>5. p \in Nat /\ o \in Nat /\ l \in Nat /\ n \in Nat /\ a \in Nat /\ b \in Nat
        /\ p - n = (a - o) + (b - l)
    BY <1>4, <1>7, <1>8, <2>2, <2>3
  <2> HIDE DEF p, o, l, a, b
  <2>6. p = (a - (o - n)) + (b - l)
    BY <2>5
  <2> QED BY <2>1, <2>4, <2>6 DEF p, o, l, a, b
<1>18. Reading'
  BY <1>1, <1>4, <1>16, <1>17 DEF Reading
<1> QED BY <1>14, <1>15, <1>18 DEF Good

LEMMA SeekStep ==
    ASSUME IInv, Seek
    PROVE  IInv'
<1> DEFINE n == Min({Header.Offset, MEMORY_LOAD_SIZE})
<1>1. \/ Reads("seek", "sought", n) /\ Header.Offset > 0 /\ UNCHANGED elfVars
      \/ Short("sought", n)
      \/ /\ pc = "sought" /\ want = 0 /\ Len(out) = n
         /\ elf' = [elf EXCEPT !.headers[elf.i].Offset = @ - n]
         /\ pc' = "seek"
         /\ UNCHANGED <<machine, partition_entry, fat, fileVars, mapVars, memory, failed, unnoticed>>
  BY Zenon DEF Seek
<1>2. CASE Reads("seek", "sought", n) /\ Header.Offset > 0 /\ UNCHANGED elfVars
  <2>1. elf' = elf /\ memory' = memory
    BY <1>2 DEF elfVars
  <2> QED BY <1>2, <2>1, SegmentReads
<1>3. CASE Short("sought", n)
  BY <1>3, ShortStep
<1>4. CASE /\ pc = "sought" /\ want = 0 /\ Len(out) = n
           /\ elf' = [elf EXCEPT !.headers[elf.i].Offset = @ - n]
           /\ pc' = "seek"
           /\ UNCHANGED <<machine, partition_entry, fat, fileVars, mapVars, memory, failed, unnoticed>>
  <2>1. file' = file /\ walk' = walk /\ want' = want /\ out' = out /\ regions' = regions
    BY <1>4, Zenon DEF fileVars, mapVars
  <2> HIDE DEF n
  <2>2. n = Min({Header.Offset, MEMORY_LOAD_SIZE})
    BY DEF n
  <2> QED BY <1>4, <2>1, <2>2, SoughtStep
<1> QED BY <1>1, <1>2, <1>3, <1>4, Zenon

\* What has come is copied behind what is loaded, as far as memcpy counts.
LEMMA CopiedIs ==
    ASSUME machine \in Machines, machine' = machine, NEW i \in 1 .. Count,
           NEW h, h = Asked(i), h.Load, DOMAIN memory = 0 .. MEMORY - 1,
           NEW l \in Nat, NEW n \in Nat, Len(out) = n, l + n <= h.FileSize,
           Small(h) => Holds(h, l),
           \A k \in 1 .. n : out[k] = machine.kernel[(h.Offset + l) + k],
           memory' = Copied(h.VirtualAddress + l, out)
    PROVE  /\ DOMAIN memory' = 0 .. MEMORY - 1
           /\ \A a \in 0 .. MEMORY - 1 :
                 a < h.VirtualAddress \/ h.VirtualAddress + h.MemorySize <= a
                    => memory'[a] = memory[a]
           /\ Small(h) => Holds(h, l + n)'
<1> DEFINE v == h.VirtualAddress
           s == h.MemorySize
           o == h.Offset
           c == n % COUNT_WIDTH
<1>1. /\ v \in Nat /\ s \in Nat /\ v + s <= MEMORY /\ h.FileSize \in Nat /\ h.FileSize <= s
      /\ o \in Nat /\ MEMORY \in Nat /\ COUNT_WIDTH \in Nat /\ COUNT_WIDTH > 0
  <2>1. h \in HeaderSet /\ v + s <= MEMORY /\ h.FileSize <= s
    BY KernelIs
  <2>2. MEMORY \in Nat
    BY BootAssumption
  <2>3. COUNT_WIDTH \in Nat /\ COUNT_WIDTH > 0
    BY Stage2Assumption
  <2> QED BY <2>1, <2>2, <2>3 DEF HeaderSet
<1>2. memory' = [a \in 0 .. MEMORY - 1 |->
                    IF v + l <= a /\ a < v + l + c THEN out[a - (v + l) + 1] ELSE memory[a]]
  BY DEF Copied
<1>3. c \in Nat /\ c <= n /\ (Small(h) => c = n)
  <2>1. n < COUNT_WIDTH => c = n
    BY <1>1, Rest
  <2>2. c \in Nat /\ c <= n
    <3>1. c \in 0 .. COUNT_WIDTH - 1
      BY <1>1, Divide
    <3>2. n >= COUNT_WIDTH => c <= n
      BY <1>1, <3>1
    <3> HIDE DEF c
    <3> QED BY <1>1, <2>1, <3>1, <3>2
  <2>3. Small(h) => n < COUNT_WIDTH
    BY <1>1 DEF Small
  <2> QED BY <2>1, <2>2, <2>3
<1>4. l + n <= s
  BY <1>1
<1> HIDE DEF v, s, c, o
<1>5. ASSUME NEW a \in 0 .. MEMORY - 1, a < v \/ v + s <= a
      PROVE  memory'[a] = memory[a]
  <2>1. ~(v + l <= a /\ a < v + l + c)
    BY <1>1, <1>3, <1>4, <1>5
  <2> QED BY <1>2, <2>1
<1>6. ASSUME Small(h), NEW a \in 0 .. s - 1
      PROVE  memory'[v + a] = IF a < l + n THEN machine.kernel[o + a + 1] ELSE Zero
  <2>1. v + a \in 0 .. MEMORY - 1
    BY <1>1
  <2>2. memory[v + a] = IF a < l THEN machine.kernel[o + a + 1] ELSE Zero
    <3>1. Holds(h, l)
      BY <1>6
    <3> QED BY <3>1 DEF Holds, v, s, o
  <2>3. CASE a < l
    <3>1. ~(v + l <= v + a) /\ a < l + n
      BY <1>1, <2>3
    <3>2. memory'[v + a] = memory[v + a]
      BY <1>2, <2>1, <3>1
    <3> QED BY <2>2, <2>3, <3>1, <3>2
  <2>4. CASE a >= l /\ a < l + n
    <3>1. v + l <= v + a /\ v + a < v + l + c /\ (v + a) - (v + l) + 1 = (a - l) + 1
      <4>1. c = n /\ v \in Nat /\ a \in Nat
        BY <1>1, <1>3, <1>6
      <4> QED BY <2>4, <4>1
    <3>2. memory'[v + a] = out[(a - l) + 1]
      BY <1>2, <2>1, <3>1
    <3>3. (a - l) + 1 \in 1 .. n /\ (o + l) + ((a - l) + 1) = o + a + 1
      BY <1>1, <2>4
    <3>4. \A k \in 1 .. n : out[k] = machine.kernel[(o + l) + k]
      BY DEF o
    <3> QED BY <2>4, <3>2, <3>3, <3>4
  <2>5. CASE a >= l + n
    <3>1. ~(v + a < v + l + c) /\ ~(a < l) /\ ~(a < l + n)
      <4>1. c = n /\ v \in Nat /\ a \in Nat /\ a >= l + n
        BY <1>1, <1>3, <1>6, <2>5
      <4> QED BY <4>1
    <3>2. memory'[v + a] = memory[v + a]
      BY <1>2, <2>1, <3>1
    <3> QED BY <2>2, <3>1, <3>2
  <2>6. a < l \/ (a >= l /\ a < l + n) \/ a >= l + n
    BY <1>1
  <2> QED BY <2>3, <2>4, <2>5, <2>6
<1>7. Small(h) => Holds(h, l + n)'
  BY <1>6, Zenon DEF Holds, v, s, o
<1>8. DOMAIN memory' = 0 .. MEMORY - 1
  BY <1>2
<1> QED BY <1>5, <1>7, <1>8, Zenon DEF v, s

\* Some of the segment has come and is put into memory.
LEMMA LoadedStep ==
    ASSUME IInv, NEW n, n = Min({Header.FileSize, MEMORY_LOAD_SIZE}),
           pc = "loaded", want = 0, Len(out) = n, memory' = Copied(elf.virtAddress, out),
           elf' = [elf EXCEPT !.headers[elf.i].FileSize = @ - n, !.virtAddress = @ + n],
           pc' = "seek",
           machine' = machine, fat' = fat, file' = file, walk' = walk, want' = want, out' = out,
           regions' = regions, unnoticed' = unnoticed
    PROVE  IInv'
<1>1. pc \in InFile /\ pc' \in InFile /\ machine \in Machines /\ pc \in Segments /\ pc' \in Segments
  BY DEF IInv, InFile, Segments
<1>2. SUFFICES ASSUME Good PROVE Good'
  BY <1>1, InFileStep
<1>3. Typed /\ Segmented
  BY <1>2 DEF Good
<1>4. /\ walk.current \in Handle /\ InKernel /\ From = Sought + Loaded
      /\ Len(out) \in Nat /\ file[walk.current].Position \in Nat
      /\ Header.Offset = 0 /\ Header.FileSize > 0
  BY <1>1, <1>2, SegmentCome DEF Waits
<1>5. PICK h : h = Asked(elf.i)
  OBVIOUS
<1>6. /\ Header \in HeaderSet /\ elf.i \in 1 .. Count /\ Now
      /\ elf.headers \in Seq(HeaderSet) /\ Len(elf.headers) = Count /\ Count \in Nat
      /\ DOMAIN memory = 0 .. MEMORY - 1 /\ DoneTo(elf.i) /\ h \in HeaderSet /\ h.Load
  <2>1. IsLoading /\ pc # "segment"
    BY DEF IsLoading, Segments
  <2>2. Header \in HeaderSet /\ elf.i \in 1 .. Count
    BY <1>3, <2>1, HeaderIs
  <2>3. h \in HeaderSet /\ Count \in Nat
    BY <1>1, <1>5, <2>2, KernelIs
  <2>4. Now
    BY <1>3, <2>1 DEF Segmented
  <2>5. h.Load
    BY <1>5, <2>4, Zenon DEF Now
  <2> QED BY <1>3, <2>1, <2>2, <2>3, <2>4, <2>5 DEF Segmented
<1>7. PICK l : l = Loaded
  OBVIOUS
<1>8. /\ h.Offset \in Nat /\ h.FileSize \in Nat /\ h.VirtualAddress \in Nat
      /\ Header.FileSize \in Nat
      /\ l \in Nat /\ l = h.FileSize - Header.FileSize
  <2>1. /\ h.Offset \in Nat /\ h.FileSize \in Nat /\ h.VirtualAddress \in Nat
        /\ Header.FileSize \in Nat
    BY <1>6 DEF HeaderSet
  <2>2. Header.FileSize <= h.FileSize
    BY <1>5, <1>6, Zenon DEF Now
  <2>3. l = h.FileSize - Header.FileSize
    BY <1>5, <1>7 DEF Loaded
  <2> QED BY <2>1, <2>2, <2>3
<1>9. /\ Header = [h EXCEPT !.Offset = Header.Offset, !.FileSize = Header.FileSize]
      /\ elf.virtAddress = h.VirtualAddress + l
      /\ Small(h) => Holds(h, l)
  BY <1>5, <1>6, <1>7, Zenon DEF Now
<1>10. n \in Nat /\ n <= Header.FileSize /\ l + n <= h.FileSize
  <2>1. Header.FileSize \in Int /\ MEMORY_LOAD_SIZE \in Int /\ MEMORY_LOAD_SIZE \in Nat
    BY <1>8, Stage2Assumption
  <2>2. n = IF Header.FileSize <= MEMORY_LOAD_SIZE THEN Header.FileSize ELSE MEMORY_LOAD_SIZE
    BY <2>1, MinTwo
  <2> DEFINE s == Header.FileSize
             m == MEMORY_LOAD_SIZE
             t == h.FileSize
  <2>3. s \in Nat /\ m \in Nat /\ t \in Nat /\ l = t - s /\ n = IF s <= m THEN s ELSE m
    BY <1>8, <2>1, <2>2
  <2> HIDE DEF s, m, t
  <2>4. n \in Nat /\ n <= s /\ l + n <= t
    BY <2>3
  <2> QED BY <2>4 DEF s, t
<1>11. PICK g : g = [Header EXCEPT !.FileSize = @ - n]
  OBVIOUS
<1>12. /\ g \in HeaderSet /\ g.FileSize = Header.FileSize - n /\ g.Offset = 0
       /\ g = [h EXCEPT !.Offset = g.Offset, !.FileSize = g.FileSize]
       /\ g.FileSize <= Header.FileSize /\ h.FileSize - g.FileSize = l + n
  <2>1. Header.FileSize - n \in Nat /\ Header.FileSize - n <= Header.FileSize
        /\ h.FileSize - (Header.FileSize - n) = l + n
    <3> DEFINE s == Header.FileSize
               t == h.FileSize
    <3>1. s \in Nat /\ t \in Nat /\ l = t - s /\ n \in Nat /\ n <= s
      BY <1>8, <1>10
    <3> HIDE DEF s, t
    <3>2. s - n \in Nat /\ s - n <= s /\ t - (s - n) = l + n
      BY <3>1
    <3> QED BY <3>2 DEF s, t
  <2>2. g.FileSize = Header.FileSize - n /\ g.Offset = Header.Offset /\ g \in HeaderSet
    BY <1>6, <1>11, <2>1 DEF HeaderSet
  <2>3. g = [h EXCEPT !.Offset = g.Offset, !.FileSize = g.FileSize]
    BY <1>6, <1>9, <1>11, <2>2 DEF HeaderSet
  <2> QED BY <1>4, <2>1, <2>2, <2>3
<1>13. /\ elf'.headers = [elf.headers EXCEPT ![elf.i] = g] /\ elf'.i = elf.i
       /\ elf'.virtAddress = elf.virtAddress + n
       /\ elf' \in [header : {elf'.header}, headers : {elf'.headers}, i : Nat, virtAddress : Int]
  <2>1. elf' = [elf EXCEPT !.headers = [elf.headers EXCEPT ![elf.i] = g],
                           !.virtAddress = elf.virtAddress + n]
    BY <1>3, <1>6, <1>11 DEF Typed, Header
  <2>2. elf.virtAddress + n \in Int
    BY <1>3, <1>10 DEF Typed
  <2> QED BY <1>3, <2>1, <2>2 DEF Typed
<1>14. \A k \in 1 .. n : out[k] = machine.kernel[(h.Offset + l) + k]
  <2>1. Sought = h.Offset
    BY <1>4, <1>5, <1>8 DEF Sought
  <2>2. file[walk.current].Position - Len(out) = h.Offset + l
    BY <1>4, <1>7, <2>1 DEF From
  <2>3. \A k \in 1 .. Len(out) : out[k] = machine.kernel[(file[walk.current].Position - Len(out)) + k]
    BY <1>4, Zenon DEF InKernel
  <2> QED BY <2>2, <2>3, Zenon
<1>15. /\ DOMAIN memory' = 0 .. MEMORY - 1
       /\ \A a \in 0 .. MEMORY - 1 :
             a < h.VirtualAddress \/ h.VirtualAddress + h.MemorySize <= a => memory'[a] = memory[a]
       /\ Small(h) => Holds(h, l + n)'
  <2>1. memory' = Copied(h.VirtualAddress + l, out)
    BY <1>9
  <2>2. PICK i \in 1 .. Count : i = elf.i
    BY <1>6
  <2>3. /\ machine \in Machines /\ machine' = machine /\ h = Asked(i) /\ h.Load
        /\ DOMAIN memory = 0 .. MEMORY - 1 /\ l \in Nat /\ n \in Nat /\ Len(out) = n
        /\ l + n <= h.FileSize /\ (Small(h) => Holds(h, l))
    BY <1>1, <1>5, <1>6, <1>8, <1>9, <1>10, <2>2, Zenon
  <2> QED BY <1>14, <2>1, <2>3, CopiedIs, ZenonT(60)
<1>16. DoneTo(elf.i)'
  BY <1>1, <1>5, <1>6, <1>13, <1>15, OthersHold
<1>17. Segmented' /\ Header' = g
  <2>1. elf'.virtAddress = h.VirtualAddress + (h.FileSize - g.FileSize)
    BY <1>8, <1>9, <1>10, <1>12, <1>13
  <2>2. Small(h) => Holds(h, h.FileSize - g.FileSize)'
    BY <1>12, <1>15, Zenon
  <2>3. g.Offset <= Header.Offset
    BY <1>4, <1>12
  <2> QED BY <1>1, <1>3, <1>5, <1>12, <1>13, <1>15, <1>16, <2>1, <2>2, <2>3, HeaderMoves
<1>18. Typed' /\ Mounted(fat)' /\ Root' /\ Directory' /\ Walk'
  <2>1. want' \in Nat /\ out' \in Seq(Range(out'))
    BY <1>3 DEF Typed
  <2> QED BY <1>1, <1>2, <1>13, <2>1, InFileSame
<1>19. InKernel'
  BY <1>4 DEF InKernel, OnPlace
<1>20. file'[walk'.current].Position = Sought' + Loaded'
  <2>1. Sought' = h.Offset /\ Loaded' = l + n
    <3>1. Asked(elf.i)' = h
      BY <1>5, <1>13 DEF Asked, TableAt
    <3>2. Sought' = h.Offset - 0
      BY <1>12, <1>17, <3>1 DEF Sought
    <3>3. Loaded' = h.FileSize - g.FileSize
      BY <1>17, <3>1 DEF Loaded
    <3> QED BY <1>8, <1>12, <3>2, <3>3
  <2>2. Sought = h.Offset - 0
    BY <1>4, <1>5 DEF Sought
  <2>3. file[walk.current].Position - n = (h.Offset - 0) + l
    BY <1>4, <1>7, <2>2 DEF From
  <2> DEFINE p == file[walk.current].Position
             o == h.Offset
  <2>4. p \in Nat /\ o \in Nat /\ p - n = (o - 0) + l
    BY <1>4, <1>8, <2>3
  <2> HIDE DEF p, o
  <2>5. p = o + (l + n)
    <3>1. l \in Nat /\ n \in Nat
      BY <1>8, <1>10
    <3> QED BY <2>4, <3>1
  <2> QED BY <2>1, <2>5 DEF p, o
<1>21. Reading'
  BY <1>1, <1>4, <1>19, <1>20 DEF Reading
<1> QED BY <1>17, <1>18, <1>21 DEF Good

\* The segment is loaded.
LEMMA SegmentLoaded ==
    ASSUME IInv, pc = "seek", Header.Offset = 0, Header.FileSize = 0,
           file' = FAT_Close, elf' = [elf EXCEPT !.i = @ + 1], pc' = "segment",
           machine' = machine, fat' = fat, walk' = walk, want' = want, out' = out,
           regions' = regions, memory' = memory, unnoticed' = unnoticed
    PROVE  IInv'
<1>1. machine \in Machines /\ pc \in After /\ pc' \in After /\ (~unnoticed => Good) /\ Returns'
  BY DEF IInv, After, Returns, Going, InFile, Segments
<1>2. SUFFICES ASSUME ~unnoticed' PROVE Good'
  BY <1>1, StaysGoing
<1>3. Typed /\ Mounted(fat) /\ Root /\ Reading /\ Segmented
  BY <1>1, <1>2 DEF Good
<1>4. want = 0
  BY <1>3 DEF Reading
<1>5. /\ elf'.i = elf.i + 1 /\ elf'.headers = elf.headers
      /\ elf' \in [header : {elf'.header}, headers : {elf'.headers}, i : Nat, virtAddress : Int]
  BY <1>3 DEF Typed
<1>6. Typed'
  <2>1. file' = [k \in Handles |-> file'[k]] /\ \A k \in Handles : IsFile(file'[k])
    BY <1>3, CloseIs
  <2> QED BY <1>3, <1>5, <2>1 DEF Typed, IsFile, Handles
<1>7. Mounted(fat)' /\ Root'
  BY <1>1, <1>3, MountedThen, RootClosed
<1>8. Walk'
  BY <1>4 DEF Walk, Opening, InFile, Segments
<1>9. Segmented'
  <2>1. IsLoading /\ pc # "segment"
    BY DEF IsLoading, Segments
  <2>2. /\ DOMAIN memory = 0 .. MEMORY - 1 /\ elf.headers \in Seq(HeaderSet)
        /\ Len(elf.headers) = Count /\ DoneTo(elf.i)
        /\ \A j \in 1 .. Count : j > elf.i => elf.headers[j] = Asked(j)
        /\ Now
    BY <1>3, <2>1 DEF Segmented
  <2>3. elf.i \in 1 .. Count
    BY <1>3, <2>1, HeaderIs
  <2>4. Count' = Count /\ Count \in Nat /\ \A j : Asked(j)' = Asked(j)
    BY <1>1, KernelIs DEF Count, Asked, TableAt
  <2>5. ASSUME Small(Asked(elf.i)) PROVE Holds(Asked(elf.i), Asked(elf.i).FileSize)
    <3>1. Holds(Asked(elf.i), Loaded)
      BY <2>2, <2>5, Zenon DEF Now
    <3>2. Asked(elf.i).FileSize \in Nat
      BY <1>1, <2>3, KernelIs DEF HeaderSet
    <3>3. Loaded = Asked(elf.i).FileSize
      BY <3>2 DEF Loaded
    <3> QED BY <3>1, <3>3
  <2>6. ASSUME NEW j \in 1 .. Count, j < elf.i + 1, Asked(j).Load, Small(Asked(j))
        PROVE  Holds(Asked(j), Asked(j).FileSize)
    <3>1. j < elf.i \/ j = elf.i
      BY <2>3, <2>6
    <3>2. CASE j < elf.i
      BY <2>2, <2>6, <3>2, Zenon DEF DoneTo
    <3> QED BY <2>5, <2>6, <3>1, <3>2
  <2>7. DoneTo(elf.i)'
    BY <1>5, <2>4, <2>6, Zenon DEF DoneTo, Holds, Small
  <2>8. elf'.i \in 1 .. Count' + 1
    BY <1>5, <2>3, <2>4
  <2>9. \A j \in 1 .. Count' : j > elf'.i \/ j = elf'.i => elf'.headers[j] = Asked(j)'
    <3> TAKE j \in 1 .. Count'
    <3> HAVE j > elf'.i \/ j = elf'.i
    <3>1. j > elf.i /\ j \in 1 .. Count
      BY <1>5, <2>3, <2>4
    <3> QED BY <1>5, <2>2, <2>4, <3>1
  <2>10. IsLoading'
    BY DEF IsLoading
  <2>11. elf'.headers \in Seq(HeaderSet) /\ Len(elf'.headers) = Count' /\ DOMAIN memory' = 0 .. MEMORY - 1
    BY <1>5, <2>2, <2>4
  <2> QED BY <2>7, <2>8, <2>9, <2>10, <2>11, Zenon DEF Segmented
<1> QED BY <1>6, <1>7, <1>8, <1>9, DirectoryElsewhere, ReadingElsewhere
        DEF Good, InFile, Segments

LEMMA LoadStep ==
    ASSUME IInv, Load
    PROVE  IInv'
<1> DEFINE n == Min({Header.FileSize, MEMORY_LOAD_SIZE})
<1>1. \/ /\ Reads("seek", "loaded", n)
         /\ Header.Offset = 0 /\ Header.FileSize > 0
         /\ UNCHANGED elfVars
      \/ Short("loaded", n)
      \/ /\ pc = "loaded" /\ want = 0 /\ Len(out) = n
         /\ memory' = Copied(elf.virtAddress, out)
         /\ elf' = [elf EXCEPT !.headers[elf.i].FileSize = @ - n, !.virtAddress = @ + n]
         /\ pc' = "seek"
         /\ UNCHANGED <<machine, partition_entry, fat, fileVars, mapVars, failed, unnoticed>>
      \/ /\ pc = "seek" /\ Header.Offset = 0 /\ Header.FileSize = 0
         /\ file' = FAT_Close
         /\ elf' = [elf EXCEPT !.i = @ + 1]
         /\ pc' = "segment"
         /\ UNCHANGED <<machine, partition_entry, fat, walk, want, out, mapVars, memory,
                     failed, unnoticed>>
  BY Zenon DEF Load
<1>2. CASE /\ Reads("seek", "loaded", n)
           /\ Header.Offset = 0 /\ Header.FileSize > 0
           /\ UNCHANGED elfVars
  <2>1. elf' = elf /\ memory' = memory
    BY <1>2 DEF elfVars
  <2> QED BY <1>2, <2>1, SegmentReads
<1>3. CASE Short("loaded", n)
  BY <1>3, ShortStep
<1>4. CASE /\ pc = "loaded" /\ want = 0 /\ Len(out) = n
           /\ memory' = Copied(elf.virtAddress, out)
           /\ elf' = [elf EXCEPT !.headers[elf.i].FileSize = @ - n, !.virtAddress = @ + n]
           /\ pc' = "seek"
           /\ UNCHANGED <<machine, partition_entry, fat, fileVars, mapVars, failed, unnoticed>>
  <2>1. file' = file /\ walk' = walk /\ want' = want /\ out' = out /\ regions' = regions
    BY <1>4, Zenon DEF fileVars, mapVars
  <2> HIDE DEF n
  <2>2. n = Min({Header.FileSize, MEMORY_LOAD_SIZE})
    BY DEF n
  <2> QED BY <1>4, <2>1, <2>2, LoadedStep
<1>5. CASE /\ pc = "seek" /\ Header.Offset = 0 /\ Header.FileSize = 0
           /\ file' = FAT_Close
           /\ elf' = [elf EXCEPT !.i = @ + 1]
           /\ pc' = "segment"
           /\ UNCHANGED <<machine, partition_entry, fat, walk, want, out, mapVars, memory,
                       failed, unnoticed>>
  <2>1. regions' = regions
    BY <1>5, Zenon DEF mapVars
  <2> QED BY <1>5, <2>1, SegmentLoaded
<1> QED BY <1>1, <1>2, <1>3, <1>4, <1>5, Zenon

--------------------------------------------------------------------------------
(* Up to the kernel.                                                          *)

\* The parts that the search for the memory map leaves as they are.
LEMMA GoodSame ==
    ASSUME machine \in Machines, Good, pc \in {"detect", "map"}, pc' \in {"map", "elf"},
           machine' = machine, fat' = fat, file' = file, walk' = walk, want' = want, out' = out,
           elf' = elf, memory' = memory
    PROVE  Good'
<1>1. Typed /\ Mounted(fat) /\ Root /\ Walk /\ Segmented
  BY DEF Good
<1>2. Typed'
  BY <1>1 DEF Typed, IsFile, Handles
<1>3. Walk'
  <2>1. want = 0
    BY <1>1 DEF Walk, Opening, InFile, Segments
  <2> QED BY <2>1 DEF Walk, Opening, InFile, Segments
<1>4. Segmented'
  <2>1. ~IsLoading /\ ~IsLoading'
    BY DEF IsLoading, Opening, Segments
  <2> QED BY <1>1, <2>1 DEF Segmented
<1>5. Root'
  BY <1>1, RootSame
<1>6. Mounted(fat)'
  BY <1>1, MountedThen
<1> QED BY <1>2, <1>3, <1>4, <1>5, <1>6, DirectoryElsewhere, ReadingElsewhere
        DEF Good, InFile, Segments

\* What the BIOS answers when n blocks are known.
LEMMA Answers ==
    ASSUME machine \in Machines, NEW n \in Nat, n <= machine.blocks,
           n = machine.blocks => ~(machine.endsWithLast /\ machine.blocks > 0),
           NEW e, e = E820GetNextBlock(n)
    PROVE  /\ e.ret \in Int
           /\ e.ret > 0 => /\ e.block = n + 1 /\ n < machine.blocks
                           /\ e.continuation =
                                 IF n + 1 = machine.blocks /\ machine.endsWithLast THEN 0 ELSE n + 1
           /\ ~(e.ret > 0) => n = machine.blocks
<1>1. machine.blocks \in Nat
  BY MachineIs
<1> QED BY <1>1 DEF E820GetNextBlock

LEMMA DetectFirstStep ==
    ASSUME IInv, DetectFirst
    PROVE  IInv'
<1>1. /\ pc = "detect" /\ e820' = E820GetNextBlock(0) /\ pc' = "map"
      /\ machine' = machine /\ fat' = fat /\ file' = file /\ walk' = walk /\ want' = want
      /\ out' = out /\ regions' = regions /\ elf' = elf /\ memory' = memory
      /\ unnoticed' = unnoticed
  BY Zenon DEF DetectFirst, fileVars, elfVars
<1>2. machine \in Machines /\ Returns' /\ (~unnoticed => Good) /\ regions = <<>>
  BY <1>1 DEF IInv, Returns, Mapped, Going
<1>3. ~unnoticed' => Good'
  BY <1>1, <1>2, GoodSame
<1>4. machine.blocks \in Nat /\ Len(regions) = 0 /\ regions \in Seq(Nat)
  BY <1>2, MachineIs
<1>5. Map'
  <2>1. /\ e820'.ret \in Int
        /\ e820'.ret > 0 => /\ e820'.block = 0 + 1 /\ 0 < machine.blocks
                            /\ e820'.continuation =
                                  IF 0 + 1 = machine.blocks /\ machine.endsWithLast THEN 0 ELSE 0 + 1
        /\ ~(e820'.ret > 0) => 0 = machine.blocks
    BY <1>1, <1>2, <1>4, Answers
  <2>2. Len(regions') = 0 /\ regions' \in Seq(Nat) /\ 0 <= machine.blocks
        /\ \A k \in 1 .. 0 : regions'[k] = k
    BY <1>1, <1>4
  <2>3. 0 = machine.blocks => ~(machine.blocks > 0)
    BY <1>4
  <2> QED BY <1>1, <2>1, <2>2, <2>3 DEF Map
<1>6. Mapped' /\ HandedOver' /\ NeverLost'
  BY <1>1, <1>5 DEF Mapped, HandedOver, NeverLost, Going, Opening, InFile, Segments
<1> QED BY <1>1, <1>2, <1>3, <1>6
        DEF IInv, Before, Loading, Going, Opening, InFile, Segments

LEMMA DetectNextStep ==
    ASSUME IInv, DetectNext
    PROVE  IInv'
<1>1. /\ pc = "map"
      /\ machine' = machine /\ fat' = fat /\ file' = file /\ walk' = walk /\ want' = want
      /\ out' = out /\ elf' = elf /\ memory' = memory /\ unnoticed' = unnoticed
      /\ \/ /\ InMap /\ regions' = Append(regions, e820.block)
            /\ e820' = E820GetNextBlock(e820.continuation)
            /\ pc' = IF Len(regions) < MAX_REGIONS THEN "map" ELSE "lost"
         \/ ~InMap /\ pc' = "elf" /\ regions' = regions
  BY Zenon DEF DetectNext, fileVars, elfVars, mapVars
<1>2. machine \in Machines /\ Returns' /\ (~unnoticed => Good) /\ Map
  BY <1>1 DEF IInv, Returns, Mapped, Going
<1> DEFINE n == Len(regions)
           b == machine.blocks
<1>3. /\ regions \in Seq(Nat) /\ \A k \in 1 .. n : regions[k] = k
      /\ n <= b /\ e820.ret \in Int
      /\ e820.ret > 0 => /\ e820.block = n + 1 /\ n < b
                         /\ e820.continuation = IF n + 1 = b /\ machine.endsWithLast THEN 0 ELSE n + 1
      /\ ~(e820.ret > 0) => n = b /\ ~(machine.endsWithLast /\ b > 0)
  BY <1>2, Zenon DEF Map
<1>4. n \in Nat /\ b \in Nat /\ machine.endsWithLast \in BOOLEAN
  BY <1>2, <1>3, MachineIs
<1>5. CASE pc' = "lost"
  <2>1. n < b /\ ~(n < MAX_REGIONS)
    BY <1>1, <1>3, <1>5 DEF InMap
  <2>2. MAX_REGIONS \in Nat
    BY Stage2Assumption
  <2>3. b > MAX_REGIONS
    <3> HIDE DEF n, b
    <3> QED BY <1>4, <2>1, <2>2
  <2>4. NeverLost'
    BY <1>1, <2>3 DEF NeverLost
  <2> QED BY <1>1, <1>2, <1>5, <2>4, Stops
<1>6. CASE pc' = "map"
  <2>1. /\ InMap /\ regions' = Append(regions, e820.block)
        /\ e820' = E820GetNextBlock(e820.continuation)
    BY <1>1, <1>6
  <2>2. e820.ret > 0 /\ e820.continuation # 0 /\ e820.block = n + 1 /\ n < b
    BY <1>3, <2>1 DEF InMap
  <2>3. e820.continuation = n + 1 /\ ~(n + 1 = b /\ machine.endsWithLast)
    BY <1>3, <2>2
  <2>4. /\ regions' \in Seq(Nat) /\ Len(regions') = n + 1
        /\ \A k \in 1 .. n + 1 : regions'[k] = k
    <3>1. regions' = Append(regions, n + 1) /\ n + 1 \in Nat
      BY <1>4, <2>1, <2>2
    <3>2. Len(regions') = n + 1 /\ regions' \in Seq(Nat) /\ regions'[n + 1] = n + 1
          /\ \A k \in 1 .. n : regions'[k] = regions[k]
      BY <1>3, <3>1
    <3>3. \A k \in 1 .. n + 1 : k \in 1 .. n \/ k = n + 1
      BY <1>4
    <3> QED BY <1>3, <3>2, <3>3
  <2>5. n + 1 \in Nat /\ n + 1 <= b
        /\ (n + 1 = b => ~(machine.endsWithLast /\ b > 0))
    <3> HIDE DEF n, b
    <3> QED BY <1>4, <2>2, <2>3
  <2> DEFINE m == n + 1
  <2>6. /\ e820'.ret \in Int
        /\ e820'.ret > 0 => /\ e820'.block = m + 1 /\ m < b
                            /\ e820'.continuation =
                                  IF m + 1 = b /\ machine.endsWithLast THEN 0 ELSE m + 1
        /\ ~(e820'.ret > 0) => m = b
    <3>1. e820' = E820GetNextBlock(m)
      BY <2>1, <2>3
    <3> HIDE DEF m
    <3>2. m \in Nat /\ m <= b /\ (m = b => ~(machine.endsWithLast /\ b > 0))
      BY <2>5 DEF m
    <3> QED BY <1>2, <3>1, <3>2, Answers
  <2>7. Map'
    <3>1. m = Len(regions') /\ m <= b /\ (m = b => ~(machine.endsWithLast /\ b > 0))
      BY <2>4, <2>5
    <3> HIDE DEF m, n
    <3>2. \A k \in 1 .. m : regions'[k] = k
      BY <2>4 DEF m
    <3> QED BY <1>1, <2>4, <2>6, <3>1, <3>2 DEF Map
  <2>8. ~unnoticed' => Good'
    BY <1>1, <1>2, <1>6, GoodSame
  <2>9. Mapped' /\ HandedOver' /\ NeverLost'
    BY <1>6, <2>7 DEF Mapped, HandedOver, NeverLost, Going, Opening, InFile, Segments
  <2> QED BY <1>1, <1>2, <1>6, <2>8, <2>9
          DEF IInv, Before, Loading, Going, Opening, InFile, Segments
<1>7. CASE pc' = "elf"
  <2>1. ~InMap /\ regions' = regions
    BY <1>1, <1>7
  <2>2. n = IF machine.endsWithLast /\ b > 0 THEN b - 1 ELSE b
    <3>1. ~(e820.ret > 0) \/ (e820.ret > 0 /\ e820.continuation = 0)
      BY <2>1 DEF InMap
    <3>2. CASE ~(e820.ret > 0)
      BY <1>3, <3>2
    <3>3. CASE e820.ret > 0 /\ e820.continuation = 0
      <4>1. n + 1 # 0
        BY <1>4
      <4>2. n + 1 = b /\ machine.endsWithLast
        BY <1>3, <3>3, <4>1
      <4> HIDE DEF n, b
      <4> QED BY <1>4, <4>2
    <3> QED BY <3>1, <3>2, <3>3
  <2>3. regions = [k \in 1 .. n |-> k]
    BY <1>3
  <2>4. MapHanded'
    BY <1>1, <2>1, <2>2, <2>3 DEF MapHanded
  <2>5. ~unnoticed' => Good'
    BY <1>1, <1>2, <1>7, GoodSame
  <2>6. Mapped' /\ HandedOver' /\ NeverLost'
    BY <1>7, <2>4 DEF Mapped, HandedOver, NeverLost, Going, Opening, InFile, Segments
  <2> QED BY <1>1, <1>2, <1>7, <2>5, <2>6
          DEF IInv, Before, Loading, Going, Opening, InFile, Segments
<1> QED BY <1>1, <1>5, <1>6, <1>7

\* The volume's first sector has been read: it is the boot sector of the volume.
LEMMA BootSectorIs ==
    ASSUME machine \in Machines, fat.partitionOffset = Offset(machine),
           NEW r \in Partition_ReadSectors(0, 1), r.ok
    PROVE  r.data[1][1] = BootSector(machine)
<1>1. Offset(machine) \in Nat /\ Offset(machine) < CYLINDERS * HEADS * SECTORS
  <2>1. CASE machine.floppy
    <3>1. {HEADS, SECTORS, CYLINDERS} \subseteq Nat \ {0}
      BY BiosAssumption
    <3>2. \A a, b \in Nat \ {0} : a * b \in Nat \ {0}
      OBVIOUS
    <3>3. CYLINDERS * HEADS * SECTORS \in Nat \ {0}
      BY <3>1, <3>2
    <3> DEFINE x == CYLINDERS * HEADS * SECTORS
    <3> HIDE DEF x
    <3>4. 0 < x
      BY <3>3 DEF x
    <3> QED BY <2>1, <3>4 DEF Offset, x
  <2>2. CASE ~machine.floppy
    <3>1. machine.partition \in DOMAIN machine.disk
      BY BiosAssumption
    <3>2. machine.partition \in Nat /\ machine.partition < CYLINDERS * HEADS * SECTORS
      BY <3>1, MachineIs
    <3> QED BY <2>2, <3>2 DEF Offset
  <2> QED BY <2>1, <2>2
<1>2. AtCHS(DISK_LBA2CHS(Offset(machine))) = Offset(machine)
  BY <1>1, CHSBack DEF DISK_LBA2CHS
<1>3. 0 + fat.partitionOffset = Offset(machine)
  BY <1>1
<1>4. r.data = OnDisk(Offset(machine), 1)
  BY <1>2, <1>3, ReadIs
<1>5. r.data[1] = machine.disk[Offset(machine)]
  <2>1. Offset(machine) + (1 - 1) = Offset(machine) /\ 1 \in 1 .. 1
    BY <1>1
  <2>2. r.data = [k \in 1 .. 1 |-> machine.disk[Offset(machine) + (k - 1)]]
    BY <1>4 DEF OnDisk
  <2>3. r.data[1] = machine.disk[Offset(machine) + (1 - 1)]
    BY <2>1, <2>2
  <2> QED BY <2>1, <2>3
<1> QED BY <1>5 DEF BootSector

LEMMA InitializeStep ==
    ASSUME IInv, FAT_Initialize
    PROVE  IInv'
<1>1. /\ pc = "volume" /\ machine' = machine /\ walk' = walk /\ want' = want /\ out' = out
      /\ regions' = regions /\ elf' = elf /\ memory' = memory /\ unnoticed' = unnoticed
  BY Zenon DEF FAT_Initialize, mapVars, elfVars
<1>2. machine \in Machines /\ Untouched
  BY <1>1 DEF IInv, Before
<1>3. PICK boot \in Partition_ReadSectors(0, 1) :
        IF ~boot.ok
        THEN pc' = "halt" /\ failed' = boot.fault /\ UNCHANGED <<fat, file>>
        ELSE LET bs == boot.data[1][1]
                 root == [NoFile EXCEPT !.Opened = TRUE, !.IsDirectory = TRUE,
                                        !.Size = bs.DirEntryCount,
                                        !.FirstCluster = RootLba(bs),
                                        !.CurrentCluster = RootLba(bs)]
             IN  \E l \in Filled(root, RootLba(bs)) :
                     /\ fat' = [fat EXCEPT !.BS = bs, !.DataSectionLba = DataSection(bs),
                                           !.FatType = FAT_Detect(bs)]
                     /\ file' = [h \in DOMAIN file |->
                                    IF h = ROOT_DIRECTORY_HANDLE THEN l.file ELSE NoFile]
                     /\ pc' = IF l.ok THEN "detect" ELSE "halt"
                     /\ failed' = l.fault
  BY Zenon DEF FAT_Initialize
<1>4. CASE ~boot.ok
  <2>1. pc' = "halt"
    BY <1>3, <1>4
  <2> QED BY <1>1, <2>1, Halts
<1>5. CASE boot.ok
  <2> DEFINE bs == BootSector(machine)
             root == [NoFile EXCEPT !.Opened = TRUE, !.IsDirectory = TRUE,
                                    !.Size = bs.DirEntryCount,
                                    !.FirstCluster = RootLba(bs),
                                    !.CurrentCluster = RootLba(bs)]
  <2>1. fat.partitionOffset = Offset(machine)
    BY <1>1, <1>2 DEF Untouched
  <2>2. boot.data[1][1] = bs
    BY <1>2, <1>5, <2>1, BootSectorIs
  <2>3. PICK l \in Filled(root, RootLba(bs)) :
           /\ fat' = [fat EXCEPT !.BS = bs, !.DataSectionLba = DataSection(bs),
                                 !.FatType = FAT_Detect(bs)]
           /\ file' = [h \in DOMAIN file |->
                          IF h = ROOT_DIRECTORY_HANDLE THEN l.file ELSE NoFile]
           /\ pc' = IF l.ok THEN "detect" ELSE "halt"
    BY <1>3, <1>5, <2>2, Zenon
  <2>4. CASE pc' = "halt"
    BY <1>1, <2>4, Halts
  <2>5. CASE pc' = "detect"
    <3>1. l.ok
      BY <2>3, <2>5
    <3>2. /\ IsFile(NoFile) /\ IsFile(root) /\ root.Position = 0 /\ root.Size = bs.DirEntryCount
          /\ root.IsDirectory = TRUE /\ root.FirstCluster = RootLba(bs)
          /\ root.CurrentCluster = RootLba(bs)
      <4>1. bs.DirEntryCount \in Int
        BY <1>2, MachineIs
      <4>2. IsFile(NoFile) /\ NoFile.Position = 0
        BY DEF IsFile, NoFile
      <4>3. \A f : IsFile(f) =>
              \A s \in Int : \A c :
                  IsFile([f EXCEPT !.Opened = TRUE, !.IsDirectory = TRUE, !.Size = s,
                                   !.FirstCluster = c, !.CurrentCluster = c])
        BY DEF IsFile
      <4>4. IsFile(root)
        BY <4>1, <4>2, <4>3
      <4>5. \A f, s, c : IsFile(f) /\ f.Position = 0 =>
              LET g == [f EXCEPT !.Opened = TRUE, !.IsDirectory = TRUE, !.Size = s,
                                 !.FirstCluster = c, !.CurrentCluster = c]
              IN  /\ g.Position = 0 /\ g.Size = s /\ g.IsDirectory = TRUE
                  /\ g.FirstCluster = c /\ g.CurrentCluster = c
        BY DEF IsFile
      <4> QED BY <4>2, <4>4, <4>5
    <3> HIDE DEF root
    <3>3. PICK c : l.file = [root EXCEPT !.Buffer = c]
      BY <3>2, FilledAny
    <3>4. /\ IsFile(l.file) /\ l.file.Position = 0 /\ l.file.Size = bs.DirEntryCount
          /\ l.file.IsDirectory = TRUE /\ l.file.FirstCluster = RootLba(bs)
          /\ l.file.CurrentCluster = RootLba(bs)
      BY <3>2, <3>3 DEF IsFile
    <3>5. ASSUME Findable PROVE l.file.Buffer = RootSector(0)
      <4>1. Offset(machine) + RootLba(bs) + 0 \in DOMAIN machine.disk
        <5>1. machine.bootAt # 0 /\ SoundRoot(machine)
          BY <1>2, <3>5, MachineIs DEF Findable
        <5>2. (machine.bootAt - 1) \div SECTOR_SIZE \in Nat
          <6>1. machine.bootAt - 1 \in Nat /\ SECTOR_SIZE \in Nat /\ SECTOR_SIZE > 0
            BY <1>2, <5>1, RootIs, Stage2Assumption
          <6> QED BY <6>1, Divide
        <5>3. 0 \in 0 .. (machine.bootAt - 1) \div SECTOR_SIZE
          BY <5>2
        <5> QED BY <5>1, <5>3, Zenon DEF SoundRoot
      <4>2. RootLba(bs) \in Int /\ Offset(machine) \in Int
            /\ RootLba(bs) + Offset(machine) = Offset(machine) + RootLba(bs) + 0
        BY <1>2, MachineIs
      <4>3. l.file = [root EXCEPT !.Buffer = machine.disk[RootLba(bs) + Offset(machine)]]
        BY <1>2, <2>1, <3>1, <3>2, <4>1, <4>2, FilledThere
      <4>4. l.file.Buffer = machine.disk[RootLba(bs) + Offset(machine)]
        BY <3>2, <4>3 DEF IsFile
      <4> QED BY <4>2, <4>4 DEF RootSector
    <3>6. /\ file' = [h \in Handles |-> file'[h]] /\ \A h \in Handles : IsFile(file'[h])
          /\ file'[ROOT_DIRECTORY_HANDLE] = l.file
      <4>1. DOMAIN file = Handles
        BY <1>2 DEF Untouched, Handles
      <4> QED BY <2>3, <3>2, <3>4, <4>1 DEF Handles
    <3>7. /\ walk = [depth |-> 0, current |-> ROOT_DIRECTORY_HANDLE, then |-> "header"]
          /\ want = 0 /\ out = <<>> /\ regions = <<>>
          /\ elf = [header |-> Junk, headers |-> <<>>, i |-> 1, virtAddress |-> 0]
          /\ memory = [a \in 0 .. MEMORY - 1 |-> Unset]
      BY <1>2, Zenon DEF Untouched
    <3>8. Typed'
      <4>1. elf' \in [header : {elf'.header}, headers : {elf'.headers}, i : Nat, virtAddress : Int]
        BY <1>1, <3>7
      <4>2. walk'.depth \in 0 .. 2 /\ walk'.current \in Handles /\ want' \in Nat
            /\ out' \in Seq(Range(out'))
        BY <1>1, <3>7 DEF Handles
      <4> QED BY <3>6, <4>1, <4>2 DEF Typed, IsFile, Handles
    <3>9. Mounted(fat)'
      <4>1. END \in Nat
        BY BootAssumption
      <4>2. fat \in [partitionOffset : Int, BS : {<<>>}, DataSectionLba : {0}, FatType : {0},
                     FatCache : {fat.FatCache}, FatCachePosition : {END}]
        BY <1>2, Zenon DEF Untouched
      <4>3. fat' \in [partitionOffset : {Offset(machine)}, BS : {bs},
                      DataSectionLba : {DataSection(bs)}, FatType : {FAT_Detect(bs)},
                      FatCache : {fat'.FatCache}, FatCachePosition : Nat]
            /\ fat'.FatCachePosition = END
        BY <2>1, <2>3, <4>1, <4>2
      <4> QED BY <1>1, <4>3 DEF Mounted
    <3>10. Root'
      <4>1. RootAt(l.file, 0, 0)'
        <5>1. RootLba(bs) \in Nat /\ SECTOR_SIZE \in Nat
          BY <1>2, MachineIs, Stage2Assumption
        <5>2. 0 = 0 * SECTOR_SIZE + 0 /\ RootLba(bs) = RootLba(bs) + 0 /\ ~(0 > 0)
          BY <5>1
        <5> QED BY <3>4, <5>2 DEF RootAt
      <4>2. RootAt(file[ROOT_DIRECTORY_HANDLE], 0, 0)'
        BY <3>6, <4>1
      <4>3. bs.DirEntryCount \in Nat
        BY <1>2, MachineIs
      <4>4. pc' # "find" /\ (Findable' <=> Findable) /\ RootSector(0)' = RootSector(0)
        BY <1>1, <2>5 DEF Findable, RootSector
      <4>5. 0 + 0 <= bs.DirEntryCount
        BY <4>3
      <4> QED BY <1>1, <3>4, <3>5, <3>6, <4>2, <4>4, <4>5, Zenon DEF Root
    <3>11. Walk'
      BY <1>1, <2>5, <3>7 DEF Walk, Opening, InFile, Segments
    <3>12. Segmented'
      <4>1. ~IsLoading' /\ pc' \notin {"table", "headers"}
        BY <2>5 DEF IsLoading, Opening, Segments
      <4>2. elf'.i = 1 /\ DOMAIN memory' = 0 .. MEMORY - 1
        BY <1>1, <3>7
      <4> QED BY <4>1, <4>2, Zenon DEF Segmented
    <3>13. Good'
      BY <2>5, <3>8, <3>9, <3>10, <3>11, <3>12, DirectoryElsewhere, ReadingElsewhere
         DEF Good, InFile, Segments
    <3>14. Mapped' /\ HandedOver' /\ NeverLost'
      BY <1>1, <2>5, <3>7 DEF Mapped, HandedOver, NeverLost, Going, Opening, InFile, Segments
    <3>15. Returns' /\ machine' \in Machines
      BY <1>1, <1>2 DEF IInv, Returns
    <3> QED BY <2>5, <3>13, <3>14, <3>15
            DEF IInv, Before, Loading, Going, Opening, InFile, Segments
  <2> QED BY <2>3, <2>4, <2>5
<1> QED BY <1>4, <1>5

\* A step in front of it.
LEMMA StaysBefore ==
    ASSUME IInv, pc' \in Before, machine' = machine, walk' = walk, Untouched',
           pc' \in Loading \cup {"start"} /\ ~machine.reports => Whole'
    PROVE  IInv'
<1>1. Mapped' /\ HandedOver' /\ NeverLost'
  BY DEF Mapped, HandedOver, NeverLost, Before, Loading, Going, Opening, InFile, Segments
<1>2. Returns' /\ machine' \in Machines
  BY DEF IInv, Returns
<1> QED BY <1>1, <1>2 DEF IInv, Before, Loading, Going, Opening, InFile, Segments

LEMMA DiskStep ==
    ASSUME IInv, DISK_Initialize
    PROVE  IInv'
<1>1. /\ pc = "stage2" /\ pc' \in {"partition", "halt"} /\ machine' = machine
      /\ partition_entry' = partition_entry /\ UNCHANGED stage2Vars
  BY Zenon DEF DISK_Initialize
<1>2. /\ fat' = fat /\ file' = file /\ walk' = walk /\ want' = want /\ out' = out
      /\ regions' = regions /\ elf' = elf /\ memory' = memory
      /\ failed' = failed /\ unnoticed' = unnoticed
  BY <1>1, Zenon DEF stage2Vars, fileVars, elfVars, mapVars
<1>3. CASE pc' = "halt"
  BY <1>1, <1>2, <1>3, Halts
<1>4. CASE pc' = "partition"
  <2>1. Untouched
    BY <1>1 DEF IInv, Before
  <2>2. Untouched'
    BY <1>1, <1>2, <1>4, <2>1 DEF Untouched
  <2> QED BY <1>1, <1>2, <1>4, <2>2, StaysBefore DEF Before, Loading
<1> QED BY <1>1, <1>3, <1>4

LEMMA PartitionStep ==
    ASSUME IInv, MBR_DetectPartition
    PROVE  IInv'
<1>1. /\ pc = "partition" /\ pc' = "volume" /\ machine' = machine
      /\ fat' = [fat EXCEPT !.partitionOffset =
                    IF machine.floppy THEN 0
                    ELSE IF partition_entry = "entry" THEN machine.partition ELSE END]
      /\ file' = file /\ walk' = walk /\ want' = want /\ out' = out
      /\ regions' = regions /\ elf' = elf /\ memory' = memory
      /\ failed' = failed /\ unnoticed' = unnoticed
  BY Zenon DEF MBR_DetectPartition, fileVars, mapVars, elfVars
<1>2. machine \in Machines /\ Untouched /\ partition_entry = "entry"
  BY <1>1 DEF IInv, Before, Untouched
<1>3. fat \in [partitionOffset : Int, BS : {<<>>}, DataSectionLba : {0}, FatType : {0},
               FatCache : {fat.FatCache}, FatCachePosition : {END}]
  BY <1>2, Zenon DEF Untouched
<1>4. fat' = [fat EXCEPT !.partitionOffset = Offset(machine)]
  BY <1>1, <1>2 DEF Offset
<1>5. Offset(machine) \in Int
  BY <1>2, MachineIs
<1>6. /\ fat' \in [partitionOffset : Int, BS : {<<>>}, DataSectionLba : {0}, FatType : {0},
                   FatCache : {fat'.FatCache}, FatCachePosition : {END}]
      /\ fat'.partitionOffset = Offset(machine)'
  <2>1. fat'.partitionOffset = Offset(machine)
    BY <1>3, <1>4
  <2> QED BY <1>1, <1>3, <1>4, <1>5, <2>1 DEF Offset
<1>7. Untouched'
  BY <1>1, <1>2, <1>6 DEF Untouched, Loading
<1> QED BY <1>1, <1>7, StaysBefore DEF Before, Loading

--------------------------------------------------------------------------------
(* Stage 1.                                                                   *)

LEMMA UntouchedOn ==
    ASSUME Untouched, UNCHANGED stage2Vars, machine' = machine, pc' \in Loading \cup {"stage2"},
           partition_entry' = "entry" \/ (pc \in Loading /\ partition_entry' = partition_entry)
    PROVE  Untouched'
<1>1. /\ fat' = fat /\ file' = file /\ walk' = walk /\ want' = want /\ out' = out
      /\ regions' = regions /\ elf' = elf /\ memory' = memory
      /\ failed' = failed /\ unnoticed' = unnoticed
  BY Zenon DEF stage2Vars, fileVars, elfVars, mapVars
<1>2. pc' # "volume" /\ partition_entry' = "entry"
  BY DEF Untouched, Loading
<1> QED BY <1>1, <1>2 DEF Untouched

LEMMA Stage2Same ==
    ASSUME UNCHANGED stage2Vars
    PROVE  walk' = walk /\ regions' = regions /\ failed' = failed /\ unnoticed' = unnoticed
BY Zenon DEF stage2Vars, fileVars, mapVars

\* A piece of the table.
LEMMA PieceIs ==
    ASSUME machine \in Machines, NEW i \in DOMAIN machine.stage2_location
    PROVE  LET piece == machine.stage2_location IN
           /\ machine.image \in Nat /\ machine.image # 0 /\ machine.stage2 \in Nat
           /\ Len(piece) \in Nat /\ i \in 1 .. Len(piece) /\ DOMAIN piece = 1 .. Len(piece)
           /\ piece[i].lba \in Nat /\ piece[i].count \in Nat
           /\ piece[i].lba # 0 =>
                 /\ piece[i].lba < LBA_WIDTH /\ piece[i].lba < CYLINDERS * HEADS * SECTORS
                 /\ i + 1 \in DOMAIN piece
                 /\ piece[i + 1].lba =
                       IF piece[i].lba + piece[i].count = machine.image + machine.stage2
                       THEN 0 ELSE piece[i].lba + piece[i].count
<1> DEFINE piece == machine.stage2_location
<1>1. machine.image \in Nat /\ machine.stage2 \in Nat /\ SoundLoader(machine)
  BY MachineIs
<1>2. /\ piece \in Seq([lba : Nat, count : Nat]) /\ machine.image # 0
      /\ piece[i].lba # 0 =>
           /\ piece[i].lba < LBA_WIDTH /\ piece[i].lba < CYLINDERS * HEADS * SECTORS
           /\ i < Len(piece)
           /\ piece[i + 1].lba = IF piece[i].lba + piece[i].count = machine.image + machine.stage2
                                 THEN 0 ELSE piece[i].lba + piece[i].count
  BY <1>1, Zenon DEF SoundLoader
<1>3. /\ Len(piece) \in Nat /\ i \in 1 .. Len(piece) /\ DOMAIN piece = 1 .. Len(piece)
      /\ piece[i] \in [lba : Nat, count : Nat]
  <2> HIDE DEF piece
  <2>1. i \in DOMAIN piece
    BY DEF piece
  <2> QED BY <1>2, <2>1, LenProperties, ElementOfSeq
<1>4. piece[i].lba \in Nat /\ piece[i].count \in Nat
  BY <1>3
<1>5. i < Len(piece) => i + 1 \in DOMAIN piece
  BY <1>3
<1> QED BY <1>1, <1>2, <1>3, <1>4, <1>5, Zenon

LEMMA StartStep ==
    ASSUME IInv, Start, UNCHANGED stage2Vars
    PROVE  IInv'
<1>1. /\ pc = "start" /\ partition_entry' = "entry" /\ pc' = "loop" /\ machine' = machine
      /\ si' = si /\ es' = es /\ request' = request /\ stage2' = stage2
  BY Zenon DEF Start
<1>2. Untouched /\ (~machine.reports => Whole)
  BY <1>1 DEF IInv, Before
<1>3. ~machine.reports => Whole'
  BY <1>1, <1>2 DEF Whole
<1>4. Untouched'
  BY <1>1, <1>2, UntouchedOn DEF Loading
<1> QED BY <1>1, <1>3, <1>4, Stage2Same, StaysBefore DEF Before, Loading

LEMMA NextPieceStep ==
    ASSUME IInv, NextPiece, UNCHANGED stage2Vars
    PROVE  IInv'
<1> DEFINE piece == machine.stage2_location
<1>1. /\ pc = "loop" /\ machine' = machine /\ partition_entry' = partition_entry /\ es' = es
      /\ stage2' = stage2
      /\ IF piece[si].lba = 0
         THEN pc' = IF stage2 = OnDisk(machine.image, machine.stage2) THEN "stage2" ELSE "lost"
         ELSE /\ pc' = "read" /\ si' = si + 1
              /\ request' = [lba |-> piece[si].lba, count |-> piece[si].count,
                             asked |-> piece[si].count]
  BY Zenon DEF NextPiece
<1>2. machine \in Machines /\ Untouched /\ (~machine.reports => Whole)
  BY <1>1 DEF IInv, Before, Loading
<1>3. Whole => /\ si \in DOMAIN piece /\ es \in Nat
               /\ piece[si].lba = IF es = machine.stage2 THEN 0 ELSE machine.image + es
               /\ stage2 = [k \in 1 .. machine.stage2 |-> stage2[k]]
               /\ \A k \in DOMAIN stage2 : k <= es => stage2[k] = machine.disk[machine.image + k - 1]
  BY <1>1 DEF Whole
<1>4. CASE pc' = "lost"
  <2>1. stage2 # OnDisk(machine.image, machine.stage2) /\ piece[si].lba = 0
    BY <1>1, <1>4
  <2>2. ASSUME Whole PROVE FALSE
    <3>1. es = machine.stage2 /\ machine.stage2 \in Nat
      <4>1. machine.image \in Nat /\ machine.image # 0 /\ machine.stage2 \in Nat
        BY <1>2, <1>3, <2>2, PieceIs
      <4> QED BY <1>3, <2>1, <2>2, <4>1
    <3>2. \A k \in 1 .. machine.stage2 : stage2[k] = machine.disk[machine.image + k - 1]
      BY <1>3, <2>2, <3>1
    <3>3. stage2 = OnDisk(machine.image, machine.stage2)
      <4>1. OnDisk(machine.image, machine.stage2)
               = [k \in 1 .. machine.stage2 |-> machine.disk[machine.image + k - 1]]
        BY Zenon DEF OnDisk
      <4> QED BY <1>3, <2>2, <3>2, <4>1
    <3> QED BY <2>1, <3>3
  <2>3. NeverLost'
    BY <1>1, <1>2, <2>2 DEF NeverLost
  <2>4. Returns'
    BY Stage2Same DEF IInv, Returns
  <2> QED BY <1>1, <1>4, <2>3, <2>4, Stops
<1>5. CASE pc' = "stage2"
  <2>1. Untouched'
    BY <1>1, <1>2, <1>5, UntouchedOn DEF Loading
  <2> QED BY <1>1, <1>5, <2>1, Stage2Same, StaysBefore DEF Before, Loading
<1>6. CASE pc' = "read"
  <2>1. /\ piece[si].lba # 0 /\ si' = si + 1
        /\ request' = [lba |-> piece[si].lba, count |-> piece[si].count, asked |-> piece[si].count]
    BY <1>1, <1>6
  <2>2. Untouched'
    BY <1>1, <1>2, <1>6, UntouchedOn DEF Loading
  <2>3. ASSUME Whole PROVE Whole'
    <3>1. piece[si].lba = machine.image + es
      BY <1>3, <2>1, <2>3
    <3>2. \E i \in DOMAIN piece :
              /\ si' = i + 1 /\ piece[i].lba = machine.image + es /\ piece[i].lba # 0
              /\ request' = [lba |-> piece[i].lba, count |-> piece[i].count,
                             asked |-> piece[i].count]
      BY <1>3, <2>1, <2>3, <3>1
    <3> QED BY <1>1, <1>3, <1>6, <2>3, <3>2 DEF Whole
  <2> QED BY <1>1, <1>2, <1>6, <2>2, <2>3, Stage2Same, StaysBefore DEF Before, Loading
<1> QED BY <1>1, <1>4, <1>5, <1>6

\* Where int 13h reads, with and without the extensions.
LEMMA WhereIs ==
    ASSUME machine \in Machines, NEW i \in DOMAIN machine.stage2_location,
           machine.stage2_location[i].lba # 0, request.lba = machine.stage2_location[i].lba
    PROVE  Where = request.lba
<1> DEFINE l == request.lba
<1>1. l \in Nat /\ l < LBA_WIDTH /\ l < CYLINDERS * HEADS * SECTORS
  BY PieceIs, Zenon
<1>2. LBA_WIDTH \in Nat /\ LBA_WIDTH > 0
  BY BootAssumption
<1>3. l % LBA_WIDTH = l
  BY <1>1, <1>2, Rest
<1>4. AtCHS(lba_to_chs(l)) = l
  <2> HIDE DEF l
  <2> QED BY <1>1, <1>3, CHSBack DEF lba_to_chs
<1> QED BY <1>4 DEF Where

\* The sectors that have come, whether all of them or some.
LEMMA Comes ==
    ASSUME machine \in Machines, Whole, pc = "read", NEW n \in Nat, stage2' = Come(n)
    PROVE  /\ es \in Nat
           /\ stage2' = [k \in 1 .. machine.stage2 |-> stage2'[k]]
           /\ \A k \in DOMAIN stage2' : k <= es + n => stage2'[k] = machine.disk[machine.image + k - 1]
<1>1. PICK i \in DOMAIN machine.stage2_location :
          /\ machine.stage2_location[i].lba = machine.image + es /\ machine.stage2_location[i].lba # 0
          /\ request.lba = machine.stage2_location[i].lba
  BY DEF Whole
<1>2. Where = machine.image + es /\ machine.image \in Nat
  BY <1>1, WhereIs, PieceIs
<1>3. /\ es \in Nat /\ DOMAIN stage2 = 1 .. machine.stage2
      /\ \A k \in DOMAIN stage2 : k <= es => stage2[k] = machine.disk[machine.image + k - 1]
  BY DEF Whole
<1>4. stage2' = [k \in 1 .. machine.stage2 |->
                    IF es < k /\ k <= es + n THEN machine.disk[Where + k - es - 1] ELSE stage2[k]]
  BY <1>3 DEF Come
<1>5. ASSUME NEW k \in 1 .. machine.stage2, k <= es + n
      PROVE  stage2'[k] = machine.disk[machine.image + k - 1]
  <2>1. CASE k <= es
    <3>1. ~(es < k)
      BY <1>3, <2>1
    <3> QED BY <1>3, <1>4, <2>1, <3>1
  <2>2. CASE ~(k <= es)
    <3>1. es < k
      BY <1>3, <2>2
    <3>2. Where + k - es - 1 = machine.image + k - 1
      BY <1>2, <1>3
    <3> QED BY <1>4, <1>5, <3>1, <3>2
  <2> QED BY <2>1, <2>2
<1> QED BY <1>3, <1>4, <1>5

LEMMA ReadDoneStep ==
    ASSUME IInv, ReadDone, UNCHANGED stage2Vars
    PROVE  IInv'
<1> DEFINE piece == machine.stage2_location
<1>1. /\ pc = "read" /\ stage2' = Come(request.count) /\ es' = es + request.asked /\ pc' = "loop"
      /\ machine' = machine /\ partition_entry' = partition_entry /\ si' = si
  BY Zenon DEF ReadDone
<1>2. machine \in Machines /\ Untouched /\ (~machine.reports => Whole)
  BY <1>1 DEF IInv, Before, Loading
<1>3. Untouched'
  BY <1>1, <1>2, UntouchedOn DEF Loading
<1>4. ASSUME Whole PROVE Whole'
  <2>1. PICK i \in DOMAIN piece :
          /\ si = i + 1 /\ piece[i].lba = machine.image + es /\ piece[i].lba # 0
          /\ request = [lba |-> piece[i].lba, count |-> piece[i].count, asked |-> piece[i].count]
    BY <1>1, <1>4 DEF Whole
  <2> DEFINE n == piece[i].count
             l == piece[i].lba
  <2>2. /\ machine.image \in Nat /\ machine.stage2 \in Nat /\ n \in Nat
        /\ i + 1 \in DOMAIN piece
        /\ piece[i + 1].lba = IF l + n = machine.image + machine.stage2 THEN 0 ELSE l + n
    BY <1>2, <2>1, PieceIs
  <2>3. request.count = n /\ request.asked = n
    BY <2>1
  <2>4. /\ es \in Nat
        /\ stage2' = [k \in 1 .. machine.stage2 |-> stage2'[k]]
        /\ \A k \in DOMAIN stage2' : k <= es + n => stage2'[k] = machine.disk[machine.image + k - 1]
    BY <1>1, <1>2, <1>4, <2>2, <2>3, Comes
  <2>5. /\ es' = es + n /\ es' \in Nat
        /\ piece[si].lba = IF es' = machine.stage2 THEN 0 ELSE machine.image + es'
    <3> HIDE DEF n
    <3>1. es' = es + n /\ es' \in Nat
      BY <1>1, <2>2, <2>3, <2>4
    <3>2. l + n = machine.image + es'
      BY <2>1, <2>2, <2>4, <3>1
    <3>3. l + n = machine.image + machine.stage2 <=> es' = machine.stage2
      BY <2>2, <3>1, <3>2
    <3> QED BY <2>1, <2>2, <3>1, <3>2, <3>3
  <2> QED BY <1>1, <2>1, <2>2, <2>4, <2>5 DEF Whole
<1> QED BY <1>1, <1>2, <1>3, <1>4, Stage2Same, StaysBefore DEF Before, Loading

LEMMA ReadFailsStep ==
    ASSUME IInv, ReadFails, UNCHANGED stage2Vars
    PROVE  IInv'
<1>1. /\ pc = "read" /\ pc' = "reset"
      /\ machine' = machine /\ partition_entry' = partition_entry /\ si' = si /\ es' = es
  BY Zenon DEF ReadFails
<1>2. PICK n \in 0 .. request.count - 1 :
        /\ stage2' = Come(n)
        /\ request' = IF have_extensions /\ machine.reports
                      THEN [request EXCEPT !.count = n] ELSE request
  BY Zenon DEF ReadFails
<1>3. machine \in Machines /\ Untouched /\ (~machine.reports => Whole)
  BY <1>1 DEF IInv, Before, Loading
<1>4. Untouched'
  BY <1>1, <1>3, UntouchedOn DEF Loading
<1>5. ASSUME ~machine.reports PROVE Whole'
  <2>1. Whole /\ request' = request
    BY <1>2, <1>3, <1>5
  <2>2. n \in Nat
    BY <1>2
  <2>3. /\ es \in Nat
        /\ stage2' = [k \in 1 .. machine.stage2 |-> stage2'[k]]
        /\ \A k \in DOMAIN stage2' : k <= es + n => stage2'[k] = machine.disk[machine.image + k - 1]
    BY <1>1, <1>2, <1>3, <2>1, <2>2, Comes
  <2>4. machine.stage2 \in Nat
    BY <1>3, MachineIs
  <2>5. \A k \in DOMAIN stage2' : k <= es => stage2'[k] = machine.disk[machine.image + k - 1]
    <3>1. \A k \in 1 .. machine.stage2 : k <= es => k <= es + n
      BY <2>2, <2>3, <2>4
    <3>2. DOMAIN stage2' = 1 .. machine.stage2
      BY <2>3
    <3> QED BY <2>3, <3>1, <3>2
  <2> QED BY <1>1, <2>1, <2>3, <2>5 DEF Whole
<1> QED BY <1>1, <1>4, <1>5, Stage2Same, StaysBefore DEF Before, Loading

LEMMA ResetStep ==
    ASSUME IInv, disk_reset, UNCHANGED stage2Vars
    PROVE  IInv'
<1>1. /\ pc = "reset" /\ pc' \in {"reboot", "read"}
      /\ machine' = machine /\ partition_entry' = partition_entry /\ si' = si /\ es' = es
      /\ request' = request /\ stage2' = stage2
  BY DEF disk_reset
<1>2. CASE pc' = "reboot"
  BY <1>1, <1>2, Stage2Same, Halts
<1>3. CASE pc' = "read"
  <2>1. Untouched /\ (~machine.reports => Whole)
    BY <1>1 DEF IInv, Before, Loading
  <2>2. Untouched'
    BY <1>1, <1>3, <2>1, UntouchedOn DEF Loading
  <2>3. ~machine.reports => Whole'
    BY <1>1, <1>3, <2>1 DEF Whole
  <2> QED BY <1>1, <1>3, <2>2, <2>3, Stage2Same, StaysBefore DEF Before, Loading
<1> QED BY <1>1, <1>2, <1>3

--------------------------------------------------------------------------------
(* The theorems.                                                              *)

LEMMA Init ==
    ASSUME BootInit
    PROVE  IInv
<1>1. /\ machine \in Machines /\ pc = "start" /\ Stage1Init /\ Stage2Init
  BY Zenon DEF BootInit
<1>2. /\ fat = [partitionOffset |-> 0, BS |-> <<>>, DataSectionLba |-> 0, FatType |-> 0,
                FatCache |-> [k \in 1 .. FAT_CACHE_SIZE |-> [i \in 1 .. ENTRIES |-> [next |-> 0]]],
                FatCachePosition |-> END]
      /\ file = [h \in Handle \cup {ROOT_DIRECTORY_HANDLE} |-> NoFile]
      /\ walk = [depth |-> 0, current |-> ROOT_DIRECTORY_HANDLE, then |-> "header"]
      /\ want = 0 /\ out = <<>> /\ regions = <<>>
      /\ elf = [header |-> Junk, headers |-> <<>>, i |-> 1, virtAddress |-> 0]
      /\ memory = [a \in 0 .. MEMORY - 1 |-> Unset]
      /\ failed = FALSE /\ unnoticed = FALSE
  BY <1>1, Zenon DEF Stage2Init
<1>3. Untouched
  <2>1. fat \in [partitionOffset : Int, BS : {<<>>}, DataSectionLba : {0}, FatType : {0},
                 FatCache : {fat.FatCache}, FatCachePosition : {END}]
    BY <1>2
  <2>2. pc # "volume" /\ pc \notin Loading \cup {"stage2", "partition"}
    BY <1>1 DEF Loading
  <2> QED BY <1>2, <2>1, <2>2, Zenon DEF Untouched
<1>4. Whole
  <2> DEFINE piece == machine.stage2_location
  <2>1. si = 1 /\ es = 0 /\ stage2 = [k \in 1 .. machine.stage2 |-> Old]
    BY <1>1, Zenon DEF Stage1Init
  <2>2. /\ piece \in Seq([lba : Nat, count : Nat]) /\ piece # <<>>
        /\ piece[1].lba = IF machine.stage2 = 0 THEN 0 ELSE machine.image
        /\ machine.image \in Nat /\ machine.stage2 \in Nat
    BY <1>1, MachineIs, Zenon DEF SoundLoader
  <2>3. 1 \in DOMAIN piece
    <3> HIDE DEF piece
    <3> QED BY <2>2
  <2>4. piece[si].lba = IF es = machine.stage2 THEN 0 ELSE machine.image + es
    BY <2>1, <2>2
  <2>5. DOMAIN stage2 = 1 .. machine.stage2
        /\ \A k \in 1 .. machine.stage2 : ~(k <= 0)
    BY <2>1, <2>2
  <2>6. stage2 = [k \in 1 .. machine.stage2 |-> stage2[k]] /\ es \in Nat
        /\ \A k \in DOMAIN stage2 : ~(k <= es)
    BY <2>1, <2>5
  <2> QED BY <1>1, <2>1, <2>3, <2>4, <2>6 DEF Whole
<1>5. Returns /\ Mapped /\ HandedOver /\ NeverLost
  BY <1>1, <1>2 DEF Returns, Mapped, HandedOver, NeverLost, Going, Opening, InFile, Segments
<1> QED BY <1>1, <1>3, <1>4, <1>5 DEF IInv, Before, Loading, Going, Opening, InFile, Segments

LEMMA Stutters ==
    ASSUME IInv, UNCHANGED bootVars
    PROVE  IInv'
<1>1. /\ machine' = machine /\ pc' = pc /\ partition_entry' = partition_entry
      /\ UNCHANGED stage1Vars /\ UNCHANGED stage2Vars
  BY Zenon DEF bootVars
<1>2. /\ fat' = fat /\ file' = file /\ walk' = walk /\ want' = want /\ out' = out
      /\ e820' = e820 /\ regions' = regions /\ elf' = elf /\ memory' = memory
      /\ failed' = failed /\ unnoticed' = unnoticed
      /\ si' = si /\ es' = es /\ request' = request /\ stage2' = stage2
  BY <1>1, Zenon DEF stage1Vars, stage2Vars, fileVars, elfVars, mapVars
<1>3. Whole => Whole'
  BY <1>1, <1>2 DEF Whole
<1>4. Untouched => Untouched'
  BY <1>1, <1>2 DEF Untouched
<1>5. (Returns => Returns') /\ (Mapped => Mapped')
  BY <1>1, <1>2 DEF Returns, Mapped, Map, MapHanded
<1>6. Good => Good'
  <2> SUFFICES ASSUME Good PROVE Good'
    OBVIOUS
  <2>1. Typed /\ Mounted(fat) /\ Root /\ Directory /\ Walk /\ Reading /\ Segmented
    BY DEF Good
  <2>2. Typed' /\ Mounted(fat)'
    BY <1>1, <1>2, <2>1, MountedThen DEF Typed, IsFile, Handles
  <2>3. Root'
    BY <1>1, <1>2, <2>1 DEF Root, RootAt, RootSector, Findable, Searching
  <2>4. Directory'
    BY <1>1, <1>2, <2>1 DEF Directory, Searching, OnPlace
  <2>5. Walk'
    BY <1>1, <1>2, <2>1 DEF Walk, Findable
  <2>6. Segmented'
    <3>1. IsLoading' <=> IsLoading
      BY <1>1, <1>2, Zenon DEF IsLoading
    <3>2. /\ pc' \in {"table", "headers"} => pc \in {"table", "headers"}
          /\ pc' = "segment" <=> pc = "segment"
          /\ pc' \in Opening => pc \in Opening
      BY <1>1, Zenon DEF Opening
    <3>3. machine' = machine /\ elf' = elf /\ memory' = memory
      BY <1>1, <1>2, Zenon
    <3>4. Segmented
      BY <2>1, Zenon
    <3> QED BY <3>1, <3>2, <3>3, <3>4, SegmentedSame, ZenonT(60)
  <2>7. Reading'
    BY <1>1, <1>2, <2>1 DEF Reading, InKernel, OnPlace, Missed, Waits, From, Sought, Loaded,
                             Header, Asked, TableAt, Count
  <2> QED BY <2>2, <2>3, <2>4, <2>5, <2>6, <2>7 DEF Good
<1>7. HandedOver' /\ NeverLost'
  BY <1>1, <1>2 DEF IInv, HandedOver, NeverLost, InMemory, Small
<1> QED BY <1>1, <1>2, <1>3, <1>4, <1>5, <1>6, <1>7 DEF IInv

LEMMA Steps ==
    ASSUME IInv, BootNext
    PROVE  IInv'
<1>1. CASE Stage1Next /\ UNCHANGED stage2Vars
  BY <1>1, StartStep, NextPieceStep, ReadDoneStep, ReadFailsStep, ResetStep, Zenon DEF Stage1Next
<1>2. CASE Stage2Next
  <2>1. \/ DISK_Initialize \/ MBR_DetectPartition \/ FAT_Initialize
        \/ DetectFirst \/ DetectNext
        \/ ReadPiece \/ FAT_FindFile \/ FAT_OpenEntry
        \/ ELF_Read \/ ReadHeader \/ ReadHeaders
        \/ Segment \/ Seek \/ Load
    BY <1>2, Zenon DEF Stage2Next
  <2> QED BY <2>1, DiskStep, PartitionStep, InitializeStep, DetectFirstStep, DetectNextStep,
             ReadPieceStep, FindFileStep, OpenEntryStep, ELFReadStep, ReadHeaderStep,
             ReadHeadersStep, SegmentStep, SeekStep, LoadStep, Zenon
<1> QED BY <1>1, <1>2, Zenon DEF BootNext

\* The invariant holds of every boot: the loader has what lies on the disk in its
\* hands at every step, unless a sector was misread without notice
\* (stage1/boot.asm:47-176, stage2/main.c:18-53, fat.c, elf.c, memdetect.c).
THEOREM BootInvariance == BootSpec => []IInv
<1>1. BootInit => IInv
  BY Init
<1>2. IInv /\ [BootNext]_bootVars => IInv'
  BY Steps, Stutters
<1> QED BY <1>1, <1>2, PTL DEF BootSpec

\* The kernel that is started is the one on the disk, with zeros behind what the
\* file gives, and it is told the whole memory map (elf.c:52-94,
\* stage2/fat.c:252-367, memdetect.c:10-35).
THEOREM KernelHandedOver == BootSpec => []HandedOver
<1>1. IInv => HandedOver
  BY DEF IInv
<1> QED BY <1>1, BootInvariance, PTL

\* The loader runs into nothing that is not there, but in the cases NeverLost names
\* (stage1/boot.asm:121-138, 261-319, stage2/fat.c:374-385, 457-512).
THEOREM LoaderNeverLost == BootSpec => []NeverLost
<1>1. IInv => NeverLost
  BY DEF IInv
<1> QED BY <1>1, BootInvariance, PTL
================================================================================
