--------------------------------- MODULE MCBoot ---------------------------------
(* Nine machines.  Two pieces to a sector and two numbers to a sector of the    *)
(* table, so that entries and segments lie on both sides of every boundary.      *)
EXTENDS Boot

MCEoc == (12 :> 50) @@ (16 :> 100) @@ (32 :> 200)

Entry(n, d, c, s) == [name |-> n, dir |-> d, first |-> c, size |-> s]
Other == Entry("OTHER", FALSE, 0, 0)
BOOT(c) == Entry("BOOT", TRUE, c, 0)
KERNEL(c, s) == Entry("KERNEL", FALSE, c, s)

Part(n) == [part |-> n]
PH(l, o, v, f, m) == [Load |-> l, Offset |-> o, VirtualAddress |-> v,
                      FileSize |-> f, MemorySize |-> m]
Kernel(phs, n) ==
    <<[ProgramHeaderTablePosition |-> 2, ProgramHeaderTableEntryCount |-> Len(phs)], Part(0)>>
    \o phs \o [k \in 1 .. n |-> Part(k)]

\* Two segments and a note, of nine pieces; one segment that ends with its
\* cluster; one that is too large.
Two == Kernel(<<PH(TRUE, 5, 0, 3, 4), PH(FALSE, 0, 0, 1, 1), PH(TRUE, 8, 5, 1, 2)>>, 4)
One == Kernel(<<PH(TRUE, 3, 1, 3, 3)>>, 3)
Large == Kernel(<<PH(TRUE, 3, 0, 5, 6)>>, 5)

Headers(k) == {k[i] : i \in {j \in DOMAIN k : "Load" \in DOMAIN k[j]}}

\* The sector s of a file, and of a table.
Sector(data, s) ==
    [i \in 1 .. 2 |-> IF 2 * s + i <= Len(data) THEN data[2 * s + i] ELSE Part(99)]
Table(t, s) ==
    [i \in 1 .. 2 |-> [next |-> IF 2 * s + i <= Len(t) THEN t[2 * s + i] ELSE 0]]

Image == 3
Stage2Sector(k) == <<[stage2 |-> k], Part(99)>>

\* A volume of a type: its reserved sectors, in which a floppy disk has stage 2,
\* the table, the root directory and the files; a file is the clusters it lies in
\* and its pieces, and on FAT32 the root directory is one.
Volume(type, perCluster, table, root, rootAt, files) ==
    LET reserved == IF type = 12 THEN 1 + Image ELSE 1
        perFat == (Len(table) + 1) \div 2
        first == reserved + perFat
        data == IF type = 32 THEN first ELSE first + (Len(root) + 1) \div 2
        lba(f, s) == data + (f.at[s \div perCluster + 1] - 2) * perCluster + (s % perCluster)
        sectors(f) == 0 .. Len(f.at) * perCluster - 1
        all == files \cup {[at |-> rootAt, data |-> root]}
        holds(f, l) == \E s \in sectors(f) : lba(f, s) = l
        places(f) == [n \in 1 .. Len(f.at) * perCluster |->
                         [cluster |-> f.at[(n - 1) \div perCluster + 1],
                          sector  |-> (n - 1) % perCluster]]
    IN  [bootPlaces |-> places(CHOOSE f \in files : "name" \in DOMAIN f.data[1]),
         kernelPlaces |-> places(CHOOSE f \in files : "name" \notin DOMAIN f.data[1]),
         root |-> IF type = 32 THEN {lba([at |-> rootAt], s) :
                                       s \in 0 .. Len(rootAt) * perCluster - 1}
                  ELSE first .. data - 1,
         clusters |-> 2 .. Len(table) - 1,
         sectors |->
            [l \in 0 .. data + (Len(table) - 2) * perCluster - 1 |->
                CASE l = 0 -> <<[ReservedSectors |-> reserved, FatCount |-> 1,
                                 SectorsPerFat |-> IF type = 32 THEN 0 ELSE perFat,
                                 LargeSectorsPerFat |-> perFat,
                                 DirEntryCount |-> IF type = 32 THEN 0 ELSE Len(root),
                                 RootDirectoryCluster |-> 2,
                                 SectorsPerCluster |-> perCluster,
                                 TotalSectors |-> data + (IF type = 12 THEN 1 ELSE 20) * perCluster],
                                Part(99)>>
                  [] 0 < l /\ l < reserved -> Stage2Sector(l)
                  [] reserved <= l /\ l < first -> Table(table, l - reserved)
                  [] type # 32 /\ first <= l /\ l < data -> Sector(root, l - first)
                  [] OTHER ->
                        IF \E f \in all : holds(f, l)
                        THEN LET f == CHOOSE f \in all : holds(f, l)
                             IN  Sector(f.data, CHOOSE s \in sectors(f) : lba(f, s) = l)
                        ELSE Sector(<<>>, 0)]]

\* A machine: a floppy disk is the volume; other disks have it behind stage 2.
Machine(floppy, v, kernel, bootAt, straddles, blocks, endsWithLast, reports) ==
    LET partition == IF floppy THEN 0 ELSE 1 + Image
        n == Cardinality(DOMAIN v.sectors)
    IN  [floppy |-> floppy, partition |-> partition, stage2 |-> Image, image |-> 1,
         stage2_location |-> <<[lba |-> 1, count |-> 2], [lba |-> 3, count |-> 1],
                               [lba |-> 0, count |-> 0]>>,
         disk |-> [l \in 0 .. partition + n - 1 |->
                      IF l >= partition THEN v.sectors[l - partition]
                      ELSE IF l = 0 THEN Sector(<<>>, 0) ELSE Stage2Sector(l)],
         bootPlaces |-> v.bootPlaces, kernelPlaces |-> v.kernelPlaces,
         root |-> v.root, clusters |-> v.clusters, straddles |-> straddles,
         entries |-> {e \in UNION {Range(v.sectors[l]) : l \in DOMAIN v.sectors} :
                        "name" \in DOMAIN e},
         kernel |-> kernel, headers |-> Headers(kernel),
         bootAt |-> bootAt, blocks |-> blocks, endsWithLast |-> endsWithLast,
         reports |-> reports]

File(at, data) == [at |-> at, data |-> data]

\* FAT12 and FAT16: the root directory in sectors of its own.
Floppy(root, size) ==
    Volume(12, 1, <<0, 0, 50, 5, 6, 4, 7, 50>>, root, <<>>,
           {File(<<2>>, <<Other, KERNEL(3, size)>>), File(<<3, 5, 4, 6, 7>>, Two)})
Sixteen ==
    Volume(16, 2, <<0, 0, 5, 4, 6, 100, 100>>, <<Other, Other, Other, BOOT(2)>>, <<>>,
           {File(<<2, 5>>, <<Other, Other, Other, Other, KERNEL(3, 9)>>),
            File(<<3, 4, 6>>, Two)})
\* FAT32: the root directory in clusters 2 and 3, and in 2 alone.
ThirtyTwo(root, kernel) ==
    Volume(32, 1, <<0, 0, 3, 200, 200, 8, 200, 6, 7>>, root, <<2, 3>>,
           {File(<<4>>, <<KERNEL(5, Len(kernel)), Other>>), File(<<5, 8, 7, 6>>, kernel)})

MCMachines ==
    {Machine(TRUE, Floppy(<<BOOT(2), Other>>, 9), Two, 1, {}, 3, TRUE, FALSE),
     Machine(TRUE, Floppy(<<Other, Other, BOOT(2)>>, 9), Two, 3, {5}, 2, FALSE, FALSE),
     Machine(TRUE, Floppy(<<BOOT(2), Other>>, 0), Two, 1, {}, 0, TRUE, FALSE),
     Machine(TRUE, Floppy(<<Other, Other, Other>>, 9), Two, 0, {}, 1, FALSE, FALSE),
     Machine(FALSE, Sixteen, Two, 4, {}, 2, FALSE, FALSE),
     Machine(FALSE, ThirtyTwo(<<BOOT(4), Other>>, One), One, 1, {}, 1, TRUE, FALSE),
     Machine(FALSE, ThirtyTwo(<<Other, BOOT(4)>>, One), One, 2, {}, 0, FALSE, FALSE),
     Machine(FALSE, ThirtyTwo(<<Other, Other, Other>>, One), One, 0, {}, 4, FALSE, FALSE),
     Machine(FALSE, ThirtyTwo(<<Other, Other, BOOT(4)>>, Large), Large, 3, {}, 3, TRUE, TRUE)}

\* Once the table was misread a chain may be a ring.
Bounded == ~unnoticed
================================================================================
