---------------------------------- MODULE Bios ----------------------------------
(******************************************************************************)
(* The machine as its BIOS shows it to the boot loader: a disk read by        *)
(* cylinder, head and sector or by sector number (int 13h), and a map of the  *)
(* memory (int 15h).  All of it is external; the loader's own conversions are *)
(* in Stage1 and Stage2.  A read may fail, and so may a reset.                *)
(******************************************************************************)
EXTENDS Integers, SequencesExt

CONSTANTS
    HEADS, SECTORS,  \* of the disk: heads, and sectors of a track
    CYLINDERS,       \* that int 13h can name: 2^10
    Machines         \* see BiosAssumption

\* A machine has a disk whose sectors are sequences of pieces, the partition
\* that is booted, the place of stage 2 and its length, a memory map, whether
\* the map's end is told with its last block or behind it, whether a failed read
\* reports how far it came, and whether it boots from a floppy disk.
ASSUME BiosAssumption ==
    /\ {HEADS, SECTORS, CYLINDERS} \subseteq Nat \ {0}
    /\ \A m \in Machines :
          /\ {m.floppy, m.endsWithLast, m.reports} \subseteq BOOLEAN
          /\ \A l \in DOMAIN m.disk : l \in 0 .. CYLINDERS * HEADS * SECTORS - 1
          /\ m.partition \in DOMAIN m.disk

VARIABLES
    machine,
    pc,             \* where the processor is, in either stage
    partition_entry \* the memory at 0x20000: "junk", "entry" or "driver"

\* The sector that int 13h takes <<cylinder, sector, head>> for.
AtCHS(chs) == ((chs[1] % CYLINDERS) * HEADS + chs[3]) * SECTORS + chs[2] - 1

Present(lba, n) == \A k \in 0 .. n - 1 : lba + k \in DOMAIN machine.disk
OnDisk(lba, n) == [k \in 1 .. n |-> machine.disk[lba + k - 1]]
================================================================================
