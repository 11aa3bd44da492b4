--------------------------------- MODULE Stage1 ---------------------------------
(******************************************************************************)
(* The boot sector (src/bootloader/stage1/boot.asm): it puts the partition's  *)
(* entry away, asks for the disk extensions, reads the pieces of stage 2 that *)
(* the image script has written into its table, each with up to three tries,  *)
(* and jumps to what it has read.                                             *)
(******************************************************************************)
EXTENDS Bios

CONSTANTS
    RETRIES,        \* 3
    LBA_WIDTH,      \* sector numbers without the extensions: 2^16
    Old             \* what memory holds before it is written

VARIABLES
    have_extensions,
    si,                 \* the place in stage2_location
    es,                 \* the place in memory, counted in sectors
    request,            \* what disk_read was called for, and extensions_dap
    di,                 \* tries left
    stage2              \* the memory from STAGE2_LOAD_OFFSET on

stage1Vars == <<have_extensions, si, es, request, di, stage2>>

Stage1Init ==
    /\ partition_entry = "junk"
    /\ have_extensions = FALSE
    /\ si = 1
    /\ es = 0
    /\ request = [lba |-> 0, count |-> 0, asked |-> 0]
    /\ di = 0
    /\ stage2 = [k \in 1 .. machine.stage2 |-> Old]

lba_to_chs(lba) ==
    LET l == lba % LBA_WIDTH
    IN  <<(l \div SECTORS) \div HEADS, (l % SECTORS) + 1, (l \div SECTORS) % HEADS>>

Start ==
    /\ pc = "start"
    /\ partition_entry' = "entry"
    /\ have_extensions' \in BOOLEAN
    /\ pc' = "loop"
    /\ UNCHANGED <<machine, si, es, request, di, stage2>>

\* The next piece of stage 2; the table ends with sector 0.
NextPiece ==
    /\ pc = "loop"
    /\ LET piece == machine.stage2_location[si] IN
       IF piece.lba = 0
       THEN /\ pc' = IF stage2 = OnDisk(machine.image, machine.stage2)
                     THEN "stage2" ELSE "lost"
            /\ UNCHANGED <<si, request, di>>
       ELSE /\ pc' = "read"
            /\ si' = si + 1
            /\ request' = [lba |-> piece.lba, count |-> piece.count, asked |-> piece.count]
            /\ di' = RETRIES
    /\ UNCHANGED <<machine, partition_entry, have_extensions, es, stage2>>

Where == IF have_extensions THEN request.lba ELSE AtCHS(lba_to_chs(request.lba))

\* Memory, when n sectors have come.
Come(n) ==
    [k \in DOMAIN stage2 |->
        IF es < k /\ k <= es + n THEN machine.disk[Where + k - es - 1] ELSE stage2[k]]

ReadDone ==
    /\ pc = "read"
    /\ Present(Where, request.count)
    /\ stage2' = Come(request.count)
    /\ es' = es + request.asked
    /\ pc' = "loop"
    /\ UNCHANGED <<machine, partition_entry, have_extensions, si, request, di>>

\* The extensions may put into their packet how many sectors came; what is in a
\* register is saved and restored.
ReadFails ==
    /\ pc = "read"
    /\ \E n \in 0 .. request.count - 1 :
        /\ Present(Where, n)
        /\ stage2' = Come(n)
        /\ request' = IF have_extensions /\ machine.reports
                      THEN [request EXCEPT !.count = n] ELSE request
    /\ pc' = "reset"
    /\ UNCHANGED <<machine, partition_entry, have_extensions, si, es, di>>

\* A mutant of disk_reset: the tries are not counted.
disk_reset_Forever ==
    /\ pc = "reset"
    /\ pc' \in {"reboot", "read"}
    /\ UNCHANGED <<machine, partition_entry, have_extensions, si, es, request, di, stage2>>

\* A reset that fails, or the last try, ends in wait_key_and_reboot.
disk_reset ==
    /\ pc = "reset"
    /\ \/ pc' = "reboot" /\ UNCHANGED di
       \/ /\ di' = di - 1
          /\ pc' = IF di = 1 THEN "reboot" ELSE "read"
    /\ UNCHANGED <<machine, partition_entry, have_extensions, si, es, request, stage2>>

Stage1Next == Start \/ NextPiece \/ ReadDone \/ ReadFails \/ disk_reset
================================================================================
