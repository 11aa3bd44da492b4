----------------------------------- MODULE Ata ----------------------------------
(******************************************************************************)
(* The polling disk driver (src/kernel/drivers/ata.c) and the drive it talks  *)
(* to.  The driver executes one port access, or one turn of a polling loop,   *)
(* per step; the drive works on its own between any two of them.  The drive   *)
(* is external: a register that is written and a command that is given while  *)
(* it works are ignored, as in the emulator that ata.h names.  A "slow" drive *)
(* shows BSY only some time after it was given a command, which the driver    *)
(* does not wait for.                                                         *)
(******************************************************************************)
EXTENDS Integers

CONSTANTS
    SECTORS,        \* of the disk
    WORDS,          \* in a sector: 256
    MaxCount,       \* sectors in a call
    POLLS           \* turns of the loop in ata_wait_drq: 30000

ASSUME AtaAssumption ==
    /\ {SECTORS, WORDS, MaxCount, POLLS} \subseteq Nat \ {0}

Sector == 0 .. SECTORS - 1
\* What a word holds: an old or a new version of a word of a sector, or nothing.
Nothing == <<SECTORS, 0, 0>>
Word == {<<l, w, v>> : l \in Sector, w \in 0 .. WORDS - 1, v \in 0 .. 1} \cup {Nothing}

VARIABLES
    kind,           \* "none", "atapi", "prompt" or "slow"
    disk,           \* [Sector -> [0 .. WORDS - 1 -> Word]]
    phase,          \* the drive is "idle", at "work", or "in" or "out" (DRQ)
    bsy, err,       \* its status bits; err stands for ERR and DF
    todo,           \* its command: [cmd, lba, left], and as "regs" for the next
    regs,
    sector, word,   \* the data it holds, and how many words of it have gone
    pc,             \* the driver: see Places
    call, buf,      \* the caller's request and its memory
    s, i, polls,    \* sector, word and turn of the loop
    answer,         \* what the call returned, "none" while it runs
    overtaken       \* the driver has returned while the drive was at work

driveVars == <<kind, disk, phase, bsy, err, todo, regs, sector, word>>
vars == <<driveVars, pc, call, buf, s, i, polls, answer, overtaken>>

Places == {"identify", "status", "idle", "bsy", "select", "command", "sector",
           "drq", "data", "flush", "flushed"}

NoCommand == [cmd |-> "none", lba |-> 0, left |-> 0]

Init ==
    /\ kind \in {"none", "atapi", "prompt", "slow"}
    /\ disk = [l \in Sector |-> [w \in 0 .. WORDS - 1 |-> <<l, w, 0>>]]
    /\ phase = "idle"
    /\ bsy = FALSE
    /\ err = FALSE
    /\ todo = NoCommand
    /\ regs = [lba |-> 0, left |-> 0]
    /\ sector = [w \in 0 .. WORDS - 1 |-> Nothing]
    /\ word = 0
    /\ pc = "identify"
    /\ call = [op |-> "identify", lba |-> 0, count |-> 1]
    /\ buf = [j \in 0 .. MaxCount * WORDS - 1 |-> Nothing]
    /\ s = 0
    /\ i = 0
    /\ polls = 0
    /\ answer = "none"
    /\ overtaken = FALSE

--------------------------------------------------------------------------------
(* The drive.                                                                 *)

\* The Command register is written.  An ATAPI device aborts these commands.
Give(cmd) ==
    /\ IF kind = "none" \/ phase # "idle"
       THEN UNCHANGED <<phase, bsy, err, todo, word>>
       ELSE /\ todo' = [cmd |-> cmd, lba |-> regs.lba, left |-> regs.left]
            /\ word' = 0
            /\ err' = (kind = "atapi")
            /\ phase' = IF kind = "atapi" THEN "idle" ELSE "work"
            /\ bsy' \in IF kind = "slow" THEN BOOLEAN ELSE {kind = "prompt"}
    /\ UNCHANGED <<kind, disk, regs, sector>>

ShowsBusy ==
    /\ phase = "work"
    /\ ~bsy
    /\ bsy' = TRUE
    /\ UNCHANGED <<kind, disk, phase, err, todo, regs, sector, word>>

Fails ==
    /\ phase' = "idle"
    /\ err' = TRUE
    /\ todo' = NoCommand
    /\ UNCHANGED <<disk, sector, word>>

\* A sector to read is in the drive's buffer; IDENTIFY has one of its own.
Fetch ==
    /\ todo.cmd \in {"identify", "read"}
    /\ \/ /\ todo.lba \in Sector
          /\ phase' = "in"
          /\ sector' = IF todo.cmd = "read" THEN disk[todo.lba]
                       ELSE [w \in 0 .. WORDS - 1 |-> Nothing]
          /\ UNCHANGED <<disk, err, todo, word>>
       \/ Fails

\* A write asks for its first sector, or has put one down and asks for the next.
Ask ==
    /\ todo.cmd = "write"
    /\ word = 0
    /\ \/ phase' = "out" /\ UNCHANGED <<disk, err, todo, sector, word>>
       \/ Fails

PutDown ==
    /\ todo.cmd = "write"
    /\ word = WORDS
    /\ \/ /\ todo.lba \in Sector
          /\ disk' = [disk EXCEPT ![todo.lba] = sector]
          /\ word' = 0
          /\ IF todo.left > 1
             THEN /\ todo' = [todo EXCEPT !.lba = @ + 1, !.left = @ - 1]
                  /\ phase' = "out"
             ELSE /\ todo' = NoCommand
                  /\ phase' = "idle"
          /\ UNCHANGED <<err, sector>>
       \/ Fails

\* Its write cache, which is not modelled.
Flush ==
    /\ todo.cmd = "flush"
    /\ phase' = "idle"
    /\ todo' = NoCommand
    /\ UNCHANGED <<disk, err, sector, word>>

Work ==
    /\ phase = "work"
    /\ bsy' = FALSE
    /\ Fetch \/ Ask \/ PutDown \/ Flush
    /\ UNCHANGED <<kind, regs>>

Drive == (ShowsBusy \/ Work) /\ UNCHANGED <<pc, call, buf, s, i, polls, answer, overtaken>>

--------------------------------------------------------------------------------
(* The driver.                                                                *)

Return(v) ==
    /\ pc' = "idle"
    /\ answer' = v
    /\ overtaken' = (overtaken \/ phase' # "idle")

\* ATA_Initialize.  It does not wait for BSY before it gives IDENTIFY.
ATA_Initialize ==
    /\ pc = "identify"
    /\ Give("identify")
    /\ pc' = "status"
    /\ UNCHANGED <<call, buf, s, i, polls, answer, overtaken>>

\* The status 0 of no drive, the wait for BSY, and the signature of a device
\* that is not a disk.
IdentifyStatus ==
    /\ pc = "status"
    /\ UNCHANGED driveVars
    /\ ~bsy
    /\ IF kind \in {"none", "atapi"}
       THEN Return("no")
       ELSE pc' = "drq" /\ UNCHANGED <<answer, overtaken>>
    /\ UNCHANGED <<call, buf, s, i, polls>>

\* A caller: main.c and FAT_Initialize call whatever ATA_Initialize said.  The
\* memory to be written holds words of the version v for the sectors asked for.
ATA_Call(op, lba, count, v) ==
    /\ pc = "idle"
    /\ call' = [op |-> op, lba |-> lba, count |-> count]
    /\ buf' = [j \in 0 .. MaxCount * WORDS - 1 |->
                  LET l == lba + j \div WORDS
                  IN IF op = "write" /\ l \in Sector THEN <<l, j % WORDS, v>> ELSE Nothing]
    /\ s' = 0
    /\ i' = 0
    /\ polls' = 0
    /\ answer' = "none"
    /\ pc' = "bsy"
    /\ UNCHANGED <<driveVars, overtaken>>

\* HAL_Initialize calls it, and main.c once more.
ATA_CallInitialize ==
    /\ pc = "idle"
    /\ call' = [op |-> "identify", lba |-> 0, count |-> 1]
    /\ s' = 0
    /\ i' = 0
    /\ polls' = 0
    /\ answer' = "none"
    /\ pc' = "identify"
    /\ UNCHANGED <<driveVars, buf, overtaken>>

\* A mutant of ata_wait_bsy: the status is not looked at.
ata_wait_bsy_Skipped(here, next) ==
    /\ pc = here
    /\ pc' = next
    /\ UNCHANGED <<driveVars, call, buf, s, i, polls, answer, overtaken>>

\* The loop turns as long as the bit is set.
ata_wait_bsy(here, next) ==
    /\ pc = here
    /\ ~bsy
    /\ pc' = next
    /\ UNCHANGED <<driveVars, call, buf, s, i, polls, answer, overtaken>>

ata_select_lba ==
    /\ pc = "select"
    /\ regs' = IF phase = "idle" THEN [lba |-> call.lba, left |-> call.count] ELSE regs
    /\ pc' = "command"
    /\ UNCHANGED <<kind, disk, phase, bsy, err, todo, sector, word,
                   call, buf, s, i, polls, answer, overtaken>>

Command ==
    /\ pc = "command"
    /\ Give(call.op)
    /\ pc' = "sector"
    /\ UNCHANGED <<call, buf, s, i, polls, answer, overtaken>>

\* A mutant of ata_wait_drq: the turns are not counted.
ata_wait_drq_NoLimit ==
    /\ pc = "drq"
    /\ UNCHANGED driveVars
    /\ IF err
       THEN Return("no") /\ UNCHANGED polls
       ELSE IF phase \in {"in", "out"}
       THEN pc' = "data" /\ polls' = 0 /\ UNCHANGED <<answer, overtaken>>
       ELSE UNCHANGED <<polls, pc, answer, overtaken>>
    /\ UNCHANGED <<call, buf, s, i>>

\* One turn of the loop.  BSY is not looked at.
ata_wait_drq ==
    /\ pc = "drq"
    /\ UNCHANGED driveVars
    /\ IF err
       THEN Return("no") /\ UNCHANGED polls
       ELSE IF phase \in {"in", "out"}
       THEN pc' = "data" /\ polls' = 0 /\ UNCHANGED <<answer, overtaken>>
       ELSE IF polls + 1 < POLLS
       THEN polls' = polls + 1 /\ UNCHANGED <<pc, answer, overtaken>>
       ELSE Return("no") /\ UNCHANGED polls
    /\ UNCHANGED <<call, buf, s, i>>

\* The Data register is read or written: after the last word of a sector the
\* drive goes on with the next one, or has finished its read.
Strobe ==
    /\ UNCHANGED <<kind, disk, err, regs>>
    /\ IF word + 1 < WORDS
       THEN word' = word + 1 /\ UNCHANGED <<phase, bsy, todo>>
       ELSE IF phase = "out"
       THEN word' = WORDS /\ phase' = "work" /\ bsy' = (kind = "prompt") /\ UNCHANGED todo
       ELSE /\ word' = 0
            /\ IF todo.cmd = "read" /\ todo.left > 1
               THEN /\ todo' = [todo EXCEPT !.lba = @ + 1, !.left = @ - 1]
                    /\ phase' = "work"
                    /\ bsy' = (kind = "prompt")
               ELSE todo' = NoCommand /\ phase' = "idle" /\ UNCHANGED bsy

\* A mutant of Advance: one sector too many.
Advance_OneMore ==
    IF i + 1 < WORDS
    THEN i' = i + 1 /\ UNCHANGED <<pc, s, answer, overtaken>>
    ELSE /\ i' = 0
         /\ IF call.op # "identify" /\ s < call.count
            THEN s' = s + 1 /\ pc' = "sector" /\ UNCHANGED <<answer, overtaken>>
            ELSE /\ UNCHANGED s
                 /\ IF call.op = "write"
                    THEN pc' = "flush" /\ UNCHANGED <<answer, overtaken>>
                    ELSE Return("yes")

\* What comes after the word i: the next, the next sector, or the end.
Advance ==
    IF i + 1 < WORDS
    THEN i' = i + 1 /\ UNCHANGED <<pc, s, answer, overtaken>>
    ELSE /\ i' = 0
         /\ IF call.op # "identify" /\ s + 1 < call.count
            THEN s' = s + 1 /\ pc' = "sector" /\ UNCHANGED <<answer, overtaken>>
            ELSE /\ UNCHANGED s
                 /\ IF call.op = "write"
                    THEN pc' = "flush" /\ UNCHANGED <<answer, overtaken>>
                    ELSE Return("yes")

\* A mutant of Where: the pointer starts anew with every sector.
Where_SameSector == i

\* Where the pointer buf is.
Where == s * WORDS + i

\* The loops over the words.  What IDENTIFY says is discarded.
DataWord ==
    /\ pc = "data"
    /\ IF call.op = "read" /\ phase = "in"
       THEN buf' = [buf EXCEPT ![Where] = sector[word]]
       ELSE UNCHANGED buf
    /\ IF call.op = "write" /\ phase = "out"
       THEN sector' = [sector EXCEPT ![word] = buf[Where]]
       ELSE UNCHANGED sector
    /\ IF phase \in {"in", "out"}
       THEN Strobe
       ELSE UNCHANGED <<kind, disk, phase, bsy, err, todo, regs, word>>
    /\ Advance
    /\ UNCHANGED <<call, polls>>

FlushCache ==
    /\ pc = "flush"
    /\ Give("flush")
    /\ pc' = "flushed"
    /\ UNCHANGED <<call, buf, s, i, polls, answer, overtaken>>

Flushed ==
    /\ pc = "flushed"
    /\ UNCHANGED driveVars
    /\ ~bsy
    /\ Return("yes")
    /\ UNCHANGED <<call, buf, s, i, polls>>

Driver ==
    \/ ATA_Initialize \/ IdentifyStatus
    \/ ata_wait_bsy("bsy", "select") \/ ata_select_lba \/ Command
    \/ ata_wait_bsy("sector", "drq") \/ ata_wait_drq \/ DataWord
    \/ FlushCache \/ Flushed

Caller == \/ \E op \in {"read", "write"}, lba \in Sector, count \in 1 .. MaxCount, v \in 0 .. 1 :
                 ATA_Call(op, lba, count, v)
          \/ ATA_CallInitialize

Next == Drive \/ Driver \/ Caller

Spec == Init /\ [][Next]_vars

\* The processor goes on, and so does the drive: the first holds while the task
\* runs, the second of a drive that is not broken.
FairSpec == Spec /\ WF_vars(Driver) /\ WF_vars(Drive)

--------------------------------------------------------------------------------
TypeOK ==
    /\ disk \in [Sector -> [0 .. WORDS - 1 -> Word]]
    /\ phase \in {"idle", "work", "in", "out"}
    /\ bsy => phase = "work"
    /\ word \in 0 .. WORDS
    /\ pc \in Places
    /\ buf \in [0 .. MaxCount * WORDS - 1 -> Word]
    /\ s \in 0 .. MaxCount - 1 /\ i \in 0 .. WORDS - 1 /\ polls \in 0 .. POLLS - 1

T == INSTANCE Transfer
     WITH answer <- IF call.op = "identify" THEN "no" ELSE answer

\* A call moves what it was asked to and its answer is true, wherever the drive
\* fails, for as long as no call has left the drive behind at work
\* (ata.c:102-149).  From then on the next call finds the late answer.
IsTransfer == T!Init /\ [][overtaken' \/ T!Next]_(T!transferVars)

\* No call returns while the drive still works on a command, so none finds the
\* answer to an earlier one: the limit of the poll for DRQ (ata.c:44) only ever
\* meets a drive that will not answer.  A slow drive is the exception.
NeverOvertakes == kind # "slow" => ~overtaken

\* The loops stay within the caller's memory (ata.c:109-117), and never overtake.
DriverSound == TypeOK /\ NeverOvertakes

\* Every call returns, whatever the drive does in between, if it goes on working
\* (ata.c:36-55: the wait for BSY has no limit of its own).
CallsReturn == pc # "idle" ~> pc = "idle"
================================================================================
