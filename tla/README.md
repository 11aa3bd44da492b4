# UamiOS in TLA+

UamiOS is a hobby operating system for 32-bit x86: a boot sector (stage 1), a
loader (stage 2) and a kernel with cooperative tasks, a page allocator, a FAT32
driver on a PIO disk, a text console with scrollback and a shell.  This directory
holds TLA+ models of its parts, the TLC configurations that check them on small
instances, and TLAPS proofs of what can be shown for every instance.

Paths below are those of the repository (`src/kernel/pmm.c`); a module's comment
gives the lines a definition or a property is about.

## The system and its parts

One processor, interrupts, no user mode.  Interrupt gates keep interrupts off in a
handler, so a handler is atomic; everything else may be interrupted between any
two instructions.  A switch between tasks happens only where the running task
calls `Scheduler_Yield`; the timer's handler only sets `g_NeedSchedule`, and each
task looks at that flag in its own loops.

| part | source | state it keeps | operations | talks to |
|---|---|---|---|---|
| page allocator | `pmm.c` | bitmap, free and total counters | `PMM_Initialize`, `AllocPage`, `FreePage` | called by the scheduler and `pmm_demo` |
| scheduler, threads | `scheduler.c`, `thread.c`, `scheduler_asm.asm` | task table, count, current task, `g_NeedSchedule` | `CreateTask`, `RegisterIdle`, `Yield`, `KillTask`, `Thread_*` | allocates and frees stacks; called by every task |
| kernel main, idle loop | `main.c` | none | start-up order, timer handler, idle loop with `hlt` | timer interrupt, scheduler |
| shell | `shell.c` | line buffer, working directory, demo flags | line editing, 20 commands, demo tasks | keyboard ring, console, scheduler, PMM, FAT |
| keyboard | `arch/i686/keyboard.c` | ring of 256, shift, caps, extended prefix | scancode handler (interrupt), `GetChar`, `HasChar` | echoes on the console from the handler |
| console | `arch/i686/vga_text.c`, `stdio.c` | screen, shadow scrollback ring, view offset, cursor | `VGA_putc`, scrolling, page up/down | written by tasks and by the keyboard's handler |
| FAT driver | `fs/fat.c` | FAT window cache, open handles | open, read, list, create, write, delete, disk info | ATA |
| ATA driver | `drivers/ata.c` | none (device registers) | PIO read and write with status polling | FAT |
| interrupts | `irq.c`, `i8259.c`, `isr.c`, `idt.c`, `gdt.c`, `timer.c`, `hal.c` | handler tables, PIC mask, gates | set-up, dispatch, EOI, unmask | timer, keyboard |
| stage 1 | `bootloader/stage1/boot.asm` | registers | loads stage 2, disk retries | BIOS |
| stage 2 | `bootloader/stage2/*` | FAT reader state | E820 map, FAT reading, ELF loading | BIOS, hands the map to the kernel |
| core library | `libs/core` | screen position | C++ text device, not linked into the kernel | - |
| build tools | `tools/fat`, `image`, `SConstruct`, `scripts` | - | image building | - |

What makes it hard: the keyboard's handler runs between any two steps of the shell
and shares with it the ring, the cursor and the screen; tasks share one table of
demo ids and flags across yields; a killed task's stack page goes back to the
allocator while contexts on it may still be loaded; the FAT driver ignores most
results of disk reads and writes and stops half-way when the disk is full; several
waits have no bound; the end of an interrupt does not say which one; the loader trusts
what it reads; and a number of limits (eight tasks, 256 keys, 200 lines of
scrollback, five cached FAT sectors, one cluster of entries per directory) are met
in ordinary use.

## Modules

| module | models | extends / uses |
|---|---|---|
| `Pmm` | the bitmap, the counters, `PMM_Initialize` one region at a time, `AllocPage`, `FreePage` | - |
| `PmmClients` | the allocator with its two callers, in any order | `Pmm` |
| `PmmProofs` | proofs about `PmmClients` | `PmmClients` |
| `Scheduler` | the task table, creation, yield, switch and kill, with any running task making any call | `Pmm`, `INSTANCE PmmClients` |
| `Kernel` | the calls the kernel's tasks really make: idle loop, shell commands, demo tasks, timer | `Scheduler` |
| `KernelProofs` | proofs about `Scheduler` and `Kernel` | `Kernel`, `INSTANCE PmmProofs` |
| `KeyQueue` | what the keyboard buffer promises: a bounded first-in first-out queue | - |
| `KeyRing` | the ring, with every read and write of the shell's side a step | `INSTANCE KeyQueue` |
| `ShellLine` | the prompt: line buffer, echo, type-ahead, backspace, Enter | `KeyRing` |
| `FatMap` | what the driver takes the allocation table to be: a map with allocation | - |
| `FatTable` | the table behind the driver's window of sectors, with a disk that may fail | `INSTANCE FatMap` |
| `FatVolume` | directories and files on the volume, one step per write, with power losses | - |
| `FatVolumeProofs` | proofs about `FatVolume` | `FatVolume` |
| `FatFile` | path walk, handles, sector buffers, reading and listing, the shell's directory, with reads that fail | - |
| `FatFileProofs` | proofs about `FatFile` | `FatFile` |
| `Transfer` | what the disk driver promises: words move between memory and the sectors asked for | - |
| `Ata` | the polling driver and the drive, one port access a step | `INSTANCE Transfer` |
| `DiskProofs` | proofs about the window over the table, and about driver and drive | `FatTable`, `Ata` |
| `Console` | the screen, its scrollback ring and the cursor, with keys echoed between any load and store | - |
| `ConsoleProofs` | proofs about `Console` | `Console` |
| `Keyboard` | the keyboard's bytes and their decoding by the handler | - |
| `Interrupts` | controller, gates, dispatch and the kernel's start, with timer and keyboard | `Keyboard` |
| `KeyboardProofs` | proofs about a key's way: the ring and the prompt that reads it, the interrupt, the decoding | `ShellLine`, `Interrupts` |
| `Bios` | the machine as the boot loader sees it | - |
| `Stage1`, `Stage2` | the boot sector; the loader, from the partition to the kernel's entry | `Bios` |
| `Boot` | the boot: one after the other, and what a sound machine is | `Stage1`, `Stage2` |
| `BootProofs` | proofs about `Boot` | `Boot` |

`MC*` modules give the constants of a run.

### Page allocator (`Pmm`, `PmmClients`)

`g_Used` is the set of pages whose bit is 1.  `PMM_InitRegion` is one turn of the
loop over the E820 map, with the rounding of a region's ends to pages;
`PMM_InitReserve` marks the kernel and page 0.  `PMM_AllocPage(page)` is first-fit
and is read as "the call returns `page`"; NULL and page 0 are the same value, as
they are in the program.  `PMM_FreePage` asks nothing of its argument but the bit.
`PmmClients` adds the callers' side: the pages each was given.  The scheduler tests
for NULL; `cmd_pmm_demo` does not, and frees the NULLs it was given after memory
ran out, which clears page 0's bit.

### Scheduler (`Scheduler`)

`g_Tasks` is three functions, one per field.  A stack pointer is abstracted to the
page it points into.  The program trusts that what it loads from there is the
task's own context; `fresh`, `frame_of` and `wild` say when that is so, and a switch
that loads anything else ends what the model describes (`Undefined`).  `passed` is a
history variable for the round-robin order, `killed_self` records that a task was
killed while it was running, which the code allows and then undoes: the next
`Scheduler_Yield` makes the running task READY whatever it was.

### The kernel's tasks (`Kernel`)

A program counter per task; one step from a point where an interrupt, a key or a
switch matters to the next.  `Kernel` EXTENDS `Scheduler` and is checked to refine
`SchedSpec`, so that what is shown about any caller holds for the real ones.
Ids the user types run over the task table; numbers so large that `cmd_kill`'s
`int` overflows are not modelled.

### Keyboard ring and prompt (`KeyRing`, `KeyQueue`, `ShellLine`)

The handler's `PutChar` is one step (interrupts are off); `HasChar` and `GetChar` are
six.  The refinement mapping reads the queue off the ring from head to tail, and a
character counts as taken when the head moves.

`ShellLine` puts `Shell_Run` around the ring: `Wait` is its wait for a key, the other
actions are what it does with one.  `shown` is what the screen has behind the prompt:
the handler adds to it when a key is typed (`Type`), the shell takes away from it when
it reads a backspace.  A line may be longer than a row, so `g_ScreenX` is there too: the
handler moves it on, and back to 0 behind the last cell; a backspace moves it back, but not to
the row above.  `LineShown` says that both agree once the shell has caught up,
and `astray` names the cases in which the code does not manage that: a character typed
while a backspace or a command waits, one dropped by the full ring or the full line
after its echo, and one that a backspace takes from the line while it stands at the end of the
row above the cursor (`shell.c:1166-1171`).  What is typed ahead during a command stands above the next prompt and
is still run by the next Enter.

### Allocation table (`FatTable`, `FatMap`)

`FatCache` and `FatCachePosition` are the driver's window; `Windows(s)` is the window
once sector `s` is in it, read or not, completely or up to the sector at which the
disk failed.  `fat_set_cluster` changes the entry in the window and writes all of the
window back.  `fat_alloc_cluster` is a loop of one step per cluster (`ScanNext`,
`ScanEnd`).  The driver ignores every result, so `failed` is a history variable that no
action reads.  `FatMap` is the table without a window; `IsMap` says that the one
implements the other on a disk that works.

### Directories and files (`FatVolume`)

`fat` is the table as `FatMap` has it, `sect` what the clusters hold, `step` the write
at which the running command is and `job` its locals.  A search or a read is part of
the step that follows it, since the driver serves one caller at a time.  Names are
short names: two names of different spelling that `fat_get_short_name` maps to the
same eleven characters are one name here, `".."` typed and `"."` stored among them.  Two ghosts
limit what is claimed.  `lost` collects clusters the driver is known to leave behind (a
refused or interrupted mkdir, a file whose writing stopped half-way, what was in a
removed directory); `Accounted` says that there are no others.  `harmed` is set in three
cases, in which the code leaves an entry of a freed cluster where a path still comes, and
from then on nothing but the types is claimed:

* the power goes during a removal (`PowerLoss`);
* a directory's own `"."` or `".."` is removed (`Spoils`), `rm d/..` for one;
* `print x >> d` is given a directory (`Spoils`).  The shell opens it like a file and reads 511
  bytes of its entries (`shell.c:871-880`), `FAT_WriteFile` frees the directory and writes them
  into a file of that name (`fat.c:797-883`), and since a path walk never asks whether a name
  on the way is a directory (`fat.c:353-378`), the old children are reached through that file, and
  through its `"."` and `".."` the freed cluster.

A `/` at the end of a path is an empty last name (`Blank`): `FAT_Open` goes through the names
in front of it (`Way`), while removal and creation look for the empty name
itself.  `Stray` is the
search that reads on behind a root directory without a free slot; what it reads depends
on the disk, so the behaviour ends there.

### Reading (`FatFile`)

`file` is `RootDirectory` and `OpenedFiles`; `at` says where the running command is:
walking a path, searching a directory, opening an entry, or in its own loop.
`FAT_Read` is a loop of `ReadPiece`, one step per sector touched; `want` is what it has
still to read and `out` what it has.  `FAT_Open`, `Walk`, `Search`, `Enter` and
`Missing` are the path walk with each of its early returns, `Opened`, `Cat`, `ListDir`
and `PrintAppend` what the commands do with the file.  `Loads` and `Nexts` are the two
ways to the disk; each may fail, and `failed`, which no action reads, remembers it.  What
a volume holds (`Contents`, `Listed`, `LookUp`) is defined from the chains alone, and
`ReadsAll` compares.  `Stray` is the root directory read on behind its last cluster, by
`cat /` or when it has no end mark; the behaviour stops there.  Writing is `FatVolume`'s:
here the volume becomes another one between two commands (`Changed`), any of `Volumes`, and
stays as it is while a command reads; `FatVolume` takes a search or a read as one step.

`g_CWD` is the shell's directory as a list of names, kept from one command to the next.  `cd`
looks a path up and keeps it; `cd ..` cuts it and asks nobody, and a path that is too
long is cut in silence (`build_path`, `MaxNames`).  After `mkdir d`, `cd d`, `rmdir /d` the
shell stands in a directory that is not there, and `cd ..` may take it from there to another
such.  So no invariant of `g_CWD` holds.  `CdFindsDirectory` is about the steps: where `cd`
takes the shell is a directory at that time, but for `cd ..` from a path that leads to none
any more.

### Console (`Console`)

`vga` holds the globals of `vga_text.c`.  `VGA_putc` of a task is a sequence of loads
and stores; the echo of a key (`Echo`), in the interrupt handler, is one step that may
come between any two.  `VGA_ScrollUp` computes its `maxOffset` before it is interrupted and
uses it after.  `gone` is a history variable: the lines that have scrolled off.
`torn` is set when an echo came in the middle of a task's output, when the screen was
cleared without its shadow, or when `sb_render` shows blanks for live lines; `ShadowKept`
claims nothing from then on, `CursorSound` holds always.

### Disk driver (`Ata`, `Transfer`)

The driver's step is one port access or one turn of a polling loop, and the drive works
between any two.  A drive is absent, an ATAPI device, prompt, or slow to show BSY.
It may fail any command and any sector, whichever the driver is at.  `T` maps the driver
to `Transfer`: on TRUE a read has moved every word asked for, and a write all but those
of its last sector, since a write error that comes with the flush is ignored
(`ata.c:140-143`).  `overtaken` marks that a call has returned while the drive was still
at work; `NeverOvertakes`, a part of `DriverSound`, says that only a drive that shows BSY
late gets there, so the limit of 30000 polls never cuts a transfer that would have
come.  `FatTable` and `FatVolume` take one call as one step.

### Interrupts (`Interrupts`, `Keyboard`)

`pic` is the controller: mask, first vector, requests, in-service bits and a request
that was withdrawn after it was shown, which becomes line 7.  `frames` are the interrupts
being handled; `Interrupt` enters one, `i686_ISR_Handler`, `i686_IRQ_Handler`,
`i8259_SendEndOfInterrupt` and `iret` are its way back.  `Start` is the kernel's start
in the order of `HAL_Initialize` and `start`, one action per step that a device can come
between.  `Keyboard` makes bytes from keys; each carries, as a ghost, what the user saw
on the key when he pressed it, and `DecodesRight` compares.  The end of an interrupt names
no line, and `InterruptsSound` shows that it is always the right one that ends.

Assumed: one shift key is held at a time (the handler has one flag for two, and
releasing either clears it); the keyboard's own buffer has room (the handler could not
know of a lost release); the timer's period is longer than its handling; the lines of
the second controller stay masked, as they do.  A machine without a controller calls
through a NULL pointer in `i686_IRQ_Unmask` (`irq.c:62-64`): what is executed there is
undefined and is modelled as an exception or an interrupt nobody has registered for, and
the properties except it.

### Boot (`Bios`, `Stage1`, `Stage2`, `Boot`)

`Stage1` reads the pieces of stage 2, by sector number or by cylinder, head and sector, each
with three tries; `Stage2` finds the partition, opens the volume, collects the memory
map, and walks from the root to `/boot/kernel.elf`, which it opens anew for the headers
and for every segment.  `ReadPiece` is one turn of `FAT_Read`'s loop, with the window over
the table (`Windows`), the next sector and cluster (`NextSector`), and each ignored
result.  A sector is a few pieces: an entry, the ELF header, a program header, a part of
a segment.  `failed` and `unnoticed` are ghosts: a sector could not be read; what was read
is not what the disk has and nobody noticed.  `lost` is every place where the program
would go on with something that is not there.

What the reading turned up, and the properties except by name:

* `FAT_Close` of the root directory keeps the sector in its buffer
  (`stage2/fat.c:378-382`): the second path walk starts in the old sector.  An entry that
  is the last one in the root's first sector is found by the first walk and not by the
  second, and NULL is read from (`bootAt` in `NeverLost`).
* `memcpy` and `memset` count with 16 bits (`stage2/memory.c:3-23`), while the buffer for loading
  has 64 KiB: a full piece is not copied at all (`Small` in `HandedOver`).
* The E820 loop drops a block that is returned with continuation 0, and has no test
  against the length of its array (`memdetect.c:19-31`).
* The packet of the extended read is reused for a retry with the count that the BIOS left
  (`stage1/boot.asm:294-312`; `machine.reports`).  Without extensions, stage 1 uses the low
  16 bits of a sector number.
* The results of reading the table are not looked at (`stage2/fat.c:271-275`); an entry of FAT12
  that straddles the window's end is completed from `FatCachePosition`; the end mark of
  FAT32 is not recognised, so such a file ends by its size only; a FAT32 volume of fewer than
  0xFF5 clusters is taken for FAT12; the root directory is read as consecutive sectors; a search
  does not stop at an end mark; a name that is no directory is walked into; the ELF header's
  check is computed and ignored, and so is the result of the read that skips to the program headers
  (`elf.c:43`).
* The partition's entry lies where the FAT driver's data will (0x20000): it is right
  only because `MBR_DetectPartition` comes before `FAT_Initialize` (`partition_entry`).

## Fairness

* `Kernel`: the timer is periodic (`WF` on `Timer`), the processor keeps executing
  (`WF` on the running task's `Step` and on `Boot`).  The shell at its prompt looks
  at `g_NeedSchedule` only while no key waits, so the other tasks depend on the
  user pausing: `SF` on the prompt's look at the flag says that he does, again and
  again.  No fairness is assumed of the user's commands.
* `ShellLine`: the shell keeps executing (`WF` on `Shell_Run`), and its commands return,
  which the end of `print`, `cat` and the like in the other modules justifies, and the
  demos' (`Kernel`) does too.  None is assumed of the keyboard.
* `FatFile`: the command goes on (`WF` on `Step`), whatever the disk answers.
* `Ata`: the processor goes on (`WF` on `Driver`), and the drive finishes or fails what it
  was told (`WF` on `Drive`).  The second is needed: the wait for BSY (`ata.c:36`) has no
  limit.
* `Boot`: the processor goes on (`WF` on `BootNext`); the BIOS returns from its calls.
* `Interrupts`: the processor takes interrupts and goes on in handlers (`WF` on `Taken` and
  `Handling`).  `SF` on `Start` and on the keyboard's `Interrupt(1)` says that ticks leave
  the processor time: the timer's line rises every 10 ms, and between two of its
  interrupts the kernel's start executes and a request behind it is served.

## Runs

| run | configuration | shows |
|---|---|---|
| `pmm` | `MCPmm.cfg` | bitmap, counters and grants agree for five shapes of E820 map on seven pages, through any calls of both callers |
| `scheduler` | `MCScheduler.cfg` | whatever the running task calls: exclusive stacks, intact contexts (`TasksSound`), round robin, dead tasks stay dead unless they killed themselves |
| `kernel` | `MCKernel.cfg` | the real tasks refine `SchedSpec`, the demos leave nothing behind, no page of a stack in use is given away, every READY task runs |
| `shell_line` | `MCShellLine.cfg` | the unlocked ring is a bounded queue, the screen shows the line that Enter will run but for the named cases, keys reach the shell |
| `fat_table` | `MCFatTable.cfg` | the window over the table does not show |
| `fat_volume` | `MCFatVolume.cfg` | no cluster has two owners, every cluster is accounted for, sizes and chains agree and directories are complete when they can be reached (`EntriesSound`), what was written reads back, other files are untouched; until the volume is harmed |
| `fat_file` | `MCFatFile.cfg` | handles fit their positions and are all given back, cat, ls and print see what the path names, cd takes the shell to directories only, every command ends; on volumes that change between commands |
| `console` | `MCConsole.cfg` | the cursor comes back to the screen whatever is echoed where; screen and history are what the shadow holds |
| `ata` | `MCAta.cfg` | a call that says TRUE has moved its words, whatever the drive does between two port accesses; it never returns ahead of a prompt drive; every call returns |
| `interrupts` | `MCInterrupts.cfg` | one interrupt at a time, the right line ends, none comes before its handler; bytes mean what was typed; the keyboard is served for ever |
| `boot` | `MCBoot.cfg` | the kernel that starts is the one on the disk, with the memory map, on nine machines with a disk that may fail at any read; the boot never runs astray unless a named exception holds; it ends |

Several properties are conjunctions of named parts (`TasksSound`, `KernelSound`, `DemosClean`,
`PagesAccounted`, `EntriesSound`, `HandlesSound`, `ShadowKept`, `CursorSound`,
`DriverSound`): the parts are stated, each with its comment, where they belong to.

One run checks a sentence of the sources that the code does not keep, and ends in a
counterexample:

| run | property | what happens |
|---|---|---|
| `kill_shell` | `DeadTerminated` | `kill 1` marks the shell's own task DEAD and frees its stack; its next yield makes it READY again, though utop's legend says "DEAD = terminated, slot freed" (`shell.c:492`) |

More disagreements were met and are not kept as runs:

* `sched_demo` says "Auto-stops after 15 seconds." (`shell.c:543`) and waits for ticks
  that nothing counts, since nobody calls `Scheduler_Tick` (`main.c:19`).
* The slot of a dead task is never used again (`scheduler.c:33-38`).
* On a full volume the allocation takes clusters that the volume has no sectors for:
  the search's limit counts the reserved sectors too, so "no free cluster" is said too late
  (`fat.c:214-223`).
* `rm d/..` frees the cluster of `d` itself, since nothing asks whether "Delete file"
  (`shell.c:181`) is one (`fat.c:776-784`).
* After more lines than the shadow keeps, "Any new output snaps back to live view"
  (`vga_text.c:157`) shows blanks, since a capped count is taken for a line's number
  (`vga_text.c:56`).
* "Flush write cache" (`ata.c:139`): a slow drive, still at work on the last sector, may
  ignore it, and an error is not looked at.
* A failed read of the table goes unnoticed and a cluster in use is handed out
  (`fat.c:188`; set `Errors = TRUE` in `MCFatTable.cfg` and check `AllocFindsFree`).
* A file touched twice is still found after `rm` said "Deleted" (`fat.c:633`, `shell.c:1017`).
* `print >>` keeps 511 bytes of the old file (`shell.c:871-877`), and turns a directory into a
  file of its entries (`FatVolume`, above).
* The shell stays in a directory that `rmdir` has removed (`shell.c:611-633`, `1008-1025`).
* "Erase character on screen" (`shell.c:1165`): in the first column of a row it does not.

### Bounds

* `MCPmm`: 7 pages of 4 bytes; the kernel's image begins and ends inside pages.  Each
  map has regions that begin and end inside pages, overlap, or pass the end of the
  bitmap; seven pages are enough for every grant, exhaustion and a second round.
* `MCScheduler`: four slots (idle, shell and two more, so that a search passes dead
  slots and wraps); memories that have room for every stack, for some, for one and for
  none.
* `MCKernel`: six slots, which three demo tasks beside idle and shell do not fill and
  a second demo does; ten pages; two pages for `pmm_demo` where the code takes five;
  two ticks for the waits.  `k` and the tick counter stop at the values the code
  compares them with.
* `MCShellLine`: four slots in the ring, two characters and the three keys that are none, a
  line of two characters: ring and line are empty, full, and at every position.  A row has two
  cells and a prompt ends in either, so a line goes on in the next row.
* `MCFatTable`: two entries to a sector, three sectors of table and a window of two,
  which can sit anywhere, across the end too; all initial tables with entries free or
  not.
* `MCFatVolume`: three clusters, three slots to a cluster (in a new directory `"."`,
  `".."` and one more), a file at the root, a directory, a file in it, and the directory with a `/` behind it; three pieces of
  old text for `print >>`, so that appending makes a file of two clusters.  The
  constraint `Sound` stops at `harmed`, and at a second lost cluster, which is
  a volume smaller by one; a file of an empty name (written to the path with the `/`) is looked at beside
  the directory and what is in it, not beside the root's `f`.
* `MCFatFile`: two pieces to a sector and two sectors to a cluster, so that each kind of
  boundary is met inside a file; a file of a cluster and a half, one of exactly one cluster,
  an empty one; a root of one cluster, of two, and without an end mark; a directory
  with room and a full one; two handles.  cat asks for three pieces, which no boundary
  is a multiple of.  Paths have room for three names, so that one is cut.  An allocation
  table that was not read says one of three things
  (`Unread`).  On the third volume the directory has been removed and a file has got its name, so
  that the shell may stand in what is a file now.  `Bounded` cuts only what follows a failed read:
  a chain that was not read may be a ring, and the shell stays at the root then.
* `MCConsole`: two rows of two cells and a shadow of five lines, which the head passes
  (`MaxHead` = 7).  The view `Seen` drops the cells once `torn`: no guard depends on
  them and no property looks at them.
* `MCAta`: two sectors of two words, calls of one or two sectors, so that a call reaches
  behind the end of the disk and fails in its first or second sector, with two versions of
  each word; two turns of the poll for DRQ.
* `MCInterrupts`: a letter, both shift keys, caps lock, an extended key that shares its code
  with the keypad, and the shift that a keyboard wraps such keys in; two bytes in the
  keyboard beside the one at the port, so a prefix can be apart from its byte.
* `MCBoot`: two pieces to a sector and two numbers to a sector of the table, a window of
  two sectors, two heads and two sectors of a track.  Nine machines: FAT12 floppy disks with the
  entry in the first and in the second sector, with a straddling entry, a fragmented file and an
  empty one, or without a kernel; FAT16 with clusters of two sectors; FAT32 with the
  entry at every place, a kernel that ends with its cluster and one that is too large;
  memory maps of 0 to 4 blocks where three have room, ended in both ways.  `Bounded` cuts
  what follows an unnoticed misreading of the table, where a chain may be a ring.

## Proofs

TLAPS proves, for every value of the constants that the modules' assumptions allow:

* `PmmProofs`: `TypeOK`, `FreeCount`, `Exclusive`, `FreeWithinTotal` and `PagesAccounted`
  of `PmmClients!Spec`, for every memory map.  The inductive invariant adds what the four
  need of each other: the two counters are equal while regions are freed
  (`CountersAgree`), the reserved pages are marked once memory is set up
  (`ReservedUsed`), and until an allocation fails free pages and granted pages together
  are no more than were counted (`Accounted`).  `FreeWithinTotal` alone is not inductive:
  that a free does not pass the total rests on the pages that are still granted.  For
  `PagesAccounted`, `Filled` says at each turn of the loop which regions have been freed.
* `KernelProofs`, on the scheduler: `TasksSound`, `DeadForGood`, `RoundRobin`, and that scheduler and demo
  call the allocator as it asks (`UsesPmmWell`).  `SInv` takes over the allocator's
  invariant for the pages that the table holds, and adds that a page is in the table once
  (`StacksApart`), who is alive while nobody has killed himself (`Alive`), that the
  context of each live task lies on its own page (`Contexts`, from which an intact
  switch follows), and that the tasks a waiting task has been passed by lie
  between it and the current one (`InOrder`, from which round robin follows).
* `KernelProofs`, on the kernel: that its tasks implement the scheduler's specification, `TypeOK`,
  and, under `LowMemory`, `KernelSound` and `DemosClean`.  `KInv` says which tasks may be
  alive in each phase of the shell's commands (`Phases`) and how many pages a demo holds
  (`DemoHeld`); that the page under the idle task is never handed out is a count: below the
  boot stack there are more usable pages than are ever held, and the allocator takes
  the lowest.
* `KeyboardProofs`, on the ring: `TypeOK`, `ReadIsOldest`, `NeverEmptyHanded`, and that the ring
  implements `KeyQueue`, for every size of at least two.  The invariant says that slots
  between head and tail hold characters (`Filled`), and that what the reader has loaded
  is still true (`ReaderAgrees`): the handler writes only the slot at the tail and never
  moves the head.  On top of it `LineShown`: `Echoes` says that the keys under way lead
  from the line that the shell has to the one on the screen.
* `DiskProofs`, on the table: `TableTypeOK`, `Coherent` and `BehindUntouched` on a disk that may fail;
  `AllocFindsFree` and the refinement of `FatMap` on one that does not, for every sector
  size, window size and length of the table.  The invariant is `TableTypeOK /\ Coherent`;
  the refinement adds `Passed`, that no cluster below the scan's counter is free.
* `FatVolumeProofs`: `EntriesSound`, `NoCrossLink`, `Accounted`, `ReadBack` and `OthersUntouched`,
  under `PlainNames`, for every size of volume and sector.  The invariant has two parts.  `Base` holds
  whatever is typed, of a volume that was harmed too: every cluster begins a chain that
  ends (so the driver's walk is a list without repetition, `ChainIsList`), and each step
  of a command knows what it has built: a new directory's cluster is marked and its two
  entries written before it is linked, and the chain of a new file has all the pieces that are
  counted as done (`WrittenTo`).  `Good` holds until the volume is harmed: the volume is
  `Sound` (one owner for each cluster, directories with their own entries and end, sizes
  and chains that agree, text within the sizes), the clusters are accounted for, and
  what the command relies on is so (`Placed`: a directory that it has found is still one,
  the file that it will record is the one a search finds first).  Neither `NoCrossLink` nor
  `Accounted` is inductive alone: that a removal loses no cluster twice needs that what lies
  below the entry is reached through it only (`BelowLink`), which needs the
  owners; that the directory is found again needs that opening a path never goes
  through what is being removed (`NoReturn`).  While a removal is under way the
  proof looks at the volume on which its entry is erased already (`Virtual`).
* `FatFileProofs`: `HandlesSound`, `ReadsAll` and `CdFindsDirectory`, for every size of sector, cluster
  and read, every number of handles, every path and every sound volume.  What a volume holds is
  defined by recursive functions (`LinksFrom`, `Steps`, `Lists`), so its first part is about
  volumes alone: that such a function exists and steps as it is written (`Recursion`,
  `Alike`), which piece of which cluster the k-th piece of a chain is, that a search which has
  passed k pieces has not found the name among them.  The invariant follows a command.  `Shape`,
  `Course` and `HandlesReturned` hold when reads fail too.  As long as none fails, the handle is
  the `Reader` of what the path leads to so far: it is in the cluster and the sector of its
  position with that sector in its buffer, or behind the end of its chain (`OnPlace`), and
  does not pass its size (`Sized`).  `Brought` says which pieces the running read has brought, and
  `Made` what the command has made of the pieces before them: none of them was the
  name looked for, or they are listed, or printed.  `ReadsAll` alone is not inductive: it looks
  at the end of a command only.  A directory is read without a size, and the shared handle of
  the root directory gives the last sector again behind its end; `Brought` then says only
  that the piece is one that was examined before, which is why the search cannot be
  misled by it.  `CdFindsDirectory` follows step by step: a command that reads has found its
  path on the volume that is there when it ends, and the first names of a path that leads to a
  directory lead to one too, so going up is right as long as the path below was.
* `DiskProofs`, on the driver: `DriverSound`, and that every call is a step of `Transfer`.  Neither is
  inductive by itself: `InStep` ties the driver's place to the drive's phase, sector by
  sector, as long as no call has left the drive behind, and `Progress` says which words
  have moved.
* `BootProofs`: `HandedOver` and `NeverLost`, for every machine that `BootAssumption` calls sound.  The
  invariant follows the boot.  `Whole`: what has come of stage 2 is what the disk has, and the next
  piece of the table is the one behind it; it is left out once the BIOS counts in the packet.
  `Mapped`: the blocks of the memory map so far, and what the BIOS answered last.  `Good` holds as
  long as nothing was misread without notice: the window over the table holds what the disk has at
  its position (`Mounted`), so a cluster's next one is what the table says (`NextIs`), on FAT12,
  FAT16 and FAT32.  A handle is at its place when cluster, sector and buffer are those of its
  position (`OnPlace`), and the running read has brought the pieces in front of it (`Reading`); the
  path walk has not passed what it looks for (`Searching`), and so finds it.  The root directory
  is read as consecutive sectors and its buffer is old after it was closed (`Root`), which
  is where `bootAt` comes from in `NeverLost`.  `Segmented`: the segments loaded so far are in
  memory, and of the one under way what was copied (`DoneTo`, `Now`); since segments do not overlap
  the next one leaves them alone.  `HandedOver` alone is not inductive: it looks at the last step
  only.
* `KeyboardProofs`, on the interrupts: `InterruptsSound` and, under `Layout`, `DecodesRight`.  `StartSound` and
  `Registered` follow the order of the start, `FrameSound` says what a frame means for the
  controller.  For the decoding the invariant `DInv` is a path: the handler's flags, sent
  through the bytes that wait, end where the keyboard is, and each byte says on the way
  what was meant.
* `ConsoleProofs`: `CursorSound` and `ShadowKept`, for every size of screen and scrollback.
  `Fits` says for each place in `VGA_putc` where the cursor may be, so that an echo at that
  place keeps it; `Register` says that what was loaded before an echo is still good for the
  store after it.  For the shadow, `Buffers` holds until something is torn: between
  moving the rows and moving the head the screen is that of the next head (`HalfShown`).  It
  rests on each cell having a place of its own in the ring (`CellOnce`).

Assumptions are those named in the modules (`PmmAssumption`, `SchedulerAssumption`,
`KernelAssumption`, `KeyRingAssumption`, `ShellLineAssumption`, `FatTableAssumption`, `FatVolumeAssumption`,
`FatFileAssumption`, `AtaAssumption`, `InterruptsAssumption`, `KeyboardAssumption`, `ConsoleAssumption`,
`BiosAssumption`, `Stage2Assumption`, `BootAssumption`), and TLC
evaluates each.  `FatFileAssumption` asks of a volume what `FatVolume` keeps of its own (`EntriesSound`):
every directory's chain has an end, what a directory shows is a directory again or a file
no longer than its chain, and a file's pieces are text, told apart from entries.  It asks no more: two
files may share clusters, a root directory may be without an end mark, what is behind the end mark
may be anything.  `BootAssumption` asks of a machine what the image's build
makes and what is beyond the loader's power to check: the boot sector's table lists all of stage 2, piece by
piece, in numbers that int 13h can be told (`SoundLoader`); whatever is named `boot` in a
directory is one that holds the kernel's entry at the places its chain leads to (`SoundRoot`);
whatever is named as the kernel holds the ELF file at the places of its chain, its size no more than
that, its program headers lie in its table, a segment's file size is not above its memory size, and segments do
not overlap (`SoundKernel`).  It leaves open how chains wind, the window's and
buffer's sizes, whether there is a directory `boot` at all, the sizes of segments and the memory
map.  Some
theorems have a hypothesis of their own.  The runs' constants satisfy all three, and a PC the first; of the
second it fails for two keys:

* `LowMemory`: on any map that is reported, the whole pages below the boot stack that are usable
  and not the kernel's are enough for the shell's stack and what one demo takes.  On a PC the stack is on
  page 15, the kernel at 1 MB, and pages 1 to 14 are conventional memory.
* `Layout`: the tables of `keyboard.c` fit the keyboard: no release byte is the prefix,
  page up and page down mean the same with the prefix and without, and extended keys,
  shift, caps lock and codes past the table have no character.  Of a PC's keys the keypad's Enter and
  `/` are extended and have one: the handler ignores what comes behind the prefix but page up and
  page down, so neither types anything, and `DecodesRight` is not claimed of them.
* `PlainNames`: no path that is typed has a last name that is stored as `"."`, and none has a name that is
  stored as `".."`.  `fat_get_short_name` takes a dot for the beginning of an extension, so that
  a typed `".."` is stored as `"."` and `"..."` as `".."` (`fat.c:106-127`).  A file
  made with such a name cannot be told from a directory's own entry, and `rm d/..` erases
  that entry.  Going through `".."` on the way to a plain name is allowed.  `VolumeBase` and
  `VolumeTyped` do without.

`IsMap` and `AllocFindsFree` assume a disk that does not fail (`~Errors`): on one that does
the code gives out clusters in use (see above).

The library's induction theorems take an operator, which the provers cannot be given.  Where a
proof needs induction over data (the turns of a tab's loop, a recursive function) it
argues from the least counterexample: `Least` gives one for any set of numbers,
`PathExists` that a function stepped through a set exists.

Only model-checked:

* everything under fairness (`ReadyRuns`, `KeysReachTheShell`, `CommandsEnd`, `CallsReturn`,
  `KeysAnswered`, `BootEnds`): liveness and `ENABLED` are out of the installed provers' reach.

## What is not modelled

* `Scheduler_Tick`: nothing calls it.  Task names and schedule counts.
* The commands of the shell that only print, and the splitting of a line into a command
  and its arguments.
* `printf` and the string and memory helpers of the kernel: sequential, without state.  Stage 2's
  `memcpy` and `memset` are in `Stage2`, for what they count with.
* The descriptors in `gdt.c` and `idt.c` and the 256 generated stubs, but for what a gate does to
  the interrupt flag and to a vector that has none.
* The mode switches of stage 2, and the characters of names: `Stage2` compares names.
* The C++ library, which is not linked into the kernel, and the build tools and scripts:
  formatting and file generation without behaviour that can interleave or fail.
* The depth of stacks: a task has one 4 KB page, and the file commands put buffers
  of 512 bytes and more on it; what a frame takes is not in the source.
* `FAT_GetDiskInfo`, which looks at 60000 clusters at most and not at the last two;
  the second copy of the FAT, which the driver never updates; clusters of several
  sectors in `FatVolume`; `VGA_clrscr`'s effect on the shadow beyond `torn`.
* What follows on a harmed volume: after a power loss during a removal the entry leads to free
  clusters (`fat.c:776-784`), and after the commands that `Spoils` names so do entries that a path
  still comes to.  The steps are there, but no property claims anything and the run stops.
* A `/` at the end of what is typed behind `cd` (the shell's directory then ends in one, and with a
  name appended has an empty name in it that nothing has), and a path whose last name is a typed
  `"."`.  `FatFile`'s volumes are sound ones: what a read makes of a harmed one is not looked at.
* Two shift keys held at once, and what a read or write of the disk does to the table after the
  first one that fails.

## Plan

All of the system's own logic has a module, and every safety property and refinement that a run
checks is proved, but for the one that a run refutes.  What could be added: what a harmed
volume does to the commands after, clusters of several sectors in `FatVolume`, and the commands of the shell that
only print.

`RefinesScheduler` composes `Kernel` with `Scheduler` and that with the page
allocator; `ShellLine` composes the prompt with the ring, `Boot` the two stages;
`FatFile`'s atomic counterpart is `Contents` and `Find` of `FatVolume`, and `Transfer` is what
`FatTable` takes a disk to be.

