-------------------------------- MODULE FatFile --------------------------------
(******************************************************************************)
(* Opening, reading and listing (src/kernel/fs/fat.c:280-565) as the shell's  *)
(* ls, cat, cd and print call it and the commands that change a directory     *)
(* look it up (shell.c:639-649, 875-880, 958-978, 1027-1049, fat.c:596-607).  *)
(*                                                                            *)
(* The volume changes between the commands that read it, not while one does.  *)
(* A sector is SECTOR_SIZE pieces of 32 bytes, as in FatVolume: entries, or   *)
(* contents.  A read of the disk may fail; the driver looks at that only when *)
(* it opens an entry.                                                         *)
(******************************************************************************)
EXTENDS Integers, SequencesExt

CONSTANTS
    MAX_FILE_HANDLES,
    SECTOR_SIZE,         \* pieces in a sector
    SectorsPerCluster,
    CAT, EXISTING,       \* pieces that cat and "print >>" ask for
    RootDirCluster, EOC,
    Never, Erased,       \* pieces that begin with 0x00 and with 0xE5
    Junk,                \* a piece of the sectors in front of the first cluster
    Texts,               \* pieces of contents; the others are entries
    Volumes,             \* what may be on the disk: [next, piece], functions of
                         \* its clusters
    Args,                \* what is typed behind a command: [abs, names], names
                         \* being short names
    MaxNames,            \* how many names a path has room for: 255 characters
    Errors,              \* whether reads of the disk may fail
    Unread               \* what a table that was not read says

ROOT_DIR_HANDLE == -1
Handle == 0 .. MAX_FILE_HANDLES - 1
ClusterSize == SECTOR_SIZE * SectorsPerCluster
Commands == {"ls", "cat", "cd", "print", "lookup"}

--------------------------------------------------------------------------------
(* What is on a volume v, without the driver.                                 *)

IsEntry(x) == x \notin Texts \cup {Never, Erased, Junk}
NoEntry == [name |-> Never, dir |-> FALSE, first |-> 0, size |-> 0]
Root == [NoEntry EXCEPT !.dir = TRUE, !.first = RootDirCluster]

\* The cluster that n links lead to from c.
LinksFrom(v, c) ==
    LET to[n \in 0 .. Cardinality(DOMAIN v.next)] ==
            IF n = 0 THEN c
            ELSE LET before == to[n - 1]
                 IN  IF before \in DOMAIN v.next THEN v.next[before] ELSE before
    IN  to

\* The chain of c has an end, and how many clusters there are up to there.
HasEnd(v, c) == \E n \in 0 .. Cardinality(DOMAIN v.next) : LinksFrom(v, c)[n] = EOC
LengthOf(v, c) ==
    Min({n \in 0 .. Cardinality(DOMAIN v.next) : LinksFrom(v, c)[n] \notin DOMAIN v.next})

ChainOf(v, c) == LET to == LinksFrom(v, c) IN [n \in 1 .. LengthOf(v, c) |-> to[n - 1]]

PiecesOf(v, c) ==
    LET chain == ChainOf(v, c)
    IN  [k \in 1 .. Len(chain) * ClusterSize |->
            v.piece[chain[((k - 1) \div ClusterSize) + 1]][((k - 1) % ClusterSize) + 1]]

ContentsOf(v, e) ==
    IF e.dir THEN PiecesOf(v, e.first) ELSE SubSeq(PiecesOf(v, e.first), 1, e.size)

\* Where the entries of a directory are: in front of the end mark.
InView(s) == {k \in DOMAIN s : IsEntry(s[k]) /\ \A i \in 1 .. k : s[i] # Never}

Find(v, e, name) ==
    LET s == ContentsOf(v, e)
        hits == {k \in InView(s) : s[k].name = name}
    IN  IF hits = {} THEN NoEntry ELSE s[Min(hits)]

\* What the first n names of a path lead to.
Steps(v, p) ==
    LET to[n \in 0 .. Len(p)] == IF n = 0 THEN Root ELSE Find(v, to[n - 1], p[n])
    IN  to

\* What ls is to list of the first n pieces.
Lists(s) ==
    LET seen == InView(s)
        list[n \in 0 .. Len(s)] ==
            IF n = 0 THEN <<>>
            ELSE IF n \in seen THEN Append(list[n - 1], s[n]) ELSE list[n - 1]
    IN  list

\* Every directory has an end, and what it shows can be opened: a directory again, or
\* a file that is not longer than its chain and holds text.
SoundFrom(v, ds) ==
    /\ RootDirCluster \in ds
    /\ \A d \in ds :
        /\ HasEnd(v, d)
        /\ LET s == PiecesOf(v, d) IN
           \A k \in InView(s) :
              IF s[k].dir THEN s[k].first \in ds /\ s[k].size = 0
              ELSE LET t == PiecesOf(v, s[k].first)
                   IN  /\ s[k].first = 0 \/ HasEnd(v, s[k].first)
                       /\ s[k].size <= Len(t)
                       /\ \A i \in 1 .. s[k].size : t[i] \in Texts

Names == UNION {ToSet(a.names) : a \in Args}

ASSUME FatFileAssumption ==
    /\ MAX_FILE_HANDLES \in Nat \ {0}
    /\ SECTOR_SIZE \in Nat \ {0} /\ SectorsPerCluster \in Nat \ {0}
    /\ CAT \in Nat \ {0} /\ EXISTING \in Nat \ {0} /\ MaxNames \in Nat
    /\ Never \notin Texts \cup Names
    /\ \A a \in Args : a.names \in Seq(Names)
    /\ \A v, w \in Volumes : DOMAIN v.next = DOMAIN w.next
    /\ \A v \in Volumes :
        LET cluster == DOMAIN v.next IN
        /\ IsFiniteSet(cluster)
        /\ {0, EOC} \cap cluster = {} /\ EOC # 0
        /\ v.next \in [cluster -> cluster \cup {0, EOC}]
        /\ Unread \subseteq cluster \cup {0, EOC}
        /\ \A c \in cluster, i \in 1 .. ClusterSize :
              LET x == v.piece[c][i]
              IN  IsEntry(x) => x.dir \in BOOLEAN /\ x.first \in cluster \cup {0} /\ x.size \in Nat
        /\ \E ds \in SUBSET cluster : SoundFrom(v, ds)

VARIABLES
    volume,
    g_CWD,      \* the shell's directory, as the names of its path
    file,       \* RootDirectory and OpenedFiles
    command,
    at,         \* where the command is
    path,       \* the path it was given
    depth,      \* how many names of it FAT_Open has gone through
    current,    \* the handle it has reached
    want,       \* what FAT_Read has still to read; 0 outside it
    out,        \* what it has read
    got,        \* what the command has made of that so far
    answer,     \* whether the path was there
    failed      \* a read of the disk has failed

vars == <<volume, g_CWD, file, command, at, path, depth, current, want, out, got, answer, failed>>
Cluster == DOMAIN volume.next

SectorOf(c, s) ==
    [i \in 1 .. SECTOR_SIZE |->
        IF c \in Cluster THEN volume.piece[c][s * SECTOR_SIZE + i] ELSE Junk]

Closed == [Opened |-> FALSE, IsDirectory |-> FALSE, Position |-> 0, Size |-> 0,
           FirstCluster |-> 0, CurrentCluster |-> 0, CurrentSectorInCluster |-> 0,
           Buffer |-> [i \in 1 .. SECTOR_SIZE |-> Junk]]

Init ==
    /\ volume \in Volumes
    /\ file = [h \in Handle \cup {ROOT_DIR_HANDLE} |->
                  IF h \in Handle THEN Closed
                  ELSE [Closed EXCEPT !.Opened = TRUE, !.IsDirectory = TRUE,
                                      !.FirstCluster = RootDirCluster,
                                      !.CurrentCluster = RootDirCluster,
                                      !.Buffer = SectorOf(RootDirCluster, 0)]]
    /\ g_CWD = <<>>
    /\ command = "cd"
    /\ at = "idle"
    /\ path = <<>>
    /\ depth = 0
    /\ current = ROOT_DIR_HANDLE
    /\ want = 0
    /\ out = <<>>
    /\ got = <<>>
    /\ answer = TRUE
    /\ failed = FALSE

--------------------------------------------------------------------------------
(* The functions of the driver that the steps below are made of.              *)

\* A mutant: always the first sector of the cluster.
Loads_FirstSector(f) ==
    {[file |-> [f EXCEPT !.Buffer = SectorOf(f.CurrentCluster, 0)], ok |-> TRUE]}

\* The outcomes of disk_read: the sector at the file's place, or what was there.
Loads(f) ==
    {[file |-> [f EXCEPT !.Buffer =
                    SectorOf(f.CurrentCluster, f.CurrentSectorInCluster)],
      ok   |-> TRUE]}
    \cup (IF Errors THEN {[file |-> f, ok |-> FALSE]} ELSE {})

\* The outcomes of fat_next_cluster; a table that was not read says what is in Unread.
\* The entry of cluster 0 is reserved, and reads as an end.
Nexts(c) ==
    {[cluster |-> IF c = 0 THEN EOC ELSE volume.next[c], ok |-> TRUE]}
    \cup (IF Errors THEN [cluster : Unread, ok : {FALSE}] ELSE {})

\* A mutant: the cluster stays.
Rewound_KeepsCluster(f) == [f EXCEPT !.Position = 0, !.CurrentSectorInCluster = 0]

Rewound(f) == [f EXCEPT !.Position = 0, !.CurrentCluster = f.FirstCluster,
                        !.CurrentSectorInCluster = 0]

\* What FAT_Read makes of the number asked for: a directory has no size, until
\* its end has been met.
Clipped(f, n) ==
    IF f.IsDirectory /\ f.Size = 0 THEN n
    ELSE Min({n, f.Size - f.Position})

\* FAT_Read is called for n pieces; ReadPiece does the rest.
Read(f, n) ==
    /\ want' = Clipped(f, n)
    /\ out' = <<>>

\* FAT_Close.
Close ==
    file' = [file EXCEPT ![current] =
                IF current = ROOT_DIR_HANDLE THEN Rewound(@)
                ELSE [@ EXCEPT !.Opened = FALSE]]

\* A mutant of CwdAfter: cd does not ask whether it is a directory.
CwdAfter_AnyFile(found) == IF found /\ command = "cd" THEN path ELSE g_CWD

\* cd goes to a directory that it could open.
CwdAfter(found) ==
    IF found /\ command = "cd" /\ file[current].IsDirectory THEN path ELSE g_CWD

\* The command is over; the path was there or not.
Idle(found) ==
    /\ at' = "idle"
    /\ g_CWD' = CwdAfter(found)
    /\ answer' = found
    /\ out' = <<>>
    /\ want' = 0
    /\ UNCHANGED <<volume, command, path, depth, current>>

--------------------------------------------------------------------------------
(* FAT_Read                                                                   *)

\* The next sector of the file, in its next cluster when this one is done.
NextSector(f) ==
    IF f.CurrentSectorInCluster + 1 < SectorsPerCluster
    THEN {[file |-> [f EXCEPT !.CurrentSectorInCluster = @ + 1], ok |-> TRUE]}
    ELSE {[file |-> [f EXCEPT !.CurrentSectorInCluster = 0, !.CurrentCluster = n.cluster],
           ok   |-> n.ok] : n \in Nexts(f.CurrentCluster)}

\* A mutant: no size for a directory.
AtEnd_NoSize(f) == f

\* The end of the chain gives a file its size; the root directory none.
AtEnd(f) == [f EXCEPT !.Size = IF current = ROOT_DIR_HANDLE THEN @ ELSE f.Position]

\* One turn of the loop of FAT_Read: what the buffer has, and the next sector
\* when it is used up.
ReadPiece ==
    /\ want > 0
    /\ LET f == file[current]
           from == f.Position % SECTOR_SIZE
           take == Min({want, SECTOR_SIZE - from})
           moved == [f EXCEPT !.Position = @ + take]
       IN
       /\ out' = out \o SubSeq(f.Buffer, from + 1, from + take)
       /\ \/ /\ from + take < SECTOR_SIZE
             /\ want' = want - take
             /\ file' = [file EXCEPT ![current] = moved]
             /\ UNCHANGED <<at, failed>>
          \/ /\ from + take = SECTOR_SIZE
             /\ f.CurrentCluster # EOC
             /\ \E n \in NextSector(moved) :
                \/ /\ n.file.CurrentCluster = EOC
                   /\ want' = 0
                   /\ file' = [file EXCEPT ![current] = AtEnd(n.file)]
                   /\ failed' = (failed \/ ~n.ok)
                \/ /\ n.file.CurrentCluster # EOC
                   /\ want' = want - take
                   /\ \E l \in Loads(n.file) :
                        /\ file' = [file EXCEPT ![current] = l.file]
                        /\ failed' = (failed \/ ~n.ok \/ ~l.ok)
             /\ UNCHANGED at
    /\ UNCHANGED <<volume, g_CWD, command, path, depth, current, got, answer>>

\* The root directory is read on behind its last cluster: fat_next_cluster looks
\* up 0x0FFFFFFF, and what is read from then on depends on the disk.
Stray ==
    /\ want > 0
    /\ file[current].CurrentCluster = EOC
    /\ (file[current].Position % SECTOR_SIZE) + want >= SECTOR_SIZE
    /\ at' = "astray"
    /\ want' = 0
    /\ out' = <<>>
    /\ UNCHANGED <<volume, g_CWD, file, command, path, depth, current, got, answer, failed>>

--------------------------------------------------------------------------------
(* FAT_Open                                                                   *)

\* build_path; what there is no room for is cut off.  ls without a name lists g_CWD.
build_path(arg) ==
    LET all == IF arg.abs THEN arg.names ELSE g_CWD \o arg.names
    IN  SubSeq(all, 1, Min({MaxNames, Len(all)}))

\* A command comes to the driver, which rewinds and reads the root directory.
\* cd and the look-up of a directory do not ask it for the root; of the others
\* only ls goes without a name.
FAT_Open(c, arg) ==
    /\ at = "idle"
    /\ arg.abs \/ arg.names # <<>> \/ c = "ls"
    /\ c \in {"cd", "lookup"} => build_path(arg) # <<>>
    /\ \E l \in Loads(Rewound(file[ROOT_DIR_HANDLE])) :
        /\ file' = [file EXCEPT ![ROOT_DIR_HANDLE] = l.file]
        /\ failed' = (failed \/ ~l.ok)
    /\ at' = "walk"
    /\ command' = c
    /\ path' = build_path(arg)
    /\ depth' = 0
    /\ current' = ROOT_DIR_HANDLE
    /\ got' = <<>>
    /\ UNCHANGED <<volume, g_CWD, want, out, answer>>

\* cd with nothing or "/", and cd with "..": the path alone changes.
CdRoot ==
    /\ at = "idle"
    /\ g_CWD' = <<>>
    /\ UNCHANGED <<volume, file, command, at, path, depth, current, want, out, got, answer, failed>>

\* Whether either path still leads to a directory is not asked.
CdUp ==
    /\ at = "idle"
    /\ g_CWD # <<>>
    /\ g_CWD' = Front(g_CWD)
    /\ UNCHANGED <<volume, file, command, at, path, depth, current, want, out, got, answer, failed>>

\* fat_find_in_dir begins with the next name.
Walk ==
    /\ at = "walk"
    /\ depth < Len(path)
    /\ \E l \in Loads(Rewound(file[current])) :
        /\ file' = [file EXCEPT ![current] = l.file]
        /\ failed' = (failed \/ ~l.ok)
        /\ Read(l.file, 1)
    /\ at' = "search"
    /\ UNCHANGED <<volume, g_CWD, command, path, depth, current, got, answer>>

Ends == \A i \in DOMAIN out : out[i] = Never

CloseFile == IF current = ROOT_DIR_HANDLE THEN UNCHANGED file ELSE Close

\* A mutant of Missing: the directory stays open.
Missing_KeepsOpen ==
    /\ Idle(FALSE)
    /\ UNCHANGED <<file, got, failed>>

\* The name is not in the directory.
Missing ==
    /\ Idle(FALSE)
    /\ CloseFile
    /\ UNCHANGED <<got, failed>>

\* An entry has been read: the search goes on, or ends.
Search ==
    /\ at = "search" /\ want = 0
    /\ \/ /\ Ends
          /\ Missing
       \/ /\ ~Ends
          /\ IsEntry(out[1]) /\ out[1].name = path[depth + 1]
          /\ CloseFile
          /\ at' = "enter"
          /\ UNCHANGED <<volume, g_CWD, command, path, depth, current, want, out, got, answer, failed>>
       \/ /\ ~Ends
          /\ ~(IsEntry(out[1]) /\ out[1].name = path[depth + 1])
          /\ Read(file[current], 1)
          /\ UNCHANGED <<volume, g_CWD, file, command, at, path, depth, current, got, answer, failed>>

\* fat_open_entry: the first handle that is free, if one is.
Enter ==
    /\ at = "enter"
    /\ LET free == {h \in Handle : ~file[h].Opened}
           e == out[1]
           opened == [Closed EXCEPT !.Opened = TRUE, !.IsDirectory = e.dir,
                                    !.Size = e.size, !.FirstCluster = e.first,
                                    !.CurrentCluster = e.first]
       IN
       \/ /\ free = {}
          /\ Idle(FALSE)
          /\ UNCHANGED <<file, got, failed>>
       \/ \E h \in free, l \in Loads(opened) :
          /\ \A g \in free : h <= g
          /\ failed' = (failed \/ ~l.ok)
          /\ \/ /\ l.ok
                /\ file' = [file EXCEPT ![h] = l.file]
                /\ current' = h
                /\ depth' = depth + 1
                /\ at' = "walk"
                /\ out' = <<>>
                /\ UNCHANGED <<volume, g_CWD, command, path, want, got, answer>>
             \/ /\ ~l.ok
                /\ file' = [file EXCEPT ![h] = [l.file EXCEPT !.Opened = FALSE]]
                /\ Idle(FALSE)
                /\ UNCHANGED got

--------------------------------------------------------------------------------
(* What the commands do with the file.                                        *)

Asks == CASE command = "cat" -> CAT [] command = "print" -> EXISTING [] OTHER -> 1

Reads == \/ command \in {"cat", "print"}
         \/ command = "ls" /\ file[current].IsDirectory

\* The whole path has been gone through: cat, print and, for a directory, ls
\* read; the others have seen what they want.
Opened ==
    /\ at = "walk"
    /\ depth = Len(path)
    /\ \/ /\ Reads
          /\ at' = command
          /\ Read(file[current], Asks)
          /\ UNCHANGED <<volume, g_CWD, file, command, path, depth, current, got, answer, failed>>
       \/ /\ ~Reads
          /\ Close
          /\ Idle(TRUE)
          /\ UNCHANGED <<got, failed>>

\* cmd_cat: until a read gives nothing.
Cat ==
    /\ at = "cat" /\ want = 0
    /\ \/ /\ out # <<>>
          /\ got' = got \o out
          /\ Read(file[current], CAT)
          /\ UNCHANGED <<volume, g_CWD, file, command, at, path, depth, current, answer, failed>>
       \/ /\ out = <<>>
          /\ Close
          /\ Idle(TRUE)
          /\ UNCHANGED <<got, failed>>

\* FAT_ListDir: one entry.  Long names, labels and the like are left out.
ListDir ==
    /\ at = "ls" /\ want = 0
    /\ \/ /\ ~Ends
          /\ got' = IF IsEntry(out[1]) THEN Append(got, out[1]) ELSE got
          /\ Read(file[current], 1)
          /\ UNCHANGED <<volume, g_CWD, file, command, at, path, depth, current, answer, failed>>
       \/ /\ Ends
          /\ CloseFile
          /\ Idle(TRUE)
          /\ UNCHANGED <<got, failed>>

\* cmd_print reads once.
PrintAppend ==
    /\ at = "print" /\ want = 0
    /\ got' = out
    /\ Close
    /\ Idle(TRUE)
    /\ UNCHANGED failed

Step ==
    \/ ReadPiece \/ Stray
    \/ Walk \/ Search \/ Enter
    \/ Opened \/ Cat \/ ListDir \/ PrintAppend

\* touch, mkdir, rm, rmdir and print have looked the directory up and gone on to
\* change the volume, as FatVolume has it.  None of them asks for g_CWD.
Changed ==
    /\ at = "idle"
    /\ volume' \in Volumes
    /\ command' = "cd" /\ path' = <<>> /\ depth' = 0 /\ answer' = TRUE /\ got' = <<>>
    /\ UNCHANGED <<g_CWD, file, at, current, want, out, failed>>

Next ==
    \/ Step \/ CdRoot \/ CdUp \/ Changed
    \/ \E c \in Commands, arg \in Args : FAT_Open(c, arg)

Spec == Init /\ [][Next]_vars

\* The processor goes on; nobody has to give a command.
FairSpec == Spec /\ WF_vars(Step)

--------------------------------------------------------------------------------
(* What is on the volume.                                                     *)

Chain(c) == ChainOf(volume, c)
Contents(e) == ContentsOf(volume, e)
LookUp(p) == Steps(volume, p)[Len(p)]

\* The entries of a directory.
Listed(e) == Lists(Contents(e))[Len(Contents(e))]

--------------------------------------------------------------------------------
\* The handle in use is sound: as long as no read has failed its cluster, its
\* sector and its buffer are those of its position, across the ends of
\* sectors, clusters and the chain, and a file's position is not behind its
\* size, from which it is subtracted without a sign (fat.c:390, 398-429).
HandleSound ==
    at \in {"walk", "search", "cat", "ls", "print"} /\ ~failed =>
        LET f == file[current]
            chain == Chain(f.FirstCluster)
            k == f.Position \div ClusterSize
        IN  /\ f.Opened
            /\ f.IsDirectory \/ f.Position <= f.Size
            /\ IF k >= Len(chain) THEN f.CurrentCluster \in {EOC, 0}
               ELSE /\ f.CurrentCluster = chain[k + 1]
                    /\ f.CurrentSectorInCluster
                          = (f.Position % ClusterSize) \div SECTOR_SIZE
                    /\ f.Buffer = SectorOf(f.CurrentCluster, f.CurrentSectorInCluster)

\* Every handle is given back, on each way out and when the disk fails too: one
\* at most is open, and none between commands (fat.c:304-307, 366-377, 470-474).
HandlesReturned ==
    \A h \in Handle : file[h].Opened => h = current /\ at \notin {"idle", "enter"}

\* A handle is sound while it is in use and given back after (fat.c:226-433).
HandlesSound == HandleSound /\ HandlesReturned

\* cat prints the contents of the file the path names, ls the entries of the
\* directory, "print >>" keeps the beginning, and a path is missing only when
\* nothing has that name (fat.c:311-433, 477-559).
ReadsAll ==
    ~failed /\ at = "idle" =>
        LET e == LookUp(path) IN
        /\ answer = (e # NoEntry)
        /\ answer => got = CASE command = "cat"   -> Contents(e)
                              [] command = "ls"    -> IF e.dir THEN Listed(e) ELSE <<>>
                              [] command = "print" -> SubSeq(Contents(e), 1,
                                                        Min({EXISTING, Len(Contents(e))}))
                              [] OTHER             -> <<>>

IsDirectory(v, p) == Steps(v, p)[Len(p)].dir

\* Where cd takes the shell is a directory at that time, be it by a path that was
\* opened, by "..", which only cuts the path, or by a path that was cut short.
\* rmdir does not ask whether it removes the shell's directory: from a path that
\* leads to none any more ".." may take it to the next such (shell.c:114-148,
\* 600-660, 1008-1025).
CwdFound ==
    ~failed' /\ g_CWD' # g_CWD =>
        \/ IsDirectory(volume', g_CWD')
        \/ g_CWD' = Front(g_CWD) /\ ~IsDirectory(volume, g_CWD)

CdFindsDirectory == [][CwdFound]_vars

\* A command comes to its end, be it cat of a directory, unless a read failed or
\* the root directory has no end mark (fat.c:393-431).
CommandsEnd ==
    (at # "idle") ~> (at = "idle" \/ failed \/ (at = "astray" /\ current = ROOT_DIR_HANDLE))
================================================================================
