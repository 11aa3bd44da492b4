------------------------------- MODULE FatVolume -------------------------------
(******************************************************************************)
(* Directories and files as the shell's commands change them on the volume    *)
(* (src/kernel/fs/fat.c:341-380, 571-883 and shell.c:808-1025), one step per  *)
(* write to the disk, with the power going off between any two.               *)
(*                                                                            *)
(* The allocation table is the map that FatTable shows it to be, over the     *)
(* clusters the volume has sectors for, and transfers succeed.  A cluster is  *)
(* one sector, as on the 250 MB image.  A sector is SLOTS pieces of 32 bytes: *)
(* a piece is a directory entry or some text.  Sizes count pieces.            *)
(******************************************************************************)
EXTENDS Integers, SequencesExt

CONSTANTS
    LastCluster,       \* the clusters are 2 .. LastCluster
    RootDirCluster, FREE, EOC,
    SLOTS,             \* pieces in a sector: SECTOR_SIZE / 32
    EXISTING,          \* pieces that "print >>" reads of the old file
    Never, Erased,     \* pieces that begin with 0x00 and with 0xE5
    Missing,           \* what a search that fails returns
    Stale,             \* a piece left over in a cluster that no entry leads to
    Text,              \* the pieces a line of text may be
    Dot, DotDot,       \* the short names "." and ".."
    Blank,             \* that of nothing: behind a "/" at the end, or of a typed "."
    Paths              \* the paths typed, as sequences of short names, of which a
                       \* typed "." is not the last

Cluster == 2 .. LastCluster
Location == Cluster \X (1 .. SLOTS)

\* The pieces that are entries.
Entries == [name  : {Dot, DotDot} \cup UNION {ToSet(path) : path \in Paths},
            dir   : BOOLEAN,
            first : Cluster \cup {FREE},
            size  : 0 .. EXISTING + 1]

ASSUME FatVolumeAssumption ==
    /\ LastCluster \in Nat /\ RootDirCluster \in Cluster
    /\ FREE \notin Cluster /\ EOC \notin Cluster /\ FREE # EOC
    /\ SLOTS \in Nat /\ SLOTS >= 2
    /\ EXISTING \in Nat
    /\ \A path \in Paths : path # <<>> /\ path \in Seq(ToSet(path))
    /\ Missing \notin Location
    /\ Never # Erased /\ Never # Stale /\ Erased # Stale /\ Dot # DotDot
    /\ Text \cap {Never, Erased, Stale} = {}
    /\ Entries \cap (Text \cup {Never, Erased, Stale}) = {}

VARIABLES
    fat,       \* the allocation table
    sect,      \* the pieces of every cluster
    step,      \* the write the running command is at
    job,       \* its local variables
    lost,      \* clusters in use that no entry leads to any more
    harmed     \* an entry may lead to free clusters: see Spoils and PowerLoss

vars == <<fat, sect, step, job, lost, harmed>>

FileEntry(name) == [name |-> name, dir |-> FALSE, first |-> FREE, size |-> 0]
DirEntry(name, c) == [name |-> name, dir |-> TRUE, first |-> c, size |-> 0]

NoEntry == FileEntry(Missing)
NoJob == [path |-> <<>>, data |-> <<>>, done |-> 0, at |-> <<RootDirCluster, 1>>,
          cur |-> FREE, first |-> FREE, prev |-> FREE, writes |-> FALSE]

Init ==
    /\ fat = [c \in Cluster |-> IF c = RootDirCluster THEN EOC ELSE FREE]
    /\ sect = [c \in Cluster |-> [i \in 1 .. SLOTS |->
                  IF c = RootDirCluster THEN Never ELSE Stale]]
    /\ step = "idle"
    /\ job = NoJob
    /\ lost = {}
    /\ harmed = FALSE

--------------------------------------------------------------------------------
(* Reading: all of it happens between two writes.                             *)

At(l) == sect[l[1]][l[2]]
IsEntry(x) == x \notin Text \cup {Never, Erased, Stale}

\* The clusters from c on, by fat_next_cluster.
ChainFrom(c) ==
    LET walk[n \in 0 .. LastCluster] ==
            IF n = 0 THEN <<>>
            ELSE LET before == walk[n - 1]
                     next == IF before = <<>> THEN c ELSE fat[Last(before)]
                 IN  IF next \in Cluster THEN Append(before, next) ELSE before
    IN  walk[LastCluster]

\* The pieces of that chain, in order.
Pieces(c) ==
    LET chain == ChainFrom(c)
    IN  [k \in 1 .. Len(chain) * SLOTS |->
            <<chain[(k - 1) \div SLOTS + 1], ((k - 1) % SLOTS) + 1>>]

UpTo(s, n) == SubSeq(s, 1, Min({n, Len(s)}))

\* What FAT_Read goes through: all of a directory, Size bytes of a file or as
\* many as its chain has.
Readable(e) ==
    IF e.dir THEN Pieces(e.first) ELSE UpTo(Pieces(e.first), e.size)

Contents(e) == [k \in DOMAIN Readable(e) |-> At(Readable(e)[k])]

Named(x, name) == IsEntry(x) /\ x.name = name

\* The first piece named so in front of the end mark, or Missing.
Find(locs, name) ==
    LET stops == {k \in DOMAIN locs : At(locs[k]) = Never \/ Named(At(locs[k]), name)}
    IN  IF stops = {} \/ At(locs[Min(stops)]) = Never THEN Missing ELSE locs[Min(stops)]

FindInDir(e, name) ==
    IF e = NoEntry THEN NoEntry
    ELSE LET l == Find(Readable(e), name) IN IF l = Missing THEN NoEntry ELSE At(l)

Root == DirEntry(Missing, RootDirCluster)

\* The names that FAT_Open goes through: none behind a "/" at the end.
Way(path) == IF path # <<>> /\ Last(path) = Blank THEN Front(path) ELSE path

\* A walk through names.  Whether one that leads on is a directory is not asked.
Walked(names) ==
    LET opened[n \in 0 .. Len(names)] ==
            IF n = 0 THEN Root ELSE FindInDir(opened[n - 1], names[n])
    IN  opened[Len(names)]

\* FAT_Open.
Open(path) == Walked(Way(path))

\* fat_get_dir_cluster of a path's directory.  Whether it is one is not asked.
DirCluster(path) == Open(Front(path)).first

FreeSlot(c) ==
    LET locs == Pieces(c)
        free == {k \in DOMAIN locs : At(locs[k]) \in {Never, Erased}}
    IN  IF free = {} THEN Missing ELSE locs[Min(free)]

\* The search of FAT_DeleteEntry and of the end of FAT_WriteFile.
Locate(path) == Find(Pieces(DirCluster(path)), Last(path))

\* FAT_Read leaves a root directory without an end mark on cluster 0x0FFFFFFF,
\* and a search for what is not there goes on from it (fat.c:404-413).
Strays(path) ==
    /\ Way(path) # <<>>
    /\ \A l \in ToSet(Pieces(RootDirCluster)) : At(l) # Never
    /\ FindInDir(Root, path[1]) = NoEntry

--------------------------------------------------------------------------------
(* Clusters that the directories lead to.                                     *)

Removing == step \in {"free", "erase"}

\* The entries below the clusters cs that lead on, "." and ".." aside, and
\* without the one that is being removed.
LinksIn(cs) ==
    {l \in cs \X (1 .. SLOTS) :
        /\ IsEntry(At(l)) /\ At(l).name \notin {Dot, DotDot}
        /\ At(l).first # FREE
        /\ ~(Removing /\ l = job.at)}

\* With a cluster, cs has what it leads to.
Closed(cs) ==
    /\ \A k \in cs : fat[k] \in Cluster => fat[k] \in cs
    /\ \A l \in LinksIn(cs) : At(l).first \in cs

\* Everything reached from cluster c, the least such set.
Below(c) ==
    {k \in Cluster : \A cs \in SUBSET Cluster :
        ({c} \cap Cluster \subseteq cs /\ Closed(cs)) => k \in cs}

Owned == Below(RootDirCluster)
Links == LinksIn(Owned)

\* What the running command holds.
Held ==
    CASE step \in {"zero", "dots", "link"} -> {job.cur}
      [] Removing -> ToSet(ChainFrom(job.cur))
      [] step \in {"alloc", "chain", "data", "record"} ->
            ToSet(ChainFrom(job.first)) \cup ({job.cur} \ {FREE})
      [] OTHER -> {}

--------------------------------------------------------------------------------
(* Writing.                                                                   *)

Put(l, x) == sect' = [sect EXCEPT ![l[1]][l[2]] = x]

\* The clusters cs hold what they held, which is not told apart any more.
Abandon(cs) ==
    sect' = [c \in Cluster |-> IF c \in cs THEN [i \in 1 .. SLOTS |-> Stale] ELSE sect[c]]

\* The clusters cs are in use for good: nothing leads to them.
Lose(cs) ==
    /\ lost' = lost \cup cs
    /\ Abandon(cs)

Done ==
    /\ step' = "idle"
    /\ job' = NoJob

FreeClusters == {c \in Cluster : fat[c] = FREE}
Lowest(S) == CHOOSE c \in S : \A d \in S : c <= d

\* A mutant of Take: the cluster is not marked.
Take_NoMark(c) == UNCHANGED fat

\* fat_alloc_cluster's write.
Take(c) == fat' = [fat EXCEPT ![c] = EOC]

\* "touch": FAT_CreateFile, whose one write is the new entry.
Touch(path) ==
    /\ step = "idle"
    /\ DirCluster(path) # FREE
    /\ FreeSlot(DirCluster(path)) # Missing
    /\ Put(FreeSlot(DirCluster(path)), FileEntry(Last(path)))
    /\ UNCHANGED <<fat, step, job, lost, harmed>>

\* "mkdir": FAT_CreateDir takes a cluster before it looks for a slot.
Mkdir(path) ==
    /\ step = "idle"
    /\ DirCluster(path) # FREE
    /\ FreeClusters # {}
    /\ Take(Lowest(FreeClusters))
    /\ job' = [NoJob EXCEPT !.path = path, !.cur = Lowest(FreeClusters),
                            !.prev = DirCluster(path)]
    /\ step' = "zero"
    /\ UNCHANGED <<sect, lost, harmed>>

\* A mutant of Zero: the link is made first.
Zero_LinkFirst ==
    /\ step = "zero"
    /\ step' = "link"
    /\ UNCHANGED <<fat, sect, job, lost, harmed>>

Zero ==
    /\ step = "zero"
    /\ sect' = [sect EXCEPT ![job.cur] = [i \in 1 .. SLOTS |-> Never]]
    /\ step' = "dots"
    /\ UNCHANGED <<fat, job, lost, harmed>>

Dots ==
    /\ step = "dots"
    /\ sect' = [sect EXCEPT ![job.cur] = [i \in 1 .. SLOTS |->
            CASE i = 1 -> DirEntry(Dot, job.cur)
              [] i = 2 -> DirEntry(DotDot, job.prev)
              [] OTHER -> Never]]
    /\ step' = "link"
    /\ UNCHANGED <<fat, job, lost, harmed>>

\* The entry in the parent.  Without a slot for it the cluster stays taken.
Link ==
    /\ step = "link"
    /\ Done
    /\ UNCHANGED <<fat, harmed>>
    /\ LET l == FreeSlot(job.prev) IN
       \/ /\ l # Missing
          /\ Put(l, DirEntry(Last(job.path), job.cur))
          /\ UNCHANGED lost
       \/ /\ l = Missing
          /\ Lose({job.cur})

\* Commands that leave entries of freed clusters where a path still comes: one
\* that removes a directory's own entries, and one that makes a directory's
\* entries, "." and ".." among them, the contents of a file.
Spoils(new) ==
    \/ Locate(new.path) # Missing /\ At(Locate(new.path)).name \in {Dot, DotDot}
    \/ \E i \in DOMAIN new.data : new.data[i] \notin Text

\* FAT_DeleteEntry up to its first write, for "rm", "rmdir" and "print".
\* What lies below a directory is not freed with it.
Delete(new) ==
    LET l == Locate(new.path) IN
    /\ harmed' = (harmed \/ Spoils(new))
    /\ \/ /\ l # Missing
          /\ job' = [new EXCEPT !.at = l, !.cur = At(l).first]
          /\ step' = "free"
          /\ Lose(Below(At(l).first) \ ToSet(ChainFrom(At(l).first)))
          /\ UNCHANGED fat
       \/ /\ l = Missing
          /\ new.writes
          /\ job' = new
          /\ step' = "create"
          /\ UNCHANGED <<fat, sect, lost>>

Rm(path) ==
    /\ step = "idle"
    /\ Delete([NoJob EXCEPT !.path = path])

\* "print text > path".
PrintTo(path, text) ==
    /\ step = "idle"
    /\ Delete([NoJob EXCEPT !.path = path, !.data = <<text>>, !.writes = TRUE])

\* "print text >> path": the old contents are read into a buffer first.  Whether
\* they are a file's is not asked: of a directory its entries are read and, once
\* it is removed, written into the file that gets its name.
Existing(path) == UpTo(Contents(Open(path)), EXISTING)

PrintAppend(path, text) ==
    /\ step = "idle"
    /\ Delete([NoJob EXCEPT !.path = path, !.data = Append(Existing(path), text),
                            !.writes = TRUE])

\* A mutant of Free: only the first cluster of the chain is freed.
Free_FirstOnly ==
    /\ step = "free"
    /\ fat' = [c \in Cluster |-> IF c = job.cur THEN FREE ELSE fat[c]]
    /\ step' = "erase"
    /\ UNCHANGED <<sect, job, lost, harmed>>

\* One turn of the loop that frees the chain.
Free ==
    /\ step = "free"
    /\ UNCHANGED <<lost, harmed>>
    /\ \/ /\ job.cur \in Cluster
          /\ fat' = [fat EXCEPT ![job.cur] = FREE]
          /\ Abandon({job.cur})
          /\ job' = [job EXCEPT !.cur = fat[job.cur]]
          /\ UNCHANGED step
       \/ /\ job.cur \notin Cluster
          /\ step' = "erase"
          /\ UNCHANGED <<fat, sect, job>>

\* A mutant of Erase: the end mark is written.
Erase_EndMark ==
    /\ step = "erase"
    /\ Put(job.at, Never)
    /\ IF job.writes THEN step' = "create" /\ job' = [job EXCEPT !.cur = FREE] ELSE Done
    /\ UNCHANGED <<fat, lost, harmed>>

Erase ==
    /\ step = "erase"
    /\ Put(job.at, Erased)
    /\ IF job.writes THEN step' = "create" /\ job' = [job EXCEPT !.cur = FREE] ELSE Done
    /\ UNCHANGED <<fat, lost, harmed>>

\* FAT_WriteFile's FAT_CreateFile.
Create ==
    /\ step = "create"
    /\ UNCHANGED <<fat, lost, harmed>>
    /\ LET c == DirCluster(job.path)
           l == FreeSlot(c)
       IN \/ /\ c # FREE /\ l # Missing
             /\ Put(l, FileEntry(Last(job.path)))
             /\ step' = "alloc"
             /\ UNCHANGED job
          \/ /\ c = FREE \/ l = Missing
             /\ Done
             /\ UNCHANGED sect

\* A cluster for the next piece of the data, if there is one.
Alloc ==
    /\ step = "alloc"
    /\ UNCHANGED harmed
    /\ \/ /\ FreeClusters # {}
          /\ LET c == Lowest(FreeClusters) IN
             /\ Take(c)
             /\ job' = [job EXCEPT !.cur = c,
                            !.first = IF job.first = FREE THEN c ELSE job.first]
          /\ step' = "chain"
          /\ UNCHANGED <<sect, lost>>
       \/ /\ FreeClusters = {}
          /\ Done
          /\ Lose(Held)
          /\ UNCHANGED fat

\* A mutant of Chain: the clusters are not chained.
Chain_Not ==
    /\ step = "chain"
    /\ step' = "data"
    /\ UNCHANGED <<fat, sect, job, lost, harmed>>

Chain ==
    /\ step = "chain"
    /\ fat' = IF job.prev = FREE THEN fat ELSE [fat EXCEPT ![job.prev] = job.cur]
    /\ step' = "data"
    /\ UNCHANGED <<sect, job, lost, harmed>>

\* A sector of data, zero behind the last piece.
Data ==
    /\ step = "data"
    /\ sect' = [sect EXCEPT ![job.cur] = [i \in 1 .. SLOTS |->
            IF job.done + i <= Len(job.data) THEN job.data[job.done + i] ELSE Never]]
    /\ job' = [job EXCEPT !.done = job.done + SLOTS, !.prev = job.cur]
    /\ step' = IF job.done + SLOTS >= Len(job.data) THEN "record" ELSE "alloc"
    /\ UNCHANGED <<fat, lost, harmed>>

\* A mutant of Recorded: the size of the clusters.
Recorded_Rounded(e) == [e EXCEPT !.first = job.first, !.size = job.done]

\* A mutant of Recorded: the last cluster instead of the first.
Recorded_Last(e) == [e EXCEPT !.first = job.prev, !.size = Len(job.data)]

Recorded(e) == [e EXCEPT !.first = job.first, !.size = Len(job.data)]

\* The entry is looked up once more and gets the first cluster and the size.
Record ==
    /\ step = "record"
    /\ UNCHANGED <<fat, harmed>>
    /\ LET l == Locate(job.path) IN
       \/ /\ l # Missing
          /\ Put(l, Recorded(At(l)))
          /\ step' = "written"
          /\ UNCHANGED <<job, lost>>
       \/ /\ l = Missing
          /\ Lose(Held)
          /\ Done

\* The shell says that the file was written.
Report ==
    /\ step = "written"
    /\ Done
    /\ UNCHANGED <<fat, sect, lost, harmed>>

\* The search that opens a directory, or the file itself, may not end.
Stray(path) ==
    /\ step = "idle"
    /\ Strays(path)
    /\ step' = "astray"
    /\ UNCHANGED <<fat, sect, job, lost, harmed>>

\* The power goes off and the system starts anew.  A removal that is cut short
\* leaves its entry in place.
PowerLoss ==
    /\ step # "idle"
    /\ Done
    /\ Lose(IF Removing THEN {} ELSE Held)
    /\ harmed' = (harmed \/ Removing)
    /\ UNCHANGED fat

Next ==
    \/ \E path \in Paths :
        \/ Touch(path) \/ Mkdir(path) \/ Rm(path) \/ Stray(path)
        \/ \E text \in Text : PrintTo(path, text) \/ PrintAppend(path, text)
    \/ Zero \/ Dots \/ Link
    \/ Free \/ Erase
    \/ Create \/ Alloc \/ Chain \/ Data \/ Record \/ Report
    \/ PowerLoss

Spec == Init /\ [][Next]_vars

--------------------------------------------------------------------------------
(* What holds of a volume.  Of one that is harmed nothing but the types is    *)
(* claimed: see Spoils and PowerLoss.                                         *)

TypeOK ==
    /\ fat \in [Cluster -> Cluster \cup {FREE, EOC}]
    /\ sect \in [Cluster -> [1 .. SLOTS -> Entries \cup Text \cup {Never, Erased, Stale}]]
    /\ job.done <= EXISTING + SLOTS
    /\ lost \subseteq Cluster

\* A cluster has one owner: it is the root, or an entry's first, or follows one
\* other cluster (fat.c:214-222, 819-823).
Owners(c, owned) ==
    {l \in LinksIn(owned) : At(l).first = c} \cup {<<k>> : k \in {k \in owned : fat[k] = c}}

NoCrossLink ==
    ~harmed => LET owned == Owned IN
               \A c \in Cluster :
                  \A p, q \in Owners(c, owned) : p = q /\ c # RootDirCluster

\* Every cluster in use belongs to a directory or a file, to the running
\* command, or is one of those that the driver is known to leave behind, and
\* none of these is taken for free (fat.c:214-224, 776-784).
Accounted ==
    ~harmed => LET owned == Owned IN
               /\ owned \cup Held \cup lost = Cluster \ FreeClusters
               /\ owned \cap (Held \cup lost) = {}
               /\ Held \cap lost = {}

Heads == {RootDirCluster} \cup {At(l).first : l \in Links}
Directories == {RootDirCluster} \cup {At(l).first : l \in {l \in Links : At(l).dir}}

\* Size and chain of an entry agree: as many clusters as the size needs, so
\* that FAT_Read never runs off the chain (fat.c:391-431, 814-874).
SizeCovered ==
    ~harmed => \A l \in Links :
                  ~At(l).dir => LET n == Len(ChainFrom(At(l).first))
                                IN  (n - 1) * SLOTS < At(l).size /\ At(l).size <= n * SLOTS

\* A directory that can be reached has its own two entries written, whenever the
\* power goes, and removing entries never puts an end mark in front of a living
\* one, which searches would not find any more (fat.c:327, 685-731, 770, 786).
DirsSound ==
    ~harmed =>
        LET heads == Heads IN
        /\ \A l \in Links :
              At(l).dir =>
                  /\ sect[At(l).first][1] = DirEntry(Dot, At(l).first)
                  /\ \E h \in heads : /\ sect[At(l).first][2] = DirEntry(DotDot, h)
                                      /\ l[1] \in ToSet(ChainFrom(h))
        /\ \A d \in Directories :
              LET pieces == Pieces(d) IN
              \A i, k \in DOMAIN pieces :
                 i < k /\ At(pieces[i]) = Never => At(pieces[k]) = Never

\* The table and the entries agree, and the directories' own entries are there
\* (fat.c:391-431, 609-657, 685-731, 814-874).
EntriesSound == TypeOK /\ SizeCovered /\ DirsSound

\* "print" that reports success leaves a file with the text in it, also when
\* other entries have the same name (fat.c:797-883).  A file whose path has an
\* empty name in it is not found by that path: FAT_Open takes it differently.
ReadBack ==
    step = "written" /\ ~harmed /\ Open(Front(job.path)).dir /\ Blank \notin ToSet(job.path)
        => ~Open(job.path).dir /\ Contents(Open(job.path)) = job.data

\* What a file holds is never changed: "print" over an old file first unlinks it
\* and then builds the new one from clusters that belong to none (fat.c:797-883).
OthersUntouched ==
    [][~harmed' => \A l \in {l \in Links : ~At(l).dir} :
          /\ l[1] \in lost' \/ At(l)' = At(l)
          /\ \A p \in ToSet(Readable(At(l))) :
                p[1] \in lost' \/ (fat'[p[1]] = fat[p[1]] /\ At(p)' = At(p))]_vars
================================================================================
