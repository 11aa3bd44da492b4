-------------------------------- MODULE Transfer --------------------------------
(******************************************************************************)
(* What the disk driver promises its callers, FatTable and FatVolume among    *)
(* them: a call moves words between the caller's memory and the sectors it    *)
(* was asked for, and nothing else.  When it says TRUE a read has moved all   *)
(* of them and a write all but those of the last sector, whose fate is not    *)
(* asked for; when it says FALSE it has moved any part.                       *)
(******************************************************************************)
EXTENDS Integers

CONSTANTS
    Sector,         \* the sectors of the disk
    WORDS,          \* words in a sector
    MaxCount,       \* sectors in a call, at most
    Word            \* contents of a word

VARIABLES
    disk,           \* [Sector -> [0 .. WORDS - 1 -> Word]]
    buf,            \* the caller's memory, as words
    call,           \* the call under way, or the last one
    answer          \* "none" until the call has returned

transferVars == <<disk, buf, call, answer>>

Place == 0 .. MaxCount * WORDS - 1
Calls == [op : {"read", "write"}, lba : Sector, count : 1 .. MaxCount]

\* The word of the disk that belongs at place j of the memory.
SectorOf(j) == call.lba + j \div WORDS
WordOn(d, j) == d[SectorOf(j)][j % WORDS]

Asked(n) == {j \in 0 .. n * WORDS - 1 : SectorOf(j) \in Sector}

Start ==
    /\ answer # "none"
    /\ call' \in Calls
    /\ buf' \in [Place -> Word]
    /\ answer' = "none"
    /\ UNCHANGED disk

\* The drive is asked who it is: nothing moves.
Probe ==
    /\ answer # "none"
    /\ answer' \in {"yes", "no"}
    /\ UNCHANGED <<disk, buf>>

\* A read fills the memory and a write the disk, word by word in any order.
Move ==
    IF call.op = "read"
    THEN /\ \A j \in Place :
                buf'[j] = buf[j] \/ (j \in Asked(call.count) /\ buf'[j] = WordOn(disk, j))
         /\ UNCHANGED disk
    ELSE /\ \A l \in Sector : \A w \in 0 .. WORDS - 1 :
                \/ disk'[l][w] = disk[l][w]
                \/ \E j \in Asked(call.count) :
                       SectorOf(j) = l /\ j % WORDS = w /\ disk'[l][w] = buf[j]
         /\ UNCHANGED buf

\* The first n sectors of the call are the same on the disk and in memory.
Moved(n, d, b) == \A j \in 0 .. n * WORDS - 1 : j \in Asked(n) /\ b[j] = WordOn(d, j)

\* The call goes on, or returns.
Step ==
    /\ answer = "none"
    /\ Move
    /\ answer' \in {"none", "yes", "no"}
    /\ answer' = "yes" =>
           Moved(IF call.op = "read" THEN call.count ELSE call.count - 1, disk', buf')
    /\ UNCHANGED call

Next == Start \/ Probe \/ Step

Init == answer # "none"

Spec == Init /\ [][Next]_transferVars
================================================================================
