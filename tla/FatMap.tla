--------------------------------- MODULE FatMap ---------------------------------
(******************************************************************************)
(* What the rest of the FAT driver takes the file allocation table to be: a   *)
(* map from clusters to the next cluster of the chain, with free clusters     *)
(* handed out lowest first.                                                   *)
(******************************************************************************)
EXTENDS Integers

CONSTANTS
    Cluster,        \* the clusters that have an entry
    Value,          \* what an entry may hold
    FREE, EOC,      \* the entry of a free cluster, and of the last of a chain
    total_clusters  \* the first cluster that is never handed out

VARIABLES
    table,          \* the entries
    answer          \* what the last call returned

mapVars == <<table, answer>>

Free == {c \in Cluster : 2 <= c /\ c < total_clusters /\ table[c] = FREE}

Init ==
    /\ table \in [Cluster -> Value]
    /\ answer = 0

NextOf(c) ==
    /\ answer' = table[c]
    /\ UNCHANGED table

Set(c, v) ==
    /\ table' = [table EXCEPT ![c] = v]
    /\ UNCHANGED answer

Alloc ==
    \E c \in Free :
        /\ \A d \in Free : c <= d
        /\ table' = [table EXCEPT ![c] = EOC]
        /\ answer' = c

AllocFails ==
    /\ Free = {}
    /\ answer' = 0
    /\ UNCHANGED table

Next ==
    \/ \E c \in Cluster : NextOf(c) \/ \E v \in Value : Set(c, v)
    \/ Alloc
    \/ AllocFails

Spec == Init /\ [][Next]_mapVars
================================================================================
