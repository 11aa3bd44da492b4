-------------------------------- MODULE KeyQueue --------------------------------
(******************************************************************************)
(* What the keyboard's buffer promises the shell: a first-in first-out queue  *)
(* of bounded length.  A character that comes while it is full is dropped,    *)
(* whole, and nothing that is in the queue changes for it.  The shell is      *)
(* handed the characters in the order they came, each once, and is never      *)
(* handed the 0 that stands for "none" once it was told that one waits.       *)
(******************************************************************************)
EXTENDS Integers, Sequences

CONSTANTS
    Char,           \* the characters keys stand for
    None,           \* the 0 that GetChar returns when there is nothing
    Capacity        \* how many characters the queue holds

VARIABLES
    queue,          \* the characters that wait
    told,           \* the shell was told that a character waits
    given           \* the last character handed to the shell

queueVars == <<queue, told, given>>

Init ==
    /\ queue = << >>
    /\ told = FALSE
    /\ given = None

Put(c) ==
    /\ queue' = IF Len(queue) < Capacity THEN Append(queue, c) ELSE queue
    /\ UNCHANGED <<told, given>>

Ask ==
    /\ queue # << >>
    /\ ~told
    /\ told' = TRUE
    /\ UNCHANGED <<queue, given>>

Take ==
    /\ told
    /\ queue # << >>
    /\ given' = Head(queue)
    /\ queue' = Tail(queue)
    /\ told' = FALSE

Next == Ask \/ Take \/ \E c \in Char : Put(c)

Spec == Init /\ [][Next]_queueVars

\* The queue is never longer than its capacity, and a character waits for as
\* long as the shell has been told so.
QueueOK ==
    /\ queue \in Seq(Char)
    /\ Len(queue) <= Capacity
    /\ told => queue # << >>
================================================================================
