--------------------------------- MODULE KeyRing --------------------------------
(******************************************************************************)
(* The ring between the keyboard's interrupt handler and the shell            *)
(* (src/kernel/arch/i686/keyboard.c).  Keyboard_PutChar runs in the handler,  *)
(* with interrupts off: one step.  Keyboard_HasChar and Keyboard_GetChar run  *)
(* in the shell's task, and the handler may run between any two of their      *)
(* reads and writes of the two indices and the array.  Nothing locks.         *)
(******************************************************************************)
EXTENDS Integers, Sequences

CONSTANTS
    KEY_BUFFER_SIZE,
    Char,           \* the characters keys stand for
    None            \* 0

ASSUME KeyRingAssumption ==
    /\ KEY_BUFFER_SIZE \in Nat
    /\ KEY_BUFFER_SIZE >= 2
    /\ None \notin Char

VARIABLES
    g_KeyBuffer,
    g_KeyHead,
    g_KeyTail,
    at,             \* where the shell is: see ReaderPlaces
    head_read,      \* g_KeyHead as a comparison in the shell has read it
    c,              \* GetChar's local c
    got             \* the last value GetChar returned

ringVars == <<g_KeyBuffer, g_KeyHead, g_KeyTail>>
readerVars == <<at, head_read, c, got>>
keyVars == <<ringVars, readerVars>>

Index == 0 .. KEY_BUFFER_SIZE - 1

\* Elsewhere; in HasChar between the reads of head and tail; before GetChar; in
\* GetChar between those reads, before c is read, before g_KeyHead is moved.
ReaderPlaces == {"away", "has", "call", "test", "read", "move"}

Succ(i) == (i + 1) % KEY_BUFFER_SIZE

RingInit ==
    /\ g_KeyBuffer = [i \in Index |-> None]
    /\ g_KeyHead = 0
    /\ g_KeyTail = 0
    /\ at = "away"
    /\ head_read = 0
    /\ c = None
    /\ got = None

\* A mutant of Keyboard_PutChar: the last slot is used too.
Keyboard_PutChar_NoGap(ch) ==
    /\ g_KeyBuffer' = [g_KeyBuffer EXCEPT ![g_KeyTail] = ch]
    /\ g_KeyTail' = Succ(g_KeyTail)
    /\ UNCHANGED <<g_KeyHead, readerVars>>

\* Keyboard_PutChar in the interrupt handler: a full ring drops the character.
Keyboard_PutChar(ch) ==
    /\ IF Succ(g_KeyTail) # g_KeyHead
       THEN /\ g_KeyBuffer' = [g_KeyBuffer EXCEPT ![g_KeyTail] = ch]
            /\ g_KeyTail' = Succ(g_KeyTail)
       ELSE UNCHANGED <<g_KeyBuffer, g_KeyTail>>
    /\ UNCHANGED <<g_KeyHead, readerVars>>

\* Keyboard_HasChar: g_KeyHead is read, then g_KeyTail, and they are compared.
HasCharHead ==
    /\ at = "away"
    /\ head_read' = g_KeyHead
    /\ at' = "has"
    /\ UNCHANGED <<ringVars, c, got>>

\* A mutant of HasCharTail: nonempty is taken to be head before tail.
HasCharTail_Less ==
    /\ at = "has"
    /\ at' = IF head_read < g_KeyTail THEN "call" ELSE "away"
    /\ UNCHANGED <<ringVars, head_read, c, got>>

HasCharTail ==
    /\ at = "has"
    /\ at' = IF head_read # g_KeyTail THEN "call" ELSE "away"
    /\ UNCHANGED <<ringVars, head_read, c, got>>

\* Keyboard_GetChar: the same comparison, then the character, then the index.
GetCharHead ==
    /\ at = "call"
    /\ head_read' = g_KeyHead
    /\ at' = "test"
    /\ UNCHANGED <<ringVars, c, got>>

GetCharTest ==
    /\ at = "test"
    /\ IF head_read = g_KeyTail
       THEN got' = None /\ at' = "away"
       ELSE at' = "read" /\ UNCHANGED got
    /\ UNCHANGED <<ringVars, head_read, c>>

GetCharRead ==
    /\ at = "read"
    /\ c' = g_KeyBuffer[g_KeyHead]
    /\ at' = "move"
    /\ UNCHANGED <<ringVars, head_read, got>>

GetCharMove ==
    /\ at = "move"
    /\ g_KeyHead' = Succ(g_KeyHead)
    /\ got' = c
    /\ at' = "away"
    /\ UNCHANGED <<g_KeyBuffer, g_KeyTail, head_read, c>>

Reader ==
    \/ HasCharHead \/ HasCharTail
    \/ GetCharHead \/ GetCharTest \/ GetCharRead \/ GetCharMove

RingNext == Reader \/ \E ch \in Char : Keyboard_PutChar(ch)

RingSpec == RingInit /\ [][RingNext]_keyVars

--------------------------------------------------------------------------------
TypeOK ==
    /\ g_KeyBuffer \in [Index -> Char \cup {None}]
    /\ g_KeyHead \in Index
    /\ g_KeyTail \in Index
    /\ at \in ReaderPlaces
    /\ head_read \in Index
    /\ c \in Char \cup {None}
    /\ got \in Char \cup {None}

\* The characters in the ring, from head to tail.
Count == IF g_KeyTail >= g_KeyHead THEN g_KeyTail - g_KeyHead
         ELSE g_KeyTail - g_KeyHead + KEY_BUFFER_SIZE

Slot(i) == IF g_KeyHead + i - 1 < KEY_BUFFER_SIZE THEN g_KeyHead + i - 1
           ELSE g_KeyHead + i - 1 - KEY_BUFFER_SIZE

Waiting == [i \in 1 .. Count |-> g_KeyBuffer[Slot(i)]]

\* The queue's reader is told when HasChar answers yes, and takes when the head
\* moves: until then the handler may not reuse the slot.
Q == INSTANCE KeyQueue
     WITH queue <- Waiting,
          told <- at \in {"call", "test", "read", "move"},
          given <- got,
          Capacity <- KEY_BUFFER_SIZE - 1

\* The ring is a first-in first-out queue of KEY_BUFFER_SIZE - 1 characters
\* whatever the handler does between two steps of the shell (keyboard.c:47-64).
IsQueue == Q!Spec

\* The character GetChar has read is still the oldest one when it moves the
\* head (keyboard.c:59-60): the handler never overwrites it in between.
ReadIsOldest == at = "move" => c = g_KeyBuffer[g_KeyHead] /\ c \in Char

\* Between the answer of HasChar and the move of the head the ring stays
\* nonempty, so GetChar's own test never finds it empty (shell.c:1142-1149).
NeverEmptyHanded ==
    at \in {"call", "test", "read", "move"} => g_KeyHead # g_KeyTail

\* While a character waits the head moves on, and so each is handed over: the
\* shell's polling reaches it wherever the indices are (shell.c:1142-1149).
KeysReachTheShell ==
    \A i \in Index :
        (g_KeyHead = i /\ g_KeyHead # g_KeyTail) ~> (g_KeyHead = Succ(i))
================================================================================
