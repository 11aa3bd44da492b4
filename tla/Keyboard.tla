--------------------------------- MODULE Keyboard --------------------------------
(******************************************************************************)
(* The keyboard and the decoding of its bytes by keyboard_handler             *)
(* (src/kernel/arch/i686/keyboard.c).  The keyboard itself is external: it    *)
(* sends a byte for a press and one for a release, with 0xE0 in front for the *)
(* keys of the extended set, and keeps bytes until the one before was read.   *)
(* Each byte carries what its key was meant to say, which is a ghost.          *)
(******************************************************************************)
EXTENDS Integers, Sequences, FiniteSets

CONSTANTS
    Keys,           \* records [code, extended, low, high, letter]
    FIFO_SIZE,      \* bytes the keyboard keeps: 16
    TABLE_SIZE,     \* sizeof(g_ScanToAscii)
    NoChar          \* 0, no character

PREFIX == 224               \* 0xE0
SCANCODE_LSHIFT == 42
SCANCODE_RSHIFT == 54
SCANCODE_CAPS == 58
SCANCODE_BACKSPACE == 14
SCANCODE_PAGEUP == 73
SCANCODE_PAGEDOWN == 81
Release(code) == code + 128
Shifts == {SCANCODE_LSHIFT, SCANCODE_RSHIFT}
Pages == {SCANCODE_PAGEUP, SCANCODE_PAGEDOWN}

ASSUME KeyboardAssumption ==
    /\ {FIFO_SIZE, TABLE_SIZE} \subseteq Nat \ {0}
    /\ \A k \in Keys : k.code \in 1 .. 127 /\ {k.extended, k.letter} \subseteq BOOLEAN
    /\ \A k, l \in Keys : (k.code = l.code /\ k.extended = l.extended) => k = l

VARIABLES
    port,               \* what port 0x60 gives, and whether it is new
    fifo,               \* bytes the keyboard keeps
    down, caps,         \* the shift keys that are held, and whether caps lock is on
    g_ShiftHeld, g_CapsLock, g_ExtendedKey,
    mistaken            \* a byte was decoded as something it was not meant for

deviceVars == <<port, fifo, down, caps>>
decodeVars == <<g_ShiftHeld, g_CapsLock, g_ExtendedKey, mistaken>>
keyboardVars == <<deviceVars, decodeVars>>

\* A port that was read.  It would give the old byte once more, but is never read
\* then: see InterruptsSound.
Empty == [code |-> 0, meant |-> NoChar, full |-> FALSE]

KeyboardInit ==
    /\ port = Empty
    /\ fifo = <<>>
    /\ down = {} /\ caps = FALSE
    /\ g_ShiftHeld = FALSE /\ g_CapsLock = FALSE /\ g_ExtendedKey = FALSE
    /\ mistaken = FALSE

--------------------------------------------------------------------------------
(* The keyboard.                                                              *)

\* What a press means: caps lock is for letters only, and shift goes first.
Legend(key) ==
    IF down # {} \/ (caps /\ key.letter) THEN key.high ELSE key.low

\* The bytes of a press or a release.  With num lock on, the keyboard wraps the
\* keys of the extended set in a shift of its own, which is of that set too.
Bytes(key, press) ==
    LET own == IF press THEN [code |-> key.code, meant |-> Legend(key)]
               ELSE [code |-> Release(key.code), meant |-> NoChar]
    IN  IF key.extended THEN <<[code |-> PREFIX, meant |-> NoChar], own>> ELSE <<own>>

\* The keyboard has room for the bytes, and one shift key is held at a time: the
\* handler has one flag for both, and nothing against a lost byte.
Stroke(key, press) ==
    LET bytes == Bytes(key, press)
        shift == ~key.extended /\ key.code \in Shifts
    IN  /\ Len(fifo) + Len(bytes) <= FIFO_SIZE
        /\ shift => IF press THEN down \subseteq {key.code} ELSE key.code \in down
        /\ down' = IF ~shift THEN down
                   ELSE IF press THEN down \cup {key.code} ELSE down \ {key.code}
        /\ caps' = (caps # (press /\ ~key.extended /\ key.code = SCANCODE_CAPS))
        /\ fifo' = fifo \o bytes
        /\ UNCHANGED <<port, decodeVars>>

--------------------------------------------------------------------------------
(* The handler.                                                               *)

\* g_ScanToAscii and g_ScanToAsciiShift: 0 for what no key of theirs has.
Ascii(code, shift) ==
    IF code < TABLE_SIZE /\ \E k \in Keys : ~k.extended /\ k.code = code
    THEN LET k == CHOOSE k \in Keys : ~k.extended /\ k.code = code
         IN  IF shift \/ (g_CapsLock /\ k.letter) THEN k.high ELSE k.low
    ELSE NoChar

\* What the handler puts into the ring for a byte.
Decoded(code) ==
    IF code \in Pages THEN (CHOOSE k \in Keys : k.code = code).low
    ELSE IF g_ExtendedKey \/ code >= 128 \/ code \in Shifts \cup {SCANCODE_CAPS} THEN NoChar
    ELSE Ascii(code, g_ShiftHeld)

\* A mutant of keyboard_handler: a byte behind the prefix may be a shift.
keyboard_handler_WrapIsShift ==
    LET code == port.code IN
    /\ port' = Empty
    /\ g_ExtendedKey' = (code = PREFIX)
    /\ g_ShiftHeld' = (code \in Shifts \/ (g_ShiftHeld /\ code \notin {Release(s) : s \in Shifts}))
    /\ g_CapsLock' = (g_CapsLock # (~g_ExtendedKey /\ code = SCANCODE_CAPS))
    /\ mistaken' = (mistaken \/ Decoded(code) # port.meant)
    /\ UNCHANGED <<fifo, down, caps>>

\* The handler reads the byte and returns with the prefix or with a byte behind
\* one, or changes what is held, or puts a character into the ring.
keyboard_handler ==
    LET code == port.code
        plain == ~g_ExtendedKey
    IN
    /\ port' = Empty
    /\ g_ExtendedKey' = (code = PREFIX)
    /\ g_ShiftHeld' = (\/ plain /\ code \in Shifts
                       \/ g_ShiftHeld /\ ~(plain /\ code \in {Release(s) : s \in Shifts}))
    /\ g_CapsLock' = (g_CapsLock # (plain /\ code = SCANCODE_CAPS))
    /\ mistaken' = (mistaken \/ Decoded(code) # port.meant)
    /\ UNCHANGED <<fifo, down, caps>>

\* Keyboards that the tables fit: no release looks like the prefix, a page key says
\* the same with and without it and with shift, and no other key of the extended
\* set, none that only changes others, and none behind the tables has a character.
Layout ==
    /\ \A k \in Keys : Release(k.code) # PREFIX
    /\ \A k, l \in Keys : k.code = l.code /\ k.code \in Pages =>
          k.low = l.low /\ k.high = l.low
    /\ \A k \in Keys : /\ k.code \notin Pages
                       /\ k.extended \/ k.code \in Shifts \cup {SCANCODE_CAPS} \/ k.code >= TABLE_SIZE
                       => k.low = NoChar /\ k.high = NoChar

\* Each byte is decoded as what was meant when its key went down, however late
\* the handler is and whichever bytes come between the press of a shift and the
\* letter (keyboard.c:66-137).
DecodesRight == ~mistaken
================================================================================
