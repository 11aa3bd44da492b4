------------------------------ MODULE MCInterrupts ------------------------------
(* A letter, both shift keys, caps lock, an extended key that is also one of the *)
(* keypad, and the shift that the keyboard wraps such keys in.                   *)
EXTENDS Interrupts

MCKey(code, extended, low, high, letter) ==
    [code |-> code, extended |-> extended, low |-> low, high |-> high, letter |-> letter]

MCKeys ==
    {MCKey(30, FALSE, "a", "A", TRUE),
     MCKey(SCANCODE_LSHIFT, FALSE, "0", "0", FALSE),
     MCKey(SCANCODE_RSHIFT, FALSE, "0", "0", FALSE),
     MCKey(SCANCODE_CAPS, FALSE, "0", "0", FALSE),
     MCKey(SCANCODE_LSHIFT, TRUE, "0", "0", FALSE),
     MCKey(SCANCODE_PAGEUP, TRUE, "pageup", "pageup", FALSE)}

ASSUME MCLayout == Layout
================================================================================
