------------------------------- MODULE MCConsole -------------------------------
(* A screen of two rows of two cells, with a shadow of five lines.            *)
EXTENDS Console

CONSTANTS a, MaxHead

MCChar == {a}

\* g_SBHead only ever grows: the ring has turned when it passes SCROLLBACK_LINES.
Bounded == vga.g_SBHead <= MaxHead

\* Once torn the cells are not looked at any more, and no step depends on them.
Seen ==
    IF ~torn THEN vars
    ELSE <<[vga EXCEPT !.g_ScreenBuffer = {}, !.g_SBuf = {}, !.gone = {}],
           pc, ch, tab, tmp, maxOffset, torn>>
================================================================================
