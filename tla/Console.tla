-------------------------------- MODULE Console --------------------------------
(******************************************************************************)
(* The text console and its scrollback (src/kernel/arch/i686/vga_text.c), as  *)
(* the shell's task uses it while the keyboard's interrupt handler echoes     *)
(* keys on it (keyboard.c:122).  The kernel is built without optimisation, so *)
(* that changing a variable is a load and a store, and the handler may run    *)
(* between them.  It is itself not interrupted.                               *)
(*                                                                            *)
(* The loops over the cells of the screen are one step each, and so are the   *)
(* two writes of a character.  Colours and the hardware cursor are left out;  *)
(* 0 and ' ' both show nothing.                                               *)
(******************************************************************************)
EXTENDS Integers, Sequences

CONSTANTS
    SCREEN_WIDTH, SCREEN_HEIGHT, SCROLLBACK_LINES,
    TAB,             \* 4: what VGA_putc divides by for a tab
    PAGE,            \* 5: the lines that a page key scrolls by
    Char,            \* what can be seen in a cell
    Blank,           \* an empty cell
    NL, CR, HT       \* '\n', '\r' and '\t'

Cell == 0 .. SCREEN_WIDTH * SCREEN_HEIGHT - 1
ShadowCell == 0 .. SCREEN_WIDTH * SCROLLBACK_LINES - 1
Kept == SCROLLBACK_LINES - SCREEN_HEIGHT

ASSUME ConsoleAssumption ==
    /\ SCREEN_WIDTH \in Nat \ {0} /\ SCREEN_HEIGHT \in Nat /\ SCREEN_HEIGHT >= 2
    /\ SCROLLBACK_LINES \in Nat /\ Kept > 0
    /\ TAB \in Nat \ {0} /\ PAGE \in Nat \ {0}
    /\ Char \cap {Blank, NL, CR, HT} = {}
    /\ NL # CR /\ NL # HT /\ CR # HT /\ Blank \notin {NL, CR, HT}

VARIABLES
    vga,      \* the globals of vga_text.c, and the lines that have scrolled off
    pc,       \* where the task is in it
    ch,       \* VGA_putc's character
    tab,      \* the counter of its loop for a tab, or -1
    tmp,      \* the register that a variable was loaded into
    maxOffset,\* VGA_ScrollUp's local
    torn      \* the screen and its shadow may differ: see Echo, Clear and Blanks

vars == <<vga, pc, ch, tab, tmp, maxOffset, torn>>

Init ==
    /\ vga = [g_ScreenBuffer |-> [k \in Cell |-> Blank],
              g_SBuf |-> [k \in ShadowCell |-> Blank],
              g_SBHead |-> 0, g_SBCount |-> 0, g_ViewOffset |-> 0,
              g_ScreenX |-> 0, g_ScreenY |-> 0, gone |-> <<>>]
    /\ pc = "idle"
    /\ ch = NL
    /\ tab = -1
    /\ tmp = 0
    /\ maxOffset = 0
    /\ torn = FALSE

--------------------------------------------------------------------------------
(* What the functions do to the globals v.                                    *)

sb_cell(line, x) == (line % SCROLLBACK_LINES) * SCREEN_WIDTH + x
Row(k) == k \div SCREEN_WIDTH
Column(k) == k % SCREEN_WIDTH

\* The cells of the screen as the shadow has them.
Live(v) ==
    [k \in Cell |-> v.g_SBuf[sb_cell(v.g_SBHead + Row(k), Column(k))]]

\* A cell outside the screen and the shadow is memory that nothing shows.
VGA_putchr(v, x, y, c) ==
    LET k == y * SCREEN_WIDTH + x
        s == sb_cell(v.g_SBHead + y, x)
    IN  [v EXCEPT !.g_ScreenBuffer = [n \in Cell |-> IF n = k THEN c ELSE @[n]],
                  !.g_SBuf = [n \in ShadowCell |-> IF n = s THEN c ELSE @[n]]]

\* A mutant of sb_render: the view is one line off.
sb_render_OneOff(v) ==
    LET top == v.g_SBHead - v.g_ViewOffset + 1 IN
    [v EXCEPT !.g_ScreenBuffer = [k \in Cell |->
        LET line == top + Row(k)
        IN  IF 0 <= line /\ line < v.g_SBCount + SCREEN_HEIGHT
            THEN v.g_SBuf[sb_cell(line, Column(k))] ELSE Blank]]

sb_render(v) ==
    LET top == v.g_SBHead - v.g_ViewOffset IN
    [v EXCEPT !.g_ScreenBuffer = [k \in Cell |->
        LET line == top + Row(k)
        IN  IF 0 <= line /\ line < v.g_SBCount + SCREEN_HEIGHT
            THEN v.g_SBuf[sb_cell(line, Column(k))] ELSE Blank]]

\* sb_render takes g_SBCount, which is capped, for the number of a line, and shows
\* nothing of the lines from there on.
Blanks(v) == v.g_SBHead > v.g_SBCount

\* VGA_scrollback(1), first half: the rows move up.
RowsUp(v) ==
    [v EXCEPT !.g_ScreenBuffer = [k \in Cell |->
                  IF k + SCREEN_WIDTH \in Cell THEN @[k + SCREEN_WIDTH] ELSE Blank],
              !.gone = LET all == Append(@, [x \in 0 .. SCREEN_WIDTH - 1 |->
                                                v.g_ScreenBuffer[x]])
                       IN  IF Len(all) > Kept THEN Tail(all) ELSE all]

\* A mutant of Limit: one line more.
Limit_OneMore == Kept + 1

\* The cap of g_SBCount.
Limit == Kept

\* A mutant of HeadOn: the line that is cleared is the one that scrolled off.
HeadOn_WrongLine(v) ==
    [v EXCEPT !.g_SBHead = @ + 1,
              !.g_SBCount = IF @ + 1 > Limit THEN Limit ELSE @ + 1,
              !.g_SBuf = [n \in ShadowCell |->
                  IF n \div SCREEN_WIDTH = v.g_SBHead % SCROLLBACK_LINES
                  THEN Blank ELSE @[n]]]

\* VGA_scrollback(1), second half: the shadow moves on by a line and clears it.
HeadOn(v) ==
    [v EXCEPT !.g_SBHead = @ + 1,
              !.g_SBCount = IF @ + 1 > Limit THEN Limit ELSE @ + 1,
              !.g_SBuf = [n \in ShadowCell |->
                  IF n \div SCREEN_WIDTH = (v.g_SBHead + SCREEN_HEIGHT) % SCROLLBACK_LINES
                  THEN Blank ELSE @[n]]]

\* VGA_scrollback(1).
VGA_scrollback(v) == HeadOn([RowsUp(v) EXCEPT !.g_ScreenY = @ - 1])

\* New output brings the live view back.
Snapped(v) ==
    IF v.g_ViewOffset # 0 THEN sb_render([v EXCEPT !.g_ViewOffset = 0]) ELSE v

\* How many turns the loop of a tab has left after i: the column that it looks at
\* moves on with each.  The remainder of a column left of the screen is negative.
TabTurns(v, i) ==
    TAB - (IF v.g_ScreenX < 0 THEN v.g_ScreenX ELSE v.g_ScreenX % TAB) - i

\* The character c, which is no tab, and the cursor behind it.
Moved(v, c) ==
    IF c = NL THEN [v EXCEPT !.g_ScreenX = 0, !.g_ScreenY = @ + 1]
    ELSE IF c = CR THEN [v EXCEPT !.g_ScreenX = 0]
    ELSE [VGA_putchr(v, v.g_ScreenX, v.g_ScreenY, c) EXCEPT !.g_ScreenX = @ + 1]

Wrapped(v) ==
    IF v.g_ScreenX >= SCREEN_WIDTH THEN [v EXCEPT !.g_ScreenX = 0, !.g_ScreenY = @ + 1] ELSE v

Scrolled(v) == IF v.g_ScreenY >= SCREEN_HEIGHT THEN VGA_scrollback(v) ELSE v

\* What a tab puts: spaces, each with a call of VGA_putc, for fewer than TAB + 2 turns.
Tabbed(v) ==
    LET turns[i \in 0 .. TAB + 1] ==
            IF i = 0 THEN v
            ELSE LET u == turns[i - 1]
                 IN  IF TabTurns(u, i - 1) > 0
                     THEN Scrolled(Wrapped(Moved(Snapped(u), Blank))) ELSE u
    IN  turns[TAB + 1]

\* VGA_putc from its beginning to its end, as the interrupt handler calls it.
VGA_putc(v, c) ==
    LET live == Snapped(v)
    IN  Scrolled(Wrapped(IF c = HT THEN Tabbed(live) ELSE Moved(live, c)))

--------------------------------------------------------------------------------
(* VGA_putc in a task: a load or a store per step, a loop over cells too.     *)

\* The task goes from here to there, and the globals become v.
Goes(here, there, v) ==
    /\ pc = here
    /\ pc' = there
    /\ vga' = v
    /\ UNCHANGED <<ch, tab, maxOffset>>

Stores(here, there, v) == Goes(here, there, v) /\ UNCHANGED <<tmp, torn>>
Loads(here, there, x) == Goes(here, there, vga) /\ tmp' = x /\ UNCHANGED torn

\* The spaces of a tab are characters of their own.
Now == IF tab >= 0 THEN Blank ELSE ch

Put(c) ==
    /\ pc = "idle"
    /\ pc' = "putc"
    /\ ch' = c
    /\ UNCHANGED <<vga, tab, tmp, maxOffset, torn>>

Snap ==
    \/ /\ vga.g_ViewOffset = 0
       /\ Stores("putc", "switch", vga)
    \/ /\ vga.g_ViewOffset # 0
       /\ Stores("putc", "snap", [vga EXCEPT !.g_ViewOffset = 0])
    \/ /\ Goes("snap", "switch", sb_render(vga))
       /\ torn' = (torn \/ Blanks(vga))
       /\ UNCHANGED tmp

PutChar ==
    /\ Now \in Char \cup {Blank}
    /\ Stores("switch", "right", VGA_putchr(vga, vga.g_ScreenX, vga.g_ScreenY, Now))

Right ==
    \/ Loads("right", "righted", vga.g_ScreenX)
    \/ Stores("righted", "wrap", [vga EXCEPT !.g_ScreenX = tmp + 1])

Return ==
    /\ Now = CR
    /\ Stores("switch", "wrap", [vga EXCEPT !.g_ScreenX = 0])

NewLine ==
    \/ /\ Now = NL
       /\ Stores("switch", "down", [vga EXCEPT !.g_ScreenX = 0])
    \/ Loads("down", "downed", vga.g_ScreenY)
    \/ Stores("downed", "wrap", [vga EXCEPT !.g_ScreenY = tmp + 1])

\* The loop of a tab begins, goes round with a call of VGA_putc, or ends.
TabTurn ==
    /\ \/ /\ pc = "switch" /\ Now = HT
          /\ pc' = "tab"
          /\ tab' = 0
       \/ /\ pc = "tab" /\ TabTurns(vga, tab) > 0
          /\ pc' = "putc"
          /\ UNCHANGED tab
       \/ /\ pc = "tab" /\ TabTurns(vga, tab) <= 0
          /\ pc' = "wrap"
          /\ tab' = -1
    /\ UNCHANGED <<vga, ch, tmp, maxOffset, torn>>

\* A mutant of Wrap: the column stays.
Wrap_NoReturn ==
    \/ /\ vga.g_ScreenX < SCREEN_WIDTH
       /\ Stores("wrap", "scroll", vga)
    \/ /\ vga.g_ScreenX >= SCREEN_WIDTH
       /\ Loads("wrap", "wrapped", vga.g_ScreenY)
    \/ Stores("wrapped", "scroll", [vga EXCEPT !.g_ScreenY = tmp + 1])

\* Behind the last column the next line begins.
Wrap ==
    \/ /\ vga.g_ScreenX < SCREEN_WIDTH
       /\ Stores("wrap", "scroll", vga)
    \/ /\ vga.g_ScreenX >= SCREEN_WIDTH
       /\ Stores("wrap", "wrapping", vga)
    \/ Loads("wrapping", "wrapped", vga.g_ScreenY)
    \/ Stores("wrapped", "first", [vga EXCEPT !.g_ScreenY = tmp + 1])
    \/ Stores("first", "scroll", [vga EXCEPT !.g_ScreenX = 0])

\* Behind the last line everything moves up.  The head and the count of the
\* shadow are changed in one step: the cursor does not depend on them.
Scroll ==
    \/ /\ vga.g_ScreenY < SCREEN_HEIGHT
       /\ Stores("scroll", "done", vga)
    \/ /\ vga.g_ScreenY >= SCREEN_HEIGHT
       /\ Stores("scroll", "rows", vga)
    \/ Stores("rows", "up", RowsUp(vga))
    \/ Loads("up", "upped", vga.g_ScreenY)
    \/ Stores("upped", "head", [vga EXCEPT !.g_ScreenY = tmp - 1])
    \/ Stores("head", "done", HeadOn(vga))

\* It returns, to the loop of a tab or to the task.
Done ==
    /\ pc = "done"
    /\ pc' = IF tab >= 0 THEN "tab" ELSE "idle"
    /\ tab' = IF tab >= 0 THEN tab + 1 ELSE -1
    /\ UNCHANGED <<vga, ch, tmp, maxOffset, torn>>

--------------------------------------------------------------------------------
(* What else the shell's task does to the screen.                             *)

\* VGA_clrscr.  The shadow keeps the lines that the screen has lost.
Clear ==
    \/ /\ Goes("idle", "clear_x", [vga EXCEPT !.g_ScreenBuffer = [k \in Cell |-> Blank]])
       /\ torn' = TRUE
       /\ UNCHANGED tmp
    \/ Stores("clear_x", "clear_y", [vga EXCEPT !.g_ScreenX = 0])
    \/ Stores("clear_y", "clear_view", [vga EXCEPT !.g_ScreenY = 0])
    \/ Stores("clear_view", "clear_head", [vga EXCEPT !.g_ViewOffset = 0])
    \/ Stores("clear_head", "idle", [vga EXCEPT !.g_SBHead = 0, !.g_SBCount = 0, !.gone = <<>>])

Render(here) == Stores(here, "idle", sb_render(vga))

VGA_ScrollUp ==
    \/ /\ pc = "idle"
       /\ vga.g_SBCount > 0
       /\ pc' = "pageup"
       /\ maxOffset' = vga.g_SBCount
       /\ UNCHANGED <<vga, ch, tab, tmp, torn>>
    \/ Loads("pageup", "paged_up", vga.g_ViewOffset)
    \/ Stores("paged_up", "top", [vga EXCEPT !.g_ViewOffset = tmp + PAGE])
    \/ Stores("top", "render", [vga EXCEPT !.g_ViewOffset =
                                   IF @ > maxOffset THEN maxOffset ELSE @])
    \/ Render("render")

VGA_ScrollDown ==
    \/ Loads("idle", "paged_down", vga.g_ViewOffset)
    \/ Stores("paged_down", "bottom", [vga EXCEPT !.g_ViewOffset = tmp - PAGE])
    \/ Stores("bottom", "show", [vga EXCEPT !.g_ViewOffset = IF @ < 0 THEN 0 ELSE @])
    \/ vga.g_ViewOffset # 0 /\ Render("show")
    \/ vga.g_ViewOffset = 0 /\ Stores("show", "idle", [vga EXCEPT !.g_ScreenBuffer = Live(vga)])

\* The shell takes back a character: the test of the column, the load and the
\* store, and the cell.
Backspace ==
    \/ Stores("idle", IF vga.g_ScreenX > 0 THEN "left" ELSE "erase", vga)
    \/ Loads("left", "lefted", vga.g_ScreenX)
    \/ Stores("lefted", "erase", [vga EXCEPT !.g_ScreenX = tmp - 1])
    \/ Stores("erase", "idle", VGA_putchr(vga, vga.g_ScreenX, vga.g_ScreenY, Blank))

Task ==
    \/ \E c \in Char \cup {NL, CR, HT} : Put(c)
    \/ Snap \/ PutChar \/ Right \/ Return \/ NewLine \/ TabTurn \/ Wrap \/ Scroll \/ Done
    \/ Clear \/ VGA_ScrollUp \/ VGA_ScrollDown \/ Backspace

\* The keyboard's handler echoes a key, between any two steps of the task.
Echo ==
    /\ \E c \in Char \cup {NL, HT} : vga' = VGA_putc(vga, c)
    /\ torn' = (torn \/ pc # "idle" \/ (vga.g_ViewOffset # 0 /\ Blanks(vga)))
    /\ UNCHANGED <<pc, ch, tab, tmp, maxOffset>>

Next == Task \/ Echo

Spec == Init /\ [][Next]_vars

--------------------------------------------------------------------------------
TypeOK ==
    /\ vga.g_ScreenBuffer \in [Cell -> Char \cup {Blank}]
    /\ vga.g_SBuf \in [ShadowCell -> Char \cup {Blank}]
    /\ vga.g_SBCount \in 0 .. Kept
    /\ vga.g_ViewOffset \in -PAGE .. Kept + PAGE
    /\ ch \in Char \cup {NL, CR, HT}
    /\ tab \in -1 .. TAB + 1
    /\ torn \in BOOLEAN

\* Wherever a key is echoed, the cursor is never further than a cell from the
\* screen, and on it between operations but for the column left of the screen
\* that a backspace may leave (vga_text.c:155-189, shell.c:1160-1174).
CursorComesBack ==
    /\ vga.g_ScreenX \in -1 .. SCREEN_WIDTH
    /\ vga.g_ScreenY \in 0 .. SCREEN_HEIGHT
    /\ pc = "idle" => vga.g_ScreenX < SCREEN_WIDTH /\ vga.g_ScreenY < SCREEN_HEIGHT

\* In the live view the screen shows what the shadow has of it.
LiveShown ==
    pc = "idle" /\ ~torn /\ vga.g_ViewOffset = 0 => vga.g_ScreenBuffer = Live(vga)

\* The lines that scrolled off can be scrolled back to, newest last.
HistoryKept ==
    pc = "idle" /\ ~torn =>
        /\ Len(vga.gone) = vga.g_SBCount
        /\ \A n \in DOMAIN vga.gone : \A x \in 0 .. SCREEN_WIDTH - 1 :
               vga.gone[n][x]
                 = vga.g_SBuf[sb_cell(vga.g_SBHead - vga.g_SBCount + n - 1, x)]

\* The screen and the lines above it are what was written (vga_text.c:39-75,
\* 125-153).
ShadowKept == LiveShown /\ HistoryKept

\* The cursor, the view and the counters keep their bounds (vga_text.c:155-204).
CursorSound == TypeOK /\ CursorComesBack
================================================================================
