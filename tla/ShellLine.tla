-------------------------------- MODULE ShellLine -------------------------------
(******************************************************************************)
(* The shell's prompt (Shell_Run in src/kernel/shell.c): it waits for keys    *)
(* with the steps of KeyRing and edits g_Line with what it is given, while    *)
(* keyboard_handler echoes characters when they are typed, however far the    *)
(* shell has come.  What the screen shows behind the prompt is kept beside    *)
(* the line, with the column of the cursor: a line may be longer than a row.  *)
(* How a cell gets onto the screen is Console's matter.                       *)
(******************************************************************************)
EXTENDS KeyRing, SequencesExt

CONSTANTS
    LINE_MAX,               \* the size of g_Line
    SCREEN_WIDTH,           \* the cells of a row
    Backspace, Enter, Page  \* keys that are no characters of a line

ASSUME ShellLineAssumption ==
    /\ LINE_MAX \in Nat \ {0} /\ SCREEN_WIDTH \in Nat \ {0}
    /\ {Backspace, Enter, Page} \subseteq Char

VARIABLES
    g_Line,         \* its first g_LineLen characters
    doing,          \* Shell_Run: "wait" for a key, handle a "key", "dispatch" a line
    shown,          \* the characters on the screen behind the prompt
    g_ScreenX,      \* the column of the cursor
    astray          \* shown and g_Line went apart: see LineShown

screenVars == <<shown, g_ScreenX, astray>>
lineVars == <<g_Line, doing, screenVars>>
shellVars == <<keyVars, lineVars>>

Plain == Char \ {Backspace, Enter, Page}
Column == 0 .. SCREEN_WIDTH - 1

\* Where the prompt ends is up to the length of g_CWD.
LineInit ==
    /\ RingInit
    /\ g_Line = <<>>
    /\ doing = "wait"
    /\ shown = <<>>
    /\ g_ScreenX \in Column
    /\ astray = FALSE

\* Once they went apart nothing is said of shown.
Shows(s) == shown' = IF astray' THEN <<>> ELSE s

\* A key that will change the row the cursor is in waits, or is being handled.
ChangeWaits ==
    \/ \E i \in DOMAIN Waiting : Waiting[i] \in {Backspace, Enter}
    \/ doing = "key" /\ got \in {Backspace, Enter}
    \/ doing = "dispatch"

Full == Succ(g_KeyTail) = g_KeyHead

\* A key in the handler: a character and Enter are echoed, and then put into the
\* ring, which may drop them.  A character takes one cell: the keyboard has no tab.
\* Behind the last cell of a row the cursor goes to the next row.
Type(ch) ==
    /\ Keyboard_PutChar(ch)
    /\ g_ScreenX' = CASE ch \in Plain -> (g_ScreenX + 1) % SCREEN_WIDTH
                      [] ch = Enter -> 0
                      [] OTHER -> g_ScreenX
    /\ astray' = (\/ astray
                  \/ ch \in Plain /\ (ChangeWaits \/ Full)
                  \/ ch = Enter /\ Full)
    /\ Shows(IF ch \in Plain THEN Append(shown, ch) ELSE shown)
    /\ UNCHANGED <<g_Line, doing>>

\* The steps of the wait and of Keyboard_GetChar, which returns to Shell_Run.
Wait ==
    /\ doing = "wait"
    /\ Reader
    /\ doing' = IF at \in {"test", "move"} /\ at' = "away" THEN "key" ELSE "wait"
    /\ UNCHANGED <<g_Line, screenVars>>

\* Page up and down scroll the view.
PageKey ==
    /\ doing = "key" /\ got = Page
    /\ doing' = "wait"
    /\ UNCHANGED <<keyVars, g_Line, screenVars>>

EnterKey ==
    /\ doing = "key" /\ got = Enter
    /\ doing' = "dispatch"
    /\ g_ScreenX' = 0
    /\ UNCHANGED <<keyVars, g_Line, shown, astray>>

\* A mutant of Prompt: the line is not emptied.
Prompt_KeepsLine ==
    /\ doing = "dispatch"
    /\ doing' = "wait"
    /\ astray' = \E i \in DOMAIN Waiting : Waiting[i] \in Plain
    /\ Shows(<<>>)
    /\ g_ScreenX' \in Column
    /\ UNCHANGED <<keyVars, g_Line>>

\* The command has returned; the new prompt stands in a row of its own, behind
\* what was typed in the meantime.
Prompt ==
    /\ doing = "dispatch"
    /\ doing' = "wait"
    /\ g_Line' = <<>>
    /\ astray' = \E i \in DOMAIN Waiting : Waiting[i] \in Plain
    /\ Shows(<<>>)
    /\ g_ScreenX' \in Column
    /\ UNCHANGED keyVars

\* A mutant of BackspaceKey: the cell is erased though the line is empty.
BackspaceKey_NoTest ==
    /\ doing = "key" /\ got = Backspace
    /\ doing' = "wait"
    /\ g_Line' = IF g_Line = <<>> THEN <<>> ELSE Front(g_Line)
    /\ shown' = IF shown = <<>> THEN <<None>> ELSE Front(shown)
    /\ g_ScreenX' = IF g_ScreenX > 0 THEN g_ScreenX - 1 ELSE 0
    /\ UNCHANGED <<keyVars, astray>>

\* The last character, and the cell left of the cursor.  The cursor goes back to
\* no row above: when the line went on in a new row and the cursor is in its first
\* column the character stays on the screen, at the end of the row above.
BackspaceKey ==
    /\ doing = "key" /\ got = Backspace
    /\ doing' = "wait"
    /\ IF g_Line = <<>>
       THEN UNCHANGED <<g_Line, screenVars>>
       ELSE /\ g_Line' = Front(g_Line)
            /\ g_ScreenX' = IF g_ScreenX > 0 THEN g_ScreenX - 1 ELSE g_ScreenX
            /\ astray' = (astray \/ g_ScreenX = 0)
            /\ Shows(IF shown = <<>> THEN shown ELSE Front(shown))
    /\ UNCHANGED keyVars

\* A character that finds no room stays on the screen.
PlainKey ==
    /\ doing = "key" /\ got \notin {Backspace, Enter, Page}
    /\ doing' = "wait"
    /\ LET room == Len(g_Line) < LINE_MAX - 1 IN
       /\ g_Line' = IF room THEN Append(g_Line, got) ELSE g_Line
       /\ astray' = (astray \/ ~room)
    /\ Shows(shown)
    /\ UNCHANGED <<keyVars, g_ScreenX>>

Shell_Run == Wait \/ PageKey \/ EnterKey \/ Prompt \/ BackspaceKey \/ PlainKey

LineNext == Shell_Run \/ \E ch \in Char : Type(ch)

\* The shell keeps executing, and its commands return.
LineSpec == LineInit /\ [][LineNext]_shellVars /\ WF_shellVars(Shell_Run)

--------------------------------------------------------------------------------
\* What stands behind the prompt is the line that Enter will run, whenever the
\* shell has caught up and however the typing and the reading were interleaved,
\* with these exceptions: a character typed while a backspace or a command waits,
\* since it is echoed before and erased or left above after; one that the full
\* ring or the full line dropped behind its echo; and one that a backspace takes
\* from the line at the end of the row above the cursor.  And the line leaves room
\* for its end (shell.c:1137-1179, keyboard.c:124-127).
LineShown ==
    /\ Len(g_Line) < LINE_MAX
    /\ doing = "wait" /\ g_KeyHead = g_KeyTail /\ ~astray => shown = g_Line
================================================================================
