---------------------------- MODULE ConsoleProofs ----------------------------
(******************************************************************************)
(* The console's proofs: for every size of the screen and of the scrollback,  *)
(* and wherever a key is echoed, the cursor comes back to the screen; and     *)
(* while nothing is torn the screen and the lines above it are what was       *)
(* written.                                                                   *)
(*                                                                            *)
(* A tab is a recursive function of the loop's counter.  What a space keeps a *)
(* tab keeps: the first turn that broke it would follow one that had not      *)
(* (Least), and the turns that the function stands for exist (PathExists).    *)
(******************************************************************************)
EXTENDS Console, WellFoundedInduction, TLAPS

\* A set of numbers that is not empty has a least one.
LEMMA Least ==
    ASSUME NEW T \in SUBSET Nat, T # {}
    PROVE  \E m \in T : \A n \in T : m <= n
<1>1. PICK m \in T : \A n \in T : <<n, m>> \notin OpToRel(<, Nat)
  BY NatLessThanWellFounded, WFMin, Zenon
<1>2. \A n \in T : ~(n < m)
  BY <1>1 DEF OpToRel
<1>3. \A n \in T : n \in Nat /\ m \in Nat
  OBVIOUS
<1>4. \A n \in T : m <= n
  BY <1>2, <1>3
<1> QED BY <1>4

\* f begins at v and makes N steps of d.
IsPath(f, N, d, v) == f[0] = v /\ \A i \in 1 .. N : f[i] = d[<<i, f[i - 1]>>]

\* What a step on S does, done N times over, is a path through S.
LEMMA PathExists ==
    ASSUME NEW S, NEW N \in Nat, NEW d \in [(1 .. N) \X S -> S], NEW v \in S
    PROVE  \E f \in [0 .. N -> S] : IsPath(f, N, d, v)
<1> DEFINE Path(f, n) == f[0] = v /\ \A i \in 1 .. n : f[i] = d[<<i, f[i - 1]>>]
           T == {n \in 0 .. N : ~ \E f \in [0 .. n -> S] : Path(f, n)}
<1>1. ASSUME T # {} PROVE FALSE
  <2>1. T \in SUBSET Nat
    OBVIOUS
  <2>2. PICK m \in T : \A n \in T : m <= n
    BY <1>1, <2>1, Least
  <2>3. m \in 0 .. N /\ ~ \E f \in [0 .. m -> S] : Path(f, m)
    BY <2>2
  <2>4. CASE m = 0
    <3> DEFINE f == [i \in 0 .. 0 |-> v]
    <3>1. f \in [0 .. m -> S] /\ Path(f, m)
      BY <2>4
    <3> QED BY <3>1, <2>3
  <2>5. CASE m > 0
    <3>1. m - 1 \in 0 .. N /\ m - 1 \notin T
      <4>1. m - 1 \in 0 .. N /\ ~(m <= m - 1)
        BY <2>3, <2>5
      <4> HIDE DEF T
      <4>2. m - 1 \notin T
        BY <2>2, <4>1, Zenon
      <4> QED BY <4>1, <4>2
    <3>2. PICK f \in [0 .. m - 1 -> S] : Path(f, m - 1)
      BY <3>1
    <3> DEFINE g == [i \in 0 .. m |-> IF i = m THEN d[<<m, f[m - 1]>>] ELSE f[i]]
    <3>3. f[m - 1] \in S /\ <<m, f[m - 1]>> \in (1 .. N) \X S
      BY <2>3, <2>5, <3>2
    <3>4. d[<<m, f[m - 1]>>] \in S
      BY <3>3
    <3>5. g \in [0 .. m -> S]
      BY <2>3, <3>2, <3>4
    <3>6. g[0] = v
      BY <2>3, <2>5, <3>2
    <3>7. ASSUME NEW i \in 1 .. m PROVE g[i] = d[<<i, g[i - 1]>>]
      <4>1. g[i - 1] = f[i - 1] /\ i \in 0 .. m
        BY <2>3, <2>5
      <4>2. CASE i = m
        <5>1. g[i] = d[<<m, f[m - 1]>>]
          BY <4>1, <4>2
        <5> QED BY <4>1, <4>2, <5>1
      <4>3. CASE i < m
        <5>1. g[i] = f[i] /\ i \in 1 .. m - 1
          BY <2>3, <4>3
        <5> QED BY <4>1, <5>1, <3>2
      <4> QED BY <2>3, <4>2, <4>3
    <3> QED BY <2>3, <3>5, <3>6, <3>7
  <2> QED BY <2>3, <2>4, <2>5
<1>2. N \notin T
  BY <1>1
<1> QED BY <1>2 DEF IsPath

--------------------------------------------------------------------------------
\* The spaces of a tab.
Space(u) == Scrolled(Wrapped(Moved(Snapped(u), Blank)))

\* What a space preserves a tab preserves.
LEMMA TabKeeps ==
    ASSUME NEW S, NEW v \in S, \A u \in S : Space(u) \in S
    PROVE  Tabbed(v) \in S
<1> DEFINE N == TAB + 1
           Turn(i, u) == IF TabTurns(u, i - 1) > 0 THEN Space(u) ELSE u
           Unrolled(g) == [i \in 0 .. N |-> IF i = 0 THEN v ELSE Turn(i, g[i - 1])]
           turns == CHOOSE g : g = Unrolled(g)
           d == [p \in (1 .. N) \X S |-> Turn(p[1], p[2])]
<1>1. N \in Nat
  BY ConsoleAssumption
<1>2. \A i, u : u \in S => Turn(i, u) \in S
  <2>1. \A i, u : Turn(i, u) = u \/ Turn(i, u) = Space(u)
    BY Zenon
  <2> QED BY <2>1
<1> HIDE DEF Turn
<1>3. d \in [(1 .. N) \X S -> S]
  BY <1>2
<1>4. PICK f \in [0 .. N -> S] : IsPath(f, N, d, v)
  <2> HIDE DEF d, N
  <2> QED BY <1>1, <1>3, PathExists, Zenon
<1>5. \A i \in 1 .. N : f[i] = Turn(i, f[i - 1])
  <2> SUFFICES ASSUME NEW i \in 1 .. N PROVE f[i] = Turn(i, f[i - 1])
    OBVIOUS
  <2>1. f[i - 1] \in S
    BY <1>1, <1>4
  <2> DEFINE u == f[i - 1]
  <2>2. u \in S /\ f[i] = d[<<i, u>>]
    BY <1>4, <2>1 DEF IsPath
  <2> HIDE DEF u, N
  <2>3. d[<<i, u>>] = Turn(i, u)
    BY <2>2
  <2> QED BY <2>2, <2>3 DEF u
<1>6. f = Unrolled(f)
  <2>1. \A i \in 0 .. N : f[i] = IF i = 0 THEN v ELSE Turn(i, f[i - 1])
    <3> SUFFICES ASSUME NEW i \in 0 .. N PROVE f[i] = IF i = 0 THEN v ELSE Turn(i, f[i - 1])
      OBVIOUS
    <3>1. i = 0 \/ i \in 1 .. N
      BY <1>1
    <3> QED BY <3>1, <1>4, <1>5 DEF IsPath
  <2> HIDE DEF N
  <2> QED BY <1>4, <2>1
<1>7. turns = Unrolled(turns)
  <2> HIDE DEF Unrolled
  <2> QED BY <1>6
<1>8. Tabbed(v) = turns[N]
  BY Zenon DEF Tabbed, Turn, Space
<1> DEFINE T == {i \in 0 .. N : turns[i] \notin S}
<1>9. ASSUME T # {} PROVE FALSE
  <2> HIDE DEF N, turns
  <2>1. T \in SUBSET Nat
    BY <1>1
  <2>2. PICK m \in T : \A n \in T : m <= n
    BY <1>9, <2>1, Least
  <2>3. m \in 0 .. N /\ turns[m] \notin S
    BY <2>2
  <2>4. turns[m] = IF m = 0 THEN v ELSE Turn(m, turns[m - 1])
    BY <1>7, <2>3
  <2>5. CASE m = 0
    BY <2>3, <2>4, <2>5
  <2>6. CASE m # 0
    <3>1. m - 1 \in 0 .. N /\ ~(m <= m - 1)
      BY <1>1, <2>3, <2>6
    <3>2. turns[m - 1] \in S
      BY <2>2, <3>1
    <3> QED BY <1>2, <2>3, <2>4, <2>6, <3>2
  <2> QED BY <2>5, <2>6
<1> HIDE DEF turns, N
<1>10. turns[N] \in S
  BY <1>1, <1>9
<1> QED BY <1>8, <1>10

--------------------------------------------------------------------------------
\* The types of the globals, and what each function leaves alone.
Glyph == Char \cup {Blank}
Line == [0 .. SCREEN_WIDTH - 1 -> Glyph]
Globals ==
    [g_ScreenBuffer : [Cell -> Glyph], g_SBuf : [ShadowCell -> Glyph],
     g_SBHead : Nat, g_SBCount : 0 .. Kept, g_ViewOffset : Int,
     g_ScreenX : Int, g_ScreenY : Int, gone : Seq(Line)]

SameShadow(u, v) ==
    /\ u.g_SBuf = v.g_SBuf /\ u.g_SBHead = v.g_SBHead
    /\ u.g_SBCount = v.g_SBCount /\ u.gone = v.gone

SameCursor(u, v) ==
    u.g_ScreenX = v.g_ScreenX /\ u.g_ScreenY = v.g_ScreenY

\* u is v, but for the cursor.
Moves(u, v, x, y) ==
    /\ u \in Globals /\ u.g_ScreenX = x /\ u.g_ScreenY = y
    /\ SameShadow(u, v) /\ u.g_ScreenBuffer = v.g_ScreenBuffer
    /\ u.g_ViewOffset = v.g_ViewOffset

\* A store into the column, the row or both.
LEMMA SetCursor ==
    ASSUME NEW v \in Globals, NEW x \in Int, NEW y \in Int
    PROVE  /\ Moves([v EXCEPT !.g_ScreenX = x, !.g_ScreenY = y], v, x, y)
           /\ Moves([v EXCEPT !.g_ScreenX = x], v, x, v.g_ScreenY)
           /\ Moves([v EXCEPT !.g_ScreenY = y], v, v.g_ScreenX, y)
BY DEF Globals, Moves, SameShadow

\* A store into the view.
LEMMA SetView ==
    ASSUME NEW v \in Globals, NEW o \in Int
    PROVE  LET u == [v EXCEPT !.g_ViewOffset = o]
           IN  /\ u \in Globals /\ u.g_ScreenX = v.g_ScreenX /\ u.g_ScreenY = v.g_ScreenY
               /\ u.g_ViewOffset = o /\ SameShadow(u, v)
               /\ u.g_ScreenBuffer = v.g_ScreenBuffer
BY DEF Globals, SameShadow

\* All the cells of the screen at once.
LEMMA ScreenSet ==
    ASSUME NEW v \in Globals, NEW b \in [Cell -> Glyph]
    PROVE  LET u == [v EXCEPT !.g_ScreenBuffer = b]
           IN  /\ u \in Globals /\ SameCursor(u, v) /\ SameShadow(u, v)
               /\ u.g_ViewOffset = v.g_ViewOffset /\ u.g_ScreenBuffer = b
BY DEF Globals, SameShadow, SameCursor

\* Where a line of the shadow lies.
LEMMA CellIn ==
    ASSUME NEW l \in Int, NEW x \in 0 .. SCREEN_WIDTH - 1
    PROVE  sb_cell(l, x) \in ShadowCell
<1>1. /\ SCREEN_WIDTH \in Nat \ {0} /\ SCROLLBACK_LINES \in Nat \ {0}
  BY ConsoleAssumption DEF Kept
<1>2. l % SCROLLBACK_LINES \in 0 .. SCROLLBACK_LINES - 1
  BY <1>1
<1> DEFINE m == l % SCROLLBACK_LINES
<1> HIDE DEF m
<1>3. m \in 0 .. SCROLLBACK_LINES - 1
  BY <1>2 DEF m
<1>4. m * SCREEN_WIDTH \in Nat /\ m * SCREEN_WIDTH <= (SCROLLBACK_LINES - 1) * SCREEN_WIDTH
  BY <1>1, <1>3
<1>5. (SCROLLBACK_LINES - 1) * SCREEN_WIDTH = SCREEN_WIDTH * SCROLLBACK_LINES - SCREEN_WIDTH
  BY <1>1
<1>6. SCREEN_WIDTH * SCROLLBACK_LINES \in Nat
  BY <1>1
<1>7. m * SCREEN_WIDTH + x \in ShadowCell
  BY <1>1, <1>4, <1>5, <1>6 DEF ShadowCell
<1> QED BY <1>7 DEF m, sb_cell

\* Row and column of a cell.
LEMMA RowColumn ==
    ASSUME NEW k \in Cell
    PROVE  /\ Row(k) \in 0 .. SCREEN_HEIGHT - 1 /\ Column(k) \in 0 .. SCREEN_WIDTH - 1
           /\ k = Row(k) * SCREEN_WIDTH + Column(k)
<1>1. /\ SCREEN_WIDTH \in Nat \ {0} /\ SCREEN_HEIGHT \in Nat \ {0}
  BY ConsoleAssumption
<1>2. SCREEN_WIDTH * SCREEN_HEIGHT \in Nat
  BY <1>1
<1>3. k \in Nat /\ k < SCREEN_WIDTH * SCREEN_HEIGHT
  BY <1>2 DEF Cell
<1> DEFINE r == k \div SCREEN_WIDTH
           x == k % SCREEN_WIDTH
<1>4. r \in Int /\ x \in 0 .. SCREEN_WIDTH - 1 /\ k = SCREEN_WIDTH * r + x
  BY <1>1, <1>3
<1> HIDE DEF r, x
<1>5. r < SCREEN_HEIGHT
  <2>1. ASSUME r >= SCREEN_HEIGHT PROVE FALSE
    <3>1. SCREEN_WIDTH * r >= SCREEN_WIDTH * SCREEN_HEIGHT
      BY <1>1, <1>4, <2>1
    <3> QED BY <1>1, <1>2, <1>3, <1>4, <3>1
  <2> QED BY <1>1, <1>4, <2>1
<1>6. r >= 0
  <2>1. ASSUME r <= -1 PROVE FALSE
    <3>1. SCREEN_WIDTH * r <= -SCREEN_WIDTH
      BY <1>1, <1>4, <2>1
    <3> QED BY <1>1, <1>3, <1>4, <3>1
  <2> QED BY <1>4, <2>1
<1>7. SCREEN_WIDTH * r = r * SCREEN_WIDTH
  BY <1>1, <1>4
<1> QED BY <1>1, <1>4, <1>5, <1>6, <1>7 DEF Row, Column, r, x

\* The live view is a screen.
LEMMA LiveTyped ==
    ASSUME NEW v \in Globals
    PROVE  Live(v) \in [Cell -> Glyph]
<1>1. ASSUME NEW k \in Cell PROVE v.g_SBuf[sb_cell(v.g_SBHead + Row(k), Column(k))] \in Glyph
  <2>1. v.g_SBHead + Row(k) \in Int /\ Column(k) \in 0 .. SCREEN_WIDTH - 1
    BY RowColumn, ConsoleAssumption DEF Globals
  <2>2. sb_cell(v.g_SBHead + Row(k), Column(k)) \in ShadowCell
    BY <2>1, CellIn
  <2> QED BY <2>2 DEF Globals
<1> QED BY <1>1 DEF Live

\* A character changes a cell of each buffer and nothing else.
LEMMA PutchrKeeps ==
    ASSUME NEW v \in Globals, NEW x, NEW y, NEW c \in Glyph
    PROVE  /\ VGA_putchr(v, x, y, c) \in Globals
           /\ SameCursor(VGA_putchr(v, x, y, c), v)
           /\ VGA_putchr(v, x, y, c).g_ViewOffset = v.g_ViewOffset
           /\ VGA_putchr(v, x, y, c).g_SBHead = v.g_SBHead
           /\ VGA_putchr(v, x, y, c).g_SBCount = v.g_SBCount
           /\ VGA_putchr(v, x, y, c).gone = v.gone
<1> DEFINE k == y * SCREEN_WIDTH + x
           s == sb_cell(v.g_SBHead + y, x)
           b == [n \in Cell |-> IF n = k THEN c ELSE v.g_ScreenBuffer[n]]
           h == [n \in ShadowCell |-> IF n = s THEN c ELSE v.g_SBuf[n]]
<1>1. VGA_putchr(v, x, y, c) = [v EXCEPT !.g_ScreenBuffer = b, !.g_SBuf = h]
  BY DEF VGA_putchr
<1>2. b \in [Cell -> Glyph] /\ h \in [ShadowCell -> Glyph]
  BY DEF Globals
<1> HIDE DEF b, h
<1> QED BY <1>1, <1>2 DEF Globals, SameCursor

\* Rendering changes the screen alone.
LEMMA RenderKeeps ==
    ASSUME NEW v \in Globals
    PROVE  /\ sb_render(v) \in Globals /\ SameCursor(sb_render(v), v)
           /\ SameShadow(sb_render(v), v)
           /\ sb_render(v).g_ViewOffset = v.g_ViewOffset
<1> DEFINE top == v.g_SBHead - v.g_ViewOffset
           b == [k \in Cell |->
                    LET line == top + Row(k)
                    IN  IF 0 <= line /\ line < v.g_SBCount + SCREEN_HEIGHT
                        THEN v.g_SBuf[sb_cell(line, Column(k))] ELSE Blank]
<1>1. sb_render(v) = [v EXCEPT !.g_ScreenBuffer = b]
  BY DEF sb_render
<1>2. b \in [Cell -> Glyph]
  <2>1. ASSUME NEW k \in Cell PROVE v.g_SBuf[sb_cell(top + Row(k), Column(k))] \in Glyph
    <3>1. top + Row(k) \in Int /\ Column(k) \in 0 .. SCREEN_WIDTH - 1
      BY RowColumn, ConsoleAssumption DEF Globals
    <3>2. sb_cell(top + Row(k), Column(k)) \in ShadowCell
      BY <3>1, CellIn
    <3> QED BY <3>2 DEF Globals
  <2>2. Blank \in Glyph
    BY DEF Glyph
  <2> HIDE DEF top
  <2> QED BY <2>1, <2>2
<1> HIDE DEF b
<1> QED BY <1>1, <1>2 DEF Globals, SameCursor, SameShadow

\* The row at the top of the screen is a line.
TopRow(v) == [x \in 0 .. SCREEN_WIDTH - 1 |-> v.g_ScreenBuffer[x]]

LEMMA TopRowTyped ==
    ASSUME NEW v \in Globals
    PROVE  TopRow(v) \in Line
<1>1. SCREEN_WIDTH \in Nat \ {0} /\ SCREEN_HEIGHT \in Nat \ {0}
  BY ConsoleAssumption
<1>2. SCREEN_WIDTH <= SCREEN_WIDTH * SCREEN_HEIGHT /\ SCREEN_WIDTH * SCREEN_HEIGHT \in Nat
  BY <1>1
<1>3. 0 .. SCREEN_WIDTH - 1 \subseteq Cell
  BY <1>1, <1>2 DEF Cell
<1> QED BY <1>3 DEF TopRow, Line, Globals

\* What the first half of a scroll changes.
LEMMA RowsUpKeeps ==
    ASSUME NEW v \in Globals
    PROVE  /\ RowsUp(v) \in Globals /\ SameCursor(RowsUp(v), v)
           /\ RowsUp(v).g_SBuf = v.g_SBuf /\ RowsUp(v).g_SBHead = v.g_SBHead
           /\ RowsUp(v).g_SBCount = v.g_SBCount
           /\ RowsUp(v).g_ViewOffset = v.g_ViewOffset
           /\ \A k \in Cell : RowsUp(v).g_ScreenBuffer[k]
                = IF k + SCREEN_WIDTH \in Cell THEN v.g_ScreenBuffer[k + SCREEN_WIDTH] ELSE Blank
           /\ RowsUp(v).gone = LET all == Append(v.gone, TopRow(v))
                               IN  IF Len(all) > Kept THEN Tail(all) ELSE all
<1> DEFINE b == [k \in Cell |-> IF k + SCREEN_WIDTH \in Cell
                                THEN v.g_ScreenBuffer[k + SCREEN_WIDTH] ELSE Blank]
           all == Append(v.gone, TopRow(v))
           g == IF Len(all) > Kept THEN Tail(all) ELSE all
<1>1. RowsUp(v) = [v EXCEPT !.g_ScreenBuffer = b, !.gone = g]
  BY Zenon DEF RowsUp, TopRow
<1>2. b \in [Cell -> Glyph]
  BY DEF Globals, Glyph
<1>3. g \in Seq(Line)
  <2>1. v.gone \in Seq(Line)
    BY DEF Globals
  <2>2. all \in Seq(Line) /\ Len(all) = Len(v.gone) + 1 /\ Len(v.gone) \in Nat
    BY <2>1, TopRowTyped
  <2> HIDE DEF all
  <2>3. all # <<>>
    BY <2>2
  <2>4. Tail(all) \in Seq(Line)
    BY <2>2, <2>3
  <2> QED BY <2>2, <2>4
<1>4. \A k \in Cell : b[k] = IF k + SCREEN_WIDTH \in Cell
                             THEN v.g_ScreenBuffer[k + SCREEN_WIDTH] ELSE Blank
  BY Zenon
<1> HIDE DEF b, g
<1>5. RowsUp(v).g_ScreenBuffer = b /\ RowsUp(v).gone = g
  BY <1>1 DEF Globals
<1>6. /\ RowsUp(v) \in Globals /\ SameCursor(RowsUp(v), v)
      /\ RowsUp(v).g_SBuf = v.g_SBuf /\ RowsUp(v).g_SBHead = v.g_SBHead
      /\ RowsUp(v).g_SBCount = v.g_SBCount
      /\ RowsUp(v).g_ViewOffset = v.g_ViewOffset
  BY <1>1, <1>2, <1>3 DEF Globals, SameCursor
<1>7. \A k \in Cell : RowsUp(v).g_ScreenBuffer[k]
                = IF k + SCREEN_WIDTH \in Cell THEN v.g_ScreenBuffer[k + SCREEN_WIDTH] ELSE Blank
  BY <1>4, <1>5, Zenon
<1> QED BY <1>5, <1>6, <1>7 DEF g

\* What its second half changes.
LEMMA HeadOnKeeps ==
    ASSUME NEW v \in Globals
    PROVE  /\ HeadOn(v) \in Globals /\ SameCursor(HeadOn(v), v)
           /\ HeadOn(v).g_ScreenBuffer = v.g_ScreenBuffer /\ HeadOn(v).gone = v.gone
           /\ HeadOn(v).g_ViewOffset = v.g_ViewOffset
           /\ HeadOn(v).g_SBHead = v.g_SBHead + 1
           /\ HeadOn(v).g_SBCount = IF v.g_SBCount + 1 > Kept THEN Kept ELSE v.g_SBCount + 1
           /\ \A n \in ShadowCell : HeadOn(v).g_SBuf[n]
                = IF n \div SCREEN_WIDTH = (v.g_SBHead + SCREEN_HEIGHT) % SCROLLBACK_LINES
                  THEN Blank ELSE v.g_SBuf[n]
<1> DEFINE h == [n \in ShadowCell |->
                    IF n \div SCREEN_WIDTH = (v.g_SBHead + SCREEN_HEIGHT) % SCROLLBACK_LINES
                    THEN Blank ELSE v.g_SBuf[n]]
           c == IF v.g_SBCount + 1 > Limit THEN Limit ELSE v.g_SBCount + 1
<1>1. HeadOn(v) = [v EXCEPT !.g_SBHead = v.g_SBHead + 1, !.g_SBCount = c, !.g_SBuf = h]
  BY Zenon DEF HeadOn
<1>2. h \in [ShadowCell -> Glyph]
  BY DEF Globals, Glyph
<1>3. c \in 0 .. Kept /\ v.g_SBHead + 1 \in Nat
  BY ConsoleAssumption DEF Globals, Limit, Kept
<1>4. \A n \in ShadowCell : h[n]
                = IF n \div SCREEN_WIDTH = (v.g_SBHead + SCREEN_HEIGHT) % SCROLLBACK_LINES
                  THEN Blank ELSE v.g_SBuf[n]
  BY Zenon
<1>5. c = IF v.g_SBCount + 1 > Kept THEN Kept ELSE v.g_SBCount + 1
  BY DEF Limit
<1> HIDE DEF h, c
<1>6. HeadOn(v).g_SBuf = h
  BY <1>1 DEF Globals
<1>7. /\ HeadOn(v) \in Globals /\ SameCursor(HeadOn(v), v)
      /\ HeadOn(v).g_ScreenBuffer = v.g_ScreenBuffer /\ HeadOn(v).gone = v.gone
      /\ HeadOn(v).g_ViewOffset = v.g_ViewOffset
      /\ HeadOn(v).g_SBHead = v.g_SBHead + 1 /\ HeadOn(v).g_SBCount = c
  BY <1>1, <1>2, <1>3 DEF Globals, SameCursor
<1>8. \A n \in ShadowCell : HeadOn(v).g_SBuf[n]
                = IF n \div SCREEN_WIDTH = (v.g_SBHead + SCREEN_HEIGHT) % SCROLLBACK_LINES
                  THEN Blank ELSE v.g_SBuf[n]
  BY <1>4, <1>6, Zenon
<1> QED BY <1>5, <1>7, <1>8

\* Coming back to the live view changes the screen and the view alone.
LEMMA SnappedKeeps ==
    ASSUME NEW v \in Globals
    PROVE  /\ Snapped(v) \in Globals /\ SameCursor(Snapped(v), v)
           /\ SameShadow(Snapped(v), v) /\ Snapped(v).g_ViewOffset = 0
<1>1. CASE v.g_ViewOffset = 0
  BY <1>1 DEF Snapped, SameCursor, SameShadow
<1>2. CASE v.g_ViewOffset # 0
  <2> DEFINE u == [v EXCEPT !.g_ViewOffset = 0]
  <2>1. u \in Globals /\ SameCursor(u, v) /\ SameShadow(u, v) /\ u.g_ViewOffset = 0
    BY DEF Globals, SameCursor, SameShadow
  <2>2. Snapped(v) = sb_render(u)
    BY <1>2 DEF Snapped
  <2> HIDE DEF u
  <2> QED BY <2>1, <2>2, RenderKeeps DEF SameCursor, SameShadow
<1> QED BY <1>1, <1>2

\* A character moves the cursor on, or to the next line.
LEMMA MovedKeeps ==
    ASSUME NEW v \in Globals, NEW c \in Glyph \cup {NL}
    PROVE  /\ Moved(v, c) \in Globals
           /\ Moved(v, c).g_ViewOffset = v.g_ViewOffset
           /\ IF c = NL
              THEN Moved(v, c).g_ScreenX = 0 /\ Moved(v, c).g_ScreenY = v.g_ScreenY + 1
              ELSE Moved(v, c).g_ScreenX = v.g_ScreenX + 1 /\ Moved(v, c).g_ScreenY = v.g_ScreenY
<1>1. CASE c = NL
  <2>1. Moved(v, c) = [v EXCEPT !.g_ScreenX = 0, !.g_ScreenY = v.g_ScreenY + 1]
    BY <1>1, Zenon DEF Moved
  <2>2. v.g_ScreenY + 1 \in Int /\ 0 \in Int
    BY DEF Globals
  <2>3. Moves(Moved(v, c), v, 0, v.g_ScreenY + 1)
    BY <2>1, <2>2, SetCursor, Zenon
  <2> QED BY <1>1, <2>3 DEF Moves
<1>2. CASE c # NL
  <2> DEFINE u == VGA_putchr(v, v.g_ScreenX, v.g_ScreenY, c)
  <2>1. c \in Glyph /\ c # CR
    BY <1>2, ConsoleAssumption DEF Glyph
  <2>2. u \in Globals /\ SameCursor(u, v) /\ u.g_ViewOffset = v.g_ViewOffset
    BY <2>1, PutchrKeeps
  <2>3. Moved(v, c) = [u EXCEPT !.g_ScreenX = u.g_ScreenX + 1]
    BY <1>2, <2>1, Zenon DEF Moved
  <2> HIDE DEF u
  <2>4. u.g_ScreenX + 1 \in Int /\ u.g_ScreenX = v.g_ScreenX /\ u.g_ScreenY = v.g_ScreenY
    BY <2>2 DEF Globals, SameCursor
  <2>5. Moves([u EXCEPT !.g_ScreenX = u.g_ScreenX + 1], u, u.g_ScreenX + 1, u.g_ScreenY)
    BY <2>2, <2>4, SetCursor
  <2>6. /\ Moved(v, c) \in Globals /\ Moved(v, c).g_ViewOffset = u.g_ViewOffset
        /\ Moved(v, c).g_ScreenX = u.g_ScreenX + 1 /\ Moved(v, c).g_ScreenY = u.g_ScreenY
    BY <2>3, <2>5 DEF Moves
  <2> QED BY <1>2, <2>2, <2>4, <2>6
<1> QED BY <1>1, <1>2

\* Behind the last column and the last line.
LEMMA SettledKeeps ==
    ASSUME NEW v \in Globals
    PROVE  LET s == Scrolled(Wrapped(v))
               over == v.g_ScreenX >= SCREEN_WIDTH
               y == IF over THEN v.g_ScreenY + 1 ELSE v.g_ScreenY
           IN  /\ s \in Globals /\ s.g_ViewOffset = v.g_ViewOffset
               /\ s.g_ScreenX = IF over THEN 0 ELSE v.g_ScreenX
               /\ s.g_ScreenY = IF y >= SCREEN_HEIGHT THEN y - 1 ELSE y
<1> DEFINE over == v.g_ScreenX >= SCREEN_WIDTH
           y == IF over THEN v.g_ScreenY + 1 ELSE v.g_ScreenY
           w == Wrapped(v)
<1>1. /\ w \in Globals /\ w.g_ViewOffset = v.g_ViewOffset
      /\ w.g_ScreenX = IF over THEN 0 ELSE v.g_ScreenX
      /\ w.g_ScreenY = y
  <2>1. CASE over
    <3>1. w = [v EXCEPT !.g_ScreenX = 0, !.g_ScreenY = v.g_ScreenY + 1]
      BY <2>1, Zenon DEF Wrapped
    <3>2. v.g_ScreenY + 1 \in Int /\ 0 \in Int
      BY DEF Globals
    <3> HIDE DEF w
    <3>3. Moves([v EXCEPT !.g_ScreenX = 0, !.g_ScreenY = v.g_ScreenY + 1], v, 0, v.g_ScreenY + 1)
      BY <3>2, SetCursor
    <3>4. Moves(w, v, 0, v.g_ScreenY + 1)
      BY <3>1, <3>3
    <3> QED BY <2>1, <3>4 DEF Moves
  <2>2. CASE ~over
    BY <2>2 DEF Wrapped
  <2> QED BY <2>1, <2>2
<1>2. CASE w.g_ScreenY >= SCREEN_HEIGHT
  <2> DEFINE r == RowsUp(w)
             t == [r EXCEPT !.g_ScreenY = r.g_ScreenY - 1]
  <2>1. r \in Globals /\ SameCursor(r, w) /\ r.g_ViewOffset = w.g_ViewOffset
    BY <1>1, RowsUpKeeps
  <2>2. Scrolled(w) = HeadOn(t)
    BY <1>2, Zenon DEF Scrolled, VGA_scrollback
  <2> HIDE DEF r
  <2>3. /\ t \in Globals /\ t.g_ViewOffset = r.g_ViewOffset
        /\ t.g_ScreenX = r.g_ScreenX /\ t.g_ScreenY = r.g_ScreenY - 1
    <3>1. r.g_ScreenY - 1 \in Int
      BY <2>1 DEF Globals
    <3>2. Moves([r EXCEPT !.g_ScreenY = r.g_ScreenY - 1], r, r.g_ScreenX, r.g_ScreenY - 1)
      BY <2>1, <3>1, SetCursor
    <3> QED BY <3>2 DEF Moves
  <2> HIDE DEF t, w
  <2> QED BY <1>1, <1>2, <2>1, <2>2, <2>3, HeadOnKeeps DEF SameCursor, w
<1>3. CASE ~(w.g_ScreenY >= SCREEN_HEIGHT)
  <2>1. Scrolled(w) = w
    BY <1>3 DEF Scrolled
  <2> HIDE DEF w
  <2> QED BY <1>1, <1>3, <2>1 DEF w
<1> QED BY <1>2, <1>3

--------------------------------------------------------------------------------
\* Where the cursor and the view may be while the task is at p, with a key echoed
\* before any of its loads and stores.
Fits(p, x, y, o) ==
    /\ x \in -1 .. SCREEN_WIDTH /\ y \in 0 .. SCREEN_HEIGHT
    /\ x = SCREEN_WIDTH => \/ p \in {"wrapping", "wrapped", "first"}
                           \/ p = "wrap" /\ y < SCREEN_HEIGHT
    /\ y = SCREEN_HEIGHT => p \in {"wrap", "first", "scroll", "rows", "up", "upped"}
    /\ p \in {"rows", "up", "upped"} => y >= SCREEN_HEIGHT - 1
    /\ p \in {"left", "lefted"} => x >= 0
    /\ o \in (IF p = "bottom" THEN -PAGE ELSE 0) .. (IF p = "top" THEN Kept + PAGE ELSE Kept)

Place(p) == {v \in Globals : Fits(p, v.g_ScreenX, v.g_ScreenY, v.g_ViewOffset)}

\* A character or a new line keeps the cursor where it may be, and leaves it
\* neither to the left nor to the right of the screen.
LEMMA CharKeeps ==
    ASSUME NEW p, NEW v \in Place(p), NEW c \in Glyph \cup {NL}
    PROVE  Scrolled(Wrapped(Moved(v, c))) \in Place(p)
<1> DEFINE m == Moved(v, c)
           s == Scrolled(Wrapped(m))
<1>1. v \in Globals /\ Fits(p, v.g_ScreenX, v.g_ScreenY, v.g_ViewOffset)
  BY DEF Place
<1>2. /\ m \in Globals /\ m.g_ViewOffset = v.g_ViewOffset
      /\ \/ m.g_ScreenX = 0 /\ m.g_ScreenY = v.g_ScreenY + 1
         \/ m.g_ScreenX = v.g_ScreenX + 1 /\ m.g_ScreenY = v.g_ScreenY
  BY <1>1, MovedKeeps
<1> HIDE DEF m
<1>3. /\ s \in Globals /\ s.g_ViewOffset = m.g_ViewOffset
      /\ s.g_ScreenX = IF m.g_ScreenX >= SCREEN_WIDTH THEN 0 ELSE m.g_ScreenX
      /\ LET y == IF m.g_ScreenX >= SCREEN_WIDTH THEN m.g_ScreenY + 1 ELSE m.g_ScreenY
         IN  s.g_ScreenY = IF y >= SCREEN_HEIGHT THEN y - 1 ELSE y
  BY <1>2, SettledKeeps
<1> HIDE DEF s
<1>4. SCREEN_WIDTH \in Nat \ {0} /\ SCREEN_HEIGHT \in Nat /\ SCREEN_HEIGHT >= 2
  BY ConsoleAssumption
<1>5. Fits(p, s.g_ScreenX, s.g_ScreenY, s.g_ViewOffset)
  BY <1>1, <1>2, <1>3, <1>4 DEF Fits
<1> QED BY <1>3, <1>5 DEF Place, s, m

\* A whole echo keeps the cursor where it may be at any of the task's steps.
LEMMA EchoKeeps ==
    ASSUME NEW p, NEW v \in Place(p), NEW c \in Char \cup {NL, HT}
    PROVE  VGA_putc(v, c) \in Place(p)
<1>1. ASSUME NEW u \in Place(p) PROVE Snapped(u) \in Place(p)
  <2>1. u \in Globals /\ Fits(p, u.g_ScreenX, u.g_ScreenY, u.g_ViewOffset)
    BY DEF Place
  <2>2. Snapped(u) \in Globals /\ SameCursor(Snapped(u), u) /\ Snapped(u).g_ViewOffset = 0
    BY <2>1, SnappedKeeps
  <2>3. PAGE \in Nat /\ Kept \in Nat
    BY ConsoleAssumption DEF Kept
  <2>4. Fits(p, u.g_ScreenX, u.g_ScreenY, 0)
    BY <2>1, <2>3 DEF Fits
  <2> QED BY <2>2, <2>4 DEF SameCursor, Place
<1>2. ASSUME NEW u \in Place(p) PROVE Space(u) \in Place(p)
  <2>1. Blank \in Glyph \cup {NL}
    BY DEF Glyph
  <2> QED BY <1>1, <2>1, CharKeeps DEF Space
<1>3. CASE c = HT
  <2> DEFINE t == Tabbed(Snapped(v))
             s == Scrolled(Wrapped(t))
  <2>1. t \in Place(p)
    BY <1>1, <1>2, TabKeeps
  <2>2. VGA_putc(v, c) = s
    BY <1>3, Zenon DEF VGA_putc
  <2> HIDE DEF t
  <2>3. t \in Globals /\ Fits(p, t.g_ScreenX, t.g_ScreenY, t.g_ViewOffset)
    BY <2>1 DEF Place
  <2>4. /\ s \in Globals /\ s.g_ViewOffset = t.g_ViewOffset
        /\ s.g_ScreenX = IF t.g_ScreenX >= SCREEN_WIDTH THEN 0 ELSE t.g_ScreenX
        /\ LET y == IF t.g_ScreenX >= SCREEN_WIDTH THEN t.g_ScreenY + 1 ELSE t.g_ScreenY
           IN  s.g_ScreenY = IF y >= SCREEN_HEIGHT THEN y - 1 ELSE y
    BY <2>3, SettledKeeps
  <2> HIDE DEF s
  <2>5. SCREEN_WIDTH \in Nat \ {0} /\ SCREEN_HEIGHT \in Nat /\ SCREEN_HEIGHT >= 2
    BY ConsoleAssumption
  <2>6. Fits(p, s.g_ScreenX, s.g_ScreenY, s.g_ViewOffset)
    BY <2>3, <2>4, <2>5 DEF Fits
  <2> QED BY <2>2, <2>4, <2>6 DEF Place
<1>4. CASE c # HT
  <2>1. c \in Glyph \cup {NL}
    BY <1>4 DEF Glyph
  <2>2. VGA_putc(v, c) = Scrolled(Wrapped(Moved(Snapped(v), c)))
    BY <1>4, Zenon DEF VGA_putc
  <2> QED BY <1>1, <2>1, <2>2, CharKeeps
<1> QED BY <1>3, <1>4

--------------------------------------------------------------------------------
\* The invariant: the cursor where it may be, and in the register what is still
\* good for a store after any echo.
Pcs == {"idle", "putc", "snap", "switch", "right", "righted", "down", "downed", "tab",
        "wrap", "wrapping", "wrapped", "first", "scroll", "rows", "up", "upped", "head",
        "done", "clear_x", "clear_y", "clear_view", "clear_head", "pageup", "paged_up",
        "top", "render", "paged_down", "bottom", "show", "left", "lefted", "erase"}

Register ==
    /\ pc = "righted" => tmp \in -1 .. SCREEN_WIDTH - 1
    /\ pc \in {"downed", "wrapped"} => tmp \in 0 .. SCREEN_HEIGHT - 1
    /\ pc = "upped" => tmp \in SCREEN_HEIGHT - 1 .. SCREEN_HEIGHT
    /\ pc = "lefted" => tmp \in 0 .. SCREEN_WIDTH - 1
    /\ pc \in {"paged_up", "paged_down"} => tmp \in 0 .. Kept

Locals ==
    /\ pc \in Pcs
    /\ ch \in Char \cup {NL, CR, HT}
    /\ tab \in -1 .. (IF pc = "tab" THEN TAB + 1 ELSE TAB)
    /\ maxOffset \in 0 .. Kept
    /\ torn \in BOOLEAN

CInv == vga \in Place(pc) /\ Register /\ Locals

\* It holds at first, after an echo, and (below) after each step of the task.
LEMMA InitCInv == Init => CInv
<1> SUFFICES ASSUME Init PROVE CInv
  OBVIOUS
<1>1. /\ SCREEN_WIDTH \in Nat \ {0} /\ SCREEN_HEIGHT \in Nat /\ SCREEN_HEIGHT >= 2
      /\ Kept \in Nat /\ TAB \in Nat
  BY ConsoleAssumption DEF Kept
<1>2. <<>> \in Seq(Line)
  OBVIOUS
<1>3. vga \in Globals
  BY <1>1, <1>2 DEF Init, Globals, Glyph
<1>4. vga.g_ScreenX = 0 /\ vga.g_ScreenY = 0 /\ vga.g_ViewOffset = 0
  BY DEF Init
<1>5. Fits("idle", 0, 0, 0)
  BY <1>1 DEF Fits
<1>6. pc = "idle" /\ ch = NL /\ tab = -1 /\ maxOffset = 0 /\ torn = FALSE
  BY DEF Init
<1>7. vga \in Place(pc)
  BY <1>3, <1>4, <1>5, <1>6 DEF Place
<1>8. Register
  BY <1>6 DEF Register
<1>9. Locals
  <2>1. pc \in Pcs
    BY <1>6 DEF Pcs
  <2>2. tab \in -1 .. (IF pc = "tab" THEN TAB + 1 ELSE TAB)
    BY <1>1, <1>6
  <2>3. maxOffset \in 0 .. Kept
    BY <1>1, <1>6
  <2> QED BY <1>6, <2>1, <2>2, <2>3 DEF Locals
<1> QED BY <1>7, <1>8, <1>9 DEF CInv

LEMMA StepEcho == CInv /\ Echo => CInv'
<1> SUFFICES ASSUME CInv, Echo PROVE CInv'
  OBVIOUS
<1>1. PICK c \in Char \cup {NL, HT} : vga' = VGA_putc(vga, c)
  BY DEF Echo
<1>2. pc' = pc /\ ch' = ch /\ tab' = tab /\ tmp' = tmp /\ maxOffset' = maxOffset
  BY DEF Echo
<1>3. torn' \in BOOLEAN
  BY DEF Echo
<1>4. vga' \in Place(pc)
  BY <1>1, EchoKeeps DEF CInv
<1> QED BY <1>2, <1>3, <1>4 DEF CInv, Register, Locals

\* The facts that every step of the task starts from.
LEMMA AtPlace ==
    ASSUME CInv
    PROVE  /\ vga \in Globals /\ Fits(pc, vga.g_ScreenX, vga.g_ScreenY, vga.g_ViewOffset)
           /\ SCREEN_WIDTH \in Nat \ {0} /\ SCREEN_HEIGHT \in Nat /\ SCREEN_HEIGHT >= 2
           /\ Kept \in Nat /\ PAGE \in Nat /\ TAB \in Nat
           /\ vga.g_ScreenX \in Int /\ vga.g_ScreenY \in Int /\ vga.g_ViewOffset \in Int
BY ConsoleAssumption DEF CInv, Place, Kept, Globals

\* A store into the cursor.
LEMMA MovesPlace ==
    ASSUME NEW v \in Globals, NEW u, NEW x \in Int, NEW y \in Int, NEW p,
           Moves(u, v, x, y), Fits(p, x, y, v.g_ViewOffset)
    PROVE  u \in Place(p)
BY DEF Moves, Place

\* The column is set to 0.
LEMMA ReturnPlace ==
    ASSUME NEW v \in Globals, NEW p, Fits(p, 0, v.g_ScreenY, v.g_ViewOffset)
    PROVE  [v EXCEPT !.g_ScreenX = 0] \in Place(p)
<1>1. 0 \in Int /\ v.g_ScreenY \in Int
  BY DEF Globals
<1>2. Moves([v EXCEPT !.g_ScreenX = 0], v, 0, v.g_ScreenY)
  BY <1>1, SetCursor, Zenon
<1> QED BY <1>1, <1>2, MovesPlace, Zenon

\* So is the row.
LEMMA TopPlace ==
    ASSUME NEW v \in Globals, NEW p, Fits(p, v.g_ScreenX, 0, v.g_ViewOffset)
    PROVE  [v EXCEPT !.g_ScreenY = 0] \in Place(p)
<1>1. 0 \in Int /\ v.g_ScreenX \in Int
  BY DEF Globals
<1>2. Moves([v EXCEPT !.g_ScreenY = 0], v, v.g_ScreenX, 0)
  BY <1>1, SetCursor, Zenon
<1> QED BY <1>1, <1>2, MovesPlace, Zenon

LEMMA StepPut ==
    ASSUME CInv, NEW c \in Char \cup {NL, CR, HT}, Put(c)
    PROVE  CInv'
<1>1. /\ pc = "idle" /\ pc' = "putc" /\ ch' = c
      /\ vga' = vga /\ tab' = tab /\ tmp' = tmp /\ maxOffset' = maxOffset /\ torn' = torn
  BY DEF Put
<1>2. Fits("putc", vga.g_ScreenX, vga.g_ScreenY, vga.g_ViewOffset)
  BY <1>1, AtPlace DEF Fits
<1>3. vga' \in Place(pc')
  BY <1>1, <1>2, AtPlace DEF Place
<1>4. Register'
  BY <1>1 DEF Register
<1>5. Locals'
  BY <1>1 DEF Locals, Pcs, CInv
<1> QED BY <1>3, <1>4, <1>5 DEF CInv

LEMMA StepSnap == ASSUME CInv, Snap PROVE CInv'
<1>1. CASE vga.g_ViewOffset = 0 /\ Stores("putc", "switch", vga)
  <2>1. /\ pc = "putc" /\ pc' = "switch" /\ vga' = vga /\ UNCHANGED <<ch, tab, maxOffset, tmp, torn>>
    BY <1>1 DEF Stores, Goes
  <2>2. Fits("switch", vga.g_ScreenX, vga.g_ScreenY, vga.g_ViewOffset)
    BY <2>1, AtPlace DEF Fits
  <2>3. vga' \in Place(pc')
    BY <2>1, <2>2, AtPlace DEF Place
  <2>4. Register' /\ Locals'
    BY <2>1 DEF Register, Locals, Pcs, CInv
  <2> QED BY <2>3, <2>4 DEF CInv
<1>2. CASE Stores("putc", "snap", [vga EXCEPT !.g_ViewOffset = 0])
  <2>1. /\ pc = "putc" /\ pc' = "snap" /\ vga' = [vga EXCEPT !.g_ViewOffset = 0]
        /\ UNCHANGED <<ch, tab, maxOffset, tmp, torn>>
    BY <1>2 DEF Stores, Goes
  <2>2. /\ vga' \in Globals /\ vga'.g_ScreenX = vga.g_ScreenX
        /\ vga'.g_ScreenY = vga.g_ScreenY /\ vga'.g_ViewOffset = 0
    <3>1. vga \in Globals /\ 0 \in Int
      BY AtPlace
    <3> QED BY <2>1, <3>1, SetView
  <2>3. Fits("snap", vga.g_ScreenX, vga.g_ScreenY, 0)
    BY <2>1, AtPlace DEF Fits
  <2>4. vga' \in Place(pc')
    BY <2>1, <2>2, <2>3 DEF Place
  <2>5. Register' /\ Locals'
    BY <2>1 DEF Register, Locals, Pcs, CInv
  <2> QED BY <2>4, <2>5 DEF CInv
<1>3. CASE /\ Goes("snap", "switch", sb_render(vga))
           /\ torn' = (torn \/ Blanks(vga))
           /\ UNCHANGED tmp
  <2>1. /\ pc = "snap" /\ pc' = "switch" /\ vga' = sb_render(vga)
        /\ UNCHANGED <<ch, tab, maxOffset, tmp>>
    BY <1>3 DEF Goes
  <2>2. torn' \in BOOLEAN
    BY <1>3, Zenon
  <2>3. Fits("switch", vga.g_ScreenX, vga.g_ScreenY, vga.g_ViewOffset)
    BY <2>1, AtPlace DEF Fits
  <2>4. vga' \in Place(pc')
    BY <2>1, <2>3, AtPlace, RenderKeeps DEF Place, SameCursor
  <2>5. Register' /\ Locals'
    BY <2>1, <2>2 DEF Register, Locals, Pcs, CInv
  <2> QED BY <2>4, <2>5 DEF CInv
<1> QED BY <1>1, <1>2, <1>3 DEF Snap

LEMMA StepPutChar == ASSUME CInv, PutChar PROVE CInv'
<1> DEFINE u == VGA_putchr(vga, vga.g_ScreenX, vga.g_ScreenY, Now)
<1>1. /\ Now \in Glyph /\ pc = "switch" /\ pc' = "right" /\ vga' = u
      /\ UNCHANGED <<ch, tab, maxOffset, tmp, torn>>
  BY DEF PutChar, Stores, Goes, Glyph
<1>2. u \in Globals /\ SameCursor(u, vga) /\ u.g_ViewOffset = vga.g_ViewOffset
  BY <1>1, AtPlace, PutchrKeeps
<1> HIDE DEF u
<1>3. Fits("right", vga.g_ScreenX, vga.g_ScreenY, vga.g_ViewOffset)
  BY <1>1, AtPlace DEF Fits
<1>4. vga' \in Place(pc')
  BY <1>1, <1>2, <1>3 DEF Place, SameCursor
<1>5. Register' /\ Locals'
  BY <1>1 DEF Register, Locals, Pcs, CInv
<1> QED BY <1>4, <1>5 DEF CInv

LEMMA StepRight == ASSUME CInv, Right PROVE CInv'
<1>1. CASE Loads("right", "righted", vga.g_ScreenX)
  <2>1. /\ pc = "right" /\ pc' = "righted" /\ vga' = vga /\ tmp' = vga.g_ScreenX
        /\ UNCHANGED <<ch, tab, maxOffset, torn>>
    BY <1>1 DEF Loads, Goes
  <2>2. Fits("righted", vga.g_ScreenX, vga.g_ScreenY, vga.g_ViewOffset)
        /\ vga.g_ScreenX \in -1 .. SCREEN_WIDTH - 1
    BY <2>1, AtPlace DEF Fits
  <2>3. vga' \in Place(pc')
    BY <2>1, <2>2, AtPlace DEF Place
  <2>4. Register' /\ Locals'
    BY <2>1, <2>2 DEF Register, Locals, Pcs, CInv
  <2> QED BY <2>3, <2>4 DEF CInv
<1>2. CASE Stores("righted", "wrap", [vga EXCEPT !.g_ScreenX = tmp + 1])
  <2>1. /\ pc = "righted" /\ pc' = "wrap" /\ vga' = [vga EXCEPT !.g_ScreenX = tmp + 1]
        /\ UNCHANGED <<ch, tab, maxOffset, tmp, torn>>
    BY <1>2 DEF Stores, Goes
  <2>2. tmp \in -1 .. SCREEN_WIDTH - 1 /\ tmp + 1 \in Int
    BY <2>1, AtPlace DEF CInv, Register
  <2>3. Fits("wrap", tmp + 1, vga.g_ScreenY, vga.g_ViewOffset)
    BY <2>1, <2>2, AtPlace DEF Fits
  <2>4. vga' \in Place(pc')
    BY <2>1, <2>2, <2>3, AtPlace, SetCursor, MovesPlace
  <2>5. Register' /\ Locals'
    BY <2>1 DEF Register, Locals, Pcs, CInv
  <2> QED BY <2>4, <2>5 DEF CInv
<1> QED BY <1>1, <1>2 DEF Right

LEMMA StepReturn == ASSUME CInv, Return PROVE CInv'
<1>1. /\ pc = "switch" /\ pc' = "wrap" /\ vga' = [vga EXCEPT !.g_ScreenX = 0]
      /\ UNCHANGED <<ch, tab, maxOffset, tmp, torn>>
  BY DEF Return, Stores, Goes
<1>2. Fits("wrap", 0, vga.g_ScreenY, vga.g_ViewOffset)
  BY <1>1, AtPlace DEF Fits
<1>3. vga' \in Place(pc')
  BY <1>1, <1>2, AtPlace, ReturnPlace
<1>4. Register' /\ Locals'
  BY <1>1 DEF Register, Locals, Pcs, CInv
<1> QED BY <1>3, <1>4 DEF CInv

LEMMA StepNewLine == ASSUME CInv, NewLine PROVE CInv'
<1>1. CASE Stores("switch", "down", [vga EXCEPT !.g_ScreenX = 0])
  <2>1. /\ pc = "switch" /\ pc' = "down" /\ vga' = [vga EXCEPT !.g_ScreenX = 0]
        /\ UNCHANGED <<ch, tab, maxOffset, tmp, torn>>
    BY <1>1 DEF Stores, Goes
  <2>2. Fits("down", 0, vga.g_ScreenY, vga.g_ViewOffset)
    BY <2>1, AtPlace DEF Fits
  <2>3. vga' \in Place(pc')
    BY <2>1, <2>2, AtPlace, ReturnPlace
  <2>4. Register' /\ Locals'
    BY <2>1 DEF Register, Locals, Pcs, CInv
  <2> QED BY <2>3, <2>4 DEF CInv
<1>2. CASE Loads("down", "downed", vga.g_ScreenY)
  <2>1. /\ pc = "down" /\ pc' = "downed" /\ vga' = vga /\ tmp' = vga.g_ScreenY
        /\ UNCHANGED <<ch, tab, maxOffset, torn>>
    BY <1>2 DEF Loads, Goes
  <2>2. Fits("downed", vga.g_ScreenX, vga.g_ScreenY, vga.g_ViewOffset)
        /\ vga.g_ScreenY \in 0 .. SCREEN_HEIGHT - 1
    BY <2>1, AtPlace DEF Fits
  <2>3. vga' \in Place(pc')
    BY <2>1, <2>2, AtPlace DEF Place
  <2>4. Register' /\ Locals'
    BY <2>1, <2>2 DEF Register, Locals, Pcs, CInv
  <2> QED BY <2>3, <2>4 DEF CInv
<1>3. CASE Stores("downed", "wrap", [vga EXCEPT !.g_ScreenY = tmp + 1])
  <2>1. /\ pc = "downed" /\ pc' = "wrap" /\ vga' = [vga EXCEPT !.g_ScreenY = tmp + 1]
        /\ UNCHANGED <<ch, tab, maxOffset, tmp, torn>>
    BY <1>3 DEF Stores, Goes
  <2>2. tmp \in 0 .. SCREEN_HEIGHT - 1 /\ tmp + 1 \in Int
    BY <2>1, AtPlace DEF CInv, Register
  <2>3. Fits("wrap", vga.g_ScreenX, tmp + 1, vga.g_ViewOffset)
    BY <2>1, <2>2, AtPlace DEF Fits
  <2>4. vga' \in Place(pc')
    BY <2>1, <2>2, <2>3, AtPlace, SetCursor, MovesPlace
  <2>5. Register' /\ Locals'
    BY <2>1 DEF Register, Locals, Pcs, CInv
  <2> QED BY <2>4, <2>5 DEF CInv
<1> QED BY <1>1, <1>2, <1>3 DEF NewLine

LEMMA StepTabTurn == ASSUME CInv, TabTurn PROVE CInv'
<1>1. UNCHANGED <<vga, ch, tmp, maxOffset, torn>>
  BY DEF TabTurn
<1>2. \/ pc = "switch" /\ pc' = "tab" /\ tab' = 0
      \/ pc = "tab" /\ TabTurns(vga, tab) > 0 /\ pc' = "putc" /\ tab' = tab
      \/ pc = "tab" /\ pc' = "wrap" /\ tab' = -1
  BY DEF TabTurn
<1>3. Fits(pc', vga.g_ScreenX, vga.g_ScreenY, vga.g_ViewOffset)
  BY <1>2, AtPlace DEF Fits
<1>4. vga' \in Place(pc')
  BY <1>1, <1>3, AtPlace DEF Place
<1>5. Register'
  BY <1>1, <1>2 DEF Register
<1>6. ASSUME pc = "tab", TabTurns(vga, tab) > 0 PROVE tab \in -1 .. TAB
  <2>1. tab \in -1 .. TAB + 1 /\ vga.g_ScreenX \in Int /\ vga.g_ScreenX >= -1 /\ TAB \in Nat \ {0}
    BY <1>6, AtPlace, ConsoleAssumption DEF CInv, Locals, Fits
  <2>2. vga.g_ScreenX % TAB >= 0 /\ vga.g_ScreenX % TAB \in Int
    BY <2>1
  <2> QED BY <1>6, <2>1, <2>2 DEF TabTurns
<1>7. tab' \in -1 .. (IF pc' = "tab" THEN TAB + 1 ELSE TAB)
  BY <1>2, <1>6, AtPlace
<1>8. pc' \in Pcs
  BY <1>2 DEF Pcs
<1> QED BY <1>1, <1>4, <1>5, <1>7, <1>8 DEF CInv, Locals

LEMMA StepWrap == ASSUME CInv, Wrap PROVE CInv'
<1>1. CASE /\ vga.g_ScreenX < SCREEN_WIDTH
           /\ Stores("wrap", "scroll", vga)
  <2>1. /\ pc = "wrap" /\ pc' = "scroll" /\ vga' = vga
        /\ UNCHANGED <<ch, tab, maxOffset, tmp, torn>>
    BY <1>1 DEF Stores, Goes
  <2>2. Fits("scroll", vga.g_ScreenX, vga.g_ScreenY, vga.g_ViewOffset)
    BY <1>1, <2>1, AtPlace DEF Fits
  <2>3. vga' \in Place(pc')
    BY <2>1, <2>2, AtPlace DEF Place
  <2>4. Register' /\ Locals'
    BY <2>1 DEF Register, Locals, Pcs, CInv
  <2> QED BY <2>3, <2>4 DEF CInv
<1>2. CASE /\ vga.g_ScreenX >= SCREEN_WIDTH
           /\ Stores("wrap", "wrapping", vga)
  <2>1. /\ pc = "wrap" /\ pc' = "wrapping" /\ vga' = vga
        /\ UNCHANGED <<ch, tab, maxOffset, tmp, torn>>
    BY <1>2 DEF Stores, Goes
  <2>2. Fits("wrapping", vga.g_ScreenX, vga.g_ScreenY, vga.g_ViewOffset)
    BY <1>2, <2>1, AtPlace DEF Fits
  <2>3. vga' \in Place(pc')
    BY <2>1, <2>2, AtPlace DEF Place
  <2>4. Register' /\ Locals'
    BY <2>1 DEF Register, Locals, Pcs, CInv
  <2> QED BY <2>3, <2>4 DEF CInv
<1>3. CASE Loads("wrapping", "wrapped", vga.g_ScreenY)
  <2>1. /\ pc = "wrapping" /\ pc' = "wrapped" /\ vga' = vga /\ tmp' = vga.g_ScreenY
        /\ UNCHANGED <<ch, tab, maxOffset, torn>>
    BY <1>3 DEF Loads, Goes
  <2>2. /\ Fits("wrapped", vga.g_ScreenX, vga.g_ScreenY, vga.g_ViewOffset)
        /\ vga.g_ScreenY \in 0 .. SCREEN_HEIGHT - 1
    BY <2>1, AtPlace DEF Fits
  <2>3. vga' \in Place(pc')
    BY <2>1, <2>2, AtPlace DEF Place
  <2>4. Register' /\ Locals'
    BY <2>1, <2>2 DEF Register, Locals, Pcs, CInv
  <2> QED BY <2>3, <2>4 DEF CInv
<1>4. CASE Stores("wrapped", "first", [vga EXCEPT !.g_ScreenY = tmp + 1])
  <2>1. /\ pc = "wrapped" /\ pc' = "first" /\ vga' = [vga EXCEPT !.g_ScreenY = tmp + 1]
        /\ UNCHANGED <<ch, tab, maxOffset, tmp, torn>>
    BY <1>4 DEF Stores, Goes
  <2>2. tmp \in 0 .. SCREEN_HEIGHT - 1 /\ tmp + 1 \in Int
    BY <2>1, AtPlace DEF CInv, Register
  <2>3. Fits("first", vga.g_ScreenX, tmp + 1, vga.g_ViewOffset)
    BY <2>1, <2>2, AtPlace DEF Fits
  <2>4. vga' \in Place(pc')
    BY <2>1, <2>2, <2>3, AtPlace, SetCursor, MovesPlace
  <2>5. Register' /\ Locals'
    BY <2>1 DEF Register, Locals, Pcs, CInv
  <2> QED BY <2>4, <2>5 DEF CInv
<1>5. CASE Stores("first", "scroll", [vga EXCEPT !.g_ScreenX = 0])
  <2>1. /\ pc = "first" /\ pc' = "scroll" /\ vga' = [vga EXCEPT !.g_ScreenX = 0]
        /\ UNCHANGED <<ch, tab, maxOffset, tmp, torn>>
    BY <1>5 DEF Stores, Goes
  <2>2. 0 \in Int
    BY AtPlace
  <2>3. Fits("scroll", 0, vga.g_ScreenY, vga.g_ViewOffset)
    BY <2>1, <2>2, AtPlace DEF Fits
  <2>4. vga' \in Place(pc')
    BY <2>1, <2>3, AtPlace, ReturnPlace
  <2>5. Register' /\ Locals'
    BY <2>1 DEF Register, Locals, Pcs, CInv
  <2> QED BY <2>4, <2>5 DEF CInv
<1> QED BY <1>1, <1>2, <1>3, <1>4, <1>5 DEF Wrap

LEMMA StepScroll == ASSUME CInv, Scroll PROVE CInv'
<1>1. CASE /\ vga.g_ScreenY < SCREEN_HEIGHT
           /\ Stores("scroll", "done", vga)
  <2>1. /\ pc = "scroll" /\ pc' = "done" /\ vga' = vga
        /\ UNCHANGED <<ch, tab, maxOffset, tmp, torn>>
    BY <1>1 DEF Stores, Goes
  <2>2. Fits("done", vga.g_ScreenX, vga.g_ScreenY, vga.g_ViewOffset)
    BY <1>1, <2>1, AtPlace DEF Fits
  <2>3. vga' \in Place(pc')
    BY <2>1, <2>2, AtPlace DEF Place
  <2>4. Register' /\ Locals'
    BY <2>1 DEF Register, Locals, Pcs, CInv
  <2> QED BY <2>3, <2>4 DEF CInv
<1>2. CASE /\ vga.g_ScreenY >= SCREEN_HEIGHT
           /\ Stores("scroll", "rows", vga)
  <2>1. /\ pc = "scroll" /\ pc' = "rows" /\ vga' = vga
        /\ UNCHANGED <<ch, tab, maxOffset, tmp, torn>>
    BY <1>2 DEF Stores, Goes
  <2>2. Fits("rows", vga.g_ScreenX, vga.g_ScreenY, vga.g_ViewOffset)
    BY <1>2, <2>1, AtPlace DEF Fits
  <2>3. vga' \in Place(pc')
    BY <2>1, <2>2, AtPlace DEF Place
  <2>4. Register' /\ Locals'
    BY <2>1 DEF Register, Locals, Pcs, CInv
  <2> QED BY <2>3, <2>4 DEF CInv
<1>3. CASE Stores("rows", "up", RowsUp(vga))
  <2>1. /\ pc = "rows" /\ pc' = "up" /\ vga' = RowsUp(vga)
        /\ UNCHANGED <<ch, tab, maxOffset, tmp, torn>>
    BY <1>3 DEF Stores, Goes
  <2>2. Fits("up", vga.g_ScreenX, vga.g_ScreenY, vga.g_ViewOffset)
    BY <2>1, AtPlace DEF Fits
  <2>3. vga' \in Place(pc')
    BY <2>1, <2>2, AtPlace, RowsUpKeeps DEF Place, SameCursor
  <2>4. Register' /\ Locals'
    BY <2>1 DEF Register, Locals, Pcs, CInv
  <2> QED BY <2>3, <2>4 DEF CInv
<1>4. CASE Loads("up", "upped", vga.g_ScreenY)
  <2>1. /\ pc = "up" /\ pc' = "upped" /\ vga' = vga /\ tmp' = vga.g_ScreenY
        /\ UNCHANGED <<ch, tab, maxOffset, torn>>
    BY <1>4 DEF Loads, Goes
  <2>2. /\ Fits("upped", vga.g_ScreenX, vga.g_ScreenY, vga.g_ViewOffset)
        /\ vga.g_ScreenY \in SCREEN_HEIGHT - 1 .. SCREEN_HEIGHT
    BY <2>1, AtPlace DEF Fits
  <2>3. vga' \in Place(pc')
    BY <2>1, <2>2, AtPlace DEF Place
  <2>4. Register' /\ Locals'
    BY <2>1, <2>2 DEF Register, Locals, Pcs, CInv
  <2> QED BY <2>3, <2>4 DEF CInv
<1>5. CASE Stores("upped", "head", [vga EXCEPT !.g_ScreenY = tmp - 1])
  <2>1. /\ pc = "upped" /\ pc' = "head" /\ vga' = [vga EXCEPT !.g_ScreenY = tmp - 1]
        /\ UNCHANGED <<ch, tab, maxOffset, tmp, torn>>
    BY <1>5 DEF Stores, Goes
  <2>2. tmp \in SCREEN_HEIGHT - 1 .. SCREEN_HEIGHT /\ tmp - 1 \in Int
    BY <2>1, AtPlace DEF CInv, Register
  <2>3. Fits("head", vga.g_ScreenX, tmp - 1, vga.g_ViewOffset)
    BY <2>1, <2>2, AtPlace DEF Fits
  <2>4. vga' \in Place(pc')
    BY <2>1, <2>2, <2>3, AtPlace, SetCursor, MovesPlace
  <2>5. Register' /\ Locals'
    BY <2>1 DEF Register, Locals, Pcs, CInv
  <2> QED BY <2>4, <2>5 DEF CInv
<1>6. CASE Stores("head", "done", HeadOn(vga))
  <2>1. /\ pc = "head" /\ pc' = "done" /\ vga' = HeadOn(vga)
        /\ UNCHANGED <<ch, tab, maxOffset, tmp, torn>>
    BY <1>6 DEF Stores, Goes
  <2>2. Fits("done", vga.g_ScreenX, vga.g_ScreenY, vga.g_ViewOffset)
    BY <2>1, AtPlace DEF Fits
  <2>3. vga' \in Place(pc')
    BY <2>1, <2>2, AtPlace, HeadOnKeeps DEF Place, SameCursor
  <2>4. Register' /\ Locals'
    BY <2>1 DEF Register, Locals, Pcs, CInv
  <2> QED BY <2>3, <2>4 DEF CInv
<1> QED BY <1>1, <1>2, <1>3, <1>4, <1>5, <1>6 DEF Scroll

LEMMA StepDone == ASSUME CInv, Done PROVE CInv'
<1>1. /\ pc = "done" /\ UNCHANGED <<vga, ch, tmp, maxOffset, torn>>
      /\ \/ pc' = "tab" /\ tab >= 0 /\ tab' = tab + 1
         \/ pc' = "idle" /\ tab' = -1
  BY DEF Done
<1>2. Fits(pc', vga.g_ScreenX, vga.g_ScreenY, vga.g_ViewOffset)
  BY <1>1, AtPlace DEF Fits
<1>3. vga' \in Place(pc')
  BY <1>1, <1>2, AtPlace DEF Place
<1>4. tab \in -1 .. TAB /\ TAB \in Nat
  BY <1>1, AtPlace DEF CInv, Locals
<1>5. tab' \in -1 .. (IF pc' = "tab" THEN TAB + 1 ELSE TAB)
  BY <1>1, <1>4
<1>6. Register' /\ pc' \in Pcs
  BY <1>1 DEF Register, Pcs
<1> QED BY <1>1, <1>3, <1>5, <1>6 DEF CInv, Locals

LEMMA StepVGA_ScrollDown == ASSUME CInv, VGA_ScrollDown PROVE CInv'
<1>1. CASE Loads("idle", "paged_down", vga.g_ViewOffset)
  <2>1. /\ pc = "idle" /\ pc' = "paged_down" /\ vga' = vga /\ tmp' = vga.g_ViewOffset
        /\ UNCHANGED <<ch, tab, maxOffset, torn>>
    BY <1>1 DEF Loads, Goes
  <2>2. /\ Fits("paged_down", vga.g_ScreenX, vga.g_ScreenY, vga.g_ViewOffset)
        /\ vga.g_ViewOffset \in 0 .. Kept
    BY <2>1, AtPlace DEF Fits
  <2>3. vga' \in Place(pc')
    BY <2>1, <2>2, AtPlace DEF Place
  <2>4. Register' /\ Locals'
    BY <2>1, <2>2 DEF Register, Locals, Pcs, CInv
  <2> QED BY <2>3, <2>4 DEF CInv
<1>2. CASE Stores("paged_down", "bottom", [vga EXCEPT !.g_ViewOffset = tmp - PAGE])
  <2>1. /\ pc = "paged_down" /\ pc' = "bottom" /\ vga' = [vga EXCEPT !.g_ViewOffset = tmp - PAGE]
        /\ UNCHANGED <<ch, tab, maxOffset, tmp, torn>>
    BY <1>2 DEF Stores, Goes
  <2>2. tmp \in 0 .. Kept /\ tmp - PAGE \in Int
    BY <2>1, AtPlace DEF CInv, Register
  <2>3. Fits("bottom", vga.g_ScreenX, vga.g_ScreenY, tmp - PAGE)
    BY <2>1, <2>2, AtPlace DEF Fits
  <2>4. vga' \in Place(pc')
    BY <2>1, <2>2, <2>3, AtPlace, SetView DEF Place
  <2>5. Register' /\ Locals'
    BY <2>1 DEF Register, Locals, Pcs, CInv
  <2> QED BY <2>4, <2>5 DEF CInv
<1>3. CASE Stores("bottom", "show", [vga EXCEPT !.g_ViewOffset = IF @ < 0 THEN 0 ELSE @])
  <2> DEFINE o == IF vga.g_ViewOffset < 0 THEN 0 ELSE vga.g_ViewOffset
  <2>1. /\ pc = "bottom" /\ pc' = "show" /\ vga' = [vga EXCEPT !.g_ViewOffset = o]
        /\ UNCHANGED <<ch, tab, maxOffset, tmp, torn>>
    BY <1>3, Zenon DEF Stores, Goes
  <2>2. o \in Int
    BY AtPlace
  <2>3. Fits("show", vga.g_ScreenX, vga.g_ScreenY, o)
    BY <2>1, AtPlace DEF Fits
  <2> HIDE DEF o
  <2>4. vga' \in Place(pc')
    BY <2>1, <2>2, <2>3, AtPlace, SetView DEF Place
  <2>5. Register' /\ Locals'
    BY <2>1 DEF Register, Locals, Pcs, CInv
  <2> QED BY <2>4, <2>5 DEF CInv
<1>4. CASE Render("show")
  <2>1. /\ pc = "show" /\ pc' = "idle" /\ vga' = sb_render(vga)
        /\ UNCHANGED <<ch, tab, maxOffset, tmp, torn>>
    BY <1>4 DEF Render, Stores, Goes
  <2>2. Fits("idle", vga.g_ScreenX, vga.g_ScreenY, vga.g_ViewOffset)
    BY <2>1, AtPlace DEF Fits
  <2>3. vga' \in Place(pc')
    BY <2>1, <2>2, AtPlace, RenderKeeps DEF Place, SameCursor
  <2>4. Register' /\ Locals'
    BY <2>1 DEF Register, Locals, Pcs, CInv
  <2> QED BY <2>3, <2>4 DEF CInv
<1>5. CASE Stores("show", "idle", [vga EXCEPT !.g_ScreenBuffer = Live(vga)])
  <2>1. /\ pc = "show" /\ pc' = "idle" /\ vga' = [vga EXCEPT !.g_ScreenBuffer = Live(vga)]
        /\ UNCHANGED <<ch, tab, maxOffset, tmp, torn>>
    BY <1>5 DEF Stores, Goes
  <2>2. Fits("idle", vga.g_ScreenX, vga.g_ScreenY, vga.g_ViewOffset)
    BY <2>1, AtPlace DEF Fits
  <2>3. vga' \in Place(pc')
    BY <2>1, <2>2, AtPlace, ScreenSet, LiveTyped DEF Place, SameCursor
  <2>4. Register' /\ Locals'
    BY <2>1 DEF Register, Locals, Pcs, CInv
  <2> QED BY <2>3, <2>4 DEF CInv
<1> QED BY <1>1, <1>2, <1>3, <1>4, <1>5 DEF VGA_ScrollDown

LEMMA StepVGA_ScrollUp == ASSUME CInv, VGA_ScrollUp PROVE CInv'
<1>1. CASE /\ pc = "idle"
           /\ pc' = "pageup"
           /\ maxOffset' = vga.g_SBCount
           /\ UNCHANGED <<vga, ch, tab, tmp, torn>>
  <2>1. Fits("pageup", vga.g_ScreenX, vga.g_ScreenY, vga.g_ViewOffset)
    BY <1>1, AtPlace DEF Fits
  <2>2. vga' \in Place(pc')
    BY <1>1, <2>1, AtPlace DEF Place
  <2>3. maxOffset' \in 0 .. Kept
    BY <1>1, AtPlace DEF Globals
  <2>4. Register' /\ Locals'
    BY <1>1, <2>3 DEF Register, Locals, Pcs, CInv
  <2> QED BY <2>2, <2>4 DEF CInv
<1>2. CASE Loads("pageup", "paged_up", vga.g_ViewOffset)
  <2>1. /\ pc = "pageup" /\ pc' = "paged_up" /\ vga' = vga /\ tmp' = vga.g_ViewOffset
        /\ UNCHANGED <<ch, tab, maxOffset, torn>>
    BY <1>2 DEF Loads, Goes
  <2>2. /\ Fits("paged_up", vga.g_ScreenX, vga.g_ScreenY, vga.g_ViewOffset)
        /\ vga.g_ViewOffset \in 0 .. Kept
    BY <2>1, AtPlace DEF Fits
  <2>3. vga' \in Place(pc')
    BY <2>1, <2>2, AtPlace DEF Place
  <2>4. Register' /\ Locals'
    BY <2>1, <2>2 DEF Register, Locals, Pcs, CInv
  <2> QED BY <2>3, <2>4 DEF CInv
<1>3. CASE Stores("paged_up", "top", [vga EXCEPT !.g_ViewOffset = tmp + PAGE])
  <2>1. /\ pc = "paged_up" /\ pc' = "top" /\ vga' = [vga EXCEPT !.g_ViewOffset = tmp + PAGE]
        /\ UNCHANGED <<ch, tab, maxOffset, tmp, torn>>
    BY <1>3 DEF Stores, Goes
  <2>2. tmp \in 0 .. Kept /\ tmp + PAGE \in Int
    BY <2>1, AtPlace DEF CInv, Register
  <2>3. Fits("top", vga.g_ScreenX, vga.g_ScreenY, tmp + PAGE)
    BY <2>1, <2>2, AtPlace DEF Fits
  <2>4. vga' \in Place(pc')
    BY <2>1, <2>2, <2>3, AtPlace, SetView DEF Place
  <2>5. Register' /\ Locals'
    BY <2>1 DEF Register, Locals, Pcs, CInv
  <2> QED BY <2>4, <2>5 DEF CInv
<1>4. CASE Stores("top", "render", [vga EXCEPT !.g_ViewOffset =
                                   IF @ > maxOffset THEN maxOffset ELSE @])
  <2> DEFINE o == IF vga.g_ViewOffset > maxOffset THEN maxOffset ELSE vga.g_ViewOffset
  <2>1. /\ pc = "top" /\ pc' = "render" /\ vga' = [vga EXCEPT !.g_ViewOffset = o]
        /\ UNCHANGED <<ch, tab, maxOffset, tmp, torn>>
    BY <1>4, Zenon DEF Stores, Goes
  <2>2. maxOffset \in 0 .. Kept
    BY DEF CInv, Locals
  <2>3. o \in Int
    BY <2>2, AtPlace
  <2>4. Fits("render", vga.g_ScreenX, vga.g_ScreenY, o)
    BY <2>1, <2>2, AtPlace DEF Fits
  <2> HIDE DEF o
  <2>5. vga' \in Place(pc')
    BY <2>1, <2>3, <2>4, AtPlace, SetView DEF Place
  <2>6. Register' /\ Locals'
    BY <2>1 DEF Register, Locals, Pcs, CInv
  <2> QED BY <2>5, <2>6 DEF CInv
<1>5. CASE Render("render")
  <2>1. /\ pc = "render" /\ pc' = "idle" /\ vga' = sb_render(vga)
        /\ UNCHANGED <<ch, tab, maxOffset, tmp, torn>>
    BY <1>5 DEF Render, Stores, Goes
  <2>2. Fits("idle", vga.g_ScreenX, vga.g_ScreenY, vga.g_ViewOffset)
    BY <2>1, AtPlace DEF Fits
  <2>3. vga' \in Place(pc')
    BY <2>1, <2>2, AtPlace, RenderKeeps DEF Place, SameCursor
  <2>4. Register' /\ Locals'
    BY <2>1 DEF Register, Locals, Pcs, CInv
  <2> QED BY <2>3, <2>4 DEF CInv
<1> QED BY <1>1, <1>2, <1>3, <1>4, <1>5 DEF VGA_ScrollUp

LEMMA StepBackspace == ASSUME CInv, Backspace PROVE CInv'
<1>1. CASE Stores("idle", IF vga.g_ScreenX > 0 THEN "left" ELSE "erase", vga)
  <2>1. /\ pc = "idle" /\ vga' = vga /\ UNCHANGED <<ch, tab, maxOffset, tmp, torn>>
        /\ (pc' = "left" /\ vga.g_ScreenX > 0) \/ pc' = "erase"
    BY <1>1 DEF Stores, Goes
  <2>2. Fits(pc', vga.g_ScreenX, vga.g_ScreenY, vga.g_ViewOffset)
    BY <2>1, AtPlace DEF Fits
  <2>3. vga' \in Place(pc')
    BY <2>1, <2>2, AtPlace DEF Place
  <2>4. Register' /\ Locals'
    BY <2>1 DEF Register, Locals, Pcs, CInv
  <2> QED BY <2>3, <2>4 DEF CInv
<1>2. CASE Loads("left", "lefted", vga.g_ScreenX)
  <2>1. /\ pc = "left" /\ pc' = "lefted" /\ vga' = vga /\ tmp' = vga.g_ScreenX
        /\ UNCHANGED <<ch, tab, maxOffset, torn>>
    BY <1>2 DEF Loads, Goes
  <2>2. /\ Fits("lefted", vga.g_ScreenX, vga.g_ScreenY, vga.g_ViewOffset)
        /\ vga.g_ScreenX \in 0 .. SCREEN_WIDTH - 1
    BY <2>1, AtPlace DEF Fits
  <2>3. vga' \in Place(pc')
    BY <2>1, <2>2, AtPlace DEF Place
  <2>4. Register' /\ Locals'
    BY <2>1, <2>2 DEF Register, Locals, Pcs, CInv
  <2> QED BY <2>3, <2>4 DEF CInv
<1>3. CASE Stores("lefted", "erase", [vga EXCEPT !.g_ScreenX = tmp - 1])
  <2>1. /\ pc = "lefted" /\ pc' = "erase" /\ vga' = [vga EXCEPT !.g_ScreenX = tmp - 1]
        /\ UNCHANGED <<ch, tab, maxOffset, tmp, torn>>
    BY <1>3 DEF Stores, Goes
  <2>2. tmp \in 0 .. SCREEN_WIDTH - 1 /\ tmp - 1 \in Int
    BY <2>1, AtPlace DEF CInv, Register
  <2>3. Fits("erase", tmp - 1, vga.g_ScreenY, vga.g_ViewOffset)
    BY <2>1, <2>2, AtPlace DEF Fits
  <2>4. vga' \in Place(pc')
    BY <2>1, <2>2, <2>3, AtPlace, SetCursor, MovesPlace
  <2>5. Register' /\ Locals'
    BY <2>1 DEF Register, Locals, Pcs, CInv
  <2> QED BY <2>4, <2>5 DEF CInv
<1>4. CASE Stores("erase", "idle", VGA_putchr(vga, vga.g_ScreenX, vga.g_ScreenY, Blank))
  <2> DEFINE u == VGA_putchr(vga, vga.g_ScreenX, vga.g_ScreenY, Blank)
  <2>1. /\ pc = "erase" /\ pc' = "idle" /\ vga' = u
        /\ UNCHANGED <<ch, tab, maxOffset, tmp, torn>>
    BY <1>4 DEF Stores, Goes
  <2>2. u \in Globals /\ SameCursor(u, vga) /\ u.g_ViewOffset = vga.g_ViewOffset
    BY AtPlace, PutchrKeeps DEF Glyph
  <2> HIDE DEF u
  <2>3. Fits("idle", vga.g_ScreenX, vga.g_ScreenY, vga.g_ViewOffset)
    BY <2>1, AtPlace DEF Fits
  <2>4. vga' \in Place(pc')
    BY <2>1, <2>2, <2>3 DEF Place, SameCursor
  <2>5. Register' /\ Locals'
    BY <2>1 DEF Register, Locals, Pcs, CInv
  <2> QED BY <2>4, <2>5 DEF CInv
<1> QED BY <1>1, <1>2, <1>3, <1>4 DEF Backspace

LEMMA StepClear == ASSUME CInv, Clear PROVE CInv'
<1>1. CASE /\ Goes("idle", "clear_x", [vga EXCEPT !.g_ScreenBuffer = [k \in Cell |-> Blank]])
           /\ torn' = TRUE
           /\ UNCHANGED tmp
  <2> DEFINE b == [k \in Cell |-> Blank]
  <2>1. /\ pc = "idle" /\ pc' = "clear_x" /\ vga' = [vga EXCEPT !.g_ScreenBuffer = b]
        /\ torn' = TRUE /\ UNCHANGED <<ch, tab, maxOffset, tmp>>
    BY <1>1 DEF Goes
  <2>2. b \in [Cell -> Glyph]
    BY DEF Glyph
  <2> HIDE DEF b
  <2>3. Fits("clear_x", vga.g_ScreenX, vga.g_ScreenY, vga.g_ViewOffset)
    BY <2>1, AtPlace DEF Fits
  <2>4. vga' \in Place(pc')
    BY <2>1, <2>2, <2>3, AtPlace, ScreenSet DEF Place, SameCursor
  <2>5. Register' /\ Locals'
    BY <2>1 DEF Register, Locals, Pcs, CInv
  <2> QED BY <2>4, <2>5 DEF CInv
<1>2. CASE Stores("clear_x", "clear_y", [vga EXCEPT !.g_ScreenX = 0])
  <2>1. /\ pc = "clear_x" /\ pc' = "clear_y" /\ vga' = [vga EXCEPT !.g_ScreenX = 0]
        /\ UNCHANGED <<ch, tab, maxOffset, tmp, torn>>
    BY <1>2 DEF Stores, Goes
  <2>2. 0 \in Int
    BY AtPlace
  <2>3. Fits("clear_y", 0, vga.g_ScreenY, vga.g_ViewOffset)
    BY <2>1, <2>2, AtPlace DEF Fits
  <2>4. vga' \in Place(pc')
    BY <2>1, <2>3, AtPlace, ReturnPlace
  <2>5. Register' /\ Locals'
    BY <2>1 DEF Register, Locals, Pcs, CInv
  <2> QED BY <2>4, <2>5 DEF CInv
<1>3. CASE Stores("clear_y", "clear_view", [vga EXCEPT !.g_ScreenY = 0])
  <2>1. /\ pc = "clear_y" /\ pc' = "clear_view" /\ vga' = [vga EXCEPT !.g_ScreenY = 0]
        /\ UNCHANGED <<ch, tab, maxOffset, tmp, torn>>
    BY <1>3 DEF Stores, Goes
  <2>2. 0 \in Int
    BY AtPlace
  <2>3. Fits("clear_view", vga.g_ScreenX, 0, vga.g_ViewOffset)
    BY <2>1, <2>2, AtPlace DEF Fits
  <2>4. vga' \in Place(pc')
    BY <2>1, <2>3, AtPlace, TopPlace
  <2>5. Register' /\ Locals'
    BY <2>1 DEF Register, Locals, Pcs, CInv
  <2> QED BY <2>4, <2>5 DEF CInv
<1>4. CASE Stores("clear_view", "clear_head", [vga EXCEPT !.g_ViewOffset = 0])
  <2>1. /\ pc = "clear_view" /\ pc' = "clear_head" /\ vga' = [vga EXCEPT !.g_ViewOffset = 0]
        /\ UNCHANGED <<ch, tab, maxOffset, tmp, torn>>
    BY <1>4 DEF Stores, Goes
  <2>2. 0 \in Int
    BY AtPlace
  <2>3. Fits("clear_head", vga.g_ScreenX, vga.g_ScreenY, 0)
    BY <2>1, <2>2, AtPlace DEF Fits
  <2>4. vga' \in Place(pc')
    BY <2>1, <2>2, <2>3, AtPlace, SetView DEF Place
  <2>5. Register' /\ Locals'
    BY <2>1 DEF Register, Locals, Pcs, CInv
  <2> QED BY <2>4, <2>5 DEF CInv
<1>5. CASE Stores("clear_head", "idle", [vga EXCEPT !.g_SBHead = 0, !.g_SBCount = 0, !.gone = <<>>])
  <2>1. /\ pc = "clear_head" /\ pc' = "idle"
        /\ vga' = [vga EXCEPT !.g_SBHead = 0, !.g_SBCount = 0, !.gone = <<>>]
        /\ UNCHANGED <<ch, tab, maxOffset, tmp, torn>>
    BY <1>5 DEF Stores, Goes
  <2>2. 0 \in Nat /\ 0 \in 0 .. Kept /\ <<>> \in Seq(Line)
    BY AtPlace
  <2>3. /\ vga' \in Globals /\ vga'.g_ScreenX = vga.g_ScreenX
        /\ vga'.g_ScreenY = vga.g_ScreenY /\ vga'.g_ViewOffset = vga.g_ViewOffset
    BY <2>1, <2>2, AtPlace DEF Globals
  <2>4. Fits("idle", vga.g_ScreenX, vga.g_ScreenY, vga.g_ViewOffset)
    BY <2>1, AtPlace DEF Fits
  <2>5. vga' \in Place(pc')
    BY <2>1, <2>3, <2>4 DEF Place
  <2>6. Register' /\ Locals'
    BY <2>1 DEF Register, Locals, Pcs, CInv
  <2> QED BY <2>5, <2>6 DEF CInv
<1> QED BY <1>1, <1>2, <1>3, <1>4, <1>5 DEF Clear

LEMMA CInductive == CInv /\ [Next]_vars => CInv'
<1> SUFFICES ASSUME CInv, [Next]_vars PROVE CInv'
  OBVIOUS
<1>1. CASE UNCHANGED vars
  BY <1>1 DEF vars, CInv, Register, Locals
<1>2. CASE Task
  BY <1>2, StepPut, StepSnap, StepPutChar, StepRight, StepReturn, StepNewLine, StepTabTurn,
     StepWrap, StepScroll, StepDone, StepClear, StepVGA_ScrollUp, StepVGA_ScrollDown,
     StepBackspace DEF Task
<1>3. CASE Echo
  BY <1>3, StepEcho
<1> QED BY <1>1, <1>2, <1>3 DEF Next

\* The invariant that the cursor's bounds follow from: where the cursor may be at
\* each load and store, and what the register may hold (vga_text.c:105-227).
THEOREM ConsoleInvariance == Spec => []CInv
BY InitCInv, CInductive, PTL DEF Spec

\* Wherever a key is echoed, the cursor comes back to the screen and is never further
\* than a cell from it, and the view and the counters keep their bounds, for every
\* size of the screen and of the scrollback (vga_text.c:155-204, shell.c:1160-1174).
THEOREM CursorStaysSound == Spec => []CursorSound
<1>1. CInv => CursorSound
  <2> SUFFICES ASSUME CInv PROVE CursorSound
    OBVIOUS
  <2>1. TypeOK
    <3>1. /\ vga.g_ScreenBuffer \in [Cell -> Char \cup {Blank}]
          /\ vga.g_SBuf \in [ShadowCell -> Char \cup {Blank}]
          /\ vga.g_SBCount \in 0 .. Kept
      BY AtPlace DEF Globals, Glyph
    <3>2. vga.g_ViewOffset \in -PAGE .. Kept + PAGE
      BY AtPlace DEF Fits
    <3>3. ch \in Char \cup {NL, CR, HT} /\ tab \in -1 .. TAB + 1 /\ torn \in BOOLEAN
      BY AtPlace DEF CInv, Locals
    <3> QED BY <3>1, <3>2, <3>3 DEF TypeOK
  <2>2. CursorComesBack
    BY AtPlace DEF Fits, CursorComesBack
  <2> QED BY <2>1, <2>2 DEF CursorSound
<1> QED BY <1>1, ConsoleInvariance, PTL

--------------------------------------------------------------------------------
\* The shadow: each cell of the screen, and each line that has scrolled off, has a
\* place of its own in it.
LEMMA Sizes ==
    /\ SCREEN_WIDTH \in Nat \ {0} /\ SCREEN_HEIGHT \in Nat /\ SCREEN_HEIGHT >= 2
    /\ SCROLLBACK_LINES \in Nat \ {0} /\ Kept \in Nat \ {0}
    /\ SCROLLBACK_LINES = Kept + SCREEN_HEIGHT
BY ConsoleAssumption DEF Kept

\* Division undoes what a row and a column are put together with.
LEMMA RowOf ==
    ASSUME NEW r \in Int, NEW x \in 0 .. SCREEN_WIDTH - 1
    PROVE  (r * SCREEN_WIDTH + x) \div SCREEN_WIDTH = r /\ (r * SCREEN_WIDTH + x) % SCREEN_WIDTH = x
<1>1. SCREEN_WIDTH \in Nat \ {0}
  BY Sizes
<1> DEFINE k == r * SCREEN_WIDTH + x
           q == k \div SCREEN_WIDTH
           z == k % SCREEN_WIDTH
<1>2. k \in Int
  BY <1>1
<1> HIDE DEF k
<1>3. q \in Int /\ z \in 0 .. SCREEN_WIDTH - 1 /\ k = SCREEN_WIDTH * q + z
  BY <1>1, <1>2
<1> HIDE DEF q, z
<1>4. r * SCREEN_WIDTH + x = q * SCREEN_WIDTH + z
  <2>1. SCREEN_WIDTH * q = q * SCREEN_WIDTH
    BY <1>1, <1>3
  <2> QED BY <1>3, <2>1 DEF k
<1>5. ASSUME q <= r - 1 PROVE FALSE
  <2>1. q * SCREEN_WIDTH <= (r - 1) * SCREEN_WIDTH
    BY <1>1, <1>3, <1>5
  <2>2. (r - 1) * SCREEN_WIDTH = r * SCREEN_WIDTH - SCREEN_WIDTH
    BY <1>1
  <2>3. r * SCREEN_WIDTH \in Int /\ q * SCREEN_WIDTH \in Int
    BY <1>1, <1>3
  <2> QED BY <1>1, <1>3, <1>4, <2>1, <2>2, <2>3
<1>6. ASSUME q >= r + 1 PROVE FALSE
  <2>1. q * SCREEN_WIDTH >= (r + 1) * SCREEN_WIDTH
    BY <1>1, <1>3, <1>6
  <2>2. (r + 1) * SCREEN_WIDTH = r * SCREEN_WIDTH + SCREEN_WIDTH
    BY <1>1
  <2>3. r * SCREEN_WIDTH \in Int /\ q * SCREEN_WIDTH \in Int
    BY <1>1, <1>3
  <2> QED BY <1>1, <1>3, <1>4, <2>1, <2>2, <2>3
<1>7. q = r
  BY <1>3, <1>5, <1>6
<1>8. z = x
  <2>1. r * SCREEN_WIDTH \in Int
    BY <1>1
  <2> QED BY <1>3, <1>4, <1>7, <2>1
<1> QED BY <1>7, <1>8 DEF q, z, k

\* Lines that are less than the shadow apart do not share a place in it.
LEMMA LinesApart ==
    ASSUME NEW l \in Int, NEW m \in Int, l < m, m - l < SCROLLBACK_LINES
    PROVE  l % SCROLLBACK_LINES # m % SCROLLBACK_LINES
<1>1. SCROLLBACK_LINES \in Nat \ {0}
  BY Sizes
<1> DEFINE q == l \div SCROLLBACK_LINES
           p == m \div SCROLLBACK_LINES
           r == l % SCROLLBACK_LINES
           s == m % SCROLLBACK_LINES
<1>2. /\ q \in Int /\ r \in 0 .. SCROLLBACK_LINES - 1 /\ l = SCROLLBACK_LINES * q + r
      /\ p \in Int /\ s \in 0 .. SCROLLBACK_LINES - 1 /\ m = SCROLLBACK_LINES * p + s
  BY <1>1
<1> HIDE DEF q, p, r, s
<1>3. ASSUME r = s PROVE FALSE
  <2>1. SCROLLBACK_LINES * q \in Int /\ SCROLLBACK_LINES * p \in Int
    BY <1>1, <1>2
  <2>2. m - l = SCROLLBACK_LINES * p - SCROLLBACK_LINES * q
    BY <1>2, <1>3, <2>1
  <2>3. ASSUME p <= q PROVE FALSE
    <3>1. SCROLLBACK_LINES * p <= SCROLLBACK_LINES * q
      BY <1>1, <1>2, <2>3
    <3> QED BY <2>1, <2>2, <3>1
  <2>4. ASSUME p >= q + 1 PROVE FALSE
    <3>1. SCROLLBACK_LINES * p >= SCROLLBACK_LINES * (q + 1)
      BY <1>1, <1>2, <2>4
    <3>2. SCROLLBACK_LINES * (q + 1) = SCROLLBACK_LINES * q + SCROLLBACK_LINES
      BY <1>1, <1>2
    <3> QED BY <1>1, <2>1, <2>2, <3>1, <3>2
  <2> QED BY <1>2, <2>3, <2>4
<1> QED BY <1>3 DEF r, s

\* The line and the column of a cell of the shadow.
LEMMA CellLine ==
    ASSUME NEW l \in Int, NEW x \in 0 .. SCREEN_WIDTH - 1
    PROVE  /\ sb_cell(l, x) \div SCREEN_WIDTH = l % SCROLLBACK_LINES
           /\ sb_cell(l, x) % SCREEN_WIDTH = x
<1>1. l % SCROLLBACK_LINES \in Int
  BY Sizes
<1> QED BY <1>1, RowOf DEF sb_cell

\* The same cell is the same column of the same line.
LEMMA CellOnce ==
    ASSUME NEW l \in Int, NEW m \in Int,
           NEW x \in 0 .. SCREEN_WIDTH - 1, NEW z \in 0 .. SCREEN_WIDTH - 1,
           l - m < SCROLLBACK_LINES, m - l < SCROLLBACK_LINES,
           sb_cell(l, x) = sb_cell(m, z)
    PROVE  l = m /\ x = z
<1>1. x = z /\ l % SCROLLBACK_LINES = m % SCROLLBACK_LINES
  BY CellLine
<1>2. ~(l < m) /\ ~(m < l)
  BY <1>1, LinesApart
<1> QED BY <1>1, <1>2

--------------------------------------------------------------------------------
\* What ShadowKept says, of the buffers by themselves.
Shown(b, h, head) ==
    \A k \in Cell : b[k] = h[sb_cell(head + Row(k), Column(k))]

\* The number of the n-th of the lines that have scrolled off.
Nth(head, count, n) == head - count + n - 1

Past(g, h, head, count) ==
    /\ Len(g) = count
    /\ \A n \in 1 .. count : \A x \in 0 .. SCREEN_WIDTH - 1 :
           g[n][x] = h[sb_cell(Nth(head, count, n), x)]

\* The shadow once its head has moved on.
Cleared(h, head) ==
    [n \in ShadowCell |->
        IF n \div SCREEN_WIDTH = (head + SCREEN_HEIGHT) % SCROLLBACK_LINES THEN Blank ELSE h[n]]
More(count) == IF count + 1 > Kept THEN Kept ELSE count + 1

\* A character on the screen is one in the shadow and in none of the lines above.
LEMMA PutchrShown ==
    ASSUME NEW v \in Globals, NEW x \in 0 .. SCREEN_WIDTH - 1, NEW y \in 0 .. SCREEN_HEIGHT - 1,
           NEW c \in Glyph
    PROVE  LET u == VGA_putchr(v, x, y, c)
           IN  /\ Shown(v.g_ScreenBuffer, v.g_SBuf, v.g_SBHead)
                     => Shown(u.g_ScreenBuffer, u.g_SBuf, u.g_SBHead)
               /\ Past(v.gone, v.g_SBuf, v.g_SBHead, v.g_SBCount)
                     => Past(u.gone, u.g_SBuf, u.g_SBHead, u.g_SBCount)
<1> DEFINE u == VGA_putchr(v, x, y, c)
           k0 == y * SCREEN_WIDTH + x
           s == sb_cell(v.g_SBHead + y, x)
<1>1. /\ v.g_SBHead \in Nat /\ v.g_SBCount \in 0 .. Kept
      /\ u.g_SBHead = v.g_SBHead /\ u.g_SBCount = v.g_SBCount /\ u.gone = v.gone
  BY PutchrKeeps DEF Globals
<1>2. /\ \A k \in Cell : u.g_ScreenBuffer[k] = IF k = k0 THEN c ELSE v.g_ScreenBuffer[k]
      /\ \A n \in ShadowCell : u.g_SBuf[n] = IF n = s THEN c ELSE v.g_SBuf[n]
  BY DEF VGA_putchr, Globals
<1> HIDE DEF u
<1>3. ASSUME Shown(v.g_ScreenBuffer, v.g_SBuf, v.g_SBHead), NEW k \in Cell
      PROVE  u.g_ScreenBuffer[k] = u.g_SBuf[sb_cell(u.g_SBHead + Row(k), Column(k))]
  <2>1. /\ Row(k) \in 0 .. SCREEN_HEIGHT - 1 /\ Column(k) \in 0 .. SCREEN_WIDTH - 1
        /\ k = Row(k) * SCREEN_WIDTH + Column(k)
    BY RowColumn
  <2> DEFINE t == sb_cell(v.g_SBHead + Row(k), Column(k))
  <2>2. t \in ShadowCell
    BY <1>1, <2>1, Sizes, CellIn
  <2>3. k = k0 <=> t = s
    <3>1. ASSUME k = k0 PROVE t = s
      <4>1. Row(k) = y /\ Column(k) = x
        BY <3>1, Sizes, RowOf DEF Row, Column
      <4> QED BY <4>1
    <3>2. ASSUME t = s PROVE k = k0
      <4>1. /\ v.g_SBHead + Row(k) \in Int /\ v.g_SBHead + y \in Int
            /\ (v.g_SBHead + Row(k)) - (v.g_SBHead + y) < SCROLLBACK_LINES
            /\ (v.g_SBHead + y) - (v.g_SBHead + Row(k)) < SCROLLBACK_LINES
        BY <1>1, <2>1, Sizes
      <4>2. v.g_SBHead + Row(k) = v.g_SBHead + y /\ Column(k) = x
        BY <2>1, <3>2, <4>1, CellOnce
      <4>3. Row(k) = y
        <5>1. \A a, b, d \in Int : a + b = a + d => b = d
          OBVIOUS
        <5>2. v.g_SBHead \in Int /\ Row(k) \in Int /\ y \in Int
          BY <1>1, <2>1, Sizes
        <5> QED BY <4>2, <5>1, <5>2, Zenon
      <4> QED BY <2>1, <4>2, <4>3
    <3> QED BY <3>1, <3>2
  <2>4. v.g_ScreenBuffer[k] = v.g_SBuf[t]
    BY <1>3 DEF Shown
  <2> HIDE DEF t, s, k0
  <2>5. u.g_ScreenBuffer[k] = u.g_SBuf[t]
    BY <1>2, <2>2, <2>3, <2>4
  <2> QED BY <1>1, <2>5 DEF t
<1>4. ASSUME Past(v.gone, v.g_SBuf, v.g_SBHead, v.g_SBCount),
             NEW n \in 1 .. v.g_SBCount, NEW z \in 0 .. SCREEN_WIDTH - 1
      PROVE  v.gone[n][z] = u.g_SBuf[sb_cell(Nth(v.g_SBHead, v.g_SBCount, n), z)]
  <2> DEFINE l == Nth(v.g_SBHead, v.g_SBCount, n)
  <2>1. /\ l \in Int /\ v.g_SBHead + y \in Int
        /\ l < v.g_SBHead + y /\ (v.g_SBHead + y) - l < SCROLLBACK_LINES
        /\ l - (v.g_SBHead + y) < SCROLLBACK_LINES
    BY <1>1, Sizes DEF Nth
  <2>2. v.gone[n][z] = v.g_SBuf[sb_cell(l, z)]
    BY <1>4 DEF Past
  <2> HIDE DEF l
  <2>3. sb_cell(l, z) # s
    BY <2>1, CellOnce
  <2>4. sb_cell(l, z) \in ShadowCell
    BY <2>1, CellIn
  <2>5. v.gone[n][z] = u.g_SBuf[sb_cell(l, z)]
    BY <1>2, <2>2, <2>3, <2>4
  <2> QED BY <2>5 DEF l
<1> HIDE DEF s, k0
<1> QED BY <1>1, <1>3, <1>4 DEF Shown, Past, u

\* The screen moves up by a row, and the shadow with it.
LEMMA ScrollShown ==
    ASSUME NEW v \in Globals,
           Shown(v.g_ScreenBuffer, v.g_SBuf, v.g_SBHead),
           Past(v.gone, v.g_SBuf, v.g_SBHead, v.g_SBCount)
    PROVE  LET r == RowsUp(v)
               h == Cleared(v.g_SBuf, v.g_SBHead)
           IN  /\ Shown(r.g_ScreenBuffer, h, v.g_SBHead + 1)
               /\ Past(r.gone, h, v.g_SBHead + 1, More(v.g_SBCount))
<1> DEFINE r == RowsUp(v)
           h == Cleared(v.g_SBuf, v.g_SBHead)
           head == v.g_SBHead
           count == v.g_SBCount
           bottom == head + SCREEN_HEIGHT
<1>1. head \in Nat /\ count \in 0 .. Kept /\ bottom \in Int
  BY Sizes DEF Globals
<1>2. /\ \A k \in Cell : r.g_ScreenBuffer[k]
            = IF k + SCREEN_WIDTH \in Cell THEN v.g_ScreenBuffer[k + SCREEN_WIDTH] ELSE Blank
      /\ r.gone = LET all == Append(v.gone, TopRow(v))
                  IN  IF Len(all) > Kept THEN Tail(all) ELSE all
  BY RowsUpKeeps
<1>3. \A n \in ShadowCell :
         h[n] = IF n \div SCREEN_WIDTH = bottom % SCROLLBACK_LINES THEN Blank ELSE v.g_SBuf[n]
  BY DEF Cleared
<1>4. v.gone \in Seq(Line)
  BY DEF Globals
<1> HIDE DEF r, h, head, count, bottom
\* A line other than the one that is cleared keeps its cells.
<1>5. ASSUME NEW l \in Int, NEW x \in 0 .. SCREEN_WIDTH - 1,
             l < bottom, bottom - l < SCROLLBACK_LINES
      PROVE  h[sb_cell(l, x)] = v.g_SBuf[sb_cell(l, x)]
  <2>1. sb_cell(l, x) \in ShadowCell /\ sb_cell(l, x) \div SCREEN_WIDTH = l % SCROLLBACK_LINES
    BY CellIn, CellLine
  <2>2. l % SCROLLBACK_LINES # bottom % SCROLLBACK_LINES
    BY <1>1, <1>5, LinesApart
  <2> QED BY <1>3, <2>1, <2>2
<1>6. ASSUME NEW k \in Cell
      PROVE  r.g_ScreenBuffer[k] = h[sb_cell(head + 1 + Row(k), Column(k))]
  <2>1. /\ Row(k) \in 0 .. SCREEN_HEIGHT - 1 /\ Column(k) \in 0 .. SCREEN_WIDTH - 1
        /\ k = Row(k) * SCREEN_WIDTH + Column(k)
    BY RowColumn
  <2> DEFINE row == Row(k)
             x == Column(k)
             next == k + SCREEN_WIDTH
  <2>2. next = (row + 1) * SCREEN_WIDTH + x
    <3>1. (row + 1) * SCREEN_WIDTH = row * SCREEN_WIDTH + SCREEN_WIDTH /\ row * SCREEN_WIDTH \in Int
      BY <2>1, Sizes
    <3> QED BY <2>1, <3>1, Sizes
  <2>3. Row(next) = row + 1 /\ Column(next) = x
    <3>1. row + 1 \in Int /\ x \in 0 .. SCREEN_WIDTH - 1
      BY <2>1, Sizes
    <3> HIDE DEF row, x
    <3>2. ((row + 1) * SCREEN_WIDTH + x) \div SCREEN_WIDTH = row + 1
          /\ ((row + 1) * SCREEN_WIDTH + x) % SCREEN_WIDTH = x
      BY <3>1, RowOf
    <3> QED BY <2>2, <3>2 DEF Row, Column
  <2>4. row \in 0 .. SCREEN_HEIGHT - 1 /\ x \in 0 .. SCREEN_WIDTH - 1 /\ SCREEN_HEIGHT \in Nat
        /\ SCREEN_WIDTH \in Nat \ {0}
    BY <2>1, Sizes
  <2>5. next \in Cell <=> row + 1 <= SCREEN_HEIGHT - 1
    <3>1. ASSUME next \in Cell PROVE row + 1 <= SCREEN_HEIGHT - 1
      BY <2>3, <2>4, <3>1, RowColumn
    <3>2. ASSUME row + 1 <= SCREEN_HEIGHT - 1 PROVE next \in Cell
      <4>1. /\ (row + 1) * SCREEN_WIDTH <= (SCREEN_HEIGHT - 1) * SCREEN_WIDTH
            /\ (row + 1) * SCREEN_WIDTH \in Nat
        BY <2>4, <3>2
      <4>2. (SCREEN_HEIGHT - 1) * SCREEN_WIDTH = SCREEN_WIDTH * SCREEN_HEIGHT - SCREEN_WIDTH
            /\ SCREEN_WIDTH * SCREEN_HEIGHT \in Nat
        BY <2>4
      <4> HIDE DEF next, row, x
      <4>3. next \in 0 .. SCREEN_WIDTH * SCREEN_HEIGHT - 1
        BY <2>2, <2>4, <4>1, <4>2
      <4> QED BY <4>3 DEF Cell
    <3> QED BY <3>1, <3>2
  <2> DEFINE t == sb_cell(head + 1 + row, x)
  <2> HIDE DEF next, row, x
  <2>6. CASE next \in Cell
    <3>1. r.g_ScreenBuffer[k] = v.g_ScreenBuffer[next]
      BY <1>2, <2>6 DEF next
    <3>2. v.g_ScreenBuffer[next] = v.g_SBuf[sb_cell(head + (row + 1), x)]
      BY <2>3, <2>6 DEF Shown, head
    <3>3. head + (row + 1) = head + 1 + row /\ head + 1 + row \in Int
      BY <1>1, <2>4
    <3>4. head + 1 + row < bottom /\ bottom - (head + 1 + row) < SCROLLBACK_LINES
      BY <1>1, <2>4, <2>5, <2>6, Sizes DEF bottom
    <3>5. h[t] = v.g_SBuf[t]
      BY <1>5, <2>4, <3>3, <3>4
    <3> QED BY <3>1, <3>2, <3>3, <3>5 DEF row, x
  <2>7. CASE next \notin Cell
    <3>1. r.g_ScreenBuffer[k] = Blank
      BY <1>2, <2>7 DEF next
    <3>2. head + 1 + row = bottom
      BY <1>1, <2>4, <2>5, <2>7 DEF bottom
    <3>3. t \in ShadowCell /\ t \div SCREEN_WIDTH = bottom % SCROLLBACK_LINES
      BY <1>1, <2>4, <3>2, CellIn, CellLine
    <3>4. h[t] = Blank
      BY <1>3, <3>3
    <3> QED BY <3>1, <3>4 DEF row, x
  <2> QED BY <2>6, <2>7
<1> DEFINE all == Append(v.gone, TopRow(v))
<1>7. /\ Len(v.gone) = count /\ all \in Seq(Line) /\ Len(all) = count + 1
      /\ \A n \in 1 .. count : all[n] = v.gone[n]
      /\ all[count + 1] = TopRow(v)
  <2>1. Len(v.gone) = count
    BY DEF Past, count
  <2> QED BY <1>4, <2>1, TopRowTyped
\* The lines before the shadow turns, the one at the top of the screen included.
<1>8. ASSUME NEW n \in 1 .. count + 1, NEW x \in 0 .. SCREEN_WIDTH - 1
      PROVE  all[n][x] = v.g_SBuf[sb_cell(Nth(head, count, n), x)]
  <2>1. CASE n \in 1 .. count
    BY <1>7, <2>1 DEF Past, head, count
  <2>2. CASE n = count + 1
    <3>1. all[n] = TopRow(v) /\ Nth(head, count, n) = head
      BY <1>1, <1>7, <2>2 DEF Nth
    <3>2. TopRow(v)[x] = v.g_ScreenBuffer[x]
      BY DEF TopRow
    <3>3. x = 0 * SCREEN_WIDTH + x /\ 0 \in Int
      BY Sizes
    <3>4. Row(x) = 0 /\ Column(x) = x
      BY <3>3, RowOf DEF Row, Column
    <3>5. x \in Cell
      <4>1. SCREEN_WIDTH <= SCREEN_WIDTH * SCREEN_HEIGHT /\ SCREEN_WIDTH * SCREEN_HEIGHT \in Nat
        BY Sizes
      <4> QED BY <4>1, Sizes DEF Cell
    <3>6. v.g_ScreenBuffer[x] = v.g_SBuf[sb_cell(head + 0, x)]
      BY <3>4, <3>5 DEF Shown, head
    <3>7. head + 0 = head
      BY <1>1
    <3> QED BY <3>1, <3>2, <3>6, <3>7
  <2>3. n \in 1 .. count \/ n = count + 1
    BY <1>1
  <2> QED BY <2>1, <2>2, <2>3, Zenon
<1>9. Len(r.gone) = More(count)
      /\ \A n \in 1 .. More(count) :
            r.gone[n] = all[n + (count + 1 - More(count))]
  <2> HIDE DEF all
  <2>0. r.gone = IF Len(all) > Kept THEN Tail(all) ELSE all
    BY <1>2 DEF all
  <2>1. CASE count + 1 > Kept
    <3>1. r.gone = Tail(all) /\ More(count) = Kept /\ count = Kept
      BY <1>1, <1>7, <2>0, <2>1, Sizes DEF More
    <3>2. Len(Tail(all)) = count /\ \A n \in 1 .. count : Tail(all)[n] = all[n + 1]
      BY <1>1, <1>7
    <3> QED BY <1>1, <3>1, <3>2
  <2>2. CASE ~(count + 1 > Kept)
    <3>1. r.gone = all /\ More(count) = count + 1
      BY <1>1, <1>7, <2>0, <2>2 DEF More
    <3> QED BY <1>1, <1>7, <3>1
  <2> QED BY <2>1, <2>2
<1>10. More(count) \in 1 .. Kept /\ More(count) <= count + 1
  BY <1>1, Sizes DEF More
<1> HIDE DEF all
<1>11. ASSUME NEW n \in 1 .. More(count), NEW x \in 0 .. SCREEN_WIDTH - 1
       PROVE  r.gone[n][x] = h[sb_cell(Nth(head + 1, More(count), n), x)]
  <2> DEFINE m == n + (count + 1 - More(count))
             l == Nth(head + 1, More(count), n)
  <2>1. m \in 1 .. count + 1 /\ Nth(head, count, m) = l /\ l \in Int
    BY <1>1, <1>10 DEF Nth
  <2>2. l < bottom /\ bottom - l < SCROLLBACK_LINES
    BY <1>1, <1>10, Sizes DEF bottom, Nth
  <2>3. r.gone[n] = all[m]
    BY <1>9
  <2> HIDE DEF m, l
  <2>4. all[m][x] = v.g_SBuf[sb_cell(l, x)]
    BY <1>8, <2>1
  <2>5. h[sb_cell(l, x)] = v.g_SBuf[sb_cell(l, x)]
    BY <1>5, <2>1, <2>2
  <2> QED BY <2>3, <2>4, <2>5 DEF l
<1>12. Shown(r.g_ScreenBuffer, h, head + 1)
  BY <1>6 DEF Shown
<1>13. Past(r.gone, h, head + 1, More(count))
  BY <1>9, <1>11, Zenon DEF Past
<1> QED BY <1>12, <1>13 DEF r, h, head, count

--------------------------------------------------------------------------------
\* The screen is the live view, or is about to be.
Put0 == {"switch", "right", "righted", "down", "downed", "tab", "wrap", "wrapping",
         "wrapped", "first", "scroll", "rows", "done"}
\* The rows have moved up, and the shadow has not.
Half == {"up", "upped", "head"}

ViewShown(v) == Shown(v.g_ScreenBuffer, v.g_SBuf, v.g_SBHead)
LinesPast(v) == Past(v.gone, v.g_SBuf, v.g_SBHead, v.g_SBCount)
HalfShown(v) ==
    /\ Shown(v.g_ScreenBuffer, Cleared(v.g_SBuf, v.g_SBHead), v.g_SBHead + 1)
    /\ Past(v.gone, Cleared(v.g_SBuf, v.g_SBHead), v.g_SBHead + 1, More(v.g_SBCount))

\* The invariant that ShadowKept follows from, claimed until a key is echoed into
\* an operation or the screen is cleared.
Buffers ==
    /\ IF pc \in Half THEN HalfShown(vga) ELSE LinesPast(vga)
    /\ pc \in Put0 => ViewShown(vga)
    /\ pc \in {"idle", "putc", "left", "lefted", "erase"} /\ vga.g_ViewOffset = 0
          => ViewShown(vga)

Cursor ==
    /\ pc \notin {"clear_x", "clear_y", "clear_view", "clear_head"}
    /\ vga.g_ScreenX >= 0
    /\ pc = "righted" => tmp >= 0
    /\ pc = "left" => vga.g_ScreenX > 0
    /\ pc = "lefted" => tmp > 0
    /\ pc \in {"pageup", "paged_up", "top"} => maxOffset > 0
    /\ pc \in {"top", "render"} => vga.g_ViewOffset > 0
    /\ pc \in Put0 \cup Half \cup {"snap"} => vga.g_ViewOffset = 0

SInv == ~torn => Cursor /\ Buffers

\* What neither buffer nor count depends on.
LEMMA SameShown ==
    ASSUME NEW u, NEW v, SameShadow(u, v)
    PROVE  /\ LinesPast(u) = LinesPast(v)
           /\ u.g_ScreenBuffer = v.g_ScreenBuffer
                => ViewShown(u) = ViewShown(v) /\ HalfShown(u) = HalfShown(v)
BY DEF SameShadow, LinesPast, ViewShown, HalfShown

\* The live view, rendered while the count of the lines is also their number.
LEMMA RenderShown ==
    ASSUME NEW v \in Globals, v.g_ViewOffset = 0, ~Blanks(v)
    PROVE  ViewShown(sb_render(v))
<1> DEFINE top == v.g_SBHead - v.g_ViewOffset
           b == [k \in Cell |->
                    LET line == top + Row(k)
                    IN  IF 0 <= line /\ line < v.g_SBCount + SCREEN_HEIGHT
                        THEN v.g_SBuf[sb_cell(line, Column(k))] ELSE Blank]
<1>1. sb_render(v) = [v EXCEPT !.g_ScreenBuffer = b]
  BY DEF sb_render
<1>2. v.g_SBHead \in Nat /\ v.g_SBCount \in Nat /\ v.g_SBHead <= v.g_SBCount /\ top = v.g_SBHead
  BY Sizes DEF Globals, Blanks
<1>3. ASSUME NEW k \in Cell
      PROVE  b[k] = v.g_SBuf[sb_cell(v.g_SBHead + Row(k), Column(k))]
  <2>1. Row(k) \in 0 .. SCREEN_HEIGHT - 1 /\ SCREEN_HEIGHT \in Nat
    BY RowColumn, Sizes
  <2>2. 0 <= top + Row(k) /\ top + Row(k) < v.g_SBCount + SCREEN_HEIGHT
    BY <1>2, <2>1
  <2>3. b[k] = v.g_SBuf[sb_cell(top + Row(k), Column(k))]
    BY <2>2
  <2> QED BY <1>2, <2>3
<1> HIDE DEF b, top
<1>4. /\ sb_render(v).g_ScreenBuffer = b /\ sb_render(v).g_SBuf = v.g_SBuf
      /\ sb_render(v).g_SBHead = v.g_SBHead
  BY <1>1 DEF Globals
<1> QED BY <1>3, <1>4, Zenon DEF ViewShown, Shown

\* Coming down to the live view by a page copies it.
LEMMA LiveIsShown ==
    ASSUME NEW v \in Globals
    PROVE  ViewShown([v EXCEPT !.g_ScreenBuffer = Live(v)])
<1> DEFINE u == [v EXCEPT !.g_ScreenBuffer = Live(v)]
<1>1. u.g_ScreenBuffer = Live(v) /\ SameShadow(u, v)
  BY ScreenSet, LiveTyped
<1> HIDE DEF u
<1>2. \A k \in Cell : Live(v)[k] = v.g_SBuf[sb_cell(v.g_SBHead + Row(k), Column(k))]
  BY Zenon DEF Live
<1>3. ViewShown(u)
  BY <1>1, <1>2, Zenon DEF ViewShown, Shown, SameShadow
<1> QED BY <1>3 DEF u

\* The shadow follows the rows.
LEMMA HeadOnShown ==
    ASSUME NEW v \in Globals, HalfShown(v)
    PROVE  ViewShown(HeadOn(v)) /\ LinesPast(HeadOn(v))
<1>1. /\ HeadOn(v).g_SBHead = v.g_SBHead + 1 /\ HeadOn(v).g_SBCount = More(v.g_SBCount)
      /\ HeadOn(v).g_ScreenBuffer = v.g_ScreenBuffer /\ HeadOn(v).gone = v.gone
  BY HeadOnKeeps DEF More
<1>2. HeadOn(v).g_SBuf = Cleared(v.g_SBuf, v.g_SBHead)
  <2> DEFINE h == Cleared(v.g_SBuf, v.g_SBHead)
             c == IF v.g_SBCount + 1 > Limit THEN Limit ELSE v.g_SBCount + 1
  <2>1. HeadOn(v) = [v EXCEPT !.g_SBHead = v.g_SBHead + 1, !.g_SBCount = c, !.g_SBuf = h]
    BY Zenon DEF HeadOn, Cleared
  <2> HIDE DEF h, c
  <2>2. HeadOn(v).g_SBuf = h
    BY <2>1 DEF Globals
  <2> QED BY <2>2 DEF h
<1> QED BY <1>1, <1>2, Zenon DEF ViewShown, LinesPast, HalfShown

\* The rows move up ahead of it.
LEMMA RowsUpShown ==
    ASSUME NEW v \in Globals, ViewShown(v), LinesPast(v)
    PROVE  HalfShown(RowsUp(v))
<1>1. RowsUp(v).g_SBuf = v.g_SBuf /\ RowsUp(v).g_SBHead = v.g_SBHead
      /\ RowsUp(v).g_SBCount = v.g_SBCount
  BY RowsUpKeeps
<1> QED BY <1>1, ScrollShown DEF ViewShown, LinesPast, HalfShown

--------------------------------------------------------------------------------
\* A whole call of VGA_putc between operations, in the live view.
Whole ==
    {v \in Place("idle") : /\ v.g_ScreenX >= 0 /\ v.g_ViewOffset = 0
                           /\ ViewShown(v) /\ LinesPast(v)}

\* A character or a new line keeps the buffers together.
LEMMA CharWhole ==
    ASSUME NEW v \in Whole, NEW c \in Glyph \cup {NL}
    PROVE  Scrolled(Wrapped(Moved(v, c))) \in Whole
<1> DEFINE m == Moved(v, c)
           w == Wrapped(m)
           s == Scrolled(w)
<1>1. /\ v \in Place("idle") /\ v \in Globals /\ v.g_ScreenX >= 0 /\ v.g_ViewOffset = 0
      /\ ViewShown(v) /\ LinesPast(v)
      /\ v.g_ScreenX \in 0 .. SCREEN_WIDTH - 1 /\ v.g_ScreenY \in 0 .. SCREEN_HEIGHT - 1
  BY Sizes DEF Whole, Place, Fits
<1>2. s \in Place("idle")
  BY <1>1, CharKeeps
<1>3. /\ m \in Globals /\ m.g_ViewOffset = 0
      /\ m.g_ScreenX \in Int /\ m.g_ScreenX >= 0 /\ m.g_ScreenY \in Int
  BY <1>1, MovedKeeps, Sizes
<1>4. ViewShown(m) /\ LinesPast(m)
  <2>1. CASE c = NL
    <3>1. m = [v EXCEPT !.g_ScreenX = 0, !.g_ScreenY = v.g_ScreenY + 1]
      BY <2>1, Zenon DEF Moved
    <3>2. v.g_ScreenY + 1 \in Int /\ 0 \in Int
      BY <1>1
    <3>3. Moves([v EXCEPT !.g_ScreenX = 0, !.g_ScreenY = v.g_ScreenY + 1], v, 0, v.g_ScreenY + 1)
      BY <1>1, <3>2, SetCursor
    <3>4. Moves(m, v, 0, v.g_ScreenY + 1)
      BY <3>1, <3>3
    <3> QED BY <1>1, <3>4, SameShown DEF Moves
  <2>2. CASE c # NL
    <3> DEFINE u == VGA_putchr(v, v.g_ScreenX, v.g_ScreenY, c)
    <3>1. c \in Glyph /\ c # CR
      BY <2>2, ConsoleAssumption DEF Glyph
    <3>2. m = [u EXCEPT !.g_ScreenX = u.g_ScreenX + 1]
      BY <2>2, <3>1, Zenon DEF Moved
    <3>3. u \in Globals /\ ViewShown(u) /\ LinesPast(u)
      BY <1>1, <3>1, PutchrKeeps, PutchrShown DEF ViewShown, LinesPast
    <3> HIDE DEF u, m
    <3>4. u.g_ScreenX + 1 \in Int
      BY <3>3 DEF Globals
    <3>5. Moves(m, u, u.g_ScreenX + 1, u.g_ScreenY)
      BY <3>2, <3>3, <3>4, SetCursor
    <3> QED BY <3>3, <3>5, SameShown DEF Moves
  <2> QED BY <2>1, <2>2
<1> HIDE DEF m
<1>5. w \in Globals /\ ViewShown(w) /\ LinesPast(w)
  <2>1. CASE m.g_ScreenX >= SCREEN_WIDTH
    <3>1. w = [m EXCEPT !.g_ScreenX = 0, !.g_ScreenY = m.g_ScreenY + 1]
      BY <2>1, Zenon DEF Wrapped
    <3>2. m.g_ScreenY + 1 \in Int /\ 0 \in Int
      BY <1>3
    <3>3. Moves([m EXCEPT !.g_ScreenX = 0, !.g_ScreenY = m.g_ScreenY + 1], m, 0, m.g_ScreenY + 1)
      BY <1>3, <3>2, SetCursor
    <3>4. Moves(w, m, 0, m.g_ScreenY + 1)
      BY <3>1, <3>3
    <3> QED BY <1>4, <3>4, SameShown DEF Moves
  <2>2. CASE ~(m.g_ScreenX >= SCREEN_WIDTH)
    BY <1>3, <1>4, <2>2 DEF Wrapped
  <2> QED BY <2>1, <2>2
<1>6. s.g_ViewOffset = 0 /\ s.g_ScreenX >= 0
  BY <1>3, SettledKeeps
<1> HIDE DEF w
<1>7. ViewShown(s) /\ LinesPast(s)
  <2>1. CASE w.g_ScreenY >= SCREEN_HEIGHT
    <3> DEFINE r == RowsUp(w)
               t == [r EXCEPT !.g_ScreenY = r.g_ScreenY - 1]
    <3>1. r \in Globals /\ HalfShown(r)
      BY <1>5, RowsUpKeeps, RowsUpShown
    <3>2. s = HeadOn(t)
      BY <2>1, Zenon DEF Scrolled, VGA_scrollback
    <3> HIDE DEF r
    <3>3. r.g_ScreenY - 1 \in Int
      BY <3>1 DEF Globals
    <3>4. Moves(t, r, r.g_ScreenX, r.g_ScreenY - 1)
      BY <3>1, <3>3, SetCursor
    <3> HIDE DEF t
    <3>5. t \in Globals /\ HalfShown(t)
      BY <3>1, <3>4, SameShown DEF Moves
    <3> QED BY <3>2, <3>5, HeadOnShown
  <2>2. CASE ~(w.g_ScreenY >= SCREEN_HEIGHT)
    BY <1>5, <2>2 DEF Scrolled
  <2> QED BY <2>1, <2>2
<1> HIDE DEF s
<1>8. s \in Whole
  BY <1>2, <1>6, <1>7 DEF Whole
<1> QED BY <1>8 DEF s, w, m

\* So is a tab.
LEMMA EchoWhole ==
    ASSUME NEW v \in Place("idle"), v.g_ScreenX >= 0, LinesPast(v),
           v.g_ViewOffset = 0 => ViewShown(v), v.g_ViewOffset # 0 => ~Blanks(v),
           NEW c \in Char \cup {NL, HT}
    PROVE  VGA_putc(v, c) \in Whole
<1>1. Snapped(v) \in Whole
  <2>1. CASE v.g_ViewOffset = 0
    BY <2>1 DEF Snapped, Whole
  <2>2. CASE v.g_ViewOffset # 0
    <3> DEFINE u == [v EXCEPT !.g_ViewOffset = 0]
               r == sb_render(u)
    <3>1. v \in Globals /\ Fits("idle", v.g_ScreenX, v.g_ScreenY, v.g_ViewOffset) /\ 0 \in Int
      BY DEF Place
    <3>2. /\ u \in Globals /\ u.g_ViewOffset = 0 /\ SameShadow(u, v) /\ SameCursor(u, v)
      BY <3>1, SetView DEF SameCursor
    <3>3. ~Blanks(u)
      BY <2>2, <3>2 DEF SameShadow, Blanks
    <3>4. Snapped(v) = r
      BY <2>2 DEF Snapped
    <3> HIDE DEF u
    <3>5. r \in Globals /\ SameCursor(r, u) /\ SameShadow(r, u) /\ r.g_ViewOffset = 0
      BY <3>2, RenderKeeps
    <3>6. ViewShown(r)
      BY <3>2, <3>3, RenderShown
    <3> HIDE DEF r
    <3>7. LinesPast(r)
      BY <3>2, <3>5, SameShown
    <3>8. Fits("idle", v.g_ScreenX, v.g_ScreenY, 0)
      BY <3>1, Sizes DEF Fits
    <3> QED BY <3>2, <3>4, <3>5, <3>6, <3>7, <3>8 DEF Whole, Place, SameCursor
  <2> QED BY <2>1, <2>2
<1>2. ASSUME NEW u \in Whole, NEW d \in Glyph \cup {NL}
      PROVE  Scrolled(Wrapped(Moved(Snapped(u), d))) \in Whole
  <2>1. Snapped(u) = u
    BY DEF Snapped, Whole
  <2> QED BY <2>1, CharWhole
<1>3. CASE c = HT
  <2> DEFINE t == Tabbed(Snapped(v))
             s == Scrolled(Wrapped(t))
  <2>1. ASSUME NEW u \in Whole PROVE Space(u) \in Whole
    BY <1>2 DEF Space, Glyph
  <2>2. t \in Whole
    BY <1>1, <2>1, TabKeeps
  <2>3. VGA_putc(v, c) = s
    BY <1>3, Zenon DEF VGA_putc
  <2> HIDE DEF t
  <2>4. ~(t.g_ScreenX >= SCREEN_WIDTH) /\ ~(t.g_ScreenY >= SCREEN_HEIGHT)
    BY <2>2, Sizes DEF Whole, Place, Fits
  <2>5. s = t
    BY <2>4 DEF Wrapped, Scrolled
  <2> QED BY <2>2, <2>3, <2>5
<1>4. CASE c # HT
  <2>1. c \in Glyph \cup {NL}
    BY <1>4 DEF Glyph
  <2>2. VGA_putc(v, c) = Scrolled(Wrapped(Moved(Snapped(v), c)))
    BY <1>4, Zenon DEF VGA_putc
  <2>3. Snapped(Snapped(v)) = Snapped(v)
    BY <1>1 DEF Snapped, Whole
  <2> QED BY <1>1, <1>2, <2>1, <2>2, <2>3
<1> QED BY <1>3, <1>4

--------------------------------------------------------------------------------
\* Step by step, while nothing is torn.
LEMMA InitSInv == Init => SInv
<1> SUFFICES ASSUME Init PROVE SInv
  OBVIOUS
<1>1. pc = "idle" /\ tmp = 0
  BY DEF Init
<1>2. /\ vga.g_ScreenX = 0 /\ vga.g_ScreenY = 0 /\ vga.g_ViewOffset = 0
      /\ vga.g_SBHead = 0 /\ vga.g_SBCount = 0 /\ vga.gone = <<>>
      /\ vga.g_ScreenBuffer = [k \in Cell |-> Blank] /\ vga.g_SBuf = [k \in ShadowCell |-> Blank]
  BY DEF Init
<1>3. ViewShown(vga)
  <2>1. ASSUME NEW k \in Cell PROVE sb_cell(0 + Row(k), Column(k)) \in ShadowCell
    BY RowColumn, CellIn, Sizes
  <2> QED BY <1>2, <2>1 DEF ViewShown, Shown
<1>4. LinesPast(vga)
  BY <1>2 DEF LinesPast, Past
<1> QED BY <1>1, <1>2, <1>3, <1>4 DEF SInv, Cursor, Buffers, Put0, Half

LEMMA SyncEcho == ASSUME CInv, Cursor, Buffers, ~torn, ~torn', Echo PROVE Cursor' /\ Buffers'
<1>1. pc = "idle" /\ pc' = pc /\ tmp' = tmp /\ (vga.g_ViewOffset # 0 => ~Blanks(vga))
  BY DEF Echo
<1>2. vga \in Place("idle") /\ vga.g_ScreenX >= 0 /\ LinesPast(vga)
      /\ (vga.g_ViewOffset = 0 => ViewShown(vga))
  BY <1>1 DEF CInv, Cursor, Buffers, Half
<1>3. vga' \in Whole
  <2>1. PICK c \in Char \cup {NL, HT} : vga' = VGA_putc(vga, c)
    BY DEF Echo
  <2> QED BY <1>1, <1>2, <2>1, EchoWhole
<1> QED BY <1>1, <1>3 DEF Whole, Cursor, Buffers, Put0, Half

\* A step that leaves the globals alone.
LEMMA SyncSame ==
    ASSUME CInv, Cursor, Buffers, UNCHANGED vga,
           \/ pc = "idle" /\ pc' \in {"putc", "pageup", "paged_down", "erase"}
           \/ pc = "idle" /\ pc' = "left" /\ vga.g_ScreenX > 0
           \/ pc = "putc" /\ pc' = "switch" /\ vga.g_ViewOffset = 0
           \/ pc = "left" /\ pc' = "lefted" /\ tmp' = vga.g_ScreenX
           \/ pc = "right" /\ pc' = "righted" /\ tmp' = vga.g_ScreenX
           \/ pc = "pageup" /\ pc' = "paged_up"
           \/ pc \in Put0 /\ pc' \in (Put0 \ {"righted"}) \cup {"idle", "putc"}
           \/ pc = "up" /\ pc' = "upped",
           IF pc = "idle" /\ pc' = "pageup" THEN maxOffset' = vga.g_SBCount /\ vga.g_SBCount > 0
           ELSE UNCHANGED maxOffset
    PROVE  Cursor' /\ Buffers'
BY DEF Cursor, Buffers, Put0, Half

LEMMA SyncSnap == ASSUME CInv, Cursor, Buffers, ~torn, ~torn', Snap PROVE Cursor' /\ Buffers'
<1>1. CASE vga.g_ViewOffset = 0 /\ Stores("putc", "switch", vga)
  BY <1>1, SyncSame DEF Stores, Goes
<1>2. CASE Stores("putc", "snap", [vga EXCEPT !.g_ViewOffset = 0])
  <2>1. /\ pc = "putc" /\ pc' = "snap" /\ vga' = [vga EXCEPT !.g_ViewOffset = 0]
    BY <1>2 DEF Stores, Goes
  <2>2. 0 \in Int
    OBVIOUS
  <2>3. vga'.g_ViewOffset = 0 /\ vga'.g_ScreenX = vga.g_ScreenX /\ SameShadow(vga', vga)
    BY <2>1, <2>2, AtPlace, SetView
  <2> QED BY <2>1, <2>3, SameShown DEF Cursor, Buffers, Put0, Half
<1>3. CASE /\ Goes("snap", "switch", sb_render(vga))
           /\ torn' = (torn \/ Blanks(vga))
           /\ UNCHANGED tmp
  <2>1. pc = "snap" /\ pc' = "switch" /\ vga' = sb_render(vga) /\ ~Blanks(vga)
    BY <1>3 DEF Goes
  <2>2. vga.g_ViewOffset = 0
    BY <2>1 DEF Cursor
  <2>3. ViewShown(vga') /\ LinesPast(vga') = LinesPast(vga)
        /\ vga'.g_ScreenX = vga.g_ScreenX /\ vga'.g_ViewOffset = 0
    BY <2>1, <2>2, AtPlace, RenderKeeps, RenderShown, SameShown DEF SameCursor
  <2> QED BY <2>1, <2>3 DEF Cursor, Buffers, Put0, Half
<1> QED BY <1>1, <1>2, <1>3 DEF Snap

\* A character is put where the cursor is.
LEMMA SyncCell ==
    ASSUME CInv, Cursor, Buffers, NEW c \in Glyph, pc \in {"switch", "erase"}
    PROVE  LET u == VGA_putchr(vga, vga.g_ScreenX, vga.g_ScreenY, c)
           IN  /\ u.g_ScreenX = vga.g_ScreenX /\ u.g_ViewOffset = vga.g_ViewOffset
               /\ LinesPast(u) /\ (vga.g_ViewOffset = 0 => ViewShown(u))
<1> DEFINE u == VGA_putchr(vga, vga.g_ScreenX, vga.g_ScreenY, c)
<1>1. vga.g_ScreenX \in 0 .. SCREEN_WIDTH - 1 /\ vga.g_ScreenY \in 0 .. SCREEN_HEIGHT - 1
  BY AtPlace DEF Cursor, Fits
<1>2. u.g_ScreenX = vga.g_ScreenX /\ u.g_ViewOffset = vga.g_ViewOffset
  BY AtPlace, PutchrKeeps DEF SameCursor
<1>3. (ViewShown(vga) => ViewShown(u)) /\ (LinesPast(vga) => LinesPast(u))
  BY <1>1, AtPlace, PutchrShown DEF ViewShown, LinesPast
<1> HIDE DEF u
<1>4. LinesPast(u) /\ (vga.g_ViewOffset = 0 => ViewShown(u))
  BY <1>3 DEF Buffers, Put0, Half
<1> QED BY <1>2, <1>4 DEF u

LEMMA SyncPutChar == ASSUME CInv, Cursor, Buffers, PutChar PROVE Cursor' /\ Buffers'
<1> DEFINE u == VGA_putchr(vga, vga.g_ScreenX, vga.g_ScreenY, Now)
<1>1. Now \in Glyph /\ pc = "switch" /\ pc' = "right" /\ vga' = u
  BY DEF PutChar, Stores, Goes, Glyph
<1>2. vga.g_ViewOffset = 0
  BY <1>1 DEF Cursor, Put0
<1>3. u.g_ScreenX = vga.g_ScreenX /\ u.g_ViewOffset = 0 /\ LinesPast(u) /\ ViewShown(u)
  BY <1>1, <1>2, SyncCell
<1> HIDE DEF u
<1> QED BY <1>1, <1>3 DEF Cursor, Buffers, Put0, Half

\* A store into the cursor.
LEMMA SyncMoves ==
    ASSUME CInv, Cursor, Buffers, NEW x \in Int, NEW y \in Int, x >= 0,
           Moves(vga', vga, x, y),
           \/ pc \in Put0 /\ pc' \in Put0 \ {"righted"}
           \/ pc = "upped" /\ pc' = "head"
           \/ pc = "lefted" /\ pc' = "erase"
    PROVE  Cursor' /\ Buffers'
<1>1. /\ LinesPast(vga') = LinesPast(vga) /\ ViewShown(vga') = ViewShown(vga)
      /\ HalfShown(vga') = HalfShown(vga)
  BY SameShown DEF Moves
<1>2. vga'.g_ScreenX = x /\ vga'.g_ViewOffset = vga.g_ViewOffset
  BY DEF Moves
<1> QED BY <1>1, <1>2 DEF Cursor, Buffers, Put0, Half

LEMMA SyncRight == ASSUME CInv, Cursor, Buffers, Right PROVE Cursor' /\ Buffers'
<1>1. CASE Loads("right", "righted", vga.g_ScreenX)
  BY <1>1, SyncSame DEF Loads, Goes
<1>2. CASE Stores("righted", "wrap", [vga EXCEPT !.g_ScreenX = tmp + 1])
  <2>1. /\ pc = "righted" /\ pc' = "wrap" /\ vga' = [vga EXCEPT !.g_ScreenX = tmp + 1]
    BY <1>2 DEF Stores, Goes
  <2>2. tmp \in -1 .. SCREEN_WIDTH - 1 /\ tmp >= 0 /\ tmp + 1 \in Int /\ tmp + 1 >= 0
    BY <2>1, AtPlace DEF CInv, Register, Cursor
  <2>3. Moves(vga', vga, tmp + 1, vga.g_ScreenY) /\ vga.g_ScreenY \in Int
    BY <2>1, <2>2, AtPlace, SetCursor
  <2>4. pc \in Put0 /\ pc' \in Put0 \ {"righted"}
    BY <2>1 DEF Put0
  <2> QED BY <2>2, <2>3, <2>4, SyncMoves
<1> QED BY <1>1, <1>2 DEF Right

\* The column is set to 0 on the way.
LEMMA SyncFirst ==
    ASSUME CInv, Cursor, Buffers, vga' = [vga EXCEPT !.g_ScreenX = 0],
           pc \in Put0, pc' \in Put0 \ {"righted"}
    PROVE  Cursor' /\ Buffers'
<1>1. 0 \in Int /\ 0 >= 0 /\ vga.g_ScreenY \in Int
  BY AtPlace
<1>2. Moves(vga', vga, 0, vga.g_ScreenY)
  BY <1>1, AtPlace, SetCursor, Zenon
<1> QED BY <1>1, <1>2, SyncMoves, Zenon

\* The row is set.
LEMMA SyncRow ==
    ASSUME CInv, Cursor, Buffers, NEW y \in Int, vga' = [vga EXCEPT !.g_ScreenY = y],
           \/ pc \in Put0 /\ pc' \in Put0 \ {"righted"}
           \/ pc = "upped" /\ pc' = "head"
    PROVE  Cursor' /\ Buffers'
<1>1. vga.g_ScreenX \in Int /\ vga.g_ScreenX >= 0
  BY AtPlace DEF Cursor
<1>2. Moves(vga', vga, vga.g_ScreenX, y)
  BY <1>1, AtPlace, SetCursor, Zenon
<1> QED BY <1>1, <1>2, SyncMoves, Zenon

LEMMA SyncReturn == ASSUME CInv, Cursor, Buffers, Return PROVE Cursor' /\ Buffers'
BY SyncFirst DEF Return, Stores, Goes, Put0

LEMMA SyncNewLine == ASSUME CInv, Cursor, Buffers, NewLine PROVE Cursor' /\ Buffers'
<1>1. CASE Stores("switch", "down", [vga EXCEPT !.g_ScreenX = 0])
  BY <1>1, SyncFirst DEF Stores, Goes, Put0
<1>2. CASE Loads("down", "downed", vga.g_ScreenY)
  BY <1>2, SyncSame DEF Loads, Goes, Put0
<1>3. CASE Stores("downed", "wrap", [vga EXCEPT !.g_ScreenY = tmp + 1])
  <2>1. pc = "downed" /\ pc' = "wrap" /\ vga' = [vga EXCEPT !.g_ScreenY = tmp + 1]
    BY <1>3 DEF Stores, Goes
  <2>2. tmp + 1 \in Int
    BY <2>1, AtPlace DEF CInv, Register
  <2>3. pc \in Put0 /\ pc' \in Put0 \ {"righted"}
    BY <2>1 DEF Put0
  <2> QED BY <2>1, <2>2, <2>3, SyncRow
<1> QED BY <1>1, <1>2, <1>3 DEF NewLine

LEMMA SyncTabTurn == ASSUME CInv, Cursor, Buffers, TabTurn PROVE Cursor' /\ Buffers'
<1>1. UNCHANGED <<vga, maxOffset>> /\ pc \in {"switch", "tab"} /\ pc' \in {"tab", "putc", "wrap"}
  BY DEF TabTurn
<1>2. pc \in Put0 /\ pc' \in (Put0 \ {"righted"}) \cup {"idle", "putc"}
  BY <1>1 DEF Put0
<1> QED BY <1>1, <1>2, SyncSame

LEMMA SyncWrap == ASSUME CInv, Cursor, Buffers, Wrap PROVE Cursor' /\ Buffers'
<1>1. CASE Stores("wrap", "scroll", vga) \/ Stores("wrap", "wrapping", vga)
           \/ Loads("wrapping", "wrapped", vga.g_ScreenY)
  <2>1. /\ UNCHANGED <<vga, maxOffset>>
        /\ pc \in {"wrap", "wrapping"} /\ pc' \in {"scroll", "wrapping", "wrapped"}
    BY <1>1 DEF Stores, Loads, Goes
  <2>2. pc \in Put0 /\ pc' \in (Put0 \ {"righted"}) \cup {"idle", "putc"}
    BY <2>1 DEF Put0
  <2> QED BY <2>1, <2>2, SyncSame
<1>2. CASE Stores("wrapped", "first", [vga EXCEPT !.g_ScreenY = tmp + 1])
  <2>1. pc = "wrapped" /\ pc' = "first" /\ vga' = [vga EXCEPT !.g_ScreenY = tmp + 1]
    BY <1>2 DEF Stores, Goes
  <2>2. tmp + 1 \in Int
    BY <2>1, AtPlace DEF CInv, Register
  <2>3. pc \in Put0 /\ pc' \in Put0 \ {"righted"}
    BY <2>1 DEF Put0
  <2> QED BY <2>1, <2>2, <2>3, SyncRow
<1>3. CASE Stores("first", "scroll", [vga EXCEPT !.g_ScreenX = 0])
  BY <1>3, SyncFirst DEF Stores, Goes, Put0
<1> QED BY <1>1, <1>2, <1>3 DEF Wrap

LEMMA SyncScroll == ASSUME CInv, Cursor, Buffers, Scroll PROVE Cursor' /\ Buffers'
<1>1. CASE Stores("scroll", "done", vga) \/ Stores("scroll", "rows", vga)
  <2>1. UNCHANGED <<vga, maxOffset>> /\ pc = "scroll" /\ pc' \in {"done", "rows"}
    BY <1>1 DEF Stores, Goes
  <2>2. pc \in Put0 /\ pc' \in (Put0 \ {"righted"}) \cup {"idle", "putc"}
    BY <2>1 DEF Put0
  <2> QED BY <2>1, <2>2, SyncSame
<1>2. CASE Stores("rows", "up", RowsUp(vga))
  <2>1. pc = "rows" /\ pc' = "up" /\ vga' = RowsUp(vga)
    BY <1>2 DEF Stores, Goes
  <2>2. ViewShown(vga) /\ LinesPast(vga) /\ vga.g_ViewOffset = 0
    BY <2>1 DEF Cursor, Buffers, Put0, Half
  <2>3. HalfShown(vga') /\ vga'.g_ViewOffset = 0 /\ vga'.g_ScreenX = vga.g_ScreenX
    BY <2>1, <2>2, AtPlace, RowsUpShown, RowsUpKeeps DEF SameCursor
  <2> QED BY <2>1, <2>3 DEF Cursor, Buffers, Put0, Half
<1>3. CASE Loads("up", "upped", vga.g_ScreenY)
  BY <1>3, SyncSame DEF Loads, Goes
<1>4. CASE Stores("upped", "head", [vga EXCEPT !.g_ScreenY = tmp - 1])
  <2>1. pc = "upped" /\ pc' = "head" /\ vga' = [vga EXCEPT !.g_ScreenY = tmp - 1]
    BY <1>4 DEF Stores, Goes
  <2>2. tmp - 1 \in Int
    BY <2>1, AtPlace DEF CInv, Register
  <2> QED BY <2>1, <2>2, SyncRow
<1>5. CASE Stores("head", "done", HeadOn(vga))
  <2>1. pc = "head" /\ pc' = "done" /\ vga' = HeadOn(vga)
    BY <1>5 DEF Stores, Goes
  <2>2. HalfShown(vga) /\ vga.g_ViewOffset = 0
    BY <2>1 DEF Cursor, Buffers, Half
  <2>3. /\ ViewShown(vga') /\ LinesPast(vga')
        /\ vga'.g_ViewOffset = 0 /\ vga'.g_ScreenX = vga.g_ScreenX
    BY <2>1, <2>2, AtPlace, HeadOnShown, HeadOnKeeps DEF SameCursor
  <2> QED BY <2>1, <2>3 DEF Cursor, Buffers, Put0, Half
<1> QED BY <1>1, <1>2, <1>3, <1>4, <1>5 DEF Scroll

LEMMA SyncDone == ASSUME CInv, Cursor, Buffers, Done PROVE Cursor' /\ Buffers'
<1>1. UNCHANGED <<vga, maxOffset>> /\ pc = "done" /\ pc' \in {"tab", "idle"}
  BY DEF Done
<1>2. pc \in Put0 /\ pc' \in (Put0 \ {"righted"}) \cup {"idle", "putc"}
  BY <1>1 DEF Put0
<1> QED BY <1>1, <1>2, SyncSame

\* A store into the view.
LEMMA SyncView ==
    ASSUME CInv, Cursor, Buffers, NEW o \in Int, vga' = [vga EXCEPT !.g_ViewOffset = o],
           UNCHANGED maxOffset,
           \/ pc = "paged_up" /\ pc' = "top" /\ o > 0
           \/ pc = "top" /\ pc' = "render" /\ o > 0
           \/ pc = "paged_down" /\ pc' = "bottom"
           \/ pc = "bottom" /\ pc' = "show"
    PROVE  Cursor' /\ Buffers'
<1>1. /\ vga'.g_ViewOffset = o /\ vga'.g_ScreenX = vga.g_ScreenX
      /\ LinesPast(vga') = LinesPast(vga)
  BY AtPlace, SetView, SameShown
<1> QED BY <1>1 DEF Cursor, Buffers, Put0, Half

\* The shadow is rendered where the view is not the live one.
LEMMA SyncRender ==
    ASSUME CInv, Cursor, Buffers, vga' = sb_render(vga), vga.g_ViewOffset # 0,
           pc \in {"render", "show"}, pc' = "idle"
    PROVE  Cursor' /\ Buffers'
<1>1. /\ vga'.g_ViewOffset = vga.g_ViewOffset /\ vga'.g_ScreenX = vga.g_ScreenX
      /\ LinesPast(vga') = LinesPast(vga)
  BY AtPlace, RenderKeeps, SameShown DEF SameCursor
<1> QED BY <1>1 DEF Cursor, Buffers, Put0, Half

LEMMA SyncVGA_ScrollUp == ASSUME CInv, Cursor, Buffers, VGA_ScrollUp PROVE Cursor' /\ Buffers'
<1>1. CASE /\ pc = "idle"
           /\ vga.g_SBCount > 0
           /\ pc' = "pageup"
           /\ maxOffset' = vga.g_SBCount
           /\ UNCHANGED <<vga, ch, tab, tmp, torn>>
  BY <1>1, SyncSame
<1>2. CASE Loads("pageup", "paged_up", vga.g_ViewOffset)
  BY <1>2, SyncSame DEF Loads, Goes
<1>3. CASE Stores("paged_up", "top", [vga EXCEPT !.g_ViewOffset = tmp + PAGE])
  <2>1. /\ pc = "paged_up" /\ pc' = "top" /\ vga' = [vga EXCEPT !.g_ViewOffset = tmp + PAGE]
        /\ UNCHANGED maxOffset
    BY <1>3 DEF Stores, Goes
  <2>2. tmp + PAGE \in Int /\ tmp + PAGE > 0
    BY <2>1, AtPlace, ConsoleAssumption DEF CInv, Register
  <2> QED BY <2>1, <2>2, SyncView
<1>4. CASE Stores("top", "render", [vga EXCEPT !.g_ViewOffset =
                                   IF @ > maxOffset THEN maxOffset ELSE @])
  <2> DEFINE o == IF vga.g_ViewOffset > maxOffset THEN maxOffset ELSE vga.g_ViewOffset
  <2>1. /\ pc = "top" /\ pc' = "render" /\ vga' = [vga EXCEPT !.g_ViewOffset = o]
        /\ UNCHANGED maxOffset
    BY <1>4, Zenon DEF Stores, Goes
  <2>2. maxOffset \in 0 .. Kept /\ maxOffset > 0 /\ vga.g_ViewOffset > 0
    BY <2>1 DEF CInv, Locals, Cursor
  <2>3. o \in Int /\ o > 0
    BY <2>2, AtPlace
  <2> HIDE DEF o
  <2> QED BY <2>1, <2>3, SyncView
<1>5. CASE Render("render")
  <2>1. pc = "render" /\ pc' = "idle" /\ vga' = sb_render(vga)
    BY <1>5 DEF Render, Stores, Goes
  <2>2. vga.g_ViewOffset # 0
    BY <2>1 DEF Cursor
  <2> QED BY <2>1, <2>2, SyncRender
<1> QED BY <1>1, <1>2, <1>3, <1>4, <1>5 DEF VGA_ScrollUp

LEMMA SyncVGA_ScrollDown == ASSUME CInv, Cursor, Buffers, VGA_ScrollDown PROVE Cursor' /\ Buffers'
<1>1. CASE Loads("idle", "paged_down", vga.g_ViewOffset)
  BY <1>1, SyncSame DEF Loads, Goes
<1>2. CASE Stores("paged_down", "bottom", [vga EXCEPT !.g_ViewOffset = tmp - PAGE])
  <2>1. /\ pc = "paged_down" /\ pc' = "bottom" /\ vga' = [vga EXCEPT !.g_ViewOffset = tmp - PAGE]
        /\ UNCHANGED maxOffset
    BY <1>2 DEF Stores, Goes
  <2>2. tmp - PAGE \in Int
    BY <2>1, AtPlace DEF CInv, Register
  <2> QED BY <2>1, <2>2, SyncView
<1>3. CASE Stores("bottom", "show", [vga EXCEPT !.g_ViewOffset = IF @ < 0 THEN 0 ELSE @])
  <2> DEFINE o == IF vga.g_ViewOffset < 0 THEN 0 ELSE vga.g_ViewOffset
  <2>1. /\ pc = "bottom" /\ pc' = "show" /\ vga' = [vga EXCEPT !.g_ViewOffset = o]
        /\ UNCHANGED maxOffset
    BY <1>3, Zenon DEF Stores, Goes
  <2>2. o \in Int
    BY AtPlace
  <2> HIDE DEF o
  <2> QED BY <2>1, <2>2, SyncView
<1>4. CASE vga.g_ViewOffset # 0 /\ Render("show")
  BY <1>4, SyncRender DEF Render, Stores, Goes
<1>5. CASE /\ vga.g_ViewOffset = 0
           /\ Stores("show", "idle", [vga EXCEPT !.g_ScreenBuffer = Live(vga)])
  <2>1. /\ pc = "show" /\ pc' = "idle" /\ vga' = [vga EXCEPT !.g_ScreenBuffer = Live(vga)]
    BY <1>5 DEF Stores, Goes
  <2>2. /\ vga'.g_ScreenX = vga.g_ScreenX /\ SameShadow(vga', vga) /\ ViewShown(vga')
    BY <2>1, AtPlace, ScreenSet, LiveTyped, LiveIsShown DEF SameCursor
  <2> QED BY <2>1, <2>2, SameShown DEF Cursor, Buffers, Put0, Half
<1> QED BY <1>1, <1>2, <1>3, <1>4, <1>5 DEF VGA_ScrollDown

LEMMA SyncBackspace == ASSUME CInv, Cursor, Buffers, Backspace PROVE Cursor' /\ Buffers'
<1>1. CASE Stores("idle", IF vga.g_ScreenX > 0 THEN "left" ELSE "erase", vga)
  BY <1>1, SyncSame DEF Stores, Goes
<1>2. CASE Loads("left", "lefted", vga.g_ScreenX)
  BY <1>2, SyncSame DEF Loads, Goes
<1>3. CASE Stores("lefted", "erase", [vga EXCEPT !.g_ScreenX = tmp - 1])
  <2>1. pc = "lefted" /\ pc' = "erase" /\ vga' = [vga EXCEPT !.g_ScreenX = tmp - 1]
    BY <1>3 DEF Stores, Goes
  <2>2. tmp \in 0 .. SCREEN_WIDTH - 1 /\ tmp > 0 /\ tmp - 1 \in Int /\ tmp - 1 >= 0
    BY <2>1, AtPlace DEF CInv, Register, Cursor
  <2>3. Moves(vga', vga, tmp - 1, vga.g_ScreenY) /\ vga.g_ScreenY \in Int
    BY <2>1, <2>2, AtPlace, SetCursor
  <2> QED BY <2>1, <2>2, <2>3, SyncMoves
<1>4. CASE Stores("erase", "idle", VGA_putchr(vga, vga.g_ScreenX, vga.g_ScreenY, Blank))
  <2> DEFINE u == VGA_putchr(vga, vga.g_ScreenX, vga.g_ScreenY, Blank)
  <2>1. pc = "erase" /\ pc' = "idle" /\ vga' = u /\ Blank \in Glyph
    BY <1>4 DEF Stores, Goes, Glyph
  <2>2. /\ u.g_ScreenX = vga.g_ScreenX /\ u.g_ViewOffset = vga.g_ViewOffset
        /\ LinesPast(u) /\ (vga.g_ViewOffset = 0 => ViewShown(u))
    BY <2>1, SyncCell
  <2> HIDE DEF u
  <2> QED BY <2>1, <2>2 DEF Cursor, Buffers, Put0, Half
<1> QED BY <1>1, <1>2, <1>3, <1>4 DEF Backspace

\* Only clearing the screen begins with tearing, and only it goes on from there.
LEMMA SyncClear == ASSUME CInv, Cursor, ~torn, ~torn', Clear PROVE FALSE
BY DEF Clear, Goes, Stores, Cursor

LEMMA SInductive == CInv /\ SInv /\ [Next]_vars => SInv'
<1> SUFFICES ASSUME CInv, SInv, [Next]_vars, ~torn' PROVE Cursor' /\ Buffers'
  BY DEF SInv
<1>1. ~torn
  BY DEF Next, Task, Put, Snap, PutChar, Right, Return, NewLine, TabTurn, Wrap, Scroll, Done,
         Clear, VGA_ScrollUp, VGA_ScrollDown, Backspace, Render, Echo, Goes, Stores, Loads, vars
<1>2. Cursor /\ Buffers
  BY <1>1 DEF SInv
<1>3. CASE UNCHANGED vars
  BY <1>2, <1>3 DEF vars, Cursor, Buffers
<1>4. ASSUME NEW c \in Char \cup {NL, CR, HT}, Put(c) PROVE Cursor' /\ Buffers'
  BY <1>2, <1>4, SyncSame DEF Put
<1>5. CASE Task
  BY <1>1, <1>2, <1>4, <1>5, SyncSnap, SyncPutChar, SyncRight, SyncReturn, SyncNewLine,
     SyncTabTurn, SyncWrap, SyncScroll, SyncDone, SyncClear, SyncVGA_ScrollUp,
     SyncVGA_ScrollDown, SyncBackspace DEF Task
<1>6. CASE Echo
  BY <1>1, <1>2, <1>6, SyncEcho
<1> QED BY <1>3, <1>5, <1>6 DEF Next

\* What is on the screen in the live view is what the shadow has of it, and the lines
\* that have scrolled off are those that can be scrolled back to, for every size of
\* both: until a key is echoed into an operation, or the screen is cleared
\* (vga_text.c:39-75, 125-153).
THEOREM ShadowStaysKept == Spec => []ShadowKept
<1>1. CInv /\ SInv => ShadowKept
  <2> SUFFICES ASSUME CInv, SInv PROVE ShadowKept
    OBVIOUS
  <2>1. ASSUME pc = "idle", ~torn, vga.g_ViewOffset = 0 PROVE vga.g_ScreenBuffer = Live(vga)
    <3>1. ViewShown(vga) /\ vga.g_ScreenBuffer \in [Cell -> Glyph]
      BY <2>1, AtPlace DEF SInv, Buffers, Globals
    <3>2. \A k \in Cell : Live(vga)[k] = vga.g_SBuf[sb_cell(vga.g_SBHead + Row(k), Column(k))]
      BY Zenon DEF Live
    <3>3. \A k \in Cell : vga.g_ScreenBuffer[k] = Live(vga)[k]
      BY <3>1, <3>2, Zenon DEF ViewShown, Shown
    <3>4. Live(vga) \in [Cell -> Glyph]
      BY AtPlace, LiveTyped
    <3> HIDE DEF ViewShown
    <3> QED BY <3>1, <3>3, <3>4
  <2>2. ASSUME pc = "idle", ~torn
        PROVE  /\ Len(vga.gone) = vga.g_SBCount
               /\ \A n \in DOMAIN vga.gone : \A x \in 0 .. SCREEN_WIDTH - 1 :
                     vga.gone[n][x]
                       = vga.g_SBuf[sb_cell(vga.g_SBHead - vga.g_SBCount + n - 1, x)]
    <3>1. LinesPast(vga) /\ vga.gone \in Seq(Line)
      BY <2>2, AtPlace DEF SInv, Buffers, Half, Globals
    <3>2. Len(vga.gone) = vga.g_SBCount /\ DOMAIN vga.gone = 1 .. vga.g_SBCount
      BY <3>1 DEF LinesPast, Past
    <3> QED BY <3>1, <3>2, Zenon DEF LinesPast, Past, Nth
  <2>3. LiveShown
    BY <2>1 DEF LiveShown
  <2>4. HistoryKept
    BY <2>2, Zenon DEF HistoryKept
  <2> QED BY <2>3, <2>4 DEF ShadowKept
<1> QED BY <1>1, InitSInv, SInductive, ConsoleInvariance, PTL DEF Spec
================================================================================
