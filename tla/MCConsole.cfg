CONSTANTS
    SCREEN_WIDTH = 2
    SCREEN_HEIGHT = 2
    SCROLLBACK_LINES = 5
    TAB = 2
    PAGE = 1
    Blank = Blank
    NL = NL
    CR = CR
    HT = HT
    a = a
    MaxHead = 7
    Char <- MCChar
SPECIFICATION Spec
CONSTRAINT Bounded
VIEW Seen
INVARIANTS
    CursorSound
    ShadowKept
