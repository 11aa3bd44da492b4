SPECIFICATION LineSpec
CONSTANTS
    KEY_BUFFER_SIZE = 4
    LINE_MAX = 3
    SCREEN_WIDTH = 2
    Char = {a, b, bs, enter, page}
    Backspace = bs
    Enter = enter
    Page = page
    None = None
INVARIANTS
    LineShown
PROPERTIES
    IsQueue
    KeysReachTheShell
