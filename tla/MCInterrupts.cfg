SPECIFICATION Spec
CONSTANTS
    BIOS_BASE = 8
    PIC_REMAP_OFFSET = 32
    FIFO_SIZE = 2
    TABLE_SIZE = 58
    NoChar = "0"
    Keys <- MCKeys
INVARIANTS
    InterruptsSound
    DecodesRight
PROPERTIES
    KeysAnswered
