CONSTANTS
    MAX_BOARD_ALLOCS = 4
    MemSize = 12
    Align = 2
    Word = 32
    Tasks = {t1, t2}
    Requests <- MCSmall
    NoTask = NoTask
SPECIFICATION Spec
INVARIANTS
    TableSound
    Coalesced
    UsedAreLive
PROPERTIES
    RefusalJustified
    ImplementsCardMem
