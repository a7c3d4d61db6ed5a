CONSTANTS
    MAX_BOARD_ALLOCS = 4
    MemSize = 12
    Align = 2
    Word = 32
    Tasks = {t1}
    Requests <- MCHuge
    NoTask = NoTask
SPECIFICATION Spec
INVARIANT SlotTableSorted
