SPECIFICATION Spec
CONSTANTS
  Modes <- MCModes
  InitMode <- Square
  Surfaces <- MCSurfaces
  Ops = {"SetGC", "SetPanning", "SetDPMSLevel", "CursorCreate"}
  HasVirgl = TRUE
  HasBlob = TRUE
  MayFail = TRUE
  MayTimeout = TRUE
  MaxCalls = 2
  MaxLate = 2
  None = None
CHECK_DEADLOCK FALSE
INVARIANTS
    NothingDangling
    NothingLeaked
    ModeKept
    PictureSettles
