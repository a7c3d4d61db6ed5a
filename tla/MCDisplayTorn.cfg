SPECIFICATION Spec
CONSTANTS
  Modes <- MCModes
  InitMode <- Square
  Surfaces <- MCSurfaces
  Ops = {"SetGC"}
  HasVirgl = TRUE
  HasBlob = FALSE
  MayFail = FALSE
  MayTimeout = FALSE
  MaxCalls = 1
  MaxLate = 3
  None = None
INVARIANT NoOverrun
