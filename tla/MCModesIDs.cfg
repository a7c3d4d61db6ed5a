SPECIFICATION Spec
CONSTANTS
  Table <- MCTable
  Edids <- MCEdids
  HostSizes <- MCHostSizes
  Heads = 2
  DtdMax = 3
  HotBase = 7
  HotSlots = 1
  Depths = {8, 32}
  MaxFail = 1
  MaxHost = 3
  Text = Text
  None = None
INVARIANT DisplayIDsUnique
CHECK_DEADLOCK FALSE
