SPECIFICATION FairSpec
CONSTANTS
  Table <- MCTable
  Edids <- MCEdids
  HostSizes <- MCHostSizes
  Heads = 2
  DtdMax = 3
  HotBase = 7
  HotSlots = 2
  Depths = {8, 32}
  MaxFail = 2
  MaxHost = 3
  Text = Text
  None = None
CHECK_DEADLOCK FALSE
INVARIANTS
    ListSound
    MonitorServed
PROPERTIES
    HostModeListed
