SPECIFICATION FairSpec
CONSTANTS
  Painter = Painter
  Mover = Mover
  Tasks <- MCTasks
  Modes = {2, 3}
  Positions = {2}
  Offsets = {0, 3}
  MouseWidth = 2
  QueueNum = 2
  MaxGiveUp = 2
  MaxFail = 1
  None = None
INVARIANTS
    CursorKnown
    ShowsLast
PROPERTIES
    CallsReturn
