SPECIFICATION Spec
CONSTANTS
  Size = 54
  A = A
  B = B
  Bitmaps = {A, B}
  Base <- MCBase
  Stride <- MCStride
  Width = 4
  Height = 3
  Depths = {1, 2}
  Long = 2
  Screen = A
  ActiveW = 3
  ActiveH = 2
  Ops = {"BlitRect", "NoMaskComplete", "FillRect", "InvertRect", "Expand", "DrawLine"}
CHECK_DEADLOCK FALSE
INVARIANT CallerGuarantee
