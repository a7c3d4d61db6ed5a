SPECIFICATION Spec
CONSTANTS
  Layouts <- MCLayouts
  MaxLate = 2
INVARIANT FailureReleasesAll
CHECK_DEADLOCK FALSE
