SPECIFICATION Spec
CONSTANTS
  Layouts <- MCLayouts
  MaxLate = 2
INVARIANTS
    UnwindSafe
    NothingLeaked
    PublishedComplete
    BarsDecodable
