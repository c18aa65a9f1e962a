SPECIFICATION Spec
CONSTANTS
  Admins = {a1, a2}
  Pages = {p1}
  NoRow = NoRow
  MaxInt = 3
  Capacity = 1
  Typed = {0, 2, 8}
  Deltas <- SmallDeltas
  MaxMoves = 2
INVARIANTS
  TypeOK
  StaleForAReason
  EditLands
CHECK_DEADLOCK FALSE
