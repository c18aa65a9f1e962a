SPECIFICATION SyncSpec
CONSTANTS
  Writers = {w1}
  codeA = codeA
  codeB = codeB
  slugA = slugA
  slugB = slugB
  Codes = {codeA, codeB}
  Slugs = {slugA, slugB}
  Keep = Keep
  Blank = Blank
  Requests <- FewRequests
  MaxProducts = 2
  MaxTime = 2
  PageSize = 1
  MaxRounds = 2
  Never = Never
  Start = Start
INVARIANTS
  SyncTypeOK
  SteadyRowsDelivered
  NothingRepeated
  OnlyInFlightLost
CHECK_DEADLOCK FALSE
