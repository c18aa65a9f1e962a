SPECIFICATION SyncSpec
CONSTANTS
  Writers = {w1}
  codeA = codeA
  codeB = codeB
  slugA = slugA
  slugB = slugB
  Codes = {codeA, codeB}
  Slugs = {slugA, slugB}
  Keep = Keep
  Blank = Blank
  Requests <- FewRequests
  MaxProducts = 2
  MaxTime = 3
  PageSize = 1
  MaxRounds = 2
  Never = Never
  Start = Start
INVARIANTS
  ConcurrentUpdatesKept
CHECK_DEADLOCK FALSE
