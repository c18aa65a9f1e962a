SPECIFICATION FairSpec
CONSTANTS
  Writers = {w1, w2}
  codeA = codeA
  codeB = codeB
  slugA = slugA
  slugB = slugB
  Codes = {codeA, codeB}
  Slugs = {slugA, slugB}
  Keep = Keep
  Blank = Blank
  Requests <- FewRequests
  MaxProducts = 2
  MaxTime = 1
INVARIANTS
  DeadlocksAreEdits
PROPERTIES
  NoClobberedEdit
  ImplementsTable
  EveryRequestAnswered
