SPECIFICATION Spec
CONSTANTS
  f1 = f1
  f2 = f2
  sku1 = sku1
  sku2 = sku2
  Files <- TwoFiles
  SKUs <- TwoSKUs
  Listed <- Overlapping
  NoFile = NoFile
  NoSKU = NoSKU
  MaxRuns = 2
INVARIANTS
  TypeOK
  HalfSeededWasReported
PROPERTIES
  RunEnds
CHECK_DEADLOCK FALSE
