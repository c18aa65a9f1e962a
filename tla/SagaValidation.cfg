SPECIFICATION Spec
CONSTANTS
  Sagas = {saga1}
  Products = {p1}
  SKUs = {sku1}
  NoVariant = NoVariant
  Accepts = FALSE
  Faults = FALSE
INVARIANTS
  WellFormedAccepted
CHECK_DEADLOCK FALSE
