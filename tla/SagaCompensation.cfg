SPECIFICATION Spec
CONSTANTS
  Sagas = {saga1}
  Products = {p1}
  SKUs = {sku1}
  NoVariant = NoVariant
  Accepts = TRUE
  Faults = FALSE
INVARIANTS
  AllOrNothing
CHECK_DEADLOCK FALSE
