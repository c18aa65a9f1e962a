SPECIFICATION StorefrontSpec
CONSTANTS
  Sagas = {saga1, saga2}
  Products = {p1, p2}
  SKUs = {sku1, sku2}
  NoVariant = NoVariant
  Accepts = TRUE
  Faults = TRUE
  Readers = {r1}
  Limit = 1
  NoRequest = NoRequest
SYMMETRY Symmetry
INVARIANTS
  StorefrontTypeOK
  StrandedIsReported
  RefusalsChangeNothing
  SteadyShown
  NotFoundIsTrue
  PromiseKept
CHECK_DEADLOCK FALSE
