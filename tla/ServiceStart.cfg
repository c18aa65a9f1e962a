SPECIFICATION FairSpec
CONSTANTS
  Inventories = {i1, i2}
  Catalogs = {c1, c2}
  Gateways = {g1}
  SKUs = {sku1, sku2}
  VariantSKUs = {sku1, sku2}
  Keycloak = TRUE
  MaxFaults = 1
  MaxDeletes = 1
INVARIANTS
  TypeOK
  MissingIsPending
  StartedInOrder
PROPERTIES
  EventuallyServing
CHECK_DEADLOCK FALSE
