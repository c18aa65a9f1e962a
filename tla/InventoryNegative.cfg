SPECIFICATION Spec
CONSTANTS
  Handlers = {h1}
  SKUs = {sku1}
  ReservationIDs = {id1, id2}
  Deltas = {1}
  Quantities <- SignedQuantities
  SeedQuantities = {0, 1}
  MaxInt = 3
INVARIANTS
  NeverOverdrawn
