SPECIFICATION FairSpec
CONSTANTS
  Handlers = {h1, h2}
  SKUs = {sku1}
  ReservationIDs = {id1, id2}
  Deltas <- SmallDeltas
  Quantities <- SmallQuantities
  SeedQuantities = {1, 2}
  MaxInt = 3
INVARIANTS
  TypeOK
  OneWriter
  NoLostUpdate
  NoDeadlyEmbrace
  ReservedIsHeld
  NeverOverdrawn
PROPERTIES
  UnitsConserved
  ImplementsLedger
  EveryCallAnswered
