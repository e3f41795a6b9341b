CONSTANTS
  Actors = {a1, a2}
  Keys = {k1, k2, k3, k4}
  ItemIds = {i1, i2}
  RelationIds = {r1}
  MaxItems = 2
  MaxRelations = 1
  MaxKeys = 3
  RaceRevisions = 2
  NoRequest = NoRequest
SPECIFICATION MCSpec
SYMMETRY Symmetry
INVARIANTS
  LockableUntilFull
  NoUpdateLost
PROPERTIES
  ImplementsSealableLog
