SPECIFICATION Spec
CONSTANTS
  Realms = {r1, r2}
  Ids = {i1, i2}
  NoRealm = NoRealm
  NoId = NoId
  MaxMessages = 5
  MaxEntities = 3
SYMMETRY Symmetry
INVARIANTS Inv OwnRealmOnly NothingMissing DeathIsFinal
CHECK_DEADLOCK FALSE
