\* A connection that goes away while its player is on its way to a realm.
CONSTANTS
  Peers = {p1}
  Names = {n1}
  Realms = {rA, rB}
  NotLoaded = NotLoaded
  NoPeer = NoPeer
  NoName = NoName
  NoRealm = NoRealm
  MaxTeleports = 2
SPECIFICATION Spec
INVARIANT EntriesHaveData
CHECK_DEADLOCK FALSE
