\* Teleports ordered while a player is on its way: the assertion of ConnectPeer.
CONSTANTS
  Peers = {p1}
  Names = {n1}
  Realms = {rA, rB}
  NotLoaded = NotLoaded
  NoPeer = NoPeer
  NoName = NoName
  NoRealm = NoRealm
  MaxTeleports = 2
SPECIFICATION SpecAnyTeleport
INVARIANT ConnectsOnlyOnce
CHECK_DEADLOCK FALSE
