\* Two connections and two names; two realms, two teleports.
CONSTANTS
  Peers = {p1, p2}
  Names = {n1, n2}
  Realms = {rA, rB}
  NotLoaded = NotLoaded
  NoPeer = NoPeer
  NoName = NoName
  NoRealm = NoRealm
  MaxTeleports = 2
SPECIFICATION FairSpec
INVARIANTS Inv ConnectsOnlyOnce
PROPERTIES ImplementsPresence DisconnectedIsForgotten
\* Everybody has disconnected, or the process has died.
CHECK_DEADLOCK FALSE
