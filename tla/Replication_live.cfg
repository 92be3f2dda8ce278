SPECIFICATION LiveSpec
CONSTANTS
  Realms = {r1, r2}
  Ids = {i1, i2}
  NoRealm = NoRealm
  NoId = NoId
  MaxMessages = 4
  MaxEntities = 2
PROPERTIES  GhostsGo ControlIsGained
CHECK_DEADLOCK FALSE
