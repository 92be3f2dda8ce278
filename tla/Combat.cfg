\* One player, and a spawner with two mobs to give birth to.
CONSTANTS
  Players = {p1}
  Mobs = {m1, m2}
  AttackCooldown = 0
  AttackIds = {0, 1}
  RegenCooldown = 3
  RegenAmount = 2
  MinWait = 2
  SpawnCooldown = 1
  MaxAmount = 1
  XpStep = 1
  PlayerHealth = 2
  MobHealth = 2
  MobLevel = 3
  MaxLevel = 2
  MaxRequests = 1
SPECIFICATION FairSpec
\* A player may be killed, which ends the server.
CHECK_DEADLOCK FALSE
INVARIANTS Inv
PROPERTIES SpawnsWithinLimit SpawnerRefills WoundsHeal
