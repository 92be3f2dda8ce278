\* One player that moves between two realms; a failing write, a crash or a clean
\* exit, and a restart.
CONSTANTS
  Names = {n1}
  Realms = {rA, rB}
  SpawnRealm = rA
  NoRealm = NoRealm
  NoFile = NoFile
  Missing = Missing
  Empty = Empty
  Away = Away
  Cooldown = 0
  SaveInterval = 1
  MaxTick = 2
  MaxProgress = 2
  MaxFaults = 1
  MaxRestarts = 1
SPECIFICATION Spec
INVARIANTS Inv NoFutureStamps
PROPERTY ImplementsStore
\* The bounds on ticks and restarts.
CHECK_DEADLOCK FALSE
