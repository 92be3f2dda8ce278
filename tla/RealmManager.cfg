\* Two workers, three realms of which two share a name.  No symmetry: liveness.
CONSTANTS
  Threads = {t1, t2}
  r1 = r1
  r2 = r2
  r3 = r3
  n1 = n1
  n2 = n2
  Realms = {r1, r2, r3}
  Names = {n1, n2}
  RealmName <- SharedName
  NoRealm = NoRealm
  NoThread = NoThread
SPECIFICATION FairManagerSpec
INVARIANTS ManagerInv
PROPERTIES ImplementsOwnership EveryRealmRuns StopEnds DestroyedInTheEnd
