\* Two entities, two events, all ticks up to 3.
CONSTANTS
  Entities = {e1, e2}
  Events = {x1, x2}
  NoEntity = NoEntity
  NoEvent = NoEvent
  Limit = 2
  MaxTick = 3
SPECIFICATION FairSpec
INVARIANTS Inv
PROPERTIES EventsOnTime ImplementsTimer EpochEnds EventEventuallyRuns
\* The horizon MaxTick ends the run.
CHECK_DEADLOCK FALSE
