CONSTANTS
  \* Three cells, the middle one of which is in the trigger's box.
  Width = 2
  Zone = {1}
  Starts = {0}
  Directions = {0, 1}
  Reach = 2
  SendDelay = 2
  JumpTicks = 2
  MaxInFlight = 2
  \* Seven ticks, of which the past may hold two states.
  HistoryLimit = 1
  HistoryKept = 1
  UpdateDelay = 1
  Parts = 2
  Float <- MCFloat
  Significand = 8
  Positions = {p, q}
  LastTick = 5
  MaxBehind = 2
  \* Three bodies, between which a ray tells two units of distance apart.
  RayLength = 4
  Precision = 2
  Way = 1
  StepHeight = 1
  Slack = 0
  Bodies = {1, 2, 3}
  Statics = {1, 2}
SPECIFICATION MCSpec
\* A refused update ends the server, and the ticks of another character end.
CHECK_DEADLOCK FALSE
INVARIANTS Inv HistoryInv AnswersAreRight
PROPERTIES StopsTogether
