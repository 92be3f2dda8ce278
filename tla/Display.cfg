CONSTANTS
  Characters = {me, wolf}
  Statics = {door}
  Animated = {human}
  Plain = {}
  Meshes = {crate}
  Broken = {ghost}
  Scenery = {crate}
  Absent = Absent
  MaxShots = 1
SPECIFICATION FairSpec
\* The client may crash.
CHECK_DEADLOCK FALSE
INVARIANTS Inv
PROPERTIES ModelAppears
