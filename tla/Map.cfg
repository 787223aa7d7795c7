CONSTANTS
  x = x  y = y
  Stations = {x, y}
  Lists <- MCLists
  MaxSets = 2
  MaxClicks = 1
  MaxReloads = 2
SPECIFICATION Spec
CHECK_DEADLOCK FALSE
INVARIANTS
  TypeOK
  NativeIsCurrent
  PageFollows
PROPERTIES
  BackendSettles
