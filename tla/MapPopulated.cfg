CONSTANTS
  x = x  y = y
  Stations = {x, y}
  Lists <- MCLists
  MaxSets = 2
  MaxClicks = 1
  MaxReloads = 2
SPECIFICATION Safety
CHECK_DEADLOCK FALSE
INVARIANTS
  MapPopulated
