CONSTANTS
  old = old  new = new
  Pages = {html, text}
  Plain = {text}
  Versions <- MCVersions
  Size <- MCSize
  First = old
  NServers = 3
  Holding <- MCHolding
  Ranged <- MCRanged
  Attempts = 2
  Resume = TRUE
  MaxFaults = 3
  MaxRuns = 2
SPECIFICATION Spec
INVARIANTS
  TypeOK
  PartInOrder
  DeliveredComplete
PROPERTIES
  FaultsSurvived
