CONSTANTS
  old = old  new = new
  Pages = {html}
  Plain = {}
  Versions <- MCVersions
  Size <- MCSize
  First = old
  NServers = 1
  Holding <- OnlyServer
  Ranged <- OnlyServer
  Attempts = 2
  Resume = TRUE
  MaxFaults = 2
  MaxRuns = 1
SPECIFICATION Safety
INVARIANT
  DeliveredOneVersion
