CONSTANTS
  x = x  z = z  code = code  bkg = bkg  epn = epn  rgp = rgp  builtin = builtin  igs = igs  europe = europe  eu = eu  fr = fr
  d1 = d1  q1 = q1  q2 = q2  session = session  region = region
  None = None  Failed = Failed  Main = Main
  Ids = {x, z}
  Codes = {code}
  Providers = {bkg, epn, rgp, builtin}
  Builtin = builtin
  Networks = {igs, europe}
  Sources = {eu, fr}
  SourceOf <- MCSourceOf
  Domes = {d1}
  Coords = {q1, q2}
  Authority = {}
  Jobs = {session, region}
  Network <- MCNetwork
  Line <- MCLine
  Forced = {session}
  Seeds <- MCSeeds
  Live <- MCLive
  Fallback <- MCFallback
  Threads = 2
  MaxStarts = 2
  MaxCrashes = 1
SPECIFICATION Spec
INVARIANTS
  TypeOK
  NoDangling
  PayloadsAgree
  QuietPageCurrent
PROPERTIES
  OthersUntouched
  ListExact
  PublishedResolves
  RefreshEnds
