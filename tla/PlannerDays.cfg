CONSTANTS
  a = a  b = b  c = c  g = g  s1 = s1  s2 = s2  epn = epn  rgna = rgna  bkg = bkg  ign = ign  geo = geo
  europe = europe  japan = japan  eu = eu  mx = mx  orbit = orbit  clock = clock
  final = final  rapid = rapid  igs = igs  cod = cod
  i1 = i1  i2 = i2  i3 = i3  i4 = i4  i5 = i5  i6 = i6
  None = None
  Stations = {a, b, c, g, s1, s2}
  Providers = {epn, rgna, bkg, ign, geo}
  Priority <- MCPriority
  Regions = {europe, japan}
  Members <- MCMembers
  SourceOf <- MCSourceOf
  Known <- MCKnown
  Mixed = TRUE
  Requests <- MCDays
  Offer <- MCOffer
  Rank <- MCRank
  Short <- MCShort
  Registered <- MCRegistered
  ProductPriority <- MCPriority
  Capable <- MCCapable
  Passthrough = {rgna}
  Directory = {rgna}
  Epn = epn
  OnDisk <- MCOnDisk
  Unsafe = {i6}
  Workers = 2
  PerProvider = 1
SPECIFICATION Safety
INVARIANTS
  EveryDayPlanned
