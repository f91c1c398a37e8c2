SPECIFICATION ChromeSpec
CONSTANTS
  form = form  wall = wall  challenge = challenge  pay = pay  amount = amount  next = next  pause = pause
  Surfaces = {form, wall, challenge}
  Identities = {pay, amount, next, pause}
  NoSurface = NoSurface  NoIdentity = NoIdentity
  Offers <- mcOffers
  OffLimits <- mcOffLimits
  Walled = {wall, challenge}
  Fields = {amount}
  Waits = {pause}
  Scrolls = {}
  Worded = {pay}
  MaxDecisions = 3  MaxActions = 3  MaxStale = 2  MaxStrikes = 2
  drive = drive  routine = routine  NoDriver = NoDriver
  Drivers = {drive, routine}
  Script <- mcScript
  Platforms = {"mac"}  Chunks = 2  MaxTables = 1
  b1 = b1  b2 = b2  b3 = b3  p = p  q = q  r = r  NoProcess = NoProcess
  Browsers = {b1, b2}
  ProcessOf <- mcTogether
  Cap = 1  MaxTabs = 3
  turn = turn  login = login  NoCaller = NoCaller
  Callers = {turn, login}
  Kind <- mcKind
  Capacity = 1  MaxPipe = 2  MaxNoise = 1
INVARIANT FoundAgain
CHECK_DEADLOCK FALSE
