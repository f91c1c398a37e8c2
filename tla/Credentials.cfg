SPECIFICATION CredentialsSpec
CONSTANTS
  here = here
  there = there
  turn1 = turn1
  turn2 = turn2
  turn3 = turn3
  signer = signer
  leaver = leaver
  checker = checker
  abroad = abroad
  Clients = {here, there}
  Callers <- Everybody
  ClientOf <- CallerHomes
  KindOf <- Kind
  NoCaller = NoCaller
  MaxToken = 3
  w1 = w1
  w2 = w2
  w3 = w3
  neo = neo
  other = other
  openai = openai
  anthropic = anthropic
  turn = turn
  screen = screen
  upkeep = upkeep
  shell = shell
  Writers = {w1, w2, w3}
  Procs = {here, there}
  HomeOf <- WriterHomes
  Items <- ThreeItems
  Secrets = {s1}
  Missing = Missing
  Broken = Broken
  Nobody = Nobody
  Programs = {here, there}
  Tasks = {turn, screen, upkeep, shell}
  ProgramOf <- TaskHomes
  OpsOf <- TaskOps
  Keys = {k1, k2}
  NoKey = NoKey
  Unread = Unread
  EnvKey = NoKey
  Imported = k2
SYMMETRY Alike
INVARIANTS CredentialsTypeOK GatedTurnsDoNotRace CacheFollowsTheStore
PROPERTY WritesTouchOneItem
CHECK_DEADLOCK FALSE
