SPECIFICATION MachineSpec
CONSTANTS
  tui = tui  desktop = desktop  suite = suite  step = step  case = case  work = work
  r1 = r1  r2 = r2  r3 = r3
  Procs = {tui, desktop}  Tasks = {suite, step, case, work}  Runs = {r1, r2, r3}
  HomeOf <- ScreenHomes  RunOf <- ScreenRuns
  NoProc = NoProc  NoTask = NoTask  NoRun = NoRun  NoHold = NoHold  NoRecord = NoRecord
  MaxScope = 2  MaxPid = 1
  terminal = terminal  other = other  command = command
  chat = chat  eval = eval  elsewhere = elsewhere  nav = nav
  Programs = {terminal, other, command}  Browsings = {chat, eval, elsewhere, nav}
  ProgramOf <- BrowserHomes
  Beating = {terminal, other}  Punctual = {other}
  Every = 1  Ttl = 2  Stale = 3  NoOne = NoOne
  Hosts = {terminal, other}  Projects = {launch}  Idle = Idle
  window = window  shell = shell  saving = saving  picker = picker  row = row  cli = cli
  provider = provider  id = id  effort = effort  listening = listening
  inference = inference  models = models  listener = listener
  Fronts = {window, terminal, shell}  Window = window  Terminal = terminal
  Savers = {saving, picker, row, cli}  FrontOf <- SaverHomes  Form = saving  Picker = picker
  Leaves = {provider, id, effort, listening}  SectionOf <- LeafSections  KeyOf <- LeafKeys
  Provider = provider  ModelId = id  Knows <- Builds  Values = {0, 1}  Default = 0
  Unnamed = Unnamed  NoSaver = NoSaver  NoFront = NoFront  MaxAsks = 2  MaxKills = 1
INVARIANTS MachineTypeOK RecordNamesTheOwner HeartbeatsTakeTurns ScheduledUnlessOvertaken SavesAreShown
PROPERTIES KeepsThePromise ClaimsAreKept SavesKeepTheRest HoldsComeToAnEnd
CHECK_DEADLOCK FALSE
