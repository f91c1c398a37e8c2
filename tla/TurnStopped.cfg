SPECIFICATION TurnSpec
CONSTANTS
  browse = browse
  app = app
  wait = wait
  Tools = {browse, app}
  Steers = {wait}
  MaxSteps = 1
  MaxTokens = 2
INVARIANTS
  StoppedTurnCarriesItsOwn
CHECK_DEADLOCK FALSE
