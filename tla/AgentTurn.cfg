SPECIFICATION TurnSpec
CONSTANTS
  browse = browse
  app = app
  wait = wait
  Tools = {browse, app}
  Steers = {wait}
  MaxSteps = 1
  MaxTokens = 2
INVARIANTS
  TurnTypeOK
  CardsKeepTheirPlace
  NoOrphanedCalls
  SlicesAreTold
  StoredIsAPrefix
PROPERTIES
  TurnReturns
CHECK_DEADLOCK FALSE
