SPECIFICATION CardsSpec
CONSTANTS
  pay = pay  city = city  invoice = invoice
  Cards = {pay, city, invoice}
  Typed = {city, invoice}
  Nothing = Nothing
  NoCard = NoCard
  SettledLimit = 1
INVARIANTS CardsTypeOK AnswersCount TerminalAnswersWereMeant CardsOnScreenAreAttended
PROPERTY EveryWaitEnds
CHECK_DEADLOCK FALSE
