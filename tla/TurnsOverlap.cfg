SPECIFICATION OverlapSpec
CONSTANTS
  t1 = t1
  t2 = t2
  m1 = m1
  m2 = m2
  c1 = c1
  c2 = c2
  Turns = {t1, t2}
  Typed = {m1, m2}
  Words = {"yes", "no"}
  Conversations = {c1, c2}
  Blank = c1
  Ui = "ui"
  None = "none"
  Publishers = {t1, t2, "ui"}
  Capacity = 2
  MaxCalls = 2
SYMMETRY Interchangeable
INVARIANTS TurnsDoNotOverlap
CHECK_DEADLOCK FALSE
