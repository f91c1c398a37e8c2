SPECIFICATION DesktopSpec
CONSTANTS
  Windows = {w1, w2, w3}  NoFile = NoFile
  Requests = {a1, a2}  MaxPending = 1  MaxQueue = 2  MaxFaults = 1
  MaxGenerations = 3  MaxLost = 1  MaxWedges = 1
  LoginIds = {1, 2}  Pastes = {paste1}  Nobody = Nobody  Stranger = Stranger
INVARIANTS DesktopTypeOK DoorHoldsUnlessContested WindowIsRecoverable IdleHoldsNoMicrophone LoginsAreAnswerable
PROPERTY TakenIsGivenBack
CHECK_DEADLOCK FALSE
