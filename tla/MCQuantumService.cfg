SPECIFICATION FairSpec
CONSTANTS
  a = a
  b = b
  c = c
  r1 = r1
  Symbols <- Assets
  Matrices <- Tables
  Synthetic <- Drawn
  Requests <- OneRequest
  MaxRounds = 2
  MaxFailures = 1
  MaxChanges = 1
  MaxDetected = 1
INVARIANTS SignalsWereProfitable RoundsAreWhole AlgorithmsAgree MarkedStandOut
PROPERTIES ArbitrageIsSignalled
CHECK_DEADLOCK FALSE
