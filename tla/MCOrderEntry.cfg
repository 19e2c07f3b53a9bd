SPECIFICATION FairSpec
CONSTANTS
  bid = bid
  ask = ask
  r1 = r1
  r2 = r2
  Orders <- AllOrders
  Levels <- TwoLevels
  Requests <- TwoRequests
  Suspicious <- Refused
  Plans <- Mixtures
  MaxUpdates = 3
  MaxAttempts = 2
  MaxFaults = 1
INVARIANTS TypeOK OnlyAbandonedAreOvertaken ShownLevelsArePosted AtMostOnce
PROPERTIES NobodyWaitsForEver
CHECK_DEADLOCK FALSE
