SPECIFICATION FairSpec
CONSTANTS
  Kraken <- KrakenTrades
  Own <- OwnTrades
  Received <- ReceivedTrades
  MaxTime = 5
  PageSize = 2
  GapThreshold = 1
  Lookback = 4
  BatchSize = 1
  MaxCycles = 2
  MaxFaults = 1
  Loaders <- Processes
  Plans <- Mixtures
  l1 = l1
  l2 = l2
  DaysBack = 4
  LoadSize = 2
  MaxLoadFaults = 1
INVARIANTS TypeOK RowsRepeatOnlyAtEnds FinishedCycleIsComplete CancelledStoresOneBatch LoadsLeaveNoHole
PROPERTIES CyclesEnd
CHECK_DEADLOCK FALSE
