CONSTANTS
  f1 = f1  f2 = f2  k1 = k1  p1 = p1  p2 = p2
  Fills = {f1, f2}
  Ticks = {k1}
  Malformed = {f1}
  Oversized = {f2}
  Partitions = {p1, p2}
  BatchSize = 2
  MaxLog = 4
  MaxRepeats = 1
  MaxFailures = 1
  MaxDrops = 1
SPECIFICATION FairSpec
INVARIANTS TypeOK StoredOnce FailureLosesABatch RereadAfterFailure
PROPERTY EveryTradeIsStored
