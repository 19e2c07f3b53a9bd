SPECIFICATION FairSpec
CONSTANTS
  Threads = {t1, t2}
  Clients = {c1, c2}
  NoClient = NoClient
  MaxChanges = 2
INVARIANTS TypeOK NoUpdateLost
PROPERTIES EveryChangeArrives
CHECK_DEADLOCK FALSE
