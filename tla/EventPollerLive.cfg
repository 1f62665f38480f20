CONSTANTS
  Foci = {"poller", "quiz", "monitor", "export"}
  Students = {"r1"}
  Crons = {"c1"}
  Sessions = {"s1", "s2"}
  MaxQuestions = 1
  MaxCrashes = 1
  NoSession = NoSession
  Batch = 1
  MaxStuck = 1
  CronRuns = {"j1", "j2"}
  Cleaners = {"k1", "k2"}
  Exports = {"e1", "e2"}
  Clients = {"u1", "u2"}
  MaxTries = 2
  KeptDays = 1
  MaxDay = 2
  MaxEvents = 2
  MaxLedger = 3
  PageLimit = 1
  Lookback = 0
  TxOf <- OneEventPerTx
  NoCourse = {2}
  Retention = 1
  Faults <- RecoverableFaults
  MaxFaults = 1
CHECK_DEADLOCK FALSE
SPECIFICATION FairSpecOne
PROPERTY EventuallyIngested
INVARIANT JobsSound
PROPERTY WorkEnds
