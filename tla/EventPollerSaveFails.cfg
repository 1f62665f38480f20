CONSTANTS
  Foci = {"poller"}
  Students = {}
  Crons = {}
  Sessions = {}
  MaxQuestions = 0
  MaxCrashes = 0
  NoSession = NoSession
  Batch = 1
  MaxStuck = 0
  CronRuns = {}
  Cleaners = {}
  Exports = {e1}
  Clients = {}
  MaxTries = 1
  KeptDays = 1
  MaxDay = 0
  MaxEvents = 2
  MaxLedger = 3
  PageLimit = 2
  Lookback = 1
  TxOf <- OneEventPerTx
  NoCourse = {}
  Retention = 1
  Faults = {"save"}
  MaxFaults = 1
SPECIFICATION SpecOne
INVARIANT CheckpointOnlyPastRecorded
