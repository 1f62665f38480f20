CONSTANTS
  Foci = {"poller"}
  Students = {}
  Crons = {}
  Sessions = {}
  MaxQuestions = 0
  MaxCrashes = 0
  NoSession = NoSession
  Batch = 1
  MaxStuck = 0
  CronRuns = {}
  Cleaners = {}
  Exports = {e1}
  Clients = {}
  MaxTries = 1
  KeptDays = 1
  MaxDay = 0
  MaxEvents = 3
  MaxLedger = 5
  PageLimit = 2
  Lookback = 2
  TxOf <- TwoEventsInOneTx
  NoCourse = {}
  Retention = 2
  Faults <- FaultKinds
  MaxFaults = 2
SPECIFICATION SpecOne
INVARIANT TypeOK
INVARIANT NoEventSkipped
INVARIANT HealthyMeansPersisted
PROPERTY HandledInOrder
PROPERTY ImplementsDelivery
