CONSTANTS
  s1 = s1
  s2 = s2
  c1 = c1
  c2 = c2
  t1 = t1
  t2 = t2
  r1 = r1
  r2 = r2
  Clients = {"q"}
  Crons = {"c"}
  Sessions = {"s", "t"}
  Limits = {1, 2}
  MaxQuestions = 1
  Batch = 1
  AnswerKeys <- SomeKeys
  Keep = Keep
  MaxTries = 2
  Templates = {"t", "u"}
  Categories = {"A", "a"}
  LessonCount = 1
  MaxDay = 1
  SuspectCourses = {"f1", "f2", "f3"}
  MaxPerWindow = 2
  MaxDaily = 2
  MaxActive = 1
  HighRisk = 70
  Critical = 90
  Ratings = {1, 5}
  RestoredLessons = {"l"}
  Students = {s1, s2}
  Courses = {c1, c2}
  Bundle = Bundle
  BundleCourses = {c1, c2}
  Txs = {t1, t2}
  Confirmed = {t1, t2}
  None = None
  Requests = {r1, r2}
  MaxCrashes = 1
CHECK_DEADLOCK FALSE
SPECIFICATION SpecOne
SYMMETRY Symmetry
CONSTRAINT Undisturbed
PROPERTY ImplementsPurchases
INVARIANT TypeOK
INVARIANT OneTxOnePurchase
INVARIANT BundleComplete
INVARIANT StatsCountRows
INVARIANT StudentTypesOK
INVARIANT GradingSound
INVARIANT CourseworkSound
INVARIANT RecordsSound
