CONSTANTS
  a = a
  b = b
  w1 = w1
  w2 = w2
  Requests = {a, b}
  Users = {w1, w2}
  None = None
  MaxTokens = 3
  Codes = {"k1", "k2"}
  MaxSecrets = 2
  OtpTries = 2
  MaxSends = 1
  MaxOtps = 2
  CopyTtl = 2
  MaxSubmissions = 3
  Threshold = 2
  MaxReports = 2
  Answers = {"a1", "a2"}
  Parts = {"p"}
  MaxEdits = 2
  MaxVersions = 2
  Courses = {"c1", "c2"}
  Known = {"c1"}
  Jobs = {"j"}
  MaxReruns = 2
  Lists <- CourseLists
  TaggedCourses = {"c"}
  Tags = {"t1", "t2"}
  Slugs = {"a", "b"}
  DraftIds = {"d1", "d2"}
  MaxSaves = 3
  Retention = 2
  MaxDay = 4
  Sessions = {"s1", "s2"}
  Starts = {0, 1}
  Lengths = {1}
  Capacities = {1, 2}
  Students = {"u1", "u2", "u3"}
  Editors = {a, b}
  Crons = {"c"}
  Uploads = {"u1", "u2", "u3"}
  Malware = {"u1"}
  Private = {"u1", "u2"}
  Videos = {"u3"}
  MaxScans = 2
  Seconds = 2
  LinkTtl = 1
  Notes = {"n1", "n2"}
  Devices = {"d"}
  Channels = {"email", "push"}
  Notifiers = {a, b}
  Texts = {"m1", "m2"}
  MailTries = 1
  Days = 2
CHECK_DEADLOCK FALSE
SPECIFICATION Spec
SYMMETRY Symmetry
INVARIANT TypesOK
INVARIANT AccountsSound
INVARIANT CatalogueSound
INVARIANT OperationsSound
