CONSTANTS
  Courses = {"c1", "c2"}
  Requests = {"q"}
  Rows = {"f"}
  MaxPerWindow = 1
  MaxDaily = 1
  MaxActive = 1
  HighRisk = 70
  Critical = 90
SPECIFICATION Spec
INVARIANT HeldIsNotEnrolled
