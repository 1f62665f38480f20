CONSTANTS
  NoLesson = NoLesson
  Lessons = {l1, l2, l3}
  Initial = {l1, l2}
  Old = 0
  Requests = {r1, r2, r3, r4}
  Others = {"chain", "refund", "crash"}
CHECK_DEADLOCK FALSE
SPECIFICATION Spec
SYMMETRY Symmetry
INVARIANT TypeOK
INVARIANT CompletionRecorded
INVARIANT CompletedMeansFinished
