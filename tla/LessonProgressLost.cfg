CONSTANTS
  NoLesson = NoLesson
  Lessons = {l1, l2}
  Initial = {l1, l2}
  Old = 0
  Requests = {r1, r2}
  Others = {}
CHECK_DEADLOCK FALSE
SPECIFICATION Spec
INVARIANT AllLessonsMeans100
