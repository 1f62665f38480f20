CONSTANTS
  u1 = u1
  u2 = u2
  v1 = v1
  v2 = v2
  v3 = v3
  c1 = c1
  r1 = r1
  r2 = r2
  r3 = r3
  a = a
  b = b
  None = None
  Unlimited = Unlimited
  Users = {u1, u2}
  Courses = {c1}
  Limits = {0, 1}
  Requests = {r1, r2, r3}
  MaxEdits = 2
  MaxTime = 1
  Referred = {v1, v2, v3}
  MaxRewards = 1
  Caps = {0, 1}
  Slots = {a, b}
  Cent = 3
  MaxPrice = 7
  MaxCourses = 3
CHECK_DEADLOCK FALSE
SPECIFICATION SpecOne
SYMMETRY Symmetry
INVARIANT TypesOK
INVARIANT CounterIsExact
INVARIANT RewardCap
INVARIANT CountersAgree
INVARIANT ExactSplit
INVARIANT ProRata
PROPERTY WithinLimit
PROPERTY NeverWhenUnusable
PROPERTY NoSecondUse
