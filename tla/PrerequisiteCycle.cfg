CONSTANTS
  Courses = {"c1", "c2"}
  Requests = {"q"}
  Lists = {}
SPECIFICATION Spec
INVARIANT GraphStaysAcyclic
