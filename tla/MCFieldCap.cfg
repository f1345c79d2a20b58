SPECIFICATION Spec
CONSTANTS
  Passes = {p1, p2, p3}
  Basic = {b1}
  Advanced = {}
  TaskLimit = 1
  GlobalLimit = 2
  Faults = {}
INVARIANT FileCap
