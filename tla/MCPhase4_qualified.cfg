SPECIFICATION Phase4Spec
CONSTANTS
  Intent = {a, b}
  Generation = {g1}
  MaxRevision = 4
  MaxPlans = 0
  MaxRuntimes = 0
CHECK_DEADLOCK FALSE
INVARIANT QualifiedIsMarked
