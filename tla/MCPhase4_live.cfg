SPECIFICATION Phase4FairSpec
CONSTANTS
  Intent = {a}
  Generation = {g1}
  MaxRevision = 4
  MaxPlans = 1
  MaxRuntimes = 2
CHECK_DEADLOCK FALSE
PROPERTY PlanSettles
