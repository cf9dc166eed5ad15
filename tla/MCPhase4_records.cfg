SPECIFICATION Phase4Spec
CONSTANTS
  Intent = {a, b}
  Generation = {g1}
  MaxRevision = 3
  MaxPlans = 2
  MaxRuntimes = 1
CHECK_DEADLOCK FALSE
PROPERTY ConsumerRecords
