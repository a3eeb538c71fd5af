SPECIFICATION EmissionsSpec
CONSTANTS
  Emissions = {"last", "first"}
  Amount <- MCAmount
  DELAY = 1
  GRACE_PERIOD = 1
  VAULT_DELAY = 1
  EPOCH_LENGTH = 3
  EPOCH_CAP = 2
  Fund = 4
  LastHour = 7
  MaxDecisions = 1
INVARIANT
  RollingCeiling
CHECK_DEADLOCK FALSE
