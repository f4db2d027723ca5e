SPECIFICATION Spec
CONSTANTS
  Loads = {l1, l2}
  Garbage = garbage
  Times <- MCOnce
  Factors = {}
  Unset = unset
  NoTask = nobody
  Adc <- MCHigh
  Commands <- MCNone
  Button = FALSE
  BleClient = TRUE
  PowerLoss = FALSE
  NvsMayFail = TRUE

PROPERTIES BleTareEnds WeighsOn
CHECK_DEADLOCK FALSE
