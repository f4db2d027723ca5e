SPECIFICATION Spec
CONSTANTS
  Loads = {l1}
  Garbage = garbage
  Times <- MCTimes
  Factors = {}
  Unset = unset
  NoTask = nobody
  Adc <- MCHigh
  Commands <- MCNone
  Button = FALSE
  BleClient = TRUE
  PowerLoss = FALSE
  NvsMayFail = FALSE
INVARIANT BleTareIsTrue
CHECK_DEADLOCK FALSE
