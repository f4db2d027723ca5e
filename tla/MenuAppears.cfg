SPECIFICATION Spec
CONSTANTS
  Loads = {l1}
  Garbage = garbage
  Times <- MCTimes
  Factors = {}
  Unset = unset
  NoTask = nobody
  Adc <- MCHigh
  Commands <- MCSome
  Button = FALSE
  BleClient = FALSE
  PowerLoss = FALSE
  NvsMayFail = FALSE
PROPERTY MenuAppears
CHECK_DEADLOCK FALSE
