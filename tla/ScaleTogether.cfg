SPECIFICATION Safe
CONSTANTS
  Loads = {l1}
  Garbage = garbage
  Times <- MCOnce
  Factors = {}
  Unset = unset
  NoTask = nobody
  Adc <- MCHigh
  Commands <- MCEvery
  Button = FALSE
  BleClient = TRUE
  PowerLoss = TRUE
  NvsMayFail = FALSE
INVARIANTS NoOrphanedSuspension ResumeNeverNull StartsFromZero ScaleIsStored IInv
CHECK_DEADLOCK FALSE
