\* The scale with its button and its battery: no console, no BLE client.
SPECIFICATION Spec
CONSTANTS
  Loads = {l1}
  Garbage = garbage
  Times <- MCTimes
  Factors = {}
  Unset = unset
  NoTask = nobody
  Adc <- MCAdc
  Commands <- MCNone
  Button = TRUE
  BleClient = FALSE
  PowerLoss = FALSE
  NvsMayFail = FALSE
INVARIANTS OneReader
PROPERTIES KeepsWeighing ShowsMass PressIsServed LowMessageEnds
