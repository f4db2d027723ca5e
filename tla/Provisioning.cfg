SPECIFICATION Spec
CONSTANTS
  default = default
  full = full
  MaxLinks = 2
  MaxWaiting = 1
  MaxGroups = 2
  MaxEvents = 2
  WifiMayFail = TRUE
  Credentials <- MCCredentials
  LongName = {}
  Unterminated <- MCUnterminated
  Garbled = garbled
  Default = default
  NoBlob = none
  MaxOta = 1
  NvsMayFail = TRUE
  MaxOutages = 1
INVARIANTS TypeOK IInv FlagIsTrue EventsFindGroup TaskFindsGroup CredentialsUsed
PROPERTIES Connectable Reconnects WaiterIsWoken
CHECK_DEADLOCK FALSE
