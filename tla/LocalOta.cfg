SPECIFICATION Spec
CONSTANTS
  magic = magic
  MaxTasks = 2
  Image <- MCImage
  Bodies <- MCBodies
  BufferSize = 6
  Cuts = {3, 4}
  SlotSize = 2
  NoReply = noReply
  NoSocket = noSocket
  NoHandle = noHandle
  NetMayFail = TRUE
  FlashMayFail = TRUE
  PowerLoss = TRUE
INVARIANTS TypeOK IInv BootSlotWhole BodyWritten SocketsClosed
PROPERTIES SlotStepsKept OtaEnds
