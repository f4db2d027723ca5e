SPECIFICATION Safe
CONSTANTS
  b1 = b1
  b2 = b2
  b3 = b3
  Byte <- MCByte
  Images <- MCImages
  PageSize = 2
  NoSlot = null
  FlashMayFail = TRUE
  Header = hdr
  HeaderLength = 2
  TlsSize = 4
  BufferSize <- MCBuffers
  NoLength = none
  Files <- MCFiles
  Metadata <- MCMetadata
  Intervals <- MCIntervals
  PowerLoss = TRUE
INVARIANTS IInv StreamKept WriteHasBuffer
PROPERTIES ImplementsSlots
