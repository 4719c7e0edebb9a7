\* README.md on DETACH, with a host that sends nothing after it.
SPECIFICATION OrderlySpec
CONSTANTS
  FLASH_BASE_ADDR = 16
  PageSize = 8
  BootPages = 1
  FlashPages = 3
  AddrSpace = 64
  Erased = Erased
  Garbage = Garbage
  BootCode = BootCode
  OldApp = OldApp
  ZeroBuf = ZeroBuf
  A = A
  B = B
  ENABLE_SAFEWRITE = FALSE
  ENABLE_DFU_UPLOAD = TRUE
  Images <- MCImages
  Buffers <- PageBuffers
  Blocknums = {0, 2}
  Lens = {6}
PROPERTIES
  DetachResets
