\* The build that wipes the payload before the first erase or write, and a host
\* that goes on polling; blocks across pages and of one byte, and no upload.
SPECIFICATION FairSpec
CONSTANTS
  FLASH_BASE_ADDR = 16
  PageSize = 8
  BootPages = 1
  FlashPages = 3
  AddrSpace = 64
  Erased = Erased
  Garbage = Garbage
  BootCode = BootCode
  OldApp = OldApp
  ZeroBuf = ZeroBuf
  A = A
  B = B
  ENABLE_SAFEWRITE = TRUE
  ENABLE_DFU_UPLOAD = FALSE
  Images <- MCImages
  Buffers <- CrossingBuffers
  Blocknums = {0, 2}
  Lens = {1, 6}
INVARIANTS
  NoMixedImages
PROPERTIES
  BlockIsExecuted
