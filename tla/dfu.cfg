\* The DFU driver with addresses of pages, odd ones and ones that wrap around:
\* every request in every state, outages.
SPECIFICATION Spec
CONSTANTS
  FLASH_BASE_ADDR = 16
  PageSize = 8
  BootPages = 1
  FlashPages = 3
  AddrSpace = 64
  Erased = Erased
  Garbage = Garbage
  BootCode = BootCode
  OldApp = OldApp
  ZeroBuf = ZeroBuf
  A = A
  B = B
  ENABLE_SAFEWRITE = FALSE
  ENABLE_DFU_UPLOAD = TRUE
  Images <- MCImages
  Buffers <- StrayBuffers
  Blocknums = {0, 1, 3, 4}
  Lens = {5, 8}
INVARIANTS
  TypeOK
  BootloaderIntact
  AckedPageIsDone
  HangsOnlyOffPage
PROPERTIES
  WritesAreAnnounced
  ResetIsAnnounced
  ImplementsPageStore
