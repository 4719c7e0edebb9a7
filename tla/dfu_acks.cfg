\* A block in the bootloader or past the end of flash, or the last byte of one of
\* odd length, is acknowledged and not written.
SPECIFICATION Spec
CONSTANTS
  FLASH_BASE_ADDR = 16
  PageSize = 8
  BootPages = 1
  FlashPages = 3
  AddrSpace = 64
  Erased = Erased
  Garbage = Garbage
  BootCode = BootCode
  OldApp = OldApp
  ZeroBuf = ZeroBuf
  A = A
  B = B
  ENABLE_SAFEWRITE = FALSE
  ENABLE_DFU_UPLOAD = TRUE
  Images <- MCImages
  Buffers <- PageBuffers
  Blocknums = {0, 1, 3, 4}
  Lens = {5, 8}
INVARIANTS
  AckedBlockIsInFlash
