\* Booting with applications, a DFU host, an SPI SRAM that may not take a
\* write, and outages.
SPECIFICATION FairSpec
CONSTANTS
  ENABLE_SPI_SRAM_IMAGE = TRUE
  ENABLE_CHECKSUM = TRUE
  Builds <- MCBuilds
  PageWords = 2
  PayloadPages = 2
  WordBits <- MCBits
  SizeWord = 1
  CHECKSUM_XOR_START <- MCStart
  StackMask <- MCMask
  StackBase <- MCBase
  HeaderEnd = 3
  AddrWords = 16
  Images <- Strong
  Deposits <- MCDeposits
  Garbage = {unknown}
  SramFails = TRUE
  Outages = TRUE
INVARIANTS
  TypeOK
  StartedImageIsWhole
  InstalledOnce
  CopyIsExact
  HungAppIsHeld
PROPERTIES
  RequestIsHeld
  BootEnds
  UpdateTakesEffect
  DfuIsDue
