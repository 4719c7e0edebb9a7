\* README.md on the DFU flag, with an image in the SPI SRAM.
SPECIFICATION Spec
CONSTANTS
  ENABLE_SPI_SRAM_IMAGE = TRUE
  ENABLE_CHECKSUM = TRUE
  Builds <- Plain
  PageWords = 2
  PayloadPages = 2
  WordBits <- MCBits
  SizeWord = 1
  CHECKSUM_XOR_START <- MCStart
  StackMask <- MCMask
  StackBase <- MCBase
  HeaderEnd = 3
  AddrWords = 16
  Images <- Strong
  Deposits <- MCDeposits
  Garbage = {unknown}
  SramFails = FALSE
  Outages = FALSE
INVARIANTS
  DfuRequestIsHonoured
