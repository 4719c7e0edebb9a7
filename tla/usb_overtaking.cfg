\* A host and a bus that outrun the driver.
SPECIFICATION Spec
CONSTANTS
  bMaxPacketSize0 = 2
  DFU_TRANSFER_SIZE = 4
  Requests <- FewRequests
  Overtaking = TRUE
PROPERTIES
  DownloadsAreWhole
