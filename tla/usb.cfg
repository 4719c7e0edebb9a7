\* Endpoint 0 with a driver that polls each event before the next setup packet,
\* and a host that from some time on sees its transfers through.
SPECIFICATION FairSpec
CONSTANTS
  bMaxPacketSize0 = 2
  DFU_TRANSFER_SIZE = 4
  Requests <- MCRequests
  Overtaking = FALSE
INVARIANTS
  TypeOK
  AnswersAreExact
  CallbackIsNotLost
  OnlyRefusalsFail
PROPERTIES
  DownloadsAreWhole
  AddressIsLatchedLate
  TransfersEnd
  ImplementsControlTransfer
