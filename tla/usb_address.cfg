\* usb.c on SET_ADDRESS, with a host that outruns the driver.
SPECIFICATION Spec
CONSTANTS
  bMaxPacketSize0 = 2
  DFU_TRANSFER_SIZE = 4
  Requests <- FewRequests
  Overtaking = TRUE
PROPERTIES
  AddressIsLatchedLate
