\* Endpoint 0, store by store, with a host that may overtake the driver and
\* acknowledgements that may get lost; and the copies of packets.
SPECIFICATION FairSpec
CONSTANTS
  Requests <- MCRequests
INVARIANTS
  TypeOK
  PacketsAreWhole
  NoStandoff
  NeverShut
  CopiesAreExact
PROPERTIES
  DataIsWhole
  EventsAreNotDropped
  ReceptionsAreTaken
