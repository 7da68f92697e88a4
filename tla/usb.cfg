SPECIFICATION FairSpec
CONSTANTS
  Requests <- MCRequests
  MaxDisturbances = 2
  MaxDepth = 2
INVARIANTS
  UsbTypeOK
  EndpointSelected
  StateMatchesRegisters
  NestingBounded
  NoStaleAnswer
  DescriptorDelivered
PROPERTIES
  AddressKept
  HandlersEnd
  SetupTaken
CHECK_DEADLOCK FALSE
