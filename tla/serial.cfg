SPECIFICATION FairSpec
CONSTANTS
  EPSize = 2
  ReportLength = 3
  MaxReports = 2
INVARIANTS
  SerialTypeOK
  AcceptedDelivered
PROPERTIES
  TransferEnded
  HostBytesTaken
