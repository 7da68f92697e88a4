SPECIFICATION FirmwareFairSpec
CONSTANTS
  FlashWords = 8
  Signature <- MCSignature
  ByteAnd <- MCByteAnd
  InitialFlashes <- MCInitialFlashes
  Requests <- MCRequests
  Buttons = {0, 192}
INVARIANTS
  FirmwareTypeOK
  ProgrammingOnlyInSession
PROPERTIES
  BankFreedAfterEffect
  DeviceSpec
  CommandTaken
  RequestAnswered

