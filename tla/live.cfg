SPECIFICATION FairSpec
CONSTANTS
  FlashWords = 4
  Signature <- MCSignature
  ByteAnd <- MCByteAnd
  InitialFlashes <- MCInitialFlashes
  Requests <- MCRequests
  LedsLeft = {0, 5}
  AddressesLeft = {0}
  Buttons = {0, 192}
INVARIANTS
  LedsFollowKeys
  OnlyButtonsShown
PROPERTIES
  QuitEnds
