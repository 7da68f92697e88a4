SPECIFICATION Spec
CONSTANTS
  FlashWords = 4
  Signature <- MCSignature
  ByteAnd <- MCByteAnd
  InitialFlashes <- MCInitialFlashes
  Requests = {}
  LedsLeft = {0, 5}
  AddressesLeft = {0}
  Buttons = {0, 64, 192}
PROPERTIES
  LedCommandOnlyLeds
