SPECIFICATION Spec
CONSTANTS
  FlashWords = 8
  Signature <- MCSignature
  ByteAnd <- MCByteAnd
  InitialFlashes <- MCInitialFlashes
  base_de_donnees <- MCDatabase
  Image <- MCImage
  Requests = {}
  Buttons = {0}
  Modes = {"none", "read", "write"}
  MaxRuns = 2
  MaxFaults = 1
  MaxKills = 1
INVARIANTS
  DisplayedIsFlash
