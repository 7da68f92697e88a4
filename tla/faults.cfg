SPECIFICATION FairSpec
CONSTANTS
  FlashWords = 12
  Signature <- MCSignature
  ByteAnd <- MCByteAnd
  InitialFlashes <- MCInitialFlashes
  base_de_donnees <- MCDatabase
  Image <- MCImage
  Requests = {}
  Buttons = {0, 192}
  Modes = {"none", "read", "write"}
  MaxRuns = 2
  MaxFaults = 2
  MaxKills = 1
INVARIANTS
  ProgrammerTypeOK
  DisplayedIsSomeBlock
PROPERTIES
  BlockReadEnds
  FlashChange
