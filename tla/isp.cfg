SPECIFICATION FairSpec
CONSTANTS
  FlashWords = 8
  Signature <- MCSignature
  ByteAnd <- MCByteAnd
  InitialFlashes <- MCInitialFlashes
  base_de_donnees <- MCDatabase
  Image <- MCImage
  Requests = {}
  Buttons = {0}
  Modes = {"none", "read"}
  MaxRuns = 1
  MaxFaults = 1
  MaxKills = 0
PROPERTIES
  IspIdsEnds
