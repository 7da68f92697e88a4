SPECIFICATION TestSpec
CONSTANTS
  FlashWords = 12
  Signature <- MCSignature
  ByteAnd <- MCByteAnd
  InitialFlashes <- MCInitialFlashes
  base_de_donnees <- MCDatabase
  Image <- MCImage
  Requests = {}
  Buttons = {0, 64, 192}
  Modes = {"none", "read", "write"}
  Tests = {"isp_ids", "flash_read", "flash_rw"}
  WordsWritten = 5
  WordsRead = 8
  MaxRuns = 3
  MaxFaults = 0
  MaxKills = 0
INVARIANTS
  TestTypeOK
  ReadBackMatches
  SignatureShown
  DisplayedIsFlash
  CompleteDump
  FlashFollowsImage
  SuccessMeansWritten
PROPERTIES
  RunEnds
