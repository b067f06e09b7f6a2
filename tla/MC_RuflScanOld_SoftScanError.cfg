CONSTANTS
  NP = 1
  NB = 5
  BS = 2
  A = A
  B = B
  C = C
  U = U
  NULL = NULL
  Encodings = {A, B, C, U}
  Spaces = {1}
  EncFile <- MC_EncFile
  Latin1 <- MC_Latin1
  NameChars = {"a", "b", "c"}
  GlyphMap <- MC_GlyphMap
  FirstCode = 1
  CodeLimit = 4
  MaxLen = 3
  EncLists <- MC_EncLists
  Fonts <- MC_Fonts
  SoftScanErrors = TRUE
INIT Init
NEXT Next
INVARIANT ScanOldCharsetWellFormed
CHECK_DEADLOCK FALSE
