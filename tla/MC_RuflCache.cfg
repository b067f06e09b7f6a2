CONSTANTS
  f1 = f1
  f2 = f2
  f3 = f3
  f4 = f4
  f5 = f5
  Ids = {f1, f2, f3, f4, f5}
  Enums <- MC_Enums
  Ignored = {f5}
  MaxFaces = 3
  LocalName <- MC_LocalName
  TruthNew <- MC_TruthNew
  TruthOld <- MC_TruthOld
  NoEnc = NoEnc
  NULL = NULL
  Version = 4
  CallsMayFail = TRUE
  IOMayFail = TRUE
SPECIFICATION FairSpec
INVARIANTS TypeOK FamilyMapExact FamilyMenuSound
PROPERTIES RegistryRefinement InitReturns
CHECK_DEADLOCK FALSE
