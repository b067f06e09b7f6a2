CONSTANTS
  NP = 2
  NB = 4
  BS = 2
  NOT_AVAILABLE = 65535
  MaxD = 256
  NarrowMod = 4
  DirectHeader = 14
  ChdHeader = 8
  Coverages <- MC_Coverages
  FontCounts <- MC_FontCounts
  Slot <- MC_Slot
  NoCharset = NoCharset
  NULL = NULL
  FREED = FREED
INIT Init
NEXT Next
INVARIANTS TypeOK LookupMatchesPriority
CHECK_DEADLOCK FALSE
