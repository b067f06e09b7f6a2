CONSTANTS
  NP = 2
  NB = 4
  BS = 2
  SPACE <- MC_SPACE
  C1 <- MC_C1
  Spaces <- MC_Spaces
  NULL = NULL
  MARK = MARK
  ZERO_LEN = ZERO_LEN
INIT Init
NEXT Next
CHECK_DEADLOCK FALSE
INVARIANT HandleReleasedOnReturn
