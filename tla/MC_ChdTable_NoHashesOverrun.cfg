CONSTANTS
  NOT_AVAILABLE = 65535
  MaxD = 1024
  NoTable = NoTable
  Keys <- MC_KeysOverflow
  FontOf <- MC_FontOf
  Slot <- MC_Slot
INIT Init
NEXT Next
INVARIANT NoHashesOverrun
CHECK_DEADLOCK FALSE
