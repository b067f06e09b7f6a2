CONSTANTS
  NOT_AVAILABLE = 65535
  MaxD = 1024
  NoTable = NoTable
  Keys <- MC_Keys
  FontOf <- MC_FontOf
  Slot <- MC_Slot
INIT Init
NEXT Next
INVARIANTS TypeOK ChdLookupExact ChdSlotsArePermutation
CHECK_DEADLOCK FALSE
