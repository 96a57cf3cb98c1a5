SPECIFICATION Spec
CONSTANTS
  UINT32_MAX = 31
  RegNums <- MCRegNums
  PsrBits = {"Z", "A", "I", "F", "T"}
  UninitWord = 30
  UninitPsr <- MCUninitPsr
  Values = {0, 8}
  Instrs <- MCInstrs
  MemSize = 28
  IrqBytes = {1, 2, 3, 4, 6, 7, 8}
  MaxCycles = 3
  MaxRaised = 1
PROPERTY SavedInEnteredMode
CHECK_DEADLOCK FALSE
