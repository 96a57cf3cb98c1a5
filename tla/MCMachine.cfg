SPECIFICATION Spec
CONSTANTS
  UINT32_MAX = 255
  WordBits = 8
  RsBase = 16
  ByteBase = 4
  ENDIANESS = TRUE
  RegNums <- MCRegNums
  PsrBits = {"N", "Z", "C", "V", "I", "A"}
  UninitWord = 3
  UninitPsr <- MCUninitPsr
  Values = {}
  Instrs = {}
  MemSize = 20
  Unread = {5, 200}
  Program <- MCProgram
  InitRegs <- MCInitRegs
  InitMem <- MCInitMem
  MaxSteps = 1
INVARIANTS TypeOK ShifterIsArchitectural ImplementsClass CompareDecides SumsChain PushPop
PROPERTY TransferAgrees
CHECK_DEADLOCK FALSE
