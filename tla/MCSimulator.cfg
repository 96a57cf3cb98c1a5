SPECIFICATION Spec
CONSTANTS
  UINT32_MAX = 31
  RegNums <- MCRegNums
  PsrBits = {"A", "I"}
  UninitWord = 30
  UninitPsr <- MCUninitPsr
  Values = {0}
  Instrs <- MCInstrs
  MemSize = 8
  Program <- Looping
  IrqBytes <- MCIrqBytes
  Commands <- MCCommands
INVARIANTS TypeOK MutualExclusion
PROPERTIES AtomicSpec InterruptServed CommandAnswered
CHECK_DEADLOCK FALSE
