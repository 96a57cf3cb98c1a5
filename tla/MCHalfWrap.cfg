SPECIFICATION Spec
CONSTANTS
  capacity = 6
  ByteBase = 2
  ADDRESS_MAX = 7
  WrittenWords <- MCWords
INVARIANT EveryAccessReturns
CHECK_DEADLOCK FALSE
