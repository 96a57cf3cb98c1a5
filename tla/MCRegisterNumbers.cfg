SPECIFICATION DebuggerSpec
CONSTANTS
  capacity = 5
  ByteBase = 4
  ADDRESS_MAX = 5
  WrittenWords <- MCWords
  Escape = 3
  Special = {2, 3}
  FlipBit = 2
  Contents <- MCContents
  Lengths = {0, 2, 4, 6}
  Numbers = {0, 10, 25}
  RegValues = {1}
PROPERTY SameRegister
CHECK_DEADLOCK FALSE
