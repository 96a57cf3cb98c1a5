SPECIFICATION FileSpec
CONSTANTS
  UINT32_MAX = 1
  RegNums <- MCRegNums
  PsrBits = {"I"}
  UninitWord = 0
  UninitPsr <- MCUninitPsr
  WrittenNums <- MCWrittenNums
  WrittenPsrs <- MCWrittenPsrs
  SavedPsrs <- MCSavedPsrs
INVARIANT FileTypeOK
PROPERTIES ViewSpec
