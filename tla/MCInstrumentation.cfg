SPECIFICATION ReportSpec
CONSTANTS
  MAX_FILES_NUMBER = 3
  Files = {1, 2, 3, 4}
  StateNames = {"SVC", "SWI"}
  Places = {"arm_core", "arm_exception"}
  Accessed = {0, 4}
  Seldom = 1
  PopsFirst = FALSE
  MaxOptions = 4
INVARIANTS ReportTypeOK DebugSwitch StackIsNesting
PROPERTY PlacesShown
CHECK_DEADLOCK FALSE
