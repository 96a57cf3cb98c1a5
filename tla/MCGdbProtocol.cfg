SPECIFICATION Spec
CONSTANTS
  MAX_ERROR_SIZE = 3
  MaxCommands = 5
  MaxDamage = 3
  MaxStray = 4
INVARIANTS TypeOK EndsInOrder StrayRepeatsOne
PROPERTIES CallsSpec GdbGoesOn
CHECK_DEADLOCK FALSE
