SPECIFICATION Spec
CONSTANTS
  MAX_BREAKPOINTS_NUMBER = 4
  Addresses <- MCAddresses
  Unset <- MCUnset
INVARIANT TypeOK
INVARIANT TableOrdered
PROPERTY SetSpec
