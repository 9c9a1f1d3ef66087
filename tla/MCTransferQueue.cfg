\* Three operations of up to two transfers, two of all the calls failing.
SPECIFICATION Spec
CONSTANTS
  Cells = {c1, c2}
  Sizes <- MCSizes
  MaxOperations = 3
  MaxCalls = 2
  MaxFaults = 2
INVARIANTS UploadsIntact AllOrNothing
SYMMETRY Arrays
PROPERTY ClosedStayUntouched
