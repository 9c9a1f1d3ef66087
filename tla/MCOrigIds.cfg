\* A slot freed by compaction is injected into again.
SPECIFICATION Spec
CONSTANTS
  Sources = {1, 2}
  Capacity = 3
  ParcelMass = 2
  Inflows <- MCInflows
  MaxSteps = 1
INVARIANT OrigIdsDistinct
