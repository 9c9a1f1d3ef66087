\* Three blocks of one thread: what the threads of a block share is the guard.
SPECIFICATION Spec
CONSTANTS
  Blocks = {b1, b2, b3}
  Lanes = {l1}
  Categories = {accuracy}
  MaxCount = 2
  MaxRaises = 3
  MaxFatals = 2
  MaxOperations = 1
  MaxKernels = 2
  MaxFaults = 1
INVARIANTS CountsExact EvidenceWhole StoppedAfterFatal ReportedOnce
PROPERTIES Drains
