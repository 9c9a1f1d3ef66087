\* Three cells; blocks of two threads, three of them resident at once: tiles of
\* two, four and six particles, cells of up to five tasks; two queue workers.
\* Queue: two blocks of one warp and a task.
SPECIFICATION MCSpec
CONSTANTS
  NCells = 3
  ParticleCapacity = 16
  BlockThreads = 2
  ResidentBlocks = 3
  Blocks = {b1, b2}
  Occupancies <- MCOccupancies
  Warps = {w0, w1}
  Leader = w0
  TaskCount = 1
  Rejected = {}
  Idle = {}
INVARIANT MomentsExact
PROPERTY Completes
