\* Two blocks of three warps, five tasks, two rejected and one idle.
SPECIFICATION Spec
CONSTANTS
  Blocks = {b1, b2}
  Warps = {w0, w1, w2}
  Leader = w0
  TaskCount = 5
  Rejected <- MCRejected
  Idle <- MCIdle
INVARIANT NoMixing
PROPERTIES Termination PoolSpec
