\* Checkpoints: four writes, three failing calls and two crashes, each anywhere.
\* Sampling: windows of two samples, two of them stable, a directory in the middle of a
\* window, two kills or failed writes and any number of failing steps.
SPECIFICATION MCSpec
CONSTANTS
  MaxWrites = 4
  MaxFaults = 3
  MaxCrashes = 2
  Parts = 2
  WindowSamples = 2
  MinimumWindows = 1
  StableWindows = 2
  EndLabel = 7
  WriteInterval = 5
  Boundaries = {0, 1}
  Steps = {1, 2}
  MaxTroubles = 2
INVARIANTS AcknowledgedSurvives NeverTorn OnlyOrphansRemain RunSound
PROPERTY RegisterSpec
