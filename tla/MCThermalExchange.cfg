\* Six ticks, exchanges after three or four, writes at each second tick, and three
\* processes: one that commits, one that is refused where the first has committed,
\* and one that starts from what that leaves.
SPECIFICATION Spec
CONSTANTS
  EndTime = 6
  Durations <- MCDurations
  Interval = 3
  Frequency = 2
  WriteInterval = 2
  MaxRestarts = 2
INVARIANTS EnergyAccounted SavedIsWhole ScheduleKept
