\* Windows of seven, seven and three ticks; seven is not a floating-point number.
SPECIFICATION Spec
CONSTANTS
  Interval = 7
  EndTime = 17
  Durations <- MCDurations
  Cap = 8
  Growth = 2
  CourantInterval = 2
  Stables <- MCStables
  FirstDt = 2
  MaxSubstep = 4
  Limits <- MCLimits
  Amounts <- MCAmounts
  Regimes <- MCRegimes
  RadiationFrequency = 2
  CheckpointInterval = 2
  MaxStops = 1
INVARIANTS HistoryShared HeldDrive EnergyAccounted
PROPERTIES SeedHeld AtomicSpec Completes
CHECK_DEADLOCK FALSE
