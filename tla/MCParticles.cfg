\* Phase: every level with and without sources, in both back ends; four steps, every second one inspected.
\* Injection: one source and two slots.
SPECIFICATION MCSpec
CONSTANTS
  Sources = {1}
  Capacity = 2
  ParcelMass = 2
  Inflows = {0, 3}
  MaxSteps = 1
  Configurations <- MCConfigurations
  AutoInterval = 2
  TimeSteps = {0, 1}
  MaxPhases = 4
  MaxConfigurations = 1
INVARIANTS ReadsExact RecordingsCurrent HostFollowsDevice
