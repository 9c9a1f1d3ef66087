\* Two sources, room for three parcels, two steps with a compaction between.
SPECIFICATION Spec
CONSTANTS
  Sources = {1, 2}
  Capacity = 3
  ParcelMass = 2
  Inflows <- MCInflows
  MaxSteps = 1
INVARIANTS SlotsExclusive PrefixAtLaunchEnd RefusedOnlyWhenFull MassConserved
PROPERTY LaunchTerminates
