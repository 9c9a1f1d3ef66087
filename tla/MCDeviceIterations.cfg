\* Solid: two exchanges, two iterations of each region, three of the contact.
\* Sweeps: four cells, six faces with every sign of their fluxes, at most two sweeps.
\* Source iteration: three angles, one to three workspaces, two iterations, two solves.
SPECIFICATION MCSpec
CONSTANTS
  MaximumIterations = 2
  ContactIterations = 3
  MaxExchanges = 2
  CellCount = 4
  Faces <- MCFaces
  SweepIterations = 2
  Directions = 3
  SourceIterations = 2
  Solves = 2
  Troubles <- MCTroubles
INVARIANTS WindowExact EndsAccountable SweepIsSequential AsSequential
