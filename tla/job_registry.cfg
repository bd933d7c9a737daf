SPECIFICATION Spec
CONSTANTS
  Jobs = {j1}
  Agents = {a1, a2}
  NoItem = NoItem
  Handlers = {h1, h2}
  Fires = {f1}
  MaxRows = 1
  MaxEdition <- MCEdition
  MaxRestarts = 1
SYMMETRY Symmetry
INVARIANTS
  EntriesMatchRows
  NextRunMatchesRow
  LimitBounded
PROPERTY LeftoverEntriesIdle
