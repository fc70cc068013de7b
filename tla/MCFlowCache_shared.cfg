\* Two render threads race each other, clip changes, a generation bump and resizes.
CONSTANTS
  MaxSize = 4
  Workers = {w1, w2}
  Ids = {k1, k2}
  PayloadSizes = {1, 2}
  Budgets = {1, 2}
  MaxGeneration = 1
  MaxInputs = 1
SPECIFICATION Spec
INVARIANTS TypeOK NoStaleResident IndexCoherent ExactBudget
PROPERTIES KeepsPromise EvictsAsPromised
SYMMETRY Symmetry
CHECK_DEADLOCK TRUE
