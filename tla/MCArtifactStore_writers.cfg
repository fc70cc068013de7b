\* Two runners and no run root yet, failures, crashes and power losses.
CONSTANTS
  Runners = {r1, r2}
  Cells = {c1}
  Files = {f1}
  Payloads = {p1, p2}
  Existing = "parent"
  PowerFails = "rooted"
  MaxAttempts = 3
  MaxTrouble = 2
SPECIFICATION StoreSpec
INVARIANT EverythingLoads
PROPERTIES PointerMovesOn CommitTellsTruth
SYMMETRY Symmetry
CHECK_DEADLOCK FALSE
