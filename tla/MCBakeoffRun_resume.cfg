\* One operator starts the run again until it is done: failures, crashes, power losses.
CONSTANTS
  Runners = {"r1"}
  Cells = {"c1", "c2"}
  Files = {"result", "preview"}
  Payloads = {p1}
  Existing = "nothing"
  PowerFails = "rooted"
  MaxAttempts = 5
  MaxTrouble = 2
  Plan <- TwoCells
  StateDir <- OutputDir
  HostLoad <- IdleThenLive
SPECIFICATION FairRunSpec
INVARIANTS RunTypeOK CompleteIsBacked
PROPERTIES KeepsLedger MeasuredUnderItsLoad EveryCellCompletes
CHECK_DEADLOCK TRUE
