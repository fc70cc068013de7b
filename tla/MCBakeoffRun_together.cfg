\* Two runners of one identity and one state file from an empty output directory,
\* with one failure, kill or power loss at any moment.
CONSTANTS
  Runners = {"r1", "r2"}
  Cells = {"c1"}
  Files = {"result", "preview"}
  Payloads = {p1, p2}
  Existing = "nothing"
  PowerFails = "ever"
  MaxAttempts = 2
  MaxTrouble = 1
  Plan <- OneCell
  StateDir <- OutputDir
  HostLoad <- NotCuda
SPECIFICATION RunSpec
INVARIANTS PublishesWholeRun
PROPERTIES NobodyShutOut
SYMMETRY Symmetry
CHECK_DEADLOCK FALSE
