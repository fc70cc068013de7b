\* Two invocations at once that never replace, a failure, kill or power loss.
CONSTANTS
  Invocations = {"i1", "i2"}
  Identities = {"A", "B"}
  States = {"s1", "s2"}
  Results = {v1}
  Replaces <- NeverReplaces
  PowerFails = TRUE
  MaxTrouble = 1
SPECIFICATION Spec
PROPERTY ReportKept
CHECK_DEADLOCK TRUE
