\* One invocation after another, any arguments, crashes and power losses.
CONSTANTS
  Invocations = {"i1"}
  Identities = {"A", "B"}
  States = {"s1", "s2"}
  Results = {v1, v2}
  Replaces <- AskOrNot
  PowerFails = TRUE
  MaxTrouble = 2
SPECIFICATION Spec
INVARIANTS OutputsTypeOK DoneIsWhole
PROPERTIES SidecarLeads NotesSurvive
CHECK_DEADLOCK TRUE
