\* The same command again after a power loss.
CONSTANTS
  Invocations = {"i1"}
  Identities = {"A"}
  States = {"s1"}
  Results = {v1}
  Replaces <- NeverReplaces
  PowerFails = TRUE
  MaxTrouble = 1
SPECIFICATION FairSpec
PROPERTY EventuallyWhole
CHECK_DEADLOCK TRUE
