\* The same command again and again while processes die and steps fail.
CONSTANTS
  Invocations = {"i1"}
  Identities = {"A"}
  States = {"s1"}
  Results = {v1, v2}
  Replaces <- NeverReplaces
  PowerFails = FALSE
  MaxTrouble = 3
SPECIFICATION FairSpec
PROPERTY EventuallyWhole
CHECK_DEADLOCK TRUE
