\* One frame of 1 or 5 rows in blocks of two, on up to four CPUs.
CONSTANTS
  Heights = {1, 5}
  MaxCPUs = 4
  RowsPerAbortCheck = 2
SPECIFICATION FairSpec
INVARIANTS WholeFrame QueriesAgree
PROPERTIES RenderReturns
CHECK_DEADLOCK TRUE
