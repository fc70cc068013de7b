\* One exporter after another, of any family and on either platform.
CONSTANTS
  Families = {"raft", "waft", "neuflow", "searaft"}
  Exporters = {"x1"}
  Platforms = {"macos", "linux"}
  Bytes = {"b1", "b2"}
  Home = "macos"
  Pinned = "b1"
  Together = FALSE
  MaxTrouble = 2
SPECIFICATION FairSpec
INVARIANTS ManifestIsTrue
PROPERTIES KeepsWhatPassed RecordsPassCheck EventuallyRecorded
CHECK_DEADLOCK TRUE
