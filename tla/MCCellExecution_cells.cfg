\* Two cells of any kind one after the other, with failing queries and kills.
CONSTANTS
  Windows <- TwoStages
  MaxMemory = 2
  Chunks = 3
  Capacity = 2
  MaxTrouble = 2
  Cells <- EveryKind
  MaxCells = 2
  MemoryLimit = 1
SPECIFICATION FairSpec
INVARIANTS CellTypeOK AnswerIsTrue EvidenceIsOwn RowsPublish
PROPERTIES PeakIsCaptured EveryCellAnswered
CHECK_DEADLOCK FALSE
