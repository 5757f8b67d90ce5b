SPECIFICATION Spec
CONSTANTS
  VSize <- McVSize
  KeyList <- McKeys
  RowVals <- McRowVals
  RowConfigs <- McRow
  ColConfigs <- McCol
  FixConfigs <- McFix
  IntConfigs <- McInt
  MaxRecs = 3
INVARIANTS ImagesHoldThePage PromotedKeysSeparate MergeKeepsRanges OverflowKeptOrDiscarded
CHECK_DEADLOCK FALSE
