SPECIFICATION StoreFairSpec
CONSTANTS
  Reader = {w1, w2}
  ThumbnailTTL = 3
  SaveTime = 2
  Pictures = 3
  Failures = 1
  PartsOf <- MCPartsOf
  None = None
INVARIANTS FileSettled QuietReadsWhole
PROPERTIES ShownInTheEnd
CHECK_DEADLOCK FALSE
