\* Messages in up to three frames of up to two bytes, each of one of three kinds.
SPECIFICATION Spec
CONSTANTS
  Frames <- MCFrames
  Buffers = {1, 3}
  RdMax = 2
  MsgMax = 3
  Ext = 2
  EmptyEnds = FALSE
  MaxBytes = 4
  MaxFrames = 3
  MaxAhead = 2
CHECK_DEADLOCK FALSE
INVARIANTS
  PayloadIntact
  TextJudged
