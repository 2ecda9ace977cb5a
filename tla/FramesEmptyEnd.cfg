\* The same peer, which may also end a text with a frame that is empty.
SPECIFICATION Spec
CONSTANTS
  Frames <- MCFrames
  Buffers = {1, 3}
  RdMax = 2
  MsgMax = 3
  Ext = 2
  EmptyEnds = TRUE
  MaxBytes = 4
  MaxFrames = 3
  MaxAhead = 2
CHECK_DEADLOCK FALSE
INVARIANTS
  TextJudged
