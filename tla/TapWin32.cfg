SPECIFICATION FairSpec
CONSTANTS
  Buffers = {b1, b2, b3}
  NULL = NULL
  MaxFrames = 5
  MaxPackets = 2
CHECK_DEADLOCK FALSE
INVARIANTS ListsSound FramesInOrder
PROPERTIES FramesSent
