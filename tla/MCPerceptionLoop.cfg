SPECIFICATION FairSpec
CONSTANTS
  left = left
  right = right
  edge = edge
  Boxes = {left, right, edge}
  Empty = {edge}
  Iou <- MCIou
  IouThreshold = 1
  MaxMissed = 1
  Pictures <- MCPictures
  Garbled = Garbled
  DetectEveryN = 3
  MaxFrames = 3
  MaxAttempts = 7
  MaxFailures = 2
  MaxLives = 2
INVARIANTS FramesInOrder ConfirmedAsDetected BoundedStaleness
PROPERTY EventuallyPublished
CHECK_DEADLOCK FALSE
