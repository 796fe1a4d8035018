SPECIFICATION Spec
CONSTANTS
  near = near
  mid = mid
  far = far
  gone = gone
  out = out
  edge = edge
  Boxes = {near, mid, far, gone, out, edge}
  Empty = {edge}
  Thin = {edge}
  Iou <- MCIou
  Clip <- MCClip
  Center <- MCCenter
  Raw <- MCRaw
  Configs <- MCConfigs
  PersonNames = {"person", "nguoi"}
  ModelNames <- MCModelNames
  Mot20 <- MCMot20
  Hallway <- MCHallway
  MaxTuned = 2
  MaxScored = 3
  MaxRuns = 2
INVARIANTS SummariesTrue AnnotationsAligned ActivitySinceLastSeen FramesInTime
PROPERTY KeepsFiles
CHECK_DEADLOCK FALSE
