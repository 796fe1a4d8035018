SPECIFICATION Spec
CONSTANTS
  best = best
  other = other
  twin = twin
  Models <- MCModels
  Stem <- MCStem
  Present <- MCPresent
  Best = best
  Customs <- MCCustoms
  Scenes <- MCScenes
  Formats = {"nms", "raw"}
  Backends = {"engine", "pt", "synthetic"}
  Fallback = "pt"
  Brain = 2
  MaxJobs = 2
  MaxChanges = 1
  Width = 640
  Height = 480
  Divisor = 2
  Threshold = 25
  Classes = 2
  Anchors = 8
INVARIANT RawDecoded
CHECK_DEADLOCK FALSE
