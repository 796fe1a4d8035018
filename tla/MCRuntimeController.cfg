SPECIFICATION FairSpec
CONSTANTS
  Callers = {api}
  Slow = {"source", "loop"}
  Cameras = {"openni"}
  MaxCalls = 4
  MaxFailures = 1
INVARIANTS NothingLeftBehind RunningServes UsesOpenSockets CameraReleased ReadsOpenCamera
PROPERTY StopEndsThreads
CHECK_DEADLOCK FALSE
