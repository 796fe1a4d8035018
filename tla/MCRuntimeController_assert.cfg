SPECIFICATION Spec
CONSTANTS
  Callers = {api1, api2}
  Slow = {}
  Cameras = {"v4l2"}
  MaxCalls = 2
  MaxFailures = 0
PROPERTY AssertSocket
CHECK_DEADLOCK FALSE
