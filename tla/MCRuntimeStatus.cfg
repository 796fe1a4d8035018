SPECIFICATION StatusSpec
CONSTANTS
  Callers = {api}
  Slow = {}
  Cameras = {"v4l2", "scada_zmq"}
  MaxCalls = 3
  MaxFailures = 1
  Readers = {heartbeat}
  Streams = {"lidar"}
INVARIANTS ReadyMeansServing StatusConsistent
CHECK_DEADLOCK FALSE
