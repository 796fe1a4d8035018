SPECIFICATION Spec
CONSTANTS
  Handlers = {h1, h2}
  Timeout = 2
  CheckInterval = 1
  Lag = 1
  MaxClock = 8
  None = None
PROPERTY EstopPersists
