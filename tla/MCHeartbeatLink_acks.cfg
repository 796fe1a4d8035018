SPECIFICATION FairSpec
CONSTANTS
  Senders = {"loop", "app"}
  KindsOf <- MCKindsOf
  MaxPackets = 2
  MaxConnections = 2
  Nothing = Nothing
PROPERTY AcksHandled
CHECK_DEADLOCK FALSE
