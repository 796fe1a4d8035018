SPECIFICATION FairSpec
CONSTANTS
  Senders = {"loop", "app"}
  KindsOf <- MCKindsOf
  MaxPackets = 2
  MaxConnections = 3
  Nothing = Nothing
INVARIANTS HandledInOrder AcksMatch
PROPERTIES DeliveredUnlessBroken OutboxDrains
CHECK_DEADLOCK FALSE
