SPECIFICATION Spec
CONSTANTS
  People <- MCPeople
  MaxPeople = 2
  Rows <- MCRows
  Readings <- MCReadings
  Shipped <- MCShipped
INVARIANTS DecisionTypeOK HoldNeedsPrevious CarefulWhenCloser
PROPERTY OutputOnceDeployed
