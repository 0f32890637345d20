\* Three nodes, one message of two fragments submitted twice, by one node or by
\* two, a fault, and time for a retry window to close.
CONSTANTS
  a = a
  b = b
  c = c
  m1 = m1
  NoData = NoData
  Node = {a, b, c}
  Base = {m1}
  NumFrag <- TwoEach
  PriorityOf <- AllNormal
  RotMod = 2
  MaxAge = 2
  Overdue = 1
  NeedSecs = 1
  QueueMax = 1
  MaxClock = 2
  MaxSend = 2
  MaxFault = 1
SPECIFICATION Spec
SYMMETRY NodeSymmetry
ACTION_CONSTRAINT OneOnAir
INVARIANTS
  RepairedInTime
PROPERTIES
  ImplementsDelivery
CHECK_DEADLOCK FALSE
