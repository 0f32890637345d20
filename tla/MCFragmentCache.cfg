\* One message of three chunks, octets that wrap after three rotations, and time
\* for a retry window to close at every phase of the need timer.
CONSTANTS
  a = a
  NoData = NoData
  Base = {a}
  NumFrag <- ThreeEach
  RotMod = 3
  MaxAge = 5
  Overdue = 1
  NeedSecs = 3
  MaxClock = 9
SPECIFICATION Spec
INVARIANTS
  TypeOK
  CachedIntact
  DeliveredIntact
  UpcallOnce
  RepliesDecode
  OnlyInboundIncomplete
  AskedBeforeExpiry
PROPERTIES
  NothingForgotten
