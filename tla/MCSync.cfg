\* Two notes against a memory of one, queue lengths on both sides of both
\* thresholds, one pinger, under fairness.
CONSTANTS
  n1 = n1
  n2 = n2
  NoNote = NoNote
  Note = {n1, n2}
  Qlen = {0, 1, 2, 3}
  NegLevel = {0}
  RefillThresh = 1
  PauseThresh = 3
  NoteIdle = 1
  ReconcileIdle = 2
  RecentCapacity = 1
  MaxPingers = 1
SPECIFICATION FairSpec
INVARIANTS TypeOK
PROPERTIES
  NoEcho
  PausedIsSilent
  InitiatesWhenQuiet
