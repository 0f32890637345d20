\* A fast preset (ShortTurbo: note_idle 10 s, reconcile_idle 19 s): three nodes,
\* two notes, lists of one note, one copy lost.
CONSTANTS
  a = a
  b = b
  c = c
  n1 = n1
  n2 = n2
  Node = {a, b, c}
  Note = {n1, n2}
  Period = 3
  Slot <- Spread
  NoteIdle = 1
  ReconcileIdle = 1
  ListMax = 1
  MaxLoss = 1
SPECIFICATION FairSpec
PROPERTIES
  Converges
  GoesQuiet
