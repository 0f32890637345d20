\* The baseline preset (MediumFast: note_idle 60 s, reconcile_idle 120 s): two
\* nodes with short lists and no losses.
CONSTANTS
  a = a
  b = b
  c = c
  n1 = n1
  n2 = n2
  Node = {a, b}
  Note = {n1, n2}
  Period = 3
  Slot <- Pair
  NoteIdle = 3
  ReconcileIdle = 6
  ListMax = 2
  MaxLoss = 0
SPECIFICATION FairSpec
PROPERTIES Converges
