\* Two runs, a preset and two settings the code cannot use; a note from the mesh, and
\* from local clients or the gateway a note and an event of another kind.
CONSTANTS
  p1 = p1
  custom = custom
  unknown = unknown
  n1 = n1
  n2 = n2
  other = other
  Preset = {p1}
  Unusable = {custom, unknown}
  MeshNote = {n1}
  LocalNote = {n2, other}
  Valid = {n1, n2, other}
  KindOne = {n1, n2}
  Parsable = {n1, n2, other}
  Holdoff = 1
  MaxRuns = 2
  MaxWire = 1
  MaxOut = 2
SPECIFICATION FairSpec
ACTION_CONSTRAINT NewEvents
INVARIANTS
  ConfigIsOurs
  ReadyThenInfo
PROPERTIES
  ReadyWhenSettled
  LocalNotesRelayed
  NotesReachClients
