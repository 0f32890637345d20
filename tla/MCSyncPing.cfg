\* The doc comment of stop_pinging against the pinger's loop.
CONSTANTS
  n1 = n1
  n2 = n2
  NoNote = NoNote
  Note = {n1}
  Qlen = {}
  NegLevel = {}
  RefillThresh = 1
  PauseThresh = 3
  NoteIdle = 0
  ReconcileIdle = 0
  RecentCapacity = 1
  MaxPingers = 1
SPECIFICATION Spec
PROPERTIES StopsPinging
