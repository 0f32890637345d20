\* The unwrap in enqueue against the order of Link::start.
CONSTANTS
  note = note
  big = big
  negentropy = negentropy
  NoClass = NoClass
  NoData = NoData
  Short = {note}
  Base = {big}
  NumFrag <- TwoEach
  RotMod = 1
  MaxAge = 5
  Overdue = 1
  Submit <- NoteAndBig
  Class = {negentropy}
  Level = {0}
  OutgoingQueueMax = 1
  MaxWake = 1
SPECIFICATION Spec
INVARIANTS NotifyIsSet
