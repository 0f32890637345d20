\* One short note, one message of two fragments, queues of two entries.
CONSTANTS
  note = note
  big = big
  negentropy = negentropy
  NoClass = NoClass
  NoData = NoData
  Short = {note}
  Base = {big}
  NumFrag <- TwoEach
  RotMod = 1
  MaxAge = 5
  Overdue = 1
  Submit <- NoteAndBig
  Class = {negentropy}
  Level = {0}
  OutgoingQueueMax = 1
  MaxWake = 1
SPECIFICATION Spec
INVARIANTS
  TypeOK
  SentIsCached
PROPERTIES
  NoQueuedCopy
