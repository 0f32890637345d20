\* Progress under the link mutex: one message of two fragments.
CONSTANTS
  note = note
  big = big
  negentropy = negentropy
  NoClass = NoClass
  NoData = NoData
  Short = {}
  Base = {big}
  NumFrag <- TwoEach
  RotMod = 1
  MaxAge = 5
  Overdue = 1
  Submit <- BigNote
  Class = {negentropy}
  Level = {0}
  OutgoingQueueMax = 0
  MaxWake = 1
SPECIFICATION FairSpec
PROPERTIES
  LinkServed
  HighDrains
