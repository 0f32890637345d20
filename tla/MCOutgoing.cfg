\* The outgoing queues at the cap: three message ids, one class with two levels,
\* queues that hold up to two entries, and a regulator that is polled.
CONSTANTS
  m1 = m1
  m2 = m2
  m3 = m3
  f1 = f1
  negentropy = negentropy
  NoClass = NoClass
  MsgId = {m1, m2, m3}
  Frame = {f1}
  Class = {negentropy}
  Level = {0, 1}
  OutgoingQueueMax = 1
  MaxWake = 1
SPECIFICATION FairSpec
INVARIANTS
  TypeOK
  UniqueIds
  ClassUniform
  NoLostWakeup
PROPERTIES
  FirstInFirstOut
  ImplementsTxQueue
  HighDrains
  NormalDrains
  ImplementsFairTxQueue
