\* Every buffer of up to six octets; every event of up to five characters,
\* strings and tags, with strings on both sides of the compression threshold.
CONSTANTS
  MaxLen = 6
  MaxText = 5
  CompressOver = 2
SPECIFICATION Spec
INVARIANTS
  RoundTrip
  NeverOnAir
  Canonical
  StringRoundTrip
  PeerDecodes
CHECK_DEADLOCK FALSE
