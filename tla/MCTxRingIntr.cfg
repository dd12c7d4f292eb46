\* Spec 4.D says an interrupted swap loses no committed data.
CONSTANTS
  Cap = 2
  MaxPkts = 4
  MaxIntr = 1
SPECIFICATION Spec
INVARIANT NoPacketLost
