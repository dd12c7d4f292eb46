\* The Tx thread and the producer on a ring of 2 x 2 descriptors, 4 packets,
\* at most one swap given up with -EINTR.
CONSTANTS
  Cap = 2
  MaxPkts = 4
  MaxIntr = 1
SPECIFICATION Spec
INVARIANT TypeOK
INVARIANT HalvesExclusive
INVARIANT DrainOrdered
PROPERTY EveryPacketDrained
