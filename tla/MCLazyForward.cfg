\* LazyForward: 2 buffers, 2 devices (1 and 2 Tx queues), hw_queue -1, 0
\* or 1, a GC log of 2 entries, 3 annotation calls before the commit.
CONSTANTS
  eth0 = eth0
  eth1 = eth1
  Devs <- MCDevs
  Real <- MCReal
  Select <- MCSelect
  NBufs = 2
  HwQueues <- MCHwQueues
  LogLen = 2
  MaxCalls = 3
SPECIFICATION Spec
INVARIANT TypeOK
INVARIANT QueueInRange
INVARIANT FanOutInOrder
INVARIANT LastHintCleared
INVARIANT OriginalLast
