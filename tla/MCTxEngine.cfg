\* Three skbs, a batch of two, a pool ring of two slots (one usable), a
\* one-entry driver queue, up to three descriptors with timestamps 0..2,
\* the device going down once and possibly for good.
CONSTANTS
  b1 = b1
  b2 = b2
  b3 = b3
  Bufs <- MCBufs
  BatchLen = 2
  PoolSize = 2
  TxSlots = 1
  MaxDesc = 3
  MaxTime = 2
  MaxDown = 1
  DriverCodes = {"NETDEV_TX_OK"}
  PFQ_USE_XMIT_MORE = TRUE

SPECIFICATION Spec

INVARIANT
  TypeOK
  RefcountBalanced
  WireInRingOrder
  NotBeforeTimestamp
  DrainAccounting

PROPERTY
  NoRefillInFlight
  DrainReturnsOnGiveUp
