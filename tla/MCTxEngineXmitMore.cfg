\* Three skbs, a batch of two, a pool ring of two slots (one usable), a
\* one-entry driver queue, up to three descriptors with timestamps 0..2,
\* the device going down once.  Spec P6 / test S1: the last submission of
\* each pfq_batch_xmit call has xmit_more cleared, in a build that
\* defines PFQ_USE_XMIT_MORE (without it the hint is always 0).
CONSTANTS
  b1 = b1
  b2 = b2
  b3 = b3
  Bufs <- MCBufs
  BatchLen = 2
  PoolSize = 2
  TxSlots = 1
  MaxDesc = 3
  MaxTime = 2
  MaxDown = 1
  DriverCodes = {"NETDEV_TX_OK"}
  PFQ_USE_XMIT_MORE = TRUE

SPECIFICATION Spec

PROPERTY
  XmitMoreClearedAtEnd
