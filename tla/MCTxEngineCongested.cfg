\* As MCTxEngine.cfg, and the driver may answer NET_XMIT_CN: it queues the
\* skb but reports congestion.  Does every packet still reach the driver
\* once, in ring order?
CONSTANTS
  b1 = b1
  b2 = b2
  b3 = b3
  Bufs <- MCBufs
  BatchLen = 2
  PoolSize = 2
  TxSlots = 1
  MaxDesc = 3
  MaxTime = 2
  MaxDown = 1
  DriverCodes = {"NETDEV_TX_OK", "NET_XMIT_CN"}
  PFQ_USE_XMIT_MORE = TRUE

SPECIFICATION Spec

INVARIANT
  WireInRingOrder
