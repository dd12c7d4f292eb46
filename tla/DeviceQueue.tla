---------------------------- MODULE DeviceQueue ----------------------------
(***************************************************************************)
(* Choice of the hardware Tx queue of a device (pf_q-transmit.c):         *)
(* pfq_pick_tx and __pfq_dev_cap_txqueue.  A Tx queue is named by its     *)
(* index; netdev_get_tx_queue(dev, q) is the queue q of dev.              *)
(***************************************************************************)
EXTENDS Integers

CONSTANTS
  Devs,     \* net devices
  Real,     \* Real[d]: dev->real_num_tx_queues
  Select    \* Select[d]: what ndo_select_queue returns, 0 without one

ASSUME /\ \A d \in Devs : Real[d] \in Nat \ {0}
       /\ \A d \in Devs : Select[d] \in 0 .. Real[d] - 1

\* skb_set_queue_mapping stores the queue in the u16 skb->queue_mapping.
QueueMapping(hw) == hw % 65536

\* hw_queue >= dev->real_num_tx_queues compares an int with an unsigned
\* int: a negative hw_queue converts to at least 2^31, above any count.
UnsignedGE(hw, real) == hw < 0 \/ hw >= real

\* Mutation of __pfq_dev_cap_txqueue: > in place of >=.
CapTxQueueOffByOne(d, hw) == IF hw < 0 \/ hw > Real[d] THEN 0 ELSE hw

__pfq_dev_cap_txqueue(d, hw) == IF UnsignedGE(hw, Real[d]) THEN 0 ELSE hw

\* -1 means any queue: a multi-queue device lets its driver select one.
pfq_pick_tx(d, hw) ==
  LET h == IF Real[d] # 1 /\ hw = -1 THEN Select[d] ELSE hw
  IN  __pfq_dev_cap_txqueue(d, h)

=============================================================================
