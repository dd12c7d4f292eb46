---------------------------- MODULE DeviceSubmit ----------------------------
(***************************************************************************)
(* pfq_batch_xmit_by_mask (pf_q-transmit.c): one call submitting the      *)
(* skbs of a batch whose index is set in a mask, under the lock of one Tx *)
(* queue.  The caller hands over one reference per masked skb (spec 4.B:  *)
(* as batch_xmit); an skb whose bit is clear keeps the one its owner      *)
(* holds.  users[k] counts the references of the skb at position k.      *)
(* skb_set_queue_mapping on each skb is left out: nothing reads it here. *)
(***************************************************************************)
EXTENDS DeviceQueue, FiniteSets

CONSTANTS
  Dev,        \* the device
  N,          \* pfq_skbuff_batch_len(skbs)
  HwQueues    \* hw_queue arguments, -1 = any

Pos == 1 .. N

VARIABLES
  mask,       \* the mask argument
  hw,         \* the hw_queue argument
  users,      \* users[k]: references of skbs->queue[k - 1]
  driver,     \* positions the driver accepted (it owns their reference)
  pc, pos, ret, txq

vars == <<mask, hw, users, driver, pc, pos, ret, txq>>

Init ==
  /\ mask \in SUBSET Pos \ {{}}
  /\ hw \in HwQueues
  /\ users = [k \in Pos |-> 1]
  /\ driver = {}
  /\ pc = "call" /\ pos = 1 /\ ret = 0 /\ txq = -1

\* txq = pfq_pick_tx(dev, skbs->queue[0], &hw_queue); __netif_tx_lock_bh.
Call ==
  /\ pc = "call"
  /\ txq' = pfq_pick_tx(Dev, hw)
  /\ pc' = "loop"
  /\ UNCHANGED <<mask, hw, users, driver, pos, ret>>

\* for_each_skbuff_bitmask passes over a clear bit.
Skip ==
  /\ pc = "loop" /\ pos \in Pos /\ pos \notin mask
  /\ pos' = pos + 1
  /\ UNCHANGED <<mask, hw, users, driver, pc, ret, txq>>

\* __pfq_xmit(skb, dev, txq, 0) == NETDEV_TX_OK: ++ret.
XmitOk ==
  /\ pc = "loop" /\ pos \in mask
  /\ driver' = driver \cup {pos}
  /\ ret' = ret + 1 /\ pos' = pos + 1
  /\ UNCHANGED <<mask, hw, users, pc, txq>>

\* Device down, queue stopped or driver busy: __pfq_xmit frees the skb;
\* goto intr.  (A driver that takes the skb and answers NET_XMIT_CN also
\* goes to intr; that case is left to TxEngine.)
XmitFail ==
  /\ pc = "loop" /\ pos \in mask
  /\ users' = [users EXCEPT ![pos] = @ - 1]
  /\ pc' = "intr"
  /\ UNCHANGED <<mask, hw, driver, pos, ret, txq>>

\* The mask is done: unlock, return ret.
LoopEnd ==
  /\ pc = "loop" /\ pos > N
  /\ pc' = "done"
  /\ UNCHANGED <<mask, hw, users, driver, pos, ret, txq>>

\* intr: for_each_skbuff_from(ret + 1, ...) kfree_skb: every skb from
\* position ret + 1 (0-based) on, whatever its bit; unlock, return ret.
Intr ==
  /\ pc = "intr"
  /\ users' = [k \in Pos |-> IF k - 1 >= ret + 1 THEN users[k] - 1 ELSE users[k]]
  /\ pc' = "done"
  /\ UNCHANGED <<mask, hw, driver, pos, ret, txq>>

Done == pc = "done" /\ UNCHANGED vars

Next == Call \/ Skip \/ XmitOk \/ XmitFail \/ LoopEnd \/ Intr \/ Done

Spec == Init /\ [][Next]_vars

\* Spec 4.B: by_mask is batch_xmit over the masked skbs: on return each
\* masked skb's reference is with the driver or freed (the first refused
\* and the masked rest), and an skb whose bit is clear is not touched.
RemainderFreed ==
  pc = "done" =>
    \A k \in Pos : users[k] = IF k \in mask \ driver THEN 0 ELSE 1

=============================================================================
