------------------------------ MODULE TxEngine ------------------------------
(***************************************************************************)
(* One drain of a Tx ring half by __pfq_queue_xmit (pf_q-transmit.c):      *)
(* the walk over the descriptors, the short batch, the pacing wait, the    *)
(* submission through full_batch_xmit / pfq_batch_xmit / __pfq_xmit, the   *)
(* recycling of sent buffers into the per-cpu skb pool, and the final      *)
(* accounting of sent and discarded packets.                               *)
(*                                                                         *)
(* The engine is one thread; what interleaves with it is its environment:  *)
(* the wall clock, the give-up condition (signal pending or kthread stop), *)
(* the device going down and up, and the driver completing transmissions,  *)
(* which drops the driver's reference on an skb (that is what the pool's  *)
(* refcount gate in pfq_skb_pool_pop waits for).                           *)
(*                                                                         *)
(* A descriptor is its timestamp; packet i is the i-th descriptor of the   *)
(* half.  Payload and lengths are abstracted away (TxRingLayout is about   *)
(* them).                                                                  *)
(***************************************************************************)
EXTENDS Naturals, Sequences, FiniteSets, SequencesExt

CONSTANTS
  Bufs,       \* skb buffers (model values): the kernel's supply of skbs
  BatchLen,   \* batch_len: capacity of the short batch
  PoolSize,   \* size of the tx skb pool ring (holds PoolSize - 1 skbs)
  TxSlots,    \* entries of the driver's hw queue; full = queue stopped
  MaxDesc,    \* most descriptors in the drained half
  MaxTime,    \* the clock runs over 0..MaxTime
  MaxDown,    \* how many times the device may go down
  DriverCodes, \* what ndo_start_xmit may return when its queue has room
  PFQ_USE_XMIT_MORE \* the build defines PFQ_USE_XMIT_MORE

ASSUME BatchLen \in Nat \ {0} /\ PoolSize \in Nat \ {0} /\ TxSlots \in Nat \ {0}
ASSUME DriverCodes \subseteq {"NETDEV_TX_OK", "NET_XMIT_CN"}
ASSUME PFQ_USE_XMIT_MORE \in BOOLEAN

VARIABLES
  desc,       \* the drained half: desc[i] = nsec of descriptor i
  pc,         \* engine program counter
  ptr,        \* cursor: index of the next descriptor
  now,        \* the engine's last reading of the clock
  batch,      \* the short batch skbs (sequence of buffers)
  caller,     \* where full_batch_xmit returns: "loop" or "final"
  total,      \* full_batch_xmit's running count of sent skbs
  ret,        \* pfq_batch_xmit's count of skbs accepted by the driver
  intr,       \* full_batch_xmit returned ~total (interrupted)
  totSent,    \* tot_sent
  disc,       \* disc
  pool,       \* the per-cpu tx skb pool, oldest first
  users,      \* users[b]: skb reference count, 0 = back to the kernel
  content,    \* content[b]: descriptor whose bytes b carries
  inflight,   \* skbs held by the driver, in submission order
  wire,       \* history: what the driver accepted, with time and hint
  clock,      \* wall clock (ktime_get_real)
  giveup,     \* giveup_tx_process(): signal pending or kthread stop
  devUp,      \* dev->flags & IFF_UP
  downs       \* times the device went down

vars == <<desc, pc, ptr, now, batch, caller, total, ret, intr, totSent, disc,
          pool, users, content, inflight, wire, clock, giveup, devUp, downs>>

engineVars == <<pc, ptr, now, batch, caller, total, ret, intr, totSent, disc,
                pool, users, content, inflight, wire>>

envVars == <<clock, giveup, devUp, downs>>

Times == 0 .. MaxTime

-----------------------------------------------------------------------------
(* Helpers                                                                 *)

\* Number of occurrences of b in sequence s.
Occurrences(s, b) == Cardinality({i \in DOMAIN s : s[i] = b})

\* users[] with every skb of sequence s released once (kfree_skb).
Release(u, s) == [b \in Bufs |-> u[b] - Occurrences(s, b)]

\* users[] with every skb of s referenced once more (skb_get).
Acquire(u, s) == [b \in Bufs |-> u[b] + Occurrences(s, b)]

\* Mutation of TryPush: the next(p) == c full test is missing.
TryPushNoFull(pl, s) == pl \o s

\* pfq_skb_pool_push of the skbs of s in order: each goes in while the
\* ring has room (next(p) # c: at most PoolSize - 1 entries).
TryPush(pl, s) == pl \o SubSeq(s, 1, IF Len(s) < (PoolSize - 1) - Len(pl)
                                      THEN Len(s) ELSE (PoolSize - 1) - Len(pl))

\* pfq_kfree_skb_pool of the skbs of s: those that do not fit are freed
\* through kfree_skb.  Returns the new pool and users.
Recycle(pl, u, s) ==
  LET kept == TryPush(pl, s) IN
  [pool  |-> kept,
   users |-> Release(u, SubSeq(s, Len(kept) - Len(pl) + 1, Len(s)))]

\* Mutation of CanReuse: pop ignores the refcount of the head skb.
CanReuseNoGate(pl, u) == pl # <<>>

\* pfq_skb_pool_pop may hand out the head skb: the ring is not empty and
\* nobody but the pool holds it (atomic_read(&skb->users) < 2).
CanReuse(pl, u) == pl # <<>> /\ u[Head(pl)] < 2

\* traverse_tx_queue (release build): ptr < end && hdr->len != 0.
traverse_tx_queue(p) == p <= Len(desc)

transmission_required(len, n, ts) == len = BatchLen \/ (len > 0 /\ ts > n)

\* __pfq_xmit reaches ndo_start_xmit and the driver takes the skb: the
\* device is up and its queue is not stopped (the hw queue has room).
DriverAccepts == devUp /\ Len(inflight) < TxSlots

\* The result of __pfq_xmit: -ENETDOWN, after kfree_skb, when the driver is
\* not reached; otherwise rc of ndo_start_xmit.  Both codes of DriverCodes
\* pass dev_xmit_complete (rc < NET_XMIT_MASK): the driver took the skb.
XmitResults == IF DriverAccepts THEN DriverCodes ELSE {"ENETDOWN"}

-----------------------------------------------------------------------------
(* Engine: __pfq_queue_xmit                                                *)

Init ==
  /\ desc \in UNION {[1 .. n -> Times] : n \in 0 .. MaxDesc}
  /\ pc = "loop"
  /\ ptr = 1
  /\ now = 0
  /\ batch = <<>>
  /\ caller = "loop"
  /\ total = 0
  /\ ret = 0
  /\ intr = FALSE
  /\ totSent = 0
  /\ disc = 0
  /\ pool = <<>>
  /\ users = [b \in Bufs |-> 0]
  /\ content = [b \in Bufs |-> 0]
  /\ inflight = <<>>
  /\ wire = <<>>
  /\ clock = 0
  /\ giveup = FALSE
  /\ devUp = TRUE
  /\ downs = 0

\* Head of the Tx loop: stop at the terminator, or read the timestamp and
\* flush the batch first when transmission_required says so.
QueueXmitLoop ==
  /\ pc = "loop"
  /\ IF traverse_tx_queue(ptr)
       THEN IF transmission_required(Len(batch), now, desc[ptr])
              THEN pc' = "fbx" /\ caller' = "loop" /\ total' = 0
              ELSE pc' = "wait" /\ UNCHANGED <<caller, total>>
       ELSE pc' = "final" /\ UNCHANGED <<caller, total>>
  /\ UNCHANGED <<ptr, now, batch, ret, intr, totSent, disc, pool, users,
                 content, inflight, wire, desc>>
  /\ UNCHANGED envVars

\* Mutation of wait_until: one clock read, no spinning.
wait_until_once ==
  /\ pc = "wait"
  /\ now' = IF desc[ptr] > now THEN clock ELSE now
  /\ pc' = "alloc"
  /\ UNCHANGED <<desc, ptr, batch, caller, total, ret, intr, totSent, disc,
                 pool, users, content, inflight, wire>>
  /\ UNCHANGED envVars

\* if (last_ts > now) now = wait_until(last_ts): spin on the clock until it
\* reaches the timestamp or the engine must give up.
wait_until ==
  /\ pc = "wait"
  /\ desc[ptr] > now => (clock >= desc[ptr] \/ giveup)
  /\ now' = IF desc[ptr] > now THEN clock ELSE now
  /\ pc' = "alloc"
  /\ UNCHANGED <<desc, ptr, batch, caller, total, ret, intr, totSent, disc,
                 pool, users, content, inflight, wire>>
  /\ UNCHANGED envVars

\* pfq_tx_alloc_skb, fill the skb, push it into the batch, advance ptr.
\* The skb comes from the tx pool when pfq_skb_pool_pop allows it, else
\* from the kernel; when there is none the loop breaks.
AllocSkb ==
  /\ pc = "alloc"
  /\ LET fromPool == CanReuse(pool, users)
         free     == {b \in Bufs : users[b] = 0}
     IN  IF fromPool \/ free # {}
           THEN \E b \in IF fromPool THEN {Head(pool)} ELSE free :
                  /\ pool' = IF fromPool THEN Tail(pool) ELSE pool
                  /\ users' = [users EXCEPT ![b] = 1]
                  /\ content' = [content EXCEPT ![b] = ptr]
                  /\ batch' = Append(batch, b)
                  /\ ptr' = ptr + 1
                  /\ pc' = "loop"
           ELSE /\ pc' = "final"
                /\ UNCHANGED <<pool, users, content, batch, ptr>>
  /\ UNCHANGED <<desc, now, caller, total, ret, intr, totSent, disc,
                 inflight, wire>>
  /\ UNCHANGED envVars

\* After the loop: flush what is left in the batch.
FlushBatch ==
  /\ pc = "final"
  /\ IF batch # <<>>
       THEN pc' = "fbx" /\ caller' = "final" /\ total' = 0
       ELSE pc' = "end" /\ UNCHANGED <<caller, total>>
  /\ UNCHANGED <<desc, ptr, now, batch, ret, intr, totSent, disc, pool,
                 users, content, inflight, wire>>
  /\ UNCHANGED envVars

\* Free the skbs left in the batch into the pool, count them and every
\* descriptor not reached as discarded, add the stats, clear the half.
QueueXmitEnd ==
  /\ pc = "end"
  /\ LET r == Recycle(pool, users, batch) IN
       /\ pool' = r.pool
       /\ users' = r.users
  /\ disc' = Len(batch) + (Len(desc) - ptr + 1)
  /\ batch' = <<>>
  /\ pc' = "done"
  /\ UNCHANGED <<desc, ptr, now, caller, total, ret, intr, totSent, content,
                 inflight, wire>>
  /\ UNCHANGED envVars

-----------------------------------------------------------------------------
(* full_batch_xmit and pfq_batch_xmit                                      *)

\* Mutation of FullBatchXmitReturn: an interrupted flush adds nothing.
FullBatchXmitReturnDropIntr(interrupted) ==
  /\ totSent' = IF interrupted THEN totSent ELSE totSent + total
  /\ pc' = CASE caller = "final" -> "end"
             [] interrupted      -> "final"
             [] OTHER            -> "wait"
  /\ intr' = interrupted

\* Return of full_batch_xmit to its caller: tot_sent += sent or ~sent; the
\* Tx loop breaks on an interrupted flush.
FullBatchXmitReturn(interrupted) ==
  /\ totSent' = totSent + total
  /\ pc' = CASE caller = "final" -> "end"
             [] interrupted      -> "final"
             [] OTHER            -> "wait"
  /\ intr' = interrupted

\* Mutation of full_batch_xmit: the loop never checks giveup_tx_process.
full_batch_xmit_no_giveup ==
  /\ pc = "fbx"
  /\ IF batch = <<>>
       THEN FullBatchXmitReturn(FALSE) /\ UNCHANGED <<users, ret>>
     ELSE /\ users' = Acquire(users, batch)
          /\ ret' = 0
          /\ pc' = "bx"
          /\ UNCHANGED <<totSent, intr>>
  /\ UNCHANGED <<desc, ptr, now, batch, caller, total, disc, pool, content,
                 inflight, wire>>
  /\ UNCHANGED envVars

\* Loop head of full_batch_xmit: return when the batch is empty or the
\* process must give up; otherwise take a reference on every skb of the
\* batch and enter pfq_batch_xmit (which picks and locks the txq).
full_batch_xmit ==
  /\ pc = "fbx"
  /\ IF batch = <<>>
       THEN FullBatchXmitReturn(FALSE) /\ UNCHANGED <<users, ret>>
     ELSE IF giveup
       THEN FullBatchXmitReturn(TRUE) /\ UNCHANGED <<users, ret>>
     ELSE /\ users' = Acquire(users, batch)
          /\ ret' = 0
          /\ pc' = "bx"
          /\ UNCHANGED <<totSent, intr>>
  /\ UNCHANGED <<desc, ptr, now, batch, caller, total, disc, pool, content,
                 inflight, wire>>
  /\ UNCHANGED envVars

\* The reference on skb n the driver did not take: __pfq_xmit freed it
\* unless the driver consumed the skb (NET_XMIT_CN).
Refused(n, rc) == IF rc = "ENETDOWN" THEN <<batch[n]>> ELSE <<>>

\* Mutation of BatchXmitFail: the error path frees from skb ret, not ret+1.
BatchXmitFailFromRet(n, rc) ==
  Release(Release(users, Refused(n, rc)), SubSeq(batch, n, Len(batch)))

\* Error path of pfq_batch_xmit (rc != NETDEV_TX_OK): the intr label frees
\* the remaining skbs (for_each_skbuff_from(ret + 1)).
BatchXmitFail(n, rc) ==
  Release(Release(users, Refused(n, rc)), SubSeq(batch, n + 1, Len(batch)))

\* The xmit_more hint of skb n: n != last.
XmitMore(n) == n # Len(batch)

\* What __pfq_xmit stores in skb->xmit_more: the hint, forced to 0 unless
\* the build defines PFQ_USE_XMIT_MORE.
XmitMoreHint(n) == PFQ_USE_XMIT_MORE /\ XmitMore(n)

\* One iteration of for_each_skbuff in pfq_batch_xmit: __pfq_xmit of skb
\* number ret+1 with its hint.  Only NETDEV_TX_OK counts: any other result
\* cuts the batch short, also when the driver queued the skb.
BatchXmitStep ==
  /\ pc = "bx"
  /\ \E rc \in XmitResults :
       LET n == ret + 1
           b == batch[n]
       IN  /\ inflight' = IF rc = "ENETDOWN" THEN inflight
                                             ELSE Append(inflight, b)
           /\ wire' = IF rc = "ENETDOWN" THEN wire
                      ELSE Append(wire, [pkt  |-> content[b], at |-> clock,
                                         more |-> XmitMoreHint(n)])
           /\ IF rc = "NETDEV_TX_OK"
                THEN /\ ret' = n
                     /\ pc' = IF n = Len(batch) THEN "fbxret" ELSE "bx"
                     /\ UNCHANGED users
                ELSE /\ users' = BatchXmitFail(n, rc)
                     /\ pc' = "fbxret"
                     /\ UNCHANGED ret
  /\ UNCHANGED <<desc, ptr, now, batch, caller, total, intr, totSent, disc,
                 pool, content>>
  /\ UNCHANGED envVars

\* Mutation of FullBatchXmitSent: drop_n one short, the last sent skb stays.
FullBatchXmitSentOneShort(sent) == SubSeq(batch, sent, Len(batch))

\* The batch after pfq_skbuff_batch_drop_n(skbs, sent).
FullBatchXmitSent(sent) == SubSeq(batch, sent + 1, Len(batch))

\* Back in full_batch_xmit: nothing sent means relax and retry; otherwise
\* count the sent skbs, recycle them into the tx pool and drop them.
BatchXmitReturn ==
  /\ pc = "fbxret"
  /\ IF ret = 0
       THEN UNCHANGED <<total, pool, users, batch>>
       ELSE LET r == Recycle(pool, users, SubSeq(batch, 1, ret)) IN
              /\ total' = total + ret
              /\ pool' = r.pool
              /\ users' = r.users
              /\ batch' = FullBatchXmitSent(ret)
  /\ pc' = "fbx"
  /\ UNCHANGED <<desc, ptr, now, caller, ret, intr, totSent, disc, content,
                 inflight, wire>>
  /\ UNCHANGED envVars

\* The drain has returned.
Done == pc = "done" /\ UNCHANGED vars

-----------------------------------------------------------------------------
(* Environment                                                             *)

Tick == clock < MaxTime /\ clock' = clock + 1
        /\ UNCHANGED <<desc, giveup, devUp, downs>> /\ UNCHANGED engineVars

\* A signal arrives or kthread_stop is called; neither is withdrawn while
\* the drain runs.
GiveUp == ~giveup /\ giveup' = TRUE
          /\ UNCHANGED <<desc, clock, devUp, downs>> /\ UNCHANGED engineVars

DevDown == devUp /\ downs < MaxDown /\ devUp' = FALSE /\ downs' = downs + 1
           /\ UNCHANGED <<desc, clock, giveup>> /\ UNCHANGED engineVars

DevUp == ~devUp /\ devUp' = TRUE
         /\ UNCHANGED <<desc, clock, giveup, downs>> /\ UNCHANGED engineVars

\* The driver completes the oldest transmission and drops its reference.
TxComplete ==
  /\ inflight # <<>>
  /\ users' = [users EXCEPT ![Head(inflight)] = @ - 1]
  /\ inflight' = Tail(inflight)
  /\ UNCHANGED <<desc, pc, ptr, now, batch, caller, total, ret, intr, totSent,
                 disc, pool, content, wire>>
  /\ UNCHANGED envVars

Engine == QueueXmitLoop \/ wait_until \/ AllocSkb \/ FlushBatch
          \/ QueueXmitEnd \/ full_batch_xmit \/ BatchXmitStep
          \/ BatchXmitReturn

Environment == Tick \/ GiveUp \/ DevDown \/ DevUp \/ TxComplete

Next == Engine \/ Environment \/ Done

\* The engine thread runs whenever it can (a kthread that only sleeps in
\* cond_resched / relaxation); time passes and the driver completes what it
\* was given.  The device may go down and stay down for good: nothing in
\* the code brings it back.
EngineFairness == WF_vars(Engine) /\ WF_vars(Tick) /\ WF_vars(TxComplete)

Spec == Init /\ [][Next]_vars /\ EngineFairness

-----------------------------------------------------------------------------
(* Properties                                                              *)

TypeOK ==
  /\ pc \in {"loop", "wait", "alloc", "final", "end", "fbx", "bx", "fbxret",
             "done"}
  /\ ptr \in 1 .. MaxDesc + 1
  /\ now \in Times /\ clock \in Times
  /\ batch \in Seq(Bufs) /\ Len(batch) <= BatchLen
  /\ pool \in Seq(Bufs) /\ Len(pool) < PoolSize
  /\ inflight \in Seq(Bufs) /\ Len(inflight) <= TxSlots
  /\ users \in [Bufs -> 0 .. 3]
  /\ content \in [Bufs -> 0 .. MaxDesc]
  /\ totSent \in Nat /\ disc \in Nat /\ total \in Nat /\ ret \in Nat

\* References each holder keeps on skb b: the batch, the pool, the driver,
\* and, inside pfq_batch_xmit, the skb_get of full_batch_xmit on every skb
\* not yet handed to __pfq_xmit.
Holders(b) ==
  Occurrences(batch, b) + Occurrences(pool, b) + Occurrences(inflight, b)
  + (IF pc = "bx" THEN Occurrences(SubSeq(batch, ret + 1, Len(batch)), b)
     ELSE 0)

\* Refcount discipline of the skb_get in full_batch_xmit, the kfree_skb in
\* __pfq_xmit and on the error path of pfq_batch_xmit, the pool and the
\* driver: every skb's users count equals the references actually held, so
\* no skb is freed while in use and none is leaked.
RefcountBalanced == \A b \in Bufs : users[b] = Holders(b)

\* A skb entering the batch (from pfq_skb_pool_pop or the kernel) is not
\* still queued in the driver: the pool's users < 2 gate keeps a recycled
\* skb from being refilled while the hardware still transmits it.
NoRefillInFlight ==
  [][\A b \in Bufs : (b \in ToSet(batch') /\ b \notin ToSet(batch))
                      => b \notin ToSet(inflight)]_vars

\* The driver receives the ring's packets once each, in ring order, with
\* no gap: retries after a partial pfq_batch_xmit resume at the first
\* unsent skb.
WireInRingOrder == \A i \in DOMAIN wire : wire[i].pkt = i

\* No packet reaches the driver before its timestamp (pacing through
\* transmission_required and wait_until, also when giving up).
NotBeforeTimestamp == \A i \in DOMAIN wire : wire[i].at >= desc[wire[i].pkt]

\* When the drain returns, tot_sent counts exactly the packets the driver
\* accepted, and sent + disc is the number of descriptors of the half.
DrainAccounting ==
  pc = "done" => /\ totSent = Len(wire)
                 /\ totSent + disc = Len(desc)

\* Spec P6 and test S1: each pfq_batch_xmit call hands its last submission
\* to the driver with xmit_more cleared, so the driver does not wait for
\* more packets that are not coming.
XmitMoreClearedAtEnd ==
  [][(pc = "bx" /\ pc' = "fbxret" /\ ret' > 0) => ~Last(wire').more]_vars

\* Once a signal is pending or kthread_stop is called (giveup_tx_process),
\* the drain returns, even when the device went down and never comes back:
\* the retry loop of full_batch_xmit must give up rather than spin on a
\* dead driver, and wait_until must stop waiting for the timestamp.
DrainReturnsOnGiveUp == giveup ~> (pc = "done")

=============================================================================
