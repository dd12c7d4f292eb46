---------------------------- MODULE LazyForward ----------------------------
(***************************************************************************)
(* Lazy forwarding (pf_q-transmit.c): while a batch of captured buffers   *)
(* is processed, pfq_lazy_xmit and its batch variants annotate a buffer  *)
(* with a target device in its GC log; pfq_lazy_xmit_exec then sends,     *)
(* device by device under the lock of one Tx queue, every buffer as many  *)
(* times as its log names the device.                                     *)
(*                                                                         *)
(* Buffers are 1..NBufs in the order of gc->pool.  The lazy_fwd_targets   *)
(* and gc_count_dev_in_log are built outside this source tree (pf_q-GC):  *)
(* from spec 2 and 4.F, the targets list each device of the logs once,   *)
(* in some order, with cnt = the number of log entries naming it.         *)
(***************************************************************************)
EXTENDS DeviceQueue, Sequences, SequencesExt, FiniteSets

CONSTANTS
  NBufs,      \* buffers in the GC pool
  HwQueues,   \* hw_queue arguments of pfq_lazy_xmit, -1 = any
  LogLen,     \* Q_GC_LOG_QUEUE_LEN
  MaxCalls    \* pfq_lazy_xmit and batch calls before the commit

Bufs == 1 .. NBufs
NULL == -1            \* txq not yet taken for the current device

VARIABLES
  log,        \* log[b]: gc->log[b].dev[0 .. num_devs - 1]
  req,        \* req[b]: the hw_queue of each annotation (history)
  qmap,       \* qmap[b]: skb->queue_mapping
  todo,       \* todo[b]: gc->log[b].xmit_todo
  toKernel,   \* toKernel[b]: gc->log[b].to_kernel
  calls,      \* annotation calls so far
  phase,      \* "fwd", then "scan" / "xmit" inside the exec, then "done"
  ts,         \* ts->dev, and cnt computed from it
  n, i, j,    \* loop indices of pfq_lazy_xmit_exec (1-based n, i)
  sentDev,    \* sent_dev
  txq,        \* the locked Tx queue of ts->dev[n], or NULL
  subs        \* history of submissions [dev, buf, queue, more, get]

vars == <<log, req, qmap, todo, toKernel, calls, phase, ts, n, i, j,
          sentDev, txq, subs>>

\* gc_count_dev_in_log(dev, log)
gc_count_dev_in_log(d, b) == Cardinality({k \in DOMAIN log[b] : log[b][k] = d})

\* ts->cnt[n]: the log entries naming ts->dev[n], over all buffers.
cnt(d) == LET F[k \in 0 .. NBufs] ==
                IF k = 0 THEN 0 ELSE F[k - 1] + gc_count_dev_in_log(d, k)
          IN  F[NBufs]

Init ==
  /\ log = [b \in Bufs |-> <<>>]
  /\ req = [b \in Bufs |-> <<>>]
  /\ qmap = [b \in Bufs |-> 0]       \* the Rx queue; overwritten when used
  /\ todo = [b \in Bufs |-> 0]
  /\ toKernel \in [Bufs -> BOOLEAN]     \* set by the functional engine
  /\ calls = 0
  /\ phase = "fwd"
  /\ ts = <<>> /\ n = 1 /\ i = 1 /\ j = 0 /\ sentDev = 0 /\ txq = NULL
  /\ subs = <<>>

-----------------------------------------------------------------------------
(* Annotation                                                              *)

\* Mutation of Annotate: xmit_todo counted before the full-log check.
AnnotateTodoFirst(S, d, hw) ==
  LET ok(b) == b \in S /\ Len(log[b]) < LogLen
  IN  /\ qmap' = [b \in Bufs |-> IF ok(b) THEN QueueMapping(hw) ELSE qmap[b]]
      /\ log'  = [b \in Bufs |-> IF ok(b) THEN Append(log[b], d) ELSE log[b]]
      /\ req'  = [b \in Bufs |-> IF ok(b) THEN Append(req[b], hw) ELSE req[b]]
      /\ todo' = [b \in Bufs |-> IF b \in S THEN todo[b] + 1 ELSE todo[b]]

\* Mutation of Annotate: xmit_todo never incremented.
AnnotateNoTodo(S, d, hw) ==
  LET ok(b) == b \in S /\ Len(log[b]) < LogLen
  IN  /\ qmap' = [b \in Bufs |-> IF ok(b) THEN QueueMapping(hw) ELSE qmap[b]]
      /\ log'  = [b \in Bufs |-> IF ok(b) THEN Append(log[b], d) ELSE log[b]]
      /\ req'  = [b \in Bufs |-> IF ok(b) THEN Append(req[b], hw) ELSE req[b]]
      /\ UNCHANGED todo

\* pfq_lazy_xmit on every buffer of S: a buffer whose log is full is left
\* alone (return 0); otherwise skb_set_queue_mapping(skb, hw_queue),
\* log->dev[log->num_devs++] = dev, log->xmit_todo++.
Annotate(S, d, hw) ==
  LET ok(b) == b \in S /\ Len(log[b]) < LogLen
  IN  /\ qmap' = [b \in Bufs |-> IF ok(b) THEN QueueMapping(hw) ELSE qmap[b]]
      /\ log'  = [b \in Bufs |-> IF ok(b) THEN Append(log[b], d) ELSE log[b]]
      /\ req'  = [b \in Bufs |-> IF ok(b) THEN Append(req[b], hw) ELSE req[b]]
      /\ todo' = [b \in Bufs |-> IF ok(b) THEN todo[b] + 1 ELSE todo[b]]

AnnotateStep(S, d, hw) ==
  /\ phase = "fwd" /\ calls < MaxCalls
  /\ Annotate(S, d, hw)
  /\ calls' = calls + 1
  /\ UNCHANGED <<toKernel, phase, ts, n, i, j, sentDev, txq, subs>>

pfq_lazy_xmit(b, d, hw) == AnnotateStep({b}, d, hw)

pfq_batch_lazy_xmit(d, hw) == AnnotateStep(Bufs, d, hw)

pfq_batch_lazy_xmit_by_mask(mask, d, hw) == AnnotateStep(mask, d, hw)

-----------------------------------------------------------------------------
(* pfq_lazy_xmit_exec                                                      *)

\* The caller builds the targets and calls the exec.
ExecBegin ==
  /\ phase = "fwd"
  /\ ts' \in SetToSeqs({d \in Devs : cnt(d) > 0})
  /\ phase' = "scan"
  /\ UNCHANGED <<log, req, qmap, todo, toKernel, calls, n, i, j, sentDev,
                 txq, subs>>

\* The loop over the devices ends: return sent.
ExecEnd ==
  /\ phase = "scan" /\ n > Len(ts)
  /\ phase' = "done"
  /\ UNCHANGED <<log, req, qmap, todo, toKernel, calls, ts, n, i, j, sentDev,
                 txq, subs>>

\* Mutation of ExecDevEnd: the buffer index is not reset for the next device.
ExecDevEndKeepIndex ==
  /\ phase = "scan" /\ n <= Len(ts) /\ i > NBufs
  /\ n' = n + 1 /\ sentDev' = 0 /\ txq' = NULL
  /\ UNCHANGED <<log, req, qmap, todo, toKernel, calls, phase, ts, i, j, subs>>

\* All buffers scanned for ts->dev[n]: if (txq) __netif_tx_unlock_bh(txq);
\* the next device starts with sent_dev = 0, txq = NULL, i = 0.
ExecDevEnd ==
  /\ phase = "scan" /\ n <= Len(ts) /\ i > NBufs
  /\ n' = n + 1 /\ i' = 1 /\ sentDev' = 0 /\ txq' = NULL
  /\ UNCHANGED <<log, req, qmap, todo, toKernel, calls, phase, ts, j, subs>>

\* num == 0: continue.
ExecSkip ==
  /\ phase = "scan" /\ n <= Len(ts) /\ i <= NBufs
  /\ gc_count_dev_in_log(ts[n], i) = 0
  /\ i' = i + 1
  /\ UNCHANGED <<log, req, qmap, todo, toKernel, calls, phase, ts, n, j,
                 sentDev, txq, subs>>

\* A buffer for this device: the first one picks the Tx queue from its
\* queue_mapping and takes the queue's lock.
ExecHit ==
  /\ phase = "scan" /\ n <= Len(ts) /\ i <= NBufs
  /\ gc_count_dev_in_log(ts[n], i) > 0
  /\ txq' = IF txq = NULL THEN pfq_pick_tx(ts[n], qmap[i]) ELSE txq
  /\ phase' = "xmit" /\ j' = 0
  /\ UNCHANGED <<log, req, qmap, todo, toKernel, calls, ts, n, i, sentDev, subs>>

\* Submission with the hint computed from sent_dev++ (post-increment).
XmitMorePost(d) == sentDev # cnt(d)

\* xmit_more = ++sent_dev != ts->cnt[n]
XmitMore(d) == sentDev + 1 # cnt(d)

\* One submission of buffer i: to_clone = to_kernel || xmit_todo-- > 1
\* (the decrement only when !to_kernel); skb_clone or skb_get; then
\* __pfq_xmit.  Its result, or a failed clone, only counts sent or abrt:
\* the loop goes on either way, so the outcome is left out.
ExecXmit ==
  /\ phase = "xmit" /\ j < gc_count_dev_in_log(ts[n], i)
  /\ LET d     == ts[n]
         clone == toKernel[i] \/ todo[i] > 1
     IN  /\ todo' = IF toKernel[i] THEN todo ELSE [todo EXCEPT ![i] = @ - 1]
         /\ subs' = Append(subs, [dev |-> d, buf |-> i, queue |-> txq,
                                   more |-> XmitMore(d), get |-> ~clone])
  /\ sentDev' = sentDev + 1 /\ j' = j + 1
  /\ UNCHANGED <<log, req, qmap, toKernel, calls, phase, ts, n, i, txq>>

\* The num submissions of buffer i are done: next buffer.
ExecNextBuf ==
  /\ phase = "xmit" /\ j = gc_count_dev_in_log(ts[n], i)
  /\ phase' = "scan" /\ i' = i + 1
  /\ UNCHANGED <<log, req, qmap, todo, toKernel, calls, ts, n, j, sentDev,
                 txq, subs>>

\* The commit has returned; the buffers are left to the GC.
Done ==
  /\ phase = "done"
  /\ UNCHANGED vars

Next ==
  \/ \E b \in Bufs, d \in Devs, hw \in HwQueues : pfq_lazy_xmit(b, d, hw)
  \/ \E d \in Devs, hw \in HwQueues : pfq_batch_lazy_xmit(d, hw)
  \/ \E mask \in SUBSET Bufs, d \in Devs, hw \in HwQueues :
       pfq_batch_lazy_xmit_by_mask(mask, d, hw)
  \/ ExecBegin \/ ExecEnd \/ ExecDevEnd \/ ExecSkip \/ ExecHit
  \/ ExecXmit \/ ExecNextBuf \/ Done

Spec == Init /\ [][Next]_vars

-----------------------------------------------------------------------------
(* Properties                                                              *)

Subs(d) == SelectSeq(subs, LAMBDA s : s.dev = d)
SubsOf(b) == SelectSeq(subs, LAMBDA s : s.buf = b)

TypeOK ==
  /\ log \in [Bufs -> Seq(Devs)] /\ req \in [Bufs -> Seq(HwQueues)]
  /\ todo \in [Bufs -> Nat] /\ toKernel \in [Bufs -> BOOLEAN]
  /\ phase \in {"fwd", "scan", "xmit", "done"}
  /\ txq \in {NULL} \cup 0 .. 65535
  /\ \A k \in DOMAIN subs : subs[k].dev \in Devs /\ subs[k].buf \in Bufs

\* Every submission goes to a Tx queue the device has: the u16
\* queue_mapping, the driver's choice for -1 and the cap in pfq_pick_tx
\* keep the index below real_num_tx_queues.
QueueInRange == \A k \in DOMAIN subs : subs[k].queue \in 0 .. Real[subs[k].dev] - 1

\* Spec P7 and S5: after the commit each device has been handed each
\* buffer as many times as the buffer's log names it, in pool order.
FanOutInOrder ==
  phase = "done" =>
    \A d \in Devs :
      [k \in DOMAIN Subs(d) |-> Subs(d)[k].buf]
        = FlattenSeq([b \in Bufs |-> [k \in 1 .. gc_count_dev_in_log(d, b) |-> b]])

\* Spec P6 on the lazy path: of the cnt[d] submissions to a device, only
\* the last one clears xmit_more, failed submissions included.
LastHintCleared ==
  \A d \in Devs : \A k \in DOMAIN Subs(d) : Subs(d)[k].more <=> k # cnt(d)

\* The buffer itself (skb_get) is handed to a driver only as its last
\* submission, counted over all devices, and never when it also goes to the
\* kernel; every other submission is a clone.  xmit_todo has to equal the
\* log's length for this, also when the log was full.
OriginalLast ==
  \A b \in Bufs : \A k \in DOMAIN SubsOf(b) :
    SubsOf(b)[k].get <=> ~toKernel[b] /\ k = Len(log[b])

\* The first buffer annotated for a device in pool order.
FirstFor(d) == CHOOSE b \in Bufs : gc_count_dev_in_log(d, b) > 0
                  /\ \A c \in 1 .. b - 1 : gc_count_dev_in_log(d, c) = 0

\* The hw_queue that buffer's first annotation for d asked for.
Requested(d) ==
  LET b == FirstFor(d)
  IN  req[b][CHOOSE k \in DOMAIN log[b] : log[b][k] = d
                  /\ \A l \in 1 .. k - 1 : log[b][l] # d]

\* The code's comment: "the first packet for this dev determines the hw
\* queue": each device is sent to on the queue pfq_pick_tx gives for the
\* hw_queue pfq_lazy_xmit was given with that packet and device.
QueueAsRequested ==
  \A k \in DOMAIN subs :
    subs[k].queue = pfq_pick_tx(subs[k].dev, Requested(subs[k].dev))

=============================================================================
