# TLA+ models of the PFQ transmit path

These modules model the transmit side of the PFQ kernel module
(`src/kernel/pf_q-transmit.c`, `src/kernel/pf_q-skbuff-pool.h`) and the
expression language of the C++ library (`src/user/C++/pfq-lang.hpp`). They
are checked with TLC. Every action is translated from the source;
`PROJECT.json` maps each definition to the lines it models.

## The system

- **TxRing**: a ring shared with user space.
  - It has two halves and two counters, `prod` and `cons`.
  - The user-space producer writes descriptors `{nsec, len, payload}` into
    half `prod & 1` and ends them with a `len = 0` header.
  - The kernel swaps halves in `swap_tx_queue_and_wait`:
    - it increments `cons`;
    - with a Tx kthread it spins until the producer has acknowledged with
      `prod = cons`, or gives up with `-EINTR`;
    - it then drains half `(cons + 1) & 1`.
  - After the drain the first header of that half is set to `len = 0`.
- **TxEngine**: `__pfq_queue_xmit`, which drains one half.
  - It walks the descriptors.
  - It flushes the short batch when `transmission_required` says so: the
    batch is full, or a paced packet is due later.
  - It spins in `wait_until` up to each timestamp.
  - It allocates an skb, from the per-cpu tx pool or from the kernel, and
    batches it.
  - It submits batches through `full_batch_xmit`:
    - the function takes a reference per skb, calls `pfq_batch_xmit` and
      recycles what was sent;
    - when nothing was sent it retries.
  - `pfq_batch_xmit` sets `xmit_more = n != last` and, on the first refusal,
    frees the remaining skbs.
  - At the end it counts every skb still batched, and every descriptor not
    reached, as discarded.
- **BufferPool**: the per-cpu skb pool.
  - It is a single-producer, single-consumer ring of `size` slots, holding
    at most `size - 1` skbs.
  - Its indices are published with acquire/release.
  - A pop hands out the head skb only if nobody else holds it
    (`users < 2`).
  - A push into a full ring frees the skb through `kfree_skb`.
  - The drain pushes sent skbs (through `pfq_kfree_skb_pool`) and pops skbs
    to refill.
- **DeviceSubmit**: submission to a device.
  - `pfq_pick_tx` chooses the hardware Tx queue: for `-1` on a multi-queue
    device the driver's `ndo_select_queue` picks one.
  - `__pfq_dev_cap_txqueue` then maps an index at or above
    `real_num_tx_queues` to 0.
  - `pfq_batch_xmit_by_mask` submits the skbs whose bit is set, under the
    queue's lock. On the first refusal it frees from position `ret + 1`.
- **LazyForward**: forwarding decided during capture, done later.
  - `pfq_lazy_xmit` (and its batch and by-mask loops) appends a device to the
    buffer's GC log, counts `xmit_todo` and stores `hw_queue` in the skb's
    u16 `queue_mapping`. When the log holds `Q_GC_LOG_QUEUE_LEN` entries it
    returns 0 and changes nothing.
  - `pfq_lazy_xmit_exec` walks the target devices. For each one it scans
    the buffers in pool order:
    - the first buffer naming the device picks the Tx queue from its
      `queue_mapping` and takes the queue's lock;
    - each buffer is submitted as often as its log names the device, with
      `xmit_more = ++sent_dev != cnt[n]`;
    - each submission is a clone, except when it is the buffer's last one
      (`xmit_todo-- > 1` fails) and the buffer is not also for the kernel.
      Then the skb itself is handed over with `skb_get`.
- **pfq-lang**: the user library builds terms with `predicate`,
  `computation` and `>>`.
  - `show` prints a term.
  - `serialize` turns a predicate into a vector of `FunDescr`, in which a
    combinator entry names its two operands by index.

## Modules

| module | models | state | actions |
|---|---|---|---|
| `TxEngine` | one call of `__pfq_queue_xmit` after the swap, with `full_batch_xmit`, `pfq_batch_xmit` and `__pfq_xmit` | the descriptors' timestamps, program counter, cursor, batch, pool, refcounts, driver queue, wire history | `QueueXmitLoop`, `wait_until`, `AllocSkb`, `FlushBatch`, `QueueXmitEnd`, `full_batch_xmit`, `BatchXmitStep`, `BatchXmitReturn`; environment: `Tick`, `GiveUp`, `DevDown`, `DevUp`, `TxComplete` |
| `MCTxEngine` | instance: three skbs as model values | | |
| `SkbPool` | `pfq_skb_pool_push` and `pfq_skb_pool_pop`, one step per atomic load or store | slots, `p_idx`, `c_idx`, refcounts, per-thread locals | `PushCall`, `PushLoad`, `PushCheck` (the `BUG_ON`), `PushWrite`, `PushPublish`, `PopLoad`, `PopTake`, `PopPublish`; environment: `Transmit`, `Complete`, `KernelAlloc` |
| `SkbPoolFifo` | the promise of the pool: a bounded FIFO with the refcount gate | `queue`, `users` | `Push`, `Pop`, `RefCount` |
| `MCSkbPool` | instance: one or two producers | | |
| `PfqLang` | the constructors, `show` and `serialize` of `pfq-lang.hpp` | the term, the vector and index `serialize(0, term)` returned | `Serialize`, `Done`; terms as records, `show` and `serialize` as RECURSIVE operators, `Decode` as the reference reader |
| `DeviceQueue` | `pfq_pick_tx`, `__pfq_dev_cap_txqueue`, the u16 `queue_mapping` | (constants only) | |
| `DeviceSubmit` | `pfq_batch_xmit_by_mask` | mask, per-skb refcounts, the driver's skbs, loop position, `ret` | `Call`, `Skip`, `XmitOk`, `XmitFail`, `LoopEnd`, `Intr` |
| `LazyForward` | `pfq_lazy_xmit`, `pfq_batch_lazy_xmit[_by_mask]`, `pfq_lazy_xmit_exec` | GC logs, `xmit_todo`, `to_kernel`, `queue_mapping`, the exec's loop indices, `sent_dev`, the locked queue, the submissions | `pfq_lazy_xmit`, `pfq_batch_lazy_xmit`, `pfq_batch_lazy_xmit_by_mask`, `ExecBegin`, `ExecHit`, `ExecSkip`, `ExecXmit`, `ExecNextBuf`, `ExecDevEnd`, `ExecEnd` |
| `MCLazyForward`, `MCDeviceSubmit` | instances: devices as model values | | |
| `TxRing` | `swap_tx_queue_and_wait` in kthread mode, choice of the drained half, the walk, clearing the half; the producer of spec 4.D | both halves, `cons`, `prod` (mod 4), the engine's `swap`, half and cursor, the producer's position | `SwapTxQueue`, `WaitProd`, `WaitGiveUp`, `DrainStep`, `ClearHalf`, `UserAck`, `UserWrite` |

In `TxEngine`, each engine action is one stretch of code between two points
where the drain's behaviour can change: a loop head, a call, a driver
answer.

- `pc` names the point.
- `caller` records where `full_batch_xmit` returns, because the Tx loop and
  the final flush both call it.
- The driver is a queue of `TxSlots` skbs. `__pfq_xmit` reaches the driver
  when the device is up and that queue has room. Otherwise it frees the
  skb and returns `-ENETDOWN`. `TxComplete` drops the driver's reference on
  an skb.
- The constant `DriverCodes` lists what `ndo_start_xmit` may answer when
  it is reached: `NETDEV_TX_OK`, and optionally `NET_XMIT_CN`.
  `dev_xmit_complete` accepts both, so the driver keeps the skb either way.
  The passing runs use `NETDEV_TX_OK` only.
- `users` is the skb reference count. 0 means the skb is back with the
  kernel, and `AllocSkb` may take it.
- Refcounts track the skb_get of `full_batch_xmit`, the `kfree_skb` of
  `__pfq_xmit` and of the error path, and the pool.

In `SkbPool`:

- the loads and stores of the two indices are separate steps, because they
  are ordered by acquire/release;
- the `BUG_ON` becomes a stuck `"bug"` state.

The refinement `RefinesFifo` maps the ring to `SkbPoolFifo`:

- `queue` is the published part of the slots, from `c_idx` to `p_idx`;
- a pop counts as done once the consumer has reset its slot.

`TxRing` counts `cons` and `prod` modulo 4. Both sides only test them for
equality and parity, and `prod <= cons <= prod + 1 + MaxIntr < prod + 4`.

## Runs

| run | cfg | expect | what it shows |
|---|---|---|---|
| `tx_engine` | `MCTxEngine.cfg` | pass | See below. |
| `tx_engine_xmit_more` | `MCTxEngineXmitMore.cfg` | violation of `XmitMoreClearedAtEnd` | In a build that defines `PFQ_USE_XMIT_MORE`, a batch cut short by a stopped queue ends with `xmit_more` still set on the last accepted skb (spec P6, S1). Without the flag, `__pfq_xmit` forces the hint to 0 (lines 425-427); the constant `PFQ_USE_XMIT_MORE` selects the build. |
| `tx_engine_congested` | `MCTxEngineCongested.cfg` | violation of `WireInRingOrder` | The driver queues skb 1 but answers `NET_XMIT_CN`. `pfq_batch_xmit` counts only `NETDEV_TX_OK`, so skb 1 stays in the batch and is submitted again: packet 1 reaches the driver twice. |
| `skb_pool` | `MCSkbPool.cfg` | pass | See below. |
| `skb_pool_two_producers` | `MCSkbPoolTwoProducers.cfg` | violation of `PoolConservation` | Two threads pushing into one cpu's pool overwrite the same slot and lose an skb. Nothing in `__pfq_queue_xmit` keeps the flush path from sharing a cpu's pool (`this_cpu_ptr` with preemption enabled). |
| `tx_ring` | `MCTxRing.cfg` | pass | See below. |
| `tx_ring_interrupted_swap` | `MCTxRingIntr.cfg` | violation of `NoPacketLost` | After `-EINTR` the next swap drains the other half. The producer then refills the skipped half over committed packets (spec 4.D says such data is not lost). |

| `pfq_lang` | `MCPfqLang.cfg` | pass | See below. |
| `pfq_lang_round_trip` | `MCPfqLangRoundTrip.cfg` | violation of `SerializeRoundTrip` | `serialize(Pred2)` serializes `left_` for the right operand (line 261): `predicate(or, p, (p a))` reads back as `p \| p`. |
| `lazy_forward` | `MCLazyForward.cfg` | pass | See below. |
| `lazy_forward_queue` | `MCLazyForwardQueue.cfg` | violation of `QueueAsRequested` | Two ways a device is sent to on a queue its `pfq_lazy_xmit` did not ask for. `-1` is stored as 65535 in the u16 `queue_mapping`, skips `ndo_select_queue` and is capped to queue 0. An annotation for another device overwrites the mapping. |
| `device_submit_mask` | `MCDeviceSubmitMask.cfg` | violation of `RemainderFreed` | With mask `{0}` and a refusal, the error path frees skbs 1 and 2, whose bits are clear. With mask `{0, 2}` and skb 0 accepted, it frees the refused skb 2 a second time. |

What the passing runs check:

- `tx_engine`:
  - the refcounts match the holders (`RefcountBalanced`);
  - the driver receives packets once each, in ring order
    (`WireInRingOrder`), and never before their timestamp
    (`NotBeforeTimestamp`);
  - `sent + disc` equals the number of descriptors (`DrainAccounting`);
  - an skb still in the driver is never refilled (`NoRefillInFlight`);
  - once a signal is pending or `kthread_stop` is called, the drain
    returns, also when the device went down and never comes back
    (`DrainReturnsOnGiveUp`).
- `skb_pool`:
  - every skb is in exactly one place (`PoolConservation`);
  - the interleaved index code implements the bounded FIFO (`RefinesFifo`).
- `tx_ring`:
  - the engine never reads the half the producer writes (`HalvesExclusive`);
  - with no interrupted swap, every written packet is drained
    (`EveryPacketDrained`), once and in order (`DrainOrdered`).

- `pfq_lang`:
  - `serialize` lays out every predicate as a preorder tree: each entry
    but the root is linked once, and the links stay inside the vector
    (`SerializeLinked`). The layout holds despite the line-261 bug.
  - `show` tells apart any two terms of a sort, up to the grouping of
    `>->`, which it does not parenthesize (`ShowUnambiguous`).
- `lazy_forward`:
  - each device gets each buffer as often as its log names the device, in
    pool order (`FanOutInOrder`, spec P7 and S5);
  - only a device's `cnt[d]`-th submission clears `xmit_more`
    (`LastHintCleared`);
  - the skb itself goes out only as a buffer's last submission, and never
    when the buffer is also for the kernel (`OriginalLast`). This holds when
    the log overflows, too;
  - the queue picked is one the device has (`QueueInRange`). This catches a
    cap one off. The signed/unsigned comparison at line 56 is not exercised:
    every queue reaching the cap comes from the u16 `queue_mapping`, which is
    never negative.

Each property of a passing run has a mutant in `PROJECT.json`: a plausible
bug in a mapped definition that TLC then catches. Examples:

- the error path freeing from `ret` rather than `ret + 1`;
- `drop_n` one short;
- `wait_until` reading the clock only once;
- the pop ignoring the refcount gate;
- `p_idx` published before the slot is written;
- a fetch-and-add in place of the add-and-fetch on `cons`;
- the first header of the half never cleared;
- both operands of a `Pred2` linked to the left one;
- `Comp` shown without ` >-> `;
- `xmit_todo` counted before the full-log check;
- `sent_dev++` in place of `++sent_dev`;
- the scan index not reset between devices;
- the queue cap with `>` in place of `>=`.

## Bounds

- **`MCTxEngine`**:
  - 3 skbs;
  - `BatchLen = 2`;
  - a pool of 2 slots, which holds one skb;
  - a one-entry driver queue;
  - up to 3 descriptors, with timestamps and clock in `0..2`;
  - the device goes down at most once.

  Three descriptors with a batch of two reach every path of the drain:

  - a full batch;
  - a short final batch;
  - a flush forced by a later timestamp;
  - a partial send followed by a retry;
  - recycling into a full pool;
  - refilling from a pool whose head is still in the driver;
  - allocation failure with all three skbs in use;
  - give-up at every point.

  The run covers 396,426 distinct states in about 40 s.
- **`MCSkbPool`**:
  - 3 skbs on a ring of 3 slots, which holds 2;
  - one producer and one consumer, or two producers.

  The bounds cover a full ring, an empty ring, the wrap and the refcount
  gate.
- **`MCTxRing`**:
  - 2 descriptors per half;
  - 4 packets, so each half is filled and reused;
  - one interrupted swap.

- **`PfqLang`** (`MCPfqLang.cfg`):
  - one predicate name, one function name, one argument, `or` and `and`;
  - predicates up to two levels of `Pred2` (210 terms);
  - computations up to two levels of higher-order functions and `>->`
    (1,262 terms).

  Two levels are the least at which `show` could confuse a chain of
  `>->` with the arguments of an `HFun2`. They are also the least at which
  a `Pred2` has operands of different sizes.
- **`MCLazyForward`**:
  - 2 buffers;
  - two devices, with 1 and 2 Tx queues, whose driver selects queue 1;
  - `hw_queue` in `{-1, 0, 1}`;
  - a log of 2 entries;
  - 3 annotation calls.

  This reaches:
  - a full log;
  - a buffer sent twice to one device;
  - a buffer for two devices;
  - `to_kernel` either way;
  - `-1` and an index equal to a device's queue count.

  The run covers 146,424 states in about 75 s.
- **`MCDeviceSubmit`**: a batch of 3 skbs with every non-empty mask.

## Fairness

- **`TxEngine`**:
  - weak fairness on the engine: the drain is a thread that runs whenever
    it can;
  - weak fairness on `Tick`: time passes;
  - weak fairness on `TxComplete`: a driver completes what it accepted.

  `DevUp` has no fairness: nothing in the code brings a device back, so the
  device may stay down for good. With no signal, `full_batch_xmit` then
  retries forever; no property claims that the drain ends without a
  give-up. `DrainReturnsOnGiveUp` is conditional on `giveup_tx_process()`
  and needs only the engine's own fairness. Its mutant drops the give-up
  test from the loop head of `full_batch_xmit`, and TLC finds the drain
  retrying a dead device forever.
- **`TxRing`**:
  - weak fairness on the engine's steps, except the give-up;
  - weak fairness on the producer's acknowledgment.

  Writing more packets is not fair: a producer may stop at any time.

## Not modelled, and why

- **Memory ordering**: `cons` and `prod` are relaxed atomics, and the
  models use sequentially consistent steps. Weak memory is listed as a
  hazard.
- **Standalone mode and `pfq_queue_flush`**: with no thread owning the
  ring, `swap_tx_queue_and_wait` increments `cons` and stores `prod = 1`
  without waiting. The half that is drained then alternates with `cons`,
  while `prod` stays at 1. Whether the user has filled that half depends on
  how the library commits in this mode. The library is not in this tree,
  and spec 4.D only says the engine "assumes the user has already
  committed". The `TxRing` producer, taken from spec 4.D's kthread
  handshake, would fill the wrong half here, so modelling this mode would
  give a result about that assumption and not about the code.
  `pfq_queue_flush` itself only dispatches: it returns 0 when a task owns
  the ring and returns `EPERM` when the device lookup fails.
- **Byte layout of the ring**: `ALIGN(len, 8)`, the `max(len, 64)` copy and
  headers straddling the end of a half are not modelled.
  - `struct pfq_pkthdr_tx` is declared outside this tree, so the header
    size and the offset of `len` are unknown.
  - Both hazards (lines 231 and 331) are reads past the half. They would be
    violation runs, and the project keeps to its twelve runs.
- **pfq-lang, the rest**: `show` of the descriptor types only formats text
  for logs. `relinkFunDescr` is not called in this header. Computations
  have no `serialize` here.
- **`pfq_xmit`** (one skb under the lock): it adds no step beyond
  `pfq_pick_tx` and `__pfq_xmit`.
- **`xmit_todo` and `to_kernel`**: `xmit_todo` is decremented only when
  `to_kernel` is false (`||` short-circuits, line 666).
  - The spec's GcLog invariant says it is decremented once per committed
    target.
  - `OriginalLast` checks what the decrement is for; no run states the
    spec's wording.
- **`NET_XMIT_DROP`**: `dev_xmit_complete` accepts it too, and it takes the
  same path as `NET_XMIT_CN`. The only difference is that the driver frees
  the skb instead of queueing it, so a retry resends a dropped packet and
  does not duplicate one. It is not among the `DriverCodes`.
- **`pfq_pick_tx` clamp**: the code caps an index that is too large to 0,
  while spec 4.B says `real_num_tx_queues - 1`. `QueueInRange` checks the
  safety half, which both satisfy.
- **`NET_XMIT_CN` in `DeviceSubmit`**: `XmitFail` models only a refusal.
  The driver may take the skb and answer CN; that case is checked in
  `TxEngine` (`tx_engine_congested`), not in the by-mask variant.
- **The result of `__pfq_xmit` in `LazyForward`**: every submission is taken
  to reach the driver. `LastHintCleared` and `OriginalLast` are about
  which submission carries the hint and the skb, not about refusals. The
  per-device `cnt` is modelled from the spec.
- **Other files**:
  - `pf_q-module.h` holds macros, declarations and one-line accessors. The
    users of `JUST`/`FROM_JUST` are not in this tree, so the encoding is
    listed as a hazard only;
  - `test-regression++.cpp` is I/O against a running module.

## What is left, and why it stays open

The models cover every state change of the code in this tree that can be
modelled without guessing at code outside it. The remaining hazards need
one of two things:

- **Definitions that are not in this tree**:
  - the Tx header layout (`struct pfq_pkthdr_tx`), for the reads past the
    half at lines 231 and 331;
  - the user library's commit protocol, for the standalone flush mode;
  - the users of `JUST`/`FROM_JUST`;
  - `batch_len` and the capacity of the short batch, for line 168.
- **A model of weak memory**, for the relaxed `cons`/`prod` atomics at line
  193. TLC's steps are sequentially consistent.

Each of them would need a violation run of its own. The project keeps to
twelve runs: the seven findings and the five passing runs above.
