------------------------------- MODULE TxRing -------------------------------
(***************************************************************************)
(* The double-buffered Tx ring shared by a user-space producer and the     *)
(* kernel Tx thread (cpu != Q_NO_KTHREAD): swap_tx_queue_and_wait, the     *)
(* choice of the drained half, the walk over its descriptors and the       *)
(* clearing of its first header in __pfq_queue_xmit (pf_q-transmit.c).    *)
(* What happens to each descriptor the walk visits (sent or discarded) is *)
(* TxEngine's business; here a visited descriptor is "drained".           *)
(*                                                                         *)
(* The producer is the user library, which is not part of this source     *)
(* tree: it is modelled from spec 4.D.  It writes descriptors into half    *)
(* prod & 1, each followed by a len = 0 terminator, and acknowledges a     *)
(* swap by storing prod = cons, after which it fills its new half from    *)
(* the start.                                                              *)
(*                                                                         *)
(* A descriptor is a packet number; a slot holding 0 is a header with     *)
(* len = 0.  Each half holds Cap descriptors.  cons and prod are kept      *)
(* modulo 4: the engine and the producer only test them for equality and   *)
(* parity, and prod <= cons <= prod + 1 + MaxIntr < prod + 4.             *)
(***************************************************************************)
EXTENDS Naturals, Sequences, SequencesExt

CONSTANTS
  Cap,        \* descriptors per half (txs->size / descriptor size)
  MaxPkts,    \* packets the producer writes
  MaxIntr     \* swaps given up with -EINTR

ASSUME Cap \in Nat \ {0} /\ MaxIntr + 1 < 4

VARIABLES
  ring,       \* ring[h][i]: packet in slot i of half h, 0 = len 0
  cons,       \* txs->cons (mod 4)
  prod,       \* txs->prod (mod 4)
  epc,        \* engine program counter
  swap,       \* the engine's swap index
  half,       \* the half being drained
  ptr,        \* the engine's cursor in that half
  wpos,       \* producer's next slot in half prod & 1
  nextPkt,    \* next packet number the producer writes
  drained,    \* history: packets the engine walked over, in order
  intrs       \* swaps interrupted so far

vars == <<ring, cons, prod, epc, swap, half, ptr, wpos, nextPkt, drained, intrs>>

Halves == {0, 1}
Slots == 1 .. Cap

Init ==
  /\ ring = [h \in Halves |-> [i \in Slots |-> 0]]
  /\ cons = 0 /\ prod = 0
  /\ epc = "swap" /\ swap = 0 /\ half = 0 /\ ptr = 1
  /\ wpos = 1 /\ nextPkt = 1
  /\ drained = <<>>
  /\ intrs = 0

-----------------------------------------------------------------------------
(* Engine: the Tx kthread calling __pfq_queue_xmit over and over           *)

\* Mutation of SwapTxQueue: fetch-and-add, the index is the old cons.
SwapTxQueueFetchAdd ==
  /\ epc = "swap"
  /\ cons' = (cons + 1) % 4
  /\ swap' = cons
  /\ epc' = "wait"
  /\ UNCHANGED <<ring, prod, half, ptr, wpos, nextPkt, drained, intrs>>

\* *index = __atomic_add_fetch(&txs->cons, 1)
SwapTxQueue ==
  /\ epc = "swap"
  /\ cons' = (cons + 1) % 4
  /\ swap' = (cons + 1) % 4
  /\ epc' = "wait"
  /\ UNCHANGED <<ring, prod, half, ptr, wpos, nextPkt, drained, intrs>>

\* Mutation of WaitProd: the half is cleared before it is walked.
WaitProdClearFirst ==
  /\ epc = "wait"
  /\ prod = swap
  /\ half' = (swap + 1) % 2
  /\ ring' = [ring EXCEPT ![(swap + 1) % 2][1] = 0]
  /\ ptr' = 1
  /\ epc' = "drain"
  /\ UNCHANGED <<cons, prod, swap, wpos, nextPkt, drained, intrs>>

\* The spin ends when prod == index; then swap++ and
\* begin = base_addr + (swap & 1) * size.
WaitProd ==
  /\ epc = "wait"
  /\ prod = swap
  /\ half' = (swap + 1) % 2
  /\ ptr' = 1
  /\ epc' = "drain"
  /\ UNCHANGED <<ring, cons, prod, swap, wpos, nextPkt, drained, intrs>>

\* giveup_tx_process() inside the spin: return -EINTR.  cons keeps its
\* increment; the thread calls __pfq_queue_xmit again.
WaitGiveUp ==
  /\ epc = "wait"
  /\ prod # swap
  /\ intrs < MaxIntr
  /\ intrs' = intrs + 1
  /\ epc' = "swap"
  /\ UNCHANGED <<ring, cons, prod, swap, half, ptr, wpos, nextPkt, drained>>

\* traverse_tx_queue (release build): ptr < end && hdr->len != 0.
traverse_tx_queue(h, p) == p <= Cap /\ ring[h][p] # 0

\* Mutation of DrainStep: the cursor also moves past the terminator.
DrainStepOverrun ==
  /\ epc = "drain"
  /\ ptr' = ptr + 1
  /\ IF traverse_tx_queue(half, ptr)
       THEN /\ drained' = Append(drained, ring[half][ptr])
            /\ UNCHANGED epc
       ELSE /\ epc' = "clear"
            /\ UNCHANGED drained
  /\ UNCHANGED <<ring, cons, prod, swap, half, wpos, nextPkt, intrs>>

\* One iteration of the Tx loop (or of the discard loop): the descriptor
\* at ptr is visited and ptr moves past it.
DrainStep ==
  /\ epc = "drain"
  /\ IF traverse_tx_queue(half, ptr)
       THEN /\ drained' = Append(drained, ring[half][ptr])
            /\ ptr' = ptr + 1
            /\ UNCHANGED epc
       ELSE /\ epc' = "clear"
            /\ UNCHANGED <<drained, ptr>>
  /\ UNCHANGED <<ring, cons, prod, swap, half, wpos, nextPkt, intrs>>

\* Mutation of ClearHalf: the first header is left as it is.
ClearHalfKeep ==
  /\ epc = "clear"
  /\ epc' = "swap"
  /\ UNCHANGED <<ring, cons, prod, swap, half, ptr, wpos, nextPkt, drained, intrs>>

\* "clear the queue": hdr->len = 0 at begin; the call returns.
ClearHalf ==
  /\ epc = "clear"
  /\ ring' = [ring EXCEPT ![half][1] = 0]
  /\ epc' = "swap"
  /\ UNCHANGED <<cons, prod, swap, half, ptr, wpos, nextPkt, drained, intrs>>

-----------------------------------------------------------------------------
(* Producer: the user library (spec 4.D)                                   *)

\* The producer sees cons moved and commits its half: prod = cons.
UserAck ==
  /\ cons # prod
  /\ prod' = cons
  /\ wpos' = 1
  /\ UNCHANGED <<ring, cons, epc, swap, half, ptr, nextPkt, drained, intrs>>

\* Write the next packet at wpos of half prod & 1 and a terminator after it.
UserWrite ==
  /\ wpos <= Cap /\ nextPkt <= MaxPkts
  /\ ring' = [ring EXCEPT ![prod % 2] =
                [i \in Slots |-> CASE i = wpos     -> nextPkt
                                   [] i = wpos + 1 -> 0
                                   [] OTHER        -> @[i]]]
  /\ wpos' = wpos + 1
  /\ nextPkt' = nextPkt + 1
  /\ UNCHANGED <<cons, prod, epc, swap, half, ptr, drained, intrs>>

Engine == SwapTxQueue \/ WaitProd \/ WaitGiveUp \/ DrainStep \/ ClearHalf

Next == Engine \/ UserAck \/ UserWrite

\* The Tx thread runs whenever it can; a producer that sees a swap
\* acknowledges it.  Writing more is up to the producer.
Fairness == WF_vars(SwapTxQueue \/ WaitProd \/ DrainStep \/ ClearHalf)
            /\ WF_vars(UserAck)

Spec == Init /\ [][Next]_vars /\ Fairness

-----------------------------------------------------------------------------
(* Properties                                                              *)

TypeOK ==
  /\ ring \in [Halves -> [Slots -> 0 .. MaxPkts]]
  /\ cons \in 0 .. 3 /\ prod \in 0 .. 3 /\ swap \in 0 .. 3
  /\ epc \in {"swap", "wait", "drain", "clear"}
  /\ half \in Halves /\ ptr \in 1 .. Cap + 1 /\ wpos \in 1 .. Cap + 1
  /\ nextPkt \in 1 .. MaxPkts + 1 /\ intrs \in 0 .. MaxIntr

\* While the engine walks or clears a half, the producer writes the other
\* one: the prod == cons handshake and the swap++ parity keep them apart.
HalvesExclusive == epc \in {"drain", "clear"} => half # prod % 2

\* Until a swap is given up, no descriptor is drained twice or out of
\* order: the len = 0 written at the start of a drained half hides its
\* stale descriptors, and the halves alternate.  (A swap given up with
\* -EINTR skips a half; NoPacketLost shows what that costs.)
DrainOrdered ==
  intrs = 0 => \A i, j \in DOMAIN drained : i < j => drained[i] < drained[j]

\* The packets reachable in half h: the slots before the first len = 0.
Reachable(h) ==
  {ring[h][i] : i \in {k \in Slots : \A j \in 1 .. k : ring[h][j] # 0}}

\* Spec 4.D: data the producer committed is not lost, also when a swap is
\* interrupted: every packet written is drained or still reachable.
NoPacketLost ==
  \A p \in 1 .. nextPkt - 1 :
    p \in ToSet(drained) \/ p \in Reachable(0) \cup Reachable(1)

\* Without interrupted swaps, every packet written is eventually drained.
EveryPacketDrained ==
  [](intrs = 0) =>
    \A p \in 1 .. MaxPkts : (nextPkt > p) ~> (p \in ToSet(drained))

=============================================================================
