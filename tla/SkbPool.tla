------------------------------ MODULE SkbPool ------------------------------
(***************************************************************************)
(* The skb pool of pf_q-skbuff-pool.h: a ring of Size slots with producer *)
(* index p_idx and consumer index c_idx, pushed by pfq_skb_pool_push and   *)
(* popped by pfq_skb_pool_pop, each split into the loads and stores it     *)
(* makes.  With acquire/release on the indices the loads and stores are    *)
(* modelled as sequentially consistent steps.                              *)
(*                                                                         *)
(* Around the pool: the engine holding skbs it may transmit (the driver   *)
(* takes a reference and later completes, dropping it), hand to a push,   *)
(* or get back from a pop; kfree_skb returning an skb to the kernel when   *)
(* its last reference goes; the kernel allocating it again.                *)
(***************************************************************************)
EXTENDS Naturals, Sequences, FiniteSets, SequencesExt

CONSTANTS
  Bufs,        \* skbs (model values)
  Size,        \* pool->size
  Producers,   \* threads calling pfq_skb_pool_push on this pool
  Consumer,    \* the thread calling pfq_skb_pool_pop
  NULL

ASSUME Size \in Nat \ {0, 1} /\ Consumer \notin Producers

VARIABLES
  skbs,        \* pool->skbs[0 .. Size-1]
  p_idx,       \* pool->p_idx
  c_idx,       \* pool->c_idx
  users,       \* users[b]: atomic skb->users, 0 = owned by the kernel
  drv,         \* drv[b]: the driver holds a reference on b
  engine,      \* skbs the engine holds outside the pool
  ppc,         \* producer program counter
  pskb,        \* skb a producer is pushing
  pp, pc,      \* a producer's loads of p_idx and c_idx
  cpc,         \* consumer program counter
  cskb,        \* skb the consumer has taken
  cp           \* the consumer's load of p_idx

vars == <<skbs, p_idx, c_idx, users, drv, engine, ppc, pskb, pp, pc, cpc,
          cskb, cp>>

Slots == 0 .. Size - 1

\* Mutation of pool_next: wraps one slot too late (n > size).
pool_next_late(i) == IF i + 1 > Size THEN 0 ELSE i + 1

\* __pool_next: i + 1, wrapping to 0 at pool->size.
pool_next(i) == IF i + 1 = Size THEN 0 ELSE i + 1

Init ==
  /\ skbs = [i \in Slots |-> NULL]
  /\ p_idx = 0 /\ c_idx = 0
  /\ users = [b \in Bufs |-> 1]
  /\ drv = [b \in Bufs |-> FALSE]
  /\ engine = Bufs
  /\ ppc = [t \in Producers |-> "idle"]
  /\ pskb = [t \in Producers |-> NULL]
  /\ pp = [t \in Producers |-> 0] /\ pc = [t \in Producers |-> 0]
  /\ cpc = "idle" /\ cskb = NULL /\ cp = 0

-----------------------------------------------------------------------------
(* pfq_skb_pool_push(pool, skb)                                            *)

\* The engine calls push with an skb it holds, maybe still in the driver.
PushCall(t, b) ==
  /\ ppc[t] = "idle" /\ b \in engine
  /\ engine' = engine \ {b}
  /\ pskb' = [pskb EXCEPT ![t] = b]
  /\ ppc' = [ppc EXCEPT ![t] = "load"]
  /\ UNCHANGED <<skbs, p_idx, c_idx, users, drv, pp, pc, cpc, cskb, cp>>

\* p = load(p_idx, relaxed); c = load(c_idx, acquire); n = next(p);
\* a full ring (n == c) frees the skb through kfree_skb.
PushLoad(t) ==
  /\ ppc[t] = "load"
  /\ pp' = [pp EXCEPT ![t] = p_idx]
  /\ pc' = [pc EXCEPT ![t] = c_idx]
  /\ IF pool_next(p_idx) # c_idx
       THEN ppc' = [ppc EXCEPT ![t] = "check"] /\ UNCHANGED <<users, pskb>>
       ELSE /\ users' = [users EXCEPT ![pskb[t]] = @ - 1]
            /\ pskb' = [pskb EXCEPT ![t] = NULL]
            /\ ppc' = [ppc EXCEPT ![t] = "idle"]
  /\ UNCHANGED <<skbs, p_idx, c_idx, drv, engine, cpc, cskb, cp>>

\* Mutation of PushCheck: p_idx is published before the slot is written.
PushCheckPublishFirst(t) ==
  /\ ppc[t] = "check"
  /\ p_idx' = pool_next(pp[t])
  /\ ppc' = [ppc EXCEPT ![t] = IF skbs[pp[t]] = NULL THEN "write" ELSE "bug"]
  /\ UNCHANGED <<skbs, c_idx, users, drv, engine, pskb, pp, pc, cpc, cskb, cp>>

\* BUG_ON(pool->skbs[p] != NULL): the kernel oopses and the thread dies.
PushCheck(t) ==
  /\ ppc[t] = "check"
  /\ ppc' = [ppc EXCEPT ![t] = IF skbs[pp[t]] = NULL THEN "write" ELSE "bug"]
  /\ UNCHANGED <<skbs, p_idx, c_idx, users, drv, engine, pskb, pp, pc, cpc,
                 cskb, cp>>

\* pool->skbs[p] = skb
PushWrite(t) ==
  /\ ppc[t] = "write"
  /\ skbs' = [skbs EXCEPT ![pp[t]] = pskb[t]]
  /\ pskb' = [pskb EXCEPT ![t] = NULL]
  /\ ppc' = [ppc EXCEPT ![t] = "publish"]
  /\ UNCHANGED <<p_idx, c_idx, users, drv, engine, pp, pc, cpc, cskb, cp>>

\* store(p_idx, n, release); return true
PushPublish(t) ==
  /\ ppc[t] = "publish"
  /\ p_idx' = pool_next(pp[t])
  /\ ppc' = [ppc EXCEPT ![t] = "idle"]
  /\ UNCHANGED <<skbs, c_idx, users, drv, engine, pskb, pp, pc, cpc, cskb, cp>>

-----------------------------------------------------------------------------
(* pfq_skb_pool_pop(pool)                                                  *)

\* c = load(c_idx, relaxed); p = load(p_idx, acquire); an empty ring
\* returns NULL.
PopLoad ==
  /\ cpc = "idle"
  /\ cp' = p_idx
  /\ cpc' = IF c_idx # p_idx THEN "take" ELSE "idle"
  /\ UNCHANGED <<skbs, p_idx, c_idx, users, drv, engine, ppc, pskb, pp, pc,
                 cskb>>

\* Mutation of PopTake: the slot is not reset to NULL.
PopTakeKeepSlot ==
  /\ cpc = "take"
  /\ LET b == skbs[c_idx] IN
       IF users[b] < 2
         THEN cskb' = b /\ cpc' = "publish"
         ELSE cpc' = "idle" /\ UNCHANGED cskb
  /\ UNCHANGED <<skbs, p_idx, c_idx, users, drv, engine, ppc, pskb, pp, pc, cp>>

\* skb = pool->skbs[c]; if atomic_read(&skb->users) < 2 take it and reset
\* the slot, else return NULL leaving it in the ring.
PopTake ==
  /\ cpc = "take"
  /\ LET b == skbs[c_idx] IN
       IF users[b] < 2
         THEN /\ cskb' = b
              /\ skbs' = [skbs EXCEPT ![c_idx] = NULL]
              /\ cpc' = "publish"
         ELSE cpc' = "idle" /\ UNCHANGED <<cskb, skbs>>
  /\ UNCHANGED <<p_idx, c_idx, users, drv, engine, ppc, pskb, pp, pc, cp>>

\* store(c_idx, next(c), release); return skb to the engine.
PopPublish ==
  /\ cpc = "publish"
  /\ c_idx' = pool_next(c_idx)
  /\ engine' = engine \cup {cskb}
  /\ cskb' = NULL
  /\ cpc' = "idle"
  /\ UNCHANGED <<skbs, p_idx, users, drv, ppc, pskb, pp, pc, cp>>

-----------------------------------------------------------------------------
(* Environment: driver, kfree_skb, kernel allocator                        *)

\* The engine submits an skb it holds: the driver takes a reference.
Transmit(b) ==
  /\ b \in engine /\ ~drv[b]
  /\ drv' = [drv EXCEPT ![b] = TRUE]
  /\ users' = [users EXCEPT ![b] = @ + 1]
  /\ UNCHANGED <<skbs, p_idx, c_idx, engine, ppc, pskb, pp, pc, cpc, cskb, cp>>

\* The driver completes the transmission of b.
Complete(b) ==
  /\ drv[b]
  /\ drv' = [drv EXCEPT ![b] = FALSE]
  /\ users' = [users EXCEPT ![b] = @ - 1]
  /\ UNCHANGED <<skbs, p_idx, c_idx, engine, ppc, pskb, pp, pc, cpc, cskb, cp>>

\* The kernel hands out an skb whose last reference was dropped.
KernelAlloc(b) ==
  /\ users[b] = 0
  /\ users' = [users EXCEPT ![b] = 1]
  /\ engine' = engine \cup {b}
  /\ UNCHANGED <<skbs, p_idx, c_idx, drv, ppc, pskb, pp, pc, cpc, cskb, cp>>

Next ==
  \/ \E t \in Producers :
       \/ \E b \in Bufs : PushCall(t, b)
       \/ PushLoad(t) \/ PushCheck(t) \/ PushWrite(t) \/ PushPublish(t)
  \/ PopLoad \/ PopTake \/ PopPublish
  \/ \E b \in Bufs : Transmit(b) \/ Complete(b) \/ KernelAlloc(b)

Spec == Init /\ [][Next]_vars

-----------------------------------------------------------------------------
(* Properties                                                              *)

TypeOK ==
  /\ skbs \in [Slots -> Bufs \cup {NULL}]
  /\ p_idx \in Slots /\ c_idx \in Slots
  /\ users \in [Bufs -> 0 .. 2] /\ drv \in [Bufs -> BOOLEAN]
  /\ engine \subseteq Bufs
  /\ ppc \in [Producers -> {"idle", "load", "check", "write", "publish", "bug"}]
  /\ cpc \in {"idle", "take", "publish"}

\* Where skb b is: with the engine, in a producer's push, in a slot of the
\* ring, in the consumer's hands, or released to the kernel (only the
\* driver's reference, if any, is left on it).
Places(b) ==
  (IF b \in engine THEN 1 ELSE 0)
  + Cardinality({t \in Producers : pskb[t] = b})
  + Cardinality({i \in Slots : skbs[i] = b})
  + (IF cskb = b THEN 1 ELSE 0)
  + (IF users[b] = (IF drv[b] THEN 1 ELSE 0) THEN 1 ELSE 0)

\* Spec P1: no skb pushed into the pool is lost or comes out twice: every
\* skb is in exactly one place, across interleaved pushes and pops.
PoolConservation == \A b \in Bufs : Places(b) = 1

\* The skbs in the ring, oldest first: from c_idx (past the slot the
\* consumer has already taken and reset) up to the published p_idx.
First == IF cpc = "publish" THEN pool_next(c_idx) ELSE c_idx

Live == [i \in 1 .. (p_idx - First + Size) % Size |-> skbs[(First + i - 1) % Size]]

Fifo == INSTANCE SkbPoolFifo WITH queue <- Live

\* The index-level push and pop, interleaved, implement the bounded FIFO
\* with the refcount gate: a push takes effect at its release store of
\* p_idx, a pop when it takes the skb out of its slot.
RefinesFifo == Fifo!Spec

=============================================================================
