----------------------------- MODULE MCTxEngine -----------------------------
(* Model-checking instance of TxEngine: three skbs, a batch of two, a pool *)
(* ring of two slots (one usable), a one-entry driver queue.              *)
EXTENDS TxEngine

CONSTANTS b1, b2, b3

MCBufs == {b1, b2, b3}
=============================================================================
