---------------------------- MODULE SkbPoolFifo ----------------------------
(***************************************************************************)
(* What the skb pool promises (spec 4.A): a bounded FIFO of distinct skbs  *)
(* holding at most Size - 1 of them; push appends, pop hands out the      *)
(* oldest skb and only when nobody else still holds it (users < 2).       *)
(* Reference counts move on their own: the driver completes, kfree_skb    *)
(* drops a reference.                                                      *)
(***************************************************************************)
EXTENDS Naturals, Sequences, SequencesExt

CONSTANTS Bufs, Size

VARIABLES queue, users

Push(b) ==
  /\ b \notin ToSet(queue)
  /\ Len(queue) < Size - 1
  /\ queue' = Append(queue, b)
  /\ UNCHANGED users

Pop ==
  /\ queue # <<>>
  /\ users[Head(queue)] < 2
  /\ queue' = Tail(queue)
  /\ UNCHANGED users

RefCount == UNCHANGED queue /\ users' \in [Bufs -> Nat]

Init == queue = <<>> /\ users \in [Bufs -> Nat]

Next == (\E b \in Bufs : Push(b)) \/ Pop \/ RefCount

Spec == Init /\ [][Next]_<<queue, users>>
=============================================================================
