--------------------------- MODULE MCLazyForward ---------------------------
(* Two buffers, two devices: eth0 with one Tx queue, eth1 with two whose  *)
(* driver selects queue 1; a GC log of two entries.                       *)
EXTENDS LazyForward

CONSTANTS eth0, eth1

MCDevs == {eth0, eth1}
MCReal == [d \in MCDevs |-> IF d = eth0 THEN 1 ELSE 2]
MCSelect == [d \in MCDevs |-> IF d = eth0 THEN 0 ELSE 1]
MCHwQueues == {-1, 0, 1}

=============================================================================
