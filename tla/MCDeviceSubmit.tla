--------------------------- MODULE MCDeviceSubmit ---------------------------
(* One device with two Tx queues whose driver selects queue 1.            *)
EXTENDS DeviceSubmit

CONSTANTS eth0

MCDevs == {eth0}
MCReal == [d \in MCDevs |-> 2]
MCSelect == [d \in MCDevs |-> 1]
MCHwQueues == {-1, 0}

=============================================================================
