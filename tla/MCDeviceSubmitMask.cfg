\* DeviceSubmit, the error path of pfq_batch_xmit_by_mask: a batch of 3
\* skbs, every non-empty mask, any driver answer.
CONSTANTS
  eth0 = eth0
  Dev = eth0
  Devs <- MCDevs
  Real <- MCReal
  Select <- MCSelect
  HwQueues <- MCHwQueues
  N = 3
SPECIFICATION Spec
INVARIANT RemainderFreed
