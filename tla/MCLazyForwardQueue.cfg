\* LazyForward, the Tx queue of each device: does every device get the
\* queue its first pfq_lazy_xmit asked for?  Bounds as in MCLazyForward.cfg.
CONSTANTS
  eth0 = eth0
  eth1 = eth1
  Devs <- MCDevs
  Real <- MCReal
  Select <- MCSelect
  NBufs = 2
  HwQueues <- MCHwQueues
  LogLen = 2
  MaxCalls = 3
SPECIFICATION Spec
INVARIANT QueueAsRequested
