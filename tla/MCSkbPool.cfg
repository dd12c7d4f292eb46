CONSTANTS
  s1 = s1
  s2 = s2
  s3 = s3
  t1 = t1
  t2 = t2
  cons = cons
  NULL = NULL
  Bufs <- MCBufs
  Size = 3
  Producers <- OneProducer
  Consumer = cons

SPECIFICATION Spec

INVARIANT
  TypeOK
  PoolConservation

PROPERTY
  RefinesFifo
