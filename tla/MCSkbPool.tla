----------------------------- MODULE MCSkbPool ------------------------------
(* Model-checking instance of SkbPool: three skbs, a ring of three slots. *)
EXTENDS SkbPool

CONSTANTS s1, s2, s3, t1, t2, cons

MCBufs == {s1, s2, s3}
OneProducer == {t1}
TwoProducers == {t1, t2}
=============================================================================
