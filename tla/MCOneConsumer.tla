---------------------------- MODULE MCOneConsumer ----------------------------
(* Model-checking instance of OneConsumer.                                  *)
EXTENDS OneConsumer

CONSTANTS i1, i2

MCItems == {i1, i2}
=============================================================================
