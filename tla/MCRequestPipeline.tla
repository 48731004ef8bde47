-------------------------- MODULE MCRequestPipeline --------------------------
(* Model-checking instances of RequestPipeline.                             *)
EXTENDS RequestPipeline

CONSTANTS c1, c2, w1, w2

OneClient == {c1}
TwoClients == {c1, c2}
OneWorker == {w1}
TwoWorkers == {w1, w2}
NoClient == {}
=============================================================================
