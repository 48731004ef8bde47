------------------------------ MODULE MCCluster ------------------------------
(* Model-checking instances of Cluster.                                     *)
EXTENDS Cluster, TLC

CONSTANTS s1, s2, s3, s4

ThreeSlaves == {s1, s2, s3}
FourSlaves == {s1, s2, s3, s4}
KeyZero == {0}
Symmetry3 == Permutations(ThreeSlaves)
=============================================================================
