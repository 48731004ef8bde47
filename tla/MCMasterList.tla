---------------------------- MODULE MCMasterList -----------------------------
(* Model-checking instance of MasterList: interchangeable slaves.          *)
EXTENDS MasterList, TLC

CONSTANTS s1, s2, s3, s4, s5

MCSlaves == {s1, s2, s3, s4, s5}

MCSymmetry == Permutations(MCSlaves)
=============================================================================
