------------------------------ MODULE MCService ------------------------------
(* Model-checking instances of Service.                                     *)
EXTENDS Service, TLC

CONSTANTS s1, s2, s3, s4

TwoSlaves == {s1, s2}
ThreeSlaves == {s1, s2, s3}
FourSlaves == {s1, s2, s3, s4}
KeyTwo == {2}
KeyOne == {1}
TwoKeys == {0, 3}
Writes == {"set", "del"}
AllCommands == {"set", "get", "del"}
OneValue == {"v"}
Symmetry == Permutations(Slaves)
=============================================================================
