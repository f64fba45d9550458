------------------------------- MODULE MCDhcp -------------------------------
(* Instances of Dhcp for TLC: clients and transaction ids are model values   *)
(* and interchangeable.                                                      *)
EXTENDS Dhcp, TLC
Symmetry == Permutations(Macs) \cup Permutations(Xids)
=============================================================================
