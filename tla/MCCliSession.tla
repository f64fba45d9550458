---------------------------- MODULE MCCliSession ----------------------------
(* Instances of CliSession for TLC; ports are interchangeable.               *)
EXTENDS CliSession, TLC
Symmetry == Permutations(Clients)
=============================================================================
