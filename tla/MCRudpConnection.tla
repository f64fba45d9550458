-------------------------- MODULE MCRudpConnection --------------------------
(* Instances of RudpConnection for TLC; the values are in the .cfg files.   *)
EXTENDS RudpConnection
=============================================================================
