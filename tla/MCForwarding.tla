---------------------------- MODULE MCForwarding ----------------------------
(* Instances of Forwarding for TLC: two or three clients, which come to the  *)
(* port in any order, and a byte or two each way.  The clients are           *)
(* interchangeable (symmetry is used in runs without liveness only).         *)
EXTENDS Forwarding, TLC
ClientSymmetry == Permutations(Clients)
=============================================================================
