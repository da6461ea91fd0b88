----------------------------- MODULE MCRepeater -----------------------------
(* Instances of Repeater for TLC.  Bounds, named by the constants of the     *)
(* cfg files: streams of three or four bytes through buffers of two.        *)
EXTENDS Repeater
=============================================================================
