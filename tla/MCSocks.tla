------------------------------ MODULE MCSocks ------------------------------
(* A small destination, user and tunnel for Socks.  The port has two          *)
(* different bytes that are not 0.                                            *)
EXTENDS Socks
MCHost == <<104, 105>>
MCAddr == <<10, 0, 0, 1>>
MCUser == <<117>>
MCPassword == <<112, 119>>
MCTunnel == <<83>>
\* The default, one method only, and one the program cannot do.
MCAuthLists == {<<0, 2>>, <<2>>, <<1, 0>>}
=============================================================================
