------------------------------- MODULE Duplex -------------------------------
(***************************************************************************)
(* What connect promises its two ends, without saying how: bytes numbered  *)
(* 1, 2, ... enter a direction and leave it in that order, at most Cap of  *)
(* them stand in between, nothing moves once the relay has ended, and a    *)
(* relay that finishes has let every byte out that it let in.              *)
(***************************************************************************)
EXTENDS Integers, Sequences

CONSTANTS
  Dir,        \* the directions
  Cap         \* bytes that may stand in one direction

VARIABLES
  entered,    \* how many bytes have entered each direction
  left,       \* the bytes that have left each direction, in order
  state       \* "running", then "finished" or "broken"

vars == <<entered, left, state>>

Upto(n) == [i \in 1..n |-> i]

Init ==
  /\ entered = [d \in Dir |-> 0]
  /\ left = [d \in Dir |-> <<>>]
  /\ state = "running"

Enter(d) ==
  /\ \E n \in entered[d] + 1 .. Len(left[d]) + Cap :
       entered' = [entered EXCEPT ![d] = n]
  /\ UNCHANGED left

Leave(d) ==
  /\ \E n \in Len(left[d]) + 1 .. entered[d] :
       left' = [left EXCEPT ![d] = Upto(n)]
  /\ UNCHANGED entered

Complete == \A d \in Dir : left[d] = Upto(entered[d])

Next ==
  /\ state = "running"
  /\ (\E d \in Dir : Enter(d) \/ Leave(d)) \/ UNCHANGED <<entered, left>>
  /\ \/ UNCHANGED state
     \/ state' = "finished" /\ Complete'
     \/ state' = "broken"

Spec == Init /\ [][Next]_vars
=============================================================================
