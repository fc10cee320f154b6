------------------------------ MODULE MCLocks ------------------------------
(* Instances of Locks for TLC.  Request slots are interchangeable.          *)
EXTENDS Locks, TLC

Slots == Permutations(Reqs)
=============================================================================
