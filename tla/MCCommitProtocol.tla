-------------------------- MODULE MCCommitProtocol --------------------------
(* Instances of CommitProtocol for TLC: one user with two commits, one of a *)
(* file and one of directories only, and a second user with one of his own, *)
(* who takes locks too.                                                     *)
EXTENDS CommitProtocol, TLC

CONSTANTS u1, u2, c1, c2, c3, p1

Authors == [c \in {c1, c2, c3} |-> IF c = c3 THEN u2 ELSE u1]
Files == (c1 :> {p1}) @@ (c2 :> {}) @@ (c3 :> {})
Slots == Permutations(Reqs)
=============================================================================
