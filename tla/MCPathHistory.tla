--------------------------- MODULE MCPathHistory ---------------------------
(* Instances of PathHistory for TLC: a, a/b, a/b/f, and a/bc, whose text    *)
(* starts with the text of its sibling a/b.                                 *)
EXTENDS PathHistory, TLC

CONSTANTS a, a_b, a_b_f, a_bc

ParentOf == [p \in Paths |-> CASE p = a -> Root
                               [] p \in {a_b, a_bc} -> a
                               [] p = a_b_f -> a_b]
AncestorsOf == [p \in Paths |-> CASE p = a -> {}
                                  [] p \in {a_b, a_bc} -> {a}
                                  [] p = a_b_f -> {a, a_b}]
TextOrder == <<a, a_b, a_b_f, a_bc>>
TextRange == [p \in Paths |-> CASE p = a -> Paths
                                [] p = a_b -> {a_b, a_b_f, a_bc}
                                [] OTHER -> {p}]
TopDir == {a}
HashSymmetry == Permutations(Hashes)
=============================================================================
