----------------------------- MODULE MCAccounts -----------------------------
(* Instances of Accounts for TLC.                                           *)
EXTENDS Accounts, TLC

Symmetry == Permutations(Requests)

CONSTANTS ann, bob, annsEntry, bobsEntry
\* ann has an entry in the directory; bob gets one when the directory changes.
OneEntry == ann :> annsEntry @@ bob :> None
=============================================================================
