----------------------------- MODULE MCApiKeys -----------------------------
(* Two installations of one account; nothing tells them apart. *)
EXTENDS ApiKeys, TLC

CONSTANTS i1, i2

Symmetry == Permutations(Install)

=============================================================================
