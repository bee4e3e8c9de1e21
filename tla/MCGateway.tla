------------------------------ MODULE MCGateway ------------------------------
(* Small instances of Gateway for TLC. *)
EXTENDS Gateway

Symmetry == Permutations(Reqs) \cup Permutations(Sensitive)
              \cup Permutations(Hex)

=============================================================================
