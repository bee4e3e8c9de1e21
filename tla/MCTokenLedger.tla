---------------------------- MODULE MCTokenLedger ----------------------------
(* Small instance of TokenLedger for TLC. *)
EXTENDS TokenLedger, TLC

CONSTANTS s1, s2, v1, v2, h1, h2, h3

Symmetry == Permutations({s1, s2}) \cup Permutations({v1, v2})
              \cup Permutations({h1, h2, h3})

=============================================================================
