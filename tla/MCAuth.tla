------------------------------- MODULE MCAuth -------------------------------
(* Instances of AuthSession for TLC. *)
EXTENDS AuthProperties, TLC

CONSTANTS p1, p2

\* Requests and tokens are interchangeable: sound for the safety properties.
Symmetry == Permutations(Handlers) \cup Permutations(Pairs)
=============================================================================
