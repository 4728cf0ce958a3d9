------------------------------ MODULE MCCodes ------------------------------
(* Instances of OneTimeCodes for TLC. *)
EXTENDS CodesProperties, TLC

\* Requests are interchangeable: sound for the safety properties.
Symmetry == Permutations(Handlers)
=============================================================================
