------------------------------ MODULE MCAptPay ------------------------------
(* Instances of AptPayWebhook for TLC: one user, a request and a disbursement. *)
EXTENDS AptPayProperties, TLC

CONSTANTS r1, r2, d1, u1, x1

MCOwner == [i \in Payments |-> u1]
MCAmount == [i \in Payments |-> IF i = d1 THEN 2 ELSE 1]
MCOpening == [u \in Users |-> 1]   \* too little to settle d1
MCOpeningRich == [u \in Users |-> 2]

\* Handlers are interchangeable: sound for the safety properties.
Symmetry == Permutations(Handlers)
=============================================================================
