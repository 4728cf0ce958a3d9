--------------------------- MODULE PaymentLedger ----------------------------
(* What settling Interac payments promises, without webhooks, events or     *)
(* handlers: APT Pay reaches a verdict, the transaction follows it once and *)
(* for all, and the wallet moves once, in the same step for a request and   *)
(* afterwards for the refund of a failed disbursement.                      *)
EXTENDS Naturals

CONSTANTS
    RequestPays, Disbursements, Strays, Users, Owner, Amount, Opening,
    Late, Verdicts,
    Lossy           \* TRUE: a fault may lose a refund

VARIABLES
    verdict, tx, balance,
    owed            \* failed disbursements whose refund is not paid yet

Payments == RequestPays \cup Disbursements
Ids == Payments \cup Strays

Init ==
    /\ verdict = [i \in Ids |-> "OK"]
    /\ tx = [i \in Ids |-> IF i \in Payments \ Late THEN "PENDING" ELSE "ABSENT"]
    /\ balance = Opening
    /\ owed = {}

Decide(i, v) ==
    /\ verdict[i] = "OK"
    /\ verdict' = [verdict EXCEPT ![i] = v]
    /\ UNCHANGED <<tx, balance, owed>>

Open(i) ==
    /\ tx[i] = "ABSENT"
    /\ tx' = [tx EXCEPT ![i] = "PENDING"]
    /\ UNCHANGED <<verdict, balance, owed>>

Close(i, status) ==
    /\ tx[i] = "PENDING"
    /\ tx' = [tx EXCEPT ![i] = status]
    /\ UNCHANGED verdict

Pay(i) == balance' = [balance EXCEPT ![Owner[i]] = @ + Amount[i]]

Credit(i) ==
    /\ verdict[i] = "SETTLED"
    /\ Close(i, "COMPLETED")
    /\ Pay(i)
    /\ UNCHANGED owed

\* A disbursement is completed only while the wallet holds its amount.
PayOut(i) ==
    /\ verdict[i] = "SETTLED"
    /\ balance[Owner[i]] >= Amount[i]
    /\ Close(i, "COMPLETED")
    /\ UNCHANGED <<balance, owed>>

FailRequest(i) ==
    /\ verdict[i] \in {"FAILED", "ERROR"}
    /\ Close(i, "FAILED")
    /\ UNCHANGED <<balance, owed>>

FailDisbursement(i) ==
    /\ verdict[i] \in {"FAILED", "ERROR"}
    /\ Close(i, "FAILED")
    /\ owed' = owed \cup {i}
    /\ UNCHANGED balance

Refund(i) ==
    /\ i \in owed
    /\ owed' = owed \ {i}
    /\ Pay(i)
    /\ UNCHANGED <<verdict, tx>>

LoseRefund(i) ==
    /\ Lossy
    /\ i \in owed
    /\ owed' = owed \ {i}
    /\ UNCHANGED <<verdict, tx, balance>>

Next ==
    \/ \E i \in Ids, v \in Verdicts : Decide(i, v)
    \/ \E i \in Late : Open(i)
    \/ \E i \in RequestPays : Credit(i) \/ FailRequest(i)
    \/ \E i \in Disbursements :
          PayOut(i) \/ FailDisbursement(i) \/ Refund(i) \/ LoseRefund(i)

Spec == Init /\ [][Next]_<<verdict, tx, balance, owed>>
=============================================================================
