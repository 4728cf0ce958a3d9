-------------------------- MODULE AptPayProperties --------------------------
(* What AptPayWebhook must guarantee about money and its records.          *)
EXTENDS AptPayWebhook, FiniteSetsExt

TypeOK ==
    /\ verdict \in [Ids -> Statuses]
    /\ acked \in [Ids -> SUBSET Statuses]
    /\ tx \in [Ids -> TxStatus]
    /\ balance \in [Users -> Nat]
    /\ request \in [RequestPays -> RequestStatus]
    /\ cache \in [RequestPays -> BOOLEAN]
    /\ events \in [Ids -> Seq(EventRow)]
    /\ handler \in [Handlers -> Handler]
    /\ duplicates \in Nat
    /\ faults \in Nat

-----------------------------------------------------------------------------
(* What holds whatever the interleaving, the order of delivery, the faults. *)

\* A transaction is completed only for a payment APT Pay settled, and failed
\* only for one it failed: completeTransaction and failTransaction never run
\* for the other outcome.
TxMatchesVerdict ==
    \A i \in Ids :
        /\ tx[i] = "COMPLETED" => verdict[i] = "SETTLED"
        /\ tx[i] = "FAILED" => Failure(verdict[i])

\* COMPLETED and FAILED are final: the unlocked check-then-save of
\* failTransaction never overwrites a completed transaction, nor the reverse.
TxFinal ==
    [][\A i \in Ids : tx[i] \in {"COMPLETED", "FAILED"} => tx'[i] = tx[i]]_vars

\* Every change of a wallet has a cause: the handler that makes it is serving
\* a settled request of that user, whose transaction it completes, or a
\* disbursement of that user whose transaction is already failed.
Causes(h, u) ==
    LET i == handler[h].id IN
    /\ handler'[h] # handler[h]
    /\ i \in Payments /\ Owner[i] = u
    /\ \/ i \in RequestPays /\ verdict[i] = "SETTLED" /\ tx'[i] = "COMPLETED"
       \/ i \in Disbursements /\ tx[i] = "FAILED"

BalanceHasCause ==
    [][\A u \in Users :
          balance'[u] # balance[u] => \E h \in Handlers : Causes(h, u)]_vars

\* The payment request never claims more than APT Pay said, and is only
\* failed together with its transaction.
RequestMatchesVerdict ==
    \A i \in RequestPays :
        /\ request[i] = "completed" => verdict[i] = "SETTLED"
        /\ request[i] = "failed" => tx[i] = "FAILED"

\* Why they hold: what a handler's pc says of the delivery it serves, of the
\* transaction it has seen and of where a nested call returns to.  With TypeOK
\* and the two invariants above this is inductive.
Completing == {"completeFindTx", "completeFindWallet", "completeCommit"}
Failing == {"failFindTx", "failSave"}

HandlerOK(d) ==
    /\ d.pc # "idle" => d.id \in Ids /\ d.status \in {"OK", verdict[d.id]}
    /\ d.pc = "findTx" => d.id \in Payments /\ d.status # "OK"
    /\ d.pc = "findTxAgain" => d.id \in RequestPays /\ Failure(d.status)
    /\ d.pc \in Completing =>
          d.id \in Payments /\ d.status = "SETTLED" /\ d.next = Return(d)
    /\ d.pc \in Failing =>
          /\ d.id \in Payments /\ Failure(d.status)
          /\ d.next = Return(d) \/ (d.id \in RequestPays /\ d.next = "readCache")
    /\ d.pc = "completeRequest" => d.id \in RequestPays /\ d.status = "SETTLED"
    /\ d.pc \in {"dropCache", "readCache"} => d.id \in RequestPays
    /\ d.pc = "failRequest" => d.id \in RequestPays /\ tx[d.id] = "FAILED"
    /\ d.pc \in {"refundFindWallet", "refundSave"} =>
          d.id \in Disbursements /\ tx[d.id] = "FAILED"

HandlerInv == \A h \in Handlers : HandlerOK(handler[h])

-----------------------------------------------------------------------------
(* What also needs one delivery at a time.                                 *)

Sum(S) == MapThenSumSet(LAMBDA i : Amount[i], S)

Credited(u) == {i \in RequestPays : Owner[i] = u /\ tx[i] = "COMPLETED"}
Refunded(u) == {i \in Disbursements : Owner[i] = u /\ tx[i] = "FAILED"}

\* A refund is under way: the disbursement is failed, the wallet not yet paid.
Refunding == {i \in Disbursements : \E h \in Handlers :
                 handler[h].id = i
                 /\ handler[h].pc \in {"refundFindWallet", "refundSave"}}

\* Until a call fails or the process restarts, the wallet is exactly its
\* opening balance, the requests completed and the disbursements failed: the
\* split between failing a disbursement and refunding it loses nothing.
LedgerExact ==
    faults = 0 =>
        \A u \in Users :
            balance[u] = Opening[u] + Sum(Credited(u)) + Sum(Refunded(u) \ Refunding)

\* Whatever fails, no user ever holds more than their payments, each paid
\* once, add up to: a webhook retried after a failure pays nothing again.
NeverOverpaid ==
    \A u \in Users :
        balance[u] <= Opening[u] + Sum(Credited(u)) + Sum(Refunded(u))

\* One delivery at a time implements the abstract ledger: no order, repetition
\* or failure of the webhooks shows but for a refund that a fault loses.
Ledger == INSTANCE PaymentLedger WITH owed <- Refunding, Lossy <- MaxFaults > 0

ImplementsLedger == Ledger!Spec

Quiet(i) == \A h \in Handlers : handler[h].id # i

\* A verdict that was answered with 200 and is not in flight will not be sent
\* again.
Closed(i) == verdict[i] # "OK" /\ verdict[i] \in acked[i] /\ Quiet(i)

\* For a prompt payment a 200 means the delivery was dealt with: the
\* transaction of a settled request, or of a payment that failed, is closed.
AckedIsDone ==
    faults = 0 =>
        \A i \in Prompt :
            Closed(i) /\ (i \in RequestPays \/ Failure(verdict[i]))
                => tx[i] \in {"COMPLETED", "FAILED"}

\* A prompt request and its transaction end in the same way.
RequestMatchesTx ==
    faults = 0 =>
        \A i \in RequestPays \cap Prompt : Quiet(i) =>
            /\ request[i] = "completed" <=> tx[i] = "COMPLETED"
            /\ request[i] = "failed" <=> tx[i] = "FAILED"

\* A prompt request that APT Pay settles is eventually credited.
SettledIsCredited ==
    \A i \in RequestPays \cap Prompt :
        verdict[i] = "SETTLED" ~> tx[i] = "COMPLETED" \/ faults > 0

-----------------------------------------------------------------------------
(* What the repository says and the code does not do.                      *)

\* "Re-throw other errors to trigger APT Pay retries": the retry of a verdict
\* whose processing failed closes the transaction.
RetryCompletes ==
    \A i \in Prompt :
        /\ Closed(i)
        /\ i \in RequestPays \/ Failure(verdict[i])
        /\ \E k \in DOMAIN events[i] :
              events[i][k].status = verdict[i] /\ events[i][k].processing = "failed"
        => tx[i] \in {"COMPLETED", "FAILED"}
=============================================================================
