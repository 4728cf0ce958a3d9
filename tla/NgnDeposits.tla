----------------------------- MODULE NgnDeposits -----------------------------
(***************************************************************************)
(* Money received on NGN virtual accounts: the notices DotBank posts to    *)
(* WebhookController and DotBankWebhooksController, handled by             *)
(* WebhookService.processVirtualAccountNotification, and the rows of the   *)
(* wallet, of its transactions and of its notifications.                   *)
(*                                                                         *)
(* The wallet is read before the transaction is saved and written after    *)
(* it, and other notices run between any two awaits. Nothing looks for a   *)
(* transaction of the same reference, so a notice sent twice is two        *)
(* notices here. Wallets with an account are there from the start: nothing *)
(* in this code makes one any more.                                        *)
(***************************************************************************)
EXTENDS Integers

CONSTANTS
    DepositHandlers,  \* notices that can be in flight at once
    NgnWallets,       \* the wallets with a virtual account
    DepositAmounts,   \* the amounts a payer may send
    MaxDeposits,      \* bound: notices DotBank posts
    MaxDepositFaults  \* bound: failed calls and process restarts

\* A notice is complete, or one of its parts is missing or unusual:
\*   nothing     reference, accountNo or status is missing
\*   narration   there is no narration
\*   account     the account belongs to no wallet
\*   status      the status is not READY
\*   commas      the amount has thousands separators
\*   amount      the amount is missing or empty
Oddities == {"none", "nothing", "narration", "account", "status", "commas", "amount"}

NaN == -1             \* what parseFloat makes of a missing amount

ASSUME DepositAssumption ==
    /\ NgnWallets # {}
    /\ DepositAmounts \subseteq Nat
    /\ MaxDeposits \in Nat /\ MaxDepositFaults \in Nat

VARIABLES
    balance,          \* ngn_wallets: the balance of each wallet
    recorded,         \* transactions: the sum of the credits saved for each wallet
    told,             \* notifications: how many rows say that a wallet was credited
    depositHandler,
    deposits,         \* notices posted so far
    depositFaults,
    \* What happened, for the properties: the wallets for which ...
    crossed,          \* ... a balance was saved that another notice had changed
    cutShort,         \* ... a notice ended between its transaction and its balance
    amountless        \* ... a notice without an amount was accepted

depositVars == <<balance, recorded, told, depositHandler, deposits, depositFaults,
                 crossed, cutShort, amountless>>

IdleDeposit == [pc |-> "idle", odd |-> "none", wallet |-> CHOOSE w \in NgnWallets : TRUE,
                amount |-> 0, read |-> 0, stale |-> FALSE]

DepositInit ==
    /\ balance = [w \in NgnWallets |-> 0]
    /\ recorded = [w \in NgnWallets |-> 0]
    /\ told = [w \in NgnWallets |-> 0]
    /\ depositHandler = [h \in DepositHandlers |-> IdleDeposit]
    /\ deposits = 0
    /\ depositFaults = 0
    /\ crossed = {} /\ cutShort = {} /\ amountless = {}

DepositAt(h, pc) == depositHandler[h].pc = pc
DepositGoes(h, pc) == depositHandler' = [depositHandler EXCEPT ![h].pc = pc]

\* Acknowledged or answered with ERROR, always with status 200: DotBank does
\* not send the notice again because of the answer.
AnswerDeposit(h) == depositHandler' = [depositHandler EXCEPT ![h] = IdleDeposit]

-----------------------------------------------------------------------------
(* processVirtualAccountNotification, from await to await.                 *)

\* The fields every notice must have are looked at before anything is read.
ReceiveNotice(h, w, n, odd) ==
    /\ DepositAt(h, "idle")
    /\ deposits < MaxDeposits
    /\ deposits' = deposits + 1
    /\ IF odd = "nothing"
         THEN AnswerDeposit(h)
         ELSE depositHandler' = [depositHandler EXCEPT ![h] =
                [IdleDeposit EXCEPT !.pc = "find", !.odd = odd, !.wallet = w,
                     !.amount = IF odd = "amount" THEN NaN ELSE n]]
    /\ UNCHANGED <<balance, recorded, told, depositFaults, crossed, cutShort, amountless>>

\* No wallet, or a narration that is not a string, is an error; a status other
\* than READY is acknowledged and ignored.
FindNgnWallet(h) ==
    /\ DepositAt(h, "find")
    /\ IF depositHandler[h].odd \in {"account", "narration", "status"}
         THEN AnswerDeposit(h)
         ELSE depositHandler' = [depositHandler EXCEPT ![h].pc = "record",
                ![h].read = balance[depositHandler[h].wallet]]
    /\ UNCHANGED <<balance, recorded, told, deposits, depositFaults,
                   crossed, cutShort, amountless>>

\* amount || 0 is saved: an amount with separators is no number for the column.
\* Mutant: a row the column refuses is only logged.
SaveCreditMutantLogged(h) ==
    /\ DepositAt(h, "record")
    /\ LET d == depositHandler[h] IN
       /\ recorded' = IF d.odd \in {"commas", "amount"} THEN recorded
                      ELSE [recorded EXCEPT ![d.wallet] = @ + d.amount]
       /\ amountless' = IF d.odd = "amount" THEN amountless \cup {d.wallet}
                        ELSE amountless
       /\ DepositGoes(h, "credit")
    /\ UNCHANGED <<balance, told, deposits, depositFaults, crossed, cutShort>>
SaveCredit(h) ==
    /\ DepositAt(h, "record")
    /\ LET d == depositHandler[h] IN
       IF d.odd = "commas"
         THEN /\ AnswerDeposit(h)
              /\ UNCHANGED <<recorded, amountless>>
         ELSE /\ recorded' = [recorded EXCEPT ![d.wallet] =
                                @ + (IF d.odd = "amount" THEN 0 ELSE d.amount)]
              /\ amountless' = IF d.odd = "amount" THEN amountless \cup {d.wallet}
                               ELSE amountless
              /\ DepositGoes(h, "credit")
    /\ UNCHANGED <<balance, told, deposits, depositFaults, crossed, cutShort>>

\* The balance is the one read at the start plus the amount; NaN plus anything
\* is NaN, and the column accepts it.
NewBalance(d) == IF d.odd = "amount" \/ d.read = NaN THEN NaN ELSE d.read + d.amount

\* Mutant: the balance is changed in memory only.
SaveBalanceMutantUnsaved(h) ==
    /\ DepositAt(h, "credit")
    /\ DepositGoes(h, "notify")
    /\ UNCHANGED <<balance, recorded, told, deposits, depositFaults,
                   crossed, cutShort, amountless>>
SaveBalance(h) ==
    /\ DepositAt(h, "credit")
    /\ LET d == depositHandler[h]  w == d.wallet IN
       /\ balance' = [balance EXCEPT ![w] = NewBalance(d)]
       /\ crossed' = IF d.stale THEN crossed \cup {w} ELSE crossed
       /\ depositHandler' = [g \in DepositHandlers |->
            IF g = h THEN [d EXCEPT !.pc = "notify"]
            ELSE IF depositHandler[g].wallet = w /\ depositHandler[g].pc \in {"record", "credit"}
                   THEN [depositHandler[g] EXCEPT !.stale = TRUE]
                   ELSE depositHandler[g]]
    /\ UNCHANGED <<recorded, told, deposits, depositFaults, cutShort, amountless>>

\* The row in the list of notifications; an error is logged.
SaveNotice(h) ==
    /\ DepositAt(h, "notify")
    /\ \/ told' = [told EXCEPT ![depositHandler[h].wallet] = @ + 1]
       \/ depositFaults < MaxDepositFaults /\ UNCHANGED told
    /\ DepositGoes(h, "push")
    /\ UNCHANGED <<balance, recorded, deposits, depositFaults, crossed, cutShort, amountless>>

\* The push, whose failure is logged too, and the acknowledgement.
PushAndAcknowledge(h) ==
    /\ DepositAt(h, "push")
    /\ AnswerDeposit(h)
    /\ UNCHANGED <<balance, recorded, told, deposits, depositFaults,
                   crossed, cutShort, amountless>>

-----------------------------------------------------------------------------
(* Faults.                                                                 *)

UnfinishedDeposits(H) ==
    {depositHandler[h].wallet : h \in {g \in H : DepositAt(g, "credit")}}

\* The call awaited fails: the catch block answers ERROR, what was saved stays.
FailDeposit(h) ==
    /\ depositHandler[h].pc \in {"find", "record", "credit"}
    /\ depositFaults < MaxDepositFaults
    /\ depositFaults' = depositFaults + 1
    /\ cutShort' = cutShort \cup UnfinishedDeposits({h})
    /\ AnswerDeposit(h)
    /\ UNCHANGED <<balance, recorded, told, deposits, crossed, amountless>>

\* The process restarts: every handler is gone.
RestartDeposits ==
    /\ \E h \in DepositHandlers : ~DepositAt(h, "idle")
    /\ depositFaults < MaxDepositFaults
    /\ depositFaults' = depositFaults + 1
    /\ cutShort' = cutShort \cup UnfinishedDeposits(DepositHandlers)
    /\ depositHandler' = [h \in DepositHandlers |-> IdleDeposit]
    /\ UNCHANGED <<balance, recorded, told, deposits, crossed, amountless>>

-----------------------------------------------------------------------------
DepositStep(h) ==
    \/ FindNgnWallet(h)
    \/ SaveCredit(h)
    \/ SaveBalance(h)
    \/ SaveNotice(h)
    \/ PushAndAcknowledge(h)

DepositNext ==
    \/ \E h \in DepositHandlers :
         \/ \E w \in NgnWallets, n \in DepositAmounts, odd \in Oddities :
              ReceiveNotice(h, w, n, odd)
         \/ DepositStep(h)
         \/ FailDeposit(h)
    \/ RestartDeposits

DepositSpec == DepositInit /\ [][DepositNext]_depositVars

-----------------------------------------------------------------------------
(* Properties.                                                             *)

InFlight ==
    [pc : {"idle", "find", "record", "credit", "notify", "push"}, odd : Oddities,
     wallet : NgnWallets, amount : Nat \cup {NaN}, read : Nat \cup {NaN}, stale : BOOLEAN]

DepositTypeOK ==
    /\ balance \in [NgnWallets -> Nat \cup {NaN}]
    /\ recorded \in [NgnWallets -> Nat]
    /\ told \in [NgnWallets -> Nat]
    /\ depositHandler \in [DepositHandlers -> InFlight]
    /\ deposits \in 0..MaxDeposits /\ depositFaults \in 0..MaxDepositFaults
    /\ crossed \subseteq NgnWallets
    /\ cutShort \subseteq NgnWallets
    /\ amountless \subseteq NgnWallets

\* A wallet never shows more money than the credits recorded for it, in any
\* interleaving of notices and with a failure or restart at any await: the two
\* separate writes of processVirtualAccountNotification may lose money but not
\* make any. It shows no number only after a notice without an amount.
BalanceBacked ==
    \A w \in NgnWallets :
      IF balance[w] = NaN THEN w \in amountless ELSE balance[w] <= recorded[w]

\* Money goes missing from a wallet only for a cause: with no notice for it
\* being processed, its balance is the sum of its credits unless a notice saved
\* a balance read before another's was saved, a notice was cut short between
\* its two writes, or one had no amount. Notices for other wallets, refused
\* ones and failed messages to the user never are a cause.
LossHasCause ==
    \A w \in NgnWallets \ (crossed \cup cutShort \cup amountless) :
      (\A h \in DepositHandlers : DepositAt(h, "idle") \/ depositHandler[h].wallet # w)
        => balance[w] = recorded[w]
=============================================================================
