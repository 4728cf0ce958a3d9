--------------------------- MODULE AptPayWebhook ---------------------------
(***************************************************************************)
(* How AzariPay settles an Interac payment from the webhooks APT Pay sends *)
(* (AptPayWebhookService), together with the two TransactionService        *)
(* operations it drives, completeTransaction and failTransaction.          *)
(*                                                                         *)
(* A webhook delivery is an HTTP request served by a handler.  Every       *)
(* `await` of the code is a point where other handlers run, so a handler   *)
(* is a record whose pc names the database or Redis call it is about to    *)
(* make, and which holds the entities it has loaded: TypeORM's save()      *)
(* writes the loaded entity back whole, so a stale copy undoes what        *)
(* another handler wrote in between.                                       *)
(***************************************************************************)
EXTENDS Integers, Sequences

CONSTANTS
    Handlers,       \* webhook requests that can be in flight at once
    RequestPays,    \* APT Pay ids with a payment_requests row (money in)
    Disbursements,  \* APT Pay ids with a disbursements row (money out)
    Strays,         \* APT Pay ids no row of ours knows
    Users,
    Owner,          \* the user a payment belongs to
    Amount,         \* its amount
    Opening,        \* the CAD wallet balances to start from
    Late,           \* payments whose transaction row is inserted later
    Verdicts,       \* final statuses APT Pay may reach
    Prompt,         \* payments opened and with OK answered before the verdict
    MaxDuplicates,  \* bound: deliveries repeated although answered with 200
    MaxFaults,      \* bound: failed database calls and process restarts
    NoId            \* the id of an idle handler's payload

Payments == RequestPays \cup Disbursements
Ids == Payments \cup Strays
Final == {"SETTLED", "FAILED", "ERROR"}
Statuses == {"OK"} \cup Final

ASSUME PaymentAssumption ==
    /\ RequestPays \cap Disbursements = {}
    /\ Strays \cap Payments = {}
    /\ NoId \notin Ids
    /\ Owner \in [Payments -> Users]
    /\ Amount \in [Payments -> Nat \ {0}]
    /\ Opening \in [Users -> Nat]
    /\ Late \subseteq Payments
    /\ Verdicts \subseteq Final
    /\ Prompt \subseteq Payments
    /\ MaxDuplicates \in Nat
    /\ MaxFaults \in Nat

VARIABLES
    verdict,     \* verdict[i]: the status APT Pay has reached for payment i
    acked,       \* acked[i]: its statuses that were answered with HTTP 200
    tx,          \* tx[i]: the status of the transactions row of payment i
    balance,     \* balance[u]: the CAD wallet of user u
    request,     \* request[i]: the status of the payment_requests row
    cache,       \* cache[i]: Redis holds payment_request:<i>
    events,      \* events[i]: the aptpay_webhook_events rows with aptPayId i
    handler,     \* handler[h]: the delivery h is serving
    duplicates,
    faults

vars == <<verdict, acked, tx, balance, request, cache, events, handler,
          duplicates, faults>>

-----------------------------------------------------------------------------
(* Rows and handler-local state. *)

TxStatus == {"ABSENT", "PENDING", "COMPLETED", "FAILED"}
RequestStatus == {"pending", "completed", "failed"}

\* A row of aptpay_webhook_events; linked: its userId column is set.
EventRow == [status : Statuses,
             processing : {"pending", "processed", "failed"},
             linked : BOOLEAN]

NoRow == [status |-> "OK", processing |-> "pending", linked |-> FALSE]

Pcs == {"idle", "findEvent", "createEvent", "updateEvent", "dispatch",
        "findTx", "findTxAgain",
        "completeFindTx", "completeFindWallet", "completeCommit",
        "failFindTx", "failSave", "refundFindWallet", "refundSave",
        "completeRequest", "dropCache", "failRequest", "readCache",
        "markProcessed", "errorFindEvent", "errorSave"}

Handler == [pc : Pcs,
            id : Ids \cup {NoId},
            status : Statuses,             \* payload.status
            previous : Statuses \cup {"NEW"},  \* context.previousStatus
            row : Nat,                     \* which row `event` was loaded from
            event : EventRow,              \* the webhookEvent entity
            wallet : Nat,                  \* the balance of the loaded wallet
            next : Pcs,                    \* where a nested call returns to
            cached : BOOLEAN,              \* cachedData was found in Redis
            badRequest : BOOLEAN]          \* the thrown error's class

Idle == [pc |-> "idle", id |-> NoId, status |-> "OK", previous |-> "NEW",
         row |-> 0, event |-> NoRow, wallet |-> 0, next |-> "idle",
         cached |-> FALSE, badRequest |-> FALSE]

Becomes(h, d) == handler' = [handler EXCEPT ![h] = d]

Goto(h, pc) == Becomes(h, [handler[h] EXCEPT !.pc = pc])

At(h, pc) == handler[h].pc = pc

\* A throw inside processWebhook: control reaches its catch block.
Throw(h, isBadRequest) ==
    Becomes(h, [handler[h] EXCEPT !.pc = "errorFindEvent",
                                  !.badRequest = isBadRequest])

\* The controller answers 200 and the handler is done.
Answer(h) ==
    /\ acked' = [acked EXCEPT ![handler[h].id] = @ \cup {handler[h].status}]
    /\ Becomes(h, Idle)

\* save(webhookEvent): the loaded entity replaces the row.
SaveEvent(h, event) ==
    events' = [events EXCEPT ![handler[h].id] =
                  [@ EXCEPT ![handler[h].row] = event]]

(* A definition with "Mutant" in its name is a plausible slip in the code   *)
(* that the definition after it models: it shows that a property can fail.  *)

ValidProgressionMutantNoFailure(previous, new) ==
    previous = "OK" /\ new = "SETTLED"

ValidProgressionMutantNoSettled(previous, new) ==
    previous = "OK" /\ new \in {"FAILED", "ERROR"}

\* isValidStatusProgression
ValidProgression(previous, new) == previous = "OK" /\ new \in Final

-----------------------------------------------------------------------------
Init ==
    /\ verdict = [i \in Ids |-> "OK"]
    /\ acked = [i \in Ids |-> {}]
    /\ tx = [i \in Ids |-> IF i \in Payments \ Late THEN "PENDING" ELSE "ABSENT"]
    /\ balance = Opening
    /\ request = [i \in RequestPays |-> "pending"]
    /\ cache = [i \in RequestPays |-> i \notin Late]
    /\ events = [i \in Ids |-> <<>>]
    /\ handler = [h \in Handlers |-> Idle]
    /\ duplicates = 0
    /\ faults = 0

-----------------------------------------------------------------------------
(* The environment: APT Pay, the code that opened the payment, Redis's TTL. *)

Decide(i, v) ==
    /\ verdict[i] = "OK"
    /\ i \in Prompt => "OK" \in acked[i] /\ tx[i] = "PENDING"
    /\ verdict' = [verdict EXCEPT ![i] = v]
    /\ UNCHANGED <<acked, tx, balance, request, cache, events, handler,
                   duplicates, faults>>

\* Statuses reached are delivered in any order, again until answered with 200.
Receive(h, i, s) ==
    /\ At(h, "idle")
    /\ s \in {"OK", verdict[i]}
    /\ Becomes(h, [Idle EXCEPT !.pc = "findEvent", !.id = i, !.status = s])
    /\ UNCHANGED <<verdict, acked, tx, balance, request, cache, events, faults>>

Deliver(h, i, s) ==
    /\ s \notin acked[i]
    /\ Receive(h, i, s)
    /\ UNCHANGED duplicates

DeliverAgain(h, i, s) ==
    /\ s \in acked[i]
    /\ duplicates < MaxDuplicates
    /\ Receive(h, i, s)
    /\ duplicates' = duplicates + 1

\* createPendingTransaction, the wallet untouched; the initiator caches requests.
OpenTransaction(i) ==
    /\ tx[i] = "ABSENT"
    /\ tx' = [tx EXCEPT ![i] = "PENDING"]
    /\ cache' = [c \in RequestPays |-> c = i \/ cache[c]]
    /\ UNCHANGED <<verdict, acked, balance, request, events, handler,
                   duplicates, faults>>

ExpireCache(i) ==
    /\ cache[i]
    /\ cache' = [cache EXCEPT ![i] = FALSE]
    /\ UNCHANGED <<verdict, acked, tx, balance, request, events, handler,
                   duplicates, faults>>

-----------------------------------------------------------------------------
(* processWebhook: recording the event and deciding whether to process it. *)

FindNoEvent(h) ==
    /\ At(h, "findEvent")
    /\ events[handler[h].id] = <<>>
    /\ Becomes(h, [handler[h] EXCEPT
          !.pc = "createEvent",
          !.previous = "NEW",
          !.event = [status |-> handler[h].status, processing |-> "pending",
                     linked |-> FALSE]])
    /\ UNCHANGED <<verdict, acked, tx, balance, request, cache, events,
                   duplicates, faults>>

\* An exact duplicate or an invalid transition: answered, nothing is processed.
FindHandledEvent(h) ==
    /\ At(h, "findEvent")
    /\ \E k \in DOMAIN events[handler[h].id] :
          LET previous == events[handler[h].id][k].status IN
          \/ previous = handler[h].status
          \/ ~ValidProgression(previous, handler[h].status)
    /\ Answer(h)
    /\ UNCHANGED <<verdict, tx, balance, request, cache, events, duplicates,
                   faults>>

FindProgression(h) ==
    /\ At(h, "findEvent")
    /\ \E k \in DOMAIN events[handler[h].id] :
          LET found == events[handler[h].id][k] IN
          /\ found.status # handler[h].status
          /\ ValidProgression(found.status, handler[h].status)
          /\ Becomes(h, [handler[h] EXCEPT
                !.pc = "updateEvent",
                !.previous = found.status,
                !.row = k,
                !.event = [found EXCEPT !.status = handler[h].status,
                                        !.processing = "pending"]])
    /\ UNCHANGED <<verdict, acked, tx, balance, request, cache, events,
                   duplicates, faults>>

\* aptPayId is indexed but not unique: a second row is accepted.
CreateEvent(h) ==
    /\ At(h, "createEvent")
    /\ events' = [events EXCEPT ![handler[h].id] = Append(@, handler[h].event)]
    /\ Becomes(h, [handler[h] EXCEPT !.pc = "dispatch",
                                     !.row = Len(events[handler[h].id]) + 1])
    /\ UNCHANGED <<verdict, acked, tx, balance, request, cache, duplicates,
                   faults>>

UpdateEvent(h) ==
    /\ At(h, "updateEvent")
    /\ SaveEvent(h, handler[h].event)
    /\ Goto(h, "dispatch")
    /\ UNCHANGED <<verdict, acked, tx, balance, request, cache, duplicates,
                   faults>>

MarkProcessed(h) ==
    /\ At(h, "markProcessed")
    /\ SaveEvent(h, [handler[h].event EXCEPT !.processing = "processed"])
    /\ Answer(h)
    /\ UNCHANGED <<verdict, tx, balance, request, cache, duplicates, faults>>

\* The catch block loads some row of the id, not necessarily the handler's.
ErrorFindEvent(h) ==
    /\ At(h, "errorFindEvent")
    /\ \E k \in DOMAIN events[handler[h].id] :
          Becomes(h, [handler[h] EXCEPT
              !.pc = "errorSave",
              !.row = k,
              !.event = [events[handler[h].id][k] EXCEPT !.processing = "failed"]])
    /\ UNCHANGED <<verdict, acked, tx, balance, request, cache, events,
                   duplicates, faults>>

\* A BadRequestException is answered with 200, any other error is not.
AnswerError(h) ==
    \/ handler[h].badRequest /\ Answer(h)
    \/ /\ ~handler[h].badRequest
       /\ Becomes(h, Idle)
       /\ UNCHANGED acked

ErrorNoEvent(h) ==
    /\ At(h, "errorFindEvent")
    /\ events[handler[h].id] = <<>>
    /\ AnswerError(h)
    /\ UNCHANGED <<verdict, tx, balance, request, cache, events, duplicates,
                   faults>>

ErrorSave(h) ==
    /\ At(h, "errorSave")
    /\ SaveEvent(h, handler[h].event)
    /\ AnswerError(h)
    /\ UNCHANGED <<verdict, tx, balance, request, cache, duplicates, faults>>

-----------------------------------------------------------------------------
(* handleWebhookEvent and the first step of each handler: linking the user. *)

Failure(s) == s \in {"FAILED", "ERROR"}

\* OK taken for a final status.
AfterLinkMutantOK(d) ==
    IF d.status = "SETTLED" /\ d.previous # "OK" THEN "markProcessed" ELSE "findTx"

\* previousStatus compared the wrong way round.
AfterLinkMutantInverted(d) ==
    CASE d.status = "OK" -> "markProcessed"
      [] d.status = "SETTLED" ->
            IF d.previous # "OK" THEN "findTx"
            ELSE IF d.id \in RequestPays THEN "completeRequest" ELSE "markProcessed"
      [] Failure(d.status) -> "findTx"

\* The pc a handler reaches once the event row carries its user.
AfterLink(d) ==
    LET progressed == d.previous = "OK" IN
    CASE d.status = "OK" -> "markProcessed"
      [] d.status = "SETTLED" /\ progressed -> "findTx"
      [] d.status = "SETTLED" /\ ~progressed ->
            IF d.id \in RequestPays THEN "completeRequest" ELSE "markProcessed"
      [] Failure(d.status) ->
            IF d.id \in Disbursements \/ progressed THEN "findTx" ELSE "findTxAgain"

\* A SETTLED request is first looked up in Redis.
Cached(d) == d.id \in RequestPays /\ d.status = "SETTLED" /\ cache[d.id]

LinkUser(h) ==
    LET linked == [handler[h].event EXCEPT !.linked = TRUE] IN
    /\ At(h, "dispatch")
    /\ \/ handler[h].id \in RequestPays
       \/ handler[h].id \in Disbursements /\ handler[h].status # "OK"
    /\ SaveEvent(h, linked)
    /\ Becomes(h, [handler[h] EXCEPT !.event = linked,
                                     !.cached = Cached(handler[h]),
                                     !.pc = AfterLink(handler[h])])
    /\ UNCHANGED <<verdict, acked, tx, balance, request, cache, duplicates,
                   faults>>

\* handleDisbursementOK knows the user only from an event row that is linked.
DisbursementOK(h) ==
    /\ At(h, "dispatch")
    /\ handler[h].id \in Disbursements
    /\ handler[h].status = "OK"
    /\ \E k \in DOMAIN events[handler[h].id] :
          IF events[handler[h].id][k].linked
          THEN LET linked == [handler[h].event EXCEPT !.linked = TRUE] IN
               /\ SaveEvent(h, linked)
               /\ Becomes(h, [handler[h] EXCEPT !.event = linked,
                                                !.pc = "markProcessed"])
          ELSE Goto(h, "markProcessed") /\ UNCHANGED events
    /\ UNCHANGED <<verdict, acked, tx, balance, request, cache, duplicates,
                   faults>>

\* Without a row, payload.entity decides: a disbursement has no user and is
\* done, any other type cannot be determined.
DispatchStray(h) ==
    /\ At(h, "dispatch")
    /\ handler[h].id \in Strays
    /\ Goto(h, "markProcessed") \/ Throw(h, FALSE)
    /\ UNCHANGED <<verdict, acked, tx, balance, request, cache, events,
                   duplicates, faults>>

-----------------------------------------------------------------------------
(* The handlers of SETTLED, FAILED and ERROR. *)

\* The request of a failed payment reported as completed.
ReturnMutantCompleted(d) ==
    IF d.id \in RequestPays THEN "completeRequest"
    ELSE IF Failure(d.status) THEN "refundFindWallet" ELSE "markProcessed"

ReturnMutantNoRefund(d) ==
    IF d.id \notin RequestPays THEN "markProcessed"
    ELSE IF Failure(d.status) THEN "failRequest" ELSE "completeRequest"

ReturnMutantRefundSettled(d) ==
    IF d.id \notin RequestPays THEN "refundFindWallet"
    ELSE IF Failure(d.status) THEN "failRequest" ELSE "completeRequest"

\* Where a call of TransactionService returns to.
Return(d) ==
    CASE d.status = "SETTLED" ->
            IF d.id \in RequestPays THEN "completeRequest" ELSE "markProcessed"
      [] Failure(d.status) ->
            IF d.id \in RequestPays THEN "failRequest" ELSE "refundFindWallet"
      [] OTHER -> "markProcessed"

\* A PENDING transaction completed whatever the verdict.
FindTxMutantAnyVerdict(h) ==
    /\ At(h, "findTx")
    /\ Becomes(h, [handler[h] EXCEPT !.next = Return(handler[h]),
                                     !.pc = "completeFindTx"])
    /\ UNCHANGED <<verdict, acked, tx, balance, request, cache, events,
                   duplicates, faults>>

\* existingTransaction, and the branch taken when it is not PENDING.
FindTx(h) ==
    LET d == handler[h] IN
    /\ At(h, "findTx")
    /\ Becomes(h, [d EXCEPT
          !.next = Return(d),
          !.pc =
             IF tx[d.id] = "PENDING"
             THEN IF d.status = "SETTLED" THEN "completeFindTx" ELSE "failFindTx"
             ELSE IF d.id \in Disbursements THEN "markProcessed"
             ELSE IF d.status = "SETTLED" THEN "completeRequest" ELSE "findTxAgain"])
    /\ UNCHANGED <<verdict, acked, tx, balance, request, cache, events,
                   duplicates, faults>>

\* handleRequestPayFailed outside OK -> FAILED: a missing row is a TypeError.
FindTxAgain(h) ==
    /\ At(h, "findTxAgain")
    /\ IF tx[handler[h].id] = "ABSENT"
       THEN Throw(h, FALSE)
       ELSE Becomes(h, [handler[h] EXCEPT !.pc = "failFindTx",
                                          !.next = "readCache"])
    /\ UNCHANGED <<verdict, acked, tx, balance, request, cache, events,
                   duplicates, faults>>

CompleteRequest(h) ==
    /\ At(h, "completeRequest")
    /\ request' = [request EXCEPT ![handler[h].id] = "completed"]
    /\ Goto(h, IF handler[h].cached THEN "dropCache" ELSE "markProcessed")
    /\ UNCHANGED <<verdict, acked, tx, balance, cache, events, duplicates,
                   faults>>

DropCache(h) ==
    /\ At(h, "dropCache")
    /\ cache' = [cache EXCEPT ![handler[h].id] = FALSE]
    /\ Goto(h, "markProcessed")
    /\ UNCHANGED <<verdict, acked, tx, balance, request, events, duplicates,
                   faults>>

FailRequest(h) ==
    /\ At(h, "failRequest")
    /\ request' = [request EXCEPT ![handler[h].id] = "failed"]
    /\ Goto(h, "markProcessed")
    /\ UNCHANGED <<verdict, acked, tx, balance, cache, events, duplicates,
                   faults>>

\* JSON.parse of a missing key is null: reading its amount throws.
ReadCache(h) ==
    /\ At(h, "readCache")
    /\ IF cache[handler[h].id] THEN Goto(h, "markProcessed") ELSE Throw(h, FALSE)
    /\ UNCHANGED <<verdict, acked, tx, balance, request, cache, events,
                   duplicates, faults>>

RefundFindWallet(h) ==
    /\ At(h, "refundFindWallet")
    /\ Becomes(h, [handler[h] EXCEPT !.pc = "refundSave",
                                     !.wallet = balance[Owner[handler[h].id]]])
    /\ UNCHANGED <<verdict, acked, tx, balance, request, cache, events,
                   duplicates, faults>>

RefundSaveMutantSign(h) ==
    /\ At(h, "refundSave")
    /\ balance' = [balance EXCEPT ![Owner[handler[h].id]] =
                      handler[h].wallet - Amount[handler[h].id]]
    /\ Goto(h, "markProcessed")
    /\ UNCHANGED <<verdict, acked, tx, request, cache, events, duplicates,
                   faults>>

\* The insert of the REFUND row leaves the NOT NULL currency column unset: it
\* is rejected, and the error only logged.
RefundSave(h) ==
    /\ At(h, "refundSave")
    /\ balance' = [balance EXCEPT ![Owner[handler[h].id]] =
                      handler[h].wallet + Amount[handler[h].id]]
    /\ Goto(h, "markProcessed")
    /\ UNCHANGED <<verdict, acked, tx, request, cache, events, duplicates,
                   faults>>

-----------------------------------------------------------------------------
(* TransactionService.completeTransaction: one READ COMMITTED database     *)
(* transaction, so its two reads see different snapshots, nothing is       *)
(* locked, and both writes appear at its commit.                           *)

CompleteFindTx(h) ==
    /\ At(h, "completeFindTx")
    /\ IF tx[handler[h].id] = "PENDING"
       THEN Goto(h, "completeFindWallet")
       ELSE Throw(h, tx[handler[h].id] # "ABSENT")  \* else NotFoundException
    /\ UNCHANGED <<verdict, acked, tx, balance, request, cache, events,
                   duplicates, faults>>

CompleteFindWalletMutantUnchecked(h) ==
    /\ At(h, "completeFindWallet")
    /\ Becomes(h, [handler[h] EXCEPT !.pc = "completeCommit",
                                     !.wallet = balance[Owner[handler[h].id]]])
    /\ UNCHANGED <<verdict, acked, tx, balance, request, cache, events,
                   duplicates, faults>>

\* Only a DEBIT checks that the balance is sufficient.
CompleteFindWallet(h) ==
    LET d == handler[h]
        current == balance[Owner[d.id]] IN
    /\ At(h, "completeFindWallet")
    /\ IF d.id \in Disbursements /\ current < Amount[d.id]
       THEN Throw(h, TRUE)
       ELSE Becomes(h, [d EXCEPT !.pc = "completeCommit", !.wallet = current])
    /\ UNCHANGED <<verdict, acked, tx, balance, request, cache, events,
                   duplicates, faults>>

CompleteCommitMutantAnyType(h) ==
    /\ At(h, "completeCommit")
    /\ tx' = [tx EXCEPT ![handler[h].id] = "COMPLETED"]
    /\ balance' = [balance EXCEPT ![Owner[handler[h].id]] =
                      handler[h].wallet + Amount[handler[h].id]]
    /\ Goto(h, handler[h].next)
    /\ UNCHANGED <<verdict, acked, request, cache, events, duplicates, faults>>

\* newBalance is assigned for a CREDIT alone; save() skips an undefined column.
CompleteCommit(h) ==
    LET d == handler[h] IN
    /\ At(h, "completeCommit")
    /\ tx' = [tx EXCEPT ![d.id] = "COMPLETED"]
    /\ balance' = IF d.id \in RequestPays
                  THEN [balance EXCEPT ![Owner[d.id]] = d.wallet + Amount[d.id]]
                  ELSE balance
    /\ Goto(h, d.next)
    /\ UNCHANGED <<verdict, acked, request, cache, events, duplicates, faults>>

(* TransactionService.failTransaction: a read and a save, no transaction.  *)

FailFindTx(h) ==
    /\ At(h, "failFindTx")
    /\ IF tx[handler[h].id] = "PENDING"
       THEN Goto(h, "failSave")
       ELSE Throw(h, tx[handler[h].id] # "ABSENT")
    /\ UNCHANGED <<verdict, acked, tx, balance, request, cache, events,
                   duplicates, faults>>

FailSave(h) ==
    /\ At(h, "failSave")
    /\ tx' = [tx EXCEPT ![handler[h].id] = "FAILED"]
    /\ Goto(h, handler[h].next)
    /\ UNCHANGED <<verdict, acked, balance, request, cache, events, duplicates,
                   faults>>

-----------------------------------------------------------------------------
(* Faults. *)

\* The call h awaits fails.  Errors of the refund and of Redis are swallowed,
\* those of the catch block's own update too.
CallFails(h) ==
    /\ handler[h].pc # "idle"
    /\ faults < MaxFaults
    /\ faults' = faults + 1
    /\ \/ /\ handler[h].pc \in {"refundFindWallet", "refundSave", "dropCache"}
          /\ Goto(h, "markProcessed")
          /\ UNCHANGED acked
       \/ /\ handler[h].pc \in {"errorFindEvent", "errorSave"}
          /\ AnswerError(h)
       \/ /\ handler[h].pc \notin {"refundFindWallet", "refundSave", "dropCache",
                                   "errorFindEvent", "errorSave"}
          /\ Throw(h, FALSE)
          /\ UNCHANGED acked
    /\ UNCHANGED <<verdict, tx, balance, request, cache, events, duplicates>>

\* The process restarts: every delivery in flight is lost, unanswered.
Restart ==
    /\ faults < MaxFaults
    /\ faults' = faults + 1
    /\ \E h \in Handlers : handler[h].pc # "idle"
    /\ handler' = [h \in Handlers |-> Idle]
    /\ UNCHANGED <<verdict, acked, tx, balance, request, cache, events,
                   duplicates>>

-----------------------------------------------------------------------------
ProcessWebhook(h) ==
    \/ FindNoEvent(h) \/ FindHandledEvent(h) \/ FindProgression(h)
    \/ CreateEvent(h) \/ UpdateEvent(h) \/ MarkProcessed(h)
    \/ ErrorFindEvent(h) \/ ErrorNoEvent(h) \/ ErrorSave(h)
    \/ LinkUser(h) \/ DisbursementOK(h) \/ DispatchStray(h)

HandleVerdict(h) ==
    \/ FindTx(h) \/ FindTxAgain(h)
    \/ CompleteRequest(h) \/ DropCache(h) \/ FailRequest(h) \/ ReadCache(h)
    \/ RefundFindWallet(h) \/ RefundSave(h)
    \/ CompleteFindTx(h) \/ CompleteFindWallet(h) \/ CompleteCommit(h)
    \/ FailFindTx(h) \/ FailSave(h)

Step(h) == ProcessWebhook(h) \/ HandleVerdict(h)

Next ==
    \/ \E i \in Ids, v \in Verdicts : Decide(i, v)
    \/ \E h \in Handlers, i \in Ids, s \in Statuses :
          Deliver(h, i, s) \/ DeliverAgain(h, i, s)
    \/ \E i \in Late : OpenTransaction(i)
    \/ \E i \in RequestPays : ExpireCache(i)
    \/ \E h \in Handlers : Step(h) \/ CallFails(h)
    \/ Restart

Spec == Init /\ [][Next]_vars

(* A started handler runs on (the event loop resumes it), and APT Pay keeps *)
(* retrying a delivery until it is answered with 200.                       *)
Fairness ==
    /\ \A h \in Handlers : WF_vars(Step(h))
    /\ \A i \in Ids, s \in {"OK"} \cup Verdicts :
          SF_vars(\E h \in Handlers : Deliver(h, i, s))

FairSpec == Spec /\ Fairness
=============================================================================
