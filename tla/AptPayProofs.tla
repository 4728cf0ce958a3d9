---------------------------- MODULE AptPayProofs ----------------------------
(* The safety of AptPayWebhook for every set of handlers, payments and      *)
(* users, every order of delivery, repetition and fault.  The invariants    *)
(* are not inductive alone: HandlerInv adds what each pc of a handler       *)
(* records of the verdict and the transaction it has already read.          *)
EXTENDS AptPayProperties, SumProofs, SequenceTheorems, TLAPS

-----------------------------------------------------------------------------
(* Types.                                                                  *)

\* Saving an event row keeps the rows of its id a sequence of event rows.
LEMMA SeqUpdate ==
    ASSUME NEW S, NEW s \in Seq(S), NEW k \in Nat, NEW e \in S
    PROVE  [s EXCEPT ![k] = e] \in Seq(S)
<1> DEFINE t == [s EXCEPT ![k] = e]
<1>1. s \in [1..Len(s) -> S] /\ Len(s) \in Nat
  BY LenProperties
<1>2. t \in [1..Len(s) -> S]
  BY <1>1
<1> QED
  BY <1>1, <1>2, SeqDef

\* save(webhookEvent) keeps the events table well-typed.
LEMMA SaveEventType ==
    ASSUME TypeOK, NEW h \in Handlers, NEW e \in EventRow, SaveEvent(h, e),
           handler[h].id \in Ids
    PROVE  events' \in [Ids -> Seq(EventRow)]
<1> DEFINE i == handler[h].id
           k == handler[h].row
<1>1. k \in Nat /\ events[i] \in Seq(EventRow)
  BY DEF TypeOK, Handler
<1>2. [events[i] EXCEPT ![k] = e] \in Seq(EventRow)
  BY <1>1, SeqUpdate
<1> QED
  BY <1>2 DEF TypeOK, SaveEvent

-----------------------------------------------------------------------------
(* Type correctness.                                                       *)

\* Every handler with work has a payload whose id is one of APT Pay's.
Serving == \A h \in Handlers : handler[h].pc # "idle" => handler[h].id \in Ids

LEMMA HandlerServing == HandlerInv => Serving
BY DEF HandlerInv, HandlerOK, Serving

\* A handler's record is replaced by one of the right type.
LEMMA BecomesType ==
    ASSUME TypeOK, NEW h \in Handlers, NEW d \in Handler, Becomes(h, d)
    PROVE  handler' \in [Handlers -> Handler]
BY DEF TypeOK, Becomes

LEMMA GotoType ==
    ASSUME TypeOK, NEW h \in Handlers, NEW pc \in Pcs, Goto(h, pc)
    PROVE  handler' \in [Handlers -> Handler]
<1>1. handler[h] \in Handler
  BY DEF TypeOK
<1>2. [handler[h] EXCEPT !.pc = pc] \in Handler
  BY <1>1 DEF Handler
<1> QED
  BY <1>2, BecomesType DEF Goto

LEMMA ThrowType ==
    ASSUME TypeOK, NEW h \in Handlers, NEW b \in BOOLEAN, Throw(h, b)
    PROVE  handler' \in [Handlers -> Handler]
<1>1. handler[h] \in Handler
  BY DEF TypeOK
<1>2. [handler[h] EXCEPT !.pc = "errorFindEvent", !.badRequest = b] \in Handler
  BY <1>1 DEF Handler, Pcs
<1> QED
  BY <1>2, BecomesType DEF Throw

LEMMA InitType == Init => TypeOK
<1> SUFFICES ASSUME Init PROVE TypeOK
  OBVIOUS
<1>1. Idle \in Handler
  BY PaymentAssumption DEF Idle, Handler, NoRow, EventRow, Statuses, Final, Pcs
<1>2. handler \in [Handlers -> Handler]
  BY <1>1 DEF Init
<1>3. events \in [Ids -> Seq(EventRow)]
  BY EmptySeq DEF Init
<1> QED
  BY <1>2, <1>3, PaymentAssumption
  DEF Init, TypeOK, Statuses, Final, TxStatus, RequestStatus

\* Actions of the environment.
LEMMA EnvironmentType ==
    ASSUME TypeOK,
           \/ \E i \in Ids, v \in Verdicts : Decide(i, v)
           \/ \E h \in Handlers, i \in Ids, s \in Statuses :
                 Deliver(h, i, s) \/ DeliverAgain(h, i, s)
           \/ \E i \in Late : OpenTransaction(i)
           \/ \E i \in RequestPays : ExpireCache(i)
           \/ Restart
    PROVE  TypeOK'
<1> USE PaymentAssumption DEF Statuses, Final
<1>1. Idle \in Handler
  BY DEF Idle, Handler, NoRow, EventRow, Pcs
<1>2. CASE \E i \in Ids, v \in Verdicts : Decide(i, v)
  BY <1>2 DEF TypeOK, Decide
<1>3. ASSUME NEW h \in Handlers, NEW i \in Ids, NEW s \in Statuses, Receive(h, i, s)
      PROVE  handler' \in [Handlers -> Handler]
  <2>1. [Idle EXCEPT !.pc = "findEvent", !.id = i, !.status = s] \in Handler
    BY <1>1 DEF Handler, Pcs
  <2> QED
    BY <1>3, <2>1, BecomesType DEF Receive
<1>4. CASE \E h \in Handlers, i \in Ids, s \in Statuses :
              Deliver(h, i, s) \/ DeliverAgain(h, i, s)
  <2>1. PICK h \in Handlers, i \in Ids, s \in Statuses :
            Deliver(h, i, s) \/ DeliverAgain(h, i, s)
    BY <1>4
  <2>2. Receive(h, i, s) /\ duplicates' \in Nat
    BY <2>1 DEF TypeOK, Deliver, DeliverAgain
  <2>3. UNCHANGED <<verdict, acked, tx, balance, request, cache, events, faults>>
    BY <2>2 DEF Receive
  <2> QED
    BY <1>3, <2>2, <2>3 DEF TypeOK
<1>5. CASE \E i \in Late : OpenTransaction(i)
  BY <1>5 DEF TypeOK, OpenTransaction, TxStatus
<1>6. CASE \E i \in RequestPays : ExpireCache(i)
  BY <1>6 DEF TypeOK, ExpireCache
<1>7. CASE Restart
  BY <1>1, <1>7 DEF TypeOK, Restart
<1> QED
  BY <1>2, <1>4, <1>5, <1>6, <1>7

\* Answering a delivery.
LEMMA AnswerType ==
    ASSUME TypeOK, NEW h \in Handlers, handler[h].id \in Ids,
           Answer(h) \/ AnswerError(h)
    PROVE  acked' \in [Ids -> SUBSET Statuses] /\ handler' \in [Handlers -> Handler]
<1>1. Idle \in Handler
  BY DEF Idle, Handler, NoRow, EventRow, Statuses, Final, Pcs
<1>2. Becomes(h, Idle)
  BY DEF Answer, AnswerError
<1>3. handler[h] \in Handler /\ acked \in [Ids -> SUBSET Statuses]
  BY DEF TypeOK
<1>4. handler[h].status \in Statuses
  BY <1>3 DEF Handler
<1>5. acked' \in [Ids -> SUBSET Statuses]
  BY <1>3, <1>4 DEF Answer, AnswerError
<1> QED
  BY <1>1, <1>2, <1>5, BecomesType

\* Actions that record an event and close the delivery.
LEMMA ProcessWebhookType ==
    ASSUME TypeOK, Serving, NEW h \in Handlers, ProcessWebhook(h)
    PROVE  TypeOK'
<1> DEFINE d == handler[h]
<1>0. d \in Handler /\ d.event \in EventRow /\ d.status \in Statuses /\ d.row \in Nat
  BY DEF TypeOK, Handler
<1>1. d.pc # "idle" => d.id \in Ids /\ events[d.id] \in Seq(EventRow)
  BY DEF Serving, TypeOK
<1>2. ASSUME d.pc # "idle", NEW k \in DOMAIN events[d.id]
      PROVE  events[d.id][k] \in EventRow /\ k \in Nat
  <2>1. k \in 1..Len(events[d.id]) /\ Len(events[d.id]) \in Nat
    BY <1>1, <1>2, LenProperties
  <2> QED
    BY <1>1, <1>2, <2>1, ElementOfSeq
<1>3. CASE FindNoEvent(h)
  <2> DEFINE e == [status |-> d.status, processing |-> "pending", linked |-> FALSE]
  <2>1. e \in EventRow
    BY <1>0 DEF EventRow
  <2>2. Becomes(h, [d EXCEPT !.pc = "createEvent", !.previous = "NEW", !.event = e])
    BY <1>3 DEF FindNoEvent
  <2> HIDE DEF e
  <2>3. [d EXCEPT !.pc = "createEvent", !.previous = "NEW", !.event = e] \in Handler
    BY <1>0, <2>1 DEF Handler, Pcs
  <2>4. handler' \in [Handlers -> Handler]
    BY <2>2, <2>3, BecomesType
  <2> QED
    BY <1>3, <2>4 DEF FindNoEvent, TypeOK
<1>4. CASE FindHandledEvent(h)
  BY <1>1, <1>4, AnswerType DEF FindHandledEvent, TypeOK, At
<1>5. CASE FindProgression(h)
  <2>1. d.pc # "idle"
    BY <1>5 DEF FindProgression, At
  <2>2. PICK k \in DOMAIN events[d.id] :
            Becomes(h, [d EXCEPT
                !.pc = "updateEvent",
                !.previous = events[d.id][k].status,
                !.row = k,
                !.event = [events[d.id][k] EXCEPT !.status = d.status,
                                                  !.processing = "pending"]])
    BY <1>5 DEF FindProgression
  <2> DEFINE found == events[d.id][k]
             e == [found EXCEPT !.status = d.status, !.processing = "pending"]
             n == [d EXCEPT !.pc = "updateEvent", !.previous = found.status,
                            !.row = k, !.event = e]
  <2>3. found.status \in Statuses /\ e \in EventRow /\ k \in Nat
    BY <1>0, <1>2, <2>1 DEF EventRow
  <2>4. Becomes(h, n)
    BY <2>2
  <2>5. n \in Handler
    <3> HIDE DEF e, found
    <3> QED
      BY <1>0, <2>3 DEF Handler, Pcs
  <2>6. handler' \in [Handlers -> Handler]
    <3> HIDE DEF n
    <3> QED
      BY <2>4, <2>5, BecomesType
  <2> QED
    BY <1>5, <2>6 DEF FindProgression, TypeOK
<1>6. CASE CreateEvent(h)
  <2> DEFINE n == Len(events[d.id]) + 1
             t == [d EXCEPT !.pc = "dispatch", !.row = n]
  <2>1. d.pc # "idle"
    BY <1>6 DEF CreateEvent, At
  <2>2. Append(events[d.id], d.event) \in Seq(EventRow) /\ n \in Nat
    BY <1>0, <1>1, <2>1, AppendProperties, LenProperties
  <2>3. events' \in [Ids -> Seq(EventRow)]
    BY <1>1, <1>6, <2>1, <2>2 DEF CreateEvent, TypeOK
  <2>4. t \in Handler
    <3> HIDE DEF n
    <3> QED
      BY <1>0, <2>2 DEF Handler, Pcs
  <2>5. handler' \in [Handlers -> Handler]
    BY <1>6, <2>4, BecomesType DEF CreateEvent
  <2> QED
    BY <1>6, <2>3, <2>5 DEF CreateEvent, TypeOK
<1>7. CASE UpdateEvent(h)
  <2>1. events' \in [Ids -> Seq(EventRow)]
    BY <1>0, <1>1, <1>7, SaveEventType DEF UpdateEvent, At
  <2>2. handler' \in [Handlers -> Handler]
    BY <1>7, GotoType DEF UpdateEvent, Pcs
  <2> QED
    BY <1>7, <2>1, <2>2 DEF UpdateEvent, TypeOK
<1>8. CASE MarkProcessed(h)
  <2>1. [d.event EXCEPT !.processing = "processed"] \in EventRow
    BY <1>0 DEF EventRow
  <2>2. events' \in [Ids -> Seq(EventRow)]
    BY <1>1, <1>8, <2>1, SaveEventType DEF MarkProcessed, At
  <2> QED
    BY <1>1, <1>8, <2>2, AnswerType DEF MarkProcessed, TypeOK, At
<1>9. CASE ErrorFindEvent(h)
  <2>1. d.pc # "idle"
    BY <1>9 DEF ErrorFindEvent, At
  <2>2. PICK k \in DOMAIN events[d.id] :
            Becomes(h, [d EXCEPT
                !.pc = "errorSave",
                !.row = k,
                !.event = [events[d.id][k] EXCEPT !.processing = "failed"]])
    BY <1>9 DEF ErrorFindEvent
  <2> DEFINE e == [events[d.id][k] EXCEPT !.processing = "failed"]
             n == [d EXCEPT !.pc = "errorSave", !.row = k, !.event = e]
  <2>3. e \in EventRow /\ k \in Nat
    BY <1>2, <2>1 DEF EventRow
  <2>4. n \in Handler
    <3> HIDE DEF e
    <3> QED
      BY <1>0, <2>3 DEF Handler, Pcs
  <2>5. handler' \in [Handlers -> Handler]
    BY <2>2, <2>4, BecomesType
  <2> QED
    BY <1>9, <2>5 DEF ErrorFindEvent, TypeOK
<1>10. CASE ErrorNoEvent(h)
  BY <1>1, <1>10, AnswerType DEF ErrorNoEvent, TypeOK, At
<1>11. CASE ErrorSave(h)
  <2>1. events' \in [Ids -> Seq(EventRow)]
    BY <1>0, <1>1, <1>11, SaveEventType DEF ErrorSave, At
  <2> QED
    BY <1>1, <1>11, <2>1, AnswerType DEF ErrorSave, TypeOK, At
<1> DEFINE linked == [d.event EXCEPT !.linked = TRUE]
<1>12. linked \in EventRow
  BY <1>0 DEF EventRow
<1>13. ASSUME NEW pc \in Pcs PROVE [d EXCEPT !.event = linked, !.pc = pc] \in Handler
  <2> HIDE DEF linked
  <2> QED
    BY <1>0, <1>12 DEF Handler
<1>c. ASSUME NEW pc \in Pcs, NEW c \in BOOLEAN
      PROVE [d EXCEPT !.event = linked, !.cached = c, !.pc = pc] \in Handler
  <2> HIDE DEF linked
  <2> QED
    BY <1>0, <1>12 DEF Handler
<1>14. CASE LinkUser(h)
  <2>0. Cached(d) \in BOOLEAN
    BY DEF Cached
  <2>1. AfterLink(d) \in Pcs
    BY <1>0 DEF AfterLink, Pcs, Failure, Statuses, Final
  <2>2. events' \in [Ids -> Seq(EventRow)]
    BY <1>1, <1>12, <1>14, SaveEventType DEF LinkUser, At
  <2>3. handler' \in [Handlers -> Handler]
    BY <1>c, <1>14, <2>0, <2>1, BecomesType DEF LinkUser
  <2> QED
    BY <1>14, <2>2, <2>3 DEF LinkUser, TypeOK
<1>15. CASE DisbursementOK(h)
  <2>1. events' \in [Ids -> Seq(EventRow)]
    BY <1>1, <1>12, <1>15, SaveEventType DEF DisbursementOK, At, TypeOK
  <2>2. \/ Becomes(h, [d EXCEPT !.event = linked, !.pc = "markProcessed"])
        \/ Goto(h, "markProcessed")
    BY <1>15 DEF DisbursementOK
  <2>3. handler' \in [Handlers -> Handler]
    BY <1>13, <2>2, BecomesType, GotoType DEF Pcs
  <2> QED
    BY <1>15, <2>1, <2>3 DEF DisbursementOK, TypeOK
<1>16. CASE DispatchStray(h)
  <2>1. handler' \in [Handlers -> Handler]
    BY <1>16, GotoType, ThrowType DEF DispatchStray, Pcs
  <2> QED
    BY <1>16, <2>1 DEF DispatchStray, TypeOK
<1> QED
  BY <1>3, <1>4, <1>5, <1>6, <1>7, <1>8, <1>9, <1>10, <1>11, <1>14, <1>15, <1>16
  DEF ProcessWebhook

\* Actions that carry out a verdict.
LEMMA HandleVerdictType ==
    ASSUME TypeOK, HandlerInv, NEW h \in Handlers, HandleVerdict(h)
    PROVE  TypeOK'
<1> DEFINE d == handler[h]
<1> USE PaymentAssumption
<1>0. /\ d \in Handler /\ d.next \in Pcs /\ d.wallet \in Nat
      /\ d.status \in Statuses
  BY DEF TypeOK, Handler
<1>1. ASSUME d.pc \in {"refundFindWallet", "refundSave", "completeFindWallet",
                       "completeCommit"}
      PROVE  /\ d.id \in Payments /\ Owner[d.id] \in Users
             /\ Amount[d.id] \in Nat /\ balance[Owner[d.id]] \in Nat
  <2>1. d.id \in Payments
    BY <1>1 DEF HandlerInv, HandlerOK, Completing, Payments
  <2> QED
    BY <2>1 DEF TypeOK
<1>2. ASSUME NEW pc \in Pcs, NEW n \in Nat
      PROVE  [d EXCEPT !.pc = pc, !.wallet = n] \in Handler
  BY <1>0 DEF Handler
<1>3. ASSUME NEW pc \in Pcs, NEW next \in Pcs
      PROVE  [d EXCEPT !.next = next, !.pc = pc] \in Handler
  BY <1>0 DEF Handler
<1>4. CASE FindTx(h)
  <2> DEFINE pc == IF tx[d.id] = "PENDING"
                   THEN IF d.status = "SETTLED" THEN "completeFindTx" ELSE "failFindTx"
                   ELSE IF d.id \in Disbursements THEN "markProcessed"
                   ELSE IF d.status = "SETTLED" THEN "completeRequest" ELSE "findTxAgain"
  <2>1. pc \in Pcs /\ Return(d) \in Pcs
    BY <1>0 DEF Pcs, Return, Statuses, Final, Failure
  <2>2. Becomes(h, [d EXCEPT !.next = Return(d), !.pc = pc])
    BY <1>4 DEF FindTx
  <2>3. handler' \in [Handlers -> Handler]
    <3> HIDE DEF pc
    <3> QED
      BY <1>3, <2>1, <2>2, BecomesType
  <2> QED
    BY <1>4, <2>3 DEF FindTx, TypeOK
<1>5. CASE FindTxAgain(h)
  <2>1. \/ Throw(h, FALSE)
        \/ Becomes(h, [d EXCEPT !.pc = "failFindTx", !.next = "readCache"])
    BY <1>5 DEF FindTxAgain
  <2>2. [d EXCEPT !.pc = "failFindTx", !.next = "readCache"] \in Handler
    BY <1>0 DEF Handler, Pcs
  <2>3. handler' \in [Handlers -> Handler]
    BY <2>1, <2>2, BecomesType, ThrowType
  <2> QED
    BY <1>5, <2>3 DEF FindTxAgain, TypeOK
<1>6. CASE CompleteRequest(h)
  <2>1. handler' \in [Handlers -> Handler]
    BY <1>6, GotoType DEF CompleteRequest, Pcs
  <2> QED
    BY <1>6, <2>1 DEF CompleteRequest, TypeOK, RequestStatus
<1>7. CASE DropCache(h)
  <2>1. handler' \in [Handlers -> Handler]
    BY <1>7, GotoType DEF DropCache, Pcs
  <2> QED
    BY <1>7, <2>1 DEF DropCache, TypeOK
<1>8. CASE FailRequest(h)
  <2>1. handler' \in [Handlers -> Handler]
    BY <1>8, GotoType DEF FailRequest, Pcs
  <2> QED
    BY <1>8, <2>1 DEF FailRequest, TypeOK, RequestStatus
<1>9. CASE ReadCache(h)
  <2>1. handler' \in [Handlers -> Handler]
    BY <1>9, GotoType, ThrowType DEF ReadCache, Pcs
  <2> QED
    BY <1>9, <2>1 DEF ReadCache, TypeOK
<1>10. CASE RefundFindWallet(h)
  <2>1. handler' \in [Handlers -> Handler]
    BY <1>1, <1>2, <1>10, BecomesType DEF RefundFindWallet, Pcs, At
  <2> QED
    BY <1>10, <2>1 DEF RefundFindWallet, TypeOK
<1>11. CASE RefundSave(h)
  <2>1. handler' \in [Handlers -> Handler]
    BY <1>11, GotoType DEF RefundSave, Pcs
  <2>2. balance' \in [Users -> Nat]
    BY <1>0, <1>1, <1>11 DEF RefundSave, At, TypeOK
  <2> QED
    BY <1>11, <2>1, <2>2 DEF RefundSave, TypeOK
<1>12. CASE CompleteFindTx(h)
  <2>1. handler' \in [Handlers -> Handler]
    BY <1>12, GotoType, ThrowType DEF CompleteFindTx, Pcs
  <2> QED
    BY <1>12, <2>1 DEF CompleteFindTx, TypeOK
<1>13. CASE CompleteFindWallet(h)
  <2>1. \/ Throw(h, TRUE)
        \/ Becomes(h, [d EXCEPT !.pc = "completeCommit", !.wallet = balance[Owner[d.id]]])
    BY <1>13 DEF CompleteFindWallet
  <2>2. handler' \in [Handlers -> Handler]
    BY <1>1, <1>2, <1>13, <2>1, BecomesType, ThrowType DEF CompleteFindWallet, Pcs, At
  <2> QED
    BY <1>13, <2>2 DEF CompleteFindWallet, TypeOK
<1>14. CASE CompleteCommit(h)
  <2>1. handler' \in [Handlers -> Handler]
    BY <1>0, <1>14, GotoType DEF CompleteCommit
  <2>2. balance' \in [Users -> Nat]
    BY <1>0, <1>1, <1>14 DEF CompleteCommit, At, TypeOK
  <2> QED
    BY <1>14, <2>1, <2>2 DEF CompleteCommit, TypeOK, TxStatus
<1>15. CASE FailFindTx(h)
  <2>1. handler' \in [Handlers -> Handler]
    BY <1>15, GotoType, ThrowType DEF FailFindTx, Pcs
  <2> QED
    BY <1>15, <2>1 DEF FailFindTx, TypeOK
<1>16. CASE FailSave(h)
  <2>1. handler' \in [Handlers -> Handler]
    BY <1>0, <1>16, GotoType DEF FailSave
  <2> QED
    BY <1>16, <2>1 DEF FailSave, TypeOK, TxStatus
<1> QED
  BY <1>4, <1>5, <1>6, <1>7, <1>8, <1>9, <1>10, <1>11, <1>12, <1>13, <1>14, <1>15, <1>16
  DEF HandleVerdict

\* A failed call.
LEMMA CallFailsType ==
    ASSUME TypeOK, Serving, NEW h \in Handlers, CallFails(h)
    PROVE  TypeOK'
<1>1. handler[h].id \in Ids
  BY DEF CallFails, Serving
<1>2. acked' \in [Ids -> SUBSET Statuses] /\ handler' \in [Handlers -> Handler]
  <2>1. CASE Goto(h, "markProcessed") /\ UNCHANGED acked
    BY <2>1, GotoType DEF TypeOK, Pcs
  <2>2. CASE AnswerError(h)
    BY <1>1, <2>2, AnswerType
  <2>3. CASE Throw(h, FALSE) /\ UNCHANGED acked
    BY <2>3, ThrowType DEF TypeOK
  <2> QED
    BY <2>1, <2>2, <2>3 DEF CallFails
<1> QED
  BY <1>2 DEF CallFails, TypeOK

\* Every step keeps the types.
LEMMA NextType ==
    ASSUME TypeOK, HandlerInv, [Next]_vars
    PROVE  TypeOK'
<1>1. CASE UNCHANGED vars
  BY <1>1 DEF vars, TypeOK
<1>2. CASE Next
  BY <1>2, EnvironmentType, ProcessWebhookType, HandleVerdictType, CallFailsType,
     HandlerServing
  DEF Next, Step
<1> QED
  BY <1>1, <1>2

-----------------------------------------------------------------------------
(* What each pc of a handler records.                                      *)

IInv == TypeOK /\ TxMatchesVerdict /\ RequestMatchesVerdict /\ HandlerInv

\* What no step takes back, and so what a handler may rely on after an await.
Stable ==
    \A i \in Ids :
        /\ verdict[i] # "OK" => verdict'[i] = verdict[i]
        /\ tx[i] \in {"COMPLETED", "FAILED"} => tx'[i] = tx[i]

LEMMA InitInv == Init => IInv
<1> SUFFICES ASSUME Init PROVE IInv
  OBVIOUS
<1>1. TypeOK
  BY InitType
<1>2. TxMatchesVerdict /\ RequestMatchesVerdict
  BY DEF Init, TxMatchesVerdict, RequestMatchesVerdict
<1>3. HandlerInv
  BY DEF Init, HandlerInv, HandlerOK, Idle, Completing, Failing
<1> QED
  BY <1>1, <1>2, <1>3 DEF IInv

-----------------------------------------------------------------------------
(* How a step changes a handler's record.                                  *)

LEMMA BecomesAt ==
    ASSUME TypeOK, NEW h \in Handlers, NEW d, Becomes(h, d)
    PROVE  /\ handler'[h] = d
           /\ \A g \in Handlers \ {h} : handler'[g] = handler[g]
BY DEF TypeOK, Becomes

\* Moving to another pc, throwing included, keeps the payload.
LEMMA GotoAt ==
    ASSUME TypeOK, NEW h \in Handlers, NEW pc, Goto(h, pc)
    PROVE  /\ handler'[h].pc = pc
           /\ handler'[h].id = handler[h].id
           /\ handler'[h].status = handler[h].status
           /\ handler'[h].next = handler[h].next
<1>1. handler[h] \in Handler
  BY DEF TypeOK
<1>2. handler'[h] = [handler[h] EXCEPT !.pc = pc]
  BY BecomesAt DEF Goto
<1> QED
  BY <1>1, <1>2 DEF Handler

LEMMA ThrowAt ==
    ASSUME TypeOK, NEW h \in Handlers, NEW b, Throw(h, b)
    PROVE  /\ handler'[h].pc = "errorFindEvent"
           /\ handler'[h].id = handler[h].id
           /\ handler'[h].status = handler[h].status
<1>1. handler[h] \in Handler
  BY DEF TypeOK
<1>2. handler'[h] = [handler[h] EXCEPT !.pc = "errorFindEvent", !.badRequest = b]
  BY BecomesAt DEF Throw
<1> QED
  BY <1>1, <1>2 DEF Handler

LEMMA AnswerAt ==
    ASSUME TypeOK, NEW h \in Handlers, Answer(h) \/ AnswerError(h)
    PROVE  handler'[h] = Idle
BY BecomesAt DEF Answer, AnswerError

\* A step of h leaves the other handlers alone.
LEMMA OthersAt ==
    ASSUME TypeOK, NEW h \in Handlers, Step(h) \/ CallFails(h),
           NEW g \in Handlers \ {h}
    PROVE  handler'[g] = handler[g]
<1>1. \E d : Becomes(h, d)
  <2>1. CASE ProcessWebhook(h)
    BY <2>1 DEF ProcessWebhook, FindNoEvent, FindHandledEvent, FindProgression,
       CreateEvent, UpdateEvent, MarkProcessed, ErrorFindEvent, ErrorNoEvent,
       ErrorSave, LinkUser, DisbursementOK, DispatchStray,
       Answer, AnswerError, Goto, Throw
  <2>2. CASE HandleVerdict(h)
    BY <2>2 DEF HandleVerdict, FindTx, FindTxAgain, CompleteRequest, DropCache,
       FailRequest, ReadCache, RefundFindWallet, RefundSave, CompleteFindTx,
       CompleteFindWallet, CompleteCommit, FailFindTx, FailSave, Goto, Throw
  <2>3. CASE CallFails(h)
    BY <2>3 DEF CallFails, AnswerError, Answer, Goto, Throw
  <2> QED
    BY <2>1, <2>2, <2>3 DEF Step
<1> QED
  BY <1>1, BecomesAt

-----------------------------------------------------------------------------
(* The invariant is preserved.                                             *)

\* A handler about to write the outcome of i serves the verdict of i.
LEMMA WriterServesVerdict ==
    ASSUME IInv, NEW h \in Handlers
    PROVE  /\ At(h, "completeCommit") => verdict[handler[h].id] = "SETTLED"
           /\ At(h, "failSave") => Failure(verdict[handler[h].id])
           /\ At(h, "completeRequest") => verdict[handler[h].id] = "SETTLED"
BY DEF IInv, HandlerInv, HandlerOK, At, Completing, Failing, Failure

\* Verdicts and closed transactions are final.
LEMMA NextStable ==
    ASSUME IInv, [Next]_vars
    PROVE  Stable
<1> USE DEF IInv
<1>1. CASE UNCHANGED vars
  BY <1>1 DEF vars, Stable
<1>2. CASE \E i \in Ids, v \in Verdicts : Decide(i, v)
  BY <1>2 DEF Decide, Stable, TypeOK
<1>3. CASE \E h \in Handlers, i \in Ids, s \in Statuses :
              Deliver(h, i, s) \/ DeliverAgain(h, i, s)
  BY <1>3 DEF Deliver, DeliverAgain, Receive, Stable
<1>4. CASE \E i \in Late : OpenTransaction(i)
  BY <1>4 DEF OpenTransaction, Stable, TypeOK
<1>5. CASE \E i \in RequestPays : ExpireCache(i)
  BY <1>5 DEF ExpireCache, Stable
<1>6. ASSUME NEW h \in Handlers, ProcessWebhook(h)
      PROVE  Stable
  BY <1>6 DEF ProcessWebhook, FindNoEvent, FindHandledEvent, FindProgression,
     CreateEvent, UpdateEvent, MarkProcessed, ErrorFindEvent, ErrorNoEvent,
     ErrorSave, LinkUser, DisbursementOK, DispatchStray, Stable
<1>7. ASSUME NEW h \in Handlers, HandleVerdict(h)
      PROVE  Stable
  <2>1. CASE CompleteCommit(h)
    BY <2>1, WriterServesVerdict
    DEF CompleteCommit, Stable, TxMatchesVerdict, TypeOK, Failure
  <2>2. CASE FailSave(h)
    BY <2>2, WriterServesVerdict
    DEF FailSave, Stable, TxMatchesVerdict, TypeOK, Failure
  <2> QED
    BY <1>7, <2>1, <2>2 DEF HandleVerdict, FindTx, FindTxAgain, CompleteRequest,
       DropCache, FailRequest, ReadCache, RefundFindWallet, RefundSave,
       CompleteFindTx, CompleteFindWallet, FailFindTx, Stable
<1>8. ASSUME NEW h \in Handlers, CallFails(h)
      PROVE  Stable
  BY <1>8 DEF CallFails, Stable
<1>9. CASE Restart
  BY <1>9 DEF Restart, Stable
<1> QED
  BY <1>1, <1>2, <1>3, <1>4, <1>5, <1>6, <1>7, <1>8, <1>9 DEF Next, Step

\* What a handler's pc records outlives the steps of the others.
LEMMA OtherHandlerOK ==
    ASSUME IInv, Stable, NEW g \in Handlers, handler'[g] = handler[g]
    PROVE  HandlerOK(handler[g])'
<1>1. HandlerOK(handler[g])
  BY DEF IInv, HandlerInv
<1>2. handler[g].pc # "idle" => handler[g].id \in Ids
  BY <1>1 DEF HandlerOK
<1>3. Payments \subseteq Ids /\ RequestPays \subseteq Payments /\ Disbursements \subseteq Payments
  BY DEF Ids, Payments
<1> QED
  BY <1>1, <1>2, <1>3 DEF Stable, HandlerOK, Completing, Failing, Return

\* An idle handler, and one whose pc asks nothing, need only serve its payload.
LEMMA PlainHandlerOK ==
    ASSUME IInv, NEW h \in Handlers, UNCHANGED verdict,
           \/ handler'[h].pc = "idle"
           \/ /\ handler[h].pc # "idle"
              /\ handler'[h].id = handler[h].id
              /\ handler'[h].status = handler[h].status
              /\ handler'[h].pc \in {"createEvent", "updateEvent", "dispatch",
                    "markProcessed", "errorFindEvent", "errorSave"}
    PROVE  HandlerOK(handler[h])'
BY DEF IInv, HandlerInv, HandlerOK, Completing, Failing

\* Recording the event hands the right verdict to the right handler.
LEMMA ProcessWebhookOK ==
    ASSUME IInv, NEW h \in Handlers, ProcessWebhook(h)
    PROVE  HandlerOK(handler[h])'
<1> DEFINE d == handler[h]
<1> USE DEF IInv
<1>0. d \in Handler /\ HandlerOK(d)
  BY DEF TypeOK, HandlerInv
<1> DEFINE Recorded == /\ handler'[h].id = d.id
                       /\ handler'[h].status = d.status
                       /\ handler'[h].pc \in {"createEvent", "updateEvent",
                             "dispatch", "markProcessed", "errorSave"}
<1>p. ASSUME d.pc # "idle", UNCHANGED verdict, Recorded
      PROVE  HandlerOK(handler[h])'
  BY <1>p, PlainHandlerOK
<1>1. CASE FindNoEvent(h)
  <2>1. PICK e : handler'[h] = [d EXCEPT !.pc = "createEvent", !.previous = "NEW",
                                         !.event = e]
    BY <1>1, BecomesAt DEF FindNoEvent
  <2>2. Recorded
    BY <1>0, <2>1 DEF Handler
  <2> QED
    BY <1>1, <1>p, <2>2 DEF FindNoEvent, At
<1>2. CASE FindProgression(h)
  <2>1. PICK k \in DOMAIN events[d.id] :
            Becomes(h, [d EXCEPT
                !.pc = "updateEvent",
                !.previous = events[d.id][k].status,
                !.row = k,
                !.event = [events[d.id][k] EXCEPT !.status = d.status,
                                                  !.processing = "pending"]])
    BY <1>2 DEF FindProgression
  <2> DEFINE v == events[d.id][k].status
             e == [events[d.id][k] EXCEPT !.status = d.status,
                                          !.processing = "pending"]
  <2>2. Recorded
    <3>1. handler'[h] = [d EXCEPT !.pc = "updateEvent", !.previous = v,
                                  !.row = k, !.event = e]
      BY <2>1, BecomesAt
    <3> HIDE DEF v, e
    <3> QED
      BY <1>0, <3>1 DEF Handler
  <2> QED
    BY <1>2, <1>p, <2>2 DEF FindProgression, At
<1>3. CASE CreateEvent(h)
  <2>1. PICK k : handler'[h] = [d EXCEPT !.pc = "dispatch", !.row = k]
    BY <1>3, BecomesAt DEF CreateEvent
  <2>2. Recorded
    BY <1>0, <2>1 DEF Handler
  <2> QED
    BY <1>3, <1>p, <2>2 DEF CreateEvent, At
<1>4. CASE UpdateEvent(h)
  BY <1>4, GotoAt, PlainHandlerOK DEF UpdateEvent, At
<1>5. CASE ErrorFindEvent(h)
  <2>1. PICK k \in DOMAIN events[d.id] :
            Becomes(h, [d EXCEPT
                !.pc = "errorSave",
                !.row = k,
                !.event = [events[d.id][k] EXCEPT !.processing = "failed"]])
    BY <1>5 DEF ErrorFindEvent
  <2> DEFINE e == [events[d.id][k] EXCEPT !.processing = "failed"]
  <2>2. Recorded
    <3>1. handler'[h] = [d EXCEPT !.pc = "errorSave", !.row = k, !.event = e]
      BY <2>1, BecomesAt
    <3> HIDE DEF e
    <3> QED
      BY <1>0, <3>1 DEF Handler
  <2> QED
    BY <1>5, <1>p, <2>2 DEF ErrorFindEvent, At
<1>6. CASE \/ FindHandledEvent(h) \/ MarkProcessed(h)
           \/ ErrorNoEvent(h) \/ ErrorSave(h)
  BY <1>6, AnswerAt, PlainHandlerOK
  DEF FindHandledEvent, MarkProcessed, ErrorNoEvent, ErrorSave, Idle
<1>7. CASE LinkUser(h)
  <2> DEFINE linked == [d.event EXCEPT !.linked = TRUE]
  <2>1. /\ handler'[h] = [d EXCEPT !.event = linked, !.cached = Cached(d),
                                 !.pc = AfterLink(d)]
        /\ UNCHANGED <<verdict, tx>> /\ d.pc = "dispatch" /\ d.id \in Payments
    BY <1>7, BecomesAt DEF LinkUser, At, Payments
  <2>2. /\ handler'[h].pc = AfterLink(d) /\ handler'[h].id = d.id
        /\ handler'[h].status = d.status
    <3> HIDE DEF linked
    <3> QED
      BY <1>0, <2>1 DEF Handler
  <2>3. d.status \in Statuses
    BY <1>0 DEF Handler
  <2> QED
    BY <1>0, <2>1, <2>2, <2>3
    DEF HandlerOK, AfterLink, Completing, Failing, Failure, Statuses, Final, Payments
<1>8. CASE DisbursementOK(h)
  <2>1. CASE Goto(h, "markProcessed")
    BY <1>8, <2>1, GotoAt, PlainHandlerOK DEF DisbursementOK, At
  <2>2. CASE \E e : Becomes(h, [d EXCEPT !.event = e, !.pc = "markProcessed"])
    <3>1. PICK e : handler'[h] = [d EXCEPT !.event = e, !.pc = "markProcessed"]
      BY <2>2, BecomesAt
    <3>2. Recorded
      BY <1>0, <3>1 DEF Handler
    <3> QED
      BY <1>8, <1>p, <3>2 DEF DisbursementOK, At
  <2> QED
    BY <1>8, <2>1, <2>2 DEF DisbursementOK
<1>9. CASE DispatchStray(h)
  BY <1>9, GotoAt, ThrowAt, PlainHandlerOK DEF DispatchStray, At
<1> QED
  BY <1>1, <1>2, <1>3, <1>4, <1>5, <1>6, <1>7, <1>8, <1>9 DEF ProcessWebhook

\* Carrying out a verdict only reaches the pcs that fit it.
LEMMA HandleVerdictOK ==
    ASSUME IInv, NEW h \in Handlers, HandleVerdict(h)
    PROVE  HandlerOK(handler[h])'
<1> DEFINE d == handler[h]
           Kept == /\ handler'[h].id = d.id
                   /\ handler'[h].status = d.status
                   /\ UNCHANGED verdict
<1> USE DEF IInv
<1>0. d \in Handler /\ HandlerOK(d) /\ d.status \in Statuses
  BY DEF TypeOK, HandlerInv, Handler
<1>1. CASE FindTx(h)
  <2> DEFINE pc == IF tx[d.id] = "PENDING"
                   THEN IF d.status = "SETTLED" THEN "completeFindTx" ELSE "failFindTx"
                   ELSE IF d.id \in Disbursements THEN "markProcessed"
                   ELSE IF d.status = "SETTLED" THEN "completeRequest" ELSE "findTxAgain"
  <2>1. handler'[h] = [d EXCEPT !.next = Return(d), !.pc = pc]
    BY <1>1, BecomesAt DEF FindTx
  <2>2. Kept /\ handler'[h].pc = pc /\ handler'[h].next = Return(d)
    <3> HIDE DEF pc
    <3> QED
      BY <1>0, <1>1, <2>1 DEF Handler, FindTx
  <2>3. Return(handler'[h]) = Return(d)
    BY <2>2 DEF Return
  <2>4. d.pc = "findTx"
    BY <1>1 DEF FindTx, At
  <2> QED
    BY <1>0, <2>2, <2>3, <2>4
    DEF HandlerOK, Completing, Failing, Failure, Statuses, Final, Payments
<1>2. CASE FindTxAgain(h)
  <2>1. CASE Throw(h, FALSE)
    BY <1>2, <2>1, ThrowAt, PlainHandlerOK DEF FindTxAgain, At
  <2>2. CASE Becomes(h, [d EXCEPT !.pc = "failFindTx", !.next = "readCache"])
    <3>1. handler'[h] = [d EXCEPT !.pc = "failFindTx", !.next = "readCache"]
      BY <2>2, BecomesAt
    <3>2. Kept /\ handler'[h].pc = "failFindTx" /\ handler'[h].next = "readCache"
      BY <1>0, <1>2, <3>1 DEF Handler, FindTxAgain
    <3> QED
      BY <1>0, <1>2, <3>2 DEF FindTxAgain, At, HandlerOK, Completing, Failing, Payments
  <2> QED
    BY <1>2, <2>1, <2>2 DEF FindTxAgain
<1>3. CASE CompleteRequest(h)
  BY <1>0, <1>3, GotoAt DEF CompleteRequest, At, HandlerOK, Completing, Failing
<1>4. CASE DropCache(h) \/ FailRequest(h)
  BY <1>4, GotoAt, PlainHandlerOK DEF DropCache, FailRequest, At
<1>5. CASE ReadCache(h)
  BY <1>5, GotoAt, ThrowAt, PlainHandlerOK DEF ReadCache, At
<1>6. CASE RefundFindWallet(h)
  <2>1. PICK w : handler'[h] = [d EXCEPT !.pc = "refundSave", !.wallet = w]
    BY <1>6, BecomesAt DEF RefundFindWallet
  <2>2. Kept /\ handler'[h].pc = "refundSave" /\ UNCHANGED tx
    BY <1>0, <1>6, <2>1 DEF Handler, RefundFindWallet
  <2> QED
    BY <1>0, <1>6, <2>2 DEF RefundFindWallet, At, HandlerOK, Completing, Failing
<1>7. CASE RefundSave(h)
  BY <1>7, GotoAt, PlainHandlerOK DEF RefundSave, At
<1>8. CASE CompleteFindTx(h)
  <2>1. CASE \E b : Throw(h, b)
    BY <1>8, <2>1, ThrowAt, PlainHandlerOK DEF CompleteFindTx, At
  <2>2. CASE Goto(h, "completeFindWallet")
    BY <1>0, <1>8, <2>2, GotoAt DEF CompleteFindTx, At, HandlerOK, Completing, Failing, Return
  <2> QED
    BY <1>8, <2>1, <2>2 DEF CompleteFindTx
<1>9. CASE CompleteFindWallet(h)
  <2>1. CASE Throw(h, TRUE)
    BY <1>9, <2>1, ThrowAt, PlainHandlerOK DEF CompleteFindWallet, At
  <2>2. CASE \E w : Becomes(h, [d EXCEPT !.pc = "completeCommit", !.wallet = w])
    <3>1. PICK w : handler'[h] = [d EXCEPT !.pc = "completeCommit", !.wallet = w]
      BY <2>2, BecomesAt
    <3>2. Kept /\ handler'[h].pc = "completeCommit" /\ handler'[h].next = d.next
      BY <1>0, <1>9, <3>1 DEF Handler, CompleteFindWallet
    <3> QED
      BY <1>0, <1>9, <3>2 DEF CompleteFindWallet, At, HandlerOK, Completing, Failing, Return
  <2> QED
    BY <1>9, <2>1, <2>2 DEF CompleteFindWallet
<1>10. CASE CompleteCommit(h)
  <2>1. /\ Kept /\ handler'[h].pc = d.next /\ d.pc = "completeCommit"
        /\ d.next = Return(d) /\ d.status = "SETTLED" /\ d.id \in Payments
    BY <1>0, <1>10, GotoAt DEF CompleteCommit, At, HandlerOK, Completing
  <2> QED
    BY <1>0, <2>1 DEF HandlerOK, Completing, Failing, Failure, Return
<1>11. CASE FailFindTx(h)
  <2>1. CASE \E b : Throw(h, b)
    BY <1>11, <2>1, ThrowAt, PlainHandlerOK DEF FailFindTx, At
  <2>2. CASE Goto(h, "failSave")
    BY <1>0, <1>11, <2>2, GotoAt DEF FailFindTx, At, HandlerOK, Completing, Failing, Return
  <2> QED
    BY <1>11, <2>1, <2>2 DEF FailFindTx
<1>12. CASE FailSave(h)
  <2>1. /\ Kept /\ handler'[h].pc = d.next /\ d.pc = "failSave"
        /\ Failure(d.status) /\ d.id \in Payments
        /\ d.next = Return(d) \/ (d.id \in RequestPays /\ d.next = "readCache")
    BY <1>0, <1>12, GotoAt DEF FailSave, At, HandlerOK, Failing
  <2>2. d.id \in Ids /\ tx'[d.id] = "FAILED"
    BY <1>12, <2>1 DEF FailSave, TypeOK, Ids
  <2> QED
    BY <1>0, <2>1, <2>2 DEF HandlerOK, Completing, Failing, Failure, Return, Payments
<1> QED
  BY <1>1, <1>2, <1>3, <1>4, <1>5, <1>6, <1>7, <1>8, <1>9, <1>10, <1>11, <1>12
  DEF HandleVerdict

\* Every handler's pc still fits what it serves.
LEMMA NextHandlerInv ==
    ASSUME IInv, [Next]_vars
    PROVE  HandlerInv'
<1> USE DEF IInv
<1>0. Stable
  BY NextStable
<1>1. CASE UNCHANGED handler
  BY <1>0, <1>1, OtherHandlerOK DEF HandlerInv
<1>2. CASE \E h \in Handlers, i \in Ids, s \in Statuses :
              Deliver(h, i, s) \/ DeliverAgain(h, i, s)
  <2>1. PICK h \in Handlers, i \in Ids, s \in Statuses : Receive(h, i, s)
    BY <1>2 DEF Deliver, DeliverAgain
  <2> DEFINE d == [Idle EXCEPT !.pc = "findEvent", !.id = i, !.status = s]
  <2>2. handler'[h] = d /\ \A g \in Handlers \ {h} : handler'[g] = handler[g]
    BY <2>1, BecomesAt DEF Receive
  <2>3. HandlerOK(handler[h])'
    BY <2>1, <2>2 DEF Receive, HandlerOK, Idle, Completing, Failing
  <2> QED
    BY <1>0, <2>2, <2>3, OtherHandlerOK DEF HandlerInv
<1>3. ASSUME NEW h \in Handlers, Step(h) \/ CallFails(h), HandlerOK(handler[h])'
      PROVE  HandlerInv'
  BY <1>0, <1>3, OthersAt, OtherHandlerOK DEF HandlerInv
<1>4. ASSUME NEW h \in Handlers, Step(h)
      PROVE  HandlerInv'
  BY <1>3, <1>4, ProcessWebhookOK, HandleVerdictOK DEF Step
<1>5. ASSUME NEW h \in Handlers, CallFails(h)
      PROVE  HandlerInv'
  <2>1. CASE Goto(h, "markProcessed")
    BY <1>3, <1>5, <2>1, GotoAt, PlainHandlerOK DEF CallFails
  <2>2. CASE AnswerError(h)
    <3>1. handler'[h].pc = "idle" /\ UNCHANGED verdict
      BY <1>5, <2>2, AnswerAt DEF CallFails, Idle
    <3> QED
      BY <1>3, <1>5, <3>1, PlainHandlerOK
  <2>3. CASE Throw(h, FALSE)
    BY <1>3, <1>5, <2>3, ThrowAt, PlainHandlerOK DEF CallFails
  <2> QED
    BY <1>5, <2>1, <2>2, <2>3 DEF CallFails
<1>6. CASE Restart
  BY <1>6, PlainHandlerOK DEF Restart, HandlerInv, Idle
<1> QED
  BY <1>1, <1>2, <1>4, <1>5, <1>6 DEF Next, vars, Decide, OpenTransaction, ExpireCache

\* The outcomes written are the verdicts.
LEMMA NextMatches ==
    ASSUME IInv, [Next]_vars
    PROVE  TxMatchesVerdict' /\ RequestMatchesVerdict'
<1> USE DEF IInv
<1>0. Stable /\ RequestPays \subseteq Ids
  BY NextStable DEF Ids, Payments
<1>1. TypeOK /\ TypeOK'
  BY NextType
<1>2. ASSUME NEW h \in Handlers, HandleVerdict(h)
      PROVE  TxMatchesVerdict' /\ RequestMatchesVerdict'
  <2>1. CASE CompleteCommit(h)
    BY <1>0, <2>1, WriterServesVerdict
    DEF CompleteCommit, TxMatchesVerdict, RequestMatchesVerdict, TypeOK, Failure, Stable
  <2>2. CASE FailSave(h)
    BY <1>0, <2>2, WriterServesVerdict
    DEF FailSave, TxMatchesVerdict, RequestMatchesVerdict, TypeOK, Failure, Stable
  <2>3. CASE CompleteRequest(h)
    BY <2>3, WriterServesVerdict
    DEF CompleteRequest, TxMatchesVerdict, RequestMatchesVerdict, TypeOK
  <2>4. CASE FailRequest(h)
    <3>1. tx[handler[h].id] = "FAILED"
      BY <2>4 DEF FailRequest, At, HandlerInv, HandlerOK
    <3> QED
      BY <2>4, <3>1 DEF FailRequest, TxMatchesVerdict, RequestMatchesVerdict, TypeOK
  <2> QED
    BY <1>2, <2>1, <2>2, <2>3, <2>4 DEF HandleVerdict, FindTx, FindTxAgain, DropCache,
       ReadCache, RefundFindWallet, RefundSave, CompleteFindTx, CompleteFindWallet,
       FailFindTx, TxMatchesVerdict, RequestMatchesVerdict
<1>3. CASE \E i \in Ids, v \in Verdicts : Decide(i, v)
  BY <1>0, <1>3 DEF Decide, Stable, TxMatchesVerdict, RequestMatchesVerdict, Failure
<1>4. CASE \E i \in Late : OpenTransaction(i)
  BY <1>0, <1>4
  DEF OpenTransaction, Stable, TxMatchesVerdict, RequestMatchesVerdict, Failure, TypeOK
<1>5. CASE UNCHANGED <<verdict, tx, request>>
  BY <1>5 DEF TxMatchesVerdict, RequestMatchesVerdict
<1>6. ASSUME NEW h \in Handlers, ProcessWebhook(h)
      PROVE  UNCHANGED <<verdict, tx, request>>
  BY <1>6 DEF ProcessWebhook, FindNoEvent, FindHandledEvent, FindProgression,
     CreateEvent, UpdateEvent, MarkProcessed, ErrorFindEvent, ErrorNoEvent,
     ErrorSave, LinkUser, DisbursementOK, DispatchStray
<1> QED
  BY <1>2, <1>3, <1>4, <1>5, <1>6 DEF Next, Step, vars, Deliver, DeliverAgain, Receive,
     ExpireCache, CallFails, Restart

LEMMA NextInv == IInv /\ [Next]_vars => IInv'
BY NextType, NextMatches, NextHandlerInv DEF IInv

THEOREM Invariance == Spec => []IInv
<1>1. Init => IInv
  BY InitInv
<1>2. IInv /\ [Next]_vars => IInv'
  BY NextInv
<1> QED
  BY <1>1, <1>2, PTL DEF Spec

-----------------------------------------------------------------------------
(* What follows.                                                           *)

\* The tables and the handlers hold what their types allow.
THEOREM TypeCorrect == Spec => []TypeOK
BY Invariance, PTL DEF IInv

\* A transaction is completed or failed only as APT Pay decided.
THEOREM TxIsVerdict == Spec => []TxMatchesVerdict
BY Invariance, PTL DEF IInv

\* A payment request never claims more than APT Pay said.
THEOREM RequestIsVerdict == Spec => []RequestMatchesVerdict
BY Invariance, PTL DEF IInv

\* No step takes back a closed transaction.
THEOREM TxNeverReopens == Spec => TxFinal
<1>1. IInv /\ [Next]_vars =>
          [\A i \in Ids : tx[i] \in {"COMPLETED", "FAILED"} => tx'[i] = tx[i]]_vars
  BY NextStable DEF Stable
<1> QED
  BY <1>1, Invariance, PTL DEF Spec, TxFinal

\* A handler moves money only for the settled request or failed disbursement
\* it serves.
THEOREM BalanceCause == Spec => BalanceHasCause
<1>1. ASSUME IInv, [Next]_vars, NEW u \in Users, balance'[u] # balance[u]
      PROVE  \E h \in Handlers : Causes(h, u)
  <2>1. PICK h \in Handlers : RefundSave(h) \/ CompleteCommit(h)
    BY <1>1 DEF Next, vars, Step, ProcessWebhook, HandleVerdict, Decide, Deliver,
       DeliverAgain, Receive, OpenTransaction, ExpireCache, CallFails, Restart,
       FindNoEvent, FindHandledEvent, FindProgression, CreateEvent, UpdateEvent,
       MarkProcessed, ErrorFindEvent, ErrorNoEvent, ErrorSave, LinkUser,
       DisbursementOK, DispatchStray, FindTx, FindTxAgain, CompleteRequest, DropCache,
       FailRequest, ReadCache, RefundFindWallet, CompleteFindTx, CompleteFindWallet,
       FailFindTx, FailSave
  <2> DEFINE i == handler[h].id
  <2>2. TypeOK /\ HandlerOK(handler[h])
    BY <1>1 DEF IInv, HandlerInv
  <2>3. CASE RefundSave(h)
    <3>1. i \in Disbursements /\ tx[i] = "FAILED"
      BY <2>2, <2>3 DEF RefundSave, At, HandlerOK
    <3>2. Owner[i] = u
      BY <1>1, <2>2, <2>3 DEF RefundSave, TypeOK
    <3>3. handler'[h].pc = "markProcessed" /\ handler[h].pc = "refundSave"
      BY <2>2, <2>3, GotoAt DEF RefundSave, At
    <3> QED
      BY <3>1, <3>2, <3>3 DEF Causes, Payments
  <2>4. CASE CompleteCommit(h)
    <3>1. i \in RequestPays /\ Owner[i] = u
      BY <1>1, <2>2, <2>4 DEF CompleteCommit, TypeOK
    <3>2. i \in Ids /\ verdict[i] = "SETTLED" /\ tx'[i] = "COMPLETED"
      BY <1>1, <2>2, <2>4, <3>1, WriterServesVerdict
      DEF CompleteCommit, TypeOK, Ids, Payments
    <3>3. handler'[h].pc = "completeRequest" /\ handler[h].pc = "completeCommit"
      <4>1. handler'[h].pc = handler[h].next /\ handler[h].pc = "completeCommit"
        BY <2>2, <2>4, GotoAt DEF CompleteCommit, At
      <4>2. handler[h].next = "completeRequest"
        BY <2>2, <3>1, <4>1 DEF HandlerOK, Completing, Return, Failure
      <4> QED
        BY <4>1, <4>2
    <3> QED
      BY <3>1, <3>2, <3>3 DEF Causes, Payments
  <2> QED
    BY <2>1, <2>3, <2>4
<1>2. IInv /\ [Next]_vars =>
          [\A u \in Users : balance'[u] # balance[u]
                               => \E h \in Handlers : Causes(h, u)]_vars
  BY <1>1
<1> QED
  BY <1>2, Invariance, PTL DEF Spec, BalanceHasCause

-----------------------------------------------------------------------------
(* What recording an event leaves in the handler's record.                 *)

LEMMA GotoKeeps ==
    ASSUME TypeOK, NEW h \in Handlers, NEW pc, Goto(h, pc)
    PROVE  /\ handler'[h].row = handler[h].row
           /\ handler'[h].event = handler[h].event
           /\ handler'[h].previous = handler[h].previous
<1>1. handler[h] \in Handler
  BY DEF TypeOK
<1>2. handler'[h] = [handler[h] EXCEPT !.pc = pc]
  BY BecomesAt DEF Goto
<1> QED
  BY <1>1, <1>2 DEF Handler

LEMMA FindNoEventAt ==
    ASSUME TypeOK, NEW h \in Handlers, FindNoEvent(h)
    PROVE  /\ handler'[h].pc = "createEvent"
           /\ handler'[h].id = handler[h].id /\ handler'[h].status = handler[h].status
           /\ handler'[h].event.status = handler[h].status
<1> DEFINE d == handler[h]
           f == [status |-> d.status, processing |-> "pending", linked |-> FALSE]
<1>1. PICK e : e = f
  OBVIOUS
<1>2. handler'[h] = [d EXCEPT !.pc = "createEvent", !.previous = "NEW", !.event = e]
  BY <1>1, BecomesAt DEF FindNoEvent
<1>3. d \in Handler
  BY DEF TypeOK
<1>4. e.status = d.status
  BY <1>1
<1> HIDE DEF f
<1> QED
  BY <1>2, <1>3, <1>4 DEF Handler

LEMMA FindProgressionAt ==
    ASSUME TypeOK, NEW h \in Handlers, FindProgression(h), handler[h].id \in Ids
    PROVE  \E k \in DOMAIN events[handler[h].id] :
              LET found == events[handler[h].id][k] IN
              /\ handler'[h].pc = "updateEvent" /\ handler'[h].row = k
              /\ handler'[h].id = handler[h].id /\ handler'[h].status = handler[h].status
              /\ handler'[h].previous = found.status
              /\ handler'[h].event.status = handler[h].status
              /\ ValidProgression(found.status, handler[h].status)
<1> DEFINE d == handler[h]
<1>1. PICK k \in DOMAIN events[d.id] :
        /\ ValidProgression(events[d.id][k].status, d.status)
        /\ Becomes(h, [d EXCEPT
              !.pc = "updateEvent",
              !.previous = events[d.id][k].status,
              !.row = k,
              !.event = [events[d.id][k] EXCEPT !.status = d.status,
                                                !.processing = "pending"]])
  BY DEF FindProgression
<1>2. PICK e, v : /\ e = [events[d.id][k] EXCEPT !.status = d.status, !.processing = "pending"]
                  /\ v = events[d.id][k].status
  OBVIOUS
<1>3. handler'[h] = [d EXCEPT !.pc = "updateEvent", !.previous = v, !.row = k, !.event = e]
  BY <1>1, <1>2, BecomesAt
<1>4. d \in Handler
  BY DEF TypeOK
<1>5. events[d.id] \in Seq(EventRow)
  BY DEF TypeOK
<1>6. events[d.id][k] \in EventRow
  BY <1>5, ElementOfSeq, LenProperties
<1>7. e.status = d.status
  BY <1>2, <1>6 DEF EventRow
<1>8. /\ handler'[h].pc = "updateEvent" /\ handler'[h].row = k
      /\ handler'[h].id = d.id /\ handler'[h].status = d.status
      /\ handler'[h].previous = v /\ handler'[h].event = e
  BY <1>3, <1>4 DEF Handler
<1> QED
  BY <1>1, <1>2, <1>7, <1>8

LEMMA CreateEventAt ==
    ASSUME TypeOK, NEW h \in Handlers, CreateEvent(h)
    PROVE  /\ handler'[h].pc = "dispatch"
           /\ handler'[h].id = handler[h].id /\ handler'[h].status = handler[h].status
           /\ handler'[h].event = handler[h].event
           /\ handler'[h].row = Len(events[handler[h].id]) + 1
<1> DEFINE d == handler[h]
<1>1. PICK k : k = Len(events[d.id]) + 1
  OBVIOUS
<1>2. handler'[h] = [d EXCEPT !.pc = "dispatch", !.row = k]
  BY <1>1, BecomesAt DEF CreateEvent
<1>3. d \in Handler
  BY DEF TypeOK
<1> QED
  BY <1>1, <1>2, <1>3 DEF Handler

LEMMA ErrorFindEventAt ==
    ASSUME TypeOK, NEW h \in Handlers, ErrorFindEvent(h), handler[h].id \in Ids
    PROVE  \E k \in DOMAIN events[handler[h].id] :
              /\ handler'[h].pc = "errorSave" /\ handler'[h].row = k
              /\ handler'[h].id = handler[h].id /\ handler'[h].status = handler[h].status
              /\ handler'[h].event.status = events[handler[h].id][k].status
<1> DEFINE d == handler[h]
<1>1. PICK k \in DOMAIN events[d.id] :
        Becomes(h, [d EXCEPT
            !.pc = "errorSave",
            !.row = k,
            !.event = [events[d.id][k] EXCEPT !.processing = "failed"]])
  BY DEF ErrorFindEvent
<1>2. PICK e : e = [events[d.id][k] EXCEPT !.processing = "failed"]
  OBVIOUS
<1>3. handler'[h] = [d EXCEPT !.pc = "errorSave", !.row = k, !.event = e]
  BY <1>1, <1>2, BecomesAt
<1>4. d \in Handler /\ events[d.id] \in Seq(EventRow)
  BY DEF TypeOK
<1>5. events[d.id][k] \in EventRow
  BY <1>4, ElementOfSeq, LenProperties
<1>6. e.status = events[d.id][k].status
  BY <1>2, <1>5 DEF EventRow
<1> QED
  BY <1>3, <1>4, <1>6 DEF Handler

LEMMA LinkUserAt ==
    ASSUME TypeOK, NEW h \in Handlers, LinkUser(h)
    PROVE  /\ handler'[h].pc = AfterLink(handler[h])
           /\ handler'[h].id = handler[h].id /\ handler'[h].status = handler[h].status
           /\ handler'[h].row = handler[h].row /\ handler'[h].previous = handler[h].previous
           /\ handler'[h].event.status = handler[h].event.status
<1> DEFINE d == handler[h]
<1>1. PICK e, c, p : e = [d.event EXCEPT !.linked = TRUE] /\ c = Cached(d) /\ p = AfterLink(d)
  OBVIOUS
<1>2. handler'[h] = [d EXCEPT !.event = e, !.cached = c, !.pc = p]
  BY <1>1, BecomesAt DEF LinkUser
<1>3. d \in Handler /\ d.event \in EventRow
  BY DEF TypeOK, Handler
<1>4. e.status = d.event.status
  BY <1>1, <1>3 DEF EventRow
<1>5. /\ handler'[h].pc = p /\ handler'[h].event = e
      /\ handler'[h].id = d.id /\ handler'[h].status = d.status
      /\ handler'[h].row = d.row /\ handler'[h].previous = d.previous
  BY <1>2, <1>3 DEF Handler
<1> QED
  BY <1>1, <1>4, <1>5

LEMMA DisbursementOKAt ==
    ASSUME TypeOK, NEW h \in Handlers, DisbursementOK(h)
    PROVE  /\ handler'[h].pc = "markProcessed"
           /\ handler'[h].id = handler[h].id /\ handler'[h].status = handler[h].status
           /\ handler'[h].row = handler[h].row
           /\ handler'[h].event.status = handler[h].event.status
           /\ \/ UNCHANGED events
              \/ SaveEvent(h, handler'[h].event)
<1> DEFINE d == handler[h]
<1>1. CASE Goto(h, "markProcessed") /\ UNCHANGED events
  BY <1>1, GotoAt, GotoKeeps
<1>2. CASE ~(Goto(h, "markProcessed") /\ UNCHANGED events)
  <2>1. PICK e : e = [d.event EXCEPT !.linked = TRUE]
    OBVIOUS
  <2>2. SaveEvent(h, e) /\ handler'[h] = [d EXCEPT !.event = e, !.pc = "markProcessed"]
    BY <1>2, <2>1, BecomesAt DEF DisbursementOK
  <2>3. d \in Handler /\ d.event \in EventRow
    BY DEF TypeOK, Handler
  <2>4. e.status = d.event.status
    BY <2>1, <2>3 DEF EventRow
  <2>5. /\ handler'[h].pc = "markProcessed" /\ handler'[h].event = e
        /\ handler'[h].id = d.id /\ handler'[h].status = d.status
        /\ handler'[h].row = d.row
    BY <2>2, <2>3 DEF Handler
  <2> QED
    BY <2>2, <2>4, <2>5
<1> QED
  BY <1>1, <1>2

-----------------------------------------------------------------------------
(* One delivery at a time. What a handler has read is then still so when it *)
(* writes: the transaction is still PENDING, the wallet still as it was     *)
(* read. A webhook that is processed is a step of the abstract ledger.      *)

Serial == \A g, h \in Handlers : g = h

SeenPcs == {"completeFindWallet", "completeCommit", "failSave", "refundSave"}

SeenOK(d) ==
    /\ d.pc \in {"completeFindWallet", "completeCommit", "failSave"} =>
          tx[d.id] = "PENDING"
    /\ d.pc \in {"completeCommit", "refundSave"} => d.wallet = balance[Owner[d.id]]
    /\ d.pc = "completeCommit" /\ d.id \in Disbursements => d.wallet >= Amount[d.id]

SeenInv == \A h \in Handlers : SeenOK(handler[h])

\* Any other pc asks for nothing.
LEMMA SeenElsewhere ==
    ASSUME NEW h \in Handlers, handler'[h].pc \notin SeenPcs
    PROVE  SeenOK(handler[h])'
BY DEF SeenPcs, SeenOK

\* The steps that record an event lead to no such pc.
LEMMA RecordingPcs ==
    ASSUME IInv, NEW h \in Handlers, ProcessWebhook(h)
    PROVE  handler'[h].pc \notin SeenPcs
<1> DEFINE d == handler[h]
<1>0. /\ TypeOK /\ d.status \in Statuses /\ Idle.pc = "idle"
      /\ d.pc # "idle" => d.id \in Ids
  BY DEF IInv, TypeOK, Handler, Idle, HandlerInv, HandlerOK
<1>1. CASE FindNoEvent(h) \/ CreateEvent(h) \/ UpdateEvent(h) \/ DisbursementOK(h)
  BY <1>0, <1>1, FindNoEventAt, CreateEventAt, GotoAt, DisbursementOKAt
  DEF UpdateEvent, SeenPcs
<1>2. CASE FindProgression(h) \/ ErrorFindEvent(h)
  <2>1. d.id \in Ids
    BY <1>0, <1>2 DEF FindProgression, ErrorFindEvent, At
  <2>2. handler'[h].pc \in {"updateEvent", "errorSave"}
    BY <1>0, <1>2, <2>1, FindProgressionAt, ErrorFindEventAt
  <2> QED
    BY <2>2 DEF SeenPcs
<1>3. CASE \/ FindHandledEvent(h) \/ MarkProcessed(h)
           \/ ErrorNoEvent(h) \/ ErrorSave(h)
  BY <1>0, <1>3, AnswerAt
  DEF FindHandledEvent, MarkProcessed, ErrorNoEvent, ErrorSave, SeenPcs
<1>4. CASE LinkUser(h)
  BY <1>0, <1>4, LinkUserAt DEF AfterLink, SeenPcs, Statuses, Final, Failure
<1>5. CASE DispatchStray(h)
  <2>1. handler'[h].pc \in {"markProcessed", "errorFindEvent"}
    BY <1>0, <1>5, GotoAt, ThrowAt DEF DispatchStray
  <2> QED
    BY <2>1 DEF SeenPcs
<1> QED
  BY <1>1, <1>2, <1>3, <1>4, <1>5 DEF ProcessWebhook

\* The four steps that read what is written later.
LEMMA VerdictSeen ==
    ASSUME IInv, SeenInv, NEW h \in Handlers, HandleVerdict(h)
    PROVE  SeenOK(handler[h])'
<1> DEFINE d == handler[h]
<1>0. /\ TypeOK /\ d \in Handler /\ d.status \in Statuses
      /\ HandlerOK(d) /\ SeenOK(d) /\ "idle" \notin SeenPcs
  BY DEF IInv, TypeOK, Handler, HandlerInv, SeenInv, SeenPcs
<1>1. CASE FindTx(h)
  <2> DEFINE pc == IF tx[d.id] = "PENDING"
                   THEN IF d.status = "SETTLED" THEN "completeFindTx" ELSE "failFindTx"
                   ELSE IF d.id \in Disbursements THEN "markProcessed"
                   ELSE IF d.status = "SETTLED" THEN "completeRequest" ELSE "findTxAgain"
  <2>1. handler'[h] = [d EXCEPT !.next = Return(d), !.pc = pc]
    BY <1>0, <1>1, BecomesAt DEF FindTx
  <2>2. handler'[h].pc = pc
    <3> HIDE DEF pc
    <3> QED
      BY <1>0, <2>1 DEF Handler
  <2>3. handler'[h].pc \notin SeenPcs
    BY <2>2 DEF SeenPcs
  <2> QED
    BY <2>3, SeenElsewhere
<1>2. CASE FindTxAgain(h)
  <2>1. CASE Throw(h, FALSE)
    BY <1>0, <2>1, ThrowAt, SeenElsewhere DEF SeenPcs
  <2>2. CASE Becomes(h, [d EXCEPT !.pc = "failFindTx", !.next = "readCache"])
    <3>1. handler'[h] = [d EXCEPT !.pc = "failFindTx", !.next = "readCache"]
      BY <1>0, <2>2, BecomesAt
    <3>2. handler'[h].pc \notin SeenPcs
      BY <1>0, <3>1 DEF Handler, SeenPcs
    <3> QED
      BY <3>2, SeenElsewhere
  <2> QED
    BY <1>2, <2>1, <2>2 DEF FindTxAgain
<1>3. CASE CompleteRequest(h) \/ DropCache(h) \/ FailRequest(h) \/ ReadCache(h) \/ RefundSave(h)
  <2>1. handler'[h].pc \in {"markProcessed", "dropCache", "errorFindEvent"}
    BY <1>0, <1>3, GotoAt, ThrowAt
    DEF CompleteRequest, DropCache, FailRequest, ReadCache, RefundSave
  <2> QED
    BY <2>1, SeenElsewhere DEF SeenPcs
<1>4. CASE RefundFindWallet(h)
  <2>1. PICK w : w = balance[Owner[d.id]]
    OBVIOUS
  <2>2. handler'[h] = [d EXCEPT !.pc = "refundSave", !.wallet = w]
    BY <1>0, <1>4, <2>1, BecomesAt DEF RefundFindWallet
  <2>3. handler'[h].pc = "refundSave" /\ handler'[h].wallet = w /\ handler'[h].id = d.id
    BY <1>0, <2>2 DEF Handler
  <2> QED
    BY <1>4, <2>1, <2>3 DEF RefundFindWallet, SeenOK
<1>5. CASE CompleteFindTx(h)
  <2>1. CASE tx[d.id] = "PENDING"
    <3>1. handler'[h].pc = "completeFindWallet" /\ handler'[h].id = d.id /\ tx' = tx
      BY <1>0, <1>5, <2>1, GotoAt DEF CompleteFindTx
    <3> QED
      BY <2>1, <3>1 DEF SeenOK
  <2>2. CASE tx[d.id] # "PENDING"
    BY <1>0, <1>5, <2>2, ThrowAt, SeenElsewhere DEF CompleteFindTx, SeenPcs
  <2> QED
    BY <2>1, <2>2
<1>6. CASE CompleteFindWallet(h)
  <2>1. PICK w : w = balance[Owner[d.id]]
    OBVIOUS
  <2>2. CASE Throw(h, TRUE)
    BY <1>0, <2>2, ThrowAt, SeenElsewhere DEF SeenPcs
  <2>3. CASE ~Throw(h, TRUE)
    <3>1. /\ handler'[h] = [d EXCEPT !.pc = "completeCommit", !.wallet = w]
          /\ ~(d.id \in Disbursements /\ w < Amount[d.id])
          /\ tx' = tx /\ balance' = balance
      BY <1>0, <1>6, <2>1, <2>3, BecomesAt DEF CompleteFindWallet
    <3>2. handler'[h].pc = "completeCommit" /\ handler'[h].wallet = w /\ handler'[h].id = d.id
      BY <1>0, <3>1 DEF Handler
    <3>3. tx[d.id] = "PENDING" /\ d.id \in Payments
      BY <1>0, <1>6 DEF CompleteFindWallet, At, SeenOK, HandlerOK, Completing
    <3>4. d.id \in Disbursements => w >= Amount[d.id]
      BY <1>0, <2>1, <3>1, <3>3, PaymentAssumption DEF TypeOK
    <3> QED
      BY <2>1, <3>1, <3>2, <3>3, <3>4 DEF SeenOK
  <2> QED
    BY <2>2, <2>3
<1>7. CASE CompleteCommit(h) \/ FailSave(h)
  <2>1. handler'[h].pc = d.next /\ d.pc \in {"completeCommit", "failSave"}
    BY <1>0, <1>7, GotoAt DEF CompleteCommit, FailSave, At
  <2>2. d.next = Return(d) \/ d.next = "readCache"
    BY <1>0, <2>1 DEF HandlerOK, Completing, Failing
  <2>3. handler'[h].pc \notin SeenPcs
    BY <1>0, <2>1, <2>2 DEF Return, SeenPcs, Statuses, Final, Failure
  <2> QED
    BY <2>3, SeenElsewhere
<1>8. CASE FailFindTx(h)
  <2>1. CASE tx[d.id] = "PENDING"
    <3>1. handler'[h].pc = "failSave" /\ handler'[h].id = d.id /\ tx' = tx
      BY <1>0, <1>8, <2>1, GotoAt DEF FailFindTx
    <3> QED
      BY <2>1, <3>1 DEF SeenOK
  <2>2. CASE tx[d.id] # "PENDING"
    BY <1>0, <1>8, <2>2, ThrowAt, SeenElsewhere DEF FailFindTx, SeenPcs
  <2> QED
    BY <2>1, <2>2
<1> QED
  BY <1>1, <1>2, <1>3, <1>4, <1>5, <1>6, <1>7, <1>8 DEF HandleVerdict

LEMMA SeenNext ==
    ASSUME Serial, IInv, SeenInv, [Next]_vars
    PROVE  SeenInv'
<1>0. TypeOK /\ HandlerInv
  BY DEF IInv
<1>1. CASE UNCHANGED <<tx, balance, handler>>
  BY <1>1 DEF SeenInv, SeenOK
<1>2. CASE \E h \in Handlers, i \in Ids, s \in Statuses :
              Deliver(h, i, s) \/ DeliverAgain(h, i, s)
  <2>1. PICK h \in Handlers, i \in Ids, s \in Statuses : Receive(h, i, s)
    BY <1>2 DEF Deliver, DeliverAgain
  <2>2. handler'[h] = [Idle EXCEPT !.pc = "findEvent", !.id = i, !.status = s]
    BY <1>0, <2>1, BecomesAt DEF Receive
  <2>3. handler'[h].pc \notin SeenPcs
    BY <2>2 DEF Idle, SeenPcs
  <2> QED
    BY <2>3, SeenElsewhere DEF Serial, SeenInv
<1>3. CASE \E i \in Late : OpenTransaction(i)
  <2>1. PICK i \in Late : OpenTransaction(i)
    BY <1>3
  <2>2. \A j \in Ids : tx[j] = "PENDING" => tx'[j] = "PENDING"
    BY <1>0, <2>1 DEF OpenTransaction, TypeOK
  <2>3. UNCHANGED <<balance, handler>>
    BY <2>1 DEF OpenTransaction
  <2>4. \A h \in Handlers : handler[h].pc \in {"completeFindWallet", "completeCommit", "failSave"}
          => handler[h].id \in Ids
    BY <1>0 DEF HandlerInv, HandlerOK
  <2> QED
    BY <2>2, <2>3, <2>4 DEF SeenInv, SeenOK
<1>4. ASSUME NEW h \in Handlers, Step(h) \/ CallFails(h)
      PROVE  SeenInv'
  <2>1. SeenOK(handler[h])'
    <3>1. CASE ProcessWebhook(h)
      BY <3>1, RecordingPcs, SeenElsewhere
    <3>2. CASE HandleVerdict(h)
      BY <3>2, VerdictSeen
    <3>3. CASE CallFails(h)
      <4>1. Idle.pc = "idle"
        BY DEF Idle
      <4>2. handler'[h].pc \in {"idle", "markProcessed", "errorFindEvent"}
        BY <1>0, <3>3, <4>1, GotoAt, ThrowAt, AnswerAt DEF CallFails
      <4> QED
        BY <4>2, SeenElsewhere DEF SeenPcs
    <3> QED
      BY <1>4, <3>1, <3>2, <3>3 DEF Step
  <2> QED
    BY <2>1 DEF Serial, SeenInv
<1>5. CASE Restart
  BY <1>5, SeenElsewhere DEF Restart, Idle, SeenPcs, SeenInv
<1> QED
  BY <1>1, <1>2, <1>3, <1>4, <1>5 DEF Next, vars, Decide, ExpireCache

LEMMA SeenAlways == ASSUME Serial PROVE Spec => []SeenInv
<1>1. Init => SeenInv
  <2>1. Idle.pc = "idle"
    BY DEF Idle
  <2> QED
    BY <2>1 DEF Init, SeenInv, SeenOK
<1>2. IInv /\ SeenInv /\ [Next]_vars => SeenInv'
  BY SeenNext
<1> QED
  BY <1>1, <1>2, Invariance, PTL DEF Spec

-----------------------------------------------------------------------------
(* Every step is a step of the abstract ledger or none.                    *)

RefundPcs == {"refundFindWallet", "refundSave"}

Owes(d) == {i \in Disbursements : d.id = i /\ d.pc \in RefundPcs}

LedgerMove ==
    \/ UNCHANGED <<verdict, tx, balance, Refunding>>
    \/ \E i \in Ids, v \in Verdicts : Ledger!Decide(i, v)
    \/ \E i \in Late : Ledger!Open(i)
    \/ \E i \in RequestPays : Ledger!Credit(i) \/ Ledger!FailRequest(i)
    \/ \E i \in Disbursements :
         \/ Ledger!PayOut(i) \/ Ledger!FailDisbursement(i) \/ Ledger!Refund(i)
         \/ Ledger!LoseRefund(i) /\ faults' # 0

LEMMA RefundingAt ==
    ASSUME Serial, NEW h \in Handlers
    PROVE  Refunding = Owes(handler[h]) /\ Refunding' = Owes(handler'[h])
<1>1. Refunding = Owes(handler[h])
  BY DEF Serial, Refunding, Owes, RefundPcs
<1>2. Refunding' = Owes(handler'[h])
  BY DEF Serial, Refunding, Owes, RefundPcs
<1> QED
  BY <1>1, <1>2

LEMMA OwesNothing ==
    ASSUME NEW d, d.pc \notin RefundPcs
    PROVE  Owes(d) = {}
BY DEF Owes

LEMMA NoRefund ==
    ASSUME Serial, NEW h \in Handlers,
           handler[h].pc \notin RefundPcs, handler'[h].pc \notin RefundPcs
    PROVE  Refunding = {} /\ Refunding' = {}
<1>1. Owes(handler[h]) = {} /\ Owes(handler'[h]) = {}
  BY OwesNothing
<1> QED
  BY <1>1, RefundingAt

\* Recording an event and answering move nothing: no refund is under way
\* before or after.
LEMMA RecordingMoves ==
    ASSUME Serial, IInv, NEW h \in Handlers, ProcessWebhook(h)
    PROVE  LedgerMove
<1> DEFINE d == handler[h]
<1>0. /\ TypeOK /\ d.status \in Statuses /\ Idle.pc = "idle"
      /\ d.pc # "idle" => d.id \in Ids
  BY DEF IInv, TypeOK, Handler, Idle, HandlerInv, HandlerOK
<1>1. UNCHANGED <<verdict, tx, balance>> /\ d.pc \notin RefundPcs
  BY DEF ProcessWebhook, FindNoEvent, FindHandledEvent, FindProgression,
     CreateEvent, UpdateEvent, MarkProcessed, ErrorFindEvent, ErrorNoEvent,
     ErrorSave, LinkUser, DisbursementOK, DispatchStray, At, RefundPcs
<1>2. handler'[h].pc \notin RefundPcs
  <2>1. CASE FindNoEvent(h) \/ CreateEvent(h) \/ UpdateEvent(h) \/ DisbursementOK(h)
    BY <1>0, <2>1, FindNoEventAt, CreateEventAt, GotoAt, DisbursementOKAt
    DEF UpdateEvent, RefundPcs
  <2>2. CASE FindProgression(h) \/ ErrorFindEvent(h)
    <3>1. d.id \in Ids
      BY <1>0, <2>2 DEF FindProgression, ErrorFindEvent, At
    <3>2. handler'[h].pc \in {"updateEvent", "errorSave"}
      BY <1>0, <2>2, <3>1, FindProgressionAt, ErrorFindEventAt
    <3> QED
      BY <3>2 DEF RefundPcs
  <2>3. CASE \/ FindHandledEvent(h) \/ MarkProcessed(h)
             \/ ErrorNoEvent(h) \/ ErrorSave(h)
    BY <1>0, <2>3, AnswerAt
    DEF FindHandledEvent, MarkProcessed, ErrorNoEvent, ErrorSave, RefundPcs
  <2>4. CASE LinkUser(h)
    BY <1>0, <2>4, LinkUserAt DEF AfterLink, RefundPcs, Statuses, Final, Failure
  <2>5. CASE DispatchStray(h)
    <3>1. handler'[h].pc \in {"markProcessed", "errorFindEvent"}
      BY <1>0, <2>5, GotoAt, ThrowAt DEF DispatchStray
    <3> QED
      BY <3>1 DEF RefundPcs
  <2> QED
    BY <2>1, <2>2, <2>3, <2>4, <2>5 DEF ProcessWebhook
<1>3. UNCHANGED Refunding
  BY <1>1, <1>2, NoRefund
<1> QED
  BY <1>1, <1>3 DEF LedgerMove

LEMMA VerdictMoves ==
    ASSUME Serial, IInv, SeenInv, NEW h \in Handlers, HandleVerdict(h)
    PROVE  LedgerMove
<1> DEFINE d == handler[h]
<1>0. /\ TypeOK /\ d \in Handler /\ d.status \in Statuses
      /\ HandlerOK(d) /\ SeenOK(d) /\ d.next \in Pcs
  BY DEF IInv, TypeOK, Handler, HandlerInv, SeenInv
<1>q. ASSUME UNCHANGED <<verdict, tx, balance>>,
             d.pc \notin RefundPcs, handler'[h].pc \notin RefundPcs
      PROVE  LedgerMove
  <2>1. UNCHANGED Refunding
    BY <1>q, NoRefund
  <2> QED
    BY <1>q, <2>1 DEF LedgerMove
<1>1. CASE FindTx(h)
  <2> DEFINE pc == IF tx[d.id] = "PENDING"
                   THEN IF d.status = "SETTLED" THEN "completeFindTx" ELSE "failFindTx"
                   ELSE IF d.id \in Disbursements THEN "markProcessed"
                   ELSE IF d.status = "SETTLED" THEN "completeRequest" ELSE "findTxAgain"
  <2>1. handler'[h] = [d EXCEPT !.next = Return(d), !.pc = pc]
    BY <1>0, <1>1, BecomesAt DEF FindTx
  <2>2. handler'[h].pc = pc
    <3> HIDE DEF pc
    <3> QED
      BY <1>0, <2>1 DEF Handler
  <2>3. handler'[h].pc \notin RefundPcs
    BY <2>2 DEF RefundPcs
  <2> QED
    BY <1>1, <1>q, <2>3 DEF FindTx, At, RefundPcs
<1>2. CASE FindTxAgain(h)
  <2>1. CASE Throw(h, FALSE)
    BY <1>0, <1>2, <1>q, <2>1, ThrowAt DEF FindTxAgain, At, RefundPcs
  <2>2. CASE Becomes(h, [d EXCEPT !.pc = "failFindTx", !.next = "readCache"])
    <3>1. handler'[h] = [d EXCEPT !.pc = "failFindTx", !.next = "readCache"]
      BY <1>0, <2>2, BecomesAt
    <3>2. handler'[h].pc \notin RefundPcs
      BY <1>0, <3>1 DEF Handler, RefundPcs
    <3> QED
      BY <1>2, <1>q, <3>2 DEF FindTxAgain, At, RefundPcs
  <2> QED
    BY <1>2, <2>1, <2>2 DEF FindTxAgain
<1>3. CASE \/ CompleteRequest(h) \/ DropCache(h) \/ FailRequest(h) \/ ReadCache(h)
           \/ CompleteFindTx(h) \/ FailFindTx(h)
  <2>1. handler'[h].pc \in {"markProcessed", "dropCache", "errorFindEvent",
                            "completeFindWallet", "failSave"}
    BY <1>0, <1>3, GotoAt, ThrowAt
    DEF CompleteRequest, DropCache, FailRequest, ReadCache, CompleteFindTx, FailFindTx
  <2>2. d.pc \notin RefundPcs /\ UNCHANGED <<verdict, tx, balance>>
    BY <1>3 DEF CompleteRequest, DropCache, FailRequest, ReadCache, CompleteFindTx,
       FailFindTx, At, RefundPcs
  <2> QED
    BY <1>q, <2>1, <2>2 DEF RefundPcs
<1>4. CASE CompleteFindWallet(h)
  <2>1. PICK w : w = balance[Owner[d.id]]
    OBVIOUS
  <2>2. Throw(h, TRUE) \/ handler'[h] = [d EXCEPT !.pc = "completeCommit", !.wallet = w]
    BY <1>0, <1>4, <2>1, BecomesAt DEF CompleteFindWallet
  <2>3. handler'[h].pc \in {"errorFindEvent", "completeCommit"}
    BY <1>0, <2>2, ThrowAt DEF Handler
  <2> QED
    BY <1>4, <1>q, <2>3 DEF CompleteFindWallet, At, RefundPcs
<1>5. CASE RefundFindWallet(h)
  <2>1. PICK w : w = balance[Owner[d.id]]
    OBVIOUS
  <2>2. handler'[h] = [d EXCEPT !.pc = "refundSave", !.wallet = w]
    BY <1>0, <1>5, <2>1, BecomesAt DEF RefundFindWallet
  <2>3. handler'[h].pc = "refundSave" /\ handler'[h].id = d.id
    BY <1>0, <2>2 DEF Handler
  <2>4. d.pc = "refundFindWallet" /\ UNCHANGED <<verdict, tx, balance>>
    BY <1>5 DEF RefundFindWallet, At
  <2>5. Owes(handler'[h]) = Owes(d)
    BY <2>3, <2>4 DEF Owes, RefundPcs
  <2> QED
    BY <2>4, <2>5, RefundingAt DEF LedgerMove
\* The refund: the wallet grows and the disbursement is owed no more.
<1>6. CASE RefundSave(h)
  <2>1. d.pc = "refundSave" /\ UNCHANGED <<verdict, tx>> /\ handler'[h].pc = "markProcessed"
    BY <1>0, <1>6, GotoAt DEF RefundSave, At
  <2>2. PICK i \in Disbursements : d.id = i
    BY <1>0, <2>1 DEF HandlerOK
  <2>3. d.wallet = balance[Owner[i]]
    BY <1>0, <2>1, <2>2 DEF SeenOK
  <2>4. balance' = [balance EXCEPT ![Owner[i]] = @ + Amount[i]]
    BY <1>0, <1>6, <2>2, <2>3 DEF RefundSave, TypeOK
  <2>5. Refunding = {i} /\ Refunding' = {}
    <3>1. Owes(d) = {i}
      BY <2>1, <2>2 DEF Owes, RefundPcs
    <3>2. Owes(handler'[h]) = {}
      BY <2>1, OwesNothing DEF RefundPcs
    <3> QED
      BY <3>1, <3>2, RefundingAt
  <2>6. Ledger!Refund(i)
    BY <2>1, <2>4, <2>5 DEF Ledger!Refund, Ledger!Pay
  <2> QED
    BY <2>6 DEF LedgerMove
\* The commit of a completion: a request's wallet grows with it, a
\* disbursement's is large enough.
<1>7. CASE CompleteCommit(h)
  <2>1. d.pc = "completeCommit" /\ UNCHANGED verdict /\ handler'[h].pc = d.next
    BY <1>0, <1>7, GotoAt DEF CompleteCommit, At
  <2>2. PICK i \in Payments : d.id = i
    BY <1>0, <2>1 DEF HandlerOK, Completing
  <2>3. /\ verdict[i] = "SETTLED" /\ tx[i] = "PENDING" /\ d.wallet = balance[Owner[i]]
        /\ i \in Disbursements => d.wallet >= Amount[i]
    BY <1>0, <2>1, <2>2, WriterServesVerdict DEF SeenOK, At
  <2>4. handler'[h].pc \notin RefundPcs
    <3>1. d.status = "SETTLED" /\ d.next = Return(d)
      BY <1>0, <2>1 DEF HandlerOK, Completing
    <3>2. d.next \in {"completeRequest", "markProcessed"}
      BY <3>1 DEF Return, Failure
    <3> QED
      BY <2>1, <3>2 DEF RefundPcs
  <2>5. Refunding' = Refunding
    BY <2>1, <2>4, NoRefund DEF RefundPcs
  <2>6. tx' = [tx EXCEPT ![i] = "COMPLETED"]
    BY <1>7, <2>2 DEF CompleteCommit
  <2>7. CASE i \in RequestPays
    <3>1. balance' = [balance EXCEPT ![Owner[i]] = @ + Amount[i]]
      BY <1>0, <1>7, <2>2, <2>3, <2>7 DEF CompleteCommit, TypeOK
    <3>2. Ledger!Credit(i)
      BY <2>1, <2>3, <2>5, <2>6, <3>1 DEF Ledger!Credit, Ledger!Close, Ledger!Pay
    <3> QED
      BY <2>7, <3>2 DEF LedgerMove
  <2>8. CASE i \in Disbursements
    <3>1. balance' = balance
      BY <1>7, <2>2, <2>8, PaymentAssumption DEF CompleteCommit
    <3>2. Ledger!PayOut(i)
      BY <2>1, <2>3, <2>5, <2>6, <2>8, <3>1 DEF Ledger!PayOut, Ledger!Close
    <3> QED
      BY <2>8, <3>2 DEF LedgerMove
  <2> QED
    BY <2>7, <2>8 DEF Payments
\* The save of a failure: a disbursement is owed its refund from now on.
<1>8. CASE FailSave(h)
  <2>1. /\ d.pc = "failSave" /\ UNCHANGED <<verdict, balance>> /\ handler'[h].pc = d.next
        /\ handler'[h].id = d.id
    BY <1>0, <1>8, GotoAt DEF FailSave, At
  <2>2. PICK i \in Payments : d.id = i
    BY <1>0, <2>1 DEF HandlerOK, Failing
  <2>3. verdict[i] \in {"FAILED", "ERROR"} /\ tx[i] = "PENDING"
    BY <1>0, <2>1, <2>2, WriterServesVerdict DEF SeenOK, At, Failure
  <2>4. tx' = [tx EXCEPT ![i] = "FAILED"]
    BY <1>8, <2>2 DEF FailSave
  <2>5. Refunding = {}
    BY <2>1, RefundingAt, OwesNothing DEF RefundPcs
  <2>6. CASE i \in RequestPays
    <3>1. d.next \in {"failRequest", "readCache"}
      BY <1>0, <2>1, <2>2, <2>6 DEF HandlerOK, Failing, Return, Failure
    <3>2. Refunding' = {}
      BY <2>1, <3>1, RefundingAt, OwesNothing DEF RefundPcs
    <3>3. Ledger!FailRequest(i)
      BY <2>1, <2>3, <2>4, <2>5, <3>2 DEF Ledger!FailRequest, Ledger!Close
    <3> QED
      BY <2>6, <3>3 DEF LedgerMove
  <2>7. CASE i \in Disbursements
    <3>1. d.next = "refundFindWallet"
      BY <1>0, <2>1, <2>2, <2>7, PaymentAssumption DEF HandlerOK, Failing, Return, Failure
    <3>2. Owes(handler'[h]) = {i}
      BY <2>1, <2>2, <2>7, <3>1 DEF Owes, RefundPcs
    <3>3. Refunding' = Refunding \cup {i}
      BY <2>5, <3>2, RefundingAt
    <3>4. Ledger!FailDisbursement(i)
      BY <2>1, <2>3, <2>4, <3>3 DEF Ledger!FailDisbursement, Ledger!Close
    <3> QED
      BY <2>7, <3>4 DEF LedgerMove
  <2> QED
    BY <2>6, <2>7 DEF Payments
<1> QED
  BY <1>1, <1>2, <1>3, <1>4, <1>5, <1>6, <1>7, <1>8 DEF HandleVerdict

\* A fault loses the refund that was under way, if any.
LEMMA FaultMoves ==
    ASSUME Serial, IInv, NEW h \in Handlers, CallFails(h) \/ Restart
    PROVE  LedgerMove
<1> DEFINE d == handler[h]
<1>0. TypeOK /\ HandlerOK(d) /\ Idle.pc = "idle"
  BY DEF IInv, HandlerInv, Idle
<1>1. handler'[h].pc \in {"idle", "markProcessed", "errorFindEvent"}
  BY <1>0, GotoAt, ThrowAt, AnswerAt DEF CallFails, Restart
<1>2. Refunding' = {}
  BY <1>1, RefundingAt, OwesNothing DEF RefundPcs
<1>3. /\ UNCHANGED <<verdict, tx, balance>> /\ MaxFaults > 0 /\ faults' # 0
  <2>1. UNCHANGED <<verdict, tx, balance>> /\ faults < MaxFaults /\ faults' = faults + 1
    BY DEF CallFails, Restart
  <2>2. faults \in Nat /\ MaxFaults \in Nat
    BY <1>0, PaymentAssumption DEF TypeOK
  <2> QED
    BY <2>1, <2>2
<1>4. CASE d.pc \notin RefundPcs
  <2>1. Refunding = {}
    BY <1>4, RefundingAt, OwesNothing
  <2> QED
    BY <1>2, <1>3, <2>1 DEF LedgerMove
<1>5. CASE d.pc \in RefundPcs
  <2>1. PICK i \in Disbursements : d.id = i
    BY <1>0, <1>5 DEF HandlerOK, RefundPcs
  <2>2. Owes(d) = {i}
    BY <1>5, <2>1 DEF Owes
  <2>3. Ledger!LoseRefund(i)
    BY <1>2, <1>3, <2>2, RefundingAt DEF Ledger!LoseRefund
  <2> QED
    BY <1>3, <2>3 DEF LedgerMove
<1> QED
  BY <1>4, <1>5

LEMMA NextMoves ==
    ASSUME Serial, IInv, SeenInv, [Next]_vars
    PROVE  LedgerMove
<1>0. TypeOK
  BY DEF IInv
<1>1. CASE UNCHANGED <<verdict, tx, balance, handler>>
  BY <1>1 DEF LedgerMove, Refunding
<1>2. CASE \E h \in Handlers, i \in Ids, s \in Statuses :
              Deliver(h, i, s) \/ DeliverAgain(h, i, s)
  <2>1. PICK h \in Handlers, i \in Ids, s \in Statuses : Receive(h, i, s)
    BY <1>2 DEF Deliver, DeliverAgain
  <2>2. handler'[h] = [Idle EXCEPT !.pc = "findEvent", !.id = i, !.status = s]
    BY <1>0, <2>1, BecomesAt DEF Receive
  <2>3. handler'[h].pc \notin RefundPcs /\ handler[h].pc \notin RefundPcs
    BY <2>1, <2>2 DEF Idle, RefundPcs, Receive, At
  <2>4. UNCHANGED <<verdict, tx, balance>>
    BY <2>1 DEF Receive
  <2>5. UNCHANGED Refunding
    BY <2>3, NoRefund
  <2> QED
    BY <2>4, <2>5 DEF LedgerMove
<1>3. CASE \E i \in Ids, v \in Verdicts : Decide(i, v)
  <2>1. PICK i \in Ids, v \in Verdicts : Decide(i, v)
    BY <1>3
  <2>2. Refunding' = Refunding
    BY <2>1 DEF Decide, Refunding
  <2>3. Ledger!Decide(i, v)
    BY <2>1, <2>2 DEF Decide, Ledger!Decide
  <2> QED
    BY <2>3 DEF LedgerMove
<1>4. CASE \E i \in Late : OpenTransaction(i)
  <2>1. PICK i \in Late : OpenTransaction(i)
    BY <1>4
  <2>2. Refunding' = Refunding
    BY <2>1 DEF OpenTransaction, Refunding
  <2>3. Ledger!Open(i)
    BY <2>1, <2>2 DEF OpenTransaction, Ledger!Open
  <2> QED
    BY <2>3 DEF LedgerMove
<1>5. CASE \E h \in Handlers : Step(h) \/ CallFails(h)
  BY <1>5, RecordingMoves, VerdictMoves, FaultMoves DEF Step
<1>6. CASE Restart
  BY <1>6, FaultMoves DEF Restart
<1> QED
  BY <1>1, <1>2, <1>3, <1>4, <1>5, <1>6 DEF Next, vars, ExpireCache

\* One delivery at a time, the webhooks of APT Pay settle payments as the
\* abstract ledger does, whatever their order, repetition and faults.
THEOREM LedgerRefined == ASSUME Serial PROVE Spec => ImplementsLedger
<1>1. Init => Ledger!Init
  <2> SUFFICES ASSUME Init PROVE Ledger!Init
    OBVIOUS
  <2>1. Refunding = {}
    BY DEF Init, Refunding, Idle
  <2>2. Ledger!Payments = Payments /\ Ledger!Ids = Ids
    BY DEF Ledger!Ids, Ledger!Payments, Ids, Payments
  <2> QED
    BY <2>1, <2>2 DEF Init, Ledger!Init
<1>2. LedgerMove => [Ledger!Next]_<<verdict, tx, balance, Refunding>>
  <2>1. Ledger!Ids = Ids
    BY DEF Ledger!Ids, Ledger!Payments, Ids, Payments
  <2> QED
    BY <2>1 DEF LedgerMove, Ledger!Next
<1>3. IInv /\ SeenInv /\ [Next]_vars => [Ledger!Next]_<<verdict, tx, balance, Refunding>>
  BY <1>2, NextMoves
<1> QED
  BY <1>1, <1>3, Invariance, SeenAlways, PTL DEF Spec, ImplementsLedger, Ledger!Spec

-----------------------------------------------------------------------------
(* Sums over sets of payments.                                              *)

LEMMA SumIsOfAmounts ==
    ASSUME NEW S
    PROVE  Sum(S) = SumFunctionOnSet(Amount, S)
BY DEF Sum, MapThenSumSet, SumFunctionOnSet, FoldFunctionOnSet

LEMMA SumOfPayments ==
    ASSUME NEW S, IsFiniteSet(S), S \subseteq Payments
    PROVE  /\ Sum(S) \in Nat
           /\ \A i \in Payments \ S : Sum(S \cup {i}) = Sum(S) + Amount[i]
<1>1. \A i \in Payments : Amount[i] \in Nat
  BY PaymentAssumption
<1>2. Sum(S) \in Nat
  BY <1>1, SumFacts, SumIsOfAmounts
<1>3. ASSUME NEW i \in Payments \ S PROVE Sum(S \cup {i}) = Sum(S) + Amount[i]
  <2>1. SumFunctionOnSet(Amount, S \cup {i}) = SumFunctionOnSet(Amount, S) + Amount[i]
    BY <1>1, SumAdds
  <2> QED
    BY <2>1, SumIsOfAmounts
<1> QED
  BY <1>2, <1>3

-----------------------------------------------------------------------------
(* What the wallet of a user should hold beyond its opening balance, and    *)
(* that every step of the ledger moves both alike.                          *)

Paid(u) == Refunded(u) \ Refunding

Due(u) == Sum(Credited(u)) + Sum(Paid(u))

\* The sums follow the sets.
LEMMA DueNext ==
    ASSUME NEW u
    PROVE  Due(u)' = Sum(Credited(u)') + Sum(Paid(u)')
<1>1. /\ Sum(Credited(u))' = Sum(Credited(u)')
      /\ Sum(Paid(u))' = Sum(Paid(u)')
  BY DEF Sum, MapThenSumSet, MapThenFoldSet
<1> QED
  BY <1>1 DEF Due

LEMMA NoPaymentsSum == Sum({}) = 0
BY SumOfNone, SumIsOfAmounts

\* What a step does to the wallet of u and to the payments it should reflect.
Moved(u) ==
    \/ /\ Credited(u)' = Credited(u) /\ Paid(u)' = Paid(u)
       /\ balance'[u] = balance[u]
    \/ \E i \in Payments \ Credited(u) :
          /\ Credited(u)' = Credited(u) \cup {i} /\ Paid(u)' = Paid(u)
          /\ balance'[u] = balance[u] + Amount[i]
    \/ \E i \in Payments \ Paid(u) :
          /\ Credited(u)' = Credited(u) /\ Paid(u)' = Paid(u) \cup {i}
          /\ \/ balance'[u] = balance[u] + Amount[i]
             \/ faults' # 0 /\ balance'[u] = balance[u]

LEMMA OwedIsFailed == IInv => \A i \in Refunding : tx[i] = "FAILED"
BY DEF IInv, HandlerInv, HandlerOK, Refunding

LEMMA MoveSets ==
    ASSUME IInv, LedgerMove, NEW u \in Users
    PROVE  Moved(u)
<1>0. /\ tx \in [Ids -> TxStatus] /\ balance \in [Users -> Nat]
      /\ RequestPays \subseteq Ids /\ Disbursements \subseteq Ids
      /\ RequestPays \subseteq Payments /\ Disbursements \subseteq Payments
      /\ RequestPays \cap Disbursements = {}
      /\ \A i \in Payments : Owner[i] \in Users
      /\ Payments \subseteq Ids
  BY PaymentAssumption DEF IInv, TypeOK, Ids, Payments
<1>q. ASSUME UNCHANGED <<tx, balance, Refunding>> PROVE Moved(u)
  BY <1>q DEF Moved, Credited, Paid, Refunded
<1>1. CASE UNCHANGED <<verdict, tx, balance, Refunding>>
  BY <1>1, <1>q
<1>2. CASE \E i \in Ids, v \in Verdicts : Ledger!Decide(i, v)
  BY <1>2, <1>q DEF Ledger!Decide
<1>3. CASE \E i \in Late : Ledger!Open(i)
  <2>1. PICK i \in Late : Ledger!Open(i)
    BY <1>3
  <2>2. Credited(u)' = Credited(u)
    BY <1>0, <2>1 DEF Ledger!Open, Credited
  <2>3. Paid(u)' = Paid(u)
    BY <1>0, <2>1 DEF Ledger!Open, Paid, Refunded
  <2> QED
    BY <2>1, <2>2, <2>3 DEF Moved, Ledger!Open
<1>4. ASSUME NEW i \in RequestPays, Ledger!Credit(i) PROVE Moved(u)
  <2>1. /\ tx[i] = "PENDING" /\ tx' = [tx EXCEPT ![i] = "COMPLETED"]
        /\ balance' = [balance EXCEPT ![Owner[i]] = @ + Amount[i]]
        /\ Refunding' = Refunding
    BY <1>4 DEF Ledger!Credit, Ledger!Close, Ledger!Pay
  <2>2. Paid(u)' = Paid(u)
    BY <1>0, <2>1 DEF Paid, Refunded
  <2>3. CASE Owner[i] = u
    <3>1. i \in Payments \ Credited(u)
      BY <1>0, <2>1 DEF Credited
    <3>2. Credited(u)' = Credited(u) \cup {i}
      BY <1>0, <2>1, <2>3 DEF Credited
    <3>3. balance'[u] = balance[u] + Amount[i]
      BY <1>0, <2>1, <2>3
    <3> QED
      BY <2>2, <3>1, <3>2, <3>3 DEF Moved
  <2>4. CASE Owner[i] # u
    <3>1. Credited(u)' = Credited(u)
      BY <1>0, <2>1, <2>4 DEF Credited
    <3>2. balance'[u] = balance[u]
      BY <1>0, <2>1, <2>4
    <3> QED
      BY <2>2, <3>1, <3>2 DEF Moved
  <2> QED
    BY <2>3, <2>4
<1>5. ASSUME NEW i \in RequestPays, Ledger!FailRequest(i) PROVE Moved(u)
  <2>1. /\ tx[i] = "PENDING" /\ tx' = [tx EXCEPT ![i] = "FAILED"]
        /\ balance' = balance /\ Refunding' = Refunding
    BY <1>5 DEF Ledger!FailRequest, Ledger!Close
  <2>2. Credited(u)' = Credited(u)
    BY <1>0, <2>1 DEF Credited
  <2>3. Paid(u)' = Paid(u)
    BY <1>0, <2>1 DEF Paid, Refunded
  <2> QED
    BY <2>1, <2>2, <2>3 DEF Moved
<1>6. ASSUME NEW i \in Disbursements, Ledger!PayOut(i) PROVE Moved(u)
  <2>1. /\ tx[i] = "PENDING" /\ tx' = [tx EXCEPT ![i] = "COMPLETED"]
        /\ balance' = balance /\ Refunding' = Refunding
    BY <1>6 DEF Ledger!PayOut, Ledger!Close
  <2>2. Credited(u)' = Credited(u)
    BY <1>0, <2>1 DEF Credited
  <2>3. Paid(u)' = Paid(u)
    BY <1>0, <2>1 DEF Paid, Refunded
  <2> QED
    BY <2>1, <2>2, <2>3 DEF Moved
<1>7. ASSUME NEW i \in Disbursements, Ledger!FailDisbursement(i) PROVE Moved(u)
  <2>1. /\ tx[i] = "PENDING" /\ tx' = [tx EXCEPT ![i] = "FAILED"]
        /\ balance' = balance /\ Refunding' = Refunding \cup {i}
    BY <1>7 DEF Ledger!FailDisbursement, Ledger!Close
  <2>2. Credited(u)' = Credited(u)
    BY <1>0, <2>1 DEF Credited
  <2>3. Paid(u)' = Paid(u)
    BY <1>0, <2>1 DEF Paid, Refunded
  <2> QED
    BY <2>1, <2>2, <2>3 DEF Moved
<1>8. ASSUME NEW i \in Disbursements,
             Ledger!Refund(i) \/ (Ledger!LoseRefund(i) /\ faults' # 0)
      PROVE  Moved(u)
  <2>1. /\ i \in Refunding /\ tx' = tx /\ Refunding' = Refunding \ {i}
        /\ \/ balance' = [balance EXCEPT ![Owner[i]] = @ + Amount[i]]
           \/ faults' # 0 /\ balance' = balance
    BY <1>8 DEF Ledger!Refund, Ledger!LoseRefund, Ledger!Pay
  <2>2. tx[i] = "FAILED"
    BY <2>1, OwedIsFailed
  <2>3. Credited(u)' = Credited(u)
    BY <2>1 DEF Credited
  <2>4. CASE Owner[i] = u
    <3>1. i \in Payments \ Paid(u)
      BY <1>0, <2>1 DEF Paid
    <3>2. Paid(u)' = Paid(u) \cup {i}
      BY <2>1, <2>2, <2>4 DEF Paid, Refunded
    <3>3. \/ balance'[u] = balance[u] + Amount[i]
          \/ faults' # 0 /\ balance'[u] = balance[u]
      BY <1>0, <2>1, <2>4
    <3> QED
      BY <2>3, <3>1, <3>2, <3>3 DEF Moved
  <2>5. CASE Owner[i] # u
    <3>1. Paid(u)' = Paid(u)
      BY <2>1, <2>5 DEF Paid, Refunded
    <3>2. balance'[u] = balance[u]
      BY <1>0, <2>1, <2>5
    <3> QED
      BY <2>3, <3>1, <3>2 DEF Moved
  <2> QED
    BY <2>4, <2>5
<1> QED
  BY <1>1, <1>2, <1>3, <1>4, <1>5, <1>6, <1>7, <1>8 DEF LedgerMove

LEMMA FaultsRemain ==
    ASSUME faults \in Nat, [Next]_vars, faults' = 0
    PROVE  faults = 0
<1>1. CASE UNCHANGED faults
  BY <1>1
<1>2. CASE faults' = faults + 1
  BY <1>2
<1>3. faults' = faults \/ faults' = faults + 1
  BY DEF Next, vars, Step, ProcessWebhook, HandleVerdict, FindNoEvent,
     FindHandledEvent, FindProgression, CreateEvent, UpdateEvent, MarkProcessed,
     ErrorFindEvent, ErrorNoEvent, ErrorSave, LinkUser, DisbursementOK,
     DispatchStray, FindTx, FindTxAgain, CompleteRequest, DropCache,
     FailRequest, ReadCache, RefundFindWallet, RefundSave, CompleteFindTx,
     CompleteFindWallet, CompleteCommit, FailFindTx, FailSave, CallFails,
     Restart, Decide, Deliver, DeliverAgain, Receive, OpenTransaction,
     ExpireCache
<1> QED
  BY <1>1, <1>2, <1>3

\* The wallet holds at most what is due, and exactly that until a fault; only
\* finitely many payments are ever closed, so that the sums have a value.
WalletOK(u) ==
    /\ IsFiniteSet(Credited(u)) /\ IsFiniteSet(Paid(u))
    /\ balance[u] <= Opening[u] + Due(u)
    /\ faults = 0 => balance[u] = Opening[u] + Due(u)

WalletInv == \A u \in Users : WalletOK(u)

LEMMA ClosedArePayments ==
    ASSUME NEW u
    PROVE  /\ Credited(u) \subseteq Payments /\ Paid(u) \subseteq Payments
           /\ Refunded(u) \subseteq Payments
BY DEF Credited, Refunded, Paid, Payments

LEMMA WalletInit == Init => WalletInv
<1> SUFFICES ASSUME Init, NEW u \in Users PROVE WalletOK(u)
  BY DEF WalletInv
<1>1. Credited(u) = {} /\ Paid(u) = {}
  BY DEF Init, Credited, Paid, Refunded, Ids, Payments
<1>2. Due(u) = 0
  BY <1>1, NoPaymentsSum DEF Due
<1>3. balance[u] = Opening[u] /\ Opening[u] \in Nat
  BY PaymentAssumption DEF Init
<1> QED
  BY <1>1, <1>2, <1>3, FS_EmptySet DEF WalletOK

LEMMA WalletNext ==
    ASSUME Serial, IInv, SeenInv, WalletInv, [Next]_vars
    PROVE  WalletInv'
<1> SUFFICES ASSUME NEW u \in Users PROVE WalletOK(u)'
  BY DEF WalletInv
<1>1. /\ IsFiniteSet(Credited(u)) /\ IsFiniteSet(Paid(u))
      /\ balance[u] <= Opening[u] + Due(u)
      /\ faults = 0 => balance[u] = Opening[u] + Due(u)
  BY DEF WalletInv, WalletOK
<1>2. /\ balance[u] \in Nat /\ faults \in Nat /\ Opening[u] \in Nat
      /\ \A i \in Payments : Amount[i] \in Nat
  BY PaymentAssumption DEF IInv, TypeOK
<1> DEFINE C == Sum(Credited(u))
           P == Sum(Paid(u))
           C1 == Sum(Credited(u)')
           P1 == Sum(Paid(u)')
<1>3. /\ C \in Nat /\ P \in Nat
      /\ \A i \in Payments \ Credited(u) : Sum(Credited(u) \cup {i}) = C + Amount[i]
      /\ \A i \in Payments \ Paid(u) : Sum(Paid(u) \cup {i}) = P + Amount[i]
  BY <1>1, SumOfPayments, ClosedArePayments
<1>4. Due(u) = C + P /\ Due(u)' = C1 + P1
  BY DueNext DEF Due
<1>5. Moved(u)
  BY NextMoves, MoveSets
<1>6. faults' = 0 => faults = 0
  BY <1>2, FaultsRemain
<1>g. ASSUME IsFiniteSet(Credited(u)') /\ IsFiniteSet(Paid(u)'),
             balance'[u] <= Opening[u] + Due(u)',
             faults' = 0 => balance'[u] = Opening[u] + Due(u)'
      PROVE  WalletOK(u)'
  BY <1>g DEF WalletOK
<1>7. CASE /\ Credited(u)' = Credited(u) /\ Paid(u)' = Paid(u)
           /\ balance'[u] = balance[u]
  <2>1. C1 = C /\ P1 = P
    BY <1>7
  <2> HIDE DEF C, P, C1, P1
  <2> QED
    BY <1>1, <1>4, <1>6, <1>7, <1>g, <2>1
<1>8. ASSUME NEW i \in Payments \ Credited(u),
             Credited(u)' = Credited(u) \cup {i}, Paid(u)' = Paid(u),
             balance'[u] = balance[u] + Amount[i]
      PROVE  WalletOK(u)'
  <2>1. C1 = C + Amount[i] /\ P1 = P
    BY <1>3, <1>8
  <2>2. IsFiniteSet(Credited(u)') /\ IsFiniteSet(Paid(u)')
    BY <1>1, <1>8, FS_AddElement
  <2> HIDE DEF C, P, C1, P1
  <2>3. /\ balance'[u] <= Opening[u] + Due(u)'
        /\ faults' = 0 => balance'[u] = Opening[u] + Due(u)'
    BY <1>1, <1>2, <1>3, <1>4, <1>6, <1>8, <2>1
  <2> QED
    BY <1>g, <2>2, <2>3
<1>9. ASSUME NEW i \in Payments \ Paid(u),
             Credited(u)' = Credited(u), Paid(u)' = Paid(u) \cup {i},
             \/ balance'[u] = balance[u] + Amount[i]
             \/ faults' # 0 /\ balance'[u] = balance[u]
      PROVE  WalletOK(u)'
  <2>1. C1 = C /\ P1 = P + Amount[i]
    BY <1>3, <1>9
  <2>2. IsFiniteSet(Credited(u)') /\ IsFiniteSet(Paid(u)')
    BY <1>1, <1>9, FS_AddElement
  <2> HIDE DEF C, P, C1, P1
  <2>3. /\ balance'[u] <= Opening[u] + Due(u)'
        /\ faults' = 0 => balance'[u] = Opening[u] + Due(u)'
    BY <1>1, <1>2, <1>3, <1>4, <1>6, <1>9, <2>1
  <2> QED
    BY <1>g, <2>2, <2>3
<1> QED
  BY <1>5, <1>7, <1>8, <1>9 DEF Moved

LEMMA WalletAlways == ASSUME Serial PROVE Spec => []WalletInv
<1>1. IInv /\ SeenInv /\ WalletInv /\ [Next]_vars => WalletInv'
  BY WalletNext
<1> QED
  BY <1>1, WalletInit, Invariance, SeenAlways, PTL DEF Spec

\* One delivery at a time: until a call fails or the process restarts, every
\* wallet is its opening balance, the requests completed and the disbursements
\* failed, but for the refund under way.
THEOREM LedgerIsExact == ASSUME Serial PROVE Spec => []LedgerExact
<1>1. WalletInv /\ IInv => LedgerExact
  <2> SUFFICES ASSUME WalletInv, IInv, faults = 0, NEW u \in Users
               PROVE  balance[u] = Opening[u] + Sum(Credited(u))
                                     + Sum(Refunded(u) \ Refunding)
    BY DEF LedgerExact
  <2>1. balance[u] = Opening[u] + (Sum(Credited(u)) + Sum(Paid(u)))
    BY DEF WalletInv, WalletOK, Due
  <2>2. Sum(Credited(u)) \in Nat /\ Sum(Paid(u)) \in Nat /\ Opening[u] \in Nat
    BY SumOfPayments, ClosedArePayments, PaymentAssumption DEF WalletInv, WalletOK
  <2> DEFINE C == Sum(Credited(u))
             P == Sum(Paid(u))
  <2>3. balance[u] = Opening[u] + C + P
    <3> HIDE DEF C, P
    <3> QED
      BY <2>1, <2>2 DEF C, P
  <2> QED
    BY <2>3 DEF Paid
<1> QED
  BY <1>1, WalletAlways, Invariance, PTL

\* One delivery at a time: whatever fails and is retried, no wallet holds more
\* than its opening balance and the payments closed, each paid once.
THEOREM NobodyOverpaid == ASSUME Serial PROVE Spec => []NeverOverpaid
<1>1. WalletInv /\ IInv => NeverOverpaid
  <2> SUFFICES ASSUME WalletInv, IInv, NEW u \in Users
               PROVE  balance[u] <= Opening[u] + Sum(Credited(u)) + Sum(Refunded(u))
    BY DEF NeverOverpaid
  <2> DEFINE C == Sum(Credited(u))
             P == Sum(Paid(u))
             R == Sum(Refunded(u))
  <2>1. balance[u] <= Opening[u] + (C + P)
    BY DEF WalletInv, WalletOK, Due
  <2>2. C \in Nat /\ P \in Nat /\ Opening[u] \in Nat
    BY SumOfPayments, ClosedArePayments, PaymentAssumption DEF WalletInv, WalletOK
  <2>3. R \in Nat /\ P <= R
    <3>1. CASE Refunded(u) = Paid(u)
      BY <2>2, <3>1
    <3>2. CASE Refunded(u) # Paid(u)
      <4>1. PICK i \in Refunded(u) : i \in Refunding
        BY <3>2 DEF Paid
      <4>2. \A j \in Refunding : j = i
        BY <4>1 DEF Refunding, Serial
      <4>3. i \in Payments \ Paid(u) /\ Refunded(u) = Paid(u) \cup {i}
        BY <4>1, <4>2, ClosedArePayments DEF Paid
      <4>4. R = P + Amount[i] /\ Amount[i] \in Nat
        BY <4>3, SumOfPayments, ClosedArePayments, PaymentAssumption
        DEF WalletInv, WalletOK
      <4> HIDE DEF R, P
      <4> QED
        BY <2>2, <4>4
    <3> QED
      BY <3>1, <3>2
  <2>4. balance[u] <= Opening[u] + C + R
    <3>1. balance[u] \in Int
      BY DEF IInv, TypeOK
    <3> HIDE DEF C, P, R
    <3> QED
      BY <2>1, <2>2, <2>3, <3>1
  <2> QED
    BY <2>4
<1> QED
  BY <1>1, WalletAlways, Invariance, PTL

-----------------------------------------------------------------------------
(* Prompt payments, one delivery at a time and no fault: their one event    *)
(* row is new while nothing has been done, and from then on either the      *)
(* payment is done or the handler that took the verdict is still carrying   *)
(* it out.                                                                 *)

Relevant(i) == i \in RequestPays \/ Failure(verdict[i])

Untouched(i) ==
    /\ tx[i] \in {"ABSENT", "PENDING"}
    /\ verdict[i] # "OK" => tx[i] = "PENDING"
    /\ i \in RequestPays => request[i] = "pending"

Done(i) ==
    /\ tx[i] \in {"COMPLETED", "FAILED"}
    /\ i \in RequestPays => /\ request[i] = "completed" <=> tx[i] = "COMPLETED"
                            /\ request[i] = "failed" <=> tx[i] = "FAILED"

New(i) == events[i] = <<>> \/ events[i][1].status = "OK"

Carrying == {"dispatch", "findTx", "completeRequest", "dropCache", "failRequest",
             "refundFindWallet", "refundSave"} \cup Completing \cup Failing

RowOK(i) ==
    /\ Len(events[i]) <= 1
    /\ events[i] = <<>> => verdict[i] = "OK" /\ acked[i] = {}
    /\ events[i] # <<>> => events[i][1].status \in {"OK", verdict[i]}
    /\ New(i) => Untouched(i) /\ acked[i] \subseteq {"OK"}

Carried(i) == \E h \in Handlers : handler[h].id = i /\ handler[h].pc \in Carrying

PromptOK(i) == RowOK(i) /\ (~New(i) /\ Relevant(i) => Done(i) \/ Carried(i))

\* The row of the payment shows the status the handler works for.
HoldsRow(d) ==
    /\ Len(events[d.id]) = 1 /\ events[d.id][1].status = d.status
    /\ d.row = 1 /\ d.event.status = d.status

DealsWith(d) ==
    /\ d.pc \notin {"findTxAgain", "readCache"}
    /\ d.pc = "createEvent" =>
          events[d.id] = <<>> /\ d.status = "OK" /\ d.event.status = "OK"
    /\ d.pc = "updateEvent" =>
          /\ Len(events[d.id]) = 1 /\ events[d.id][1].status = "OK" /\ d.row = 1
          /\ d.status # "OK" /\ d.event.status = d.status /\ d.previous = "OK"
    /\ d.pc \in Carrying \cup {"markProcessed"} => HoldsRow(d)
    /\ d.pc = "dispatch" /\ d.status # "OK" => d.previous = "OK" /\ Untouched(d.id)
    /\ d.pc \in {"findTx"} \cup Completing \cup Failing =>
          d.status # "OK" /\ Untouched(d.id)
    /\ d.pc \in Failing => d.next = Return(d)
    /\ d.pc = "completeRequest" => tx[d.id] = "COMPLETED" /\ request[d.id] = "pending"
    /\ d.pc = "dropCache" => Done(d.id)
    /\ d.pc = "failRequest" => tx[d.id] = "FAILED" /\ request[d.id] = "pending"
    /\ d.pc = "markProcessed" => d.status = "OK" \/ ~Relevant(d.id) \/ Done(d.id)
    /\ d.pc \in {"errorFindEvent", "errorSave"} =>
          /\ Len(events[d.id]) = 1 /\ events[d.id][1].status = d.status
          /\ d.status # "OK" /\ ~Relevant(d.id)
    /\ d.pc = "errorSave" => d.row = 1 /\ d.event.status = d.status

PromptInv ==
    faults = 0 =>
       /\ \A i \in Prompt : PromptOK(i)
       /\ \A h \in Handlers :
            handler[h].pc # "idle" /\ handler[h].id \in Prompt => DealsWith(handler[h])

LEMMA ThrowKeeps ==
    ASSUME TypeOK, NEW h \in Handlers, NEW b, Throw(h, b)
    PROVE  /\ handler'[h].row = handler[h].row
           /\ handler'[h].event = handler[h].event
<1>1. handler[h] \in Handler
  BY DEF TypeOK
<1>2. handler'[h] = [handler[h] EXCEPT !.pc = "errorFindEvent", !.badRequest = b]
  BY BecomesAt DEF Throw
<1> QED
  BY <1>1, <1>2 DEF Handler

LEMMA FindTxAt ==
    ASSUME TypeOK, NEW h \in Handlers, FindTx(h)
    PROVE  LET d == handler[h] IN
           /\ handler'[h].id = d.id /\ handler'[h].status = d.status
           /\ handler'[h].row = d.row /\ handler'[h].event = d.event
           /\ handler'[h].next = Return(d)
           /\ tx[d.id] = "PENDING" =>
                 handler'[h].pc = IF d.status = "SETTLED" THEN "completeFindTx"
                                  ELSE "failFindTx"
<1> DEFINE d == handler[h]
<1>1. PICK n, p : /\ n = Return(d)
                  /\ p = IF tx[d.id] = "PENDING"
                         THEN IF d.status = "SETTLED" THEN "completeFindTx" ELSE "failFindTx"
                         ELSE IF d.id \in Disbursements THEN "markProcessed"
                         ELSE IF d.status = "SETTLED" THEN "completeRequest" ELSE "findTxAgain"
  OBVIOUS
<1>2. handler'[h] = [d EXCEPT !.next = n, !.pc = p]
  BY <1>1, BecomesAt DEF FindTx
<1>3. d \in Handler
  BY DEF TypeOK
<1>4. /\ handler'[h].pc = p /\ handler'[h].next = n
      /\ handler'[h].id = d.id /\ handler'[h].status = d.status
      /\ handler'[h].row = d.row /\ handler'[h].event = d.event
  BY <1>2, <1>3 DEF Handler
<1> QED
  BY <1>1, <1>4

\* The two reads of a wallet.
LEMMA FindWalletAt ==
    ASSUME TypeOK, NEW h \in Handlers, NEW p, NEW w,
           Becomes(h, [handler[h] EXCEPT !.pc = p, !.wallet = w])
    PROVE  LET d == handler[h] IN
           /\ handler'[h].pc = p /\ handler'[h].next = d.next
           /\ handler'[h].id = d.id /\ handler'[h].status = d.status
           /\ handler'[h].row = d.row /\ handler'[h].event = d.event
<1>1. handler'[h] = [handler[h] EXCEPT !.pc = p, !.wallet = w]
  BY BecomesAt
<1>2. handler[h] \in Handler
  BY DEF TypeOK
<1> QED
  BY <1>1, <1>2 DEF Handler

LEMMA VerdictKeeps ==
    ASSUME TypeOK, NEW h \in Handlers, HandleVerdict(h), ~FindTxAgain(h)
    PROVE  /\ UNCHANGED <<events, acked, verdict>>
           /\ handler'[h].id = handler[h].id /\ handler'[h].status = handler[h].status
           /\ handler'[h].row = handler[h].row /\ handler'[h].event = handler[h].event
<1>1. UNCHANGED <<events, acked, verdict>>
  BY DEF HandleVerdict, FindTx, FindTxAgain, CompleteRequest, DropCache,
     FailRequest, ReadCache, RefundFindWallet, RefundSave, CompleteFindTx,
     CompleteFindWallet, CompleteCommit, FailFindTx, FailSave
<1>2. CASE FindTx(h)
  BY <1>1, <1>2, FindTxAt
<1>3. CASE \/ CompleteRequest(h) \/ DropCache(h) \/ FailRequest(h) \/ ReadCache(h)
           \/ RefundSave(h) \/ CompleteFindTx(h) \/ CompleteCommit(h)
           \/ FailFindTx(h) \/ FailSave(h)
  BY <1>1, <1>3, GotoAt, GotoKeeps, ThrowAt, ThrowKeeps
  DEF CompleteRequest, DropCache, FailRequest, ReadCache, RefundSave,
      CompleteFindTx, CompleteCommit, FailFindTx, FailSave
<1>4. CASE RefundFindWallet(h) \/ CompleteFindWallet(h)
  BY <1>1, <1>4, FindWalletAt, ThrowAt, ThrowKeeps
  DEF RefundFindWallet, CompleteFindWallet
<1> QED
  BY <1>2, <1>3, <1>4 DEF HandleVerdict

\* A handler past the dispatch works for the verdict its payment's row shows.
LEMMA WorksForVerdict ==
    ASSUME IInv, NEW h \in Handlers, NEW i \in Prompt, handler[h].id = i,
           PromptOK(i), DealsWith(handler[h]), HandleVerdict(h)
    PROVE  /\ ~FindTxAgain(h) /\ ~ReadCache(h)
           /\ HoldsRow(handler[h]) /\ ~New(i)
           /\ handler[h].status = verdict[i] /\ verdict[i] # "OK"
<1> DEFINE d == handler[h]
<1>0. HandlerOK(d) /\ i \in Payments
  BY PaymentAssumption DEF IInv, HandlerInv
<1>1. d.pc \in {"findTx", "completeRequest", "dropCache", "failRequest",
                "refundFindWallet", "refundSave"} \cup Completing \cup Failing
  BY DEF HandleVerdict, FindTx, FindTxAgain, CompleteRequest, DropCache,
     FailRequest, ReadCache, RefundFindWallet, RefundSave, CompleteFindTx,
     CompleteFindWallet, CompleteCommit, FailFindTx, FailSave, At,
     DealsWith, Completing, Failing
<1>2. ~FindTxAgain(h) /\ ~ReadCache(h)
  BY DEF DealsWith, FindTxAgain, ReadCache, At
<1>3. HoldsRow(d)
  BY <1>1 DEF DealsWith, Carrying
<1>4. events[i] # <<>> /\ events[i][1].status = d.status
  BY <1>3 DEF HoldsRow
<1>5. ~New(i)
  <2>1. CASE d.pc \in {"findTx"} \cup Completing \cup Failing
    BY <1>4, <2>1 DEF DealsWith, New
  <2>2. CASE d.pc = "completeRequest"
    BY <1>0, <1>4, <2>2 DEF HandlerOK, New
  <2>3. CASE d.pc \in {"dropCache", "failRequest", "refundFindWallet", "refundSave"}
    <3>1. tx[i] \in {"COMPLETED", "FAILED"}
      BY <1>0, <2>3 DEF HandlerOK, DealsWith, Done
    <3> QED
      BY <3>1 DEF PromptOK, RowOK, Untouched
  <2> QED
    BY <1>1, <2>1, <2>2, <2>3
<1>6. d.status = verdict[i] /\ verdict[i] # "OK"
  BY <1>4, <1>5 DEF New, PromptOK, RowOK
<1> QED
  BY <1>2, <1>3, <1>5, <1>6

\* Working for a verdict leads to what it asks for.
LEMMA VerdictDeals ==
    ASSUME IInv, NEW h \in Handlers, NEW i \in Prompt, handler[h].id = i,
           PromptOK(i), DealsWith(handler[h]), HandleVerdict(h)
    PROVE  PromptOK(i)' /\ DealsWith(handler[h])'
<1> DEFINE d == handler[h]
<1>0. /\ TypeOK /\ d \in Handler /\ HandlerOK(d)
      /\ i \in RequestPays \/ i \in Disbursements
      /\ ~(i \in RequestPays /\ i \in Disbursements)
      /\ i \in Ids /\ tx[i] \in TxStatus /\ verdict[i] \in Statuses
  BY PaymentAssumption DEF IInv, HandlerInv, TypeOK, Payments, Ids
<1>1. /\ ~FindTxAgain(h) /\ ~ReadCache(h) /\ HoldsRow(d) /\ ~New(i)
      /\ d.status = verdict[i] /\ verdict[i] # "OK"
  BY WorksForVerdict
<1>2. /\ events' = events /\ acked' = acked /\ verdict' = verdict
      /\ handler'[h].id = i /\ handler'[h].status = d.status
      /\ handler'[h].row = d.row /\ handler'[h].event = d.event
  BY <1>0, <1>1, VerdictKeeps
<1>3. HoldsRow(handler[h])' /\ ~New(i)'
  BY <1>1, <1>2 DEF HoldsRow, New
<1>4. RowOK(i)'
  BY <1>2, <1>3 DEF PromptOK, RowOK
<1>5. Relevant(i)' <=> Relevant(i)
  BY <1>2 DEF Relevant
<1>q. ASSUME DealsWith(handler[h])',
             handler'[h].pc \in Carrying \cup {"markProcessed", "errorFindEvent"}
      PROVE  PromptOK(i)' /\ DealsWith(handler[h])'
  <2>1. CASE handler'[h].pc \in Carrying
    BY <1>2, <1>4, <1>q, <2>1 DEF PromptOK, Carried
  <2>2. CASE handler'[h].pc \in {"markProcessed", "errorFindEvent"}
    <3>1. ~Relevant(i)' \/ Done(i)'
      BY <1>1, <1>2, <1>q, <2>2 DEF DealsWith
    <3> QED
      BY <1>4, <1>q, <3>1 DEF PromptOK
  <2> QED
    BY <1>q, <2>1, <2>2
<1>u. ASSUME Untouched(i)', handler'[h].pc \in Completing
      PROVE  PromptOK(i)' /\ DealsWith(handler[h])'
  <2>1. DealsWith(handler[h])'
    BY <1>1, <1>2, <1>3, <1>u DEF DealsWith, Carrying, Completing, Failing
  <2> QED
    BY <1>q, <1>u, <2>1 DEF Carrying
<1>v. ASSUME Untouched(i)', handler'[h].pc \in Failing,
             handler'[h].next = Return(handler'[h])
      PROVE  PromptOK(i)' /\ DealsWith(handler[h])'
  <2>1. DealsWith(handler[h])'
    BY <1>1, <1>2, <1>3, <1>v DEF DealsWith, Carrying, Completing, Failing
  <2> QED
    BY <1>q, <1>v, <2>1 DEF Carrying
<1>w. ASSUME handler'[h].pc \in {"completeRequest", "dropCache", "failRequest",
                                 "refundFindWallet", "refundSave", "markProcessed"},
             handler'[h].pc = "completeRequest" =>
                tx'[i] = "COMPLETED" /\ request'[i] = "pending",
             handler'[h].pc = "failRequest" =>
                tx'[i] = "FAILED" /\ request'[i] = "pending",
             handler'[h].pc \in {"dropCache", "markProcessed"} =>
                Done(i)' \/ (handler'[h].pc = "markProcessed" /\ ~Relevant(i))
      PROVE  PromptOK(i)' /\ DealsWith(handler[h])'
  <2>1. DealsWith(handler[h])'
    BY <1>1, <1>2, <1>3, <1>5, <1>w DEF DealsWith, Carrying, Completing, Failing
  <2> QED
    BY <1>q, <1>w, <2>1 DEF Carrying
<1>x. ASSUME handler'[h].pc = "errorFindEvent", ~Relevant(i)
      PROVE  PromptOK(i)' /\ DealsWith(handler[h])'
  <2>1. DealsWith(handler[h])'
    BY <1>1, <1>2, <1>3, <1>5, <1>x DEF DealsWith, Carrying, Completing, Failing, HoldsRow
  <2> QED
    BY <1>q, <1>x, <2>1
<1>6. d.pc \in {"findTx"} \cup Completing \cup Failing => Untouched(i) /\ tx[i] = "PENDING"
  BY <1>1 DEF DealsWith, Untouched
<1>7. CASE FindTx(h)
  <2>1. Untouched(i) /\ tx[i] = "PENDING" /\ UNCHANGED <<tx, request>>
    BY <1>6, <1>7 DEF FindTx, At
  <2>2. Untouched(i)'
    BY <1>2, <2>1 DEF Untouched
  <2>3. /\ handler'[h].next = Return(d)
        /\ handler'[h].pc = IF d.status = "SETTLED" THEN "completeFindTx" ELSE "failFindTx"
    BY <1>0, <1>7, <2>1, FindTxAt
  <2>4. handler'[h].next = Return(handler'[h])
    BY <1>2, <2>3 DEF Return
  <2> QED
    BY <1>u, <1>v, <2>2, <2>3, <2>4 DEF Completing, Failing
<1>8. CASE CompleteFindTx(h) \/ FailFindTx(h)
  <2>1. Untouched(i) /\ tx[i] = "PENDING" /\ UNCHANGED <<tx, request>>
    BY <1>6, <1>8 DEF CompleteFindTx, FailFindTx, At, Completing, Failing
  <2>2. Untouched(i)'
    BY <1>2, <2>1 DEF Untouched
  <2>3. CASE CompleteFindTx(h)
    BY <1>0, <1>u, <2>1, <2>2, <2>3, GotoAt DEF CompleteFindTx, Completing
  <2>4. CASE FailFindTx(h)
    <3>1. handler'[h].pc = "failSave" /\ handler'[h].next = d.next
      BY <1>0, <2>1, <2>4, GotoAt DEF FailFindTx
    <3>2. d.next = Return(d)
      BY <2>4 DEF FailFindTx, At, DealsWith, Failing
    <3>3. handler'[h].next = Return(handler'[h])
      BY <1>2, <3>1, <3>2 DEF Return
    <3> QED
      BY <1>v, <2>2, <3>1, <3>3 DEF Failing
  <2> QED
    BY <1>8, <2>3, <2>4
<1>9. CASE CompleteFindWallet(h)
  <2>0. d.status = "SETTLED" /\ Untouched(i) /\ UNCHANGED <<tx, request>>
    BY <1>0, <1>6, <1>9 DEF CompleteFindWallet, At, HandlerOK, Completing
  <2>1. CASE Throw(h, TRUE) /\ i \in Disbursements
    <3>1. ~Relevant(i)
      BY <1>0, <1>1, <2>0, <2>1 DEF Relevant, Failure
    <3> QED
      BY <1>0, <1>x, <2>1, <3>1, ThrowAt
  <2>2. CASE ~(Throw(h, TRUE) /\ i \in Disbursements)
    <3>1. handler'[h].pc = "completeCommit"
      BY <1>0, <1>9, <2>2, FindWalletAt DEF CompleteFindWallet
    <3>2. Untouched(i)'
      BY <1>2, <2>0 DEF Untouched
    <3> QED
      BY <1>u, <3>1, <3>2 DEF Completing
  <2> QED
    BY <2>1, <2>2
<1>10. CASE CompleteCommit(h)
  <2>1. /\ d.status = "SETTLED" /\ Untouched(i) /\ request' = request
        /\ handler'[h].pc = Return(d) /\ tx'[i] = "COMPLETED"
    BY <1>0, <1>6, <1>10, GotoAt DEF CompleteCommit, At, HandlerOK, Completing, TypeOK
  <2>2. CASE i \in RequestPays
    BY <1>w, <2>1, <2>2 DEF Return, Untouched, Failure
  <2>3. CASE i \in Disbursements
    <3>1. handler'[h].pc = "markProcessed" /\ ~Relevant(i)
      BY <1>0, <1>1, <2>1, <2>3 DEF Return, Relevant, Failure
    <3> QED
      BY <1>w, <3>1
  <2> QED
    BY <1>0, <2>2, <2>3
<1>11. CASE FailSave(h)
  <2>1. /\ Failure(d.status) /\ d.next = Return(d) /\ Untouched(i)
        /\ request' = request /\ handler'[h].pc = Return(d) /\ tx'[i] = "FAILED"
    BY <1>0, <1>6, <1>11, GotoAt DEF FailSave, At, HandlerOK, Failing, TypeOK, DealsWith
  <2>2. CASE i \in RequestPays
    BY <1>w, <2>1, <2>2 DEF Return, Untouched, Failure
  <2>3. CASE i \in Disbursements
    BY <1>0, <1>w, <2>1, <2>3 DEF Return, Failure
  <2> QED
    BY <1>0, <2>2, <2>3
<1>12. CASE CompleteRequest(h)
  <2>1. /\ tx[i] = "COMPLETED" /\ tx' = tx
        /\ handler'[h].pc \in {"dropCache", "markProcessed"}
    BY <1>0, <1>12, GotoAt DEF CompleteRequest, At, DealsWith
  <2>2. i \in RequestPays => request'[i] = "completed"
    BY <1>0, <1>12 DEF CompleteRequest, TypeOK
  <2>3. Done(i)'
    BY <2>1, <2>2 DEF Done
  <2> QED
    BY <1>w, <2>1, <2>3
<1>13. CASE FailRequest(h)
  <2>1. tx[i] = "FAILED" /\ tx' = tx /\ handler'[h].pc = "markProcessed"
    BY <1>0, <1>13, GotoAt DEF FailRequest, At, DealsWith
  <2>2. i \in RequestPays => request'[i] = "failed"
    BY <1>0, <1>13 DEF FailRequest, TypeOK
  <2>3. Done(i)'
    BY <2>1, <2>2 DEF Done
  <2> QED
    BY <1>w, <2>1, <2>3
<1>14. CASE DropCache(h)
  <2>1. Done(i) /\ UNCHANGED <<tx, request>> /\ handler'[h].pc = "markProcessed"
    BY <1>0, <1>14, GotoAt DEF DropCache, At, DealsWith
  <2>2. Done(i)'
    BY <2>1 DEF Done
  <2> QED
    BY <1>w, <2>1, <2>2
<1>15. CASE RefundFindWallet(h)
  <2>1. handler'[h].pc = "refundSave"
    BY <1>0, <1>15, FindWalletAt DEF RefundFindWallet
  <2> QED
    BY <1>w, <2>1
<1>16. CASE RefundSave(h)
  <2>1. /\ handler'[h].pc = "markProcessed" /\ tx' = tx
        /\ tx[i] = "FAILED" /\ i \in Disbursements
    BY <1>0, <1>16, GotoAt DEF RefundSave, At, HandlerOK
  <2>2. Done(i)'
    BY <1>0, <2>1 DEF Done
  <2> QED
    BY <1>w, <2>1, <2>2
<1> QED
  BY <1>1, <1>7, <1>8, <1>9, <1>10, <1>11, <1>12, <1>13, <1>14, <1>15, <1>16
  DEF HandleVerdict

LEMMA OnlyOne ==
    ASSUME NEW n \in Nat, n <= 1, NEW k \in 1..n
    PROVE  k = 1 /\ n = 1
OBVIOUS

LEMMA SaveRowOne ==
    ASSUME TypeOK, NEW h \in Handlers, NEW e \in EventRow, SaveEvent(h, e),
           handler[h].id \in Ids, handler[h].row = 1, Len(events[handler[h].id]) = 1
    PROVE  /\ Len(events'[handler[h].id]) = 1 /\ events'[handler[h].id] # <<>>
           /\ events'[handler[h].id][1] = e
<1> DEFINE i == handler[h].id
<1>1. PICK t : t = [events[i] EXCEPT ![1] = e]
  OBVIOUS
<1>2. events'[i] = t
  BY <1>1 DEF TypeOK, SaveEvent
<1>3. events[i] \in Seq(EventRow)
  BY DEF TypeOK
<1>4. t \in Seq(EventRow)
  BY <1>1, <1>3, SeqUpdate
<1>5. DOMAIN events[i] = 1..1
  BY <1>3, LenProperties
<1>6. DOMAIN t = 1..1 /\ t[1] = e
  BY <1>1, <1>5
<1>7. Len(t) \in Nat /\ DOMAIN t = 1..Len(t)
  BY <1>4, LenProperties
<1>8. Len(t) = 1
  <2>1. 1 \in 1..Len(t)
    BY <1>6, <1>7
  <2>2. Len(t) \in 1..Len(t)
    BY <1>7, <2>1
  <2>3. Len(t) \in 1..1
    BY <1>6, <1>7, <2>2
  <2> QED
    BY <2>3
<1>9. t # <<>>
  <2>1. CASE t = <<>>
    <3>1. Len(t) = 0
      BY <2>1
    <3> QED
      BY <1>8, <3>1
  <2> QED
    BY <2>1
<1> QED
  BY <1>2, <1>6, <1>8, <1>9

\* Until the dispatch a handler carries nothing: what its payment's row no
\* longer calls new is done.
LEMMA NotCarried ==
    ASSUME Serial, NEW h \in Handlers, handler[h].pc \notin Carrying, NEW i,
           PromptOK(i)
    PROVE  ~New(i) /\ Relevant(i) => Done(i)
BY DEF Serial, PromptOK, Carried

LEMMA PromptSame ==
    ASSUME NEW i, UNCHANGED <<verdict, acked, tx, request, events>>, RowOK(i)
    PROVE  /\ RowOK(i)' /\ (New(i)' <=> New(i)) /\ (Relevant(i)' <=> Relevant(i))
           /\ (Done(i)' <=> Done(i)) /\ (Untouched(i)' <=> Untouched(i))
BY DEF RowOK, New, Relevant, Done, Untouched

\* Finding, or not finding, the event of the delivery.
LEMMA FindDeals ==
    ASSUME Serial, IInv, NEW h \in Handlers, NEW i \in Prompt, handler[h].id = i,
           PromptOK(i), FindNoEvent(h) \/ FindHandledEvent(h) \/ FindProgression(h)
    PROVE  PromptOK(i)' /\ (handler'[h].pc # "idle" => DealsWith(handler[h])')
<1> DEFINE d == handler[h]
<1>0. /\ TypeOK /\ d \in Handler /\ d.status \in Statuses
      /\ d.status \in {"OK", verdict[i]} /\ i \in Ids /\ d.pc = "findEvent"
      /\ events[i] \in Seq(EventRow) /\ acked \in [Ids -> SUBSET Statuses]
  BY PaymentAssumption DEF IInv, HandlerInv, HandlerOK, TypeOK, Handler, Payments, Ids,
     FindNoEvent, FindHandledEvent, FindProgression, At
<1>1. RowOK(i) /\ (~New(i) /\ Relevant(i) => Done(i))
  BY <1>0, NotCarried DEF PromptOK, Carrying, Completing, Failing
<1>2. CASE FindNoEvent(h)
  <2>1. UNCHANGED <<verdict, acked, tx, request, events>> /\ events[i] = <<>>
    BY <1>2 DEF FindNoEvent
  <2>2. New(i) /\ d.status = "OK"
    BY <1>0, <1>1, <2>1 DEF New, RowOK
  <2>3. PromptOK(i)'
    BY <1>1, <2>1, <2>2, PromptSame DEF PromptOK
  <2>4. /\ handler'[h].pc = "createEvent" /\ handler'[h].id = i
        /\ handler'[h].status = "OK" /\ handler'[h].event.status = "OK"
    BY <1>0, <1>2, <2>2, FindNoEventAt
  <2>5. DealsWith(handler[h])'
    BY <2>1, <2>4 DEF DealsWith, Carrying, Completing, Failing
  <2> QED
    BY <2>3, <2>5
<1>3. CASE FindHandledEvent(h)
  <2>1. PICK k \in DOMAIN events[i] :
          \/ events[i][k].status = d.status
          \/ ~ValidProgression(events[i][k].status, d.status)
    BY <1>3 DEF FindHandledEvent
  <2>2. k = 1 /\ events[i] # <<>>
    BY <1>0, <1>1, <2>1, LenProperties DEF RowOK
  <2>3. /\ UNCHANGED <<verdict, tx, request, events>>
        /\ acked'[i] = acked[i] \cup {d.status}
    BY <1>0, <1>3 DEF FindHandledEvent, Answer
  <2>4. New(i) => d.status = "OK"
    BY <1>0, <2>1, <2>2 DEF New, ValidProgression, Statuses
  <2>5. /\ New(i)' <=> New(i)
        /\ Relevant(i)' <=> Relevant(i)
        /\ Done(i)' <=> Done(i)
        /\ Untouched(i)' <=> Untouched(i)
    BY <2>3 DEF New, Relevant, Done, Untouched
  <2>6. RowOK(i)'
    BY <1>1, <2>2, <2>3, <2>4, <2>5 DEF RowOK
  <2>7. handler'[h].pc = "idle"
    BY <1>0, <1>3, AnswerAt DEF FindHandledEvent, Idle
  <2> QED
    BY <1>1, <2>5, <2>6, <2>7 DEF PromptOK
<1>4. CASE FindProgression(h)
  <2>1. PICK k \in DOMAIN events[i] :
          /\ handler'[h].pc = "updateEvent" /\ handler'[h].row = k
          /\ handler'[h].id = i /\ handler'[h].status = d.status
          /\ handler'[h].previous = events[i][k].status
          /\ handler'[h].event.status = d.status
          /\ ValidProgression(events[i][k].status, d.status)
    BY <1>0, <1>4, FindProgressionAt
  <2>2. k = 1 /\ Len(events[i]) = 1
    <3>0. events[i] \in Seq(EventRow)
      BY <1>0
    <3>1. DOMAIN events[i] = 1..Len(events[i]) /\ Len(events[i]) \in Nat
      BY <3>0, LenProperties
    <3>2. Len(events[i]) <= 1
      BY <1>1 DEF RowOK
    <3>3. k \in 1..Len(events[i])
      BY <3>1
    <3> QED
      BY <3>1, <3>2, <3>3, OnlyOne
  <2>3. events[i][1].status = "OK" /\ d.status # "OK"
    BY <2>1, <2>2 DEF ValidProgression, Final
  <2>4. UNCHANGED <<verdict, acked, tx, request, events>>
    BY <1>4 DEF FindProgression
  <2>5. PromptOK(i)'
    BY <1>1, <2>3, <2>4, PromptSame DEF PromptOK, New
  <2>6. DealsWith(handler[h])'
    BY <2>1, <2>2, <2>3, <2>4 DEF DealsWith, Carrying, Completing, Failing
  <2> QED
    BY <2>5, <2>6
<1> QED
  BY <1>2, <1>3, <1>4

\* Writing the event and dispatching on it.
LEMMA WriteDeals ==
    ASSUME Serial, IInv, NEW h \in Handlers, NEW i \in Prompt, handler[h].id = i,
           PromptOK(i), DealsWith(handler[h]),
           CreateEvent(h) \/ UpdateEvent(h) \/ LinkUser(h) \/ DisbursementOK(h)
    PROVE  PromptOK(i)' /\ DealsWith(handler[h])'
<1> DEFINE d == handler[h]
<1>0. /\ TypeOK /\ d \in Handler /\ d.status \in Statuses
      /\ d.status \in {"OK", verdict[i]} /\ i \in Ids
      /\ events[i] \in Seq(EventRow) /\ events \in [Ids -> Seq(EventRow)]
      /\ RowOK(i) /\ d.event \in EventRow
  BY PaymentAssumption DEF IInv, HandlerInv, HandlerOK, TypeOK, Handler, Payments, Ids,
     CreateEvent, UpdateEvent, LinkUser, DisbursementOK, At, PromptOK
<1>1. /\ UNCHANGED <<verdict, acked, tx, request>>
      /\ handler'[h].id = i /\ handler'[h].status = d.status
  BY <1>0, CreateEventAt, GotoAt, LinkUserAt, DisbursementOKAt
  DEF CreateEvent, UpdateEvent, LinkUser, DisbursementOK
<1>2. /\ Relevant(i)' <=> Relevant(i)
      /\ Done(i)' <=> Done(i)
      /\ Untouched(i)' <=> Untouched(i)
  BY <1>1 DEF Relevant, Done, Untouched
<1>3. CASE CreateEvent(h)
  <2>1. events[i] = <<>> /\ d.status = "OK" /\ d.event.status = "OK"
    BY <1>3 DEF DealsWith, CreateEvent, At
  <2>2. events'[i] = <<d.event>>
    BY <1>0, <1>3, <2>1 DEF CreateEvent
  <2>3. /\ handler'[h].pc = "dispatch" /\ handler'[h].event = d.event
        /\ handler'[h].row = 1
    BY <1>0, <1>3, <2>1, CreateEventAt
  <2>4. New(i) /\ New(i)'
    BY <2>1, <2>2 DEF New
  <2>5. Len(events'[i]) = 1 /\ events'[i] # <<>> /\ events'[i][1].status = "OK"
    BY <2>1, <2>2
  <2>6. PromptOK(i)'
    BY <1>0, <1>1, <1>2, <2>4, <2>5 DEF PromptOK, RowOK
  <2>7. DealsWith(handler[h])'
    BY <1>1, <2>1, <2>3, <2>5 DEF DealsWith, HoldsRow, Carrying, Completing, Failing
  <2> QED
    BY <2>6, <2>7
<1>4. CASE UpdateEvent(h)
  <2>1. /\ Len(events[i]) = 1 /\ events[i][1].status = "OK" /\ d.row = 1
        /\ d.status # "OK" /\ d.event.status = d.status /\ d.previous = "OK"
    BY <1>4 DEF DealsWith, UpdateEvent, At
  <2>2. Len(events'[i]) = 1 /\ events'[i] # <<>> /\ events'[i][1].status = d.status
    BY <1>0, <1>4, <2>1, SaveRowOne DEF UpdateEvent
  <2>3. /\ handler'[h].pc = "dispatch" /\ handler'[h].event = d.event
        /\ handler'[h].row = 1 /\ handler'[h].previous = "OK"
    BY <1>0, <1>4, <2>1, GotoAt, GotoKeeps DEF UpdateEvent
  <2>4. Untouched(i) /\ ~New(i)'
    BY <1>0, <2>1, <2>2 DEF New, RowOK
  <2>5. RowOK(i)'
    BY <1>0, <1>1, <2>1, <2>2, <2>4 DEF RowOK
  <2>6. Carried(i)'
    BY <1>1, <2>3 DEF Carried, Carrying
  <2>7. DealsWith(handler[h])'
    BY <1>1, <1>2, <2>1, <2>2, <2>3, <2>4
    DEF DealsWith, HoldsRow, Carrying, Completing, Failing
  <2> QED
    BY <2>5, <2>6, <2>7 DEF PromptOK
<1>5. CASE LinkUser(h) \/ DisbursementOK(h)
  <2>1. d.pc = "dispatch" /\ HoldsRow(d)
    BY <1>5 DEF LinkUser, DisbursementOK, At, DealsWith, Carrying
  <2>2. /\ handler'[h].row = 1 /\ handler'[h].event.status = d.status
        /\ \/ handler'[h].pc = "markProcessed" /\ d.status = "OK"
           \/ handler'[h].pc = AfterLink(d)
    BY <1>0, <1>5, <2>1, LinkUserAt, DisbursementOKAt DEF HoldsRow, DisbursementOK
  <2>3. events' = events \/ \E e \in EventRow : e.status = d.status /\ SaveEvent(h, e)
    <3>1. CASE LinkUser(h)
      <4>1. PICK e : e = [d.event EXCEPT !.linked = TRUE]
        OBVIOUS
      <4>2. e \in EventRow /\ e.status = d.event.status
        BY <1>0, <4>1 DEF EventRow
      <4> QED
        BY <2>1, <3>1, <4>1, <4>2 DEF LinkUser, HoldsRow
    <3>2. CASE DisbursementOK(h)
      BY <1>0, <2>1, <3>2
      DEF DisbursementOK, HoldsRow, EventRow
    <3> QED
      BY <1>5, <3>1, <3>2
  <2>4. Len(events'[i]) = 1 /\ events'[i] # <<>> /\ events'[i][1].status = d.status
    BY <1>0, <2>1, <2>3, SaveRowOne DEF HoldsRow
  <2>5. New(i)' <=> New(i)
    BY <2>1, <2>4 DEF New, HoldsRow
  <2>6. RowOK(i)'
    BY <1>0, <1>1, <1>2, <2>1, <2>4, <2>5 DEF RowOK, HoldsRow
  <2>7. HoldsRow(handler[h])'
    BY <1>1, <2>2, <2>4 DEF HoldsRow
  <2>8. CASE d.status = "OK"
    <3>1. handler'[h].pc = "markProcessed"
      BY <2>2, <2>8 DEF AfterLink, Failure
    <3>2. DealsWith(handler[h])'
      BY <1>1, <2>7, <2>8, <3>1 DEF DealsWith, Carrying, Completing, Failing
    <3>3. New(i)'
      BY <2>4, <2>8 DEF New
    <3> QED
      BY <2>6, <3>2, <3>3 DEF PromptOK
  <2>9. CASE d.status # "OK"
    <3>1. d.previous = "OK" /\ Untouched(i)
      BY <2>1, <2>9 DEF DealsWith
    <3>2. handler'[h].pc = "findTx"
      BY <1>0, <2>2, <2>9, <3>1 DEF AfterLink, Failure, Statuses, Final
    <3>3. DealsWith(handler[h])'
      BY <1>1, <1>2, <2>7, <2>9, <3>1, <3>2 DEF DealsWith, Carrying, Completing, Failing
    <3>4. Carried(i)'
      BY <1>1, <3>2 DEF Carried, Carrying
    <3> QED
      BY <2>6, <3>3, <3>4 DEF PromptOK
  <2> QED
    BY <2>8, <2>9
<1> QED
  BY <1>3, <1>4, <1>5

\* Answering, or going through the catch block.
LEMMA AnswerDeals ==
    ASSUME Serial, IInv, NEW h \in Handlers, NEW i \in Prompt, handler[h].id = i,
           PromptOK(i), DealsWith(handler[h]),
           MarkProcessed(h) \/ ErrorFindEvent(h) \/ ErrorNoEvent(h) \/ ErrorSave(h)
    PROVE  PromptOK(i)' /\ (handler'[h].pc # "idle" => DealsWith(handler[h])')
<1> DEFINE d == handler[h]
<1>0. /\ TypeOK /\ d \in Handler /\ i \in Ids
      /\ events[i] \in Seq(EventRow) /\ RowOK(i) /\ d.event \in EventRow
      /\ acked \in [Ids -> SUBSET Statuses]
  BY PaymentAssumption DEF IInv, HandlerInv, HandlerOK, TypeOK, Handler, Payments, Ids,
     PromptOK
<1>1. UNCHANGED <<verdict, tx, request>>
  BY DEF MarkProcessed, ErrorFindEvent, ErrorNoEvent, ErrorSave
<1>2. /\ Relevant(i)' <=> Relevant(i)
      /\ Done(i)' <=> Done(i)
      /\ Untouched(i)' <=> Untouched(i)
  BY <1>1 DEF Relevant, Done, Untouched
<1>3. ~ErrorNoEvent(h)
  <2>1. CASE ErrorNoEvent(h)
    BY <2>1 DEF ErrorNoEvent, At, DealsWith
  <2> QED
    BY <2>1
<1>4. d.pc \in {"markProcessed", "errorFindEvent", "errorSave"}
  BY <1>3 DEF MarkProcessed, ErrorFindEvent, ErrorSave, At
<1>5. /\ Len(events[i]) = 1 /\ events[i][1].status = d.status
      /\ d.status # "OK" => ~Relevant(i) \/ Done(i)
  BY <1>4 DEF DealsWith, HoldsRow
<1>6. events[i] # <<>> /\ (New(i) <=> d.status = "OK")
  BY <1>5 DEF New
<1>q. ASSUME Len(events'[i]) = 1, events'[i] # <<>>, events'[i][1].status = d.status,
             acked'[i] \in {acked[i], acked[i] \cup {d.status}}
      PROVE  PromptOK(i)'
  <2>1. New(i)' <=> New(i)
    BY <1>6, <1>q DEF New
  <2>2. RowOK(i)'
    BY <1>0, <1>1, <1>2, <1>5, <1>6, <1>q, <2>1 DEF RowOK
  <2> QED
    BY <1>2, <1>5, <1>6, <2>1, <2>2 DEF PromptOK
<1>7. CASE MarkProcessed(h)
  <2>1. PICK e : e = [d.event EXCEPT !.processing = "processed"]
    OBVIOUS
  <2>2. e \in EventRow /\ e.status = d.status
    <3>1. d.event.status = d.status
      BY <1>7 DEF MarkProcessed, At, DealsWith, HoldsRow
    <3> QED
      BY <1>0, <2>1, <3>1 DEF EventRow
  <2>3. SaveEvent(h, e) /\ d.row = 1
    BY <1>7, <2>1 DEF MarkProcessed, At, DealsWith, HoldsRow
  <2>4. Len(events'[i]) = 1 /\ events'[i] # <<>> /\ events'[i][1].status = d.status
    BY <1>0, <1>5, <2>2, <2>3, SaveRowOne
  <2>5. acked'[i] = acked[i] \cup {d.status}
    BY <1>0, <1>7 DEF MarkProcessed, Answer
  <2>6. handler'[h].pc = "idle"
    BY <1>0, <1>7, AnswerAt DEF MarkProcessed, Idle
  <2> QED
    BY <1>q, <2>4, <2>5, <2>6
<1>8. CASE ErrorFindEvent(h)
  <2>1. PICK k \in DOMAIN events[i] :
          /\ handler'[h].pc = "errorSave" /\ handler'[h].row = k
          /\ handler'[h].id = i /\ handler'[h].status = d.status
          /\ handler'[h].event.status = events[i][k].status
    BY <1>0, <1>8, ErrorFindEventAt
  <2>2. k = 1
    <3>0. events[i] \in Seq(EventRow)
      BY <1>0
    <3>1. DOMAIN events[i] = 1..Len(events[i])
      BY <3>0, LenProperties
    <3>2. k \in 1..1
      BY <1>5, <3>1
    <3> QED
      BY <3>2
  <2>3. UNCHANGED <<acked, events>>
    BY <1>8 DEF ErrorFindEvent
  <2>4. PromptOK(i)'
    BY <1>5, <1>6, <1>q, <2>3
  <2>5. d.status # "OK" /\ ~Relevant(i)
    BY <1>8 DEF ErrorFindEvent, At, DealsWith
  <2>6. DealsWith(handler[h])'
    BY <1>2, <1>5, <2>1, <2>2, <2>3, <2>5 DEF DealsWith, Carrying, Completing, Failing
  <2> QED
    BY <2>4, <2>6
<1>9. CASE ErrorSave(h)
  <2>1. d.row = 1 /\ d.event.status = d.status
    BY <1>9 DEF ErrorSave, At, DealsWith
  <2>2. Len(events'[i]) = 1 /\ events'[i] # <<>> /\ events'[i][1].status = d.status
    BY <1>0, <1>5, <1>9, <2>1, SaveRowOne DEF ErrorSave
  <2>3. acked'[i] \in {acked[i], acked[i] \cup {d.status}}
    BY <1>0, <1>9 DEF ErrorSave, AnswerError, Answer
  <2>4. handler'[h].pc = "idle"
    BY <1>0, <1>9, AnswerAt DEF ErrorSave, Idle
  <2> QED
    BY <1>q, <2>2, <2>3, <2>4
<1> QED
  BY <1>3, <1>7, <1>8, <1>9

\* The step of a handler at work for a prompt payment.
LEMMA StepDeals ==
    ASSUME Serial, IInv, NEW h \in Handlers, NEW i \in Prompt, handler[h].id = i,
           PromptOK(i), handler[h].pc # "idle" => DealsWith(handler[h]), Step(h)
    PROVE  PromptOK(i)' /\ (handler'[h].pc # "idle" => DealsWith(handler[h])')
<1>1. handler[h].pc # "idle"
  BY DEF Step, ProcessWebhook, FindNoEvent, FindHandledEvent, FindProgression,
     CreateEvent, UpdateEvent, MarkProcessed, ErrorFindEvent, ErrorNoEvent,
     ErrorSave, LinkUser, DisbursementOK, DispatchStray, HandleVerdict, FindTx,
     FindTxAgain, CompleteRequest, DropCache, FailRequest, ReadCache,
     RefundFindWallet, RefundSave, CompleteFindTx, CompleteFindWallet,
     CompleteCommit, FailFindTx, FailSave, At
<1>2. ~DispatchStray(h)
  BY PaymentAssumption DEF DispatchStray
<1>3. CASE HandleVerdict(h)
  BY <1>1, <1>3, VerdictDeals
<1>4. CASE ProcessWebhook(h)
  BY <1>1, <1>2, <1>4, FindDeals, WriteDeals, AnswerDeals DEF ProcessWebhook
<1> QED
  BY <1>3, <1>4 DEF Step

\* A step of h is about the payment of its delivery alone.
LEMMA StepElsewhere ==
    ASSUME TypeOK, NEW h \in Handlers, Step(h), NEW i \in Ids, handler[h].id # i
    PROVE  /\ events'[i] = events[i] /\ acked'[i] = acked[i]
           /\ verdict'[i] = verdict[i] /\ tx'[i] = tx[i]
           /\ i \in RequestPays => request'[i] = request[i]
<1>1. CASE HandleVerdict(h)
  BY <1>1 DEF HandleVerdict, FindTx, FindTxAgain, CompleteRequest, DropCache,
     FailRequest, ReadCache, RefundFindWallet, RefundSave, CompleteFindTx,
     CompleteFindWallet, CompleteCommit, FailFindTx, FailSave, TypeOK
<1>2. CASE FindNoEvent(h) \/ FindHandledEvent(h) \/ FindProgression(h) \/ DispatchStray(h)
  BY <1>2 DEF FindNoEvent, FindHandledEvent, FindProgression, DispatchStray, Answer, TypeOK
<1>3. CASE CreateEvent(h) \/ UpdateEvent(h) \/ LinkUser(h) \/ DisbursementOK(h)
  <2>1. UNCHANGED <<verdict, acked, tx, request>>
    BY <1>3 DEF CreateEvent, UpdateEvent, LinkUser, DisbursementOK
  <2>2. events'[i] = events[i]
    BY <1>3 DEF CreateEvent, UpdateEvent, LinkUser, DisbursementOK, SaveEvent, TypeOK
  <2> QED
    BY <2>1, <2>2
<1>4. CASE MarkProcessed(h) \/ ErrorFindEvent(h) \/ ErrorNoEvent(h) \/ ErrorSave(h)
  <2>1. UNCHANGED <<verdict, tx, request>>
    BY <1>4 DEF MarkProcessed, ErrorFindEvent, ErrorNoEvent, ErrorSave
  <2>2. events'[i] = events[i]
    BY <1>4 DEF MarkProcessed, ErrorFindEvent, ErrorNoEvent, ErrorSave, SaveEvent, TypeOK
  <2>3. acked'[i] = acked[i]
    BY <1>4 DEF MarkProcessed, ErrorFindEvent, ErrorNoEvent, ErrorSave, AnswerError,
       Answer, TypeOK
  <2> QED
    BY <2>1, <2>2, <2>3
<1> QED
  BY <1>1, <1>2, <1>3, <1>4 DEF Step, ProcessWebhook

LEMMA StepId ==
    ASSUME IInv, NEW h \in Handlers, Step(h)
    PROVE  handler'[h].id = handler[h].id \/ handler'[h].pc = "idle"
<1> DEFINE d == handler[h]
<1>0. /\ TypeOK /\ d \in Handler /\ Idle.pc = "idle"
      /\ d.pc # "idle" => d.id \in Ids
  BY DEF IInv, TypeOK, Idle, HandlerInv, HandlerOK
<1>1. CASE HandleVerdict(h)
  <2>1. CASE FindTxAgain(h)
    <3>1. CASE Throw(h, FALSE)
      BY <1>0, <3>1, ThrowAt
    <3>2. CASE Becomes(h, [d EXCEPT !.pc = "failFindTx", !.next = "readCache"])
      <4>1. handler'[h] = [d EXCEPT !.pc = "failFindTx", !.next = "readCache"]
        BY <1>0, <3>2, BecomesAt
      <4> QED
        BY <1>0, <4>1 DEF Handler
    <3> QED
      BY <2>1, <3>1, <3>2 DEF FindTxAgain
  <2> QED
    BY <1>0, <1>1, <2>1, VerdictKeeps
<1>2. CASE ProcessWebhook(h)
  <2>1. CASE FindNoEvent(h) \/ CreateEvent(h) \/ UpdateEvent(h) \/ LinkUser(h)
             \/ DisbursementOK(h) \/ DispatchStray(h)
    BY <1>0, <2>1, FindNoEventAt, CreateEventAt, GotoAt, ThrowAt, LinkUserAt,
       DisbursementOKAt DEF UpdateEvent, DispatchStray
  <2>2. CASE FindProgression(h) \/ ErrorFindEvent(h)
    <3>1. d.id \in Ids
      BY <1>0, <2>2 DEF FindProgression, ErrorFindEvent, At
    <3> QED
      BY <1>0, <2>2, <3>1, FindProgressionAt, ErrorFindEventAt
  <2>3. CASE FindHandledEvent(h) \/ MarkProcessed(h) \/ ErrorNoEvent(h) \/ ErrorSave(h)
    BY <1>0, <2>3, AnswerAt
    DEF FindHandledEvent, MarkProcessed, ErrorNoEvent, ErrorSave
  <2> QED
    BY <1>2, <2>1, <2>2, <2>3 DEF ProcessWebhook
<1> QED
  BY <1>1, <1>2 DEF Step

\* What the environment leaves alone of a payment and of its handler.
LEMMA PromptStill ==
    ASSUME NEW i, PromptOK(i), events'[i] = events[i], acked'[i] = acked[i],
           verdict'[i] = verdict[i], Untouched(i) => Untouched(i)',
           Done(i) => Done(i)', Carried(i) => Carried(i)'
    PROVE  PromptOK(i)'
<1>1. /\ New(i)' <=> New(i)
      /\ Relevant(i)' <=> Relevant(i)
  BY DEF New, Relevant
<1>2. RowOK(i)'
  BY <1>1 DEF PromptOK, RowOK
<1> QED
  BY <1>1, <1>2 DEF PromptOK

LEMMA DealsStill ==
    ASSUME NEW h, NEW i, handler[h].id = i, handler'[h] = handler[h],
           DealsWith(handler[h]), events'[i] = events[i],
           Untouched(i) => Untouched(i)', Done(i) => Done(i)',
           tx[i] \in {"COMPLETED", "FAILED"} => tx'[i] = tx[i],
           i \in RequestPays => request'[i] = request[i],
           handler[h].pc = "completeRequest" => i \in RequestPays,
           handler[h].pc = "failRequest" => i \in RequestPays,
           handler[h].status = "OK" \/ (~Relevant(i) => ~Relevant(i)')
    PROVE  DealsWith(handler[h])'
<1>1. HoldsRow(handler[h]) => HoldsRow(handler[h])'
  BY DEF HoldsRow
<1>2. Return(handler'[h]) = Return(handler[h])
  OBVIOUS
<1> QED
  BY <1>1, <1>2 DEF DealsWith

\* Both parts of PromptInv in the next state.
PromptKept ==
    /\ \A i \in Prompt : PromptOK(i)'
    /\ \A h \in Handlers :
         handler'[h].pc # "idle" /\ handler'[h].id \in Prompt => DealsWith(handler[h])'

\* The environment reaches a verdict, opens the transaction, drops the cache.
LEMMA EnvironmentDeals ==
    ASSUME IInv, NEW k, handler' = handler, events' = events, acked' = acked,
           request' = request,
           \A i \in Prompt : PromptOK(i),
           \A h \in Handlers :
              handler[h].pc # "idle" /\ handler[h].id \in Prompt => DealsWith(handler[h]),
           \/ UNCHANGED <<verdict, tx>>
           \/ k \in Ids /\ \E v \in Verdicts : Decide(k, v)
           \/ k \in Late /\ OpenTransaction(k)
    PROVE  PromptKept
<1>0. /\ TypeOK /\ Prompt \subseteq Ids /\ Late \subseteq Ids /\ Verdicts \subseteq Final
      /\ tx \in [Ids -> TxStatus] /\ verdict \in [Ids -> Statuses]
  BY PaymentAssumption DEF IInv, TypeOK, Payments, Ids
<1>1. CASE UNCHANGED <<verdict, tx>>
  <2>1. \A i \in Prompt : PromptOK(i)'
    BY <1>1 DEF PromptOK, RowOK, New, Relevant, Untouched, Done, Carried
  <2>2. ASSUME NEW h \in Handlers, handler'[h].pc # "idle", handler'[h].id \in Prompt
        PROVE  DealsWith(handler[h])'
    <3>1. DealsWith(handler[h])
      BY <2>2
    <3> QED
      BY <1>1, <3>1 DEF DealsWith, HoldsRow, Untouched, Done, Relevant, Return
  <2> QED
    BY <2>1, <2>2 DEF PromptKept
<1>2. CASE k \in Ids /\ \E v \in Verdicts : Decide(k, v)
  <2>1. PICK v \in Verdicts : Decide(k, v)
    BY <1>2
  <2>2. /\ tx' = tx /\ verdict[k] = "OK" /\ verdict'[k] = v /\ v \in Final
        /\ \A i \in Ids \ {k} : verdict'[i] = verdict[i]
        /\ k \in Prompt => "OK" \in acked[k] /\ tx[k] = "PENDING"
    BY <1>0, <1>2, <2>1 DEF Decide
  <2>3. \A i : Done(i)' <=> Done(i)
    BY <2>2 DEF Done
  <2>4. \A i \in Prompt : Untouched(i) => Untouched(i)'
    <3>1. \A i \in Prompt : i # k => verdict'[i] = verdict[i]
      BY <1>0, <2>2
    <3> QED
      BY <2>2, <3>1 DEF Untouched
  <2>5. ASSUME NEW i \in Prompt PROVE PromptOK(i)'
    <3>1. CASE i = k
      <4>1. events[i] # <<>> /\ events[i][1].status = "OK" /\ Len(events[i]) <= 1
        BY <2>2, <2>5, <3>1 DEF PromptOK, RowOK
      <4>2. Untouched(i)' /\ acked[i] \subseteq {"OK"} /\ New(i)'
        BY <2>4, <2>5, <4>1 DEF PromptOK, RowOK, New
      <4> QED
        BY <4>1, <4>2 DEF PromptOK, RowOK
    <3>2. CASE i # k
      <4>1. verdict'[i] = verdict[i]
        BY <1>0, <2>2, <3>2
      <4>2. Carried(i) => Carried(i)'
        BY DEF Carried
      <4> QED
        BY <2>3, <2>4, <4>1, <4>2, PromptStill
    <3> QED
      BY <3>1, <3>2
  <2>6. ASSUME NEW h \in Handlers, handler'[h].pc # "idle", handler'[h].id \in Prompt
        PROVE  DealsWith(handler[h])'
    <3>1. PICK i \in Prompt : i = handler[h].id
      BY <2>6
    <3>2. HandlerOK(handler[h]) /\ DealsWith(handler[h])
      BY <2>6 DEF IInv, HandlerInv
    <3>3. handler[h].status \in {"OK", verdict[i]}
      BY <2>6, <3>1, <3>2 DEF HandlerOK
    <3>4. handler[h].status = "OK" \/ (~Relevant(i) => ~Relevant(i)')
      <4>1. CASE i = k
        BY <2>2, <3>3, <4>1
      <4>2. CASE i # k
        <5>1. verdict'[i] = verdict[i]
          BY <1>0, <2>2, <4>2
        <5> QED
          BY <5>1 DEF Relevant
      <4> QED
        BY <4>1, <4>2
    <3>5. handler[h].pc \in {"completeRequest", "failRequest"} => i \in RequestPays
      BY <3>1, <3>2 DEF HandlerOK
    <3> QED
      BY <2>2, <2>3, <2>4, <3>1, <3>2, <3>4, <3>5, DealsStill
  <2> QED
    BY <2>5, <2>6 DEF PromptKept
<1>3. CASE k \in Late /\ OpenTransaction(k)
  <2>1. /\ verdict' = verdict /\ tx[k] = "ABSENT" /\ tx'[k] = "PENDING"
        /\ \A i \in Ids \ {k} : tx'[i] = tx[i]
    BY <1>0, <1>3 DEF OpenTransaction
  <2>2. \A i \in Prompt : Untouched(i) => Untouched(i)'
    <3>1. \A i \in Prompt : i # k => tx'[i] = tx[i]
      BY <1>0, <2>1
    <3> QED
      BY <2>1, <3>1 DEF Untouched
  <2>3. \A i \in Prompt : tx[i] \in {"COMPLETED", "FAILED"} => tx'[i] = tx[i]
    BY <1>0, <2>1
  <2>4. \A i \in Prompt : Done(i) => Done(i)'
    BY <2>3 DEF Done
  <2>5. ASSUME NEW i \in Prompt PROVE PromptOK(i)'
    <3>1. Carried(i) => Carried(i)'
      BY DEF Carried
    <3> QED
      BY <2>1, <2>2, <2>4, <3>1, PromptStill
  <2>6. ASSUME NEW h \in Handlers, handler'[h].pc # "idle", handler'[h].id \in Prompt
        PROVE  DealsWith(handler[h])'
    <3>1. PICK i \in Prompt : i = handler[h].id
      BY <2>6
    <3>2. HandlerOK(handler[h]) /\ DealsWith(handler[h])
      BY <2>6 DEF IInv, HandlerInv
    <3>3. Relevant(i)' <=> Relevant(i)
      BY <2>1 DEF Relevant
    <3>4. handler[h].pc \in {"completeRequest", "failRequest"} => i \in RequestPays
      BY <3>1, <3>2 DEF HandlerOK
    <3> QED
      BY <2>2, <2>3, <2>4, <3>1, <3>2, <3>3, <3>4, DealsStill
  <2> QED
    BY <2>5, <2>6 DEF PromptKept
<1> QED
  BY <1>1, <1>2, <1>3

LEMMA PromptNext ==
    ASSUME Serial, IInv, PromptInv, [Next]_vars
    PROVE  PromptInv'
<1> SUFFICES ASSUME faults' = 0 PROVE PromptKept
  BY DEF PromptInv, PromptKept
<1>0. /\ TypeOK /\ faults \in Nat /\ Prompt \subseteq Ids /\ Prompt \subseteq Payments
  BY PaymentAssumption DEF IInv, TypeOK, Payments, Ids
<1>1. /\ \A i \in Prompt : PromptOK(i)
      /\ \A h \in Handlers :
           handler[h].pc # "idle" /\ handler[h].id \in Prompt => DealsWith(handler[h])
  BY <1>0, FaultsRemain DEF PromptInv
<1>2. CASE UNCHANGED vars \/ \E i \in RequestPays : ExpireCache(i)
  BY <1>1, <1>2, EnvironmentDeals DEF vars, ExpireCache
<1>3. CASE \E i \in Ids, v \in Verdicts : Decide(i, v)
  <2>1. PICK i \in Ids : \E v \in Verdicts : Decide(i, v)
    BY <1>3
  <2>2. UNCHANGED <<handler, events, acked, request>>
    BY <2>1 DEF Decide
  <2> QED
    BY <1>1, <2>1, <2>2, EnvironmentDeals
<1>4. CASE \E i \in Late : OpenTransaction(i)
  <2>1. PICK i \in Late : OpenTransaction(i)
    BY <1>4
  <2>2. UNCHANGED <<handler, events, acked, request>>
    BY <2>1 DEF OpenTransaction
  <2> QED
    BY <1>1, <2>1, <2>2, EnvironmentDeals
<1>5. CASE \E h \in Handlers, i \in Ids, s \in Statuses :
              Deliver(h, i, s) \/ DeliverAgain(h, i, s)
  <2>1. PICK h \in Handlers, i \in Ids, s \in Statuses : Receive(h, i, s)
    BY <1>5 DEF Deliver, DeliverAgain
  <2>2. UNCHANGED <<verdict, acked, tx, request, events>> /\ handler[h].pc = "idle"
    BY <2>1 DEF Receive, At
  <2>3. handler'[h] = [Idle EXCEPT !.pc = "findEvent", !.id = i, !.status = s]
    BY <1>0, <2>1, BecomesAt DEF Receive
  <2>4. handler'[h].pc = "findEvent"
    BY <2>3 DEF Idle
  <2>5. ASSUME NEW j \in Prompt PROVE PromptOK(j)'
    <3>1. ~Carried(j)
      BY <2>2 DEF Serial, Carried, Carrying, Completing, Failing
    <3> QED
      BY <1>1, <2>2, <3>1, PromptStill DEF Untouched, Done
  <2>6. \A g \in Handlers : g = h
    BY DEF Serial
  <2>7. DealsWith(handler[h])'
    BY <2>4 DEF DealsWith, Carrying, Completing, Failing
  <2> QED
    BY <2>5, <2>6, <2>7 DEF PromptKept
<1>6. ASSUME NEW h \in Handlers, Step(h) PROVE PromptKept
  <2>1. ASSUME NEW i \in Prompt PROVE PromptOK(i)'
    <3>1. CASE i = handler[h].id
      BY <1>1, <1>6, <3>1, StepDeals
    <3>2. CASE i # handler[h].id
      <4>1. ~Carried(i)
        BY <3>2 DEF Serial, Carried
      <4>2. /\ events'[i] = events[i] /\ acked'[i] = acked[i]
            /\ verdict'[i] = verdict[i] /\ tx'[i] = tx[i]
            /\ i \in RequestPays => request'[i] = request[i]
        BY <1>0, <1>6, <3>2, StepElsewhere
      <4>3. (Untouched(i) => Untouched(i)') /\ (Done(i) => Done(i)')
        BY <4>2 DEF Untouched, Done
      <4> QED
        BY <1>1, <4>1, <4>2, <4>3, PromptStill
    <3> QED
      BY <3>1, <3>2
  <2>2. ASSUME NEW g \in Handlers, handler'[g].pc # "idle", handler'[g].id \in Prompt
        PROVE  DealsWith(handler[g])'
    <3>1. g = h
      BY DEF Serial
    <3>2. handler[h].id = handler'[h].id
      BY <1>6, <2>2, <3>1, StepId
    <3>3. PICK i \in Prompt : i = handler[h].id
      BY <2>2, <3>1, <3>2
    <3>4. handler'[h].pc # "idle" => DealsWith(handler[h])'
      BY <1>1, <1>6, <3>3, StepDeals
    <3> QED
      BY <2>2, <3>1, <3>4
  <2> QED
    BY <2>1, <2>2 DEF PromptKept
<1>7. CASE (\E h \in Handlers : CallFails(h)) \/ Restart
  <2>1. faults' = faults + 1
    BY <1>7 DEF CallFails, Restart
  <2>2. faults \in Nat /\ faults' = 0
    BY <1>0
  <2> QED
    BY <2>1, <2>2
<1> QED
  BY <1>2, <1>3, <1>4, <1>5, <1>6, <1>7 DEF Next

LEMMA PromptInit == Init => PromptInv
<1> SUFFICES ASSUME Init, NEW i \in Prompt PROVE PromptOK(i)
  BY DEF Init, PromptInv, Idle
<1>1. /\ i \in Ids /\ i \in Payments
  BY PaymentAssumption DEF Payments, Ids
<1>2. /\ events[i] = <<>> /\ verdict[i] = "OK" /\ acked[i] = {}
      /\ tx[i] \in {"ABSENT", "PENDING"}
      /\ i \in RequestPays => request[i] = "pending"
  BY <1>1 DEF Init
<1>3. Len(events[i]) = 0
  BY <1>2
<1> QED
  BY <1>2, <1>3 DEF PromptOK, RowOK, New, Untouched

LEMMA PromptAlways == ASSUME Serial PROVE Spec => []PromptInv
<1>1. IInv /\ PromptInv /\ [Next]_vars => PromptInv'
  BY PromptNext
<1> QED
  BY <1>1, PromptInit, Invariance, PTL DEF Spec

\* A payment no handler is serving is new and untouched, or done.
LEMMA QuietIsSettled ==
    ASSUME PromptInv, faults = 0, NEW i \in Prompt, Quiet(i)
    PROVE  /\ New(i) => Untouched(i) /\ acked[i] \subseteq {"OK"}
           /\ ~New(i) /\ Relevant(i) => Done(i)
BY DEF PromptInv, PromptOK, RowOK, Quiet, Carried

\* One delivery at a time and no fault: a verdict on a prompt payment that was
\* answered with 200 has been dealt with.
THEOREM AckedMeansDone == ASSUME Serial PROVE Spec => []AckedIsDone
<1>1. PromptInv => AckedIsDone
  BY QuietIsSettled DEF AckedIsDone, Closed, Relevant, Done
<1> QED
  BY <1>1, PromptAlways, PTL

\* One delivery at a time and no fault: a prompt request ends as its
\* transaction does.
THEOREM RequestEndsAsTx == ASSUME Serial PROVE Spec => []RequestMatchesTx
<1>1. PromptInv => RequestMatchesTx
  BY QuietIsSettled DEF RequestMatchesTx, Relevant, Done, Untouched
<1> QED
  BY <1>1, PromptAlways, PTL
=============================================================================
