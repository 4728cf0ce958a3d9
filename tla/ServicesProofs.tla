--------------------------- MODULE ServicesProofs ---------------------------
(* What the parts of the server that share no state keep, for every value   *)
(* of their constants: the inbox, the places, the limiter, the history and  *)
(* the statement, one section each (deposits, onboarding and profiles have   *)
(* modules of their own); then that each of them behaves beside the others  *)
(* as it does alone, so that all the invariants of the parts hold of        *)
(* Services.                                                                *)
EXTENDS Services, NgnDepositsProofs, AccountProofs, SumProofs,
        FiniteSetTheorems, SequenceTheorems, TLAPS

-----------------------------------------------------------------------------
(* The inbox. A row is written from a copy read some awaits before: the     *)
(* invariant says what such a copy may hold.                                *)

\* The row c is shown as sent only with its push accepted (a), and is a row.
RowOK(c, n, a) == (c.isSent => n \in a) /\ (c.status = "absent" => c = Gone)

\* What a request knows at each await: the ids it has to do with, given out (u)
\* and accepted (a), and the copy it is about to save.
RequestOK(d, u, a) ==
    /\ d.pc # "idle" => d.todo # {}
    /\ d.pc \in {"push", "sent"} =>
         \E n \in u : d.todo = {n} /\ d.copy = NewRow /\ (d.pc = "sent" => n \in a)
    /\ d.pc = "find" => d.op \in {"READ", "UNREAD"}
    /\ d.pc = "save" =>
         /\ d.mine /\ d.op \in {"READ", "UNREAD"}
         /\ RowOK(d.copy, CHOOSE n \in d.todo : TRUE, a)

InboxInv ==
    /\ InboxTypeOK
    /\ \A n \in Notifications : RowOK(rows[n], n, accepted)
    /\ \A n \in Notifications \ clobbered : rows[n].status = wanted[n]
    /\ \A h \in InboxHandlers : RequestOK(inboxHandler[h], used, accepted)

-----------------------------------------------------------------------------
LEMMA IdleRequest ==
    /\ IdleInbox \in InboxRequest /\ Gone \in InboxRow /\ NewRow \in InboxRow
    /\ \A u, a : RequestOK(IdleInbox, u, a)
BY DEF IdleInbox, InboxRequest, InboxRow, Gone, NewRow, RequestOK

\* An id more given out, a push more accepted change nothing a request knows.
LEMMA RequestGrows ==
    ASSUME NEW d, NEW u, NEW a, NEW v, NEW b, u \subseteq v, a \subseteq b,
           RequestOK(d, u, a)
    PROVE  RequestOK(d, v, b)
BY DEF RequestOK, RowOK

\* Every id of a bulk request but the current one is left to do.
LEMMA RestOfBulk ==
    ASSUME NEW S, Cardinality(S) > 1, NEW n
    PROVE  S \ {n} # {}
<1> SUFFICES ASSUME S \ {n} = {} PROVE FALSE
  OBVIOUS
<1>1. S = {} \/ S = {n}
  OBVIOUS
<1>2. Cardinality(S) \in {0, 1}
  BY <1>1, FS_EmptySet, FS_Singleton
<1> QED
  BY <1>2

LEMMA CurrentIsHere ==
    ASSUME InboxInv, NEW h \in InboxHandlers, ~InboxAt(h, "idle")
    PROVE  Current(h) \in inboxHandler[h].todo /\ Current(h) \in Notifications
BY DEF InboxInv, InboxTypeOK, InboxRequest, RequestOK, InboxAt, Current

\* markBulkAsRead goes on with the next id, the other requests are answered.
LEMMA NextRequest ==
    ASSUME InboxInv, NEW h \in InboxHandlers, ~InboxAt(h, "idle"), NextId(h)
    PROVE  \E e \in InboxRequest :
             /\ inboxHandler' = [inboxHandler EXCEPT ![h] = e]
             /\ \A u, a : RequestOK(e, u, a)
<1> DEFINE d == inboxHandler[h]
           f == [d EXCEPT !.pc = "find", !.todo = d.todo \ {Current(h)}]
<1>1. d \in InboxRequest /\ RequestOK(d, used, accepted) /\ d.pc # "idle"
  BY DEF InboxInv, InboxTypeOK, InboxAt
<1>2. CASE Cardinality(d.todo) > 1
  <2>1. inboxHandler' = [inboxHandler EXCEPT ![h] = f]
    BY <1>2 DEF NextId, InboxInv, InboxTypeOK
  <2>2. d.pc \notin {"push", "sent"}
    <3> SUFFICES ASSUME d.pc \in {"push", "sent"} PROVE FALSE
      OBVIOUS
    <3>1. PICK n : d.todo = {n}
      BY <1>1 DEF RequestOK
    <3> QED
      BY <1>2, <3>1, FS_Singleton
  <2>3. d.op \in {"READ", "UNREAD"}
    <3>1. d.pc \in {"find", "save"}
      BY <1>1, <2>2 DEF InboxRequest
    <3> QED
      BY <1>1, <3>1 DEF RequestOK
  <2>4. f.todo # {}
    BY <1>1, <1>2, RestOfBulk DEF InboxRequest
  <2>5. f \in InboxRequest /\ f.pc = "find" /\ f.op = d.op
    BY <1>1 DEF InboxRequest
  <2>6. \A u, a : RequestOK(f, u, a)
    BY <2>3, <2>4, <2>5 DEF RequestOK
  <2> QED
    BY <2>1, <2>5, <2>6
<1>3. CASE ~(Cardinality(d.todo) > 1)
  BY <1>3, IdleRequest DEF NextId
<1> QED
  BY <1>2, <1>3

\* One request knows something new, the others what they knew.
LEMMA Handled ==
    ASSUME InboxInv, NEW h \in InboxHandlers, NEW e \in InboxRequest,
           inboxHandler' = [inboxHandler EXCEPT ![h] = e],
           used \subseteq used', accepted \subseteq accepted', RequestOK(e, used', accepted')
    PROVE  /\ inboxHandler' \in [InboxHandlers -> InboxRequest]
           /\ \A g \in InboxHandlers : RequestOK(inboxHandler[g], used, accepted)'
<1>1. inboxHandler' \in [InboxHandlers -> InboxRequest]
  BY DEF InboxInv, InboxTypeOK
<1>2. ASSUME NEW g \in InboxHandlers
      PROVE  RequestOK(inboxHandler'[g], used', accepted')
  <2>1. CASE g = h
    BY <2>1 DEF InboxInv, InboxTypeOK
  <2>2. CASE g # h
    BY <2>2, RequestGrows DEF InboxInv, InboxTypeOK
  <2> QED
    BY <2>1, <2>2
<1> QED
  BY <1>1, <1>2

\* A step that writes no row.
LEMMA NoRowWritten ==
    ASSUME InboxInv, NEW h \in InboxHandlers, NEW e \in InboxRequest,
           inboxHandler' = [inboxHandler EXCEPT ![h] = e],
           RequestOK(e, used', accepted'),
           UNCHANGED <<rows, used, wanted, clobbered>>,
           accepted \subseteq accepted', accepted' \subseteq used',
           marks' \in 0..MaxMarks, inboxFaults' \in 0..MaxInboxFaults
    PROVE  InboxInv'
<1>1. /\ inboxHandler' \in [InboxHandlers -> InboxRequest]
      /\ \A g \in InboxHandlers : RequestOK(inboxHandler[g], used, accepted)'
  BY Handled
<1>2. InboxTypeOK'
  BY <1>1 DEF InboxInv, InboxTypeOK
<1>3. \A n \in Notifications : RowOK(rows[n], n, accepted)'
  BY DEF InboxInv, RowOK
<1>4. \A n \in (Notifications \ clobbered)' : (rows[n].status = wanted[n])'
  BY DEF InboxInv
<1> QED
  BY <1>1, <1>2, <1>3, <1>4 DEF InboxInv

\* A save writes the row c over the one of n, which then reads what its user
\* wants (w), unless the copy it was made from was no longer the row.
LEMMA SaveKeeps ==
    ASSUME InboxInv, NEW h \in InboxHandlers, NEW n \in Notifications, NEW c \in InboxRow,
           SaveRow(h, n, c), RowOK(c, n, accepted),
           NEW w \in {"absent", "UNREAD", "READ"}, wanted' = [wanted EXCEPT ![n] = w],
           rows[n] = inboxHandler[h].copy /\ rows[n].status = wanted[n] => c.status = w,
           NEW e \in InboxRequest, inboxHandler' = [inboxHandler EXCEPT ![h] = e],
           \A u, a : RequestOK(e, u, a), UNCHANGED <<used, accepted, marks, inboxFaults>>
    PROVE  InboxInv'
<1>1. /\ inboxHandler' \in [InboxHandlers -> InboxRequest]
      /\ \A g \in InboxHandlers : RequestOK(inboxHandler[g], used, accepted)'
  BY Handled
<1>2. rows' = [rows EXCEPT ![n] = c]
        /\ clobbered' = IF rows[n] = inboxHandler[h].copy THEN clobbered ELSE clobbered \cup {n}
  BY DEF SaveRow
<1>3. InboxTypeOK'
  BY <1>1, <1>2 DEF InboxInv, InboxTypeOK
<1>4. \A m \in Notifications : RowOK(rows[m], m, accepted)'
  BY <1>2 DEF InboxInv, InboxTypeOK, RowOK
<1>5. ASSUME NEW m \in Notifications \ clobbered'
      PROVE  rows'[m].status = wanted'[m]
  <2>1. m \notin clobbered /\ rows[m].status = wanted[m]
    BY <1>2, <1>5 DEF InboxInv
  <2>2. CASE m = n
    BY <1>2, <1>5, <2>1, <2>2 DEF InboxInv, InboxTypeOK
  <2>3. CASE m # n
    BY <1>2, <2>1, <2>3 DEF InboxInv, InboxTypeOK
  <2> QED
    BY <2>2, <2>3
<1> QED
  BY <1>1, <1>3, <1>4, <1>5 DEF InboxInv

-----------------------------------------------------------------------------
LEMMA InboxInitOK == InboxInit => InboxInv
BY IdleRequest, InboxAssumption
DEF InboxInit, InboxInv, InboxTypeOK, RowOK, Gone

LEMMA InsertKeeps ==
    ASSUME InboxInv, NEW h \in InboxHandlers, NEW n \in Notifications, InsertNotification(h, n)
    PROVE  InboxInv'
<1> DEFINE e == [IdleInbox EXCEPT !.pc = "push", !.op = "create", !.todo = {n},
                                  !.copy = NewRow]
<1>1. e \in InboxRequest /\ RequestOK(e, used', accepted')
  BY IdleRequest DEF InboxRequest, RequestOK, InsertNotification, IdleInbox
<1>2. /\ inboxHandler' \in [InboxHandlers -> InboxRequest]
      /\ \A g \in InboxHandlers : RequestOK(inboxHandler[g], used, accepted)'
  BY <1>1, Handled DEF InsertNotification
<1>3. InboxTypeOK'
  BY <1>2, IdleRequest DEF InsertNotification, InboxInv, InboxTypeOK
<1>4. \A m \in Notifications : RowOK(rows[m], m, accepted)'
  BY DEF InsertNotification, InboxInv, InboxTypeOK, RowOK, NewRow
<1>5. \A m \in Notifications \ clobbered' : rows'[m].status = wanted'[m]
  BY DEF InsertNotification, InboxInv, InboxTypeOK, NewRow
<1> QED
  BY <1>2, <1>3, <1>4, <1>5 DEF InboxInv

LEMMA SkipKeeps ==
    ASSUME InboxInv, NEW h \in InboxHandlers, SkipPush(h)
    PROVE  InboxInv'
BY IdleRequest, NoRowWritten DEF SkipPush, InboxInv, InboxTypeOK

LEMMA PushKeeps ==
    ASSUME InboxInv, NEW h \in InboxHandlers, Push(h)
    PROVE  InboxInv'
<1> DEFINE d == inboxHandler[h]
           e == [d EXCEPT !.pc = "sent"]
<1>1. d \in InboxRequest /\ RequestOK(d, used, accepted) /\ d.pc = "push"
  BY DEF InboxInv, InboxTypeOK, InboxAt, Push
<1>2. PICK n \in used : d.todo = {n} /\ d.copy = NewRow
  BY <1>1 DEF RequestOK
<1>3. Current(h) = n
  BY <1>2 DEF Current
<1>4. e \in InboxRequest /\ e.pc = "sent" /\ e.todo = {n} /\ e.copy = NewRow
  BY <1>1, <1>2 DEF InboxRequest
<1>5. accepted' = accepted \cup {n} /\ inboxHandler' = [inboxHandler EXCEPT ![h] = e]
  BY <1>3 DEF Push
<1>6. RequestOK(e, used', accepted')
  BY <1>4, <1>5 DEF RequestOK, Push
<1> QED
  BY <1>4, <1>5, <1>6, NoRowWritten DEF Push, InboxInv, InboxTypeOK

\* The copy is the row as it was inserted: what was read since is lost, but the
\* push was accepted.
LEMMA SentKeeps ==
    ASSUME InboxInv, NEW h \in InboxHandlers, SaveSent(h)
    PROVE  InboxInv'
<1> DEFINE d == inboxHandler[h]
           c == [d.copy EXCEPT !.isSent = TRUE]
<1>1. d \in InboxRequest /\ RequestOK(d, used, accepted) /\ d.pc = "sent"
  BY DEF InboxInv, InboxTypeOK, InboxAt, SaveSent
<1>2. PICK n \in used : d.todo = {n} /\ d.copy = NewRow /\ n \in accepted
  BY <1>1 DEF RequestOK
<1>3. Current(h) = n /\ n \in Notifications
  BY <1>2 DEF Current, InboxInv, InboxTypeOK
<1>4. c \in InboxRow /\ c.status = d.copy.status /\ RowOK(c, n, accepted)
  <2>1. d.copy \in InboxRow /\ d.copy.status = "UNREAD"
    BY <1>1, <1>2 DEF NewRow, InboxRequest
  <2>2. c \in InboxRow /\ c.status = "UNREAD"
    BY <2>1 DEF InboxRow
  <2> QED
    BY <1>2, <2>1, <2>2 DEF RowOK
<1>5. wanted' = [wanted EXCEPT ![n] = wanted[n]] /\ wanted[n] \in {"absent", "UNREAD", "READ"}
  BY <1>3 DEF SaveSent, InboxInv, InboxTypeOK
<1>6. SaveRow(h, n, c) /\ inboxHandler' = [inboxHandler EXCEPT ![h] = IdleInbox]
        /\ UNCHANGED <<used, accepted, marks, inboxFaults>>
  BY <1>3 DEF SaveSent
<1> QED
  BY <1>3, <1>4, <1>5, <1>6, IdleRequest, SaveKeeps

LEMMA ReceiveMarkKeeps ==
    ASSUME InboxInv, NEW h \in InboxHandlers, NEW op \in {"READ", "UNREAD"},
           NEW S \in SUBSET Notifications, S # {}, NEW mine \in BOOLEAN,
           ReceiveMark(h, op, S, mine)
    PROVE  InboxInv'
<1> DEFINE e == [IdleInbox EXCEPT !.pc = "find", !.op = op, !.todo = S, !.mine = mine]
<1>1. e \in InboxRequest /\ RequestOK(e, used', accepted')
  BY IdleRequest DEF InboxRequest, RequestOK, IdleInbox
<1>2. marks' \in 0..MaxMarks
  BY InboxAssumption DEF ReceiveMark, InboxInv, InboxTypeOK
<1> QED
  BY <1>1, <1>2, NoRowWritten DEF ReceiveMark, InboxInv, InboxTypeOK

LEMMA FindRowKeeps ==
    ASSUME InboxInv, NEW h \in InboxHandlers, FindRow(h)
    PROVE  InboxInv'
<1> DEFINE d == inboxHandler[h]
           n == Current(h)
           e == [d EXCEPT !.pc = "save", !.copy = rows[n]]
<1>1. d \in InboxRequest /\ RequestOK(d, used, accepted) /\ d.pc = "find"
  BY DEF InboxInv, InboxTypeOK, InboxAt, FindRow
<1>2. n \in d.todo /\ n \in Notifications
  BY <1>1, CurrentIsHere DEF InboxAt
<1>3. CASE Finds(h)
  <2>1. rows[n] \in InboxRow /\ RowOK(rows[n], n, accepted)
    BY <1>2 DEF InboxInv, InboxTypeOK
  <2>2. e \in InboxRequest /\ e.pc = "save" /\ e.mine = d.mine /\ e.op = d.op
          /\ e.todo = d.todo /\ e.copy = rows[n]
    BY <1>1, <2>1 DEF InboxRequest
  <2>3. RequestOK(e, used', accepted')
    BY <1>1, <1>2, <1>3, <2>1, <2>2 DEF RequestOK, FindRow, Finds, Current, RowOK
  <2>4. inboxHandler' = [inboxHandler EXCEPT ![h] = e]
    BY <1>3 DEF FindRow
  <2> QED
    BY <2>2, <2>3, <2>4, NoRowWritten DEF FindRow, InboxInv, InboxTypeOK
<1>4. CASE ~Finds(h)
  <2>1. PICK f \in InboxRequest : /\ inboxHandler' = [inboxHandler EXCEPT ![h] = f]
                                  /\ \A u, a : RequestOK(f, u, a)
    BY <1>1, <1>4, NextRequest DEF FindRow, InboxAt
  <2> QED
    BY <2>1, NoRowWritten DEF FindRow, InboxInv, InboxTypeOK
<1> QED
  BY <1>3, <1>4

LEMMA SaveMarkKeeps ==
    ASSUME InboxInv, NEW h \in InboxHandlers, SaveMark(h)
    PROVE  InboxInv'
<1> DEFINE d == inboxHandler[h]
           n == Current(h)
           c == [d.copy EXCEPT !.status = d.op]
<1>1. d \in InboxRequest /\ RequestOK(d, used, accepted) /\ d.pc = "save"
  BY DEF InboxInv, InboxTypeOK, InboxAt, SaveMark
<1>2. n \in Notifications /\ d.mine /\ d.op \in {"READ", "UNREAD"}
        /\ RowOK(d.copy, n, accepted)
  <2>1. n \in Notifications
    BY <1>1, CurrentIsHere DEF InboxAt
  <2>2. /\ d.mine /\ d.op \in {"READ", "UNREAD"}
        /\ RowOK(d.copy, CHOOSE m \in d.todo : TRUE, accepted)
    BY <1>1 DEF RequestOK
  <2> QED
    BY <2>1, <2>2 DEF Current
<1>3. c \in InboxRow /\ c.status = d.op /\ RowOK(c, n, accepted)
  BY <1>1, <1>2 DEF InboxRequest, InboxRow, RowOK
<1>4. wanted' = [wanted EXCEPT ![n] = d.op]
  BY <1>2 DEF SaveMark
<1>5. PICK e \in InboxRequest : /\ inboxHandler' = [inboxHandler EXCEPT ![h] = e]
                                /\ \A u, a : RequestOK(e, u, a)
  BY <1>1, NextRequest DEF SaveMark, InboxAt
<1> QED
  BY <1>2, <1>3, <1>4, <1>5, SaveKeeps DEF SaveMark, MarkedRow

\* The requests in flight know nothing of the rows that could become wrong.
LEMMA StatementKeeps ==
    ASSUME InboxInv, rows' \in [Notifications -> InboxRow],
           wanted' \in [Notifications -> {"absent", "UNREAD", "READ"}],
           UNCHANGED <<used, accepted, inboxHandler, inboxFaults, clobbered>>,
           marks' \in 0..MaxMarks,
           \A n \in Notifications : RowOK(rows'[n], n, accepted),
           \A n \in Notifications : rows[n].status = wanted[n] => rows'[n].status = wanted'[n]
    PROVE  InboxInv'
<1>1. InboxTypeOK'
  BY DEF InboxInv, InboxTypeOK
<1>2. \A n \in Notifications : RowOK(rows[n], n, accepted)'
  BY DEF RowOK
<1>3. \A n \in (Notifications \ clobbered)' : (rows[n].status = wanted[n])'
  BY DEF InboxInv
<1>4. \A h \in InboxHandlers : RequestOK(inboxHandler[h], used, accepted)'
  BY DEF InboxInv, RequestOK, RowOK
<1> QED
  BY <1>1, <1>2, <1>3, <1>4 DEF InboxInv

LEMMA MarkAllKeeps ==
    ASSUME InboxInv, MarkAllAsRead
    PROVE  InboxInv'
<1>1. ASSUME NEW n \in Notifications
      PROVE  /\ rows'[n] \in InboxRow /\ RowOK(rows'[n], n, accepted)
             /\ wanted'[n] \in {"absent", "UNREAD", "READ"}
             /\ rows[n].status = wanted[n] => rows'[n].status = wanted'[n]
  <2>1. rows[n] \in InboxRow /\ RowOK(rows[n], n, accepted)
          /\ wanted[n] \in {"absent", "UNREAD", "READ"}
    BY DEF InboxInv, InboxTypeOK
  <2>2. CASE rows[n].status = "UNREAD"
    BY <2>1, <2>2 DEF MarkAllAsRead, InboxRow, RowOK, Gone
  <2>3. CASE rows[n].status # "UNREAD"
    BY <2>1, <2>3 DEF MarkAllAsRead, InboxRow, RowOK, Gone
  <2> QED
    BY <2>2, <2>3
<1>2. rows' \in [Notifications -> InboxRow]
        /\ wanted' \in [Notifications -> {"absent", "UNREAD", "READ"}]
  BY <1>1 DEF MarkAllAsRead
<1>3. marks' \in 0..MaxMarks
  BY InboxAssumption DEF MarkAllAsRead, InboxInv, InboxTypeOK
<1> QED
  BY <1>1, <1>2, <1>3, StatementKeeps DEF MarkAllAsRead

LEMMA DeleteKeeps ==
    ASSUME InboxInv, NEW n \in Notifications, DeleteNotification(n)
    PROVE  InboxInv'
<1>1. rows' \in [Notifications -> InboxRow]
        /\ wanted' \in [Notifications -> {"absent", "UNREAD", "READ"}]
  BY IdleRequest DEF DeleteNotification, InboxInv, InboxTypeOK
<1>2. \A m \in Notifications : /\ RowOK(rows'[m], m, accepted)
                               /\ rows[m].status = wanted[m] => rows'[m].status = wanted'[m]
  BY DEF DeleteNotification, InboxInv, InboxTypeOK, RowOK, Gone
<1>3. marks' \in 0..MaxMarks
  BY InboxAssumption DEF DeleteNotification, InboxInv, InboxTypeOK
<1> QED
  BY <1>1, <1>2, <1>3, StatementKeeps DEF DeleteNotification

LEMMA FailInboxKeeps ==
    ASSUME InboxInv, NEW h \in InboxHandlers, FailInbox(h)
    PROVE  InboxInv'
<1>1. PICK e \in InboxRequest : /\ inboxHandler' = [inboxHandler EXCEPT ![h] = e]
                                /\ \A u, a : RequestOK(e, u, a)
  BY NextRequest, IdleRequest DEF FailInbox
<1>2. inboxFaults' \in 0..MaxInboxFaults
  BY InboxAssumption DEF FailInbox, InboxInv, InboxTypeOK
<1> QED
  BY <1>1, <1>2, NoRowWritten DEF FailInbox, InboxInv, InboxTypeOK

-----------------------------------------------------------------------------
\* The inductive invariant of NotificationService, whichever rows and requests
\* cross and whatever fails.
THEOREM InboxInvariance == InboxSpec => []InboxInv
<1>1. InboxInv /\ [InboxNext]_inboxVars => InboxInv'
  <2> SUFFICES ASSUME InboxInv, [InboxNext]_inboxVars PROVE InboxInv'
    OBVIOUS
  <2>1. CASE UNCHANGED inboxVars
    BY <2>1 DEF inboxVars, InboxInv, InboxTypeOK, RowOK, RequestOK
  <2>2. ASSUME NEW h \in InboxHandlers, NEW n \in Notifications, InsertNotification(h, n)
        PROVE  InboxInv'
    BY <2>2, InsertKeeps
  <2>3. ASSUME NEW h \in InboxHandlers, SkipPush(h) \/ Push(h) \/ SaveSent(h)
        PROVE  InboxInv'
    BY <2>3, SkipKeeps, PushKeeps, SentKeeps
  <2>4. ASSUME NEW h \in InboxHandlers, NEW op \in {"READ", "UNREAD"},
               NEW S \in SUBSET Notifications, S # {}, NEW mine \in BOOLEAN,
               ReceiveMark(h, op, S, mine)
        PROVE  InboxInv'
    BY <2>4, ReceiveMarkKeeps
  <2>5. ASSUME NEW h \in InboxHandlers, FindRow(h) \/ SaveMark(h) \/ FailInbox(h)
        PROVE  InboxInv'
    BY <2>5, FindRowKeeps, SaveMarkKeeps, FailInboxKeeps
  <2>6. CASE MarkAllAsRead
    BY <2>6, MarkAllKeeps
  <2>7. ASSUME NEW n \in Notifications, DeleteNotification(n)
        PROVE  InboxInv'
    BY <2>7, DeleteKeeps
  <2> QED
    BY <2>1, <2>2, <2>3, <2>4, <2>5, <2>6, <2>7, InboxAssumption DEF InboxNext
<1> QED
  BY <1>1, InboxInitOK, PTL DEF InboxSpec

\* Rows, ids and requests in flight keep their types.
THEOREM InboxTypeCorrect == InboxSpec => []InboxTypeOK
<1>1. InboxInv => InboxTypeOK
  BY DEF InboxInv
<1> QED
  BY <1>1, InboxInvariance, PTL

\* A notification shown as sent has had its push accepted by FCM, whichever
\* stale copy of its row was saved last.
THEOREM SentMeansPushed == InboxSpec => []SentWasPushed
<1>1. InboxInv => SentWasPushed
  BY DEF InboxInv, SentWasPushed, RowOK
<1> QED
  BY <1>1, InboxInvariance, PTL

\* A notification reads what its user last did to it, unless a save wrote a
\* copy over a row that had changed since it was read.
THEOREM MarksAreKept == InboxSpec => []MarksStick
<1>1. InboxInv => MarksStick
  BY DEF InboxInv, MarksStick
<1> QED
  BY <1>1, InboxInvariance, PTL

-----------------------------------------------------------------------------
(* The places. A type that a fetch has tried and not found was missed       *)
(* within this tick, for no tick falls into it.                             *)

\* What a fetch knows: each type is still to do, found, or just missed (m).
FetchOK(d, m) ==
    d.pc = "fetch" => \A type \in PlaceTypes \ (d.todo \cup d.found) : m[type] = PlacesTtl

CacheOK ==
    placeCache # {} =>
      /\ placesLeft > 0
      /\ \A type \in PlaceTypes \ placeCache : missing[type] >= placesLeft

AnswerOK ==
    answer # NoAnswer => \A type \in Kept(answer.list) \ answer.types : missing[type] > 0

PlaceInv ==
    /\ PlaceTypeOK /\ CacheOK /\ AnswerOK
    /\ \A h \in PlaceHandlers : FetchOK(placeHandler[h], missing)

-----------------------------------------------------------------------------
LEMMA IdlePlacesOK == IdlePlaces \in PlaceRequest /\ \A m : FetchOK(IdlePlaces, m)
BY DEF IdlePlaces, PlaceRequest, FetchOK

LEMMA KeptTypes == \A list : Kept(list) \subseteq PlaceTypes
BY DEF Kept

LEMMA StaticTypesType == StaticTypes \subseteq PlaceTypes
BY DEF StaticTypes

\* An answer lacks only types that were missed, when what it is made from does.
LEMMA AnswerLacksMissed ==
    ASSUME NEW list \in Lists \cup {"none"}, NEW S \in SUBSET PlaceTypes,
           AnswerPlaces(list, S),
           \A type \in PlaceTypes \ S : missing'[type] > 0
    PROVE  answer' \in [list : Lists \cup {"none"}, types : SUBSET PlaceTypes] /\ AnswerOK'
<1>1. answer' = [list |-> list, types |-> S \cap Kept(list)]
  BY DEF AnswerPlaces
<1>2. \A type \in Kept(list) \ (S \cap Kept(list)) : missing'[type] > 0
  BY KeptTypes
<1> QED
  BY <1>1, <1>2 DEF AnswerOK, Kept

\* A request that goes on from one await to the next, without an answer.
LEMMA FetchGoesOn ==
    ASSUME PlaceInv, NEW h \in PlaceHandlers, NEW e \in PlaceRequest,
           placeHandler' = [placeHandler EXCEPT ![h] = e],
           missing' \in [PlaceTypes -> 0..PlacesTtl],
           \A type \in PlaceTypes : missing'[type] \in {missing[type], PlacesTtl},
           FetchOK(e, missing'),
           UNCHANGED <<province, placeCache, placesLeft>>, answer' = NoAnswer
    PROVE  PlaceInv'
<1>1. PlaceTypeOK'
  BY DEF PlaceInv, PlaceTypeOK, NoAnswer
<1>2. CacheOK'
  BY DEF PlaceInv, PlaceTypeOK, CacheOK
<1>3. AnswerOK'
  BY DEF AnswerOK, NoAnswer
<1>4. ASSUME NEW g \in PlaceHandlers
      PROVE  FetchOK(placeHandler'[g], missing')
  <2>1. CASE g = h
    BY <2>1 DEF PlaceInv, PlaceTypeOK
  <2>2. CASE g # h
    BY <2>2 DEF PlaceInv, PlaceTypeOK, FetchOK
  <2> QED
    BY <2>1, <2>2
<1> QED
  BY <1>1, <1>2, <1>3, <1>4 DEF PlaceInv

-----------------------------------------------------------------------------
LEMMA PlaceInitOK == PlaceInit => PlaceInv
BY IdlePlacesOK, GeographyAssumption
DEF PlaceInit, PlaceInv, PlaceTypeOK, CacheOK, AnswerOK, NoAnswer

LEMMA FromCacheKeeps ==
    ASSUME PlaceInv, NEW list \in Lists, AnswerFromCache(list)
    PROVE  PlaceInv'
<1>1. \A type \in PlaceTypes \ placeCache : missing'[type] > 0
  BY DEF AnswerFromCache, PlaceInv, PlaceTypeOK, CacheOK
<1>2. answer' \in [list : Lists \cup {"none"}, types : SUBSET PlaceTypes] /\ AnswerOK'
  BY <1>1, AnswerLacksMissed DEF AnswerFromCache, PlaceInv, PlaceTypeOK
<1>3. PlaceTypeOK' /\ CacheOK'
  BY <1>2 DEF AnswerFromCache, PlaceInv, PlaceTypeOK, CacheOK
<1>4. \A g \in PlaceHandlers : FetchOK(placeHandler'[g], missing')
  BY DEF AnswerFromCache, PlaceInv
<1> QED
  BY <1>2, <1>3, <1>4 DEF PlaceInv

LEMMA LookUpKeeps ==
    ASSUME PlaceInv, NEW h \in PlaceHandlers, NEW list \in Lists, LookUpPlaces(h, list)
    PROVE  PlaceInv'
<1> DEFINE e == [IdlePlaces EXCEPT !.pc = "fetch", !.list = list, !.todo = PlaceTypes]
<1>1. e \in PlaceRequest /\ e.todo = PlaceTypes
  BY IdlePlacesOK DEF PlaceRequest
<1>2. FetchOK(e, missing')
  BY <1>1 DEF FetchOK
<1> QED
  BY <1>1, <1>2, FetchGoesOn DEF LookUpPlaces, PlaceInv, PlaceTypeOK

LEMMA FetchKeeps ==
    ASSUME PlaceInv, NEW h \in PlaceHandlers, NEW type \in PlaceTypes, FetchType(h, type)
    PROVE  PlaceInv'
<1> DEFINE d == placeHandler[h]
           e == [d EXCEPT !.todo = d.todo \ {type}, !.found = d.found \cup {type}]
<1>1. d \in PlaceRequest /\ FetchOK(d, missing) /\ d.pc = "fetch"
  BY DEF PlaceInv, PlaceTypeOK, FetchType, PlacesAt
<1>2. e \in PlaceRequest /\ FetchOK(e, missing)
  BY <1>1 DEF PlaceRequest, FetchOK
<1>3. placeHandler' = [placeHandler EXCEPT ![h] = e]
  BY DEF FetchType, PlaceInv, PlaceTypeOK, PlaceRequest
<1> QED
  BY <1>2, <1>3, FetchGoesOn DEF FetchType, PlaceInv, PlaceTypeOK

\* The one step that makes a list shorter is the one that misses the type.
LEMMA MissKeeps ==
    ASSUME PlaceInv, NEW h \in PlaceHandlers, NEW type \in PlaceTypes, MissType(h, type)
    PROVE  PlaceInv'
<1> DEFINE d == placeHandler[h]
           e == [d EXCEPT !.todo = d.todo \ {type}]
<1>1. d \in PlaceRequest /\ FetchOK(d, missing) /\ d.pc = "fetch"
  BY DEF PlaceInv, PlaceTypeOK, MissType, PlacesAt
<1>2. missing' = [missing EXCEPT ![type] = PlacesTtl] /\ missing \in [PlaceTypes -> 0..PlacesTtl]
  BY DEF MissType, PlaceInv, PlaceTypeOK
<1>3. e \in PlaceRequest /\ FetchOK(e, missing')
  BY <1>1, <1>2 DEF PlaceRequest, FetchOK
<1>4. placeHandler' = [placeHandler EXCEPT ![h] = e]
  BY DEF MissType, PlaceInv, PlaceTypeOK, PlaceRequest
<1>5. missing' \in [PlaceTypes -> 0..PlacesTtl]
        /\ \A t \in PlaceTypes : missing'[t] \in {missing[t], PlacesTtl}
  BY <1>2, GeographyAssumption
<1> QED
  BY <1>3, <1>4, <1>5, FetchGoesOn DEF MissType

LEMMA CacheKeeps ==
    ASSUME PlaceInv, NEW h \in PlaceHandlers, CachePlaces(h)
    PROVE  PlaceInv'
<1> DEFINE d == placeHandler[h]
<1>1. d \in PlaceRequest /\ FetchOK(d, missing) /\ d.pc = "fetch" /\ d.todo = {}
  BY DEF PlaceInv, PlaceTypeOK, CachePlaces, PlacesAt
<1>2. missing' = missing /\ \A type \in PlaceTypes \ d.found : missing[type] = PlacesTtl
  BY <1>1 DEF FetchOK, CachePlaces
<1>3. d.list \in Lists \cup {"none"} /\ d.found \in SUBSET PlaceTypes
  BY <1>1 DEF PlaceRequest
<1>4. answer' \in [list : Lists \cup {"none"}, types : SUBSET PlaceTypes] /\ AnswerOK'
  <2>1. CASE d.found = {}
    <3>1. AnswerPlaces(d.list, StaticTypes)
      BY <2>1 DEF CachePlaces
    <3>2. \A type \in PlaceTypes \ StaticTypes : missing'[type] > 0
      BY <1>2, <2>1, GeographyAssumption
    <3> QED
      BY <1>3, <3>1, <3>2, StaticTypesType, AnswerLacksMissed
  <2>2. CASE d.found # {}
    <3>1. AnswerPlaces(d.list, d.found)
      BY <2>2 DEF CachePlaces
    <3>2. \A type \in PlaceTypes \ d.found : missing'[type] > 0
      BY <1>2, GeographyAssumption
    <3> QED
      BY <1>3, <3>1, <3>2, AnswerLacksMissed
  <2> QED
    BY <2>1, <2>2
<1>5. placeHandler' = [placeHandler EXCEPT ![h] = IdlePlaces]
  BY DEF CachePlaces
<1>6. PlaceTypeOK'
  BY <1>3, <1>4, <1>5, IdlePlacesOK, GeographyAssumption DEF CachePlaces, PlaceInv, PlaceTypeOK
<1>7. CacheOK'
  <2>1. CASE d.found = {}
    BY <2>1 DEF CachePlaces, PlaceInv, CacheOK
  <2>2. CASE d.found # {}
    BY <1>2, <2>2, GeographyAssumption DEF CachePlaces, CacheOK
  <2> QED
    BY <2>1, <2>2
<1>8. \A g \in PlaceHandlers : FetchOK(placeHandler'[g], missing')
  BY <1>2, <1>5, IdlePlacesOK DEF PlaceInv, PlaceTypeOK
<1> QED
  BY <1>4, <1>6, <1>7, <1>8 DEF PlaceInv

\* The cached list and the misses it is excused by grow old together.
LEMMA TickKeeps ==
    ASSUME PlaceInv, PlaceTick
    PROVE  PlaceInv'
<1>1. placesLeft \in 0..PlacesTtl /\ missing \in [PlaceTypes -> 0..PlacesTtl]
  BY DEF PlaceInv, PlaceTypeOK
<1>2. placesLeft' \in 0..PlacesTtl /\ missing' \in [PlaceTypes -> 0..PlacesTtl]
  BY <1>1, GeographyAssumption DEF PlaceTick
<1>3. PlaceTypeOK'
  BY <1>2 DEF PlaceTick, PlaceInv, PlaceTypeOK, NoAnswer
<1>4. CacheOK'
  <2> SUFFICES ASSUME placeCache' # {}
               PROVE  /\ placesLeft' > 0
                      /\ \A type \in PlaceTypes \ placeCache' : missing'[type] >= placesLeft'
    BY DEF CacheOK
  <2>1. placeCache' = placeCache /\ placeCache # {} /\ placesLeft # 1
    BY DEF PlaceTick
  <2>2. placesLeft > 1 /\ placesLeft' = placesLeft - 1
    BY <1>1, <2>1, GeographyAssumption DEF PlaceTick, PlaceInv, CacheOK
  <2>3. ASSUME NEW type \in PlaceTypes \ placeCache
        PROVE  missing'[type] >= placesLeft'
    <3>1. missing[type] >= placesLeft /\ missing[type] \in 0..PlacesTtl
      BY <1>1, <2>1 DEF PlaceInv, CacheOK
    <3>2. missing'[type] = missing[type] - 1
      BY <1>1, <2>2, <3>1, GeographyAssumption DEF PlaceTick
    <3> QED
      BY <1>1, <2>2, <3>1, <3>2, GeographyAssumption
  <2> QED
    BY <1>1, <2>1, <2>2, <2>3, GeographyAssumption
<1>5. AnswerOK'
  BY DEF PlaceTick, AnswerOK, NoAnswer
<1>6. \A h \in PlaceHandlers : FetchOK(placeHandler'[h], missing')
  BY DEF PlaceTick, PlacesAt, FetchOK
<1> QED
  BY <1>3, <1>4, <1>5, <1>6 DEF PlaceInv

LEMMA RestartPlacesKeeps ==
    ASSUME PlaceInv, RestartPlaces
    PROVE  PlaceInv'
<1>1. PlaceTypeOK' /\ CacheOK' /\ AnswerOK'
  BY IdlePlacesOK, GeographyAssumption
  DEF RestartPlaces, PlaceInv, PlaceTypeOK, CacheOK, AnswerOK, NoAnswer
<1>2. \A h \in PlaceHandlers : FetchOK(placeHandler'[h], missing')
  BY IdlePlacesOK DEF RestartPlaces
<1> QED
  BY <1>1, <1>2 DEF PlaceInv

-----------------------------------------------------------------------------
\* The inductive invariant of GeographicService, with requests that cross,
\* types that fail, lists that expire and restarts.
THEOREM PlaceInvariance == PlaceSpec => []PlaceInv
<1>1. PlaceInv /\ [PlaceNext]_placeVars => PlaceInv'
  <2> SUFFICES ASSUME PlaceInv, [PlaceNext]_placeVars PROVE PlaceInv'
    OBVIOUS
  <2>1. CASE UNCHANGED placeVars
    BY <2>1 DEF placeVars, PlaceInv, PlaceTypeOK, CacheOK, AnswerOK, FetchOK
  <2>2. ASSUME NEW h \in PlaceHandlers, NEW list \in Lists, LookUpPlaces(h, list)
        PROVE  PlaceInv'
    BY <2>2, LookUpKeeps
  <2>3. ASSUME NEW h \in PlaceHandlers, NEW type \in PlaceTypes,
               FetchType(h, type) \/ MissType(h, type)
        PROVE  PlaceInv'
    BY <2>3, FetchKeeps, MissKeeps
  <2>4. ASSUME NEW h \in PlaceHandlers, CachePlaces(h)
        PROVE  PlaceInv'
    BY <2>4, CacheKeeps
  <2>5. ASSUME NEW list \in Lists, AnswerFromCache(list)
        PROVE  PlaceInv'
    BY <2>5, FromCacheKeeps
  <2>6. CASE PlaceTick
    BY <2>6, TickKeeps
  <2>7. CASE RestartPlaces
    BY <2>7, RestartPlacesKeeps
  <2> QED
    BY <2>1, <2>2, <2>3, <2>4, <2>5, <2>6, <2>7 DEF PlaceNext
<1> QED
  BY <1>1, PlaceInitOK, PTL DEF PlaceSpec

\* The cache, its age and the requests in flight keep their types.
THEOREM PlaceTypeCorrect == PlaceSpec => []PlaceTypeOK
<1>1. PlaceInv => PlaceTypeOK
  BY DEF PlaceInv
<1> QED
  BY <1>1, PlaceInvariance, PTL

\* A list lacks a type of places only while CGNDB did not deliver that very
\* type within the time to live of the cache.
THEOREM GapsAreExcused == PlaceSpec => []GapsHaveCause
<1>1. PlaceInv => GapsHaveCause
  BY DEF PlaceInv, GapsHaveCause, CacheOK, AnswerOK
<1> QED
  BY <1>1, PlaceInvariance, PTL

-----------------------------------------------------------------------------
(* Rate limiting. The counter and the requests about to raise it stay       *)
(* within bounds together.                                                  *)

Consuming == {h \in LimitHandlers : LimitAt(h, "consume")}

LimitTyped ==
    /\ LimitTypeOK
    /\ counter.count + Cardinality(Consuming) <= Points + Cardinality(LimitHandlers)

LEMMA LimitCounts ==
    ASSUME NEW S, S \subseteq LimitHandlers
    PROVE  /\ IsFiniteSet(S) /\ Cardinality(S) \in Nat /\ Cardinality(LimitHandlers) \in Nat
           /\ Cardinality(S) <= Cardinality(LimitHandlers)
BY LimitAssumption, FS_Subset, FS_CardinalityType

\* What a step of one request does to the others.
LEMMA LimitMoves ==
    ASSUME LimitTypeOK, NEW h \in LimitHandlers, NEW pc, NEW seen,
           LimitGoes(h, pc, seen)
    PROVE  /\ limitHandler'[h] = [pc |-> pc, seen |-> seen]
           /\ \A g \in LimitHandlers \ {h} : limitHandler'[g] = limitHandler[g]
           /\ DOMAIN limitHandler' = LimitHandlers
           /\ pc = "consume" => Consuming' = Consuming \cup {h}
           /\ pc # "consume" => Consuming' = Consuming \ {h}
<1>1. limitHandler' = [limitHandler EXCEPT ![h] = [pc |-> pc, seen |-> seen]]
  BY DEF LimitGoes
<1>2. /\ limitHandler'[h] = [pc |-> pc, seen |-> seen]
      /\ \A g \in LimitHandlers \ {h} : limitHandler'[g] = limitHandler[g]
      /\ DOMAIN limitHandler' = LimitHandlers
  BY <1>1 DEF LimitTypeOK
<1>3. \A g \in LimitHandlers : limitHandler'[g].pc = IF g = h THEN pc ELSE limitHandler[g].pc
  BY <1>2
<1>4. Consuming' = {g \in LimitHandlers : limitHandler'[g].pc = "consume"}
  BY DEF Consuming, LimitAt
<1>5. pc = "consume" => Consuming' = Consuming \cup {h}
  BY <1>3, <1>4 DEF Consuming, LimitAt
<1>6. pc # "consume" => Consuming' = Consuming \ {h}
  BY <1>3, <1>4 DEF Consuming, LimitAt
<1> QED
  BY <1>2, <1>5, <1>6

LEMMA LimitLeaves ==
    ASSUME LimitTypeOK, NEW h \in LimitHandlers, NEW pc \in {"idle", "count", "block"},
           NEW seen, LimitGoes(h, pc, seen)
    PROVE  Consuming' = Consuming \ {h}
<1>1. pc # "consume"
  OBVIOUS
<1> QED
  BY <1>1, LimitMoves

LEMMA LimitHandlerTyped ==
    ASSUME LimitTypeOK, NEW h \in LimitHandlers,
           NEW pc \in {"idle", "count", "block", "consume"}, NEW seen \in 0..(Points - 1),
           LimitGoes(h, pc, seen)
    PROVE  limitHandler' \in [LimitHandlers ->
              [pc : {"idle", "count", "block", "consume"}, seen : 0..(Points - 1)]]
<1>1. limitHandler' = [limitHandler EXCEPT ![h] = [pc |-> pc, seen |-> seen]]
  BY DEF LimitGoes
<1> QED
  BY <1>1 DEF LimitTypeOK

LEMMA LimitAnswered ==
    ASSUME LimitTypeOK, NEW h \in LimitHandlers, LimitAnswers(h)
    PROVE  /\ limitHandler'[h] = IdleLimit
           /\ \A g \in LimitHandlers \ {h} : limitHandler'[g] = limitHandler[g]
           /\ Consuming' = Consuming \ {h}
           /\ limitHandler' \in [LimitHandlers ->
                [pc : {"idle", "count", "block", "consume"}, seen : 0..(Points - 1)]]
<1>1. LimitGoes(h, "idle", 0)
  BY DEF LimitAnswers, LimitGoes, IdleLimit
<1>2. 0 \in 0..(Points - 1)
  BY LimitAssumption
<1>3. limitHandler' \in [LimitHandlers ->
        [pc : {"idle", "count", "block", "consume"}, seen : 0..(Points - 1)]]
  BY <1>1, <1>2, LimitHandlerTyped
<1> QED
  BY <1>1, <1>3, LimitMoves DEF IdleLimit

LEMMA LimitInitTyped == LimitInit => LimitTyped
<1> SUFFICES ASSUME LimitInit PROVE LimitTyped
  OBVIOUS
<1>1. Consuming = {}
  BY DEF LimitInit, Consuming, LimitAt, IdleLimit
<1>2. Cardinality(Consuming) = 0 /\ Cardinality(LimitHandlers) \in Nat
  BY <1>1, FS_EmptySet, LimitCounts
<1>3. LimitTypeOK
  <2>1. /\ Points \in Nat \ {0} /\ Duration \in Nat \ {0} /\ BlockDuration \in Nat
        /\ 0 \in 0..(Points - 1)
    BY LimitAssumption
  <2>2. counter \in [count : 0..(Points + Cardinality(LimitHandlers)), left : 0..Duration]
    BY <1>2, <2>1 DEF LimitInit, NoCounter
  <2>3. limitHandler \in [LimitHandlers ->
          [pc : {"idle", "count", "block", "consume"}, seen : 0..(Points - 1)]]
    BY <2>1 DEF LimitInit, IdleLimit
  <2>4. block \in 0..BlockDuration /\ recent \in [1..Duration -> Nat]
    BY <2>1 DEF LimitInit
  <2>5. crowded \in BOOLEAN
    BY DEF LimitInit
  <2> QED
    BY <2>2, <2>3, <2>4, <2>5 DEF LimitTypeOK
<1> QED
  BY <1>2, <1>3, LimitAssumption DEF LimitTyped, LimitInit, NoCounter

LEMMA LimitStepTyped ==
    ASSUME LimitTyped, NEW h \in LimitHandlers,
           \/ CheckBlock(h) \/ ReadCount(h) \/ SetBlock(h) \/ Consume(h) \/ FailLimit(h)
    PROVE  LimitTyped'
<1> DEFINE C == Cardinality(Consuming)
           N == Cardinality(LimitHandlers)
<1>1. LimitTypeOK /\ counter.count + C <= Points + N
  BY DEF LimitTyped
<1>2. /\ C \in Nat /\ N \in Nat /\ C <= N /\ IsFiniteSet(Consuming)
      /\ Cardinality(Consuming') \in Nat /\ Cardinality(Consuming') <= N
  <2>1. Consuming \subseteq LimitHandlers /\ Consuming' \subseteq LimitHandlers
    BY DEF Consuming
  <2> QED
    BY <2>1, LimitCounts
<1>3. /\ Points \in Nat /\ Points >= 1 /\ Duration \in Nat /\ Duration >= 1
      /\ counter.count \in Nat /\ counter.left \in 0..Duration
      /\ 0 \in 0..(Points - 1)
  BY <1>1, <1>2, LimitAssumption DEF LimitTypeOK
<1>4. Cardinality(Consuming \ {h}) <= C
  BY <1>2, FS_Subset
<1>5. ASSUME limitHandler' \in [LimitHandlers ->
               [pc : {"idle", "count", "block", "consume"}, seen : 0..(Points - 1)]],
             counter' = counter, recent' = recent, block' \in 0..BlockDuration,
             crowded' \in BOOLEAN, counter.count + Cardinality(Consuming') <= Points + N
      PROVE  LimitTyped'
  BY <1>1, <1>5 DEF LimitTyped, LimitTypeOK
<1> HIDE DEF C, N
<1>6. CASE CheckBlock(h)
  <2>1. LimitGoes(h, "count", 0) \/ LimitAnswers(h)
    BY <1>6 DEF CheckBlock
  <2>3. Consuming' = Consuming \ {h}
    BY <1>1, <2>1, LimitLeaves, LimitAnswered
  <2>4. counter.count + Cardinality(Consuming') <= Points + N
    BY <1>1, <1>2, <1>3, <1>4, <2>3
  <2>5. limitHandler' \in [LimitHandlers ->
          [pc : {"idle", "count", "block", "consume"}, seen : 0..(Points - 1)]]
    BY <1>1, <1>3, <2>1, LimitHandlerTyped, LimitAnswered
  <2>6. /\ counter' = counter /\ recent' = recent /\ block' \in 0..BlockDuration
        /\ crowded' \in BOOLEAN
    BY <1>1, <1>6 DEF CheckBlock, LimitTypeOK
  <2> QED
    BY <1>5, <2>4, <2>5, <2>6
<1>7. CASE ReadCount(h)
  <2>1. CASE Exceeds(counter.count)
    <3>1. LimitGoes(h, "block", 0)
      BY <1>7, <2>1 DEF ReadCount
    <3>2. Consuming' = Consuming \ {h}
      BY <1>1, <3>1, LimitLeaves
    <3>3. counter.count + Cardinality(Consuming') <= Points + N
      BY <1>1, <1>2, <1>3, <1>4, <3>2
    <3>4. limitHandler' \in [LimitHandlers ->
            [pc : {"idle", "count", "block", "consume"}, seen : 0..(Points - 1)]]
      BY <1>1, <1>3, <3>1, LimitHandlerTyped
    <3>5. /\ counter' = counter /\ recent' = recent /\ block' \in 0..BlockDuration
          /\ crowded' \in BOOLEAN
      BY <1>1, <1>7 DEF ReadCount, LimitTypeOK
    <3> QED
      BY <1>5, <3>3, <3>4, <3>5
  <2>2. CASE ~Exceeds(counter.count)
    <3>1. LimitGoes(h, "consume", counter.count) /\ counter.count \in 0..(Points - 1)
      BY <1>3, <1>7, <2>2 DEF ReadCount, Exceeds
    <3>2. Consuming' = Consuming \cup {h} /\ h \notin Consuming
      BY <1>1, <1>7, <3>1, LimitMoves DEF ReadCount, Consuming, LimitAt
    <3>3. Cardinality(Consuming') <= N
      BY <1>2
    <3>4. counter.count + Cardinality(Consuming') <= Points + N
      BY <1>2, <1>3, <3>1, <3>3
    <3>5. limitHandler' \in [LimitHandlers ->
            [pc : {"idle", "count", "block", "consume"}, seen : 0..(Points - 1)]]
      BY <1>1, <3>1, LimitHandlerTyped
    <3>6. /\ counter' = counter /\ recent' = recent /\ block' \in 0..BlockDuration
          /\ crowded' \in BOOLEAN
      BY <1>1, <1>7 DEF ReadCount, LimitTypeOK
    <3> QED
      BY <1>5, <3>4, <3>5, <3>6
  <2> QED
    BY <2>1, <2>2
<1>8. CASE SetBlock(h) \/ FailLimit(h)
  <2>1. LimitAnswers(h)
    BY <1>8 DEF SetBlock, FailLimit
  <2>2. Consuming' = Consuming \ {h}
    BY <1>1, <2>1, LimitAnswered
  <2>3. counter.count + Cardinality(Consuming') <= Points + N
    BY <1>1, <1>2, <1>3, <1>4, <2>2
  <2>4. limitHandler' \in [LimitHandlers ->
          [pc : {"idle", "count", "block", "consume"}, seen : 0..(Points - 1)]]
    BY <1>1, <2>1, LimitAnswered
  <2>5. /\ counter' = counter /\ recent' = recent /\ block' \in 0..BlockDuration
        /\ crowded' \in BOOLEAN
    BY <1>1, <1>8, LimitAssumption DEF SetBlock, FailLimit, LimitTypeOK
  <2> QED
    BY <1>5, <2>3, <2>4, <2>5
<1>9. CASE Consume(h)
  <2>1. LimitAnswers(h) /\ h \in Consuming
    BY <1>9 DEF Consume, Consuming, LimitAt
  <2>2. Consuming' = Consuming \ {h}
    BY <1>1, <2>1, LimitAnswered
  <2>3. Cardinality(Consuming') = C - 1
    BY <1>2, <2>1, <2>2, FS_RemoveElement DEF C
  <2>4. /\ counter'.count + Cardinality(Consuming') <= Points + N
        /\ counter'.count \in Nat
        /\ counter' \in [count : Nat, left : 0..Duration]
    <3>1. CASE limitHandler[h].seen = 0
      <4>1. counter' = [count |-> 1, left |-> Duration]
        BY <1>9, <3>1 DEF Consume, Consumed
      <4> QED
        BY <1>2, <1>3, <2>3, <4>1
    <3>2. CASE limitHandler[h].seen # 0
      <4>1. counter' = [counter EXCEPT !.count = counter.count + 1]
        BY <1>9, <3>2 DEF Consume, Consumed
      <4>2. counter \in [count : Nat, left : 0..Duration]
        BY <1>1, <1>3 DEF LimitTypeOK
      <4>3. counter'.count = counter.count + 1 /\ counter' \in [count : Nat, left : 0..Duration]
        BY <4>1, <4>2
      <4> QED
        BY <1>1, <1>2, <1>3, <2>3, <4>3
    <3> QED
      BY <3>1, <3>2
  <2>5. limitHandler' \in [LimitHandlers ->
          [pc : {"idle", "count", "block", "consume"}, seen : 0..(Points - 1)]]
    BY <1>1, <2>1, LimitAnswered
  <2>6. recent' \in [1..Duration -> Nat]
    <3>1. recent \in [1..Duration -> Nat] /\ 1 \in 1..Duration
      BY <1>1, <1>3 DEF LimitTypeOK
    <3>2. recent' = [recent EXCEPT ![1] = recent[1] + 1]
      BY <1>9 DEF Consume
    <3> QED
      BY <3>1, <3>2
  <2>7. block' \in 0..BlockDuration /\ crowded' \in BOOLEAN
    BY <1>1, <1>9 DEF Consume, LimitTypeOK
  <2>8. counter' \in [count : 0..(Points + N), left : 0..Duration]
    <3>1. counter'.count \in 0..(Points + N)
      BY <1>2, <1>3, <2>4
    <3> QED
      BY <2>4, <3>1
  <2> QED
    BY <2>4, <2>5, <2>6, <2>7, <2>8 DEF LimitTyped, LimitTypeOK, N
<1> QED
  BY <1>6, <1>7, <1>8, <1>9

LEMMA LimitTickTyped == LimitTyped /\ LimitTick => LimitTyped'
<1> SUFFICES ASSUME LimitTyped, LimitTick PROVE LimitTyped'
  OBVIOUS
<1>1. LimitTypeOK /\ UNCHANGED limitHandler
  BY DEF LimitTyped, LimitTick
<1>2. /\ Points \in Nat /\ Duration \in Nat /\ Duration >= 1 /\ BlockDuration \in Nat
      /\ Cardinality(LimitHandlers) \in Nat
  BY LimitAssumption, LimitCounts
<1>3. Consuming' = Consuming
  BY <1>1 DEF Consuming, LimitAt
<1>4. /\ counter' \in [count : 0..(Points + Cardinality(LimitHandlers)), left : 0..Duration]
      /\ counter'.count <= counter.count
  <2>1. counter \in [count : 0..(Points + Cardinality(LimitHandlers)), left : 0..Duration]
    BY <1>1 DEF LimitTypeOK
  <2>2. CASE counter.left > 1
    <3>1. counter' = [counter EXCEPT !.left = counter.left - 1]
      BY <2>2 DEF LimitTick
    <3> QED
      BY <1>2, <2>1, <2>2, <3>1
  <2>3. CASE counter.left = 1
    BY <1>2, <2>1, <2>3 DEF LimitTick, NoCounter
  <2>4. CASE counter.left = 0
    BY <1>2, <2>1, <2>4 DEF LimitTick
  <2> QED
    BY <1>2, <2>1, <2>2, <2>3, <2>4
<1>5. recent' \in [1..Duration -> Nat]
  BY <1>1, <1>2 DEF LimitTick, LimitTypeOK
<1>6. block' \in 0..BlockDuration
  BY <1>1, <1>2 DEF LimitTick, LimitTypeOK
<1>7. Cardinality(Consuming) \in Nat
  BY LimitCounts DEF Consuming
<1>8. counter'.count + Cardinality(Consuming') <= Points + Cardinality(LimitHandlers)
  <2>1. counter.count + Cardinality(Consuming) <= Points + Cardinality(LimitHandlers)
    BY DEF LimitTyped
  <2>2. counter.count \in Nat /\ counter'.count \in Nat
    BY <1>1, <1>2, <1>4 DEF LimitTypeOK
  <2> QED
    BY <1>2, <1>3, <1>4, <1>7, <2>1, <2>2
<1> QED
  BY <1>1, <1>4, <1>5, <1>6, <1>8 DEF LimitTyped, LimitTypeOK, LimitTick

LEMMA LimitNextTyped == LimitTyped /\ [LimitNext]_limitVars => LimitTyped'
<1> SUFFICES ASSUME LimitTyped, [LimitNext]_limitVars PROVE LimitTyped'
  OBVIOUS
<1>1. CASE UNCHANGED limitVars
  <2>1. Consuming' = Consuming
    BY <1>1 DEF Consuming, LimitAt, limitVars
  <2>2. LimitTypeOK' <=> LimitTypeOK
    BY <1>1 DEF LimitTypeOK, limitVars
  <2> QED
    BY <1>1, <2>1, <2>2 DEF LimitTyped, limitVars
<1>2. CASE LimitNext
  BY <1>2, LimitStepTyped, LimitTickTyped DEF LimitNext
<1> QED
  BY <1>1, <1>2

-----------------------------------------------------------------------------
(* While no two requests overlap, the window of the counter accounts for    *)
(* what was admitted in it, and what is left of the windows before it is    *)
(* less than the limit.                                                     *)

\* How many ticks the window of a counter that expires has lasted.
Age == Duration - counter.left + 1

Orderly ==
    /\ \A g, h \in LimitHandlers : ~LimitAt(g, "idle") /\ ~LimitAt(h, "idle") => g = h
    /\ \A h \in LimitHandlers :
         LimitAt(h, "consume") => counter.count \in {0, limitHandler[h].seen}
    /\ counter.count <= Points
    /\ counter.count = 0 => counter.left = 0 /\ recent[1] = 0
    /\ SumFunctionOnSet(recent, 1..Duration) <= Points - 1 + counter.count
    /\ counter.left > 0 =>
         recent[Age] > 0 /\ SumFunctionOnSet(recent, 1..Age) = counter.count

LimitInv == LimitTyped /\ (~crowded => Orderly)

LEMMA LimitInitInv == LimitInit => LimitInv
<1> SUFFICES ASSUME LimitInit PROVE LimitInv
  OBVIOUS
<1>1. LimitTyped
  BY LimitInitTyped
<1>2. /\ Points \in Nat /\ Points >= 1 /\ Duration \in Nat /\ Duration >= 1
      /\ recent = [t \in 1..Duration |-> 0] /\ counter.count = 0 /\ counter.left = 0
  BY LimitAssumption DEF LimitInit, NoCounter
<1>3. SumFunctionOnSet(recent, 1..Duration) = 0
  <2>1. \A i \in 1..Duration : recent[i] = 0
    BY <1>2
  <2> QED
    BY <1>2, <2>1, SumOfZeros
<1>4. Orderly
  <2>1. \A h \in LimitHandlers : LimitAt(h, "idle") /\ ~LimitAt(h, "consume")
    BY DEF LimitInit, LimitAt, IdleLimit
  <2>2. recent[1] = 0
    BY <1>2
  <2> QED
    BY <1>2, <1>3, <2>1, <2>2 DEF Orderly
<1> QED
  BY <1>1, <1>4 DEF LimitInv

\* A step that leaves the counter alone, of the one request there is.
LEMMA LimitQuiet ==
    ASSUME LimitTypeOK, Orderly, NEW h \in LimitHandlers,
           UNCHANGED <<counter, recent>>,
           \A g \in LimitHandlers \ {h} : limitHandler'[g] = limitHandler[g],
           \A g \in LimitHandlers \ {h} : LimitAt(g, "idle"),
           limitHandler'[h].pc = "consume" => counter.count = limitHandler'[h].seen
    PROVE  Orderly'
<1>1. \A g \in LimitHandlers \ {h} : LimitAt(g, "idle")'
  BY DEF LimitAt
<1>2. \A g \in LimitHandlers : LimitAt(g, "consume")' =>
        counter'.count \in {0, limitHandler'[g].seen}
  BY DEF LimitAt
<1>3. \A f, g \in LimitHandlers : ~LimitAt(f, "idle")' /\ ~LimitAt(g, "idle")' => f = g
  BY <1>1
<1>4. Age' = Age
  BY DEF Age
<1>5. /\ counter'.count <= Points
      /\ counter'.count = 0 => counter'.left = 0 /\ recent'[1] = 0
      /\ SumFunctionOnSet(recent', 1..Duration) <= Points - 1 + counter'.count
      /\ counter'.left > 0 =>
           recent'[Age'] > 0 /\ SumFunctionOnSet(recent', 1..Age') = counter'.count
  BY <1>4 DEF Orderly
<1> QED
  BY <1>2, <1>3, <1>5 DEF Orderly

LEMMA ConsumeOrderly ==
    ASSUME LimitTypeOK, Orderly, NEW h \in LimitHandlers, Consume(h),
           \A g \in LimitHandlers \ {h} : LimitAt(g, "idle")
    PROVE  Orderly'
<1> DEFINE c == counter.count
           n == Duration
           seen == limitHandler[h].seen
           T(k) == SumFunctionOnSet(recent, 1..k)
<1>1. /\ Points \in Nat /\ Points >= 1 /\ n \in Nat /\ n >= 1
      /\ c \in Nat /\ counter.left \in 0..n /\ seen \in 0..(Points - 1)
      /\ recent \in [1..n -> Nat]
      /\ counter = [count |-> c, left |-> counter.left]
  BY LimitAssumption, LimitCounts DEF LimitTypeOK
<1>2. c \in {0, seen}
  BY DEF Orderly, Consume
<1>3. \A g \in LimitHandlers : LimitAt(g, "idle")'
  BY LimitAnswered DEF Consume, LimitAt, IdleLimit
<1>4. recent' = [recent EXCEPT ![1] = recent[1] + 1]
  BY DEF Consume
<1>5. /\ recent'[1] = recent[1] + 1 /\ \A i \in 2..n : recent'[i] = recent[i]
      /\ \A i \in 1..n : recent'[i] >= recent[i]
  BY <1>1, <1>4
<1>6. ASSUME NEW k \in 1..n PROVE SumFunctionOnSet(recent', 1..k) = T(k) + 1 /\ T(k) \in Nat
  <2>1. /\ k \in Nat /\ k > 0 /\ \A i \in 1..k : recent[i] \in Nat
        /\ \A i \in 2..k : recent'[i] = recent[i]
    BY <1>1, <1>5
  <2> QED
    BY <1>5, <2>1, SumRaised, SumOfFirst
<1>7. /\ T(n) <= Points - 1 + c
      /\ c = 0 => counter.left = 0 /\ recent[1] = 0
      /\ counter.left > 0 => recent[Age] > 0 /\ T(Age) = c
  BY DEF Orderly
<1>8. n \in 1..n /\ 1 \in 1..n
  BY <1>1
<1>9. SumFunctionOnSet(recent', 1..n) = T(n) + 1 /\ T(n) \in Nat
  BY <1>6, <1>8
<1>10. CASE seen = 0
  <2>1. counter' = [count |-> 1, left |-> n] /\ c = 0
    BY <1>2, <1>10 DEF Consume, Consumed
  <2>2. counter'.count = 1 /\ counter'.left = n /\ Age' = 1
    BY <1>1, <2>1 DEF Age
  <2>3. recent'[1] = 1
    BY <1>5, <1>7, <2>1
  <2>4. SumFunctionOnSet(recent', 1..1) = 1
    BY <2>3, SumOfOne
  <2>5. SumFunctionOnSet(recent', 1..n) <= Points - 1 + 1
    BY <1>1, <1>7, <1>9, <2>1
  <2>6. /\ \A f, g \in LimitHandlers : ~LimitAt(f, "idle")' /\ ~LimitAt(g, "idle")' => f = g
        /\ \A g \in LimitHandlers : ~LimitAt(g, "consume")'
    BY <1>3 DEF LimitAt
  <2> HIDE DEF T, c, seen, n
  <2> QED
    BY <1>1, <2>2, <2>3, <2>4, <2>5, <2>6 DEF Orderly, n
<1>11. CASE seen # 0
  <2>1. counter' = [counter EXCEPT !.count = c + 1]
    BY <1>11 DEF Consume, Consumed
  <2>2. counter'.count = c + 1 /\ counter'.left = counter.left /\ Age' = Age
    BY <1>1, <2>1 DEF Age
  <2>3. c + 1 <= Points
    BY <1>1, <1>2
  <2>4. SumFunctionOnSet(recent', 1..n) <= Points - 1 + (c + 1)
    BY <1>1, <1>7, <1>9
  <2>5. ASSUME counter.left > 0
        PROVE  recent'[Age] > 0 /\ SumFunctionOnSet(recent', 1..Age) = c + 1
    <3>1. Age \in 1..n
      BY <1>1, <2>5 DEF Age
    <3>2. recent[Age] > 0 /\ recent[Age] \in Nat /\ recent'[Age] \in Nat
      BY <1>1, <1>4, <1>7, <2>5, <3>1
    <3> QED
      BY <1>5, <1>6, <1>7, <2>5, <3>1, <3>2
  <2>6. /\ \A f, g \in LimitHandlers : ~LimitAt(f, "idle")' /\ ~LimitAt(g, "idle")' => f = g
        /\ \A g \in LimitHandlers : ~LimitAt(g, "consume")'
    BY <1>3 DEF LimitAt
  <2>7. c + 1 # 0
    BY <1>1
  <2> HIDE DEF T, c, seen, n
  <2> QED
    BY <2>2, <2>3, <2>4, <2>5, <2>6, <2>7 DEF Orderly, n
<1> QED
  BY <1>10, <1>11

LEMMA TickOrderly ==
    ASSUME LimitTypeOK, Orderly, LimitTick
    PROVE  Orderly'
<1> DEFINE c == counter.count
           n == Duration
           T(k) == SumFunctionOnSet(recent, 1..k)
<1>1. /\ Points \in Nat /\ Points >= 1 /\ n \in Nat /\ n >= 1
      /\ c \in Nat /\ counter.left \in 0..n
      /\ recent \in [1..n -> Nat]
      /\ counter = [count |-> c, left |-> counter.left]
  BY LimitAssumption, LimitCounts DEF LimitTypeOK
<1>2. UNCHANGED limitHandler
  BY DEF LimitTick
<1>3. recent' = [t \in 1..n |-> IF t = 1 THEN 0 ELSE recent[t - 1]]
  BY DEF LimitTick
<1>4. \A i \in 1..n : recent'[i] = IF i = 1 THEN 0 ELSE recent[i - 1]
  BY <1>3
<1>5. recent'[1] = 0
  BY <1>1, <1>4
<1>6. \A k \in 1..n : SumFunctionOnSet(recent', 1..k) = T(k - 1)
  <2>1. \A i \in 1..n : recent[i] \in Nat
    BY <1>1
  <2> QED
    BY <1>1, <1>4, <2>1, SumShifted
<1>7. /\ T(n) \in Nat /\ T(n - 1) \in Nat /\ T(n) = T(n - 1) + recent[n] /\ recent[n] \in Nat
  <2>1. /\ \A i \in 1..n : recent[i] \in Nat
        /\ \A i \in 1..(n - 1) : recent[i] \in Nat
        /\ n > 0 /\ n - 1 \in Nat /\ recent[n] \in Nat
    BY <1>1
  <2>2. T(n) = T(n - 1) + recent[n]
    BY <1>1, <2>1, SumOfNext
  <2>3. T(n) \in Nat /\ T(n - 1) \in Nat
    BY <1>1, <2>1, SumOfFirst
  <2> QED
    BY <2>1, <2>2, <2>3
<1>8. SumFunctionOnSet(recent', 1..n) = T(n - 1)
  BY <1>1, <1>6
<1>9. /\ T(n) <= Points - 1 + c /\ c <= Points
      /\ c = 0 => counter.left = 0 /\ recent[1] = 0
      /\ counter.left > 0 => recent[Age] > 0 /\ T(Age) = c
  BY DEF Orderly
<1>10. /\ \A g, h \in LimitHandlers : ~LimitAt(g, "idle")' /\ ~LimitAt(h, "idle")' => g = h
       /\ \A h \in LimitHandlers : LimitAt(h, "consume")' => c \in {0, limitHandler'[h].seen}
  BY <1>2 DEF Orderly, LimitAt
<1>11. CASE counter.left > 1
  <2>1. counter' = [counter EXCEPT !.left = counter.left - 1]
    BY <1>11 DEF LimitTick
  <2>2. /\ counter'.count = c /\ counter'.left = counter.left - 1 /\ Age' = Age + 1
        /\ Age \in 1..n /\ Age + 1 \in 1..n
    BY <1>1, <1>11, <2>1 DEF Age
  <2>3. SumFunctionOnSet(recent', 1..(Age + 1)) = T(Age)
    <3>1. Age + 1 - 1 = Age
      BY <2>2
    <3> QED
      BY <1>6, <2>2, <3>1
  <2>4. recent'[Age + 1] = recent[Age]
    BY <1>4, <2>2
  <2>5. c # 0 /\ counter.left > 0
    BY <1>1, <1>9, <1>11
  <2>6. T(n - 1) <= Points - 1 + c
    BY <1>1, <1>7, <1>9
  <2> HIDE DEF T, c, n
  <2> QED
    BY <1>8, <1>9, <1>10, <2>2, <2>3, <2>4, <2>5, <2>6 DEF Orderly, n
<1>12. CASE counter.left = 1
  <2>1. counter'.count = 0 /\ counter'.left = 0
    BY <1>12 DEF LimitTick, NoCounter
  <2>2. Age = n
    BY <1>1, <1>12 DEF Age
  <2>3. T(n - 1) <= Points - 1
    BY <1>1, <1>7, <1>9, <1>12, <2>2
  <2>4. Points - 1 + 0 = Points - 1 /\ 0 <= Points /\ ~(0 > 0)
    BY <1>1
  <2> HIDE DEF T, c, n
  <2> QED
    BY <1>5, <1>8, <1>10, <2>1, <2>3, <2>4 DEF Orderly, n
<1>13. CASE counter.left = 0
  <2>1. counter'.count = c /\ counter'.left = 0
    BY <1>13 DEF LimitTick
  <2>2. T(n - 1) <= Points - 1 + c
    BY <1>1, <1>7, <1>9
  <2>3. ~(0 > 0)
    OBVIOUS
  <2> HIDE DEF T, c, n
  <2> QED
    BY <1>5, <1>8, <1>9, <1>10, <2>1, <2>2, <2>3 DEF Orderly, n
<1> QED
  BY <1>1, <1>11, <1>12, <1>13

LEMMA LimitStepOrderly ==
    ASSUME LimitTypeOK, ~crowded => Orderly, ~crowded', NEW h \in LimitHandlers,
           \/ CheckBlock(h) \/ ReadCount(h) \/ SetBlock(h) \/ Consume(h) \/ FailLimit(h)
    PROVE  Orderly'
<1>1. ~crowded
  BY DEF CheckBlock, ReadCount, SetBlock, Consume, FailLimit
<1>2. Orderly
  BY <1>1
<1>3. \A g \in LimitHandlers \ {h} : LimitAt(g, "idle")
  <2>1. CASE CheckBlock(h)
    BY <2>1 DEF CheckBlock
  <2>2. CASE ~CheckBlock(h)
    BY <1>2, <2>2 DEF Orderly, ReadCount, SetBlock, Consume, FailLimit, LimitAt
  <2> QED
    BY <2>1, <2>2
<1>4. CASE CheckBlock(h)
  <2>1. UNCHANGED <<counter, recent>>
    BY <1>4 DEF CheckBlock
  <2>2. LimitGoes(h, "count", 0) \/ LimitAnswers(h)
    BY <1>4 DEF CheckBlock
  <2>3. \A g \in LimitHandlers \ {h} : limitHandler'[g] = limitHandler[g]
    BY <2>2, LimitMoves, LimitAnswered
  <2>4. limitHandler'[h] = [pc |-> "count", seen |-> 0] \/ limitHandler'[h] = IdleLimit
    BY <2>2, LimitMoves, LimitAnswered
  <2>5. limitHandler'[h].pc # "consume"
    BY <2>4 DEF IdleLimit
  <2> QED
    BY <1>2, <1>3, <2>1, <2>3, <2>5, LimitQuiet
<1>5. CASE ReadCount(h)
  <2>1. UNCHANGED <<counter, recent>>
    BY <1>5 DEF ReadCount
  <2>2. LimitGoes(h, "block", 0) \/ LimitGoes(h, "consume", counter.count)
    BY <1>5 DEF ReadCount
  <2>3. \/ limitHandler'[h] = [pc |-> "block", seen |-> 0]
        \/ limitHandler'[h] = [pc |-> "consume", seen |-> counter.count]
    BY <2>2, LimitMoves
  <2>4. \A g \in LimitHandlers \ {h} : limitHandler'[g] = limitHandler[g]
    BY <2>2, LimitMoves
  <2>5. limitHandler'[h].pc = "consume" => counter.count = limitHandler'[h].seen
    BY <2>3
  <2> QED
    BY <1>2, <1>3, <2>1, <2>4, <2>5, LimitQuiet
<1>6. CASE SetBlock(h) \/ FailLimit(h)
  <2>1. UNCHANGED <<counter, recent>> /\ LimitAnswers(h)
    BY <1>6 DEF SetBlock, FailLimit
  <2>2. /\ \A g \in LimitHandlers \ {h} : limitHandler'[g] = limitHandler[g]
        /\ limitHandler'[h].pc # "consume"
    BY <2>1, LimitAnswered DEF IdleLimit
  <2> QED
    BY <1>2, <1>3, <2>1, <2>2, LimitQuiet
<1>7. CASE Consume(h)
  BY <1>2, <1>3, <1>7, ConsumeOrderly
<1> QED
  BY <1>4, <1>5, <1>6, <1>7

LEMMA LimitNextInv == LimitInv /\ [LimitNext]_limitVars => LimitInv'
<1> SUFFICES ASSUME LimitInv, [LimitNext]_limitVars PROVE LimitInv'
  OBVIOUS
<1>1. LimitTyped' /\ LimitTypeOK /\ (~crowded => Orderly)
  BY LimitNextTyped DEF LimitInv, LimitTyped
<1>2. ASSUME ~crowded' PROVE Orderly'
  <2>1. CASE UNCHANGED limitVars
    <3>1. UNCHANGED <<counter, recent, limitHandler, crowded>>
      BY <2>1 DEF limitVars
    <3>2. Orderly' <=> Orderly
      BY <3>1 DEF Orderly, LimitAt, Age
    <3> QED
      BY <1>1, <1>2, <3>1, <3>2
  <2>2. CASE LimitTick
    BY <1>1, <1>2, <2>2, TickOrderly DEF LimitTick
  <2>3. CASE LimitNext /\ ~LimitTick
    BY <1>1, <1>2, <2>3, LimitStepOrderly DEF LimitNext
  <2> QED
    BY <2>1, <2>2, <2>3
<1> QED
  BY <1>1, <1>2 DEF LimitInv

LEMMA LimitInvImplies == LimitInv => LimitHolds
<1> SUFFICES ASSUME LimitInv, ~crowded PROVE SumFunction(recent) <= 2 * Points - 1
  BY DEF LimitHolds
<1>1. /\ Points \in Nat /\ counter.count \in Nat /\ DOMAIN recent = 1..Duration
      /\ \A i \in 1..Duration : recent[i] \in Nat
      /\ Duration \in Nat
  BY LimitAssumption, LimitCounts DEF LimitInv, LimitTyped, LimitTypeOK
<1> DEFINE s == SumFunctionOnSet(recent, 1..Duration)
<1>2. SumFunction(recent) = s
  BY <1>1 DEF SumFunction
<1>3. s <= Points - 1 + counter.count /\ counter.count <= Points
  BY DEF LimitInv, Orderly
<1>4. s \in Nat
  BY <1>1, SumOfFirst
<1> HIDE DEF s
<1> QED
  BY <1>1, <1>2, <1>3, <1>4

\* A caller who sends one request at a time is admitted less than twice the
\* limit in any stretch as long as a window.
THEOREM LimitIsKept == LimitSpec => []LimitHolds
<1> QED
  BY LimitInitInv, LimitNextInv, LimitInvImplies, PTL DEF LimitSpec

\* The counter exceeds the limit by no more than the requests in flight.
THEOREM LimitTypeCorrect == LimitSpec => []LimitTypeOK
<1>1. LimitTyped => LimitTypeOK
  BY DEF LimitTyped
<1> QED
  BY <1>1, LimitInitTyped, LimitNextTyped, PTL DEF LimitSpec

-----------------------------------------------------------------------------
(* History and statement. Whoever reads the pages of an unchanged table has *)
(* a beginning of its one order.                                            *)

HistoryRow == [type : TxTypes \cup {"CREDIT"}, amount : TxAmounts, currency : Currencies,
               status : {"PENDING", "COMPLETED", "FAILED"}, created : Nat]

Statuses == {"ANY", "PENDING", "COMPLETED", "FAILED"}

StatementTyped ==
    /\ table \in Seq(HistoryRow) /\ Len(table) <= MaxRows
    /\ now \in Nat /\ Day(now) <= LastDay
    /\ reader.pc \in {"idle", "count", "rows", "read"}
    /\ reader \in [pc : {"idle", "count", "rows", "read"}, status : Statuses,
                   wallet : Wallets, limit : Nat \ {0}, page : Nat \ {0}, total : Nat]
    /\ got \in Seq(0..MaxRows)

\* No two rows of S were created at the same instant.
Distinct(S) == \A i, j \in S : i # j => table[i].created # table[j].created

First(s, k) == SubSeq(s, 1, IF k < Len(s) THEN k ELSE Len(s))

Asked == HistoryIds(reader.status, reader.wallet)

Reading ==
    got # Moved /\ Distinct(Asked) =>
      /\ reader.pc \in {"count", "rows"} =>
           \A s \in Orderings(Asked) : got = First(s, Skipped(reader.page, reader.limit))
      /\ reader.pc = "rows" => reader.total = Cardinality(Asked)
      /\ reader.pc = "read" => got \in Orderings(Asked)

StatementInv == StatementTyped /\ Reading

LEMMA DayOfNow ==
    ASSUME NEW t \in Nat
    PROVE  t \div 2 \in Nat
OBVIOUS

\* As many pages as TotalPages says hold all rows.
LEMMA PagesHoldAll ==
    ASSUME NEW n \in Nat, NEW limit \in Nat \ {0}, NEW page \in Nat,
           ~(page < TotalPages(n, limit))
    PROVE  n <= page * limit
<1> DEFINE q == (n + limit - 1) \div limit
<1>1. q \in Int /\ n + limit - 1 < limit * q + limit
  OBVIOUS
<1>2. q <= page
  BY <1>1 DEF TotalPages
<1> HIDE DEF q
<1>3. limit * q <= limit * page
  BY <1>1, <1>2
<1> QED
  BY <1>1, <1>3

LEMMA SkippedNext ==
    ASSUME NEW page \in Nat \ {0}, NEW limit \in Nat \ {0}
    PROVE  /\ Skipped(page, limit) \in Nat /\ Skipped(page + 1, limit) = page * limit
           /\ Skipped(page + 1, limit) = Skipped(page, limit) + limit
<1>1. page + 1 - 1 = page
  OBVIOUS
<1>2. (page - 1) * limit \in Nat
  OBVIOUS
<1>3. page * limit = (page - 1) * limit + limit
  OBVIOUS
<1> QED
  BY <1>1, <1>2, <1>3 DEF Skipped

LEMMA AskedRows ==
    ASSUME NEW S, S \subseteq 1..Len(table), table \in Seq(HistoryRow)
    PROVE  /\ IsFiniteSet(S) /\ Cardinality(S) \in Nat
           /\ \A i \in S : table[i].created \in Nat
<1>1. Len(table) \in Nat
  BY LenProperties
<1>2. IsFiniteSet(1..Len(table))
  BY <1>1, FS_Interval
<1>3. IsFiniteSet(S) /\ Cardinality(S) \in Nat
  BY <1>2, FS_Subset, FS_CardinalityType
<1>4. ASSUME NEW i \in S PROVE table[i].created \in Nat
  <2>1. table[i] \in HistoryRow
    BY ElementOfSeq
  <2> QED
    BY <2>1 DEF HistoryRow
<1> QED
  BY <1>3, <1>4

LEMMA SameFunction ==
    ASSUME NEW A, NEW B, NEW f \in [A -> B], NEW g \in [A -> B], \A x \in A : f[x] = g[x]
    PROVE  f = g
OBVIOUS

\* An ordering of S is a sequence of all its elements.
LEMMA OrderingIsSeq ==
    ASSUME NEW S, S \subseteq 1..Len(table), table \in Seq(HistoryRow),
           NEW s \in Orderings(S)
    PROVE  /\ s \in Seq(S) /\ Len(s) = Cardinality(S) /\ Cardinality(S) \in Nat
           /\ \A x \in S : \E k \in 1..Cardinality(S) : s[k] = x
<1> DEFINE n == Cardinality(S)
<1>1. n \in Nat /\ IsFiniteSet(S)
  BY AskedRows
<1>2. s \in [1..n -> S] /\ \A a, b \in 1..n : s[a] = s[b] => a = b
  BY DEF Orderings, IsInjective
<1>3. s \in Seq(S) /\ Len(s) = n
  <2>1. s \in Seq(S)
    BY <1>1, <1>2, SeqDef
  <2>2. DOMAIN s = 1..n /\ DOMAIN s = 1..Len(s) /\ Len(s) \in Nat
    BY <1>2, <2>1, LenProperties
  <2>3. PICK m \in Nat : m = Len(s)
    BY <2>2
  <2>4. 1..n = 1..m
    BY <2>2, <2>3
  <2>5. n = m
    <3> HIDE DEF n
    <3>1. n \in 1..m \/ n = 0
      BY <1>1, <2>4
    <3>5. m \in 1..m \/ m = 0
      BY <2>3
    <3>2. m \in 1..n \/ m = 0
      BY <2>4, <3>5
    <3>3. n = 0 => m \notin 1..n
      OBVIOUS
    <3>4. m = 0 => n \notin 1..m
      OBVIOUS
    <3> QED
      BY <1>1, <2>3, <3>1, <3>2, <3>3, <3>4
  <2> QED
    BY <2>1, <2>3, <2>5
<1>4. s \in Injection(1..n, S)
  BY <1>2 DEF Injection, IsInjective
<1>5. Cardinality(1..n) = n
  BY <1>1, FS_Interval
<1>6. s \in Surjection(1..n, S)
  BY <1>1, <1>4, <1>5, FS_Injection
<1>7. \A x \in S : \E k \in 1..n : s[k] = x
  BY <1>6 DEF Surjection
<1> QED
  BY <1>1, <1>3, <1>7

\* Rows created at different instants have one order only.
LEMMA OneOrdering ==
    ASSUME NEW S, S \subseteq 1..Len(table), table \in Seq(HistoryRow), Distinct(S),
           NEW s \in Orderings(S), NEW t \in Orderings(S)
    PROVE  s = t
<1> DEFINE n == Cardinality(S)
           B == {k \in 1..n : s[k] # t[k]}
<1>1. n \in Nat
  BY AskedRows
<1>2. /\ s \in [1..n -> S] /\ \A a, b \in 1..n : s[a] = s[b] => a = b
      /\ t \in [1..n -> S] /\ \A a, b \in 1..n : t[a] = t[b] => a = b
      /\ \A a, b \in 1..n : a < b => /\ table[s[a]].created >= table[s[b]].created
                                     /\ table[t[a]].created >= table[t[b]].created
  BY DEF Orderings, IsInjective
<1>3. SUFFICES ASSUME B # {} PROVE FALSE
  <2>1. SUFFICES ASSUME B = {} PROVE s = t
    OBVIOUS
  <2>2. \A k \in 1..n : s[k] = t[k]
    BY <2>1
  <2>3. s \in [1..n -> S] /\ t \in [1..n -> S]
    BY <1>2
  <2>4. PICK D : D = 1..n
    OBVIOUS
  <2>5. s \in [D -> S] /\ t \in [D -> S] /\ \A k \in D : s[k] = t[k]
    BY <2>2, <2>3, <2>4
  <2> QED
    BY <2>5, SameFunction
<1>4. B \subseteq Nat
  BY <1>1
<1>5. PICK k \in B : \A m \in B : k <= m
  BY <1>3, <1>4, LeastNatural
<1>6. k \in 1..n /\ s[k] # t[k] /\ \A m \in 1..n : m < k => s[m] = t[m]
  BY <1>1, <1>5
<1>7. s[k] \in S /\ t[k] \in S
  BY <1>2, <1>6
<1>8. PICK i \in 1..n : t[i] = s[k]
  BY <1>7, OrderingIsSeq
<1>9. PICK j \in 1..n : s[j] = t[k]
  BY <1>7, OrderingIsSeq
<1>10. k < i /\ k < j
  BY <1>1, <1>2, <1>6, <1>8, <1>9
<1>11. /\ table[t[k]].created >= table[s[k]].created
       /\ table[s[k]].created >= table[t[k]].created
  BY <1>2, <1>6, <1>8, <1>9, <1>10
<1>12. table[s[k]].created \in Nat /\ table[t[k]].created \in Nat
  BY <1>7, AskedRows
<1>13. table[s[k]].created = table[t[k]].created
  BY <1>11, <1>12
<1> QED
  BY <1>6, <1>7, <1>13 DEF Distinct

\* A page goes on where the last one ended.
LEMMA PageGoesOn ==
    ASSUME NEW S, NEW s \in Seq(S), NEW skip \in Nat, NEW limit \in Nat
    PROVE  First(s, skip)
             \o SubSeq(s, skip + 1, IF skip + limit < Len(s) THEN skip + limit ELSE Len(s))
           = First(s, skip + limit)
<1> DEFINE n == Len(s)
           e == IF skip + limit < n THEN skip + limit ELSE n
<1>1. n \in Nat
  BY LenProperties
<1>2. CASE skip <= n
  <2>1. First(s, skip) = SubSeq(s, 1, skip)
    BY <1>1, <1>2 DEF First
  <2>2. 1 \in 1..(n + 1) /\ skip \in (1 - 1)..n /\ e \in skip..n
    BY <1>1, <1>2
  <2>3. SubSeq(s, 1, skip) \o SubSeq(s, skip + 1, e) = SubSeq(s, 1, e)
    <3> HIDE DEF e
    <3> QED
      BY <2>2, ConcatAdjacentSubSeq
  <2> QED
    BY <2>1, <2>3 DEF First
<1>3. CASE skip > n
  <2>1. First(s, skip) = SubSeq(s, 1, n) /\ First(s, skip + limit) = SubSeq(s, 1, n) /\ e = n
    BY <1>1, <1>3 DEF First
  <2>2. SubSeq(s, skip + 1, e) = <<>>
    BY <1>1, <1>3, <2>1, SubSeqEmpty
  <2>3. SubSeq(s, 1, n) \in Seq(S)
    BY SubSeqFull
  <2>4. SubSeq(s, 1, n) \o <<>> = SubSeq(s, 1, n)
    BY <2>3, ConcatEmptySeq
  <2> QED
    BY <2>1, <2>2, <2>4
<1>4. skip <= n \/ skip > n
  <2> HIDE DEF n
  <2> QED
    BY <1>1
<1> QED
  BY <1>2, <1>3, <1>4

-----------------------------------------------------------------------------
(* The steps.                                                               *)

LEMMA StatementInitInv == StatementInit => StatementInv
<1> SUFFICES ASSUME StatementInit PROVE StatementInv
  OBVIOUS
<1>1. table = <<>> /\ now = 0 /\ reader = NoReader /\ got = Moved
  BY DEF StatementInit
<1>2. table \in Seq(HistoryRow) /\ Len(table) <= MaxRows
  <2>1. table \in Seq(HistoryRow) /\ Len(table) = 0
    BY <1>1, EmptySeq
  <2> QED
    BY <2>1, StatementAssumption
<1>3. now \in Nat /\ Day(now) <= LastDay
  BY <1>1, StatementAssumption DEF Day
<1>4. /\ reader.pc = "idle"
      /\ reader \in [pc : {"idle", "count", "rows", "read"}, status : Statuses,
                     wallet : Wallets, limit : Nat \ {0}, page : Nat \ {0}, total : Nat]
  BY <1>1 DEF NoReader, Statuses, Wallets
<1>5. got \in Seq(0..MaxRows)
  <2>1. 0 \in 0..MaxRows
    BY StatementAssumption
  <2> QED
    BY <1>1, <2>1 DEF Moved
<1> QED
  BY <1>1, <1>2, <1>3, <1>4, <1>5 DEF StatementInv, StatementTyped, Reading

LEMMA RowAdded ==
    ASSUME StatementTyped, NEW row \in HistoryRow, Len(table) < MaxRows,
           table' = Append(table, row)
    PROVE  table' \in Seq(HistoryRow) /\ Len(table') <= MaxRows
<1> DEFINE n == Len(table)
           m == Len(table')
<1>1. table' \in Seq(HistoryRow) /\ m = n + 1 /\ n \in Nat /\ n < MaxRows
  BY AppendProperties, LenProperties DEF StatementTyped
<1>2. m <= MaxRows
  <2> HIDE DEF n, m
  <2> QED
    BY <1>1, StatementAssumption
<1> QED
  BY <1>1, <1>2

LEMMA TableTyped ==
    ASSUME StatementTyped, StatementNext
    PROVE  table' \in Seq(HistoryRow) /\ Len(table') <= MaxRows
<1>1. CASE table' = table
  BY <1>1 DEF StatementTyped
<1>2. ASSUME NEW i \in Ids, NEW status \in {"COMPLETED", "FAILED"}, Decide(i, status)
      PROVE  table' \in Seq(HistoryRow) /\ Len(table') <= MaxRows
  <2>1. PICK row : row = [table[i] EXCEPT !.status = status]
    OBVIOUS
  <2>2. table' = [table EXCEPT ![i] = row]
    BY <1>2, <2>1 DEF Decide
  <2>3. table[i] \in HistoryRow
    BY ElementOfSeq DEF StatementTyped, Ids
  <2>4. row \in HistoryRow
    BY <2>1, <2>3 DEF HistoryRow
  <2>5. table' \in Seq(HistoryRow) /\ Len(table') = Len(table)
    BY <2>2, <2>4, ExceptSeq DEF StatementTyped, Ids
  <2> QED
    BY <2>5 DEF StatementTyped
<1>3. ASSUME NEW n \in TxAmounts, NEW type \in TxTypes, RecordPending(type, n)
      PROVE  table' \in Seq(HistoryRow) /\ Len(table') <= MaxRows
  <2>1. PICK row : row = [type |-> type, amount |-> n, currency |-> "CAD",
                          status |-> "PENDING", created |-> now]
    OBVIOUS
  <2>2. row \in HistoryRow
    BY <2>1 DEF HistoryRow, Currencies, StatementTyped
  <2>3. Len(table) < MaxRows /\ table' = Append(table, row)
    BY <1>3, <2>1 DEF RecordPending
  <2> QED
    BY <2>2, <2>3, RowAdded
<1>4. ASSUME NEW n \in TxAmounts, RecordDeposit(n)
      PROVE  table' \in Seq(HistoryRow) /\ Len(table') <= MaxRows
  <2>1. PICK row : row = [type |-> "CREDIT", amount |-> n, currency |-> "NGN",
                          status |-> "COMPLETED", created |-> now]
    OBVIOUS
  <2>2. row \in HistoryRow
    BY <2>1 DEF HistoryRow, Currencies, StatementTyped
  <2>3. Len(table) < MaxRows /\ table' = Append(table, row)
    BY <1>4, <2>1 DEF RecordDeposit
  <2> QED
    BY <2>2, <2>3, RowAdded
<1>5. Pass \/ CountHistory \/ FetchPage \/ CloseHistory => table' = table
  BY DEF Pass, CountHistory, FetchPage, CloseHistory
<1>6. \A filter \in HistoryFilters, limit \in PageSizes :
        OpenHistory(filter[1], filter[2], limit) => table' = table
  BY DEF OpenHistory
<1> QED
  BY <1>1, <1>2, <1>3, <1>4, <1>5, <1>6 DEF StatementNext

\* As long as the table and the filter stay, so do the rows and their orders.
LEMMA SameAsked ==
    ASSUME table' = table, reader'.status = reader.status, reader'.wallet = reader.wallet
    PROVE  /\ Asked' = Asked /\ Distinct(Asked)' = Distinct(Asked)
           /\ Orderings(Asked)' = Orderings(Asked)
<1>1. Asked' = Asked
  BY DEF Asked, HistoryIds, Ids, HasStatus, InWallet
<1> QED
  BY <1>1 DEF Distinct, Orderings

LEMMA RowsStep ==
    ASSUME StatementInv, table' \in Seq(HistoryRow) /\ Len(table') <= MaxRows,
           got' = Moved, now' = now, reader' = reader
    PROVE  StatementInv'
<1>1. got' \in Seq(0..MaxRows)
  <2>1. 0 \in 0..MaxRows
    BY StatementAssumption
  <2> QED
    BY <2>1 DEF Moved
<1>2. Reading'
  BY DEF Reading
<1>3. StatementTyped'
  BY <1>1 DEF StatementInv, StatementTyped, Day
<1> QED
  BY <1>2, <1>3 DEF StatementInv

LEMMA PassInv == StatementInv /\ Pass => StatementInv'
<1> SUFFICES ASSUME StatementInv, Pass PROVE StatementInv'
  OBVIOUS
<1>1. UNCHANGED <<table, reader, got>> /\ now' = now + 1 /\ Day(now + 1) <= LastDay
  BY DEF Pass
<1>2. Reading'
  <2>1. Reading
    BY DEF StatementInv
  <2> QED
    BY <1>1, <2>1, SameAsked DEF Reading
<1>3. StatementTyped'
  BY <1>1 DEF StatementInv, StatementTyped, Day
<1> QED
  BY <1>2, <1>3 DEF StatementInv

LEMMA AskedSubset == Asked \subseteq 1..Len(table)
BY DEF Asked, HistoryIds, Ids

LEMMA OpenHistoryInv ==
    ASSUME StatementInv, NEW filter \in HistoryFilters, NEW limit \in PageSizes,
           OpenHistory(filter[1], filter[2], limit)
    PROVE  StatementInv'
<1>1. /\ reader' = [NoReader EXCEPT !.pc = "count", !.status = filter[1],
                                    !.wallet = filter[2], !.limit = limit]
      /\ got' = <<>> /\ UNCHANGED <<table, now>>
  BY DEF OpenHistory
<1>2. filter[1] \in Statuses /\ filter[2] \in Wallets /\ limit \in Nat \ {0}
  BY StatementAssumption DEF Statuses
<1>3. /\ reader' \in [pc : {"idle", "count", "rows", "read"}, status : Statuses,
                      wallet : Wallets, limit : Nat \ {0}, page : Nat \ {0}, total : Nat]
      /\ reader'.pc = "count" /\ reader'.page = 1 /\ reader'.limit = limit
  <2>1. PICK st \in Statuses : st = filter[1]
    BY <1>2
  <2>2. PICK w \in Wallets : w = filter[2]
    BY <1>2
  <2>3. reader' = [pc |-> "count", status |-> st, wallet |-> w, limit |-> limit,
                   page |-> 1, total |-> 0]
    BY <1>1, <2>1, <2>2 DEF NoReader
  <2> QED
    BY <1>2, <2>3
<1>4. StatementTyped'
  <2>1. got' \in Seq(0..MaxRows)
    BY <1>1, EmptySeq
  <2> QED
    BY <1>1, <1>3, <2>1 DEF StatementInv, StatementTyped, Day
<1>5. Reading'
  <2>1. ASSUME NEW s \in Orderings(Asked)'
        PROVE  got' = First(s, Skipped(reader'.page, reader'.limit))
    <3>1. Skipped(reader'.page, reader'.limit) = 0
      BY <1>2, <1>3 DEF Skipped
    <3>2. First(s, 0) = <<>>
      <4>1. PICK A : A = Asked'
        OBVIOUS
      <4>2. s \in Seq(A) /\ Len(s) \in Nat
        <5>1. table' = table
          BY <1>1
        <5>2. s \in Orderings(A)
          BY <4>1, <5>1 DEF Orderings
        <5>3. A \subseteq 1..Len(table)
          BY <4>1, <5>1 DEF Asked, HistoryIds, Ids
        <5>4. table \in Seq(HistoryRow)
          BY DEF StatementInv, StatementTyped
        <5>5. s \in Seq(A)
          BY <5>2, <5>3, <5>4, OrderingIsSeq
        <5> QED
          BY <5>5, LenProperties
      <4>3. (IF 0 < Len(s) THEN 0 ELSE Len(s)) = 0
        <5> DEFINE m == Len(s)
        <5>1. m \in Nat
          BY <4>2
        <5>2. (IF 0 < m THEN 0 ELSE m) = 0
          <6> HIDE DEF m
          <6> QED
            BY <5>1
        <5> QED
          BY <5>2
      <4> QED
        BY <4>3, SubSeqEmpty DEF First
    <3> QED
      BY <1>1, <3>1, <3>2
  <2> QED
    BY <1>3, <2>1 DEF Reading
<1> QED
  BY <1>4, <1>5 DEF StatementInv

LEMMA CountHistoryInv == StatementInv /\ CountHistory => StatementInv'
<1> SUFFICES ASSUME StatementInv, CountHistory PROVE StatementInv'
  OBVIOUS
<1>1. /\ reader.pc = "count" /\ UNCHANGED <<table, now, got>>
      /\ reader' = [reader EXCEPT !.pc = "rows", !.total = Cardinality(Asked)]
  BY DEF CountHistory, Asked
<1>2. StatementTyped /\ Reading
  BY DEF StatementInv
<1>3. PICK n \in Nat : n = Cardinality(Asked)
  BY <1>2, AskedSubset, AskedRows DEF StatementTyped
<1>4. reader' = [reader EXCEPT !.pc = "rows", !.total = n]
  BY <1>1, <1>3
<1>5. /\ reader' \in [pc : {"idle", "count", "rows", "read"}, status : Statuses,
                      wallet : Wallets, limit : Nat \ {0}, page : Nat \ {0}, total : Nat]
      /\ reader'.pc = "rows" /\ reader'.total = n
      /\ reader'.status = reader.status /\ reader'.wallet = reader.wallet
      /\ reader'.page = reader.page /\ reader'.limit = reader.limit
  BY <1>2, <1>4 DEF StatementTyped
<1>6. StatementTyped'
  BY <1>1, <1>2, <1>5 DEF StatementTyped, Day
<1>7. Reading'
  <2>1. /\ Asked' = Asked /\ Distinct(Asked)' = Distinct(Asked)
        /\ Orderings(Asked)' = Orderings(Asked)
    BY <1>1, <1>5, SameAsked
  <2> QED
    BY <1>1, <1>2, <1>3, <1>5, <2>1 DEF Reading
<1> QED
  BY <1>6, <1>7 DEF StatementInv

LEMMA FetchPageInv == StatementInv /\ FetchPage => StatementInv'
<1> SUFFICES ASSUME StatementInv, FetchPage PROVE StatementInv'
  OBVIOUS
<1>1. StatementTyped /\ Reading /\ table \in Seq(HistoryRow)
  BY DEF StatementInv, StatementTyped
<1>2. /\ reader.pc = "rows" /\ UNCHANGED <<table, now>>
      /\ reader' = [reader EXCEPT
                       !.pc = IF reader.page < TotalPages(reader.total, reader.limit)
                                THEN "count" ELSE "read",
                       !.page = reader.page + 1]
  BY <1>1 DEF FetchPage, StatementTyped
<1>3. PICK s \in Orderings(Asked) :
        got' = IF got = Moved THEN got ELSE got \o PageOf(s, reader.page, reader.limit)
  BY DEF FetchPage, Asked
<1>4. /\ reader.page \in Nat \ {0} /\ reader.limit \in Nat \ {0} /\ reader.total \in Nat
  BY <1>1 DEF StatementTyped
<1>5. PICK pc : pc = IF reader.page < TotalPages(reader.total, reader.limit)
                       THEN "count" ELSE "read"
  OBVIOUS
<1>6. PICK page \in Nat \ {0} : page = reader.page + 1
  BY <1>4
<1>7. /\ pc \in {"count", "read"} /\ reader' = [reader EXCEPT !.pc = pc, !.page = page]
  BY <1>2, <1>5, <1>6
<1>8. /\ reader' \in [pc : {"idle", "count", "rows", "read"}, status : Statuses,
                      wallet : Wallets, limit : Nat \ {0}, page : Nat \ {0}, total : Nat]
      /\ reader'.pc = pc /\ reader'.total = reader.total
      /\ reader'.status = reader.status /\ reader'.wallet = reader.wallet
      /\ reader'.page = page /\ reader'.limit = reader.limit
  BY <1>1, <1>7 DEF StatementTyped
<1>9. /\ s \in Seq(Asked) /\ Len(s) = Cardinality(Asked) /\ Cardinality(Asked) \in Nat
  BY <1>1, AskedSubset, OrderingIsSeq
<1>10. PICK skip \in Nat : skip = Skipped(reader.page, reader.limit)
  BY <1>4, SkippedNext
<1>11. PICK e \in Int : e = IF skip + reader.limit < Len(s) THEN skip + reader.limit ELSE Len(s)
  BY <1>4, <1>9
<1>12. PageOf(s, reader.page, reader.limit) = SubSeq(s, skip + 1, e) /\ e <= Len(s)
  <2>1. PageOf(s, reader.page, reader.limit) = SubSeq(s, skip + 1, e)
    BY <1>10, <1>11 DEF PageOf
  <2>2. e <= Len(s)
    <3> DEFINE n == Len(s)
               l == reader.limit
    <3>1. n \in Nat /\ l \in Nat /\ e = IF skip + l < n THEN skip + l ELSE n
      BY <1>4, <1>9, <1>11
    <3>2. e <= n
      <4> HIDE DEF n, l
      <4> QED
        BY <3>1
    <3> QED
      BY <3>2
  <2> QED
    BY <2>1, <2>2
<1>13. SubSeq(s, skip + 1, e) \in Seq(0..MaxRows)
  <2>1. ASSUME NEW i \in (skip + 1)..e PROVE s[i] \in 0..MaxRows
    <3>1. i \in 1..Len(s)
      BY <1>9, <1>12
    <3>2. s[i] \in 1..Len(table)
      BY <1>9, <3>1, AskedSubset, ElementOfSeq
    <3>3. Len(table) \in Nat /\ Len(table) <= MaxRows
      BY <1>1, LenProperties DEF StatementTyped
    <3> DEFINE n == Len(table)
    <3> HIDE DEF n
    <3>4. s[i] \in 1..n /\ n \in Nat /\ n <= MaxRows
      BY <3>2, <3>3 DEF n
    <3> QED
      BY <3>4, StatementAssumption
  <2> QED
    BY <2>1, SubSeqProperties
<1>14. StatementTyped'
  <2>1. got' \in Seq(0..MaxRows)
    BY <1>1, <1>3, <1>12, <1>13, ConcatProperties DEF StatementTyped
  <2> QED
    BY <1>1, <1>2, <1>8, <2>1, <1>7 DEF StatementTyped, Day
<1>15. Reading'
  <2>1. SUFFICES ASSUME got' # Moved, Distinct(Asked)' PROVE
           /\ pc = "count" =>
                \A t \in Orderings(Asked)' : got' = First(t, Skipped(page, reader.limit))
           /\ pc = "read" => got' \in Orderings(Asked)'
    BY <1>7, <1>8 DEF Reading
  <2>2. /\ Asked' = Asked /\ Distinct(Asked)' = Distinct(Asked)
        /\ Orderings(Asked)' = Orderings(Asked)
    BY <1>2, <1>8, SameAsked
  <2>3. got # Moved /\ Distinct(Asked)
    BY <1>3, <2>1, <2>2
  <2>4. got = First(s, skip) /\ reader.total = Cardinality(Asked)
    BY <1>1, <1>2, <1>10, <2>3 DEF Reading
  <2>5. got' = First(s, skip + reader.limit)
    <3>1. got' = First(s, skip) \o SubSeq(s, skip + 1, e)
      BY <1>3, <1>12, <2>3, <2>4
    <3>2. First(s, skip)
             \o SubSeq(s, skip + 1, IF skip + reader.limit < Len(s) THEN skip + reader.limit
                                                                   ELSE Len(s))
           = First(s, skip + reader.limit)
      BY <1>4, <1>9, PageGoesOn
    <3> QED
      BY <1>11, <3>1, <3>2
  <2>6. /\ Skipped(page, reader.limit) = skip + reader.limit
        /\ Skipped(page, reader.limit) = reader.page * reader.limit
    BY <1>4, <1>6, <1>10, SkippedNext
  <2>7. ASSUME NEW t \in Orderings(Asked) PROVE t = s
    BY <1>1, <2>3, AskedSubset, OneOrdering
  <2>8. \A t \in Orderings(Asked)' : got' = First(t, Skipped(page, reader.limit))
    BY <2>2, <2>5, <2>6, <2>7
  <2>9. ASSUME pc = "read" PROVE got' \in Orderings(Asked)'
    <3>1. ~(reader.page < TotalPages(reader.total, reader.limit))
      BY <1>5, <2>9
    <3>2. Len(s) <= reader.page * reader.limit
      BY <1>4, <1>9, <2>4, <3>1, PagesHoldAll
    <3>3. First(s, skip + reader.limit) = SubSeq(s, 1, Len(s))
      <4> DEFINE n == Len(s)
                 k == skip + reader.limit
      <4>1. n \in Nat /\ k \in Nat /\ n <= k
        BY <1>4, <1>9, <2>6, <3>2
      <4>2. (IF k < n THEN k ELSE n) = n
        <5> HIDE DEF n, k
        <5> QED
          BY <4>1
      <4> QED
        BY <4>2 DEF First
    <3>4. SubSeq(s, 1, Len(s)) = s
      BY <1>9, SubSeqFull
    <3> QED
      BY <2>2, <2>5, <3>3, <3>4
  <2> QED
    BY <2>8, <2>9
<1> QED
  BY <1>14, <1>15 DEF StatementInv

LEMMA CloseHistoryInv == StatementInv /\ CloseHistory => StatementInv'
<1> SUFFICES ASSUME StatementInv, CloseHistory PROVE StatementInv'
  OBVIOUS
<1>1. reader' = NoReader /\ got' = Moved /\ UNCHANGED <<table, now>>
  BY DEF CloseHistory
<1>2. got' \in Seq(0..MaxRows)
  <2>1. 0 \in 0..MaxRows
    BY StatementAssumption
  <2> QED
    BY <1>1, <2>1 DEF Moved
<1>3. /\ reader'.pc = "idle"
      /\ reader' \in [pc : {"idle", "count", "rows", "read"}, status : Statuses,
                      wallet : Wallets, limit : Nat \ {0}, page : Nat \ {0}, total : Nat]
  BY <1>1 DEF NoReader, Statuses, Wallets
<1>4. StatementTyped'
  BY <1>1, <1>2, <1>3 DEF StatementInv, StatementTyped, Day
<1>5. Reading'
  BY <1>1 DEF Reading
<1> QED
  BY <1>4, <1>5 DEF StatementInv

LEMMA StatementNextInv == StatementInv /\ [StatementNext]_statementVars => StatementInv'
<1> SUFFICES ASSUME StatementInv, [StatementNext]_statementVars PROVE StatementInv'
  OBVIOUS
<1>1. CASE UNCHANGED statementVars
  <2>1. UNCHANGED <<table, now, reader, got>>
    BY <1>1 DEF statementVars
  <2>2. Reading'
    BY <2>1, SameAsked DEF Reading, StatementInv
  <2>3. StatementTyped'
    BY <2>1 DEF StatementInv, StatementTyped, Day
  <2> QED
    BY <2>2, <2>3 DEF StatementInv
<1>2. CASE StatementNext
  <2>1. table' \in Seq(HistoryRow) /\ Len(table') <= MaxRows
    BY <1>2, TableTyped DEF StatementInv
  <2>2. ASSUME NEW n \in TxAmounts,
               (\E type \in TxTypes : RecordPending(type, n)) \/ RecordDeposit(n)
        PROVE  StatementInv'
    <3>1. got' = Moved /\ now' = now /\ reader' = reader
      BY <2>2 DEF RecordPending, RecordDeposit
    <3> QED
      BY <2>1, <3>1, RowsStep
  <2>3. ASSUME NEW i \in Ids, NEW status \in {"COMPLETED", "FAILED"}, Decide(i, status)
        PROVE  StatementInv'
    <3>1. got' = Moved /\ now' = now /\ reader' = reader
      BY <2>3 DEF Decide
    <3> QED
      BY <2>1, <3>1, RowsStep
  <2>4. ASSUME NEW filter \in HistoryFilters, NEW limit \in PageSizes,
               OpenHistory(filter[1], filter[2], limit)
        PROVE  StatementInv'
    BY <2>4, OpenHistoryInv
  <2> QED
    BY <1>2, <2>2, <2>3, <2>4, PassInv, CountHistoryInv, FetchPageInv, CloseHistoryInv
       DEF StatementNext
<1> QED
  BY <1>1, <1>2

LEMMA ReadIsWhole == StatementInv => PagesPartition
BY DEF StatementInv, Reading, PagesPartition, Asked, Distinct

\* Whoever reads all pages of an unchanged table has every transaction once and
\* in order, for every number of rows and every page size.
THEOREM HistoryIsComplete == StatementSpec => []PagesPartition
<1> QED
  BY StatementInitInv, StatementNextInv, ReadIsWhole, PTL DEF StatementSpec

-----------------------------------------------------------------------------
(* The printed table: fifteen rows on the first page, 26 on every other.    *)

Placing(p, n) ==
    p = [k \in 1..n |->
          IF k = 1 THEN [page |-> 1, y |-> FirstRowY]
          ELSE LET above == p[k - 1] IN
               IF Breaks(above.y + RowHeight)
                 THEN [page |-> above.page + 1, y |-> NextPageY]
                 ELSE [page |-> above.page, y |-> above.y + RowHeight]]

PageOfRow(k) == IF k <= 15 THEN 1 ELSE 2 + ((k - 16) \div 26)
TopOfRow(k) ==
    IF k <= 15 THEN FirstRowY + RowHeight * (k - 1)
               ELSE NextPageY + RowHeight * ((k - 16) % 26)
Slot(k) == [page |-> PageOfRow(k), y |-> TopOfRow(k)]

LEMMA NextOfDivision ==
    ASSUME NEW j \in Nat
    PROVE  /\ j % 26 \in 0..25 /\ j \div 26 \in Nat /\ j = 26 * (j \div 26) + (j % 26)
           /\ (j + 1) \div 26 = (IF j % 26 = 25 THEN j \div 26 + 1 ELSE j \div 26)
           /\ (j + 1) % 26 = (IF j % 26 = 25 THEN 0 ELSE (j % 26) + 1)
OBVIOUS

LEMMA SlotType ==
    ASSUME NEW k \in Nat \ {0}
    PROVE  /\ PageOfRow(k) \in Nat /\ TopOfRow(k) \in Nat
           /\ TopOfRow(k) + RowHeight <= LastRowEnd
<1>1. CASE k <= 15
  BY <1>1 DEF PageOfRow, TopOfRow, FirstRowY, RowHeight, LastRowEnd
<1>2. CASE k > 15
  <2>1. PICK j \in Nat : j = k - 16
    BY <1>2
  <2>2. PICK r \in 0..25 : r = j % 26
    BY NextOfDivision
  <2>3. PICK q \in Nat : q = j \div 26
    BY NextOfDivision
  <2>4. PageOfRow(k) = 2 + q /\ TopOfRow(k) = NextPageY + RowHeight * r
    BY <1>2, <2>1, <2>2, <2>3 DEF PageOfRow, TopOfRow
  <2> QED
    BY <2>4 DEF NextPageY, RowHeight, LastRowEnd
<1> QED
  BY <1>1, <1>2

LEMMA SlotNext ==
    ASSUME NEW k \in Nat, k > 1
    PROVE  Slot(k) = IF Breaks(Slot(k - 1).y + RowHeight)
                       THEN [page |-> Slot(k - 1).page + 1, y |-> NextPageY]
                       ELSE [page |-> Slot(k - 1).page, y |-> Slot(k - 1).y + RowHeight]
<1>1. Slot(k - 1).y = TopOfRow(k - 1) /\ Slot(k - 1).page = PageOfRow(k - 1)
  BY DEF Slot
<1>2. CASE k <= 15
  <2>1. /\ TopOfRow(k) = TopOfRow(k - 1) + RowHeight /\ PageOfRow(k) = PageOfRow(k - 1)
        /\ ~Breaks(TopOfRow(k - 1) + RowHeight)
    BY <1>2 DEF TopOfRow, PageOfRow, Breaks, FirstRowY, RowHeight, LastRowEnd
  <2> QED
    BY <1>1, <2>1 DEF Slot
<1>3. CASE k = 16
  <2>1. /\ TopOfRow(k) = NextPageY /\ PageOfRow(k) = PageOfRow(k - 1) + 1
        /\ Breaks(TopOfRow(k - 1) + RowHeight)
    BY <1>3 DEF TopOfRow, PageOfRow, Breaks, FirstRowY, RowHeight, LastRowEnd, NextPageY
  <2> QED
    BY <1>1, <2>1 DEF Slot
<1>4. CASE k > 16
  <2>1. PICK j \in Nat : j = k - 17
    BY <1>4
  <2>2. PICK r \in 0..25 : r = j % 26
    BY NextOfDivision
  <2>3. PICK q \in Nat : q = j \div 26
    BY NextOfDivision
  <2>4. k - 16 = j + 1 /\ (k - 1) - 16 = j /\ ~(k <= 15) /\ ~(k - 1 <= 15)
    BY <1>4, <2>1
  <2>5. PageOfRow(k - 1) = 2 + q /\ TopOfRow(k - 1) = NextPageY + RowHeight * r
    BY <2>2, <2>3, <2>4 DEF PageOfRow, TopOfRow
  <2>6. /\ PageOfRow(k) = 2 + (IF r = 25 THEN q + 1 ELSE q)
        /\ TopOfRow(k) = NextPageY + RowHeight * (IF r = 25 THEN 0 ELSE r + 1)
    BY <2>2, <2>3, <2>4, NextOfDivision DEF PageOfRow, TopOfRow
  <2>7. CASE r = 25
    <3>1. /\ TopOfRow(k) = NextPageY /\ PageOfRow(k) = PageOfRow(k - 1) + 1
          /\ Breaks(TopOfRow(k - 1) + RowHeight)
      BY <2>5, <2>6, <2>7 DEF Breaks, RowHeight, LastRowEnd, NextPageY
    <3> QED
      BY <1>1, <3>1 DEF Slot
  <2>8. CASE r # 25
    <3>1. /\ TopOfRow(k) = TopOfRow(k - 1) + RowHeight /\ PageOfRow(k) = PageOfRow(k - 1)
          /\ ~Breaks(TopOfRow(k - 1) + RowHeight)
      BY <2>5, <2>6, <2>8 DEF Breaks, RowHeight, LastRowEnd, NextPageY
    <3> QED
      BY <1>1, <3>1 DEF Slot
  <2> QED
    BY <2>7, <2>8
<1> QED
  BY <1>2, <1>3, <1>4

LEMMA FirstSlot == Slot(1) = [page |-> 1, y |-> FirstRowY]
BY DEF Slot, PageOfRow, TopOfRow, FirstRowY, RowHeight

LEMMA PlacingIsSlot ==
    ASSUME NEW n \in Nat, NEW p, Placing(p, n)
    PROVE  \A k \in 1..n : p[k] = Slot(k)
<1> DEFINE B == {k \in 1..n : p[k] # Slot(k)}
<1>1. SUFFICES ASSUME B # {} PROVE FALSE
  OBVIOUS
<1>2. B \subseteq Nat
  OBVIOUS
<1>3. PICK k \in B : \A m \in B : k <= m
  BY <1>1, <1>2, LeastNatural
<1>4. k \in 1..n /\ k \in Nat /\ p[k] # Slot(k)
  BY <1>3
<1>5. p[k] = IF k = 1 THEN [page |-> 1, y |-> FirstRowY]
             ELSE IF Breaks(p[k - 1].y + RowHeight)
                    THEN [page |-> p[k - 1].page + 1, y |-> NextPageY]
                    ELSE [page |-> p[k - 1].page, y |-> p[k - 1].y + RowHeight]
  BY <1>4 DEF Placing
<1>6. k > 1
  BY <1>4, <1>5, FirstSlot
<1>7. p[k - 1] = Slot(k - 1)
  BY <1>3, <1>4, <1>6
<1> QED
  BY <1>4, <1>5, <1>6, <1>7, SlotNext

LEMMA PlacingExists ==
    ASSUME NEW n \in Nat
    PROVE  Placing([k \in 1..n |-> Slot(k)], n)
<1> DEFINE p == [k \in 1..n |-> Slot(k)]
<1>1. ASSUME NEW k \in 1..n
      PROVE  Slot(k) = IF k = 1 THEN [page |-> 1, y |-> FirstRowY]
                       ELSE IF Breaks(p[k - 1].y + RowHeight)
                              THEN [page |-> p[k - 1].page + 1, y |-> NextPageY]
                              ELSE [page |-> p[k - 1].page, y |-> p[k - 1].y + RowHeight]
  <2>1. CASE k = 1
    BY <2>1, FirstSlot
  <2>2. CASE k # 1
    <3>1. k > 1 /\ k - 1 \in 1..n
      BY <2>2
    <3>2. p[k - 1] = Slot(k - 1)
      BY <3>1
    <3> QED
      BY <3>1, <3>2, SlotNext
  <2> QED
    BY <2>1, <2>2
<1> QED
  BY <1>1 DEF Placing

LEMMA PlacedAtSlots ==
    ASSUME NEW n \in Nat
    PROVE  \A k \in 1..n : Placed(n)[k] = Slot(k)
<1>1. Placed(n) = CHOOSE p : Placing(p, n)
  BY DEF Placed, Placing
<1>2. Placing(Placed(n), n)
  BY <1>1, PlacingExists
<1> QED
  BY <1>2, PlacingIsSlot

LEMMA SlotsApart ==
    ASSUME NEW j \in Nat \ {0}, NEW k \in Nat, j < k
    PROVE  \/ PageOfRow(j) < PageOfRow(k)
           \/ PageOfRow(j) = PageOfRow(k) /\ TopOfRow(j) + RowHeight <= TopOfRow(k)
<1>1. CASE k <= 15
  BY <1>1 DEF PageOfRow, TopOfRow, FirstRowY, RowHeight
<1>2. CASE j <= 15 /\ k > 15
  <2>1. (k - 16) \div 26 \in Nat
    <3>1. PICK i \in Nat : i = k - 16
      BY <1>2
    <3> QED
      BY <3>1, NextOfDivision
  <2> QED
    BY <1>2, <2>1 DEF PageOfRow
<1>3. CASE j > 15
  <2>1. PICK a \in Nat : a = j - 16
    BY <1>3
  <2>2. PICK b \in Nat : b = k - 16
    BY <1>3
  <2>3. PICK q \in Nat, r \in 0..25 : q = a \div 26 /\ r = a % 26 /\ a = 26 * q + r
    BY NextOfDivision
  <2>4. PICK u \in Nat, v \in 0..25 : u = b \div 26 /\ v = b % 26 /\ b = 26 * u + v
    BY NextOfDivision
  <2>5. 26 * q + r < 26 * u + v
    BY <2>1, <2>2, <2>3, <2>4
  <2>6. q < u \/ (q = u /\ r + 1 <= v)
    BY <2>5
  <2>7. /\ PageOfRow(j) = 2 + q /\ TopOfRow(j) = NextPageY + RowHeight * r
        /\ PageOfRow(k) = 2 + u /\ TopOfRow(k) = NextPageY + RowHeight * v
    BY <1>3, <2>1, <2>2, <2>3, <2>4 DEF PageOfRow, TopOfRow
  <2> QED
    BY <2>6, <2>7 DEF NextPageY, RowHeight
<1> QED
  BY <1>1, <1>2, <1>3

\* Of any number of rows each has a place of its own above the margin.
LEMMA AnyRowsFit ==
    ASSUME NEW n \in Nat
    PROVE  \A j, k \in 1..n :
             /\ Placed(n)[k].y + RowHeight <= LastRowEnd
             /\ j < k => \/ Placed(n)[j].page < Placed(n)[k].page
                         \/ /\ Placed(n)[j].page = Placed(n)[k].page
                            /\ Placed(n)[j].y + RowHeight <= Placed(n)[k].y
<1> TAKE j, k \in 1..n
<1>1. Placed(n)[j] = Slot(j) /\ Placed(n)[k] = Slot(k)
  BY PlacedAtSlots
<1>2. /\ Placed(n)[j].page = PageOfRow(j) /\ Placed(n)[j].y = TopOfRow(j)
      /\ Placed(n)[k].page = PageOfRow(k) /\ Placed(n)[k].y = TopOfRow(k)
  BY <1>1 DEF Slot
<1>3. TopOfRow(k) + RowHeight <= LastRowEnd
  BY SlotType
<1>4. j < k => \/ PageOfRow(j) < PageOfRow(k)
               \/ PageOfRow(j) = PageOfRow(k) /\ TopOfRow(j) + RowHeight <= TopOfRow(k)
  BY SlotsApart
<1> QED
  BY <1>2, <1>3, <1>4

LEMMA SeventyRowsFit == RowsFit
<1>1. 70 \in Nat
  OBVIOUS
<1>2. PICK n \in Nat : n = 70
  BY <1>1
<1> QED
  BY <1>2, AnyRowsFit, Zenon DEF RowsFit

\* The statement and the history agree on a range of days.
LEMMA SameRows ==
    ASSUME StatementTyped, NEW first \in Nat, NEW last \in Nat, NEW wallet
    PROVE  StatementIds(first, last, wallet)
             = {i \in HistoryRange(first, last) \cap HistoryIds("COMPLETED", wallet) :
                  table[i].created # 2 * last + 1}
<1>1. ASSUME NEW i \in Ids
      PROVE  table[i].created <= 2 * last
               <=> table[i].created < 2 * (last + 1) /\ table[i].created # 2 * last + 1
  <2>1. table[i] \in HistoryRow
    BY <1>1, ElementOfSeq DEF StatementTyped, Ids
  <2>2. PICK t \in Nat : t = table[i].created
    BY <2>1 DEF HistoryRow
  <2>3. t <= 2 * last <=> t < 2 * (last + 1) /\ t # 2 * last + 1
    OBVIOUS
  <2> QED
    BY <2>2, <2>3
<1>2. ASSUME NEW i \in Ids
      PROVE  HasStatus(i, "COMPLETED") <=> table[i].status = "COMPLETED"
  BY DEF HasStatus
<1>3. PICK L, H : L = 2 * last /\ H = 2 * (last + 1)
  OBVIOUS
<1>4. PICK F : F = 2 * first
  OBVIOUS
<1>5. PICK odd : odd = 2 * last + 1
  OBVIOUS
<1>6. StatementIds(first, last, wallet)
        = {i \in Ids : /\ table[i].created >= F /\ table[i].created <= L
                       /\ table[i].status = "COMPLETED" /\ InWallet(i, wallet)}
  BY <1>3, <1>4 DEF StatementIds
<1>7. HistoryRange(first, last) = {i \in Ids : table[i].created >= F /\ table[i].created < H}
  BY <1>3, <1>4 DEF HistoryRange
<1>8. HistoryIds("COMPLETED", wallet)
        = {i \in Ids : HasStatus(i, "COMPLETED") /\ InWallet(i, wallet)}
  BY DEF HistoryIds
<1>9. \A i \in Ids : table[i].created <= L <=> table[i].created < H /\ table[i].created # odd
  BY <1>1, <1>3, <1>5
<1> QED
  BY <1>2, <1>5, <1>6, <1>7, <1>8, <1>9

\* Plain credits and debits are what both sums take them for.
LEMMA SameSums ==
    ASSUME NEW S, \A i \in S : table[i].type \in {"CREDIT", "DEBIT"}
    PROVE  CalculateWalletSummary(S) = UserTransactionStats(S)
<1>1. OfTypes(S, PrintedAsCredit) = OfTypes(S, {"CREDIT"})
  BY DEF OfTypes, PrintedAsCredit
<1> QED
  BY <1>1 DEF CalculateWalletSummary, UserTransactionStats

LEMMA StatementMatches == StatementInv => StatementMatchesHistory
<1> SUFFICES ASSUME StatementInv
             PROVE  StatementMatchesHistory
  OBVIOUS
<1>1. ASSUME NEW first \in 0..LastDay, NEW last \in 0..LastDay, NEW wallet \in Wallets
      PROVE  StatementIds(first, last, wallet)
               = {i \in HistoryRange(first, last) \cap HistoryIds("COMPLETED", wallet) :
                    table[i].created # 2 * last + 1}
  <2>1. first \in Nat /\ last \in Nat
    BY StatementAssumption
  <2> QED
    BY <2>1, SameRows DEF StatementInv
<1> QED
  BY <1>1, SameSums, SeventyRowsFit DEF StatementMatchesHistory

\* A statement of a range of days is the history of those days, its summary adds
\* up what the statistics add up, and its rows do not overlap on the page
\* (TransactionService.generateStatement and getTransactionHistory), after every
\* sequence of transactions and for every clock.
THEOREM StatementIsTheHistory == StatementSpec => []StatementMatchesHistory
<1>1. StatementInit => StatementInv
  BY StatementInitInv
<1>2. StatementInv /\ [StatementNext]_statementVars => StatementInv'
  BY StatementNextInv
<1>3. StatementInv => StatementMatchesHistory
  BY StatementMatches
<1> QED
  BY <1>1, <1>2, <1>3, PTL DEF StatementSpec

LEMMA StatementIsTyped == StatementInv => StatementTypeOK
<1> SUFFICES ASSUME StatementInv
             PROVE  StatementTypeOK
  OBVIOUS
<1>1. Day(now) \in 0..LastDay
  BY DayOfNow, StatementAssumption DEF StatementInv, StatementTyped, Day
<1> QED
  BY <1>1 DEF StatementInv, StatementTyped, StatementTypeOK, HistoryRow

-----------------------------------------------------------------------------
(* The parts side by side. A step of one leaves the variables of the others  *)
(* alone, so a behaviour of Services is one of every part.                   *)

\* Of the limiter only what must not happen: it is one part of many whose turn
\* it may never be.
LimitSafety == LimitInit /\ [][LimitNext]_limitVars

LEMMA DepositRunsAlone == ServicesSpec => DepositSpec
<1>1. ServicesInit => DepositInit
  BY DEF ServicesInit
<1>2. [ServicesNext]_serviceVars => [DepositNext]_depositVars
  BY DEF ServicesNext, serviceVars, RunDeposits, RunOnboarding, RunInbox, RunLimit,
         RunStatements, RunPlaces, RunProfile
<1> QED
  BY <1>1, <1>2, PTL DEF ServicesSpec, DepositSpec

LEMMA OnboardingRunsAlone == ServicesSpec => OnboardingSpec
<1>1. ServicesInit => OnboardingInit
  BY DEF ServicesInit
<1>2. [ServicesNext]_serviceVars => [OnboardingNext]_onboardingVars
  BY DEF ServicesNext, serviceVars, RunDeposits, RunOnboarding, RunInbox, RunLimit,
         RunStatements, RunPlaces, RunProfile
<1> QED
  BY <1>1, <1>2, PTL DEF ServicesSpec, OnboardingSpec

LEMMA InboxRunsAlone == ServicesSpec => InboxSpec
<1>1. ServicesInit => InboxInit
  BY DEF ServicesInit
<1>2. [ServicesNext]_serviceVars => [InboxNext]_inboxVars
  BY DEF ServicesNext, serviceVars, RunDeposits, RunOnboarding, RunInbox, RunLimit,
         RunStatements, RunPlaces, RunProfile
<1> QED
  BY <1>1, <1>2, PTL DEF ServicesSpec, InboxSpec

LEMMA LimitRunsAlone == ServicesSpec => LimitSafety
<1>1. ServicesInit => LimitInit
  BY DEF ServicesInit
<1>2. [ServicesNext]_serviceVars => [LimitNext]_limitVars
  BY DEF ServicesNext, serviceVars, RunDeposits, RunOnboarding, RunInbox, RunLimit,
         RunStatements, RunPlaces, RunProfile
<1> QED
  BY <1>1, <1>2, PTL DEF ServicesSpec, LimitSafety

LEMMA StatementRunsAlone == ServicesSpec => StatementSpec
<1>1. ServicesInit => StatementInit
  BY DEF ServicesInit
<1>2. [ServicesNext]_serviceVars => [StatementNext]_statementVars
  BY DEF ServicesNext, serviceVars, RunDeposits, RunOnboarding, RunInbox, RunLimit,
         RunStatements, RunPlaces, RunProfile
<1> QED
  BY <1>1, <1>2, PTL DEF ServicesSpec, StatementSpec

LEMMA PlaceRunsAlone == ServicesSpec => PlaceSpec
<1>1. ServicesInit => PlaceInit
  BY DEF ServicesInit
<1>2. [ServicesNext]_serviceVars => [PlaceNext]_placeVars
  BY DEF ServicesNext, serviceVars, RunDeposits, RunOnboarding, RunInbox, RunLimit,
         RunStatements, RunPlaces, RunProfile
<1> QED
  BY <1>1, <1>2, PTL DEF ServicesSpec, PlaceSpec

LEMMA ProfileRunsAlone == ServicesSpec => ProfileSpec
<1>1. ServicesInit => ProfileInit
  BY DEF ServicesInit
<1>2. [ServicesNext]_serviceVars => [ProfileNext]_profileVars
  BY DEF ServicesNext, serviceVars, RunDeposits, RunOnboarding, RunInbox, RunLimit,
         RunStatements, RunPlaces, RunProfile
<1> QED
  BY <1>1, <1>2, PTL DEF ServicesSpec, ProfileSpec

LEMMA LimitSafe == LimitSafety => [](LimitTypeOK /\ LimitHolds)
<1>1. LimitTyped => LimitTypeOK
  BY DEF LimitTyped
<1> QED
  BY <1>1, LimitInitTyped, LimitNextTyped, LimitInitInv, LimitNextInv, LimitInvImplies, PTL
  DEF LimitSafety

LEMMA OnboardingTypeCorrect == OnboardingSpec => []OnboardingTypeOK
<1> QED
  BY OnboardingInitInv, OnboardingNextInv, OnboardingInvImplies, PTL DEF OnboardingSpec

LEMMA StatementTypeCorrect == StatementSpec => []StatementTypeOK
<1> QED
  BY StatementInitInv, StatementNextInv, StatementIsTyped, PTL DEF StatementSpec

\* Every part keeps to its types, whichever of them runs.
THEOREM ServicesTypeCorrect == ServicesSpec => []ServicesTypeOK
<1>1. ServicesSpec => []DepositTypeOK
  BY DepositRunsAlone, DepositTypeCorrect
<1>2. ServicesSpec => []OnboardingTypeOK
  BY OnboardingRunsAlone, OnboardingTypeCorrect
<1>3. ServicesSpec => []InboxTypeOK
  BY InboxRunsAlone, InboxTypeCorrect
<1>4. ServicesSpec => [](LimitTypeOK /\ LimitHolds)
  BY LimitRunsAlone, LimitSafe
<1>5. ServicesSpec => []StatementTypeOK
  BY StatementRunsAlone, StatementTypeCorrect
<1>6. ServicesSpec => []PlaceTypeOK
  BY PlaceRunsAlone, PlaceTypeCorrect
<1>7. ServicesSpec => []ProfileTypeOK
  BY ProfileRunsAlone, ProfileTypeCorrect
<1>8. (/\ DepositTypeOK /\ OnboardingTypeOK /\ InboxTypeOK
       /\ LimitTypeOK /\ StatementTypeOK /\ PlaceTypeOK /\ ProfileTypeOK)
      => ServicesTypeOK
  BY DEF ServicesTypeOK
<1> QED
  BY <1>1, <1>2, <1>3, <1>4, <1>5, <1>6, <1>7, <1>8, PTL

\* All that the parts promise holds of Services, where they stand side by side:
\* money, marks, limits, verdicts, pages, places and addresses.
THEOREM ServicesKeepPromises ==
    ServicesSpec =>
      [](/\ BalanceBacked /\ LossHasCause
         /\ SentWasPushed /\ MarksStick
         /\ LimitHolds
         /\ KycAgrees /\ ResumeIsEarned
         /\ PagesPartition /\ StatementMatchesHistory
         /\ GapsHaveCause
         /\ EmailsAreOwn /\ FilesAreRetrievable /\ EditsStick)
<1>1. ServicesSpec => []BalanceBacked /\ []LossHasCause
  BY DepositRunsAlone, BalanceIsBacked, LossIsExcused
<1>2. ServicesSpec => []SentWasPushed /\ []MarksStick
  BY InboxRunsAlone, SentMeansPushed, MarksAreKept
<1>3. ServicesSpec => [](LimitTypeOK /\ LimitHolds)
  BY LimitRunsAlone, LimitSafe
<1>4. ServicesSpec => []KycAgrees /\ []ResumeIsEarned
  BY OnboardingRunsAlone, VerdictsAgree, ResumeIsExact
<1>5. ServicesSpec => []PagesPartition /\ []StatementMatchesHistory
  BY StatementRunsAlone, HistoryIsComplete, StatementIsTheHistory
<1>6. ServicesSpec => []GapsHaveCause
  BY PlaceRunsAlone, GapsAreExcused
<1>7. ServicesSpec => []EmailsAreOwn /\ []FilesAreRetrievable /\ []EditsStick
  BY ProfileRunsAlone, EmailsAreUnique, FilesAreThere, EditsAreKept
<1> QED
  BY <1>1, <1>2, <1>3, <1>4, <1>5, <1>6, <1>7, PTL
=============================================================================
