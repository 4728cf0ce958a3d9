------------------------------- MODULE Inbox -------------------------------
(***************************************************************************)
(* The notifications of one user: the rows NotificationService writes, the *)
(* requests of NotificationController that mark and delete them, and the   *)
(* push FirebaseService.notifyByPush hands to FCM.                         *)
(*                                                                         *)
(* repository.save writes back an entity that was read or inserted some    *)
(* awaits before, with every column as it was then, and inserts it again   *)
(* when the row is gone; update and delete are single statements.          *)
(***************************************************************************)
EXTENDS Integers, FiniteSets

CONSTANTS
    InboxHandlers,   \* requests in flight at once
    Notifications,   \* the ids the rows may get
    MaxMarks,        \* bound: requests that mark or delete
    MaxInboxFaults   \* bound: failed calls and process restarts

ASSUME InboxAssumption ==
    Notifications # {} /\ MaxMarks \in Nat /\ MaxInboxFaults \in Nat

VARIABLES
    rows,            \* notifications: the row of each id
    used,            \* the ids given out
    accepted,        \* the notifications whose push FCM accepted
    inboxHandler,
    marks,           \* requests that mark or delete so far
    inboxFaults,
    \* What happened, for the properties:
    wanted,          \* what the user last had done to each notification
    clobbered        \* rows saved from a copy that was no longer what the row held

inboxVars == <<rows, used, accepted, inboxHandler, marks, inboxFaults, wanted, clobbered>>

Gone == [status |-> "absent", isSent |-> FALSE]
\* Mutant: the row says sent before it is.
NewRowMutantSent == [status |-> "UNREAD", isSent |-> TRUE]
NewRow == [status |-> "UNREAD", isSent |-> FALSE]
IdleInbox == [pc |-> "idle", op |-> "none", todo |-> {}, mine |-> TRUE, copy |-> Gone]

InboxInit ==
    /\ rows = [n \in Notifications |-> Gone]
    /\ used = {} /\ accepted = {}
    /\ inboxHandler = [h \in InboxHandlers |-> IdleInbox]
    /\ marks = 0 /\ inboxFaults = 0
    /\ wanted = [n \in Notifications |-> "absent"]
    /\ clobbered = {}

InboxAt(h, pc) == inboxHandler[h].pc = pc
Current(h) == CHOOSE n \in inboxHandler[h].todo : TRUE

\* repository.save of a copy the handler has changed.
SaveRow(h, n, row) ==
    /\ rows' = [rows EXCEPT ![n] = row]
    /\ clobbered' = IF rows[n] = inboxHandler[h].copy THEN clobbered ELSE clobbered \cup {n}

-----------------------------------------------------------------------------
(* create: the row first, the push, the row again.                         *)

\* A user that is not there is answered 404. createBulkNotifications does this
\* for one user after the other.
InsertNotification(h, n) ==
    /\ InboxAt(h, "idle")
    /\ n \notin used
    /\ used' = used \cup {n}
    /\ rows' = [rows EXCEPT ![n] = NewRow]
    /\ wanted' = [wanted EXCEPT ![n] = "UNREAD"]
    /\ inboxHandler' = [inboxHandler EXCEPT ![h] =
         [IdleInbox EXCEPT !.pc = "push", !.op = "create", !.todo = {n}, !.copy = NewRow]]
    /\ UNCHANGED <<accepted, marks, inboxFaults, clobbered>>

\* No push was asked for or the user has no token; FCM refuses it or the call
\* fails, which notifyByPush answers with a false status.
SkipPush(h) ==
    /\ InboxAt(h, "push")
    /\ inboxHandler' = [inboxHandler EXCEPT ![h] = IdleInbox]
    /\ UNCHANGED <<rows, used, accepted, marks, inboxFaults, wanted, clobbered>>

Push(h) ==
    /\ InboxAt(h, "push")
    /\ accepted' = accepted \cup {Current(h)}
    /\ inboxHandler' = [inboxHandler EXCEPT ![h].pc = "sent"]
    /\ UNCHANGED <<rows, used, marks, inboxFaults, wanted, clobbered>>

SaveSent(h) ==
    /\ InboxAt(h, "sent")
    /\ SaveRow(h, Current(h), [inboxHandler[h].copy EXCEPT !.isSent = TRUE])
    /\ inboxHandler' = [inboxHandler EXCEPT ![h] = IdleInbox]
    /\ UNCHANGED <<used, accepted, marks, inboxFaults, wanted>>

-----------------------------------------------------------------------------
(* markAsRead, markAsUnread, markBulkAsRead.                               *)

\* One id, or several to mark read one after the other. mine: whether the
\* rows are the caller's.
ReceiveMark(h, op, S, mine) ==
    /\ InboxAt(h, "idle")
    /\ marks < MaxMarks
    /\ marks' = marks + 1
    /\ inboxHandler' = [inboxHandler EXCEPT ![h] =
         [IdleInbox EXCEPT !.pc = "find", !.op = op, !.todo = S, !.mine = mine]]
    /\ UNCHANGED <<rows, used, accepted, inboxFaults, wanted, clobbered>>

\* The id is done; the request ends with the last one.
NextId(h) ==
    LET d == inboxHandler[h] IN
    inboxHandler' = [inboxHandler EXCEPT ![h] =
      IF Cardinality(d.todo) > 1
        THEN [d EXCEPT !.pc = "find", !.todo = d.todo \ {Current(h)}]
        ELSE IdleInbox]

\* Mutant: the row is looked up by its id alone.
FindsMutantAnyUser(h) == rows[Current(h)] # Gone
Finds(h) == inboxHandler[h].mine /\ rows[Current(h)] # Gone

FindRow(h) ==
    /\ InboxAt(h, "find")
    /\ IF Finds(h)
         THEN inboxHandler' = [inboxHandler EXCEPT ![h].pc = "save",
                                                   ![h].copy = rows[Current(h)]]
         ELSE NextId(h)
    /\ UNCHANGED <<rows, used, accepted, marks, inboxFaults, wanted, clobbered>>

MarkedRow(h) == [inboxHandler[h].copy EXCEPT !.status = inboxHandler[h].op]

SaveMark(h) ==
    /\ InboxAt(h, "save")
    /\ SaveRow(h, Current(h), MarkedRow(h))
    /\ wanted' = IF inboxHandler[h].mine
                   THEN [wanted EXCEPT ![Current(h)] = inboxHandler[h].op] ELSE wanted
    /\ NextId(h)
    /\ UNCHANGED <<used, accepted, marks, inboxFaults>>

\* markAllAsRead: one UPDATE of the rows that are unread.
MarkAllAsRead ==
    /\ marks < MaxMarks
    /\ marks' = marks + 1
    /\ LET unread == {n \in Notifications : rows[n].status = "UNREAD"} IN
       rows' = [n \in Notifications |->
                  IF n \in unread THEN [rows[n] EXCEPT !.status = "READ"] ELSE rows[n]]
    /\ wanted' = [n \in Notifications |-> IF rows[n] # Gone THEN "READ" ELSE wanted[n]]
    /\ UNCHANGED <<used, accepted, inboxHandler, inboxFaults, clobbered>>

\* deleteNotification: one DELETE by id and user; a row that is not there or
\* not the caller's is answered 404. DELETE bulk-delete and DELETE clear-read
\* are declared after DELETE :id, whose ParseIntPipe refuses their paths.
DeleteNotification(n) ==
    /\ marks < MaxMarks
    /\ rows[n] # Gone
    /\ marks' = marks + 1
    /\ rows' = [rows EXCEPT ![n] = Gone]
    /\ wanted' = [wanted EXCEPT ![n] = "absent"]
    /\ UNCHANGED <<used, accepted, inboxHandler, inboxFaults, clobbered>>

-----------------------------------------------------------------------------
\* The call awaited fails: create logs it and a bulk request goes on with the
\* next id. Or the process restarts, which ends the request.
FailInbox(h) ==
    /\ ~InboxAt(h, "idle")
    /\ inboxFaults < MaxInboxFaults
    /\ inboxFaults' = inboxFaults + 1
    /\ \/ NextId(h)
       \/ inboxHandler' = [inboxHandler EXCEPT ![h] = IdleInbox]
    /\ UNCHANGED <<rows, used, accepted, marks, wanted, clobbered>>

InboxNext ==
    \/ \E h \in InboxHandlers :
         \/ \E n \in Notifications : InsertNotification(h, n)
         \/ SkipPush(h) \/ Push(h) \/ SaveSent(h)
         \/ \E n \in Notifications, op \in {"READ", "UNREAD"}, mine \in BOOLEAN :
              ReceiveMark(h, op, {n}, mine)
         \/ ReceiveMark(h, "READ", Notifications, TRUE)
         \/ FindRow(h) \/ SaveMark(h)
         \/ FailInbox(h)
    \/ MarkAllAsRead
    \/ \E n \in Notifications : DeleteNotification(n)

InboxSpec == InboxInit /\ [][InboxNext]_inboxVars

-----------------------------------------------------------------------------
(* Properties.                                                             *)

InboxRow == [status : {"absent", "UNREAD", "READ"}, isSent : BOOLEAN]
InboxRequest ==
    [pc : {"idle", "push", "sent", "find", "save"}, op : {"none", "create", "READ", "UNREAD"},
     todo : SUBSET Notifications, mine : BOOLEAN, copy : InboxRow]

InboxTypeOK ==
    /\ rows \in [Notifications -> InboxRow]
    /\ used \subseteq Notifications /\ accepted \subseteq used
    /\ inboxHandler \in [InboxHandlers -> InboxRequest]
    /\ marks \in 0..MaxMarks /\ inboxFaults \in 0..MaxInboxFaults
    /\ wanted \in [Notifications -> {"absent", "UNREAD", "READ"}]
    /\ clobbered \subseteq Notifications

\* A notification is only shown as sent when FCM accepted its push, whichever
\* stale copy of the row was saved last, also after its row was deleted and a
\* late save brought it back.
SentWasPushed == \A n \in Notifications : rows[n].isSent => n \in accepted

\* Unless a save wrote a copy over a row that had changed since it was read, a
\* notification is there until its user deletes it, and reads what its user
\* last marked it: not the push that follows the insert, not the marks of other
\* users, not a mark of all nor a bulk one that fails half-way changes that.
MarksStick == \A n \in Notifications \ clobbered : rows[n].status = wanted[n]
=============================================================================
