----------------------------- MODULE Statements -----------------------------
(***************************************************************************)
(* What a user is shown of the transactions: the pages of the history      *)
(* (TransactionService.getTransactionHistory), the account statement       *)
(* (generateStatement, its summary and its table) and the statistics       *)
(* (getUserTransactionStats). The rows come from the other services, at    *)
(* any time, also between two pages and between the count and the rows of  *)
(* one page.                                                               *)
(*                                                                         *)
(* A day has two instants: up to its last whole millisecond (even) and     *)
(* what the clock of the database still resolves after that (odd). Days    *)
(* are those of UTC, the zone the server is taken to run in.               *)
(***************************************************************************)
EXTENDS Integers, FiniteSets, Sequences, Functions

CONSTANTS
    TxTypes,        \* the types of the transactions of the CAD wallet
    TxAmounts,      \* the amounts
    HistoryFilters, \* the status and the wallet a client asks for
    PageSizes,      \* the limits a client asks for
    MaxRows,        \* bound: transactions of the user
    LastDay,        \* bound: the clock stops at the end of this day
    MaxRangeDays    \* the longest range of a statement: 365 days

Currencies == {"CAD", "NGN"}
Wallets == Currencies \cup {"ALL"}

ASSUME StatementAssumption ==
    /\ TxAmounts \subseteq Nat
    /\ HistoryFilters \subseteq {"ANY", "PENDING", "COMPLETED", "FAILED"} \X Wallets
    /\ PageSizes \subseteq Nat \ {0}
    /\ MaxRows \in Nat /\ LastDay \in Nat /\ MaxRangeDays \in Nat

VARIABLES
    table,      \* the transactions of the user, in the order of their ids
    now,        \* the instant of the database's clock
    reader,     \* the client reading the history page by page
    got         \* history: the ids it was given, Moved if the table changed meanwhile

statementVars == <<table, now, reader, got>>

NoReader == [pc |-> "idle", status |-> "ANY", wallet |-> "ALL", limit |-> 1,
             page |-> 1, total |-> 0]
Moved == <<0>>

StatementInit == table = <<>> /\ now = 0 /\ reader = NoReader /\ got = Moved

Day(t) == t \div 2
Ids == 1..Len(table)

-----------------------------------------------------------------------------
(* The rows.                                                               *)

\* createPendingTransaction, for the CAD wallet.
RecordPending(type, amount) ==
    /\ Len(table) < MaxRows
    /\ table' = Append(table, [type |-> type, amount |-> amount, currency |-> "CAD",
                               status |-> "PENDING", created |-> now])
    /\ got' = Moved
    /\ UNCHANGED <<now, reader>>

\* The credit of an NGN deposit, which NgnDeposits has in detail.
RecordDeposit(amount) ==
    /\ Len(table) < MaxRows
    /\ table' = Append(table, [type |-> "CREDIT", amount |-> amount, currency |-> "NGN",
                               status |-> "COMPLETED", created |-> now])
    /\ got' = Moved
    /\ UNCHANGED <<now, reader>>

\* completeTransaction and failTransaction, which AptPayWebhook has in detail.
Decide(i, status) ==
    /\ table[i].status = "PENDING"
    /\ table' = [table EXCEPT ![i].status = status]
    /\ got' = Moved
    /\ UNCHANGED <<now, reader>>

Pass ==
    /\ Day(now + 1) <= LastDay
    /\ now' = now + 1
    /\ UNCHANGED <<table, reader, got>>

-----------------------------------------------------------------------------
(* The history.                                                            *)

InWallet(i, wallet) == wallet \in {"ALL", table[i].currency}
HasStatus(i, status) == status \in {"ANY", table[i].status}

HistoryIds(status, wallet) == {i \in Ids : HasStatus(i, status) /\ InWallet(i, wallet)}

\* createdAt >= startDate and createdAt < endDate plus one day.
HistoryRange(first, last) ==
    {i \in Ids : table[i].created >= 2 * first /\ table[i].created < 2 * (last + 1)}

\* ORDER BY createdAt DESC: rows of one instant come in any order.
Orderings(S) ==
    {s \in [1..Cardinality(S) -> S] :
       /\ IsInjective(s)
       /\ \A j, k \in 1..Cardinality(S) : j < k => table[s[j]].created >= table[s[k]].created}

\* Mutant: pages are counted from 0.
SkippedMutantZero(page, limit) == page * limit
Skipped(page, limit) == (page - 1) * limit
TotalPages(total, limit) == (total + limit - 1) \div limit

PageOf(s, page, limit) ==
    LET skip == Skipped(page, limit) IN
    SubSeq(s, skip + 1, IF skip + limit < Len(s) THEN skip + limit ELSE Len(s))

OpenHistory(status, wallet, limit) ==
    /\ reader.pc = "idle"
    /\ reader' = [NoReader EXCEPT !.pc = "count", !.status = status, !.wallet = wallet,
                                  !.limit = limit]
    /\ got' = <<>>
    /\ UNCHANGED <<table, now>>

CountHistory ==
    /\ reader.pc = "count"
    /\ reader' = [reader EXCEPT !.pc = "rows",
                    !.total = Cardinality(HistoryIds(reader.status, reader.wallet))]
    /\ UNCHANGED <<table, now, got>>

\* The client goes on while the answers say that there are more pages.
FetchPage ==
    /\ reader.pc = "rows"
    /\ \E s \in Orderings(HistoryIds(reader.status, reader.wallet)) :
         got' = IF got = Moved THEN got
                ELSE got \o PageOf(s, reader.page, reader.limit)
    /\ reader' = [reader EXCEPT
                    !.pc = IF reader.page < TotalPages(reader.total, reader.limit)
                             THEN "count" ELSE "read",
                    !.page = @ + 1]
    /\ UNCHANGED <<table, now>>

CloseHistory ==
    /\ reader.pc = "read"
    /\ reader' = NoReader
    /\ got' = Moved
    /\ UNCHANGED <<table, now>>

StatementNext ==
    \/ \E n \in TxAmounts :
         (\E type \in TxTypes : RecordPending(type, n)) \/ RecordDeposit(n)
    \/ \E i \in Ids, status \in {"COMPLETED", "FAILED"} : Decide(i, status)
    \/ Pass
    \/ \E filter \in HistoryFilters, limit \in PageSizes :
         OpenHistory(filter[1], filter[2], limit)
    \/ CountHistory
    \/ FetchPage
    \/ CloseHistory

StatementSpec == StatementInit /\ [][StatementNext]_statementVars

-----------------------------------------------------------------------------
(* The statement and the statistics of a range of days.                    *)

\* IsNotFutureDate on both ends, the order of the two and the length are
\* checked first. A request for CSV is accepted and never answered.
Accepted(first, last) ==
    /\ first <= Day(now) /\ last <= Day(now)
    /\ first <= last
    /\ last - first + 1 <= MaxRangeDays

\* Between(start T00:00:00.000Z, end T23:59:59.999Z), COMPLETED, and the wallet.
\* Mutant: the end is the start of the last day.
StatementIdsMutantEnd(first, last, wallet) ==
    {i \in Ids : /\ table[i].created >= 2 * first /\ table[i].created < 2 * last
                 /\ table[i].status = "COMPLETED" /\ InWallet(i, wallet)}
StatementIds(first, last, wallet) ==
    {i \in Ids : /\ table[i].created >= 2 * first /\ table[i].created <= 2 * last
                 /\ table[i].status = "COMPLETED" /\ InWallet(i, wallet)}

Total(S) == FoldFunctionOnSet(LAMBDA row, sum : row.amount + sum, 0, table, S)

\* The table and the summary call three types a credit, the statistics one.
PrintedAsCredit == {"CREDIT", "DEPOSIT", "P2P_CREDIT"}
OfTypes(S, types) == {i \in S : table[i].type \in types}

CalculateWalletSummary(S) ==
    [credit |-> Total(OfTypes(S, PrintedAsCredit)),
     debit |-> Total(S \ OfTypes(S, PrintedAsCredit)), count |-> Cardinality(S)]

UserTransactionStats(S) ==
    [credit |-> Total(OfTypes(S, {"CREDIT"})), debit |-> Total(S \ OfTypes(S, {"CREDIT"})),
     count |-> Cardinality(S)]

\* Where the table puts its rows, in points from the top of an A4 page: the
\* first page starts under the summary, the others under a shorter header.
FirstRowY == 360 + 35
NextPageY == 80 + 35
RowHeight == 25
LastRowEnd == 841 - 60

Breaks(y) == y + RowHeight > LastRowEnd

Placed(n) ==
    LET place[k \in 1..n] ==
          IF k = 1 THEN [page |-> 1, y |-> FirstRowY]
          ELSE LET above == place[k - 1] IN
               IF Breaks(above.y + RowHeight)
                 THEN [page |-> above.page + 1, y |-> NextPageY]
                 ELSE [page |-> above.page, y |-> above.y + RowHeight]
    IN place

-----------------------------------------------------------------------------
(* Properties.                                                             *)

StatementTypeOK ==
    /\ table \in Seq([type : TxTypes \cup {"CREDIT"}, amount : TxAmounts, currency : Currencies,
                      status : {"PENDING", "COMPLETED", "FAILED"}, created : Nat])
    /\ Len(table) <= MaxRows
    /\ Day(now) \in 0..LastDay
    /\ reader.pc \in {"idle", "count", "rows", "read"}
    /\ got \in Seq(0..MaxRows)

\* A client that reads all pages while no transaction is added or decided gets
\* every transaction of its filter exactly once and the newest first, with the
\* total counted apart from the rows and whatever the page size, unless two of
\* them were created at the same instant: their order may change from page to
\* page.
PagesPartition ==
    LET S == HistoryIds(reader.status, reader.wallet) IN
    reader.pc = "read" /\ got # Moved
      /\ (\A i, j \in S : i # j => table[i].created # table[j].created)
        => got \in Orderings(S)

\* Rows of the printed table, however many, have each a place of their own above
\* the bottom margin.
RowsFit ==
    LET place == Placed(70) IN
    \A j, k \in 1..70 :
      /\ place[k].y + RowHeight <= LastRowEnd
      /\ j < k => \/ place[j].page < place[k].page
                  \/ place[j].page = place[k].page /\ place[j].y + RowHeight <= place[k].y

\* The statement of a range of days lists what the history lists for the same
\* days, wallet and status COMPLETED, but for the rows of the last fraction of a
\* millisecond; its summary adds up what the statistics add up as long as there
\* are only plain credits and debits; and the rows it prints, however many, have
\* each a place of their own on its pages.
StatementMatchesHistory ==
  /\ \A first, last \in 0..LastDay, wallet \in Wallets :
      Accepted(first, last) =>
        LET S == StatementIds(first, last, wallet)
            shown == HistoryRange(first, last) \cap HistoryIds("COMPLETED", wallet)
        IN /\ S = {i \in shown : table[i].created # 2 * last + 1}
           /\ (\A i \in S : table[i].type \in {"CREDIT", "DEBIT"}) =>
                CalculateWalletSummary(S) = UserTransactionStats(S)
  /\ RowsFit
=============================================================================
