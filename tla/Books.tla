-------------------------------- MODULE Books --------------------------------
(***************************************************************************)
(* The in-memory ledger and the three services that change it:             *)
(* AccountService, TransactionService and ReconciliationService.  A call   *)
(* that is refused returns an error and leaves the ledger as it was, so    *)
(* only the calls that go through are steps.  One budget; names, notes,    *)
(* memos, payees and categories are left out.  A transfer is named after   *)
(* the row of its first leg.                                               *)
(***************************************************************************)
EXTENDS Integers, FiniteSets, FiniteSetsExt, Functions, Maps

CONSTANTS
  Accounts,      \* account ids
  MaxRows,       \* bound: transactions ever created
  Dates,         \* dates of transactions and statements, a set of integers
  Amounts,       \* amounts a client enters
  Endings,       \* ending balances of statements
  ClientRows,    \* rows a client makes up: any account, body and clearance
  Statements,    \* reconciliation ids, one per session
  NoDate,
  MaxCalls       \* bound: calls that go through

Opening == [kind |-> "opening"]
Categorized == [kind |-> "categorized"]

Bodies ==
  {Opening, Categorized}
    \cup [kind : {"transfer"}, transfer : Nat, other : Accounts, otherAmount : Int]

LedgerRows == [account : Accounts, date : Dates, amount : Int,
         clearance : {"Uncleared", "Cleared", "Reconciled"}, approved : BOOLEAN, body : Bodies]

ASSUME BooksAssumption ==
  /\ Dates \subseteq Int /\ NoDate \notin Dates
  /\ Amounts \subseteq Int
  /\ Endings \subseteq Int
  /\ ClientRows \subseteq LedgerRows

VARIABLES
  accounts,       \* accounts of the ledger: id -> [liability, closed]
  rows,           \* transactions of the ledger: id -> row
  issued,         \* transaction ids handed out so far
  recalculateFrom,\* Ledger::recalculation_from
  records,        \* reconciliations of the ledger: id -> record
  sessions,       \* ReconciliationSession values the clients hold
  overridden,     \* history: reconciled rows changed without telling their reconciliation
  patched,        \* history: transfers named in a row a client wrote, or wrote over
  service,        \* history: the service called last; "overwrite" for an add over a row
  calls

books == <<accounts, rows, issued, recalculateFrom, records, sessions,
           overridden, patched, service, calls>>

Call(name) == calls < MaxCalls /\ calls' = calls + 1 /\ service' = name
-----------------------------------------------------------------------------
(* Rows and what is computed from them. *)

Row(account, date, amount, clearance, approved, body) ==
  [account |-> account, date |-> date, amount |-> amount,
   clearance |-> clearance, approved |-> approved, body |-> body]

IsTransfer(id) == rows[id].body.kind = "transfer"
LegsOf(id) == {other \in DOMAIN rows : /\ IsTransfer(other)
                                       /\ rows[other].body.transfer = rows[id].body.transfer}

AmountOf(ledger, ids) == MapThenSumSet(LAMBDA id : ledger[id].amount, ids)

WorkingBalance(account) ==
  AmountOf(rows, {id \in DOMAIN rows : rows[id].account = account})

EarliestMutant(date) == date
Earliest(date) == IF recalculateFrom = NoDate \/ date <= recalculateFrom
                  THEN date ELSE recalculateFrom

\* mutation_check: a reconciled row is changed only with a confirmation.
Mutable(id, confirmed) == rows[id].clearance = "Reconciled" => confirmed

\* check: the account of a row exists, a closed one needs a confirmation.
Open(account, confirmed) ==
  account \in DOMAIN accounts /\ (accounts[account].closed => confirmed)

Overrides(ids) == overridden' = overridden \cup {id \in ids : rows[id].clearance = "Reconciled"}

\* A row that is put as a client supplies it names transfers as the client pleases, and
\* takes what stood there out of step with its other leg.
TransferOf(row) == IF row.body.kind = "transfer" THEN {row.body.transfer} ELSE {}
Patches(id, row) ==
  patched' = IF id \in DOMAIN rows THEN IF row = rows[id] THEN patched
                                        ELSE patched \cup TransferOf(row) \cup TransferOf(rows[id])
             ELSE patched \cup TransferOf(row)

Issue(n) == issued + n <= MaxRows /\ issued' = issued + n
New == issued + 1

WithTransfer(source, destination, date, amount) ==
  LET leg(account, other, own) ==
        Row(account, date, own, "Uncleared", TRUE,
            [kind |-> "transfer", transfer |-> New, other |-> other,
             otherAmount |-> -own])
  IN  Put(Put(rows, New, leg(source, destination, amount)),
          New + 1, leg(destination, source, -amount))

\* create_transfer_in refuses unknown and equal accounts, and nothing else.
CanTransfer(source, destination) ==
  {source, destination} \subseteq DOMAIN accounts /\ source # destination
-----------------------------------------------------------------------------
(* AccountService *)

CreateAccount(account, liability, magnitude, date) ==
  LET opening == IF liability THEN -magnitude ELSE magnitude IN
  /\ Call("accounts") /\ account \notin DOMAIN accounts /\ magnitude >= 0
  /\ accounts' = Put(accounts, account, [liability |-> liability, closed |-> FALSE])
  /\ IF opening = 0
     THEN UNCHANGED <<rows, issued>>
     ELSE /\ Issue(1)
          /\ rows' = Put(rows, New, Row(account, date, opening, "Cleared", TRUE, Opening))
  /\ UNCHANGED <<recalculateFrom, records, sessions, overridden, patched>>

ChangeType(account, liability) ==
  /\ Call("accounts") /\ account \in DOMAIN accounts
  /\ accounts[account].liability # liability
  /\ \A id \in DOMAIN rows : rows[id].account # account
  /\ accounts' = [accounts EXCEPT ![account].liability = liability]
  /\ UNCHANGED <<rows, issued, recalculateFrom, records, sessions, overridden, patched>>

\* The three ways an account is closed: empty, by an adjusting row, by a transfer.
Close(account, resolution, date) ==
  LET balance == WorkingBalance(account) IN
  /\ Call("accounts") /\ account \in DOMAIN accounts
  /\ \/ balance = 0 /\ UNCHANGED <<rows, issued>>
     \/ /\ balance # 0 /\ resolution = "adjust" /\ Issue(1)
        /\ rows' = Put(rows, New, Row(account, date, -balance, "Cleared", TRUE, Opening))
     \/ /\ balance # 0 /\ CanTransfer(account, resolution) /\ Issue(2)
        /\ rows' = WithTransfer(account, resolution, date, -balance)
  /\ accounts' = [accounts EXCEPT ![account].closed = TRUE]
  /\ UNCHANGED <<recalculateFrom, records, sessions, overridden, patched>>

Reopen(account) ==
  /\ Call("accounts") /\ account \in DOMAIN accounts /\ accounts[account].closed
  /\ accounts' = [accounts EXCEPT ![account].closed = FALSE]
  /\ UNCHANGED <<rows, issued, recalculateFrom, records, sessions, overridden, patched>>

DeleteAccount(account) ==
  /\ Call("accounts") /\ account \in DOMAIN accounts
  /\ \A id \in DOMAIN rows : rows[id].account # account
  /\ accounts' = Restrict(accounts, DOMAIN accounts \ {account})
  /\ UNCHANGED <<rows, issued, recalculateFrom, records, sessions, overridden, patched>>
-----------------------------------------------------------------------------
(* TransactionService *)

\* The row is put under its id, a new one or one in use: then the row there is lost, a
\* reconciled one too, and its date is not announced.  The transfer it may name is one
\* handed out before or made up, here under the row's own id.
Add(id, row, confirmed) ==
  /\ Call(IF id \in DOMAIN rows THEN "overwrite" ELSE "transactions")
  /\ Open(row.account, confirmed)
  /\ IF id = New THEN Issue(1) ELSE id \in 1..issued /\ UNCHANGED issued
  /\ TransferOf(row) \subseteq 1..issued'
  /\ rows' = Put(rows, id, row)
  /\ recalculateFrom' = Earliest(row.date)
  /\ Overrides({id} \cap DOMAIN rows) /\ Patches(id, row)
  /\ UNCHANGED <<accounts, records, sessions>>

\* The dates of both legs follow; so do the amounts, with opposite signs.
EditLegsMutant(id, pair, date, amount) ==
  rows' = [rows EXCEPT
    ![id] = [@ EXCEPT !.date = date, !.amount = amount, !.body.otherAmount = -amount],
    ![pair] = [@ EXCEPT !.amount = -amount, !.body.otherAmount = amount]]
EditLegs(id, pair, date, amount) ==
  rows' = [rows EXCEPT
    ![id] = [@ EXCEPT !.date = date, !.amount = amount, !.body.otherAmount = -amount],
    ![pair] = [@ EXCEPT !.date = date, !.amount = -amount, !.body.otherAmount = amount]]

EditTransfer(id, date, amount, confirmed) ==
  /\ Call("transactions") /\ Cardinality(LegsOf(id)) > 1
  /\ \E pair \in LegsOf(id) \ {id} :
       /\ Mutable(id, confirmed) /\ Mutable(pair, confirmed)
       /\ EditLegs(id, pair, date, amount)
       /\ Overrides({id, pair})
  /\ recalculateFrom' = Earliest(IF rows[id].date <= date THEN rows[id].date ELSE date)
  /\ UNCHANGED <<accounts, issued, records, sessions, patched>>

\* An ordinary row is replaced, by the leg of a transfer if need be; a row that is a leg
\* takes only the date and the amount.
Edit(id, row, confirmed) ==
  /\ Mutable(id, confirmed) /\ Open(row.account, confirmed)
  /\ IF IsTransfer(id) THEN EditTransfer(id, row.date, row.amount, confirmed)
     ELSE /\ Call("transactions")
          /\ TransferOf(row) \subseteq 1..issued
          /\ rows' = [rows EXCEPT ![id] = row]
          /\ recalculateFrom' = Earliest(rows[id].date)
          /\ Overrides({id}) /\ Patches(id, row)
          /\ UNCHANGED <<accounts, issued, records, sessions>>

\* batch_delete is delete on each row of the batch or on none; delete is a batch of one.
DeleteRows(ids, confirmed) ==
  /\ Call("transactions") /\ ids # {}
  /\ \A id \in ids : Mutable(id, confirmed) /\ ~IsTransfer(id)
  /\ rows' = Restrict(rows, DOMAIN rows \ ids)
  /\ recalculateFrom' = Earliest(Min({rows[id].date : id \in ids}))
  /\ Overrides(ids)
  /\ UNCHANGED <<accounts, issued, records, sessions, patched>>

Duplicate(id) ==
  /\ Call("transactions") /\ ~IsTransfer(id) /\ Open(rows[id].account, FALSE) /\ Issue(1)
  /\ rows' = Put(rows, New, [rows[id] EXCEPT !.clearance = "Uncleared", !.approved = FALSE])
  /\ recalculateFrom' = Earliest(rows[id].date)
  /\ UNCHANGED <<accounts, records, sessions, overridden, patched>>

ApproveRows(ids) ==
  /\ Call("transactions") /\ \E id \in ids : ~rows[id].approved
  /\ rows' = [id \in DOMAIN rows |-> IF id \in ids THEN [rows[id] EXCEPT !.approved = TRUE]
                                                   ELSE rows[id]]
  /\ UNCHANGED <<accounts, issued, recalculateFrom, records, sessions, overridden, patched>>

\* set_clearance, categorize and move_to_account: one field, no recalculation.
ChangeRow(id, confirmed) ==
  /\ Call("transactions") /\ Mutable(id, confirmed)
  /\ \/ \E clearance \in {"Uncleared", "Cleared", "Reconciled"} :
          rows' = [rows EXCEPT ![id].clearance = clearance]
     \/ ~IsTransfer(id) /\ rows' = [rows EXCEPT ![id].body = Categorized]
     \/ /\ ~IsTransfer(id)
        /\ \E account \in Accounts : /\ Open(account, confirmed)
                                     /\ rows' = [rows EXCEPT ![id].account = account]
  /\ rows' # rows
  /\ Overrides({id})
  /\ UNCHANGED <<accounts, issued, recalculateFrom, records, sessions, patched>>

CreateTransfer(source, destination, date, amount) ==
  /\ Call("transactions") /\ CanTransfer(source, destination) /\ Issue(2)
  /\ rows' = WithTransfer(source, destination, date, amount)
  /\ recalculateFrom' = Earliest(date)
  /\ UNCHANGED <<accounts, records, sessions, overridden, patched>>

\* delete_transfer_both and unlink_transfer
EndTransfer(id, confirmed) ==
  /\ Call("transactions") /\ IsTransfer(id)
  /\ \E pair \in LegsOf(id) \ {id} :
       /\ Mutable(id, confirmed) /\ Mutable(pair, confirmed)
       /\ Overrides({id, pair})
       /\ \/ /\ rows' = Restrict(rows, DOMAIN rows \ {id, pair})
             /\ recalculateFrom' = Earliest(Min({rows[id].date, rows[pair].date}))
          \/ /\ rows' = [rows EXCEPT ![id].body = Opening, ![pair].body = Opening]
             /\ UNCHANGED recalculateFrom
  /\ UNCHANGED <<accounts, issued, records, sessions, patched>>
-----------------------------------------------------------------------------
(* ReconciliationService.  A session keeps the eligible rows as it read them *)
(* (original), the ticked ones (selected) and the difference it last computed. *)

Eligible(account, through) ==
  {id \in DOMAIN rows : /\ rows[id].account = account /\ rows[id].date <= through
                        /\ rows[id].clearance # "Reconciled"}

\* calculated: the reconciled rows of the account and the selected ones.
Calculated(ledger, account, through, selected) ==
  AmountOf(ledger, {id \in DOMAIN ledger :
                 /\ ledger[id].account = account /\ ledger[id].date <= through
                 /\ ledger[id].clearance = "Reconciled" \/ id \in selected})

\* recalculate: the session's difference, against the ledger as it is now.
Recalculated(s, ledger) ==
  [s EXCEPT !.difference = s.ending - Calculated(ledger, s.account, s.through, s.selected)]

Start(id, account, through, ending) ==
  LET eligible == Eligible(account, through)
      s == [account |-> account, through |-> through, ending |-> ending,
            original |-> Restrict(rows, eligible),
            selected |-> {row \in eligible : rows[row].clearance = "Cleared"},
            difference |-> 0]
  IN  /\ Call("reconciliation") /\ account \in DOMAIN accounts
      /\ id \notin DOMAIN sessions \cup DOMAIN records
      /\ sessions' = Put(sessions, id, Recalculated(s, rows))
      /\ UNCHANGED <<accounts, rows, issued, recalculateFrom, records, overridden, patched>>

SetCleared(id, row) ==
  LET s == sessions[id]
      toggled == IF row \in s.selected THEN s.selected \ {row} ELSE s.selected \cup {row}
  IN  /\ Call("reconciliation") /\ row \in DOMAIN s.original
      /\ sessions' = [sessions EXCEPT ![id] = Recalculated([s EXCEPT !.selected = toggled], rows)]
      /\ UNCHANGED <<accounts, rows, issued, recalculateFrom, records, overridden, patched>>

\* Any row of the session is replaced, whatever became of it since, by one of its account.
Correction(id, row, corrected) ==
  LET s == sessions[id]
      ledger == Put(rows, row, corrected)
  IN  /\ Call("reconciliation") /\ row \in DOMAIN s.original
      /\ corrected.account = s.account /\ corrected.date <= s.through
      /\ TransferOf(corrected) \subseteq 1..issued
      /\ rows' = ledger
      /\ sessions' = [sessions EXCEPT
           ![id] = Recalculated([s EXCEPT !.original[row] = corrected], ledger)]
      /\ Overrides({row} \cap DOMAIN rows) /\ Patches(row, corrected)
      /\ UNCHANGED <<accounts, issued, recalculateFrom, records>>

ConfirmAdjustment(id) ==
  LET s == sessions[id]
      row == Row(s.account, s.through, s.difference, "Cleared", TRUE, Opening)
      ledger == Put(rows, New, row)
  IN  /\ Call("reconciliation") /\ s.account \in DOMAIN accounts /\ Issue(1)
      /\ rows' = ledger
      /\ sessions' = [sessions EXCEPT ![id] = Recalculated(
           [s EXCEPT !.original = Put(@, New, row), !.selected = @ \cup {New}], ledger)]
      /\ UNCHANGED <<accounts, recalculateFrom, records, overridden, patched>>

\* complete: the tokens of the selected rows are compared, then all is written at once.
Unchanged(s, row) == /\ row \in DOMAIN rows /\ rows[row] = s.original[row]
                     /\ rows[row].account = s.account /\ rows[row].clearance # "Reconciled"

Complete(id) ==
  LET s == sessions[id]
      calculated == Calculated(rows, s.account, s.through, s.selected)
  IN  /\ Call("reconciliation") /\ s.difference = 0
      /\ \A row \in s.selected : Unchanged(s, row)
      /\ rows' = [row \in DOMAIN rows |-> IF row \in s.selected
                    THEN [rows[row] EXCEPT !.clearance = "Reconciled"] ELSE rows[row]]
      /\ records' = Put(records, id,
           [account |-> s.account, through |-> s.through, included |-> s.selected,
            difference |-> s.ending - calculated, state |-> "Completed"])
      /\ sessions' = Restrict(sessions, DOMAIN sessions \ {id})
      /\ UNCHANGED <<accounts, issued, recalculateFrom, overridden, patched>>

\* invalidate_chain: from the earliest record of the account that includes a row on.
Invalidate(ids) ==
  records' = [r \in DOMAIN records |->
    IF \E id \in ids, first \in DOMAIN records :
         /\ records[first].account = rows[id].account /\ id \in records[first].included
         /\ records[r].account = rows[id].account
         /\ records[first].through <= records[r].through
    THEN [records[r] EXCEPT !.state = "PotentiallyInvalid"] ELSE records[r]]

EditReconciled(id, row, confirmed) ==
  /\ Call("reconciliation") /\ Mutable(id, confirmed)
  /\ TransferOf(row) \subseteq 1..issued
  /\ rows' = [rows EXCEPT ![id] = row]
  /\ Invalidate({id}) /\ Patches(id, row)
  /\ UNCHANGED <<accounts, issued, recalculateFrom, sessions, overridden>>

\* Both legs of a transfer go; only the clearance of the named one is looked at.
DeleteReconciled(id, confirmed) ==
  LET ids == IF IsTransfer(id) THEN LegsOf(id) ELSE {id} IN
  /\ Call("reconciliation") /\ Mutable(id, confirmed)
  /\ rows' = Restrict(rows, DOMAIN rows \ ids)
  /\ Invalidate(ids)
  /\ UNCHANGED <<accounts, issued, recalculateFrom, sessions, overridden, patched>>
-----------------------------------------------------------------------------
TransactionStep ==
  \/ \E id \in 1..New, row \in ClientRows, ok \in BOOLEAN : Add(id, row, ok)
  \/ \E id \in DOMAIN rows, row \in ClientRows, ok \in BOOLEAN : Edit(id, row, ok)
  \/ \E ids \in SUBSET DOMAIN rows, ok \in BOOLEAN : DeleteRows(ids, ok)
  \/ \E id \in DOMAIN rows : Duplicate(id)
  \/ \E ids \in SUBSET DOMAIN rows : ApproveRows(ids)
  \/ \E id \in DOMAIN rows, ok \in BOOLEAN : ChangeRow(id, ok)
  \/ \E a, b \in Accounts, d \in Dates, x \in Amounts : CreateTransfer(a, b, d, x)
  \/ \E id \in DOMAIN rows, ok \in BOOLEAN : EndTransfer(id, ok)

AccountStep ==
  \/ \E a \in Accounts, l \in BOOLEAN, x \in Amounts, d \in Dates : CreateAccount(a, l, x, d)
  \/ \E a \in Accounts, l \in BOOLEAN : ChangeType(a, l)
  \/ \E a \in Accounts, r \in Accounts \cup {"adjust"}, d \in Dates : Close(a, r, d)
  \/ \E a \in Accounts : Reopen(a)
  \/ \E a \in Accounts : DeleteAccount(a)

ReconciliationStep ==
  \/ \E id \in Statements, a \in Accounts, d \in Dates, x \in Endings : Start(id, a, d, x)
  \/ \E id \in DOMAIN sessions, row \in 1..MaxRows : SetCleared(id, row)
  \/ \E id \in DOMAIN sessions, row \in 1..MaxRows, corrected \in ClientRows :
       Correction(id, row, corrected)
  \/ \E id \in DOMAIN sessions : ConfirmAdjustment(id)
  \/ \E id \in DOMAIN sessions : Complete(id)
  \/ \E id \in DOMAIN rows, row \in ClientRows, ok \in BOOLEAN : EditReconciled(id, row, ok)
  \/ \E id \in DOMAIN rows, ok \in BOOLEAN : DeleteReconciled(id, ok)

BooksNext == TransactionStep \/ AccountStep \/ ReconciliationStep

\* Ledger::default, before the first call.
BooksStart ==
  /\ accounts = <<>> /\ rows = <<>> /\ issued = 0 /\ recalculateFrom = NoDate
  /\ records = <<>> /\ sessions = <<>> /\ overridden = {} /\ patched = {}
  /\ service = "none" /\ calls = 0

BooksSpec == BooksStart /\ [][BooksNext]_books
-----------------------------------------------------------------------------
\* A transfer is two rows of distinct accounts that name each other, dated alike, with
\* exactly opposite amounts (docs/sign-conventions.md), and stays so under every call of
\* the three services, in any order, except the four that put a row as a client supplies
\* it and look at no other leg: the transfers named in a row that add, the edit of an
\* ordinary row, a correction or edit_reconciled wrote, or wrote over, are exempt.
TransfersPaired ==
  \A id \in DOMAIN rows : IsTransfer(id) /\ rows[id].body.transfer \notin patched =>
    \E pair \in DOMAIN rows \ {id} :
      /\ LegsOf(id) = {id, pair}
      /\ rows[pair].account # rows[id].account
      /\ rows[pair].account = rows[id].body.other
      /\ rows[pair].date = rows[id].date
      /\ rows[pair].amount = -rows[id].amount
      /\ rows[id].body.otherAmount = rows[pair].amount

Stands(r) == r \in DOMAIN records /\ records[r].state = "Completed"

\* A completed reconciliation goes on describing its rows.  As long as it is not marked
\* PotentiallyInvalid, a row it includes keeps its account, date, amount and clearance, and
\* no other session reconciles that row again although it may have had it ticked all the
\* time; unless TransactionService was told to override the row (confirmed), or add or
\* another session's correction wrote over it.
RecordsStand ==
  \A r \in DOMAIN records' :
    /\ Stands(r) /\ records'[r].state = "Completed" =>
         \A id \in (records[r].included \cap DOMAIN rows) \ overridden' :
           /\ id \in DOMAIN rows'
           /\ \A field \in {"account", "date", "amount", "clearance"} :
                rows'[id][field] = rows[id][field]
    /\ r \notin DOMAIN records =>
         \A s \in DOMAIN records :
           Stands(s) => (records'[r].included \cap records[s].included) \subseteq overridden

\* The recalculation starts early enough: it goes back for every call of TransactionService
\* so far, and this one too, to the date each changed or removed row had and, but for the
\* edit of an ordinary row, to the date a row has now.  (Transfers a client's row broke are
\* exempt; so is an add over a row that exists, which announces the new date only.)
RecalculationReachesBack ==
  /\ recalculateFrom # NoDate => recalculateFrom' # NoDate /\ recalculateFrom' <= recalculateFrom
  /\ service' = "transactions" =>
       LET covers(date) == recalculateFrom' # NoDate /\ recalculateFrom' <= date IN
       /\ \A id \in {old \in DOMAIN rows : IsTransfer(old) => rows[old].body.transfer \notin patched} :
            (IF id \in DOMAIN rows'
             THEN rows'[id].date # rows[id].date \/ rows'[id].amount # rows[id].amount
             ELSE TRUE) => covers(rows[id].date)
       /\ \A id \in DOMAIN rows' :
            (IF id \in DOMAIN rows
             THEN /\ IsTransfer(id) /\ rows[id].body.transfer \notin patched
                  /\ rows'[id].date # rows[id].date
             ELSE TRUE) => covers(rows'[id].date)

\* What a change of old rows owes to what was concluded from them: the completed
\* reconciliations and the balances.
PastIsKept == [][RecordsStand /\ RecalculationReachesBack]_books
=============================================================================
