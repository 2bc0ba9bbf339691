------------------------------- MODULE Reports -------------------------------
(***************************************************************************)
(* The reports: what the storage worker calculates in SQL over the tables  *)
(* (QueryStore::report), and the reference the domain gives for the same   *)
(* figures over transactions (domain::calculate).  Between the two stands  *)
(* put_transaction, which takes a transaction apart into a row and its     *)
(* subtransactions, and transaction(), which puts it together again for an *)
(* undo.  Overflow of money, CSV and presentation are left out.            *)
(***************************************************************************)
EXTENDS Integers, Sequences, FiniteSets, FiniteSetsExt, Functions, TLC

CONSTANTS
  ReportAccounts,    \* account -> account_type
  GroupOfCategory,   \* category -> category group
  Transactions,      \* what a user saves: [account, date, payee, amount, body, archived, voided]
  SavedTargets,      \* [category, amount]; a credit card payoff has no amount
  ReportControls,    \* [timeframe, custom, accounts, account_ids, categories, groups, payees]
  Today, DaysPerMonth, MonthsPerYear,   \* days are counted from 1 January of year 1
  NullColumn,
  MaxSaved           \* bound: transactions, and targets, ever created

VARIABLES
  transactionRows,   \* the table transactions, id -> row
  splitRows,         \* the table subtransactions, [transaction, order, category, amount]
  assignmentRows,    \* budget_assignments: <<month, category>> -> amount
  targetRows,        \* the table targets, id -> [category, amount]
  savedBooks,        \* the transactions as the user last saved them: id -> Transaction
  undoSave           \* the inverse of the last command about a transaction, <<>> if none

ledgerTables == <<transactionRows, splitRows, assignmentRows, targetRows, savedBooks, undoSave>>

OnBudgetTypes == {"checking", "savings", "cash", "credit_card"}
TrackingTypes == {"loan", "asset", "liability"}
ReportMonth(date) == (date - 1) \div DaysPerMonth
FirstDay(month) == month * DaysPerMonth + 1

SumOf(lines) == MapThenSumSet(LAMBDA l : l.amount, lines)
\* The sums of the lines that agree on a key: BTreeMap and GROUP BY alike.
GroupBy(lines, key(_)) ==
  [k \in {key(l) : l \in lines} |-> SumOf({l \in lines : key(l) = k})]
Negated(sums) == [k \in DOMAIN sums |-> -sums[k]]
-----------------------------------------------------------------------------
(* SqliteRepositories *)

Part(id, t, i) == [transaction |-> id, order |-> i,
                   category |-> t.body.lines[i].category, amount |-> t.body.lines[i].amount]
Parts(id, t) == IF t.body.kind = "split" THEN {Part(id, t, i) : i \in DOMAIN t.body.lines} ELSE {}
TransactionRow(t) ==
  [account |-> t.account, date |-> t.date, payee |-> t.payee, amount |-> t.amount,
   archived |-> t.archived, voided |-> t.voided,
   category |-> IF t.body.kind \in {"categorized", "opening"} THEN t.body.category ELSE NullColumn,
   transfer |-> t.body.kind = "transfer"]

PutTransactionMutant(id, t) ==
  /\ transactionRows' = (id :> TransactionRow(t)) @@ transactionRows
  /\ splitRows' = splitRows \cup Parts(id, t)
PutTransaction(id, t) ==
  /\ transactionRows' = (id :> TransactionRow(t)) @@ transactionRows
  /\ splitRows' = {s \in splitRows : s.transaction # id} \cup Parts(id, t)

\* transaction(): an opening balance that has a category comes back as categorized.
StoredBody(id) ==
  LET parts == {s \in splitRows : s.transaction = id}
      order == {s.order : s \in parts}
      row == transactionRows[id]
  IN  CASE parts # {} ->
             [kind |-> "split",
              lines |-> [i \in order |-> LET s == CHOOSE p \in parts : p.order = i
                                         IN  [category |-> s.category, amount |-> s.amount]]]
        [] parts = {} /\ row.transfer -> [kind |-> "transfer"]
        [] parts = {} /\ ~row.transfer /\ row.category # NullColumn ->
             [kind |-> "categorized", category |-> row.category]
        [] OTHER -> [kind |-> "opening", category |-> NullColumn]
StoredTransaction(id) ==
  [account |-> transactionRows[id].account, date |-> transactionRows[id].date,
   payee |-> transactionRows[id].payee, amount |-> transactionRows[id].amount,
   archived |-> transactionRows[id].archived, voided |-> transactionRows[id].voided,
   body |-> StoredBody(id)]
-----------------------------------------------------------------------------
(* FinancialExecutor: the commands that change what a report reads. *)

SaveTransactionCommand(id, t) ==
  /\ id \in DOMAIN transactionRows \/ id = Cardinality(DOMAIN transactionRows) + 1
  /\ undoSave = <<>>
  /\ undoSave' = IF id \in DOMAIN savedBooks
                 THEN <<[id |-> id, stored |-> StoredTransaction(id), was |-> savedBooks[id]]>> ELSE <<>>
  /\ PutTransaction(id, t)
  /\ savedBooks' = (id :> t) @@ savedBooks
  /\ UNCHANGED <<assignmentRows, targetRows>>

\* ON DELETE CASCADE takes the subtransactions along.
DeleteTransactionCommand(id) ==
  /\ undoSave = <<>> /\ id \in DOMAIN savedBooks
  /\ undoSave' = <<[id |-> id, stored |-> StoredTransaction(id), was |-> savedBooks[id]]>>
  /\ transactionRows' = Restrict(transactionRows, DOMAIN transactionRows \ {id})
  /\ splitRows' = {s \in splitRows : s.transaction # id}
  /\ savedBooks' = Restrict(savedBooks, DOMAIN savedBooks \ {id})
  /\ UNCHANGED <<assignmentRows, targetRows>>

\* The inverse saves what transaction() read; the ledger forgets it with its undo.
UndoTransactionCommand ==
  /\ undoSave # <<>>
  /\ PutTransaction(undoSave[1].id, undoSave[1].stored)
  /\ savedBooks' = (undoSave[1].id :> undoSave[1].was) @@ savedBooks
  /\ undoSave' = <<>>
  /\ UNCHANGED <<assignmentRows, targetRows>>
KeepTransactionCommand ==
  undoSave # <<>> /\ undoSave' = <<>> /\ UNCHANGED <<transactionRows, splitRows, assignmentRows, targetRows, savedBooks>>

AssignCommand(month, category) ==
  /\ <<month, category>> \notin DOMAIN assignmentRows
  /\ assignmentRows' = (<<month, category>> :> 1) @@ assignmentRows
  /\ UNCHANGED <<transactionRows, splitRows, targetRows, savedBooks, undoSave>>

\* put_target: another identifier is another row, whatever its category has already.
SaveTargetCommand(id, target) ==
  /\ id <= Cardinality(DOMAIN targetRows) + 1
  /\ targetRows' = (id :> target) @@ targetRows
  /\ UNCHANGED <<transactionRows, splitRows, assignmentRows, savedBooks, undoSave>>

ReportsInit ==
  /\ transactionRows = <<>> /\ splitRows = {} /\ assignmentRows = <<>> /\ targetRows = <<>>
  /\ savedBooks = <<>> /\ undoSave = <<>>
ReportsNext ==
  \/ \E id \in 1..MaxSaved, t \in Transactions : SaveTransactionCommand(id, t)
  \/ \E id \in 1..MaxSaved : DeleteTransactionCommand(id)
  \/ UndoTransactionCommand \/ KeepTransactionCommand
  \/ \E month \in {ReportMonth(Today)}, c \in DOMAIN GroupOfCategory : AssignCommand(month, c)
  \/ \E id \in 1..MaxSaved, target \in SavedTargets : SaveTargetCommand(id, target)
-----------------------------------------------------------------------------
(* The request *)

\* TimeframePreset::dates
Timeframe(preset, custom) ==
  LET month == FirstDay(ReportMonth(Today))
      earlier == FirstDay(ReportMonth(month - 1))
  IN  CASE preset = "ThisMonth" -> [start |-> month, end |-> Today]
        [] preset = "LastMonth" -> [start |-> earlier, end |-> month - 1]
        [] preset = "LastThreeMonths" ->
             [start |-> FirstDay(ReportMonth(earlier - 1)), end |-> Today]
        [] preset = "ThisYear" ->
             [start |-> FirstDay((ReportMonth(Today) \div MonthsPerYear) * MonthsPerYear), end |-> Today]
        [] preset = "AllDates" -> [start |-> 1, end |-> Today]
        [] preset = "Custom" -> custom

\* request_at of controls that name existing accounts and categories only.
FilterOf(controls) ==
  [start |-> Timeframe(controls.timeframe, controls.custom).start,
   end |-> Timeframe(controls.timeframe, controls.custom).end,
   accounts |-> controls.accounts, account_ids |-> controls.account_ids,
   categories |-> controls.categories, groups |-> controls.groups, payees |-> controls.payees]
-----------------------------------------------------------------------------
(* QueryStore *)

In(value, wanted) == wanted # {} => value \in wanted

\* account_where
AccountWhere(a, f) ==
  /\ In(a, f.account_ids)
  /\ f.accounts = "OnBudget" => ReportAccounts[a] \in OnBudgetTypes
  /\ f.accounts = "Tracking" => ReportAccounts[a] \in TrackingTypes

\* report_lines_cte
LinesCte ==
  LET Line(id, order, category, amount) ==
        [id |-> id, order |-> order, account |-> transactionRows[id].account,
         date |-> transactionRows[id].date, payee |-> transactionRows[id].payee,
         live |-> ~transactionRows[id].archived /\ ~transactionRows[id].voided,
         category |-> category, amount |-> amount]
  IN  {Line(id, 0, transactionRows[id].category, transactionRows[id].amount) :
         id \in {i \in DOMAIN transactionRows : \A s \in splitRows : s.transaction # i}}
      \cup {Line(s.transaction, s.order, s.category, s.amount) : s \in splitRows}

\* report_where with budget_only, joined with categories: the scope is not looked at.
ReportWhere(f) ==
  {l \in LinesCte :
     /\ l.live /\ l.date >= f.start /\ l.date <= f.end
     /\ l.category \in DOMAIN GroupOfCategory
     /\ In(l.account, f.account_ids) /\ In(l.category, f.categories)
     /\ In(GroupOfCategory[l.category], f.groups) /\ In(l.payee, f.payees)
     /\ ReportAccounts[l.account] \in OnBudgetTypes}

SpendingReport(f) ==
  LET lines == {l \in ReportWhere(f) : l.amount < 0}
      rows == Negated(GroupBy(lines, LAMBDA l : l.category))
  IN  [rows |-> rows, total |-> -SumOf(lines),
       groups |-> Negated(GroupBy(lines, LAMBDA l : GroupOfCategory[l.category])),
       monthly |-> Negated(GroupBy(lines, LAMBDA l : ReportMonth(l.date))),
       payees |-> Negated(GroupBy(lines, LAMBDA l : l.payee))]

IncomeExpenseReport(f) ==
  LET lines == ReportWhere(f)
  IN  [m \in {ReportMonth(l.date) : l \in lines} |->
         [income |-> SumOf({l \in lines : ReportMonth(l.date) = m /\ l.amount >= 0}),
          expense |-> -SumOf({l \in lines : ReportMonth(l.date) = m /\ l.amount < 0})]]

\* Every selected account has a balance on every date, if only zero.
NetWorthReport(f) ==
  LET included == {a \in DOMAIN ReportAccounts : AccountWhere(a, f)}
      live == {id \in DOMAIN transactionRows : /\ ~transactionRows[id].archived /\ ~transactionRows[id].voided
                                            /\ transactionRows[id].account \in included}
      dates == {transactionRows[id].date : id \in {i \in live : transactionRows[i].date <= f.end}}
      Balance(date, a) == MapThenSumSet(LAMBDA id : transactionRows[id].amount,
                            {id \in live : transactionRows[id].account = a /\ transactionRows[id].date <= date})
      Sum(date, accts) == MapThenSumSet(LAMBDA a : Balance(date, a), accts)
      debts == {a \in included : ReportAccounts[a] \in {"credit_card", "loan", "liability"}}
  IN  [d \in {x \in dates : x >= f.start} |->
         [assets |-> Sum(d, included \ debts), liabilities |-> Sum(d, debts)]]

ProgressRow(month, category, assignment, spent, target) ==
  [month |-> month, category |-> category, assigned |-> assignment, spent |-> spent,
   target |-> target,
   completion |-> IF target = NullColumn THEN NullColumn
                  ELSE IF target <= 0 THEN 10000
                  ELSE Max({0, Min({10000, (Max({assignment, 0}) * 10000) \div target})}),
   underfunded |-> IF target = NullColumn THEN 0 ELSE Max({0, target - assignment}),
   overspent |-> Max({0, spent - assignment})]

\* LEFT JOIN targets: as many rows as the category has targets.
BudgetProgressReport(f) ==
  LET spend == Negated(GroupBy({l \in ReportWhere(f) : l.amount < 0},
                               LAMBDA l : <<ReportMonth(l.date), l.category>>))
      funded == {k \in DOMAIN assignmentRows :
                   /\ FirstDay(k[1]) >= f.start /\ FirstDay(k[1]) <= f.end
                   /\ In(k[2], f.categories) /\ In(GroupOfCategory[k[2]], f.groups)}
      TargetsOf(c) == {i \in DOMAIN targetRows : targetRows[i].category = c}
      TargetAmounts(c) == IF TargetsOf(c) = {} THEN {<<0, NullColumn>>}
                    ELSE {<<i, targetRows[i].amount>> : i \in TargetsOf(c)}
  IN  UNION {{<<t[1], ProgressRow(k[1], k[2],
                                  IF k \in funded THEN assignmentRows[k] ELSE 0,
                                  IF k \in DOMAIN spend THEN spend[k] ELSE 0, t[2])>> :
                t \in TargetAmounts(k[2])} : k \in funded \cup DOMAIN spend}
-----------------------------------------------------------------------------
(* domain::calculate *)

SelectedAccount(a, f) ==
  /\ f.account_ids = {} \/ a \in f.account_ids
  /\ CASE f.accounts = "Both" -> TRUE
       [] f.accounts = "OnBudget" -> ReportAccounts[a] \in OnBudgetTypes
       [] f.accounts = "Tracking" -> ReportAccounts[a] \notin OnBudgetTypes

\* lines: what a transaction counts for, and where.
DomainLines(t) ==
  CASE t.body.kind = "split" -> t.body.lines
    [] t.body.kind = "transfer" -> <<[category |-> NullColumn, amount |-> t.amount]>>
    [] OTHER -> <<[category |-> t.body.category, amount |-> t.amount]>>

CategoryOk(f, c) ==
  /\ f.categories = {} \/ c \in f.categories
  /\ f.groups = {} \/ GroupOfCategory[c] \in f.groups

\* filtered with budget_only, and the lines that have a category the filter admits.
Filtered(f) ==
  LET admitted == {id \in DOMAIN savedBooks :
        /\ ~savedBooks[id].archived /\ ~savedBooks[id].voided
        /\ f.start <= savedBooks[id].date /\ savedBooks[id].date <= f.end
        /\ SelectedAccount(savedBooks[id].account, f) /\ ReportAccounts[savedBooks[id].account] \in OnBudgetTypes
        /\ f.payees = {} \/ savedBooks[id].payee \in f.payees}
      All == UNION {{[id |-> id, order |-> i, date |-> savedBooks[id].date, payee |-> savedBooks[id].payee,
                      category |-> DomainLines(savedBooks[id])[i].category,
                      amount |-> DomainLines(savedBooks[id])[i].amount] :
                       i \in DOMAIN DomainLines(savedBooks[id])} : id \in admitted}
  IN  {l \in All : l.category # NullColumn /\ CategoryOk(f, l.category)}

Spending(f) ==
  LET lines == {l \in Filtered(f) : l.amount < 0}
      rows == Negated(GroupBy(lines, LAMBDA l : l.category))
  IN  [rows |-> rows, total |-> MapThenSumSet(LAMBDA c : rows[c], DOMAIN rows),
       groups |-> [g \in {GroupOfCategory[c] : c \in DOMAIN rows} |->
                     MapThenSumSet(LAMBDA c : rows[c], {c \in DOMAIN rows : GroupOfCategory[c] = g})],
       monthly |-> Negated(GroupBy(lines, LAMBDA l : ReportMonth(l.date))),
       payees |-> Negated(GroupBy(lines, LAMBDA l : l.payee))]

IncomeExpense(f) ==
  [m \in {ReportMonth(l.date) : l \in Filtered(f)} |->
     LET lines == {l \in Filtered(f) : ReportMonth(l.date) = m}
     IN  [income |-> SumOf({l \in lines : l.amount >= 0}),
          expense |-> -SumOf({l \in lines : l.amount < 0})]]

NetWorth(f) ==
  LET counted == {id \in DOMAIN savedBooks :
        /\ ~savedBooks[id].archived /\ ~savedBooks[id].voided /\ savedBooks[id].date <= f.end
        /\ SelectedAccount(savedBooks[id].account, f)}
      At(d, debt) == MapThenSumSet(LAMBDA id : savedBooks[id].amount,
        {id \in counted : /\ savedBooks[id].date <= d
                          /\ (ReportAccounts[savedBooks[id].account]
                                \in {"credit_card", "loan", "liability"}) = debt})
  IN  [d \in {savedBooks[id].date : id \in {i \in counted : savedBooks[i].date >= f.start}} |->
         [assets |-> At(d, FALSE), liabilities |-> At(d, TRUE)]]

BudgetProgress(f) ==
  LET spent == Negated(GroupBy({l \in Filtered(f) : l.amount < 0},
                               LAMBDA l : <<ReportMonth(l.date), l.category>>))
      funded == {k \in DOMAIN assignmentRows : /\ FirstDay(k[1]) \in f.start..f.end
                                         /\ CategoryOk(f, k[2])}
      First(c) == {i \in DOMAIN targetRows : targetRows[i].category = c}
  IN  {ProgressRow(k[1], k[2],
                   IF k \in funded THEN assignmentRows[k] ELSE 0,
                   IF k \in DOMAIN spent THEN spent[k] ELSE 0,
                   IF First(k[2]) = {} THEN NullColumn ELSE targetRows[Min(First(k[2]))].amount) :
         k \in funded \cup DOMAIN spent}
-----------------------------------------------------------------------------
\* Once a transaction was saved, whatever was edited, split, deleted or undone since,
\* the reports that the worker calculates from them are the reference reports over the
\* transactions the user saved, for every filter of the controls.  Two exemptions: the
\* category reports ignore the scope Tracking, and the budget progress repeats a category
\* for each of its targets.
ReportsMatchBooks ==
  savedBooks # <<>> => \A controls \in ReportControls :
    LET f == FilterOf(controls) IN
    /\ NetWorthReport(f) = NetWorth(f)
    /\ f.accounts # "Tracking" =>
         /\ SpendingReport(f) = Spending(f)
         /\ IncomeExpenseReport(f) = IncomeExpense(f)
         /\ (\A i, j \in DOMAIN targetRows : targetRows[i].category = targetRows[j].category => i = j) =>
              {row[2] : row \in BudgetProgressReport(f)} = BudgetProgress(f)
=============================================================================
