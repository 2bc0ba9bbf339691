-------------------------- MODULE FinancialExecutor --------------------------
(***************************************************************************)
(* What a financial command does to the ledger, inside the transaction     *)
(* that executes it: the validations, the rows written, the audit records  *)
(* appended and the inverse returned to the runtime as undo data           *)
(* (src/src/storage/financial_executor.rs over sqlite_repositories.rs and  *)
(* execute_batch of src/src/service/transaction_service.rs).               *)
(*                                                                         *)
(* A table is a function whose domain is the set of identifiers that have  *)
(* a row.  A command that is refused is rolled back whole, so it is no     *)
(* step at all.  The commands are those the application's screens and the  *)
(* undo stack send about accounts, transactions and assignments, for one   *)
(* budget and one month.  Of a row only the columns that validations,      *)
(* balances and pairings read are kept; SetApproval differs from           *)
(* SetClearance in the column alone, a split body stands or falls with its *)
(* row, and categories, targets and inbox items are single rows like an    *)
(* assignment.                                                             *)
(***************************************************************************)
EXTENDS Integers, Sequences, FiniteSets, Maps

CONSTANTS
  AccountIds, TransactionIds, TransferIds, CategoryIds,  \* identifiers (uuids)
  Names,   \* names of accounts
  Cents    \* the amounts other than zero, of either sign

ASSUME ExecutorAssumption ==
  /\ Cents \subseteq Int \ {0}
  /\ \A c \in Cents : -c \in Cents
  /\ IsFiniteSet(TransactionIds)

NoTransfer == [transfer |-> "None"]

AccountRows == [name : Names, closed : BOOLEAN]
Clearances == {"Uncleared", "Cleared", "Reconciled"}
TransactionRows ==
  [account : AccountIds, amount : Cents, clearance : Clearances,
   transfer : TransferIds \union {NoTransfer}]

IsTable(f, ids, content) == DOMAIN f \subseteq ids /\ f \in [DOMAIN f -> content]

-----------------------------------------------------------------------------
(* Financial commands, and UndoData: absent or one of them.                *)

NoInverse == [kind |-> "None"]
UpdateAccount(a, row) == [kind |-> "UpdateAccount", account |-> a, row |-> row]
CreateWithOpening(a, n, t, opening) ==
  [kind |-> "CreateWithOpening", account |-> a, name |-> n, id |-> t,
   opening |-> opening]
CloseAccount(a) == [kind |-> "CloseAccount", account |-> a]
SaveTransaction(t, row) == [kind |-> "SaveTransaction", id |-> t, row |-> row]
SaveTransfer(legs) == [kind |-> "SaveTransfer", legs |-> legs]
SetClearance(ids, v) == [kind |-> "SetClearance", ids |-> ids, clearance |-> v]
Delete(ids) == [kind |-> "Delete", ids |-> ids]
Restore(prior) == [kind |-> "Restore", prior |-> prior]
SetAssignment(c, v) == [kind |-> "SetAssignment", category |-> c, amount |-> v]
RemoveAssignment(c) == [kind |-> "RemoveAssignment", category |-> c]
CompleteSnapshot(a, ids) == [kind |-> "CompleteSnapshot", account |-> a, ids |-> ids]

VARIABLES
  accounts,      \* the accounts table
  transactions,  \* the transactions table
  assignments,   \* budget_assignments of the month
  changeLog,     \* change_log: what each record names, and whether a budget
  inverse        \* the undo data of the last MutationResult

executorVars == <<accounts, transactions, assignments, changeLog, inverse>>
rows == [accounts |-> accounts, transactions |-> transactions, assignments |-> assignments]

\* append_audit: only an assignment batch's record carries its budget.
Record(entity) == [entity |-> entity, budget |-> entity = "assignment_batch"]
Audit(entity) == changeLog' = Append(changeLog, Record(entity))

\* A batch appends one record for each row it writes, then its own.
AuditBatch(ids) ==
  changeLog' = changeLog \o [i \in 1..Cardinality(ids) |-> Record("transaction")]
                         \o <<Record("transaction_batch")>>

\* UNIQUE(budget_id, name)
NameFree(a, n) == \A b \in DOMAIN accounts \ {a} : accounts[b].name # n

\* FOREIGN KEY(account_id, budget_id)
AccountExists(row) == row.account \in DOMAIN accounts

-----------------------------------------------------------------------------
(* The arms of apply(), one action each.                                   *)

ApplyUpdateAccount(c) ==
  /\ c.kind = "UpdateAccount"
  /\ c.account \in DOMAIN accounts
  /\ NameFree(c.account, c.row.name)
  /\ accounts' = Put(accounts, c.account, c.row)
  /\ inverse' = UpdateAccount(c.account, accounts[c.account])
  /\ Audit("account")
  /\ UNCHANGED <<transactions, assignments>>

\* The opening balance is a transaction; a balance of zero is none.
ApplyCreateWithOpening(c) ==
  /\ c.kind = "CreateWithOpening"
  /\ NameFree(c.account, c.name)
  /\ accounts' = Put(accounts, c.account, [name |-> c.name, closed |-> FALSE])
  /\ transactions' =
       IF c.opening = 0
         THEN transactions
         ELSE Put(transactions, c.id, [account |-> c.account, amount |-> c.opening,
                                       clearance |-> "Cleared", transfer |-> NoTransfer])
  /\ inverse' = CloseAccount(c.account)
  /\ Audit("account")
  /\ UNCHANGED assignments

ApplyCloseAccount(c) ==
  /\ c.kind = "CloseAccount"
  /\ c.account \in DOMAIN accounts
  /\ accounts' = [accounts EXCEPT ![c.account].closed = TRUE]
  /\ inverse' = UpdateAccount(c.account, accounts[c.account])
  /\ Audit("account")
  /\ UNCHANGED <<transactions, assignments>>

\* A transaction that is new has no inverse.
ApplySaveTransaction(c) ==
  /\ c.kind = "SaveTransaction"
  /\ AccountExists(c.row)
  /\ transactions' = Put(transactions, c.id, c.row)
  /\ inverse' = IF c.id \in DOMAIN transactions
                  THEN SaveTransaction(c.id, transactions[c.id])
                  ELSE NoInverse
  /\ Audit("transaction")
  /\ UNCHANGED <<accounts, assignments>>

\* Both legs in one transaction, over distinct accounts and opposite amounts.
ApplySaveTransfer(c) ==
  /\ c.kind = "SaveTransfer"
  /\ \A t \in DOMAIN c.legs : AccountExists(c.legs[t])
  /\ \A t, u \in DOMAIN c.legs : t # u =>
       /\ c.legs[t].account # c.legs[u].account
       /\ c.legs[t].amount + c.legs[u].amount = 0
  /\ transactions' = PutAll(transactions, c.legs)
  /\ inverse' = NoInverse
  /\ Audit("transfer")
  /\ UNCHANGED <<accounts, assignments>>

ApplySetAssignment(c) ==
  /\ c.kind = "SetAssignment"
  /\ assignments' = Put(assignments, c.category, c.amount)
  /\ inverse' = IF c.category \in DOMAIN assignments
                  THEN SetAssignment(c.category, assignments[c.category])
                  ELSE RemoveAssignment(c.category)
  /\ Audit("assignment")
  /\ UNCHANGED <<accounts, transactions>>

ApplyRemoveAssignment(c) ==
  /\ c.kind = "RemoveAssignment"
  /\ assignments' = Restrict(assignments, DOMAIN assignments \ {c.category})
  /\ inverse' = IF c.category \in DOMAIN assignments
                  THEN SetAssignment(c.category, assignments[c.category])
                  ELSE NoInverse
  /\ Audit("assignment")
  /\ UNCHANGED <<accounts, transactions>>

\* put_reconciliation: the transactions it includes become reconciled.
ApplyCompleteSnapshot(c) ==
  /\ c.kind = "CompleteSnapshot"
  /\ c.account \in DOMAIN accounts
  /\ transactions' = [t \in DOMAIN transactions |->
                        IF t \in c.ids
                          THEN [transactions[t] EXCEPT !.clearance = "Reconciled"]
                          ELSE transactions[t]]
  /\ inverse' = NoInverse
  /\ Audit("reconciliation")
  /\ UNCHANGED <<accounts, assignments>>

-----------------------------------------------------------------------------
(* execute_batch()                                                         *)

IsLeg(t) == transactions[t].transfer # NoTransfer
Legs(t) == {u \in DOMAIN transactions : transactions[u].transfer = transactions[t].transfer}

\* Mutant: the other leg of a transfer is forgotten.
AffectedMutant(ids) == ids

\* A transfer is changed with both its legs, whichever of them is selected.
Affected(ids) == UNION {IF IsLeg(t) THEN Legs(t) ELSE {t} : t \in ids}

\* batch_preflight, of the selected rows only, and the pairing of their transfers.
\* Nothing the application sends voids or archives a row, so no row is.
BatchAllowed(ids) ==
  /\ ids \subseteq DOMAIN transactions
  /\ \A t \in ids :
       /\ transactions[t].clearance # "Reconciled"
       /\ ~accounts[transactions[t].account].closed
       /\ IsLeg(t) => Cardinality(Legs(t)) = 2

\* Mutant: the prior rows are collected from the selection only.
BatchInverseMutant(ids) == Restore(Restrict(transactions, ids))

BatchInverse(ids) == Restore(Restrict(transactions, Affected(ids)))

ApplySetClearance(c) ==
  /\ c.kind = "SetClearance"
  /\ BatchAllowed(c.ids)
  /\ transactions' =
       [t \in DOMAIN transactions |->
          IF t \in Affected(c.ids)
            THEN [transactions[t] EXCEPT !.clearance = c.clearance]
            ELSE transactions[t]]
  /\ inverse' = BatchInverse(c.ids)
  /\ AuditBatch(Affected(c.ids))
  /\ UNCHANGED <<accounts, assignments>>

\* The second leg of a transfer finds its pair deleted already, "incomplete":
\* a selection of both legs is refused.
ApplyDelete(c) ==
  /\ c.kind = "Delete"
  /\ BatchAllowed(c.ids)
  /\ \A t, u \in c.ids : t # u => u \notin Affected({t})
  /\ transactions' = Restrict(transactions, DOMAIN transactions \ Affected(c.ids))
  /\ inverse' = BatchInverse(c.ids)
  /\ AuditBatch(Affected(c.ids))
  /\ UNCHANGED <<accounts, assignments>>

\* Mutant: a restore goes through the preflight like any other batch.
ApplyRestoreMutant(c) ==
  /\ c.kind = "Restore"
  /\ BatchAllowed(DOMAIN c.prior)
  /\ transactions' = PutAll(transactions, c.prior)
  /\ inverse' = Restore(Restrict(transactions, DOMAIN c.prior))
  /\ AuditBatch(DOMAIN c.prior)
  /\ UNCHANGED <<accounts, assignments>>

\* A restore has no preflight.  Rows that were absent are not in its inverse.
ApplyRestore(c) ==
  /\ c.kind = "Restore"
  /\ \A t \in DOMAIN c.prior : AccountExists(c.prior[t])
  /\ transactions' = PutAll(transactions, c.prior)
  /\ inverse' = Restore(Restrict(transactions, DOMAIN c.prior \intersect DOMAIN transactions))
  /\ AuditBatch(DOMAIN c.prior)
  /\ UNCHANGED <<accounts, assignments>>

\* execute(): one command, committed.
Execute(c) ==
  \/ ApplyUpdateAccount(c)
  \/ ApplyCreateWithOpening(c)
  \/ ApplyCloseAccount(c)
  \/ ApplySaveTransaction(c)
  \/ ApplySaveTransfer(c)
  \/ ApplySetAssignment(c)
  \/ ApplyRemoveAssignment(c)
  \/ ApplyCompleteSnapshot(c)
  \/ ApplySetClearance(c)
  \/ ApplyDelete(c)
  \/ ApplyRestore(c)
=============================================================================
