----------------------------- MODULE LedgerEdits -----------------------------
(***************************************************************************)
(* A user who edits the ledger and takes edits back: the commands that the *)
(* application's screens send to the executor, one at a time, and the      *)
(* undo and redo stacks that the runtime keeps of them                     *)
(* (commit_editor, dispatch_register, dispatch_ui and                      *)
(* handle_command_response of src/src/app/runtime.rs).                     *)
(*                                                                         *)
(* CommandRuntime has the commands in flight and keeps the ledger          *)
(* abstract; here each command is answered before the next, and what is    *)
(* kept is what the commands do to the rows.                               *)
(***************************************************************************)
EXTENDS FinancialExecutor, CommandHistory

CONSTANTS
  Start,        \* the ledger when the session begins, with empty stacks
  Picked,       \* bound: clearances picked in the transaction editor
  MaxSelected,  \* bound: rows selected for a deletion
  MaxCommands   \* bound: commands committed in the session

\* The legs t and u of a table are a transfer.
Mates(f, t, u) ==
  /\ u # t
  /\ f[u].transfer = f[t].transfer
  /\ f[u].account # f[t].account
  /\ f[u].amount = -f[t].amount
  /\ \A w \in DOMAIN f : f[w].transfer = f[t].transfer => w \in {t, u}
Paired(f) ==
  \A t \in DOMAIN f : f[t].transfer # NoTransfer => \E u \in DOMAIN f : Mates(f, t, u)

IsLedger(ledger) ==
  /\ IsTable(ledger.accounts, AccountIds, AccountRows)
  /\ IsTable(ledger.transactions, TransactionIds, TransactionRows)
  /\ IsTable(ledger.assignments, CategoryIds, Cents \union {0})
  /\ Paired(ledger.transactions)
  /\ \A t \in DOMAIN ledger.transactions : ledger.transactions[t].account \in DOMAIN ledger.accounts

ASSUME EditsAssumption ==
  /\ IsLedger(Start)
  /\ Picked \subseteq {"Uncleared", "Cleared"}
  /\ MaxSelected \in Nat
  /\ MaxCommands \in Nat

VARIABLES
  history,    \* the undo and redo stacks
  issued,     \* the identifiers that have been given out
  committed,  \* how many commands were committed
  execution   \* ghost: the ledger around the last execution of each entry

editsVars == <<history, issued, committed, execution>>
vars == <<executorVars, editsVars>>

Labels == 1..MaxCommands

Init ==
  /\ accounts = Start.accounts
  /\ transactions = Start.transactions
  /\ assignments = Start.assignments
  /\ changeLog = <<>>
  /\ inverse = NoInverse
  /\ history = EmptyHistory
  /\ issued = DOMAIN accounts \union DOMAIN transactions
               \union {transactions[t].transfer : t \in DOMAIN transactions}
  /\ committed = 0
  /\ execution = <<>>

\* handle_command_response keeps what the executor says can be taken back.
Kept == {history'.undo[i].label : i \in DOMAIN history'.undo}
          \union {history'.redo[i].label : i \in DOMAIN history'.redo}
Remember(label) ==
  execution' = [l \in Kept |-> IF l = label
                                  THEN [before |-> rows, after |-> rows']
                                  ELSE execution[l]]

Commit(c) ==
  /\ committed < MaxCommands
  /\ Execute(c)
  /\ committed' = committed + 1
  /\ history' = IF inverse' = NoInverse
                  THEN history
                  ELSE RecordSuccess(history, Entry(committed + 1, c, inverse'))
  /\ Remember(committed + 1)

-----------------------------------------------------------------------------
(* What the screens send.  A new row gets an identifier never used before; *)
(* which one does not matter.                                              *)

Fresh(ids) == ids \ issued
NewId(ids) == CHOOSE i \in Fresh(ids) : TRUE
Issue(ids) == issued' = issued \union ids

\* The account editor: Account::new is open, whatever the account was.
EditAccount(a, n) ==
  /\ Commit(UpdateAccount(a, [name |-> n, closed |-> FALSE]))
  /\ UNCHANGED issued

CreateAccount(n, opening) ==
  /\ Fresh(AccountIds) # {}
  /\ Fresh(TransactionIds) # {}
  /\ LET a == NewId(AccountIds)
         t == NewId(TransactionIds) IN
       /\ Commit(CreateWithOpening(a, n, t, opening))
       /\ Issue({a} \union {u \in {t} : opening # 0})

PlainRow(a, v, s) ==
  [account |-> a, amount |-> v, clearance |-> s, transfer |-> NoTransfer]

\* The editor's box offers Uncleared and Cleared, and shows what the row has.
EnterTransaction(a, v, s) ==
  /\ Fresh(TransactionIds) # {}
  /\ LET t == NewId(TransactionIds) IN
       /\ Commit(SaveTransaction(t, PlainRow(a, v, s)))
       /\ Issue({t})

\* editor_from_row refuses a transfer.
EditTransaction(t, a, v, s) ==
  /\ ~IsLeg(t)
  /\ s \in Picked \union {transactions[t].clearance}
  /\ Commit(SaveTransaction(t, PlainRow(a, v, s)))
  /\ UNCHANGED issued

TransferLegs(source, destination, from, to, v, x) ==
  [t \in {source, destination} |->
     [account |-> IF t = source THEN from ELSE to, amount |-> IF t = source THEN -v ELSE v,
      clearance |-> "Uncleared", transfer |-> x]]

EnterTransfer(from, to, v) ==
  /\ Fresh(TransferIds) # {}
  /\ Cardinality(Fresh(TransactionIds)) > 1
  /\ LET x == NewId(TransferIds)
         s == NewId(TransactionIds)
         d == CHOOSE t \in Fresh(TransactionIds) : t # s IN
       /\ from # to
       /\ Commit(SaveTransfer(TransferLegs(s, d, from, to, v, x)))
       /\ Issue({x, s, d})

\* begin_edit of a transfer: the leg with the outflow is the source.
EditTransfer(s, d, from, to, v) ==
  /\ IsLeg(s)
  /\ transactions[s].amount < 0
  /\ d \in Legs(s) \ {s}
  /\ from # to
  /\ Commit(SaveTransfer(TransferLegs(s, d, from, to, v, transactions[s].transfer)))
  /\ UNCHANGED issued

\* valid_row_actions offers the mark that the row does not have.
MarkCleared(t) ==
  /\ Commit(SetClearance({t}, IF transactions[t].clearance = "Cleared"
                                 THEN "Uncleared" ELSE "Cleared"))
  /\ UNCHANGED issued

DeleteSelected(ids) == Commit(Delete(ids)) /\ UNCHANGED issued
Assign(c, v) == Commit(SetAssignment(c, v)) /\ UNCHANGED issued

\* The reconciliation editor includes no transaction in its snapshot.
Reconcile(a) == Commit(CompleteSnapshot(a, {})) /\ UNCHANGED issued

\* Undo executes the top inverse, and makes its own inverse the next redo.
Undo ==
  /\ CanUndo(history)
  /\ committed < MaxCommands
  /\ Execute(NextUndo(history))
  /\ committed' = committed + 1
  /\ history' = IF inverse' = NoInverse
                  THEN Undone(history)
                  ELSE ReplaceNextRedo(Undone(history), inverse')
  /\ Remember(Top(history.undo).label)
  /\ UNCHANGED issued

Redo ==
  /\ CanRedo(history)
  /\ committed < MaxCommands
  /\ Execute(NextRedo(history))
  /\ committed' = committed + 1
  /\ history' = IF inverse' = NoInverse
                  THEN Redone(history)
                  ELSE ReplaceNextUndo(Redone(history), inverse')
  /\ Remember(Top(history.redo).label)
  /\ UNCHANGED issued

Positive == {c \in Cents : c > 0}

EditAccounts ==
  \/ \E a \in DOMAIN accounts, n \in Names : EditAccount(a, n)
  \/ \E n \in Names, opening \in Cents \union {0} : CreateAccount(n, opening)
  \/ \E a \in DOMAIN accounts : Reconcile(a)

EditTransactions ==
  \/ \E a \in DOMAIN accounts, v \in Cents, s \in Picked : EnterTransaction(a, v, s)
  \/ \E t \in DOMAIN transactions, a \in DOMAIN accounts, v \in Cents, s \in Clearances :
       EditTransaction(t, a, v, s)
  \/ \E from, to \in DOMAIN accounts, v \in Positive : EnterTransfer(from, to, v)
  \/ \E s, d \in DOMAIN transactions, from, to \in DOMAIN accounts, v \in Positive :
       EditTransfer(s, d, from, to, v)
  \/ \E t \in DOMAIN transactions : MarkCleared(t)
  \/ \E ids \in SUBSET DOMAIN transactions :
       Cardinality(ids) \in 1..MaxSelected /\ DeleteSelected(ids)

EditAssignments == \E c \in CategoryIds, v \in Positive \union {0} : Assign(c, v)

Next == EditAccounts \/ EditTransactions \/ EditAssignments \/ Undo \/ Redo

Spec == Init /\ [][Next]_vars

-----------------------------------------------------------------------------
(* Properties                                                              *)

\* A transfer has both its legs or none, in distinct accounts and with
\* opposite amounts ("they must sum to zero", docs/sign-conventions.md),
\* through every sequence of edits, deletions, undos and redos: SaveTransfer,
\* execute_batch and the rows that Restore puts back keep the legs together.
TransferPairsWhole ==
  \A t \in DOMAIN transactions : IsLeg(t) =>
    /\ Cardinality(Legs(t)) = 2
    /\ \A u \in Legs(t) \ {t} :
         /\ transactions[u].account # transactions[t].account
         /\ transactions[u].amount = -transactions[t].amount

\* Undo and redo can be refused for one reason only: a name that the account
\* had before, and that another account has taken since (an undone creation
\* leaves the account and its name).  Whatever else was edited, deleted or
\* undone, the executor accepts what the stacks hold.
TakenName(c) == c.kind = "UpdateAccount" /\ ~NameFree(c.account, c.row.name)
HistoryStaysExecutable ==
  committed < MaxCommands =>
    /\ CanUndo(history) => TakenName(NextUndo(history)) \/ ENABLED Undo
    /\ CanRedo(history) => TakenName(NextRedo(history)) \/ ENABLED Redo

\* The step moves an entry: it gives every row that the entry's last execution
\* changed its value of before that execution, and any other row keeps its
\* value or takes the one it had then.
Cell(ledger, table, id) ==
  IF id \in DOMAIN ledger[table] THEN <<ledger[table][id]>> ELSE <<>>
TakesBack(last) ==
  \A table \in {"accounts", "transactions", "assignments"} :
    \A id \in DOMAIN rows[table] \union DOMAIN rows'[table]
                \union DOMAIN last.before[table] \union DOMAIN last.after[table] :
      IF Cell(last.before, table, id) = Cell(last.after, table, id)
        THEN Cell(rows, table, id)' \in {Cell(rows, table, id), Cell(last.before, table, id)}
        ELSE Cell(rows, table, id)' = Cell(last.before, table, id)

Created(entry) == entry.command.kind = "CreateWithOpening"
Reinserted(last) == ~(DOMAIN last.after.transactions \subseteq DOMAIN last.before.transactions)

LastDone == Top(history.undo)
LastUndone == Top(history.redo)

\* However edits, undos and redos alternate, an undo takes back what the last
\* execution of its entry did and touches nothing else; but the undo of a
\* creation closes the account instead.  A redo takes back what the undo did;
\* RedoRepeats says what happens to deletions.
HistoryIsExact ==
  [][/\ Undo => Created(LastDone) \/ TakesBack(execution[LastDone.label])
     /\ Redo => Reinserted(execution[LastUndone.label]) \/ TakesBack(execution[LastUndone.label])]_vars

\* A redo does again what the undo took back, whatever the command was:
\* CommandHistory's test expects the command itself from redo(), and
\* replace_next_redo is documented as a rebinding of that same command.
RedoRepeats == [][Redo => TakesBack(execution[LastUndone.label])]_vars
=============================================================================
