------------------------------ MODULE MasterData ------------------------------
(***************************************************************************)
(* The records that transactions refer to: accounts, categories and their  *)
(* groups, payees, targets, schedules, and the inbox's failures.  Each     *)
(* command of the executor about them is an arm that computes the tables   *)
(* it leaves and the undo data it hands out; the runtime executes that     *)
(* undo, and then the redo, as commands of their own.  Rows of other       *)
(* tables are kept as what they refer to.  Names, notes and sort orders    *)
(* are left out, and so is the audit record every command appends.         *)
(***************************************************************************)
EXTENDS Integers, Sequences, FiniteSets, Functions, Maps, TLC

CONSTANTS
  MasterAccounts, MasterCategories, MasterGroups, MasterPayees, MasterTargets,   \* ids
  Parents,          \* account groups that exist
  References,       \* rows that can be recorded: [table, account, category, payee, amount]
  NoRef,            \* a column that refers to nothing
  Kinds,            \* what targets say: [kind, amount, due, card]
  MonthNow,         \* the month category details are asked for
  MaxCommands       \* bound: commands, recordings and selections of a behaviour

\* Target::new refuses an amount that is not positive; a card's payoff has none.
ASSUME MasterAssumption ==
  /\ MonthNow \in Int
  /\ \A row \in References : row.amount \in Int
  /\ \A kind \in Kinds : kind.card = NoRef =>
       kind.amount \in Int /\ kind.amount > 0 /\ kind.due \in Int \cup {NoRef}

VARIABLES
  tables,    \* [accounts, categories, groups, payees, targets, dismissed, rows]
  latest,    \* the last command if it can still be undone: [command, before, undo, by, seen]
  shown,     \* category_detail.last_successful: [id, row, detail], <<>> before the first
  issuedCommands

masterData == <<tables, latest, shown, issuedCommands>>

NoInverse == [entity |-> "none"]
Opaque == [entity |-> "opaque"]     \* UndoData::Opaque: nobody can execute it
Command(entity, op, id, value) == [entity |-> entity, op |-> op, id |-> id, value |-> value]
Drop(table, id) == Restrict(table, DOMAIN table \ {id})

\* An arm either refuses, and its transaction is rolled back, or it has a result.
Rejected == {}
Result(t, undo) == {[tables |-> t, undo |-> undo]}
-----------------------------------------------------------------------------
(* SqliteRepositories *)

\* The conflict clause of put_account has no account_type.
PutAccount(t, id, row) ==
  LET stored == IF id \in DOMAIN t.accounts THEN [row EXCEPT !.type = t.accounts[id].type] ELSE row
  IN  [t EXCEPT !.accounts = Put(@, id, stored)]
AccountIsUsed(t, id) ==
  \/ \E row \in t.rows : row.account = id
  \/ \E target \in DOMAIN t.targets : t.targets[target].kind.card = id

\* INSERT ... SELECT from the group: without the group there is no row, and no error.
PutCategory(t, id, row) ==
  IF row.group \in DOMAIN t.groups THEN [t EXCEPT !.categories = Put(@, id, row)] ELSE t
CategoryIsUsed(t, id) ==
  \E row \in t.rows : /\ row.category = id
                      /\ row.table \in {"transactions", "subtransactions", "budget_assignments"}
CategoryIsManaged(t, id) ==
  \E row \in t.rows : row.category = id /\ row.table = "credit_card_payment_categories"
\* FOREIGN KEY(category_id, ...), checked by the DELETE itself.
CategoryIsReferenced(t, id) ==
  \/ \E row \in t.rows : row.category = id
  \/ \E target \in DOMAIN t.targets : t.targets[target].category = id
  \/ \E p \in DOMAIN t.payees : t.payees[p].category = id

PutPayee(t, id, row) == [t EXCEPT !.payees = Put(@, id, row)]
PayeeIsUsed(t, id) == \E row \in t.rows : row.payee = id /\ row.table = "transactions"
PayeeIsReferenced(t, id) == \E row \in t.rows : row.payee = id

\* INSERT ... SELECT from the category, in the way of put_category.
PutTarget(t, id, row) ==
  IF row.category \in DOMAIN t.categories THEN [t EXCEPT !.targets = Put(@, id, row)] ELSE t

ToggleFailureDismissal(t) == [t EXCEPT !.dismissed = ~@]
-----------------------------------------------------------------------------
(* The arms of apply() *)

AccountChange(row, c) ==
  CASE c.op = "Update" -> c.value
    [] c.op = "Close" -> [row EXCEPT !.closed = TRUE]
    [] c.op = "Reopen" -> [row EXCEPT !.closed = FALSE]
    [] c.op = "SetFavorite" -> [row EXCEPT !.favorite = c.value]
    [] c.op = "MoveToGroup" -> [row EXCEPT !.group = c.value]
\* Mutant: the inverse is taken from the account after it has been changed.
AccountArmMutant(t, c) ==
  LET changed == AccountChange(t.accounts[c.id], c) IN
  CASE c.op = "Create" -> Result(PutAccount(t, c.id, c.value), Command("account", "Close", c.id, NoRef))
    [] c.op = "DeleteUnused" -> Rejected
    [] OTHER -> Result(PutAccount(t, c.id, changed), Command("account", "Update", c.id, changed))
AccountArm(t, c) ==
  CASE c.op = "Create" ->
         Result(PutAccount(t, c.id, c.value), Command("account", "Close", c.id, NoRef))
    [] c.op = "DeleteUnused" ->
         IF AccountIsUsed(t, c.id) \/ c.id \notin DOMAIN t.accounts THEN Rejected
         ELSE Result([t EXCEPT !.accounts = Drop(@, c.id)],
                     Command("account", "Create", c.id, t.accounts[c.id]))
    [] OTHER ->
         IF c.id \notin DOMAIN t.accounts THEN Rejected
         ELSE Result(PutAccount(t, c.id, AccountChange(t.accounts[c.id], c)),
                     Command("account", "Update", c.id, t.accounts[c.id]))

CategoryArm(t, c) ==
  CASE CategoryIsManaged(t, c.id) -> Rejected
    [] ~CategoryIsManaged(t, c.id) /\ c.op = "Update" ->
         Result(PutCategory(t, c.id, c.value),
                IF c.id \in DOMAIN t.categories
                THEN Command("category", "Update", c.id, t.categories[c.id]) ELSE NoInverse)
    [] OTHER ->
         IF CategoryIsUsed(t, c.id) \/ CategoryIsReferenced(t, c.id) \/ c.id \notin DOMAIN t.categories
         THEN Rejected ELSE Result([t EXCEPT !.categories = Drop(@, c.id)], Opaque)

GroupArm(t, c) == Result([t EXCEPT !.groups = Put(@, c.id, c.value)], NoInverse)

PayeeArm(t, c) ==
  IF c.op = "Update"
  THEN IF c.value.category \notin DOMAIN t.categories \cup {NoRef} THEN Rejected
       ELSE Result(PutPayee(t, c.id, c.value),
                   IF c.id \in DOMAIN t.payees
                   THEN Command("payee", "Update", c.id, t.payees[c.id]) ELSE NoInverse)
  ELSE IF PayeeIsUsed(t, c.id) \/ PayeeIsReferenced(t, c.id) \/ c.id \notin DOMAIN t.payees
       THEN Rejected ELSE Result([t EXCEPT !.payees = Drop(@, c.id)], Opaque)

\* The inverse of every Save is a Delete, that of an edit too.
TargetArm(t, c) ==
  IF c.op = "Save"
  THEN IF c.value.kind.card \notin DOMAIN t.accounts \cup {NoRef} THEN Rejected
       ELSE Result(PutTarget(t, c.id, c.value), Command("target", "Delete", c.id, NoRef))
  ELSE Result([t EXCEPT !.targets = Drop(@, c.id)], NoInverse)

\* The one schedule of a row; its occurrences cascade.
ScheduleArm(t, c) ==
  Result([t EXCEPT !.rows = {row \in @ : row.table # "scheduled_transactions"}], NoInverse)

DismissArm(t, c) == Result(ToggleFailureDismissal(t), c)

Apply(t, c) ==
  CASE c.entity = "account" -> AccountArm(t, c)
    [] c.entity = "category" -> CategoryArm(t, c)
    [] c.entity = "group" -> GroupArm(t, c)
    [] c.entity = "payee" -> PayeeArm(t, c)
    [] c.entity = "target" -> TargetArm(t, c)
    [] c.entity = "schedule" -> ScheduleArm(t, c)
    [] c.entity = "failure" -> DismissArm(t, c)
    [] OTHER -> Rejected     \* Opaque, or no inverse at all

\* What the history replays after the inverse: the inverse's own, if it is a command.
RedoOf(command, inverseOfUndo) ==
  IF inverseOfUndo \in {NoInverse, Opaque} THEN command ELSE inverseOfUndo
-----------------------------------------------------------------------------
(* Projections *)

\* payee_lookup: no command archives a payee.
PayeeLookup ==
  [payees |-> {p \in DOMAIN tables.payees : ~tables.payees[p].hidden},
   transfers |-> [id \in DOMAIN tables.accounts |-> tables.accounts[id].closed]]

\* months_inclusive
MonthsInclusive(from, due) == IF due <= from THEN 1 ELSE due - from + 1

\* Target::recommend without the state of a card, which category_detail never has.
Recommend(kind, month, available) ==
  LET funded == IF available > 0 THEN available ELSE 0
      remaining == IF kind.amount > funded THEN kind.amount - funded ELSE 0
      months == IF kind.due = NoRef THEN 1 ELSE MonthsInclusive(month, kind.due)
  IN  IF kind.card # NoRef THEN {}
      ELSE {[target |-> kind.amount, remaining |-> remaining, months |-> months,
             monthly |-> IF kind.kind = "monthly" THEN (IF kind.amount < remaining THEN kind.amount ELSE remaining)
                         ELSE (remaining + months - 1) \div months]}

\* category_detail: in_use looks at transactions alone, and what a target has is all that was
\* ever assigned.  Of several targets the most recently modified counts.
CategoryDetail(id, month) ==
  LET of(table) == {row \in tables.rows : row.category = id /\ row.table = table}
      targets == {k \in DOMAIN tables.targets : tables.targets[k].category = id}
      current == IF of("budget_assignments") = {} THEN 0
                 ELSE LET row == CHOOSE r \in of("budget_assignments") : TRUE IN row.amount
  IN  [protected |-> of("credit_card_payment_categories") # {},
       in_use |-> of("transactions") # {},
       targets |-> targets,
       current |-> current,
       advice |-> UNION {Recommend(tables.targets[k].kind, month, current) : k \in targets}]
-----------------------------------------------------------------------------
\* The executor on behalf of a screen; refused commands change nothing.
ExecuteFor(button, c) ==
  /\ issuedCommands < MaxCommands /\ issuedCommands' = issuedCommands + 1
  /\ \E r \in Apply(tables, c) :
       /\ tables' = r.tables
       /\ latest' = <<[command |-> c, before |-> tables, undo |-> r.undo, by |-> button, seen |-> shown]>>
  /\ UNCHANGED shown
Execute(c) == ExecuteFor("AnotherScreen", c)

\* CategoryAction::Select.  No command ever has the detail read again.
OpenDetail(id) ==
  /\ issuedCommands < MaxCommands /\ issuedCommands' = issuedCommands + 1
  /\ shown' = <<[id |-> id, row |-> tables.categories[id], detail |-> CategoryDetail(id, MonthNow)]>>
  /\ UNCHANGED <<tables, latest>>

\* show_detail: a button writes the category as it is shown, changed as the button says; of
\* several targets one is shown.  The other buttons open editors and other workspaces.
HideRow(row) == [row EXCEPT !.hidden = ~@]
ArchiveRow(row) == [row EXCEPT !.hidden = TRUE, !.archived = TRUE]
DetailButton ==
  /\ shown # <<>>
  /\ LET id == shown[1].id row == shown[1].row IN
     \/ ExecuteFor("Hide", Command("category", "Update", id, HideRow(row)))
     \/ /\ ~shown[1].detail.protected
        /\ ExecuteFor("Archive", Command("category", "Update", id, ArchiveRow(row)))
     \/ \E target \in shown[1].detail.targets :
          ExecuteFor("RemoveGoal", Command("target", "Delete", target, NoRef))

\* Another command writes or removes a row; a transaction takes what the editors offer.
Recorded(row) ==
  /\ issuedCommands < MaxCommands /\ issuedCommands' = issuedCommands + 1
  /\ row.account \in DOMAIN PayeeLookup.transfers \cup {NoRef}
  /\ row.payee \in PayeeLookup.payees \cup {NoRef}
  /\ row.category \in DOMAIN tables.categories \cup {NoRef}
  /\ tables' = [tables EXCEPT !.rows = (@ \ {row}) \cup ({row} \ @)]
  /\ latest' = <<>> /\ UNCHANGED shown

Commands ==
  {Command("account", op, id, NoRef) : op \in {"Close", "Reopen", "DeleteUnused"}, id \in MasterAccounts}
  \cup {Command("account", "SetFavorite", id, favorite) : id \in MasterAccounts, favorite \in BOOLEAN}
  \cup {Command("account", "MoveToGroup", id, group) : id \in MasterAccounts, group \in Parents \cup {NoRef}}
  \cup {Command("category", op, id, NoRef) : op \in {"Delete"}, id \in MasterCategories}
  \cup {Command("payee", "Delete", id, NoRef) : id \in MasterPayees}
  \cup {Command("target", "Delete", id, NoRef) : id \in MasterTargets}
  \cup {Command("schedule", "Delete", NoRef, NoRef), Command("failure", "Dismiss", NoRef, NoRef)}

CreateOrUpdateAccount ==
  \E id \in MasterAccounts, type \in {"checking", "credit_card"}, group \in Parents \cup {NoRef} :
    Execute(Command("account", IF id \in DOMAIN tables.accounts THEN "Update" ELSE "Create", id,
                    [type |-> type, group |-> group, closed |-> FALSE, favorite |-> FALSE]))
CreateOrUpdateCategory ==
  \/ \E id \in MasterCategories, group \in MasterGroups, hidden, archived \in BOOLEAN :
       Execute(Command("category", "Update", id, [group |-> group, hidden |-> hidden, archived |-> archived]))
  \/ \E id \in MasterGroups, hidden \in BOOLEAN :
       Execute(Command("group", "Create", id, [hidden |-> hidden]))
CreateOrUpdatePayee ==
  \E id \in MasterPayees, hidden \in BOOLEAN, category \in MasterCategories \cup {NoRef} :
    Execute(Command("payee", "Update", id, [hidden |-> hidden, category |-> category]))
SaveTarget ==
  \E id \in MasterTargets, category \in MasterCategories, kind \in Kinds :
    Execute(Command("target", "Save", id, [category |-> category, kind |-> kind]))

MasterInit(start) == tables = start /\ latest = <<>> /\ shown = <<>> /\ issuedCommands = 0
MasterNext ==
  \/ \E c \in Commands : Execute(c)
  \/ CreateOrUpdateAccount \/ CreateOrUpdateCategory \/ CreateOrUpdatePayee \/ SaveTarget
  \/ \E row \in References : Recorded(row)
  \/ \E id \in DOMAIN tables.categories : OpenDetail(id)
  \/ DetailButton
-----------------------------------------------------------------------------
\* The undo that is offered right after a command is never refused and takes the command
\* back; the redo after it brings the command's effect again.  (An account that was created
\* is closed; the undo of an edited target deletes it; the redo of a deleted account only
\* closes it.)
UndoneAndRedone ==
  latest # <<>> /\ latest[1].undo \notin {NoInverse, Opaque} =>
    LET done == latest[1]
        is(entity, op) == done.command.entity = entity /\ done.command.op = op
    IN  \E undone \in Apply(tables, done.undo) :
          \/ is("target", "Save") /\ done.command.id \in DOMAIN done.before.targets
          \/ /\ is("account", "Create") \/ undone.tables = done.before
             /\ \E redone \in Apply(undone.tables, RedoOf(done.command, undone.undo)) :
                  is("account", "DeleteUnused") \/ redone.tables = tables

\* A category that its detail shows as managed, in use or with a target is not deleted, and
\* what the detail advises adds up: the monthly sums reach the target by its date and never
\* go past it, and nothing remains exactly when the target is reached.
DetailsAreTrue ==
  \A id \in DOMAIN tables.categories :
    LET detail == CategoryDetail(id, MonthNow) IN
    /\ detail.protected \/ detail.in_use \/ detail.targets # {} =>
         Apply(tables, Command("category", "Delete", id, NoRef)) = Rejected
    /\ \A advice \in detail.advice :
         /\ advice.monthly <= advice.remaining
         /\ (advice.remaining = 0) = (detail.current >= advice.target)
         /\ \/ advice.monthly * advice.months >= advice.remaining
            \/ advice.monthly = advice.target

\* A button of the detail changes what it says and nothing else: hiding a category leaves
\* its group and its archived state alone, archiving its group, and removing a goal the other
\* goals.  (The detail is not read again after a command: a button pressed on one that is out
\* of date puts the whole category back to what was shown, and Hide revives an archived one.)
ButtonsDoWhatTheySay ==
  latest # <<>> /\ latest[1].by # "AnotherScreen" =>
    LET id == latest[1].seen[1].id
        before == latest[1].before
        same == {"group", "archived"} \ (IF latest[1].by = "Archive" THEN {"archived"} ELSE {})
    IN  IF latest[1].by = "RemoveGoal"
        THEN Drop(before.targets, latest[1].command.id) = tables.targets
        ELSE /\ id \in DOMAIN before.categories /\ before.categories[id] = latest[1].seen[1].row =>
                  /\ \A column \in same : tables.categories[id][column] = before.categories[id][column]
                  /\ tables.categories[id] # before.categories[id] \/ latest[1].by = "Archive"
             /\ Drop(before.categories, id) = Drop(tables.categories, id)

\* Whatever is deleted, nothing refers to a record that is not there, although the executor's
\* own checks look at some of the referring tables only.
ReferencesResolve ==
  /\ \A row \in tables.rows : /\ row.account \in DOMAIN tables.accounts \cup {NoRef}
                              /\ row.category \in DOMAIN tables.categories \cup {NoRef}
                              /\ row.payee \in DOMAIN tables.payees \cup {NoRef}
  /\ \A k \in DOMAIN tables.targets : /\ tables.targets[k].category \in DOMAIN tables.categories
                                      /\ tables.targets[k].kind.card \in DOMAIN tables.accounts \cup {NoRef}
  /\ \A c \in DOMAIN tables.categories : tables.categories[c].group \in DOMAIN tables.groups
  /\ \A p \in DOMAIN tables.payees : tables.payees[p].category \in DOMAIN tables.categories \cup {NoRef}

\* Commands about master data can be taken back, leave no reference dangling, and agree with
\* what the screens say may be deleted and should be assigned.
MasterDataHolds ==
  UndoneAndRedone /\ DetailsAreTrue /\ ButtonsDoWhatTheySay /\ ReferencesResolve
=============================================================================
