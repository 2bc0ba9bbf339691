--------------------------- MODULE LedgerEdits_proofs ---------------------------
(***************************************************************************)
(* Proofs about the user who edits the ledger and takes edits back: for    *)
(* any number of accounts, transactions and commands, stacks of any        *)
(* capacity, and every sequence of edits, deletions, undos and redos.      *)
(***************************************************************************)
EXTENDS LedgerEdits, SequenceTheorems, FiniteSetTheorems, TLAPS

-----------------------------------------------------------------------------
(* The legs of transfers, in tables of transactions                        *)

IsRows(f) ==
  \A t \in DOMAIN f :
    /\ f[t] = [account |-> f[t].account, amount |-> f[t].amount,
               clearance |-> f[t].clearance, transfer |-> f[t].transfer]
    /\ f[t].amount \in Int

\* Two tables, of the present and the past, have the same transaction for the same leg.
Agree(f, g) ==
  \A t \in DOMAIN f, u \in DOMAIN g :
    /\ t = u => f[t].transfer = g[u].transfer
    /\ f[t].transfer # NoTransfer /\ f[t].transfer = g[u].transfer =>
         u \in DOMAIN f /\ t \in DOMAIN g

\* What was never written has an identifier that was never given out.
Known(f, ids) == \A t \in DOMAIN f : t \in ids /\ f[t].transfer \in ids \union {NoTransfer}

\* The transactions a command writes.
Written(c) ==
  CASE c.kind = "SaveTransaction" -> [t \in {c.id} |-> c.row]
    [] c.kind = "SaveTransfer" -> c.legs
    [] c.kind = "Restore" -> c.prior
    [] c.kind = "CreateWithOpening" /\ c.opening # 0 ->
         [t \in {c.id} |-> [account |-> c.account, amount |-> c.opening,
                            clearance |-> "Cleared", transfer |-> NoTransfer]]
    [] OTHER -> [t \in {} |-> NoTransfer]

Sound(f, ids) == IsRows(f) /\ Paired(f) /\ Known(f, ids)
Consistent(tables, ids) ==
  /\ \A f \in tables : Sound(f, ids)
  /\ \A f, g \in tables : Agree(f, g)

-----------------------------------------------------------------------------
(* The stacks                                                              *)

EntriesOf(s) == {s[i] : i \in DOMAIN s}
IsEntry(e) == e = Entry(e.label, e.command, e.inverse)
IsStack(s) == s \in Seq(EntriesOf(s)) /\ \A e \in EntriesOf(s) : IsEntry(e)
IsHistory(h) == h = [undo |-> h.undo, redo |-> h.redo] /\ IsStack(h.undo) /\ IsStack(h.redo)
OnStacks(h) ==
  {e.command : e \in EntriesOf(h.undo) \union EntriesOf(h.redo)}
    \union {e.inverse : e \in EntriesOf(h.undo) \union EntriesOf(h.redo)}

\* Whatever the stacks hold belongs to the same transfers as the ledger.
PairsInv ==
  /\ IsHistory(history)
  /\ Consistent({transactions} \union {Written(c) : c \in OnStacks(history)}, issued)

-----------------------------------------------------------------------------
(* What the stacks take back                                               *)

CellOf(f, id) == IF id \in DOMAIN f THEN <<f[id]>> ELSE <<>>

\* The cells that a command writes: accounts and assignments.
AccountsBy(c) ==
  IF c.kind = "UpdateAccount" THEN [a \in {c.account} |-> <<c.row>>] ELSE [a \in {} |-> <<>>]
TransactionsBy(c) == [t \in DOMAIN Written(c) |-> <<Written(c)[t]>>]
AssignmentsBy(c) ==
  CASE c.kind = "SetAssignment" -> [k \in {c.category} |-> <<c.amount>>]
    [] c.kind = "RemoveAssignment" -> [k \in {c.category} |-> <<>>]
    [] OTHER -> [k \in {} |-> <<>>]

\* The cells bring the table back to what it was before, and no other cell has changed.
BringsBack(cells, before, after) ==
  /\ \A id \in DOMAIN cells : cells[id] = CellOf(before, id)
  /\ \A id \in (DOMAIN before \union DOMAIN after) \ DOMAIN cells : CellOf(before, id) = CellOf(after, id)
Matches(c, last) ==
  /\ BringsBack(AccountsBy(c), last.before.accounts, last.after.accounts)
  /\ BringsBack(TransactionsBy(c), last.before.transactions, last.after.transactions)
  /\ BringsBack(AssignmentsBy(c), last.before.assignments, last.after.assignments)

Replayable == {"UpdateAccount", "SaveTransaction", "Restore", "SetAssignment", "RemoveAssignment"}

UndoOK(e) ==
  /\ Created(e) => e.inverse.kind = "CloseAccount"
  /\ ~Created(e) => e.inverse.kind \in Replayable /\ Matches(e.inverse, execution[e.label])
  /\ e.inverse.kind = "SaveTransaction" =>
       e.command.kind = "SaveTransaction" /\ e.command.id = e.inverse.id
  /\ DOMAIN AssignmentsBy(e.inverse) \subseteq DOMAIN assignments
RedoOK(e) ==
  /\ e.command.kind \in Replayable \ {"RemoveAssignment"}
  /\ Reinserted(execution[e.label]) \/ Matches(e.command, execution[e.label])
  /\ DOMAIN Written(e.command) \subseteq DOMAIN transactions

\* The labels tell the entries of the stacks apart.
Numbered(s, n) == \A e \in EntriesOf(s) : e.label \in Nat /\ e.label <= n
Distinct(s) == \A i, j \in DOMAIN s : s[i].label = s[j].label => i = j
Apart(s, r) == \A e \in EntriesOf(s), d \in EntriesOf(r) : e.label # d.label

\* An entry that made an assignment came after those that change another amount of it: it
\* found none there.
MadeOnce(s) ==
  \A i, j \in DOMAIN s : i < j /\ s[j].inverse.kind = "RemoveAssignment" =>
    s[j].inverse.category \notin DOMAIN AssignmentsBy(s[i].inverse)

ExactInv ==
  /\ IsHistory(history) /\ committed \in Nat
  /\ HistoryCapacity = 0 => history.undo = <<>> /\ history.redo = <<>>
  /\ Numbered(history.undo, committed) /\ Numbered(history.redo, committed)
  /\ Distinct(history.undo) /\ Distinct(history.redo) /\ Apart(history.undo, history.redo)
  /\ MadeOnce(history.undo)
  /\ \A e \in EntriesOf(history.undo) : UndoOK(e)
  /\ \A e \in EntriesOf(history.redo) : RedoOK(e)

-----------------------------------------------------------------------------
(* How tables are made from tables                                         *)

\* A table whose rows are of the transactions that the tables of a set have.
From(f, tables) == \A k : (\A b \in tables : Agree(b, k)) => Agree(f, k)

\* Agreement is mutual.
LEMMA AgreeBoth ==
  ASSUME NEW f, NEW g, Agree(f, g)
  PROVE  Agree(g, f)
BY DEF Agree

\* A sound table made from consistent ones is consistent with all of them.
LEMMA OneMore ==
  ASSUME NEW tables, NEW ids, Consistent(tables, ids), NEW base, base \subseteq tables,
         NEW f, Sound(f, ids), From(f, base)
  PROVE  Consistent(tables \union {f}, ids)
<1>1. \A k \in tables : Agree(f, k)
  BY DEF Consistent, From
<1>2. \A k \in tables : Agree(k, f)
  BY <1>1, AgreeBoth
<1>3. Agree(f, f)
  BY <1>2 DEF From
<1> QED
  BY <1>1, <1>2, <1>3 DEF Consistent

\* Some of consistent tables are, and more identifiers may have been given out.
LEMMA SomeOf ==
  ASSUME NEW tables, NEW ids, Consistent(tables, ids), NEW some, some \subseteq tables,
         NEW more, ids \subseteq more
  PROVE  Consistent(some, more)
<1>1. \A f \in some : Sound(f, more)
  <2>1. ASSUME NEW f \in some PROVE Sound(f, more)
    <3>1. Sound(f, ids)
      BY DEF Consistent
    <3> QED
      BY <3>1 DEF Sound, Known
  <2> QED
    BY <2>1
<1>2. \A f, g \in some : Agree(f, g)
  BY DEF Consistent
<1> QED
  BY <1>1, <1>2 DEF Consistent

\* A table without rows.
LEMMA EmptyTable ==
  ASSUME NEW f, DOMAIN f = {}, NEW ids, NEW tables
  PROVE  Sound(f, ids) /\ From(f, tables)
BY DEF Sound, IsRows, Paired, Known, From, Agree

\* Some rows of a table: with a leg, all legs of its transfer.
IsPart(h, f) ==
  /\ DOMAIN h \subseteq DOMAIN f
  /\ \A t \in DOMAIN h : h[t] = f[t]
  /\ \A t \in DOMAIN h, u \in DOMAIN f :
       f[t].transfer # NoTransfer /\ f[t].transfer = f[u].transfer => u \in DOMAIN h
LEMMA PartOf ==
  ASSUME NEW f, NEW ids, Sound(f, ids), NEW h, IsPart(h, f), NEW tables, f \in tables
  PROVE  Sound(h, ids) /\ From(h, tables)
<1>1. IsRows(h) /\ Known(h, ids)
  BY DEF Sound, IsRows, Known, IsPart
<1>2. Paired(h)
  <2>1. SUFFICES ASSUME NEW t \in DOMAIN h, h[t].transfer # NoTransfer
                 PROVE  \E u \in DOMAIN h : Mates(h, t, u)
    BY DEF Paired
  <2>2. PICK u \in DOMAIN f : Mates(f, t, u)
    BY <2>1 DEF Sound, Paired, IsPart
  <2>3. u \in DOMAIN h
    BY <2>1, <2>2 DEF IsPart, Mates
  <2>4. Mates(h, t, u)
    BY <2>1, <2>2, <2>3 DEF IsPart, Mates
  <2> QED
    BY <2>3, <2>4
<1>3. ASSUME NEW k, Agree(f, k) PROVE Agree(h, k)
  BY <1>3 DEF Agree, IsPart
<1> QED
  BY <1>1, <1>2, <1>3 DEF Sound, From

\* A table with other clearances.
IsMarked(h, f) ==
  /\ DOMAIN h = DOMAIN f
  /\ \A t \in DOMAIN h : /\ h[t] = [account |-> f[t].account, amount |-> f[t].amount,
                                    clearance |-> h[t].clearance, transfer |-> f[t].transfer]
LEMMA MarkedTable ==
  ASSUME NEW f, NEW ids, Sound(f, ids), NEW h, IsMarked(h, f), NEW tables, f \in tables
  PROVE  Sound(h, ids) /\ From(h, tables)
<1>1. /\ DOMAIN h = DOMAIN f
      /\ \A t \in DOMAIN h : /\ h[t].account = f[t].account /\ h[t].amount = f[t].amount
                             /\ h[t].transfer = f[t].transfer
  BY DEF IsMarked
<1>2. IsRows(h)
  BY <1>1 DEF Sound, IsRows, IsMarked
<1>3. Known(h, ids)
  BY <1>1 DEF Sound, Known
<1>4. Paired(h)
  <2>1. SUFFICES ASSUME NEW t \in DOMAIN h, h[t].transfer # NoTransfer
                 PROVE  \E u \in DOMAIN h : Mates(h, t, u)
    BY DEF Paired
  <2>2. PICK u \in DOMAIN f : Mates(f, t, u)
    BY <1>1, <2>1 DEF Sound, Paired
  <2>3. Mates(h, t, u)
    BY <1>1, <2>1, <2>2 DEF Mates
  <2> QED
    BY <1>1, <2>3
<1>5. ASSUME NEW k, Agree(f, k) PROVE Agree(h, k)
  BY <1>1, <1>5 DEF Agree
<1> QED
  BY <1>2, <1>3, <1>4, <1>5 DEF Sound, From

\* A table written over another.
LEMMA TableWritten ==
  ASSUME NEW f, NEW g, NEW ids, Sound(f, ids), Sound(g, ids), Agree(f, g), Agree(g, f),
         NEW h, h = PutAll(f, g), NEW tables, f \in tables, g \in tables
  PROVE  Sound(h, ids) /\ From(h, tables)
<1>1. /\ DOMAIN h = DOMAIN f \union DOMAIN g
      /\ \A t \in DOMAIN g : h[t] = g[t]
      /\ \A t \in DOMAIN f : t \notin DOMAIN g => h[t] = f[t]
  BY DEF PutAll
<1>2. IsRows(h)
  BY <1>1 DEF Sound, IsRows
<1>3. Known(h, ids)
  BY <1>1 DEF Sound, Known
<1>4. \A t \in DOMAIN f : t \in DOMAIN g => f[t].transfer = g[t].transfer
  BY DEF Agree
<1>5. Paired(h)
  <2>1. SUFFICES ASSUME NEW t \in DOMAIN h, h[t].transfer # NoTransfer
                 PROVE  \E u \in DOMAIN h : Mates(h, t, u)
    BY DEF Paired
  <2>2. CASE t \in DOMAIN g
    <3>1. PICK u \in DOMAIN g : Mates(g, t, u)
      BY <1>1, <2>1, <2>2 DEF Sound, Paired
    <3>2. \A w \in DOMAIN h : h[w].transfer = g[t].transfer => w \in DOMAIN g
      BY <1>1, <2>1, <2>2 DEF Agree
    <3>3. Mates(h, t, u)
      BY <1>1, <2>2, <3>1, <3>2 DEF Mates
    <3> QED
      BY <1>1, <3>3
  <2>3. CASE t \notin DOMAIN g
    <3>1. t \in DOMAIN f /\ h[t] = f[t]
      BY <1>1, <2>3
    <3>2. PICK u \in DOMAIN f : Mates(f, t, u)
      BY <2>1, <3>1 DEF Sound, Paired
    <3>3. \A w \in DOMAIN g : g[w].transfer # f[t].transfer
      BY <2>1, <2>3, <3>1 DEF Agree
    <3>4. u \notin DOMAIN g
      BY <1>4, <3>2, <3>3 DEF Mates
    <3>5. Mates(h, t, u)
      BY <1>1, <3>1, <3>2, <3>3, <3>4 DEF Mates
    <3> QED
      BY <1>1, <3>5
  <2> QED
    BY <2>2, <2>3
<1>6. ASSUME NEW k, Agree(f, k), Agree(g, k) PROVE Agree(h, k)
  <2>1. ASSUME NEW t \in DOMAIN h, NEW u \in DOMAIN k
        PROVE  /\ t = u => h[t].transfer = k[u].transfer
               /\ h[t].transfer # NoTransfer /\ h[t].transfer = k[u].transfer =>
                    u \in DOMAIN h /\ t \in DOMAIN k
    <3>1. CASE t \in DOMAIN g
      BY <1>1, <1>6, <3>1 DEF Agree
    <3>2. CASE t \notin DOMAIN g
      BY <1>1, <1>6, <3>2 DEF Agree
    <3> QED
      BY <3>1, <3>2
  <2> QED
    BY <2>1 DEF Agree
<1> QED
  BY <1>2, <1>3, <1>5, <1>6 DEF Sound, From

\* One row written is a table of one row written.
LEMMA RowWritten ==
  ASSUME NEW f, NEW id, NEW row
  PROVE  Put(f, id, row) = PutAll(f, [t \in {id} |-> row])
BY DEF Put, PutAll

\* The commands that write no transaction.
LEMMA WritesNothing ==
  ASSUME NEW c, c.kind \notin {"SaveTransaction", "SaveTransfer", "Restore"},
         c.kind = "CreateWithOpening" => c.opening = 0
  PROVE  DOMAIN Written(c) = {}
BY DEF Written

\* A single row is no leg.
LEMMA SingleIsPlain ==
  ASSUME NEW id, NEW row, Paired([t \in {id} |-> row])
  PROVE  row.transfer = NoTransfer
<1>1. PICK f : f = [t \in {id} |-> row]
  OBVIOUS
<1>2. DOMAIN f = {id} /\ f[id] = row
  BY <1>1
<1> QED
  BY <1>1, <1>2 DEF Paired, Mates
-----------------------------------------------------------------------------
(* The arms of the executor and the legs                                   *)

\* The rows that a batch changes are of whole transfers, and so are those it leaves.
LEMMA AffectedWhole ==
  ASSUME NEW ids, ids \subseteq DOMAIN transactions
  PROVE  /\ Affected(ids) \subseteq DOMAIN transactions /\ ids \subseteq Affected(ids)
         /\ \A t, u \in DOMAIN transactions :
              transactions[t].transfer # NoTransfer /\ transactions[t].transfer = transactions[u].transfer =>
                (t \in Affected(ids)) = (u \in Affected(ids))
BY DEF Affected, IsLeg, Legs

\* What a command leaves and what would take it back are of the legs that the ledger and the
\* command have.
LEMMA LegsKept ==
  ASSUME NEW ids, NEW c, Execute(c), NEW w, w = Written(c), NEW i, i = Written(inverse'),
         Sound(transactions, ids), Sound(w, ids), Agree(transactions, w), Agree(w, transactions)
  PROVE  /\ Sound(transactions', ids) /\ From(transactions', {transactions, w})
         /\ Sound(i, ids) /\ From(i, {transactions, w})
<1> DEFINE base == {transactions, w}
<1>1. PICK f, g : f = transactions /\ g = transactions'
  OBVIOUS
<1>2. From(f, base)
  BY <1>1 DEF From
<1>3. ASSUME g = PutAll(f, w) PROVE Sound(g, ids) /\ From(g, base)
  BY <1>1, <1>3, TableWritten
<1>4. ASSUME inverse'.kind \notin {"SaveTransaction", "SaveTransfer", "Restore", "CreateWithOpening"}
      PROVE  Sound(i, ids) /\ From(i, base)
  BY <1>4, WritesNothing, EmptyTable
<1>5. ASSUME NEW part, IsPart(part, f), inverse' = Restore(part) PROVE Sound(i, ids) /\ From(i, base)
  <2>1. i = part
    BY <1>5 DEF Written, Restore
  <2> QED
    BY <1>1, <1>5, <2>1, PartOf
<1>6. ASSUME IsMarked(g, f) PROVE Sound(g, ids) /\ From(g, base)
  BY <1>1, <1>6, MarkedTable
<1>7. ASSUME UNCHANGED transactions PROVE Sound(g, ids) /\ From(g, base)
  BY <1>1, <1>2, <1>7
<1>8. CASE ApplyUpdateAccount(c)
  <2>1. inverse'.kind = "UpdateAccount" /\ UNCHANGED transactions
    BY <1>8 DEF ApplyUpdateAccount, UpdateAccount
  <2> QED
    BY <1>1, <1>4, <1>7, <2>1
<1>9. CASE ApplyCreateWithOpening(c)
  <2>1. inverse'.kind = "CloseAccount" /\ c.kind = "CreateWithOpening"
    BY <1>9 DEF ApplyCreateWithOpening, CloseAccount
  <2>2. CASE c.opening = 0
    <3>1. UNCHANGED transactions
      BY <1>9, <2>2 DEF ApplyCreateWithOpening
    <3> QED
      BY <1>1, <1>4, <1>7, <2>1, <3>1
  <2>3. CASE c.opening # 0
    <3>1. PICK row : row = [account |-> c.account, amount |-> c.opening,
                            clearance |-> "Cleared", transfer |-> NoTransfer]
      OBVIOUS
    <3>2. g = Put(f, c.id, row)
      BY <1>1, <1>9, <2>3, <3>1 DEF ApplyCreateWithOpening
    <3>3. w = [t \in {c.id} |-> row]
      BY <2>1, <2>3, <3>1 DEF Written
    <3>4. g = PutAll(f, w)
      BY <3>2, <3>3, RowWritten
    <3> QED
      BY <1>1, <1>3, <1>4, <2>1, <3>4
  <2> QED
    BY <2>2, <2>3
<1>10. CASE ApplyCloseAccount(c)
  <2>1. inverse'.kind = "UpdateAccount" /\ UNCHANGED transactions
    BY <1>10 DEF ApplyCloseAccount, UpdateAccount
  <2> QED
    BY <1>1, <1>4, <1>7, <2>1
<1>11. CASE ApplySaveTransaction(c)
  <2>1. c.kind = "SaveTransaction" /\ g = Put(f, c.id, c.row)
    BY <1>1, <1>11 DEF ApplySaveTransaction
  <2>2. w = [t \in {c.id} |-> c.row]
    BY <2>1 DEF Written
  <2>3. g = PutAll(f, w)
    BY <2>1, <2>2, RowWritten
  <2>4. CASE c.id \notin DOMAIN f
    <3>1. inverse'.kind = "None"
      BY <1>1, <1>11, <2>4 DEF ApplySaveTransaction, NoInverse
    <3> QED
      BY <1>1, <1>3, <1>4, <2>3, <3>1
  <2>5. CASE c.id \in DOMAIN f
    <3>1. PICK row : row = f[c.id]
      OBVIOUS
    <3>2. inverse' = SaveTransaction(c.id, row)
      BY <1>1, <1>11, <2>5, <3>1 DEF ApplySaveTransaction
    <3>3. i = [t \in {c.id} |-> row]
      BY <3>2 DEF Written, SaveTransaction
    <3>4. c.row.transfer = NoTransfer
      BY <2>2, SingleIsPlain DEF Sound
    <3>5. f[c.id].transfer = NoTransfer
      BY <1>1, <2>2, <2>5, <3>4 DEF Agree
    <3>6. IsPart(i, f)
      BY <2>5, <3>1, <3>3, <3>5 DEF IsPart
    <3>7. Sound(i, ids) /\ From(i, base)
      BY <1>1, <3>6, PartOf
    <3> QED
      BY <1>1, <1>3, <2>3, <3>7
  <2> QED
    BY <2>4, <2>5
<1>12. CASE ApplySaveTransfer(c)
  <2>1. inverse'.kind = "None" /\ c.kind = "SaveTransfer" /\ g = PutAll(f, c.legs)
    BY <1>1, <1>12 DEF ApplySaveTransfer, NoInverse
  <2>2. w = c.legs
    BY <2>1 DEF Written
  <2> QED
    BY <1>1, <1>3, <1>4, <2>1, <2>2
<1>13. CASE ApplySetAssignment(c)
  <2>1. inverse'.kind \in {"SetAssignment", "RemoveAssignment"} /\ UNCHANGED transactions
    BY <1>13 DEF ApplySetAssignment, SetAssignment, RemoveAssignment
  <2> QED
    BY <1>1, <1>4, <1>7, <2>1
<1>14. CASE ApplyRemoveAssignment(c)
  <2>1. inverse'.kind \in {"SetAssignment", "None"} /\ UNCHANGED transactions
    BY <1>14 DEF ApplyRemoveAssignment, SetAssignment, NoInverse
  <2> QED
    BY <1>1, <1>4, <1>7, <2>1
<1>15. CASE ApplyCompleteSnapshot(c)
  <2>1. inverse'.kind = "None"
    BY <1>15 DEF ApplyCompleteSnapshot, NoInverse
  <2>2. g = [t \in DOMAIN f |-> IF t \in c.ids THEN [f[t] EXCEPT !.clearance = "Reconciled"] ELSE f[t]]
    BY <1>1, <1>15 DEF ApplyCompleteSnapshot
  <2>3. IsMarked(g, f)
    BY <1>1, <2>2 DEF IsMarked, Sound, IsRows
  <2> QED
    BY <1>1, <1>4, <1>6, <2>1, <2>3
<1>16. CASE ApplySetClearance(c)
  <2>1. PICK changed : changed = Affected(c.ids)
    OBVIOUS
  <2>2. c.ids \subseteq DOMAIN transactions /\ inverse' = Restore(Restrict(f, changed))
    BY <1>1, <1>16, <2>1 DEF ApplySetClearance, BatchAllowed, BatchInverse
  <2>3. IsPart(Restrict(f, changed), f)
    BY <1>1, <2>1, <2>2, AffectedWhole DEF IsPart, Restrict
  <2>4. g = [t \in DOMAIN f |-> IF t \in changed THEN [f[t] EXCEPT !.clearance = c.clearance] ELSE f[t]]
    BY <1>1, <1>16, <2>1 DEF ApplySetClearance
  <2>5. IsMarked(g, f)
    BY <1>1, <2>4 DEF IsMarked, Sound, IsRows
  <2> QED
    BY <1>1, <1>5, <1>6, <2>2, <2>3, <2>5
<1>17. CASE ApplyDelete(c)
  <2>1. PICK changed : changed = Affected(c.ids)
    OBVIOUS
  <2>2. c.ids \subseteq DOMAIN transactions /\ inverse' = Restore(Restrict(f, changed))
    BY <1>1, <1>17, <2>1 DEF ApplyDelete, BatchAllowed, BatchInverse
  <2>3. IsPart(Restrict(f, changed), f)
    BY <1>1, <2>1, <2>2, AffectedWhole DEF IsPart, Restrict
  <2>4. g = Restrict(f, DOMAIN f \ changed)
    BY <1>1, <1>17, <2>1 DEF ApplyDelete
  <2>5. IsPart(g, f)
    BY <1>1, <2>1, <2>2, <2>4, AffectedWhole DEF IsPart, Restrict
  <2>6. Sound(g, ids) /\ From(g, base)
    BY <1>1, <2>5, PartOf
  <2> QED
    BY <1>1, <1>5, <2>2, <2>3, <2>6
<1>18. CASE ApplyRestore(c)
  <2>1. c.kind = "Restore" /\ g = PutAll(f, c.prior)
    BY <1>1, <1>18 DEF ApplyRestore
  <2>2. w = c.prior
    BY <2>1 DEF Written
  <2>3. PICK part : part = Restrict(f, DOMAIN w \intersect DOMAIN f)
    OBVIOUS
  <2>4. inverse' = Restore(part)
    BY <1>1, <1>18, <2>2, <2>3 DEF ApplyRestore
  <2>5. \A t \in DOMAIN w, u \in DOMAIN f :
          /\ t = u => w[t].transfer = f[u].transfer
          /\ w[t].transfer # NoTransfer /\ w[t].transfer = f[u].transfer => u \in DOMAIN w
    BY <1>1 DEF Agree
  <2>6. DOMAIN part = DOMAIN w \intersect DOMAIN f /\ \A t \in DOMAIN part : part[t] = f[t]
    BY <2>3 DEF Restrict
  <2>7. IsPart(part, f)
    BY <2>5, <2>6 DEF IsPart
  <2> QED
    BY <1>1, <1>3, <1>5, <2>1, <2>2, <2>4, <2>7
<1> QED
  BY <1>8, <1>9, <1>10, <1>11, <1>12, <1>13, <1>14, <1>15, <1>16, <1>17, <1>18 DEF Execute

\* The ledger, what the stacks held and what they may hold next stay consistent.
LEMMA ExecutionConsistent ==
  ASSUME NEW commands, NEW ids, NEW c,
         Consistent({transactions} \union {Written(d) : d \in commands \union {c}}, ids), Execute(c)
  PROVE  Consistent({transactions'} \union {Written(d) : d \in commands \union {c, inverse'}}, ids)
<1>1. PICK tables, w, i, g :
        /\ tables = {transactions} \union {Written(d) : d \in commands \union {c}}
        /\ w = Written(c) /\ i = Written(inverse') /\ g = transactions'
  OBVIOUS
<1>2. transactions \in tables /\ w \in tables
  BY <1>1
<1>3. Sound(transactions, ids) /\ Sound(w, ids) /\ Agree(transactions, w) /\ Agree(w, transactions)
  BY <1>1, <1>2 DEF Consistent
<1>4. Sound(g, ids) /\ From(g, {transactions, w}) /\ Sound(i, ids) /\ From(i, {transactions, w})
  BY <1>1, <1>3, LegsKept
<1>5. Consistent(tables \union {g}, ids)
  BY <1>1, <1>2, <1>4, OneMore
<1>6. Consistent((tables \union {g}) \union {i}, ids)
  BY <1>2, <1>4, <1>5, OneMore
<1>7. {transactions'} \union {Written(d) : d \in commands \union {c, inverse'}} \subseteq (tables \union {g}) \union {i}
  BY <1>1
<1> QED
  BY <1>6, <1>7, SomeOf
-----------------------------------------------------------------------------
(* How the stacks change                                                   *)

\* A stack is a sequence of its entries.
LEMMA OfItsEntries ==
  ASSUME NEW S, NEW s \in Seq(S)
  PROVE  s \in Seq(EntriesOf(s))
<1>1. s \in Seq(Range(s))
  BY SeqOfRange
<1>2. Range(s) = EntriesOf(s)
  BY DEF Range, EntriesOf
<1> QED
  BY <1>1, <1>2

\* An entry is pushed.
Pushed(p, s, e) ==
  /\ IsStack(p) /\ Len(p) = Len(s) + 1 /\ p # <<>>
  /\ \A i \in 1..Len(s) : p[i] = s[i]
  /\ p[Len(s) + 1] = e /\ EntriesOf(p) = EntriesOf(s) \union {e}
LEMMA PushIs ==
  ASSUME NEW s, IsStack(s), NEW e, IsEntry(e), NEW p, p = Append(s, e)
  PROVE  Pushed(p, s, e)
<1>1. PICK S : S = EntriesOf(s) \union {e}
  OBVIOUS
<1>2. EntriesOf(s) \subseteq S /\ e \in S
  BY <1>1
<1>3. s \in Seq(S)
  BY <1>2 DEF IsStack
<1>4. p \in Seq(S) /\ Len(p) = Len(s) + 1 /\ p[Len(s) + 1] = e /\ \A i \in 1..Len(s) : p[i] = s[i]
  BY <1>2, <1>3, AppendProperties
<1>5. DOMAIN s = 1..Len(s) /\ DOMAIN p = 1..(Len(s) + 1) /\ Len(s) \in Nat
  BY <1>3, <1>4
<1>6. EntriesOf(p) = S
  <2>1. ASSUME NEW i \in DOMAIN p PROVE p[i] \in S
    BY <1>4, <1>5, <2>1, ElementOfSeq
  <2>2. ASSUME NEW x \in S PROVE \E i \in DOMAIN p : p[i] = x
    <3>1. CASE x = e
      BY <1>4, <1>5, <3>1
    <3>2. CASE x \in EntriesOf(s)
      BY <1>4, <1>5, <3>2 DEF EntriesOf
    <3> QED
      BY <1>1, <3>1, <3>2
  <2> QED
    BY <2>1, <2>2 DEF EntriesOf
<1> QED
  BY <1>1, <1>4, <1>5, <1>6 DEF Pushed, IsStack

\* The top entry is popped.
LEMMA PopIs ==
  ASSUME NEW s, IsStack(s), s # <<>>, NEW p, p = Pop(s), NEW e, e = Top(s)
  PROVE  IsEntry(e) /\ IsStack(p) /\ Pushed(s, p, e)
<1>1. PICK S : S = EntriesOf(s)
  OBVIOUS
<1>2. s \in Seq(S) /\ Len(s) \in Nat /\ Len(s) > 0 /\ DOMAIN s = 1..Len(s)
  BY <1>1 DEF IsStack
<1>3. p \in Seq(S) /\ Len(p) = Len(s) - 1 /\ \A i \in 1..Len(p) : p[i] = s[i]
  BY <1>2 DEF Pop
<1>4. DOMAIN p = 1..Len(p)
  BY <1>3
<1>5. e \in S /\ e = s[Len(p) + 1]
  BY <1>1, <1>2, <1>3 DEF Top, EntriesOf
<1>6. EntriesOf(p) \subseteq S
  BY <1>1, <1>2, <1>3, <1>4 DEF EntriesOf
<1>7. S = EntriesOf(p) \union {e}
  <2>1. ASSUME NEW x \in S PROVE x \in EntriesOf(p) \union {e}
    <3>1. PICK i \in 1..Len(s) : x = s[i]
      BY <1>1, <1>2, <2>1 DEF EntriesOf
    <3>2. CASE i \in 1..Len(p)
      BY <1>3, <1>4, <3>1, <3>2 DEF EntriesOf
    <3>3. CASE i = Len(p) + 1
      BY <1>5, <3>1, <3>3
    <3>4. Len(s) = Len(p) + 1 /\ Len(p) \in Nat
      BY <1>2, <1>3
    <3>5. i \in 1..Len(p) \/ i = Len(p) + 1
      BY ONLY <3>1, <3>4, i \in 1..Len(s)
    <3> QED
      BY <3>2, <3>3, <3>5
  <2> QED
    BY <1>5, <1>6, <2>1
<1>8. p \in Seq(EntriesOf(p))
  BY <1>3, OfItsEntries
<1>9. IsStack(p) /\ IsEntry(e)
  BY <1>1, <1>5, <1>6, <1>8 DEF IsStack
<1> QED
  BY <1>1, <1>2, <1>3, <1>5, <1>7, <1>9 DEF Pushed

\* The oldest entries are dropped.
Trimmed(n, s) ==
  /\ IsStack(n) /\ EntriesOf(n) \subseteq EntriesOf(s)
  /\ \E d \in Nat : Len(s) = Len(n) + d /\ \A i \in 1..Len(n) : n[i] = s[i + d]
LEMMA NewestIs ==
  ASSUME NEW s, IsStack(s), NEW n, n = Newest(s)
  PROVE  Trimmed(n, s)
<1>1. PICK S : S = EntriesOf(s)
  OBVIOUS
<1>2. s \in Seq(S) /\ Len(s) \in Nat /\ DOMAIN s = 1..Len(s) /\ HistoryCapacity \in Nat
  BY <1>1, HistoryAssumption DEF IsStack
<1>3. CASE Len(s) <= HistoryCapacity
  <2>1. n = s
    BY <1>2, <1>3 DEF Newest
  <2>2. Len(s) = Len(n) + 0 /\ \A i \in 1..Len(n) : n[i] = s[i + 0]
    BY <1>2, <2>1
  <2> QED
    BY <2>1, <2>2 DEF Trimmed
<1>4. CASE Len(s) > HistoryCapacity
  <2> Len(s) - HistoryCapacity \in Nat
    BY <1>2, <1>4
  <2>1. PICK d \in Nat : d = Len(s) - HistoryCapacity
    OBVIOUS
  <2>2. n = SubSeq(s, d + 1, Len(s))
    BY <1>4, <2>1 DEF Newest
  <2>3. n \in Seq(S) /\ Len(n) = HistoryCapacity /\ \A i \in 1..Len(n) : n[i] = s[i + d]
    <3>1. d + 1 \in Int /\ Len(s) \in Int /\ d + 1 <= Len(s) + 1 /\ Len(s) - (d + 1) + 1 = HistoryCapacity
      BY <1>2, <1>4, <2>1
    <3>2. \A i \in d + 1 .. Len(s) : s[i] \in S
      BY <1>2, ElementOfSeq
    <3>3. /\ n \in Seq(S)
          /\ Len(n) = IF d + 1 <= Len(s) THEN Len(s) - (d + 1) + 1 ELSE 0
          /\ \A i \in 1 .. Len(s) - (d + 1) + 1 : n[i] = s[d + 1 + i - 1]
      BY <2>2, <3>1, <3>2, SubSeqProperties
    <3>4. Len(n) = HistoryCapacity
      <4>1. CASE HistoryCapacity = 0
        BY <1>2, <2>1, <3>3, <4>1
      <4>2. CASE HistoryCapacity # 0
        BY <1>2, <2>1, <3>3, <4>2
      <4> QED
        BY <4>1, <4>2
    <3>5. ASSUME NEW i \in 1..Len(n) PROVE n[i] = s[i + d]
      <4>1. i \in 1 .. Len(s) - (d + 1) + 1 /\ d + 1 + i - 1 = i + d
        BY <1>2, <3>1, <3>4
      <4> QED
        BY <3>3, <4>1
    <3> QED
      BY <3>3, <3>4, <3>5
  <2>4. DOMAIN n = 1..Len(n)
    BY <2>3
  <2>5. \A i \in DOMAIN n : n[i] \in S
    BY <2>3, <2>4, ElementOfSeq
  <2>6. EntriesOf(n) \subseteq S
    BY <2>5 DEF EntriesOf
  <2>7. n \in Seq(EntriesOf(n))
    BY <2>3, OfItsEntries
  <2>8. IsStack(n)
    BY <1>1, <2>6, <2>7 DEF IsStack
  <2>9. Len(s) = Len(n) + d
    BY <1>2, <2>1, <2>3
  <2> QED
    BY <1>1, <2>3, <2>6, <2>8, <2>9 DEF Trimmed
<1> QED
  BY <1>2, <1>3, <1>4

\* The command, or the inverse, of the entry just pushed is replaced.
Rebinds(p, s, e, c) ==
  /\ [p EXCEPT ![Len(p)].command = c] = Append(s, Entry(e.label, c, e.inverse))
  /\ [p EXCEPT ![Len(p)].inverse = c] = Append(s, Entry(e.label, e.command, c))
LEMMA Rebound ==
  ASSUME NEW s, IsStack(s), NEW e, IsEntry(e), NEW c, NEW p, p = Append(s, e)
  PROVE  Rebinds(p, s, e, c)
<1>1. PICK S : S = EntriesOf(s) \union {e, Entry(e.label, c, e.inverse), Entry(e.label, e.command, c)}
  OBVIOUS
<1>2. s \in Seq(S) /\ e \in S
  <2>1. EntriesOf(s) \subseteq S /\ e \in S
    BY <1>1
  <2> QED
    BY <2>1 DEF IsStack
<1>3. /\ p \in Seq(S) /\ Len(s) \in Nat /\ Len(p) = Len(s) + 1 /\ DOMAIN p = 1..(Len(s) + 1)
      /\ p[Len(s) + 1] = e /\ \A i \in 1..Len(s) : p[i] = s[i]
  BY <1>1, <1>2, AppendProperties
<1>4. ASSUME NEW x \in S PROVE [p EXCEPT ![Len(p)] = x] = Append(s, x)
  <2>1. PICK q : q = Append(s, x)
    OBVIOUS
  <2>2. q \in Seq(S) /\ Len(q) = Len(s) + 1 /\ q[Len(s) + 1] = x /\ \A i \in 1..Len(s) : q[i] = s[i]
    BY <1>2, <1>4, <2>1, AppendProperties
  <2>3. PICK r : r = [p EXCEPT ![Len(p)] = x]
    OBVIOUS
  <2>4. r \in Seq(S) /\ Len(r) = Len(p)
    BY <1>3, <1>4, <2>3, ExceptSeq
  <2>5. ASSUME NEW i \in 1..Len(r) PROVE r[i] = q[i]
    <3>1. i \in DOMAIN p /\ (i \in 1..Len(s) \/ i = Len(s) + 1)
      BY <1>3, <2>4
    <3>2. r[i] = IF i = Len(p) THEN x ELSE p[i]
      BY <2>3, <3>1
    <3>3. CASE i = Len(s) + 1
      BY <1>3, <2>2, <3>2, <3>3
    <3>4. CASE i \in 1..Len(s)
      <4>1. i # Len(p)
        BY <1>3, <3>4
      <4> QED
        BY <1>3, <2>2, <3>2, <3>4, <4>1
    <3> QED
      BY <3>1, <3>3, <3>4
  <2>6. r = q
    BY <1>3, <2>2, <2>4, <2>5, SeqEqual
  <2> QED
    BY <2>1, <2>3, <2>6
<1>5. e = [label |-> e.label, command |-> e.command, inverse |-> e.inverse]
  BY DEF IsEntry, Entry
<1>6. [e EXCEPT !.command = c] = Entry(e.label, c, e.inverse)
  BY <1>5 DEF Entry
<1>7. [e EXCEPT !.inverse = c] = Entry(e.label, e.command, c)
  BY <1>5 DEF Entry
<1>8. [p EXCEPT ![Len(p)].command = c] = [p EXCEPT ![Len(p)] = Entry(e.label, c, e.inverse)]
  BY <1>3, <1>6
<1>9. [p EXCEPT ![Len(p)].inverse = c] = [p EXCEPT ![Len(p)] = Entry(e.label, e.command, c)]
  BY <1>3, <1>7
<1> QED
  BY <1>1, <1>4, <1>8, <1>9 DEF Rebinds

\* A new entry is pushed, the oldest one drops out, and nothing is left to redo.
Recorded(h, g, e) ==
  g.redo = <<>> /\ \E p : Pushed(p, h.undo, e) /\ Trimmed(g.undo, p)
LEMMA CommitRecords ==
  ASSUME IsHistory(history), NEW c, Commit(c), NEW e, e = Entry(committed + 1, c, inverse')
  PROVE  /\ IsHistory(history')
         /\ \/ history' = history /\ (inverse' = NoInverse \/ HistoryCapacity = 0)
            \/ inverse' # NoInverse /\ HistoryCapacity # 0 /\ Recorded(history, history', e)
<1>1. CASE inverse' = NoInverse \/ HistoryCapacity = 0
  <2>1. history' = history
    BY <1>1 DEF Commit, RecordSuccess
  <2> QED
    BY <1>1, <2>1
<1>2. CASE inverse' # NoInverse /\ HistoryCapacity # 0
  <2>1. PICK u, p, n : u = history.undo /\ p = Append(u, e) /\ n = Newest(p)
    OBVIOUS
  <2>2. history' = [undo |-> n, redo |-> <<>>]
    BY <1>2, <2>1 DEF Commit, RecordSuccess
  <2>3. IsEntry(e)
    BY DEF IsEntry, Entry
  <2>4. IsStack(u)
    BY <2>1 DEF IsHistory
  <2>5. Pushed(p, u, e)
    BY <2>1, <2>3, <2>4, PushIs
  <2>6. IsStack(p)
    BY <2>5 DEF Pushed
  <2>7. Trimmed(n, p)
    BY <2>1, <2>6, NewestIs
  <2>8. IsStack(n)
    BY <2>7 DEF Trimmed
  <2>9. IsStack(<<>>)
    BY DEF IsStack, EntriesOf
  <2>10. Recorded(history, history', e)
    BY <2>1, <2>2, <2>5, <2>7 DEF Recorded
  <2> QED
    BY <1>2, <2>2, <2>8, <2>9, <2>10 DEF IsHistory
<1> QED
  BY <1>1, <1>2

\* An undo moves the top entry, and what would undo it is what can be redone.
LEMMA UndoMoves ==
  ASSUME IsHistory(history), Undo, NEW e, e = Top(history.undo),
         NEW k, k = IF inverse' = NoInverse THEN e.command ELSE inverse'
  PROVE  /\ IsHistory(history') /\ IsEntry(e)
         /\ Pushed(history.undo, history'.undo, e)
         /\ Pushed(history'.redo, history.redo, Entry(e.label, k, e.inverse))
<1>1. PICK u, r, p, q : u = history.undo /\ r = history.redo /\ p = Pop(u) /\ q = Append(r, e)
  OBVIOUS
<1>2. IsStack(u) /\ IsStack(r) /\ u # <<>>
  BY <1>1 DEF IsHistory, Undo, CanUndo
<1>3. IsEntry(e) /\ IsStack(p) /\ Pushed(u, p, e)
  BY <1>1, <1>2, PopIs
<1>4. Pushed(q, r, e)
  BY <1>1, <1>2, <1>3, PushIs
<1>5. PICK h : h = [undo |-> p, redo |-> q]
  OBVIOUS
<1>6. Undone(history) = h /\ h.undo = p /\ h.redo = q /\ CanRedo(h)
  BY <1>1, <1>4, <1>5 DEF Undo, Undone, Pushed, CanRedo
<1>7. PICK d : d = Entry(e.label, k, e.inverse)
  OBVIOUS
<1>8. IsEntry(d)
  BY <1>7 DEF IsEntry, Entry
<1>9. PICK n : n = Append(r, d)
  OBVIOUS
<1>10. Pushed(n, r, d)
  BY <1>2, <1>8, <1>9, PushIs
<1>11. history' = [undo |-> p, redo |-> n]
  <2>1. CASE inverse' = NoInverse
    <3>1. d = e
      BY <1>3, <1>7, <2>1 DEF IsEntry
    <3> QED
      BY <1>1, <1>5, <1>6, <1>9, <2>1, <3>1 DEF Undo
  <2>2. CASE inverse' # NoInverse
    <3>1. history' = [h EXCEPT !.redo[Len(h.redo)].command = inverse']
      BY <1>6, <2>2 DEF Undo, ReplaceNextRedo
    <3>2. [q EXCEPT ![Len(q)].command = k] = n
      <4>1. IsStack(r) /\ IsEntry(e) /\ q = Append(r, e)
        BY <1>1, <1>2, <1>3
      <4>2. Rebinds(q, r, e, k)
        BY ONLY <4>1, Rebound
      <4>3. [q EXCEPT ![Len(q)].command = k] = Append(r, Entry(e.label, k, e.inverse))
        BY <4>2 DEF Rebinds
      <4> QED
        BY <1>7, <1>9, <4>3
    <3>3. [q EXCEPT ![Len(q)].command = inverse'] = n
      BY <2>2, <3>2
    <3>4. [h EXCEPT !.redo[Len(h.redo)].command = inverse'] =
            [undo |-> p, redo |-> [q EXCEPT ![Len(q)].command = inverse']]
      BY <1>5, <1>6
    <3> QED
      BY <3>1, <3>3, <3>4
  <2> QED
    BY <2>1, <2>2
<1>12. IsHistory(history')
  BY <1>3, <1>10, <1>11 DEF IsHistory, Pushed
<1> QED
  BY <1>1, <1>3, <1>7, <1>10, <1>11, <1>12

\* A redo moves the top entry back, and what would take it back is what can be undone.
LEMMA RedoMoves ==
  ASSUME IsHistory(history), Redo, NEW e, e = Top(history.redo),
         NEW k, k = IF inverse' = NoInverse THEN e.inverse ELSE inverse'
  PROVE  /\ IsHistory(history') /\ IsEntry(e)
         /\ Pushed(history.redo, history'.redo, e)
         /\ Pushed(history'.undo, history.undo, Entry(e.label, e.command, k))
<1>1. PICK u, r, p, q : u = history.undo /\ r = history.redo /\ p = Pop(r) /\ q = Append(u, e)
  OBVIOUS
<1>2. IsStack(u) /\ IsStack(r) /\ r # <<>>
  BY <1>1 DEF IsHistory, Redo, CanRedo
<1>3. IsEntry(e) /\ IsStack(p) /\ Pushed(r, p, e)
  BY <1>1, <1>2, PopIs
<1>4. Pushed(q, u, e)
  BY <1>1, <1>2, <1>3, PushIs
<1>5. PICK h : h = [undo |-> q, redo |-> p]
  OBVIOUS
<1>6. Redone(history) = h /\ h.undo = q /\ h.redo = p /\ CanUndo(h)
  BY <1>1, <1>4, <1>5 DEF Redo, Redone, Pushed, CanUndo
<1>7. PICK d : d = Entry(e.label, e.command, k)
  OBVIOUS
<1>8. IsEntry(d)
  BY <1>7 DEF IsEntry, Entry
<1>9. PICK n : n = Append(u, d)
  OBVIOUS
<1>10. Pushed(n, u, d)
  BY <1>2, <1>8, <1>9, PushIs
<1>11. history' = [undo |-> n, redo |-> p]
  <2>1. CASE inverse' = NoInverse
    <3>1. d = e
      BY <1>3, <1>7, <2>1 DEF IsEntry
    <3> QED
      BY <1>1, <1>5, <1>6, <1>9, <2>1, <3>1 DEF Redo
  <2>2. CASE inverse' # NoInverse
    <3>1. history' = [h EXCEPT !.undo[Len(h.undo)].inverse = inverse']
      BY <1>6, <2>2 DEF Redo, ReplaceNextUndo
    <3>2. [q EXCEPT ![Len(q)].inverse = k] = n
      <4>1. IsStack(u) /\ IsEntry(e) /\ q = Append(u, e)
        BY <1>1, <1>2, <1>3
      <4>2. Rebinds(q, u, e, k)
        BY ONLY <4>1, Rebound
      <4>3. [q EXCEPT ![Len(q)].inverse = k] = Append(u, Entry(e.label, e.command, k))
        BY <4>2 DEF Rebinds
      <4> QED
        BY <1>7, <1>9, <4>3
    <3>3. [q EXCEPT ![Len(q)].inverse = inverse'] = n
      BY <2>2, <3>2
    <3>4. [h EXCEPT !.undo[Len(h.undo)].inverse = inverse'] =
            [undo |-> [q EXCEPT ![Len(q)].inverse = inverse'], redo |-> p]
      BY <1>5, <1>6
    <3> QED
      BY <3>1, <3>3, <3>4
  <2> QED
    BY <2>1, <2>2
<1>12. IsHistory(history')
  BY <1>3, <1>10, <1>11 DEF IsHistory, Pushed
<1> QED
  BY <1>1, <1>3, <1>7, <1>10, <1>11, <1>12

\* The stacks hold nothing but what they held, the command and what would take it back.
LEMMA StacksHold ==
  ASSUME IsHistory(history), NEW c, Commit(c) \/ (Undo /\ c = NextUndo(history)) \/ (Redo /\ c = NextRedo(history))
  PROVE  IsHistory(history') /\ OnStacks(history') \subseteq OnStacks(history) \union {c, inverse'}
<1>1. ASSUME Commit(c) PROVE IsHistory(history') /\ OnStacks(history') \subseteq OnStacks(history) \union {c, inverse'}
  <2>1. PICK e : e = Entry(committed + 1, c, inverse')
    OBVIOUS
  <2>2. e.command = c /\ e.inverse = inverse'
    BY <2>1 DEF Entry
  <2>3. ASSUME Recorded(history, history', e)
        PROVE  EntriesOf(history'.undo) \union EntriesOf(history'.redo) \subseteq EntriesOf(history.undo) \union {e}
    <3>1. PICK p : Pushed(p, history.undo, e) /\ Trimmed(history'.undo, p)
      BY <2>3 DEF Recorded
    <3>2. EntriesOf(history'.undo) \subseteq EntriesOf(history.undo) \union {e}
      BY <3>1 DEF Pushed, Trimmed
    <3>3. EntriesOf(history'.redo) = {}
      BY <2>3 DEF Recorded, EntriesOf
    <3> QED
      BY <3>2, <3>3
  <2>4. \/ history' = history
        \/ EntriesOf(history'.undo) \union EntriesOf(history'.redo) \subseteq EntriesOf(history.undo) \union {e}
    BY <1>1, <2>1, <2>3, CommitRecords
  <2> QED
    BY <1>1, <2>1, <2>2, <2>4, CommitRecords DEF OnStacks
<1>2. ASSUME Undo PROVE IsHistory(history') /\ OnStacks(history') \subseteq OnStacks(history) \union {inverse'}
  <2>1. PICK e, k : e = Top(history.undo) /\ k = IF inverse' = NoInverse THEN e.command ELSE inverse'
    OBVIOUS
  <2>2. PICK d : d = Entry(e.label, k, e.inverse)
    OBVIOUS
  <2>3. /\ IsHistory(history')
        /\ Pushed(history.undo, history'.undo, e) /\ Pushed(history'.redo, history.redo, d)
    BY <1>2, <2>1, <2>2, UndoMoves
  <2>4. d.command \in {e.command, inverse'} /\ d.inverse = e.inverse
    BY <2>1, <2>2 DEF Entry
  <2>5. /\ EntriesOf(history.undo) = EntriesOf(history'.undo) \union {e}
        /\ EntriesOf(history'.redo) = EntriesOf(history.redo) \union {d}
    BY <2>3 DEF Pushed
  <2> QED
    BY <2>3, <2>4, <2>5 DEF OnStacks
<1>3. ASSUME Redo PROVE IsHistory(history') /\ OnStacks(history') \subseteq OnStacks(history) \union {inverse'}
  <2>1. PICK e, k : e = Top(history.redo) /\ k = IF inverse' = NoInverse THEN e.inverse ELSE inverse'
    OBVIOUS
  <2>2. PICK d : d = Entry(e.label, e.command, k)
    OBVIOUS
  <2>3. /\ IsHistory(history')
        /\ Pushed(history.redo, history'.redo, e) /\ Pushed(history'.undo, history.undo, d)
    BY <1>3, <2>1, <2>2, RedoMoves
  <2>4. d.inverse \in {e.inverse, inverse'} /\ d.command = e.command
    BY <2>1, <2>2 DEF Entry
  <2>5. /\ EntriesOf(history.redo) = EntriesOf(history'.redo) \union {e}
        /\ EntriesOf(history'.undo) = EntriesOf(history.undo) \union {d}
    BY <2>3 DEF Pushed
  <2> QED
    BY <2>3, <2>4, <2>5 DEF OnStacks
<1> QED
  BY <1>1, <1>2, <1>3
-----------------------------------------------------------------------------
(* What the screens send is of the transfers that the ledger has           *)

\* The tables that the ledger and the stacks hold.
Tables == {transactions} \union {Written(c) : c \in OnStacks(history)}

\* A table of new transactions, or of the same ones.
LEMMA OneNew ==
  ASSUME NEW tables, NEW ids, Consistent(tables, ids), NEW f, Sound(f, ids), \A k \in tables : Agree(f, k)
  PROVE  Consistent(tables \union {f}, ids)
<1>1. \A k \in tables : Agree(k, f)
  BY AgreeBoth
<1>2. Agree(f, f)
  BY DEF Agree
<1> QED
  BY <1>1, <1>2 DEF Consistent

\* A row that is no leg, of a transaction that is none either.
IsPlain(row) ==
  /\ row = [account |-> row.account, amount |-> row.amount, clearance |-> row.clearance,
            transfer |-> NoTransfer]
  /\ row.amount \in Int
NoLeg(id, tables) == \A k \in tables : id \in DOMAIN k => k[id].transfer = NoTransfer
LEMMA PlainWritten ==
  ASSUME NEW tables, NEW ids, Consistent(tables, ids), NEW id \in ids, NEW row, IsPlain(row),
         NoLeg(id, tables), NEW f, f = [t \in {id} |-> row]
  PROVE  Consistent(tables \union {f}, ids)
<1>1. DOMAIN f = {id} /\ f[id] = row /\ row.transfer = NoTransfer
  BY DEF IsPlain
<1>2. IsRows(f)
  BY <1>1 DEF IsPlain, IsRows
<1>3. Paired(f) /\ Known(f, ids)
  BY <1>1 DEF Paired, Known
<1>4. \A k \in tables : Agree(f, k)
  BY <1>1 DEF NoLeg, Agree
<1> QED
  BY <1>2, <1>3, <1>4, OneNew DEF Sound

\* Both legs of a transfer that no table has other legs of.
TheLegs(s, d, x, tables) ==
  \A k \in tables : \A u \in DOMAIN k :
    /\ u \in {s, d} => k[u].transfer = x
    /\ x # NoTransfer /\ k[u].transfer = x => u \in {s, d} /\ s \in DOMAIN k /\ d \in DOMAIN k
LEMMA LegsWritten ==
  ASSUME NEW tables, NEW ids, Consistent(tables, ids), NEW s \in ids, NEW d \in ids, NEW x \in ids,
         s # d, NEW from, NEW to, from # to, NEW v \in Int, TheLegs(s, d, x, tables),
         NEW f, f = TransferLegs(s, d, from, to, v, x)
  PROVE  Consistent(tables \union {f}, ids)
<1>1. /\ DOMAIN f = {s, d}
      /\ f[s] = [account |-> from, amount |-> -v, clearance |-> "Uncleared", transfer |-> x]
      /\ f[d] = [account |-> to, amount |-> v, clearance |-> "Uncleared", transfer |-> x]
  BY DEF TransferLegs
<1>2. IsRows(f) /\ Known(f, ids)
  BY <1>1 DEF IsRows, Known
<1>3. Mates(f, s, d) /\ Mates(f, d, s)
  BY <1>1 DEF Mates
<1>4. Paired(f)
  BY <1>1, <1>3 DEF Paired
<1>5. \A k \in tables : Agree(f, k)
  BY <1>1 DEF TheLegs, Agree
<1> QED
  BY <1>2, <1>4, <1>5, OneNew DEF Sound

\* A command that writes no transaction.
LEMMA NothingWritten ==
  ASSUME NEW tables, NEW ids, Consistent(tables, ids), NEW f, DOMAIN f = {}
  PROVE  Consistent(tables \union {f}, ids)
<1>1. Sound(f, ids) /\ From(f, {})
  BY EmptyTable
<1> QED
  BY <1>1, OneMore

\* A step that executes such a command keeps the transfers.
LEMMA CommandKeepsPairs ==
  ASSUME PairsInv, NEW c, NEW w, w = Written(c), Consistent(Tables \union {w}, issued'),
         Commit(c) \/ (Undo /\ c = NextUndo(history)) \/ (Redo /\ c = NextRedo(history))
  PROVE  PairsInv'
<1>1. PICK commands, ids : commands = OnStacks(history) /\ ids = issued'
  OBVIOUS
<1>2. Execute(c)
  BY DEF Commit, Undo, Redo
<1>3. {transactions} \union {Written(d) : d \in commands \union {c}} = Tables \union {w}
  BY <1>1 DEF Tables
<1>4. Consistent({transactions'} \union {Written(d) : d \in commands \union {c, inverse'}}, ids)
  BY <1>1, <1>2, <1>3, ExecutionConsistent
<1>5. IsHistory(history') /\ OnStacks(history') \subseteq commands \union {c, inverse'}
  BY <1>1, StacksHold DEF PairsInv
<1>6. PICK some : some = {transactions'} \union {Written(d) : d \in OnStacks(history')}
  OBVIOUS
<1>7. some \subseteq {transactions'} \union {Written(d) : d \in commands \union {c, inverse'}}
  BY <1>5, <1>6
<1>8. Consistent(some, ids)
  BY <1>4, <1>7, SomeOf
<1>9. Consistent({transactions'} \union {Written(d) : d \in OnStacks(history')}, issued')
  BY <1>1, <1>6, <1>8
<1> QED
  BY <1>5, <1>9 DEF PairsInv

\* With more identifiers given out, what the ledger and the stacks hold is still consistent.
LEMMA MoreIssued ==
  ASSUME PairsInv, NEW more, issued \subseteq more
  PROVE  Consistent(Tables, more)
<1>1. PICK tables, ids : tables = Tables /\ ids = issued
  OBVIOUS
<1>2. Consistent(tables, ids)
  BY <1>1 DEF PairsInv, Tables
<1>3. tables \subseteq tables
  OBVIOUS
<1> QED
  BY <1>1, <1>2, <1>3, SomeOf

\* An identifier that was never given out is of no transaction and of no transfer.
LEMMA NeverGiven ==
  ASSUME PairsInv, NEW id, id \notin issued
  PROVE  \A k \in Tables : /\ id \notin DOMAIN k
                           /\ id # NoTransfer => \A u \in DOMAIN k : k[u].transfer # id
<1>1. \A k \in Tables : Known(k, issued)
  BY DEF PairsInv, Tables, Consistent, Sound
<1> QED
  BY <1>1 DEF Known
\* A command that writes no transaction keeps the transfers.
LEMMA WithoutRowsKeepsPairs ==
  ASSUME PairsInv, NEW c, Commit(c), issued \subseteq issued',
         c.kind \notin {"SaveTransaction", "SaveTransfer", "Restore"},
         c.kind = "CreateWithOpening" => c.opening = 0
  PROVE  PairsInv'
<1>1. PICK w, ids : w = Written(c) /\ ids = issued'
  OBVIOUS
<1>2. DOMAIN w = {}
  BY <1>1, WritesNothing
<1>3. Consistent(Tables, ids)
  BY <1>1, MoreIssued
<1>4. Consistent(Tables \union {w}, ids)
  BY <1>2, <1>3, NothingWritten
<1>5. Consistent(Tables \union {w}, issued')
  BY <1>1, <1>4
<1> QED
  BY <1>1, <1>5, CommandKeepsPairs

\* So does a command that writes one row.
LEMMA PlainKeepsPairs ==
  ASSUME PairsInv, NEW c, Commit(c), issued \subseteq issued', NEW id \in issued', NEW row, IsPlain(row),
         Written(c) = [t \in {id} |-> row], NoLeg(id, Tables)
  PROVE  PairsInv'
<1>1. PICK w, ids : w = Written(c) /\ ids = issued'
  OBVIOUS
<1>2. id \in ids /\ w = [t \in {id} |-> row]
  BY <1>1
<1>3. Consistent(Tables, ids)
  BY <1>1, MoreIssued
<1>4. Consistent(Tables \union {w}, ids)
  BY <1>2, <1>3, PlainWritten
<1>5. Consistent(Tables \union {w}, issued')
  BY <1>1, <1>4
<1> QED
  BY <1>1, <1>5, CommandKeepsPairs

\* So does a command that writes the legs of a transfer.
LEMMA LegsKeepPairs ==
  ASSUME PairsInv, issued \subseteq issued', NEW s \in issued', NEW d \in issued', NEW x \in issued',
         s # d, NEW from, NEW to, from # to, NEW v \in Int, TheLegs(s, d, x, Tables),
         Commit(SaveTransfer(TransferLegs(s, d, from, to, v, x)))
  PROVE  PairsInv'
<1>1. PICK c, w, ids : /\ c = SaveTransfer(TransferLegs(s, d, from, to, v, x))
                       /\ w = TransferLegs(s, d, from, to, v, x) /\ ids = issued'
  OBVIOUS
<1>2. w = Written(c)
  BY <1>1 DEF Written, SaveTransfer
<1>3. Consistent(Tables, ids)
  BY <1>1, MoreIssued
<1>4. s \in ids /\ d \in ids /\ x \in ids
  BY <1>1
<1>5. Consistent(Tables \union {w}, ids)
  BY <1>1, <1>3, <1>4, LegsWritten
<1>6. Consistent(Tables \union {w}, issued')
  BY <1>1, <1>5
<1>7. Commit(c)
  BY <1>1
<1> QED
  BY <1>2, <1>6, <1>7, CommandKeepsPairs

\* A table of the present has the same transfers as the ledger.
LEMMA AsInLedger ==
  ASSUME PairsInv
  PROVE  /\ Sound(transactions, issued)
         /\ \A k \in Tables : Agree(transactions, k)
BY DEF PairsInv, Tables, Consistent

\* Each change of the accounts keeps the transfers.
LEMMA AccountsKeepPairs ==
  ASSUME PairsInv, EditAccounts
  PROVE  PairsInv'
<1>1. ASSUME NEW a, NEW n, EditAccount(a, n) PROVE PairsInv'
  <2>1. PICK c : c = UpdateAccount(a, [name |-> n, closed |-> FALSE]) /\ Commit(c)
    BY <1>1 DEF EditAccount
  <2>2. c.kind = "UpdateAccount" /\ issued \subseteq issued'
    BY <1>1, <2>1 DEF EditAccount, UpdateAccount
  <2> QED
    BY <2>1, <2>2, WithoutRowsKeepsPairs
<1>2. ASSUME NEW a, Reconcile(a) PROVE PairsInv'
  <2>1. PICK c : c = CompleteSnapshot(a, {}) /\ Commit(c)
    BY <1>2 DEF Reconcile
  <2>2. c.kind = "CompleteSnapshot" /\ issued \subseteq issued'
    BY <1>2, <2>1 DEF Reconcile, CompleteSnapshot
  <2> QED
    BY <2>1, <2>2, WithoutRowsKeepsPairs
<1>3. ASSUME NEW n, NEW opening \in Cents \union {0}, CreateAccount(n, opening) PROVE PairsInv'
  <2>1. PICK a, id, c : /\ a = NewId(AccountIds) /\ id = NewId(TransactionIds)
                        /\ c = CreateWithOpening(a, n, id, opening) /\ Commit(c)
    BY <1>3 DEF CreateAccount
  <2>2. issued' = issued \union ({a} \union {u \in {id} : opening # 0})
    BY <1>3, <2>1 DEF CreateAccount, Issue
  <2>3. c.kind = "CreateWithOpening" /\ c.opening = opening /\ c.id = id /\ c.account = a
    BY <2>1 DEF CreateWithOpening
  <2>4. CASE opening = 0
    BY <2>1, <2>2, <2>3, <2>4, WithoutRowsKeepsPairs
  <2>5. CASE opening # 0
    <3>1. id \in issued' /\ issued \subseteq issued'
      BY <2>2, <2>5
    <3>2. PICK row : row = [account |-> a, amount |-> opening, clearance |-> "Cleared", transfer |-> NoTransfer]
      OBVIOUS
    <3>3. IsPlain(row)
      BY <3>2, ExecutorAssumption DEF IsPlain
    <3>4. Written(c) = [t \in {id} |-> row]
      BY <2>3, <2>5, <3>2 DEF Written
    <3>5. id \notin issued
      BY <1>3, <2>1 DEF CreateAccount, NewId, Fresh
    <3>6. NoLeg(id, Tables)
      BY <3>5, NeverGiven DEF NoLeg
    <3> QED
      BY <2>1, <3>1, <3>3, <3>4, <3>6, PlainKeepsPairs
  <2> QED
    BY <2>4, <2>5
<1> QED
  BY <1>1, <1>2, <1>3 DEF EditAccounts

\* Each change of the transactions does.
LEMMA TransactionsKeepPairs ==
  ASSUME PairsInv, EditTransactions
  PROVE  PairsInv'
<1>1. ASSUME NEW a, NEW v \in Cents, NEW s, EnterTransaction(a, v, s) PROVE PairsInv'
  <2>1. PICK id, row, c : /\ id = NewId(TransactionIds) /\ row = PlainRow(a, v, s)
                          /\ c = SaveTransaction(id, row) /\ Commit(c)
    BY <1>1 DEF EnterTransaction
  <2>2. id \in issued' /\ issued \subseteq issued'
    BY <1>1, <2>1 DEF EnterTransaction, Issue
  <2>3. IsPlain(row)
    BY <2>1, ExecutorAssumption DEF IsPlain, PlainRow
  <2>4. Written(c) = [t \in {id} |-> row]
    BY <2>1 DEF Written, SaveTransaction
  <2>5. id \notin issued
    BY <1>1, <2>1 DEF EnterTransaction, NewId, Fresh
  <2>6. NoLeg(id, Tables)
    BY <2>5, NeverGiven DEF NoLeg
  <2> QED
    BY <2>1, <2>2, <2>3, <2>4, <2>6, PlainKeepsPairs
<1>2. ASSUME NEW id \in DOMAIN transactions, NEW a, NEW v \in Cents, NEW s, EditTransaction(id, a, v, s)
      PROVE  PairsInv'
  <2>1. PICK row, c : row = PlainRow(a, v, s) /\ c = SaveTransaction(id, row) /\ Commit(c)
    BY <1>2 DEF EditTransaction
  <2>2. id \in issued' /\ issued \subseteq issued'
    BY <1>2, AsInLedger DEF EditTransaction, Sound, Known
  <2>3. IsPlain(row)
    BY <2>1, ExecutorAssumption DEF IsPlain, PlainRow
  <2>4. Written(c) = [t \in {id} |-> row]
    BY <2>1 DEF Written, SaveTransaction
  <2>5. transactions[id].transfer = NoTransfer
    BY <1>2 DEF EditTransaction, IsLeg
  <2>6. NoLeg(id, Tables)
    BY <1>2, <2>5, AsInLedger DEF NoLeg, Agree
  <2> QED
    BY <2>1, <2>2, <2>3, <2>4, <2>6, PlainKeepsPairs
<1>3. ASSUME NEW from, NEW to, NEW v \in Positive, EnterTransfer(from, to, v) PROVE PairsInv'
  <2>1. PICK x, s, d : /\ x = NewId(TransferIds) /\ s = NewId(TransactionIds)
                       /\ d = CHOOSE t \in Fresh(TransactionIds) : t # s
                       /\ Commit(SaveTransfer(TransferLegs(s, d, from, to, v, x)))
                       /\ issued' = issued \union {x, s, d}
    BY <1>3 DEF EnterTransfer, Issue
  <2>2. from # to /\ v \in Int
    BY <1>3, ExecutorAssumption DEF EnterTransfer, Positive
  <2>3. x \notin issued
    BY <1>3, <2>1 DEF EnterTransfer, NewId, Fresh
  <2>4. PICK free : free = Fresh(TransactionIds)
    OBVIOUS
  <2>5. Cardinality(free) > 1
    BY <1>3, <2>4 DEF EnterTransfer
  <2>6. free # {}
    BY <2>5, FS_EmptySet
  <2>7. s \in free
    BY <2>1, <2>4, <2>6 DEF NewId
  <2>8. \E t \in free : t # s
    <3>1. SUFFICES ASSUME \A t \in free : t = s PROVE FALSE
      OBVIOUS
    <3>2. free = {s}
      BY <2>7, <3>1
    <3>3. Cardinality({s}) = 1
      BY FS_Singleton
    <3> QED
      BY <2>5, <3>2, <3>3
  <2>9. d \in free /\ d # s
    BY <2>1, <2>4, <2>8
  <2>10. s \notin issued /\ d \notin issued
    BY <2>4, <2>7, <2>9 DEF Fresh
  <2>11. TheLegs(s, d, x, Tables)
    <3>1. \A k \in Tables : s \notin DOMAIN k
      BY <2>10, NeverGiven
    <3>2. \A k \in Tables : d \notin DOMAIN k
      BY <2>10, NeverGiven
    <3>3. \A k \in Tables : x # NoTransfer => \A u \in DOMAIN k : k[u].transfer # x
      BY <2>3, NeverGiven
    <3> QED
      BY <3>1, <3>2, <3>3 DEF TheLegs
  <2>12. issued \subseteq issued' /\ s \in issued' /\ d \in issued' /\ x \in issued' /\ s # d
    BY <2>1, <2>9
  <2> QED
    BY <2>1, <2>2, <2>11, <2>12, LegsKeepPairs
<1>4. ASSUME NEW s \in DOMAIN transactions, NEW d, NEW from, NEW to, NEW v \in Positive,
             EditTransfer(s, d, from, to, v)
      PROVE  PairsInv'
  <2>1. PICK x : x = transactions[s].transfer
    OBVIOUS
  <2>2. Commit(SaveTransfer(TransferLegs(s, d, from, to, v, x)))
    BY <1>4, <2>1 DEF EditTransfer
  <2>3. /\ from # to /\ v \in Int /\ x # NoTransfer /\ d # s
        /\ d \in DOMAIN transactions /\ transactions[d].transfer = x
    BY <1>4, <2>1, ExecutorAssumption DEF EditTransfer, Positive, IsLeg, Legs
  <2>4. s \in issued' /\ d \in issued' /\ x \in issued' /\ issued \subseteq issued'
    BY <1>4, <2>1, <2>3, AsInLedger DEF EditTransfer, Sound, Known
  <2>5. PICK u \in DOMAIN transactions : Mates(transactions, s, u)
    BY <2>1, <2>3, AsInLedger DEF Sound, Paired
  <2>6. \A w \in DOMAIN transactions : transactions[w].transfer = x => w \in {s, d}
    BY <2>1, <2>3, <2>5 DEF Mates
  <2>7. TheLegs(s, d, x, Tables)
    <3>1. ASSUME NEW k \in Tables, NEW w \in DOMAIN k
          PROVE  /\ w \in {s, d} => k[w].transfer = x
                 /\ k[w].transfer = x => w \in {s, d} /\ s \in DOMAIN k /\ d \in DOMAIN k
      <4>1. Agree(transactions, k)
        BY AsInLedger
      <4> QED
        BY <2>1, <2>3, <2>6, <4>1 DEF Agree
    <3> QED
      BY <3>1 DEF TheLegs
  <2> QED
    BY <2>2, <2>3, <2>4, <2>7, LegsKeepPairs
<1>5. ASSUME NEW t, MarkCleared(t) PROVE PairsInv'
  <2>1. PICK c : /\ c = SetClearance({t}, IF transactions[t].clearance = "Cleared" THEN "Uncleared" ELSE "Cleared")
                 /\ Commit(c)
    BY <1>5 DEF MarkCleared
  <2>2. c.kind = "SetClearance" /\ issued \subseteq issued'
    BY <1>5, <2>1 DEF MarkCleared, SetClearance
  <2> QED
    BY <2>1, <2>2, WithoutRowsKeepsPairs
<1>6. ASSUME NEW ids, DeleteSelected(ids) PROVE PairsInv'
  <2>1. PICK c : c = Delete(ids) /\ Commit(c)
    BY <1>6 DEF DeleteSelected
  <2>2. c.kind = "Delete" /\ issued \subseteq issued'
    BY <1>6, <2>1 DEF DeleteSelected, Delete
  <2> QED
    BY <2>1, <2>2, WithoutRowsKeepsPairs
<1> QED
  BY <1>1, <1>2, <1>3, <1>4, <1>5, <1>6 DEF EditTransactions

\* What is on a stack may be executed.
LEMMA StacksKeepPairs ==
  ASSUME PairsInv, Undo \/ Redo
  PROVE  PairsInv'
<1>1. ASSUME NEW c \in OnStacks(history), issued' = issued,
             (Undo /\ c = NextUndo(history)) \/ (Redo /\ c = NextRedo(history))
      PROVE  PairsInv'
  <2>1. PICK w : w = Written(c)
    OBVIOUS
  <2>2. Tables \union {w} = Tables
    BY <1>1, <2>1 DEF Tables
  <2>3. Consistent(Tables \union {w}, issued')
    BY <1>1, <2>2 DEF PairsInv, Tables
  <2> QED
    BY <1>1, <2>1, <2>3, CommandKeepsPairs
<1>2. CASE Undo
  <2>1. PICK e : e = Top(history.undo)
    OBVIOUS
  <2>2. Pushed(history.undo, history'.undo, e)
    BY <1>2, <2>1, UndoMoves DEF PairsInv
  <2>3. e.inverse \in OnStacks(history) /\ e.inverse = NextUndo(history)
    BY <2>1, <2>2 DEF Pushed, OnStacks, NextUndo
  <2> QED
    BY <1>1, <1>2, <2>3 DEF Undo
<1>3. CASE Redo
  <2>1. PICK e : e = Top(history.redo)
    OBVIOUS
  <2>2. Pushed(history.redo, history'.redo, e)
    BY <1>3, <2>1, RedoMoves DEF PairsInv
  <2>3. e.command \in OnStacks(history) /\ e.command = NextRedo(history)
    BY <2>1, <2>2 DEF Pushed, OnStacks, NextRedo
  <2> QED
    BY <1>1, <1>3, <2>3 DEF Redo
<1> QED
  BY <1>2, <1>3

\* Every step does.
LEMMA PairsStep ==
  ASSUME PairsInv, [Next]_vars
  PROVE  PairsInv'
<1>1. CASE EditAssignments
  <2>1. PICK k, v : Assign(k, v)
    BY <1>1 DEF EditAssignments
  <2>2. PICK c : c = SetAssignment(k, v) /\ Commit(c)
    BY <2>1 DEF Assign
  <2>3. c.kind = "SetAssignment" /\ issued \subseteq issued'
    BY <2>1, <2>2 DEF Assign, SetAssignment
  <2> QED
    BY <2>2, <2>3, WithoutRowsKeepsPairs
<1>2. CASE UNCHANGED vars
  BY <1>2 DEF vars, executorVars, editsVars, PairsInv
<1> QED
  BY <1>1, <1>2, AccountsKeepPairs, TransactionsKeepPairs, StacksKeepPairs DEF Next

-----------------------------------------------------------------------------
(* A ledger that begins with whole transfers                               *)

\* Whole transfers are two legs each.
LEMMA PairsAreWhole ==
  ASSUME IsRows(transactions), Paired(transactions)
  PROVE  TransferPairsWhole
<1>1. SUFFICES ASSUME NEW t \in DOMAIN transactions, IsLeg(t)
               PROVE  /\ Cardinality(Legs(t)) = 2
                      /\ \A u \in Legs(t) \ {t} :
                           /\ transactions[u].account # transactions[t].account
                           /\ transactions[u].amount = -transactions[t].amount
  BY DEF TransferPairsWhole
<1>2. PICK u \in DOMAIN transactions : Mates(transactions, t, u)
  BY <1>1 DEF Paired, IsLeg
<1>3. Legs(t) = {t, u} /\ u # t
  BY <1>2 DEF Mates, Legs
<1>4. Cardinality({t, u}) = 2
  <2>1. IsFiniteSet({t}) /\ Cardinality({t}) = 1
    BY FS_Singleton
  <2>2. Cardinality({t} \union {u}) = Cardinality({t}) + 1
    BY <1>3, <2>1, FS_AddElement
  <2>3. {t, u} = {t} \union {u}
    OBVIOUS
  <2> QED
    BY <2>1, <2>2, <2>3
<1> QED
  BY <1>2, <1>3, <1>4 DEF Mates

\* The invariant holds when the session begins.
LEMMA PairsInit ==
  ASSUME Init
  PROVE  PairsInv
<1>1. PICK f : f = transactions
  OBVIOUS
<1>2. f = Start.transactions /\ IsTable(f, TransactionIds, TransactionRows) /\ Paired(f)
  BY <1>1, EditsAssumption DEF Init, IsLedger
<1>3. IsRows(f)
  BY <1>2, ExecutorAssumption DEF IsTable, TransactionRows, IsRows
<1>4. Known(f, issued)
  BY <1>1 DEF Init, Known
<1>5. history = [undo |-> <<>>, redo |-> <<>>]
  BY DEF Init, EmptyHistory
<1>6. IsStack(<<>>) /\ EntriesOf(<<>>) = {}
  BY DEF IsStack, EntriesOf
<1>7. IsHistory(history) /\ OnStacks(history) = {}
  BY <1>5, <1>6 DEF IsHistory, OnStacks
<1>8. Agree(f, f)
  BY DEF Agree
<1>9. {transactions} \union {Written(c) : c \in OnStacks(history)} = {f}
  BY <1>1, <1>7
<1>10. Consistent({f}, issued)
  BY <1>2, <1>3, <1>4, <1>8 DEF Consistent, Sound
<1> QED
  BY <1>7, <1>9, <1>10 DEF PairsInv

\* Every transfer keeps both its legs, in two accounts and with opposite amounts, whatever is
\* edited, deleted, undone and redone.
THEOREM TransfersStayWhole == Spec => []TransferPairsWhole
<1>1. Init => PairsInv
  BY PairsInit
<1>2. PairsInv /\ [Next]_vars => PairsInv'
  BY PairsStep
<1>3. PairsInv => TransferPairsWhole
  BY AsInLedger, PairsAreWhole DEF Sound
<1> QED
  BY <1>1, <1>2, <1>3, PTL DEF Spec
-----------------------------------------------------------------------------
(* What the executor does to the cells                                     *)

\* A step writes the cells and no other.
Writes(cells, now, next) ==
  \A id : CellOf(next, id) = IF id \in DOMAIN cells THEN cells[id] ELSE CellOf(now, id)

\* Writing the cells that bring a table back takes the change back.
CellsTakeBack(now, next, before, after) ==
  \A id : IF CellOf(before, id) = CellOf(after, id)
            THEN CellOf(next, id) \in {CellOf(now, id), CellOf(before, id)}
            ELSE CellOf(next, id) = CellOf(before, id)
LEMMA WrittenBack ==
  ASSUME NEW cells, NEW now, NEW next, NEW before, NEW after,
         Writes(cells, now, next), BringsBack(cells, before, after)
  PROVE  CellsTakeBack(now, next, before, after)
<1>1. SUFFICES ASSUME NEW id
               PROVE  IF CellOf(before, id) = CellOf(after, id)
                        THEN CellOf(next, id) \in {CellOf(now, id), CellOf(before, id)}
                        ELSE CellOf(next, id) = CellOf(before, id)
  BY DEF CellsTakeBack
<1>2. CASE id \in DOMAIN cells
  BY <1>2 DEF Writes, BringsBack
<1>3. CASE id \notin DOMAIN cells
  <2>1. CellOf(next, id) = CellOf(now, id)
    BY <1>3 DEF Writes
  <2>2. CellOf(before, id) = CellOf(after, id)
    <3>1. CASE id \in DOMAIN before \union DOMAIN after
      BY <1>3, <3>1 DEF BringsBack
    <3>2. CASE id \notin DOMAIN before \union DOMAIN after
      BY <3>2 DEF CellOf
    <3> QED
      BY <3>1, <3>2
  <2> QED
    BY <2>1, <2>2
<1> QED
  BY <1>2, <1>3

\* A table that stays as it is.
LEMMA NoneWritten ==
  ASSUME NEW cells, DOMAIN cells = {}, NEW f
  PROVE  Writes(cells, f, f) /\ BringsBack(cells, f, f)
BY DEF Writes, BringsBack

\* One cell put, and the cell that takes it back.
LEMMA CellPut ==
  ASSUME NEW f, NEW id, NEW row, NEW g, g = Put(f, id, row), NEW cells, cells = [x \in {id} |-> <<row>>]
  PROVE  Writes(cells, f, g)
BY DEF Writes, CellOf, Put
LEMMA CellPutBack ==
  ASSUME NEW f, NEW id, NEW row, NEW g, g = Put(f, id, row), NEW cells, cells = [x \in {id} |-> CellOf(f, id)]
  PROVE  BringsBack(cells, f, g)
BY DEF BringsBack, CellOf, Put

\* One cell removed, and the cell that takes that back.
LEMMA CellRemoved ==
  ASSUME NEW f, NEW id, NEW g, g = Restrict(f, DOMAIN f \ {id}), NEW cells, cells = [x \in {id} |-> <<>>]
  PROVE  Writes(cells, f, g)
BY DEF Writes, CellOf, Restrict
LEMMA CellRemovedBack ==
  ASSUME NEW f, NEW id, NEW g, g = Restrict(f, DOMAIN f \ {id}), NEW cells, cells = [x \in {id} |-> CellOf(f, id)]
  PROVE  BringsBack(cells, f, g)
BY DEF BringsBack, CellOf, Restrict

\* A table of rows written, and the rows that take it back.
LEMMA RowsPut ==
  ASSUME NEW f, NEW new, NEW g, g = PutAll(f, new), NEW cells, cells = [x \in DOMAIN new |-> <<new[x]>>]
  PROVE  Writes(cells, f, g)
BY DEF Writes, CellOf, PutAll
ChangedIn(part, f, g) ==
  /\ DOMAIN part \subseteq DOMAIN f /\ \A id \in DOMAIN part : part[id] = f[id]
  /\ \A id \in (DOMAIN f \union DOMAIN g) \ DOMAIN part : id \in DOMAIN f /\ id \in DOMAIN g /\ f[id] = g[id]
LEMMA RowsPutBack ==
  ASSUME NEW f, NEW g, NEW part, ChangedIn(part, f, g), NEW cells, cells = [x \in DOMAIN part |-> <<part[x]>>]
  PROVE  BringsBack(cells, f, g)
BY DEF BringsBack, CellOf, ChangedIn

-----------------------------------------------------------------------------
(* What a command writes and what takes it back                            *)

\* The ledger is of accounts, transactions and assignments.
LEMMA Unrelated ==
  ASSUME NEW c
  PROVE  /\ c.kind # "UpdateAccount" => DOMAIN AccountsBy(c) = {}
         /\ c.kind \notin {"SaveTransaction", "SaveTransfer", "Restore", "CreateWithOpening"} =>
              DOMAIN TransactionsBy(c) = {}
         /\ c.kind \notin {"SetAssignment", "RemoveAssignment"} => DOMAIN AssignmentsBy(c) = {}
<1>1. c.kind # "UpdateAccount" => DOMAIN AccountsBy(c) = {}
  BY DEF AccountsBy
<1>2. c.kind \notin {"SetAssignment", "RemoveAssignment"} => DOMAIN AssignmentsBy(c) = {}
  BY DEF AssignmentsBy
<1>3. ASSUME c.kind \notin {"SaveTransaction", "SaveTransfer", "Restore", "CreateWithOpening"}
      PROVE  DOMAIN TransactionsBy(c) = {}
  BY <1>3, WritesNothing DEF TransactionsBy
<1> QED
  BY <1>1, <1>2, <1>3

\* A replayable command writes its cells and nothing else.
LEMMA CommandWrites ==
  ASSUME NEW c, Execute(c), c.kind \in Replayable
  PROVE  /\ Writes(AccountsBy(c), accounts, accounts')
         /\ Writes(TransactionsBy(c), transactions, transactions')
         /\ Writes(AssignmentsBy(c), assignments, assignments')
<1>1. PICK f, g, h, m, n, o : /\ f = accounts /\ g = transactions /\ h = assignments
                              /\ m = accounts' /\ n = transactions' /\ o = assignments'
  OBVIOUS
<1>2. PICK x, y, z : x = AccountsBy(c) /\ y = TransactionsBy(c) /\ z = AssignmentsBy(c)
  OBVIOUS
<1>3. \/ ApplyUpdateAccount(c) \/ ApplySaveTransaction(c) \/ ApplyRestore(c)
      \/ ApplySetAssignment(c) \/ ApplyRemoveAssignment(c)
  BY DEF Execute, Replayable, ApplyCreateWithOpening, ApplyCloseAccount, ApplySaveTransfer,
         ApplyCompleteSnapshot, ApplySetClearance, ApplyDelete
<1>4. ASSUME m = f, DOMAIN x = {} PROVE Writes(x, f, m)
  BY <1>4, NoneWritten
<1>5. ASSUME n = g, DOMAIN y = {} PROVE Writes(y, g, n)
  BY <1>5, NoneWritten
<1>6. ASSUME o = h, DOMAIN z = {} PROVE Writes(z, h, o)
  BY <1>6, NoneWritten
<1>7. CASE ApplyUpdateAccount(c)
  <2>1. c.kind = "UpdateAccount" /\ m = Put(f, c.account, c.row) /\ n = g /\ o = h
    BY <1>1, <1>7 DEF ApplyUpdateAccount
  <2>2. x = [a \in {c.account} |-> <<c.row>>] /\ DOMAIN y = {} /\ DOMAIN z = {}
    BY <1>2, <2>1, Unrelated DEF AccountsBy
  <2>3. Writes(x, f, m)
    BY <2>1, <2>2, CellPut
  <2> QED
    BY <1>1, <1>2, <1>5, <1>6, <2>1, <2>2, <2>3
<1>8. CASE ApplySaveTransaction(c)
  <2>1. c.kind = "SaveTransaction" /\ n = Put(g, c.id, c.row) /\ m = f /\ o = h
    BY <1>1, <1>8 DEF ApplySaveTransaction
  <2>2. DOMAIN x = {} /\ DOMAIN z = {}
    BY <1>2, <2>1, Unrelated
  <2>3. y = [t \in {c.id} |-> <<c.row>>]
    BY <1>2, <2>1 DEF TransactionsBy, Written
  <2>4. Writes(y, g, n)
    BY <2>1, <2>3, CellPut
  <2> QED
    BY <1>1, <1>2, <1>4, <1>6, <2>1, <2>2, <2>4
<1>9. CASE ApplyRestore(c)
  <2>1. c.kind = "Restore" /\ n = PutAll(g, c.prior) /\ m = f /\ o = h
    BY <1>1, <1>9 DEF ApplyRestore
  <2>2. DOMAIN x = {} /\ DOMAIN z = {}
    BY <1>2, <2>1, Unrelated
  <2>3. y = [t \in DOMAIN c.prior |-> <<c.prior[t]>>]
    BY <1>2, <2>1 DEF TransactionsBy, Written
  <2>4. Writes(y, g, n)
    BY <2>1, <2>3, RowsPut
  <2> QED
    BY <1>1, <1>2, <1>4, <1>6, <2>1, <2>2, <2>4
<1>10. CASE ApplySetAssignment(c)
  <2>1. c.kind = "SetAssignment" /\ o = Put(h, c.category, c.amount) /\ m = f /\ n = g
    BY <1>1, <1>10 DEF ApplySetAssignment
  <2>2. DOMAIN x = {} /\ DOMAIN y = {}
    BY <1>2, <2>1, Unrelated
  <2>3. z = [k \in {c.category} |-> <<c.amount>>]
    BY <1>2, <2>1 DEF AssignmentsBy
  <2>4. Writes(z, h, o)
    BY <2>1, <2>3, CellPut
  <2> QED
    BY <1>1, <1>2, <1>4, <1>5, <2>1, <2>2, <2>4
<1>11. CASE ApplyRemoveAssignment(c)
  <2>1. c.kind = "RemoveAssignment" /\ o = Restrict(h, DOMAIN h \ {c.category}) /\ m = f /\ n = g
    BY <1>1, <1>11 DEF ApplyRemoveAssignment
  <2>2. DOMAIN x = {} /\ DOMAIN y = {}
    BY <1>2, <2>1, Unrelated
  <2>3. z = [k \in {c.category} |-> <<>>]
    BY <1>2, <2>1 DEF AssignmentsBy
  <2>4. Writes(z, h, o)
    BY <2>1, <2>3, CellRemoved
  <2> QED
    BY <1>1, <1>2, <1>4, <1>5, <2>1, <2>2, <2>4
<1> QED
  BY <1>3, <1>7, <1>8, <1>9, <1>10, <1>11

\* A replayable command that matches an execution takes it back.
LEMMA MatchTakesBack ==
  ASSUME NEW c, Execute(c), c.kind \in Replayable, NEW last, Matches(c, last)
  PROVE  TakesBack(last)
<1>1. /\ CellsTakeBack(accounts, accounts', last.before.accounts, last.after.accounts)
      /\ CellsTakeBack(transactions, transactions', last.before.transactions, last.after.transactions)
      /\ CellsTakeBack(assignments, assignments', last.before.assignments, last.after.assignments)
  <2>1. PICK x, y, z : x = AccountsBy(c) /\ y = TransactionsBy(c) /\ z = AssignmentsBy(c)
    OBVIOUS
  <2>2. Writes(x, accounts, accounts') /\ Writes(y, transactions, transactions') /\ Writes(z, assignments, assignments')
    BY <2>1, CommandWrites
  <2>3. /\ BringsBack(x, last.before.accounts, last.after.accounts)
        /\ BringsBack(y, last.before.transactions, last.after.transactions)
        /\ BringsBack(z, last.before.assignments, last.after.assignments)
    BY <2>1 DEF Matches
  <2> QED
    BY <2>2, <2>3, WrittenBack
<1>2. ASSUME NEW id
      PROVE  /\ Cell(rows, "accounts", id) = CellOf(accounts, id) /\ Cell(rows, "accounts", id)' = CellOf(accounts', id)
             /\ Cell(rows, "transactions", id) = CellOf(transactions, id)
             /\ Cell(rows, "transactions", id)' = CellOf(transactions', id)
             /\ Cell(rows, "assignments", id) = CellOf(assignments, id)
             /\ Cell(rows, "assignments", id)' = CellOf(assignments', id)
  BY DEF Cell, CellOf, rows
<1>3. ASSUME NEW ledger, NEW id
      PROVE  /\ Cell(ledger, "accounts", id) = CellOf(ledger.accounts, id)
             /\ Cell(ledger, "transactions", id) = CellOf(ledger.transactions, id)
             /\ Cell(ledger, "assignments", id) = CellOf(ledger.assignments, id)
  BY DEF Cell, CellOf
<1>4. ASSUME NEW table \in {"accounts", "transactions", "assignments"}, NEW id
      PROVE  IF Cell(last.before, table, id) = Cell(last.after, table, id)
               THEN Cell(rows, table, id)' \in {Cell(rows, table, id), Cell(last.before, table, id)}
               ELSE Cell(rows, table, id)' = Cell(last.before, table, id)
  <2>1. CASE table = "accounts"
    BY <1>1, <1>2, <1>3, <2>1 DEF CellsTakeBack
  <2>2. CASE table = "transactions"
    BY <1>1, <1>2, <1>3, <2>2 DEF CellsTakeBack
  <2>3. CASE table = "assignments"
    BY <1>1, <1>2, <1>3, <2>3 DEF CellsTakeBack
  <2> QED
    BY <2>1, <2>2, <2>3
<1> QED
  BY <1>4 DEF TakesBack
\* What would take an execution back.
Around(last) == last = [before |-> rows, after |-> rows']
Inserts(c) == c.kind = "Restore" /\ ~(DOMAIN c.prior \subseteq DOMAIN transactions)
LEMMA InverseMatches ==
  ASSUME NEW c, Execute(c), c.kind # "CreateWithOpening", inverse' # NoInverse, NEW last, Around(last)
  PROVE  /\ inverse'.kind \in Replayable
         /\ Inserts(c) => Reinserted(last)
         /\ ~Inserts(c) => Matches(inverse', last)
<1>1. PICK f, g, h, m, n, o : /\ f = accounts /\ g = transactions /\ h = assignments
                              /\ m = accounts' /\ n = transactions' /\ o = assignments'
  OBVIOUS
<1>2. /\ last.before.accounts = f /\ last.before.transactions = g /\ last.before.assignments = h
      /\ last.after.accounts = m /\ last.after.transactions = n /\ last.after.assignments = o
  BY <1>1 DEF Around, rows
<1>3. PICK i, x, y, z : i = inverse' /\ x = AccountsBy(i) /\ y = TransactionsBy(i) /\ z = AssignmentsBy(i)
  OBVIOUS
<1>4. BringsBack(x, f, m) /\ BringsBack(y, g, n) /\ BringsBack(z, h, o) => Matches(i, last)
  BY <1>2, <1>3 DEF Matches
<1>5. ASSUME m = f, DOMAIN x = {} PROVE BringsBack(x, f, m)
  BY <1>5, NoneWritten
<1>6. ASSUME n = g, DOMAIN y = {} PROVE BringsBack(y, g, n)
  BY <1>6, NoneWritten
<1>7. ASSUME o = h, DOMAIN z = {} PROVE BringsBack(z, h, o)
  BY <1>7, NoneWritten
<1>8. ASSUME NEW a \in DOMAIN f, NEW row, i = UpdateAccount(a, f[a]), m = Put(f, a, row), n = g, o = h
      PROVE  i.kind \in Replayable /\ Matches(i, last)
  <2>1. i.kind = "UpdateAccount"
    BY <1>8 DEF UpdateAccount
  <2>2. x = [id \in {a} |-> CellOf(f, id)]
    BY <1>3, <1>8 DEF AccountsBy, UpdateAccount, CellOf
  <2>3. DOMAIN y = {} /\ DOMAIN z = {}
    BY <1>3, <2>1, Unrelated
  <2>4. BringsBack(x, f, m)
    BY <1>8, <2>2, CellPutBack
  <2> QED
    BY <1>4, <1>6, <1>7, <1>8, <2>1, <2>3, <2>4 DEF Replayable
<1>9. ASSUME NEW part, i = Restore(part), ChangedIn(part, g, n), m = f, o = h
      PROVE  i.kind \in Replayable /\ Matches(i, last)
  <2>1. i.kind = "Restore"
    BY <1>9 DEF Restore
  <2>2. DOMAIN x = {} /\ DOMAIN z = {}
    BY <1>3, <2>1, Unrelated
  <2>3. y = [t \in DOMAIN part |-> <<part[t]>>]
    BY <1>3, <1>9 DEF TransactionsBy, Written, Restore
  <2>4. BringsBack(y, g, n)
    BY <1>9, <2>3, RowsPutBack
  <2> QED
    BY <1>4, <1>5, <1>7, <1>9, <2>1, <2>2, <2>4 DEF Replayable
<1>10. ASSUME i.kind \in {"SetAssignment", "RemoveAssignment"}, BringsBack(z, h, o), m = f, n = g
       PROVE  i.kind \in Replayable /\ Matches(i, last)
  <2>1. DOMAIN x = {} /\ DOMAIN y = {}
    BY <1>3, <1>10, Unrelated
  <2> QED
    BY <1>4, <1>5, <1>6, <1>10, <2>1 DEF Replayable
<1>11. CASE ApplyUpdateAccount(c)
  <2>1. /\ c.account \in DOMAIN f /\ i = UpdateAccount(c.account, f[c.account])
        /\ m = Put(f, c.account, c.row) /\ n = g /\ o = h
    BY <1>1, <1>3, <1>11 DEF ApplyUpdateAccount
  <2>2. ~Inserts(c)
    BY <1>11 DEF ApplyUpdateAccount, Inserts
  <2> QED
    BY <1>3, <1>8, <2>1, <2>2
<1>12. CASE ApplyCloseAccount(c)
  <2>1. /\ c.account \in DOMAIN f /\ i = UpdateAccount(c.account, f[c.account])
        /\ m = [f EXCEPT ![c.account].closed = TRUE] /\ n = g /\ o = h
    BY <1>1, <1>3, <1>12 DEF ApplyCloseAccount
  <2>2. PICK a, row : a = c.account /\ row = [f[a] EXCEPT !.closed = TRUE]
    OBVIOUS
  <2>3. m = [f EXCEPT ![a] = row]
    BY <2>1, <2>2
  <2>4. m = Put(f, a, row)
    BY <2>1, <2>2, <2>3 DEF Put
  <2>5. ~Inserts(c)
    BY <1>12 DEF ApplyCloseAccount, Inserts
  <2> QED
    BY <1>3, <1>8, <2>1, <2>2, <2>4, <2>5
<1>13. CASE ApplySaveTransaction(c)
  <2>1. c.id \in DOMAIN g /\ i = SaveTransaction(c.id, g[c.id])
    BY <1>1, <1>3, <1>13 DEF ApplySaveTransaction
  <2>2. n = Put(g, c.id, c.row) /\ m = f /\ o = h
    BY <1>1, <1>13 DEF ApplySaveTransaction
  <2>3. i.kind = "SaveTransaction" /\ i.id = c.id /\ i.row = g[c.id]
    BY <2>1 DEF SaveTransaction
  <2>4. DOMAIN x = {} /\ DOMAIN z = {}
    BY <1>3, <2>3, Unrelated
  <2>5. y = [t \in {c.id} |-> CellOf(g, t)]
    BY <1>3, <2>1, <2>3 DEF TransactionsBy, Written, CellOf
  <2>6. BringsBack(y, g, n)
    BY <2>2, <2>5, CellPutBack
  <2>7. ~Inserts(c)
    BY <1>13 DEF ApplySaveTransaction, Inserts
  <2> QED
    BY <1>3, <1>4, <1>5, <1>7, <2>2, <2>3, <2>4, <2>6, <2>7 DEF Replayable
<1>14. CASE ApplySetAssignment(c)
  <2>1. o = Put(h, c.category, c.amount) /\ m = f /\ n = g
    BY <1>1, <1>14 DEF ApplySetAssignment
  <2>2. ~Inserts(c)
    BY <1>14 DEF ApplySetAssignment, Inserts
  <2>3. i = IF c.category \in DOMAIN h THEN SetAssignment(c.category, h[c.category]) ELSE RemoveAssignment(c.category)
    BY <1>1, <1>3, <1>14 DEF ApplySetAssignment
  <2>4. i.kind \in {"SetAssignment", "RemoveAssignment"} /\ z = [k \in {c.category} |-> CellOf(h, k)]
    <3>1. CASE c.category \in DOMAIN h
      BY <1>3, <2>3, <3>1 DEF AssignmentsBy, SetAssignment, CellOf
    <3>2. CASE c.category \notin DOMAIN h
      BY <1>3, <2>3, <3>2 DEF AssignmentsBy, RemoveAssignment, CellOf
    <3> QED
      BY <3>1, <3>2
  <2>5. BringsBack(z, h, o)
    BY <2>1, <2>4, CellPutBack
  <2> QED
    BY <1>3, <1>10, <2>1, <2>2, <2>4, <2>5
<1>15. CASE ApplyRemoveAssignment(c)
  <2>1. o = Restrict(h, DOMAIN h \ {c.category}) /\ m = f /\ n = g
    BY <1>1, <1>15 DEF ApplyRemoveAssignment
  <2>2. ~Inserts(c)
    BY <1>15 DEF ApplyRemoveAssignment, Inserts
  <2>3. c.category \in DOMAIN h /\ i = SetAssignment(c.category, h[c.category])
    BY <1>1, <1>3, <1>15 DEF ApplyRemoveAssignment
  <2>4. i.kind = "SetAssignment" /\ z = [k \in {c.category} |-> CellOf(h, k)]
    BY <1>3, <2>3 DEF AssignmentsBy, SetAssignment, CellOf
  <2>5. BringsBack(z, h, o)
    BY <2>1, <2>4, CellRemovedBack
  <2> QED
    BY <1>3, <1>10, <2>1, <2>2, <2>4, <2>5
<1>16. CASE ApplySetClearance(c)
  <2>1. PICK changed, part : changed = Affected(c.ids) /\ part = Restrict(g, changed)
    OBVIOUS
  <2>2. c.ids \subseteq DOMAIN transactions /\ i = Restore(part) /\ m = f /\ o = h
    BY <1>1, <1>3, <1>16, <2>1 DEF ApplySetClearance, BatchAllowed, BatchInverse
  <2>3. changed \subseteq DOMAIN g
    BY <1>1, <2>1, <2>2, AffectedWhole
  <2>4. n = [t \in DOMAIN g |-> IF t \in changed THEN [g[t] EXCEPT !.clearance = c.clearance] ELSE g[t]]
    BY <1>1, <1>16, <2>1 DEF ApplySetClearance
  <2>5. ChangedIn(part, g, n)
    BY <2>1, <2>3, <2>4 DEF ChangedIn, Restrict
  <2>6. ~Inserts(c)
    BY <1>16 DEF ApplySetClearance, Inserts
  <2> QED
    BY <1>3, <1>9, <2>2, <2>5, <2>6
<1>17. CASE ApplyDelete(c)
  <2>1. PICK changed, part : changed = Affected(c.ids) /\ part = Restrict(g, changed)
    OBVIOUS
  <2>2. c.ids \subseteq DOMAIN transactions /\ i = Restore(part) /\ m = f /\ o = h
    BY <1>1, <1>3, <1>17, <2>1 DEF ApplyDelete, BatchAllowed, BatchInverse
  <2>3. changed \subseteq DOMAIN g
    BY <1>1, <2>1, <2>2, AffectedWhole
  <2>4. n = Restrict(g, DOMAIN g \ changed)
    BY <1>1, <1>17, <2>1 DEF ApplyDelete
  <2>5. ChangedIn(part, g, n)
    BY <2>1, <2>3, <2>4 DEF ChangedIn, Restrict
  <2>6. ~Inserts(c)
    BY <1>17 DEF ApplyDelete, Inserts
  <2> QED
    BY <1>3, <1>9, <2>2, <2>5, <2>6
<1>18. CASE ApplyRestore(c)
  <2>1. PICK new, part : new = c.prior /\ part = Restrict(g, DOMAIN new \intersect DOMAIN g)
    OBVIOUS
  <2>2. c.kind = "Restore" /\ i = Restore(part) /\ n = PutAll(g, new) /\ m = f /\ o = h
    BY <1>1, <1>3, <1>18, <2>1 DEF ApplyRestore
  <2>3. DOMAIN n = DOMAIN g \union DOMAIN new /\ \A t \in DOMAIN n : t \notin DOMAIN new => n[t] = g[t]
    BY <2>2 DEF PutAll
  <2>4. CASE DOMAIN new \subseteq DOMAIN g
    <3>1. ChangedIn(part, g, n)
      BY <2>1, <2>3, <2>4 DEF ChangedIn, Restrict
    <3>2. ~Inserts(c)
      BY <1>1, <2>1, <2>4 DEF Inserts
    <3> QED
      BY <1>3, <1>9, <2>2, <3>1, <3>2
  <2>5. CASE ~(DOMAIN new \subseteq DOMAIN g)
    <3>1. i.kind \in Replayable
      BY <2>2 DEF Restore, Replayable
    <3>2. Reinserted(last)
      BY <1>2, <2>3, <2>5 DEF Reinserted
    <3>3. Inserts(c)
      BY <1>1, <2>1, <2>2, <2>5 DEF Inserts
    <3> QED
      BY <1>3, <3>1, <3>2, <3>3
  <2> QED
    BY <2>4, <2>5
<1>19. ~ApplyCreateWithOpening(c) /\ ~ApplySaveTransfer(c) /\ ~ApplyCompleteSnapshot(c)
  BY DEF ApplyCreateWithOpening, ApplySaveTransfer, ApplyCompleteSnapshot
<1> QED
  BY <1>11, <1>12, <1>13, <1>14, <1>15, <1>16, <1>17, <1>18, <1>19 DEF Execute
\* What each kind of command leaves and what would take it back.
LEMMA InverseKinds ==
  ASSUME NEW c, Execute(c)
  PROVE  /\ c.kind = "CreateWithOpening" => inverse'.kind = "CloseAccount"
         /\ c.kind \in {"UpdateAccount", "CloseAccount"} => inverse'.kind = "UpdateAccount"
         /\ c.kind = "SaveTransaction" =>
              /\ c.id \in DOMAIN transactions'
              /\ IF c.id \in DOMAIN transactions
                   THEN inverse'.kind = "SaveTransaction" /\ inverse'.id = c.id
                   ELSE inverse' = NoInverse
         /\ c.kind = "Restore" => inverse'.kind = "Restore" /\ DOMAIN inverse'.prior \subseteq DOMAIN transactions
         /\ c.kind = "SetAssignment" =>
              /\ c.category \in DOMAIN assignments' /\ inverse'.category = c.category
              /\ inverse'.kind = IF c.category \in DOMAIN assignments THEN "SetAssignment" ELSE "RemoveAssignment"
         /\ c.kind = "RemoveAssignment" /\ c.category \in DOMAIN assignments => inverse'.kind = "SetAssignment"
         /\ c.kind \in {"SaveTransfer", "CompleteSnapshot"} => inverse' = NoInverse
         /\ c.kind \in {"SetClearance", "Delete"} => inverse'.kind = "Restore"
<1>1. CASE ApplyUpdateAccount(c)
  BY <1>1 DEF ApplyUpdateAccount, UpdateAccount
<1>2. CASE ApplyCreateWithOpening(c)
  BY <1>2 DEF ApplyCreateWithOpening, CloseAccount
<1>3. CASE ApplyCloseAccount(c)
  BY <1>3 DEF ApplyCloseAccount, UpdateAccount
<1>4. CASE ApplySaveTransaction(c)
  BY <1>4 DEF ApplySaveTransaction, SaveTransaction, Put
<1>5. CASE ApplySaveTransfer(c)
  BY <1>5 DEF ApplySaveTransfer
<1>6. CASE ApplySetAssignment(c)
  BY <1>6 DEF ApplySetAssignment, SetAssignment, RemoveAssignment, Put
<1>7. CASE ApplyRemoveAssignment(c)
  BY <1>7 DEF ApplyRemoveAssignment, SetAssignment
<1>8. CASE ApplyCompleteSnapshot(c)
  BY <1>8 DEF ApplyCompleteSnapshot
<1>9. CASE ApplySetClearance(c)
  BY <1>9 DEF ApplySetClearance, BatchInverse, Restore
<1>10. CASE ApplyDelete(c)
  BY <1>10 DEF ApplyDelete, BatchInverse, Restore
<1>11. CASE ApplyRestore(c)
  BY <1>11 DEF ApplyRestore, Restore, Restrict
<1> QED
  BY <1>1, <1>2, <1>3, <1>4, <1>5, <1>6, <1>7, <1>8, <1>9, <1>10, <1>11 DEF Execute

\* Only a deletion removes transactions, and only RemoveAssignment an assignment.
LEMMA RowsStay ==
  ASSUME NEW c, Execute(c)
  PROVE  /\ c.kind # "Delete" => DOMAIN transactions \subseteq DOMAIN transactions'
         /\ c.kind # "RemoveAssignment" => DOMAIN assignments \subseteq DOMAIN assignments'
         /\ c.kind = "RemoveAssignment" => DOMAIN assignments \ {c.category} \subseteq DOMAIN assignments'
<1>1. CASE ApplyUpdateAccount(c)
  BY <1>1 DEF ApplyUpdateAccount
<1>2. CASE ApplyCreateWithOpening(c)
  BY <1>2 DEF ApplyCreateWithOpening, Put
<1>3. CASE ApplyCloseAccount(c)
  BY <1>3 DEF ApplyCloseAccount
<1>4. CASE ApplySaveTransaction(c)
  BY <1>4 DEF ApplySaveTransaction, Put
<1>5. CASE ApplySaveTransfer(c)
  BY <1>5 DEF ApplySaveTransfer, PutAll
<1>6. CASE ApplySetAssignment(c)
  BY <1>6 DEF ApplySetAssignment, Put
<1>7. CASE ApplyRemoveAssignment(c)
  BY <1>7 DEF ApplyRemoveAssignment, Restrict
<1>8. CASE ApplyCompleteSnapshot(c)
  BY <1>8 DEF ApplyCompleteSnapshot
<1>9. CASE ApplySetClearance(c)
  BY <1>9 DEF ApplySetClearance
<1>10. CASE ApplyDelete(c)
  BY <1>10 DEF ApplyDelete
<1>11. CASE ApplyRestore(c)
  BY <1>11 DEF ApplyRestore, PutAll
<1> QED
  BY <1>1, <1>2, <1>3, <1>4, <1>5, <1>6, <1>7, <1>8, <1>9, <1>10, <1>11 DEF Execute

-----------------------------------------------------------------------------
(* The entries of the stacks, one by one                                   *)

\* A stack is numbered from one.
LEMMA StackIndices ==
  ASSUME NEW s, IsStack(s)
  PROVE  Len(s) \in Nat /\ DOMAIN s = 1..Len(s) /\ \A i \in 1..Len(s) : s[i] \in EntriesOf(s)
BY DEF IsStack, EntriesOf

\* An entry that differs from all entries under it, and finds no assignment they found.
NewLabel(e, s) == \A x \in EntriesOf(s) : x.label # e.label
NewlyMade(e, s) ==
  e.inverse.kind = "RemoveAssignment" =>
    \A x \in EntriesOf(s) : e.inverse.category \notin DOMAIN AssignmentsBy(x.inverse)
LEMMA PushTells ==
  ASSUME NEW s, IsStack(s), NEW p, NEW e, Pushed(p, s, e)
  PROVE  /\ Distinct(p) <=> Distinct(s) /\ NewLabel(e, s)
         /\ MadeOnce(p) <=> MadeOnce(s) /\ NewlyMade(e, s)
<1>1. PICK n : n = Len(s)
  OBVIOUS
<1>2. n \in Nat /\ DOMAIN s = 1..n /\ \A i \in 1..n : s[i] \in EntriesOf(s)
  BY <1>1, StackIndices
<1>3. DOMAIN p = 1..(n + 1) /\ p[n + 1] = e /\ \A i \in 1..n : p[i] = s[i]
  BY <1>1, <1>2, StackIndices DEF Pushed
<1>4. \A x \in EntriesOf(s) : \E i \in 1..n : s[i] = x
  BY <1>2 DEF EntriesOf
<1>5. ASSUME Distinct(s), NewLabel(e, s) PROVE Distinct(p)
  <2>1. SUFFICES ASSUME NEW i \in 1..(n + 1), NEW j \in 1..(n + 1), p[i].label = p[j].label PROVE i = j
    BY <1>3 DEF Distinct
  <2>2. (i \in 1..n \/ i = n + 1) /\ (j \in 1..n \/ j = n + 1)
    BY <1>2
  <2>3. CASE i \in 1..n /\ j \in 1..n
    BY <1>2, <1>3, <1>5, <2>1, <2>3 DEF Distinct
  <2>4. CASE i \in 1..n /\ j = n + 1
    BY <1>2, <1>3, <1>5, <2>1, <2>4 DEF NewLabel
  <2>5. CASE i = n + 1 /\ j \in 1..n
    BY <1>2, <1>3, <1>5, <2>1, <2>5 DEF NewLabel
  <2> QED
    BY <2>2, <2>3, <2>4, <2>5
<1>6. ASSUME Distinct(p) PROVE Distinct(s) /\ NewLabel(e, s)
  <2>1. Distinct(s)
    BY <1>2, <1>3, <1>6 DEF Distinct
  <2>2. \A i \in 1..n : i # n + 1 /\ i \in 1..(n + 1) /\ n + 1 \in 1..(n + 1)
    BY <1>2
  <2>3. \A i \in 1..n : s[i].label # e.label
    BY <1>3, <1>6, <2>2 DEF Distinct
  <2> QED
    BY <1>4, <2>1, <2>3 DEF NewLabel
<1>7. ASSUME MadeOnce(s), NewlyMade(e, s) PROVE MadeOnce(p)
  <2>1. SUFFICES ASSUME NEW i \in 1..(n + 1), NEW j \in 1..(n + 1), i < j,
                        p[j].inverse.kind = "RemoveAssignment"
                 PROVE  p[j].inverse.category \notin DOMAIN AssignmentsBy(p[i].inverse)
    BY <1>3 DEF MadeOnce
  <2>2. i \in 1..n /\ (j \in 1..n \/ j = n + 1)
    BY <1>2, <2>1
  <2>3. CASE j \in 1..n
    BY <1>2, <1>3, <1>7, <2>1, <2>2, <2>3 DEF MadeOnce
  <2>4. CASE j = n + 1
    BY <1>2, <1>3, <1>7, <2>1, <2>2, <2>4 DEF NewlyMade
  <2> QED
    BY <2>2, <2>3, <2>4
<1>8. ASSUME MadeOnce(p) PROVE MadeOnce(s) /\ NewlyMade(e, s)
  <2>1. MadeOnce(s)
    BY <1>2, <1>3, <1>8 DEF MadeOnce
  <2>2. \A i \in 1..n : i < n + 1 /\ i \in 1..(n + 1) /\ n + 1 \in 1..(n + 1)
    BY <1>2
  <2>3. e.inverse.kind = "RemoveAssignment" =>
          \A i \in 1..n : e.inverse.category \notin DOMAIN AssignmentsBy(s[i].inverse)
    BY <1>3, <1>8, <2>2 DEF MadeOnce
  <2> QED
    BY <1>4, <2>1, <2>3 DEF NewlyMade
<1> QED
  BY <1>5, <1>6, <1>7, <1>8

\* What is left of a stack without its oldest entries.
LEMMA TrimTells ==
  ASSUME NEW s, IsStack(s), NEW n, Trimmed(n, s), Distinct(s), MadeOnce(s)
  PROVE  Distinct(n) /\ MadeOnce(n)
<1>1. IsStack(n)
  BY DEF Trimmed
<1>2. PICK k, m : k = Len(s) /\ m = Len(n)
  OBVIOUS
<1>3. k \in Nat /\ DOMAIN s = 1..k /\ m \in Nat /\ DOMAIN n = 1..m
  BY <1>1, <1>2, StackIndices
<1>4. PICK d \in Nat : k = m + d /\ \A i \in 1..m : n[i] = s[i + d]
  BY <1>2 DEF Trimmed
<1>5. \A i \in 1..m : i + d \in 1..k
  BY <1>3, <1>4
<1>6. Distinct(n)
  <2>1. SUFFICES ASSUME NEW i \in 1..m, NEW j \in 1..m, n[i].label = n[j].label PROVE i = j
    BY <1>3 DEF Distinct
  <2>2. i + d = j + d
    BY <1>3, <1>4, <1>5, <2>1 DEF Distinct
  <2> QED
    BY <1>3, <2>2
<1>7. MadeOnce(n)
  <2>1. SUFFICES ASSUME NEW i \in 1..m, NEW j \in 1..m, i < j, n[j].inverse.kind = "RemoveAssignment"
                 PROVE  n[j].inverse.category \notin DOMAIN AssignmentsBy(n[i].inverse)
    BY <1>3 DEF MadeOnce
  <2>2. i + d < j + d /\ i + d \in 1..k /\ j + d \in 1..k
    BY <1>3, <1>5, <2>1
  <2>3. n[i] = s[i + d] /\ n[j] = s[j + d]
    BY <1>4
  <2> QED
    BY <1>3, <2>1, <2>2, <2>3 DEF MadeOnce
<1> QED
  BY <1>6, <1>7

\* The ghost remembers the step under its label, and keeps what else the stacks hold.
LEMMA Remembered ==
  ASSUME NEW label, Remember(label), NEW e \in EntriesOf(history'.undo) \union EntriesOf(history'.redo)
  PROVE  /\ e.label = label => Around(execution'[e.label])
         /\ e.label # label => execution'[e.label] = execution[e.label]
<1>1. e.label \in Kept
  BY DEF Kept, EntriesOf
<1> QED
  BY <1>1 DEF Remember, Around

\* An entry to undo stays exact while its assignment stays.
LEMMA UndoStays ==
  ASSUME NEW e, UndoOK(e), execution'[e.label] = execution[e.label],
         DOMAIN AssignmentsBy(e.inverse) \subseteq DOMAIN assignments'
  PROVE  UndoOK(e)'
BY DEF UndoOK

\* An entry to redo stays exact while its transactions stay.
LEMMA RedoStays ==
  ASSUME NEW e, RedoOK(e), execution'[e.label] = execution[e.label],
         DOMAIN transactions \subseteq DOMAIN transactions'
  PROVE  RedoOK(e)'
BY DEF RedoOK
-----------------------------------------------------------------------------
(* Each step keeps the entries exact                                       *)

\* What an undo executes is replayable or closes an account, and it makes what is to be redone.
LEMMA UndoneIsRedone ==
  ASSUME NEW e, UndoOK(e), Execute(e.inverse), NEW k, k = (IF inverse' = NoInverse THEN e.command ELSE inverse'),
         NEW d, d = Entry(e.label, k, e.inverse), Around(execution'[e.label])
  PROVE  RedoOK(d)'
<1>1. PICK c : c = e.inverse
  OBVIOUS
<1>2. c.kind \in Replayable \union {"CloseAccount"}
  BY <1>1 DEF UndoOK
<1>3. d.label = e.label /\ d.command = k
  BY DEF Entry
<1>4. PICK last : last = execution'[e.label]
  OBVIOUS
<1>5. Around(last)
  BY <1>4
<1>6. ASSUME k.kind \in Replayable \ {"RemoveAssignment"}, Reinserted(last) \/ Matches(k, last),
             DOMAIN Written(k) \subseteq DOMAIN transactions'
      PROVE  RedoOK(d)'
  BY <1>3, <1>4, <1>6 DEF RedoOK
<1>7. CASE inverse' = NoInverse
  <2>1. c.kind = "SaveTransaction" /\ c.id \in DOMAIN transactions' /\ c.id \notin DOMAIN transactions
    <3>1. inverse'.kind = "None"
      BY <1>7 DEF NoInverse
    <3>2. c.kind = "RemoveAssignment" => c.category \in DOMAIN assignments
      BY <1>1 DEF UndoOK, AssignmentsBy
    <3> QED
      BY <1>1, <1>2, <3>1, <3>2, InverseKinds DEF Replayable
  <2>2. k = e.command /\ k.kind = "SaveTransaction" /\ k.id = c.id
    BY <1>1, <1>7, <2>1 DEF UndoOK
  <2>3. DOMAIN Written(k) = {c.id}
    BY <2>2 DEF Written
  <2>4. Reinserted(last)
    BY <1>5, <2>1 DEF Around, Reinserted, rows
  <2> QED
    BY <1>6, <2>1, <2>2, <2>3, <2>4 DEF Replayable
<1>8. CASE inverse' # NoInverse
  <2>1. k = inverse'
    BY <1>8
  <2>2. c.kind # "CreateWithOpening"
    BY <1>2 DEF Replayable
  <2>3. k.kind \in Replayable /\ (Reinserted(last) \/ Matches(k, last))
    BY <1>1, <1>5, <1>8, <2>1, <2>2, InverseMatches
  <2>4. k.kind # "RemoveAssignment" /\ DOMAIN Written(k) \subseteq DOMAIN transactions'
    <3>1. CASE c.kind \in {"UpdateAccount", "CloseAccount"}
      <4>1. k.kind = "UpdateAccount"
        BY <1>1, <2>1, <3>1, InverseKinds
      <4> QED
        BY <4>1, WritesNothing
    <3>2. CASE c.kind = "SaveTransaction"
      <4>1. k.kind = "SaveTransaction" /\ k.id \in DOMAIN transactions'
        BY <1>1, <1>8, <2>1, <3>2, InverseKinds
      <4> QED
        BY <4>1 DEF Written
    <3>3. CASE c.kind = "Restore"
      <4>1. k.kind = "Restore" /\ DOMAIN k.prior \subseteq DOMAIN transactions
        BY <1>1, <2>1, <3>3, InverseKinds
      <4>2. DOMAIN transactions \subseteq DOMAIN transactions'
        BY <1>1, <3>3, RowsStay
      <4> QED
        BY <4>1, <4>2 DEF Written
    <3>4. CASE c.kind \in {"SetAssignment", "RemoveAssignment"}
      <4>1. c.category \in DOMAIN assignments
        BY <1>1, <3>4 DEF UndoOK, AssignmentsBy
      <4>2. k.kind = "SetAssignment"
        BY <1>1, <2>1, <3>4, <4>1, InverseKinds
      <4> QED
        BY <4>2, WritesNothing
    <3> QED
      BY <1>2, <3>1, <3>2, <3>3, <3>4 DEF Replayable
  <2> QED
    BY <1>6, <2>3, <2>4
<1> QED
  BY <1>7, <1>8

\* What a redo executes makes what takes it back.
LEMMA RedoneIsUndone ==
  ASSUME NEW e, RedoOK(e), Execute(e.command), NEW k, k = (IF inverse' = NoInverse THEN e.inverse ELSE inverse'),
         NEW d, d = Entry(e.label, e.command, k), Around(execution'[e.label])
  PROVE  /\ UndoOK(d)'
         /\ k.kind = "RemoveAssignment" => k.category \notin DOMAIN assignments
<1>1. PICK c : c = e.command
  OBVIOUS
<1>2. c.kind \in Replayable \ {"RemoveAssignment"} /\ DOMAIN Written(c) \subseteq DOMAIN transactions
  BY <1>1 DEF RedoOK
<1>3. PICK last : last = execution'[e.label]
  OBVIOUS
<1>4. Around(last)
  BY <1>3
<1>5. ~Inserts(c)
  BY <1>2 DEF Inserts, Written
<1>6. c.kind = "SaveTransaction" => c.id \in DOMAIN transactions
  BY <1>2 DEF Written
<1>7. inverse' # NoInverse
  <2>1. inverse'.kind # "None"
    BY <1>1, <1>2, <1>6, InverseKinds DEF Replayable
  <2> QED
    BY <2>1 DEF NoInverse
<1>8. k = inverse' /\ d.label = e.label /\ d.command = c /\ d.inverse = k
  BY <1>1, <1>7 DEF Entry
<1>9. c.kind # "CreateWithOpening"
  BY <1>2 DEF Replayable
<1>10. k.kind \in Replayable /\ Matches(k, last)
  BY <1>1, <1>4, <1>5, <1>7, <1>8, <1>9, InverseMatches
<1>11. /\ k.kind = "SaveTransaction" => c.kind = "SaveTransaction" /\ c.id = k.id
       /\ DOMAIN AssignmentsBy(k) \subseteq DOMAIN assignments'
       /\ k.kind = "RemoveAssignment" => k.category \notin DOMAIN assignments
  <2>1. CASE c.kind \in {"UpdateAccount", "Restore"}
    <3>1. k.kind \in {"UpdateAccount", "Restore"}
      BY <1>1, <1>8, <2>1, InverseKinds
    <3>2. DOMAIN AssignmentsBy(k) = {}
      BY <3>1, Unrelated
    <3> QED
      BY <3>1, <3>2
  <2>2. CASE c.kind = "SaveTransaction"
    <3>1. k.kind = "SaveTransaction" /\ k.id = c.id
      BY <1>1, <1>6, <1>8, <2>2, InverseKinds
    <3>2. DOMAIN AssignmentsBy(k) = {}
      BY <3>1, Unrelated
    <3> QED
      BY <2>2, <3>1, <3>2
  <2>3. CASE c.kind = "SetAssignment"
    <3>1. /\ c.category \in DOMAIN assignments' /\ k.category = c.category
          /\ k.kind = IF c.category \in DOMAIN assignments THEN "SetAssignment" ELSE "RemoveAssignment"
      BY <1>1, <1>8, <2>3, InverseKinds
    <3>2. DOMAIN AssignmentsBy(k) = {c.category}
      BY <3>1 DEF AssignmentsBy
    <3> QED
      BY <3>1, <3>2
  <2> QED
    BY <1>2, <2>1, <2>2, <2>3 DEF Replayable
<1>12. ~Created(d)
  BY <1>8, <1>9 DEF Created
<1>13. UndoOK(d)'
  BY <1>3, <1>8, <1>10, <1>11, <1>12 DEF UndoOK
<1> QED
  BY <1>11, <1>13

\* The commands of the screens.
Screened(c) ==
  c.kind \in {"UpdateAccount", "CreateWithOpening", "SaveTransaction", "SaveTransfer", "SetClearance",
              "Delete", "SetAssignment", "CompleteSnapshot"}
LEMMA CommittedIsUndone ==
  ASSUME NEW c, Screened(c), Execute(c), inverse' # NoInverse, NEW d, d.command = c, d.inverse = inverse',
         Around(execution'[d.label])
  PROVE  /\ UndoOK(d)'
         /\ d.inverse.kind = "RemoveAssignment" => d.inverse.category \notin DOMAIN assignments
<1>1. PICK k, last : k = inverse' /\ last = execution'[d.label]
  OBVIOUS
<1>2. Around(last) /\ d.inverse = k /\ d.command = c /\ ~Inserts(c)
  BY <1>1 DEF Inserts, Screened
<1>3. CASE c.kind = "CreateWithOpening"
  <2>1. k.kind = "CloseAccount" /\ Created(d)
    BY <1>1, <1>2, <1>3, InverseKinds DEF Created
  <2>2. DOMAIN AssignmentsBy(k) = {}
    BY <2>1, Unrelated
  <2> QED
    BY <1>2, <2>1, <2>2 DEF UndoOK, Created
<1>4. CASE c.kind # "CreateWithOpening"
  <2>1. k.kind \in Replayable /\ Matches(k, last) /\ ~Created(d)
    BY <1>1, <1>2, <1>4, InverseMatches DEF Created
  <2>2. /\ k.kind = "SaveTransaction" => c.kind = "SaveTransaction" /\ c.id = k.id
        /\ DOMAIN AssignmentsBy(k) \subseteq DOMAIN assignments'
        /\ k.kind = "RemoveAssignment" => k.category \notin DOMAIN assignments
    <3>1. CASE c.kind \in {"UpdateAccount", "SetClearance", "Delete"}
      <4>1. k.kind \in {"UpdateAccount", "Restore"}
        BY <1>1, <3>1, InverseKinds
      <4>2. DOMAIN AssignmentsBy(k) = {}
        BY <4>1, Unrelated
      <4> QED
        BY <4>1, <4>2
    <3>2. CASE c.kind = "SaveTransaction"
      <4>1. k.kind = "SaveTransaction" /\ k.id = c.id
        BY <1>1, <3>2, InverseKinds
      <4>2. DOMAIN AssignmentsBy(k) = {}
        BY <4>1, Unrelated
      <4> QED
        BY <3>2, <4>1, <4>2
    <3>3. CASE c.kind = "SetAssignment"
      <4>1. /\ c.category \in DOMAIN assignments' /\ k.category = c.category
            /\ k.kind = IF c.category \in DOMAIN assignments THEN "SetAssignment" ELSE "RemoveAssignment"
        BY <1>1, <3>3, InverseKinds
      <4>2. DOMAIN AssignmentsBy(k) = {c.category}
        BY <4>1 DEF AssignmentsBy
      <4> QED
        BY <4>1, <4>2
    <3>4. CASE c.kind \in {"SaveTransfer", "CompleteSnapshot"}
      BY <3>4, InverseKinds
    <3> QED
      BY <1>4, <3>1, <3>2, <3>3, <3>4 DEF Screened
  <2> QED
    BY <1>1, <1>2, <2>1, <2>2 DEF UndoOK, Created
<1> QED
  BY <1>3, <1>4

\* An undo keeps the stacks exact.
LEMMA UndoKeepsExact ==
  ASSUME ExactInv, Undo
  PROVE  ExactInv'
<1>1. PICK u, r, p, q : u = history.undo /\ r = history.redo /\ p = history'.undo /\ q = history'.redo
  OBVIOUS
<1>2. PICK e, k : e = Top(u) /\ k = IF inverse' = NoInverse THEN e.command ELSE inverse'
  OBVIOUS
<1>3. PICK d : d = Entry(e.label, k, e.inverse)
  OBVIOUS
<1>4. IsHistory(history') /\ Pushed(u, p, e) /\ Pushed(q, r, d)
  BY <1>1, <1>2, <1>3, UndoMoves DEF ExactInv
<1>5. IsStack(p) /\ IsStack(q) /\ IsStack(u) /\ IsStack(r)
  BY <1>1, <1>4 DEF IsHistory, ExactInv
<1>6. EntriesOf(u) = EntriesOf(p) \union {e} /\ EntriesOf(q) = EntriesOf(r) \union {d} /\ d.label = e.label
  BY <1>3, <1>4 DEF Pushed, Entry
<1>7. Distinct(p) /\ NewLabel(e, p) /\ MadeOnce(p) /\ NewlyMade(e, p)
  BY <1>1, <1>4, <1>5, PushTells DEF ExactInv
<1>8. NewLabel(d, r)
  BY <1>1, <1>6 DEF NewLabel, ExactInv, Apart
<1>9. Distinct(q)
  BY <1>1, <1>4, <1>5, <1>8, PushTells DEF ExactInv
<1>10. Apart(p, q)
  BY <1>1, <1>6, <1>7 DEF ExactInv, Apart, NewLabel
<1>11. committed' \in Nat /\ Numbered(p, committed') /\ Numbered(q, committed')
  BY <1>1, <1>6 DEF ExactInv, Numbered, Undo
<1>12. HistoryCapacity # 0
  BY DEF ExactInv, Undo, CanUndo
<1>13. PICK c : c = e.inverse /\ Execute(c)
  BY <1>1, <1>2 DEF Undo, NextUndo
<1>14. UndoOK(e) /\ c.kind \in Replayable \union {"CloseAccount"}
  BY <1>1, <1>6, <1>13 DEF ExactInv, UndoOK
<1>15. Remember(e.label)
  BY <1>1, <1>2 DEF Undo
<1>16. ASSUME NEW x \in EntriesOf(p) PROVE UndoOK(x)'
  <2>1. UndoOK(x) /\ x.label # e.label
    BY <1>1, <1>6, <1>7, <1>16 DEF ExactInv, NewLabel
  <2>2. execution'[x.label] = execution[x.label]
    BY <1>1, <1>15, <1>16, <2>1, Remembered
  <2>3. DOMAIN AssignmentsBy(x.inverse) \subseteq DOMAIN assignments'
    <3>1. DOMAIN AssignmentsBy(x.inverse) \subseteq DOMAIN assignments
      BY <2>1 DEF UndoOK
    <3>2. c.kind = "RemoveAssignment" => c.category \notin DOMAIN AssignmentsBy(x.inverse)
      BY <1>7, <1>13, <1>16 DEF NewlyMade
    <3> QED
      BY <1>13, <3>1, <3>2, RowsStay
  <2> QED
    BY <2>1, <2>2, <2>3, UndoStays
<1>17. ASSUME NEW x \in EntriesOf(q) PROVE RedoOK(x)'
  <2>1. CASE x = d
    <3>1. Around(execution'[e.label])
      BY <1>1, <1>6, <1>15, <1>17, <2>1, Remembered
    <3>2. RedoOK(d)'
      BY <1>2, <1>3, <1>13, <1>14, <3>1, UndoneIsRedone
    <3> QED
      BY <2>1, <3>2
  <2>2. CASE x \in EntriesOf(r)
    <3>1. RedoOK(x) /\ x.label # e.label
      BY <1>1, <1>6, <1>8, <2>2 DEF ExactInv, NewLabel
    <3>2. execution'[x.label] = execution[x.label]
      BY <1>1, <1>15, <1>17, <3>1, Remembered
    <3>3. DOMAIN transactions \subseteq DOMAIN transactions'
      BY <1>13, <1>14, RowsStay DEF Replayable
    <3> QED
      BY <3>1, <3>2, <3>3, RedoStays
  <2> QED
    BY <1>6, <2>1, <2>2
<1> QED
  BY <1>1, <1>4, <1>7, <1>9, <1>10, <1>11, <1>12, <1>16, <1>17 DEF ExactInv

\* A redo keeps them exact.
LEMMA RedoKeepsExact ==
  ASSUME ExactInv, Redo
  PROVE  ExactInv'
<1>1. PICK u, r, p, q : u = history.undo /\ r = history.redo /\ p = history'.undo /\ q = history'.redo
  OBVIOUS
<1>2. PICK e, k : e = Top(r) /\ k = IF inverse' = NoInverse THEN e.inverse ELSE inverse'
  OBVIOUS
<1>3. PICK d : d = Entry(e.label, e.command, k)
  OBVIOUS
<1>4. IsHistory(history') /\ Pushed(r, q, e) /\ Pushed(p, u, d)
  BY <1>1, <1>2, <1>3, RedoMoves DEF ExactInv
<1>5. IsStack(p) /\ IsStack(q) /\ IsStack(u) /\ IsStack(r)
  BY <1>1, <1>4 DEF IsHistory, ExactInv
<1>6. /\ EntriesOf(r) = EntriesOf(q) \union {e} /\ EntriesOf(p) = EntriesOf(u) \union {d}
      /\ d.label = e.label /\ d.inverse = k
  BY <1>3, <1>4 DEF Pushed, Entry
<1>7. Distinct(q) /\ NewLabel(e, q)
  BY <1>1, <1>4, <1>5, PushTells DEF ExactInv
<1>8. NewLabel(d, u)
  BY <1>1, <1>6 DEF NewLabel, ExactInv, Apart
<1>9. PICK c : c = e.command /\ Execute(c)
  BY <1>1, <1>2 DEF Redo, NextRedo
<1>10. RedoOK(e) /\ c.kind \in Replayable \ {"RemoveAssignment"}
  BY <1>1, <1>6, <1>9 DEF ExactInv, RedoOK
<1>11. Remember(e.label)
  BY <1>1, <1>2 DEF Redo
<1>12. Around(execution'[e.label])
  <2>1. d \in EntriesOf(history'.undo)
    BY <1>1, <1>6
  <2> QED
    BY <1>6, <1>11, <2>1, Remembered
<1>13. /\ UndoOK(d)'
       /\ k.kind = "RemoveAssignment" => k.category \notin DOMAIN assignments
  BY <1>2, <1>3, <1>9, <1>10, <1>12, RedoneIsUndone
<1>14. NewlyMade(d, u)
  <2>1. \A x \in EntriesOf(u) : DOMAIN AssignmentsBy(x.inverse) \subseteq DOMAIN assignments
    BY <1>1 DEF ExactInv, UndoOK
  <2> QED
    BY <1>6, <1>13, <2>1 DEF NewlyMade
<1>15. Distinct(p) /\ MadeOnce(p)
  BY <1>1, <1>4, <1>5, <1>8, <1>14, PushTells DEF ExactInv
<1>16. Apart(p, q)
  BY <1>1, <1>6, <1>7 DEF ExactInv, Apart, NewLabel
<1>17. committed' \in Nat /\ Numbered(p, committed') /\ Numbered(q, committed')
  BY <1>1, <1>6 DEF ExactInv, Numbered, Redo
<1>18. HistoryCapacity # 0
  BY DEF ExactInv, Redo, CanRedo
<1>19. DOMAIN transactions \subseteq DOMAIN transactions' /\ DOMAIN assignments \subseteq DOMAIN assignments'
  BY <1>9, <1>10, RowsStay DEF Replayable
<1>20. ASSUME NEW x \in EntriesOf(p) PROVE UndoOK(x)'
  <2>1. CASE x = d
    BY <1>13, <2>1
  <2>2. CASE x \in EntriesOf(u)
    <3>1. UndoOK(x) /\ x.label # e.label
      BY <1>1, <1>6, <1>8, <2>2 DEF ExactInv, NewLabel
    <3>2. execution'[x.label] = execution[x.label]
      BY <1>1, <1>11, <1>20, <3>1, Remembered
    <3>3. DOMAIN AssignmentsBy(x.inverse) \subseteq DOMAIN assignments'
      BY <1>19, <3>1 DEF UndoOK
    <3> QED
      BY <3>1, <3>2, <3>3, UndoStays
  <2> QED
    BY <1>6, <2>1, <2>2
<1>21. ASSUME NEW x \in EntriesOf(q) PROVE RedoOK(x)'
  <2>1. RedoOK(x) /\ x.label # e.label
    BY <1>1, <1>6, <1>7, <1>21 DEF ExactInv, NewLabel
  <2>2. execution'[x.label] = execution[x.label]
    BY <1>1, <1>11, <1>21, <2>1, Remembered
  <2> QED
    BY <1>19, <2>1, <2>2, RedoStays
<1> QED
  BY <1>1, <1>4, <1>7, <1>15, <1>16, <1>17, <1>18, <1>20, <1>21 DEF ExactInv

\* A command of a screen keeps them exact.
LEMMA CommitKeepsExact ==
  ASSUME ExactInv, NEW c, Screened(c), Commit(c)
  PROVE  ExactInv'
<1>1. PICK u, r, p, q : u = history.undo /\ r = history.redo /\ p = history'.undo /\ q = history'.redo
  OBVIOUS
<1>2. PICK d : d = Entry(committed + 1, c, inverse')
  OBVIOUS
<1>3. d.label = committed + 1 /\ d.command = c /\ d.inverse = inverse'
  BY <1>2 DEF Entry
<1>4. Execute(c) /\ committed' = committed + 1 /\ Remember(d.label)
  BY <1>3 DEF Commit
<1>5. committed \in Nat /\ committed' \in Nat
  BY <1>4 DEF ExactInv
<1>6. DOMAIN assignments \subseteq DOMAIN assignments'
  BY <1>4, RowsStay DEF Screened
<1>7. IsStack(u) /\ IsStack(r)
  BY <1>1 DEF IsHistory, ExactInv
<1>8. NewLabel(d, u) /\ NewLabel(d, r)
  BY <1>1, <1>3, <1>5 DEF NewLabel, ExactInv, Numbered
<1>9. ASSUME NEW x \in EntriesOf(p), x \in EntriesOf(u) PROVE UndoOK(x)'
  <2>1. UndoOK(x) /\ x.label # d.label
    BY <1>1, <1>8, <1>9 DEF ExactInv, NewLabel
  <2>2. execution'[x.label] = execution[x.label]
    BY <1>1, <1>4, <1>9, <2>1, Remembered
  <2>3. DOMAIN AssignmentsBy(x.inverse) \subseteq DOMAIN assignments'
    BY <1>6, <2>1 DEF UndoOK
  <2> QED
    BY <2>1, <2>2, <2>3, UndoStays
<1>10. CASE history' = history /\ (inverse' = NoInverse \/ HistoryCapacity = 0)
  <2>1. p = u /\ q = r
    BY <1>1, <1>10
  <2>2. Numbered(p, committed') /\ Numbered(q, committed')
    BY <1>1, <1>4, <1>5, <2>1 DEF ExactInv, Numbered
  <2>3. ASSUME NEW x \in EntriesOf(q) PROVE RedoOK(x)'
    <3>1. HistoryCapacity # 0
      BY <1>1, <2>1, <2>3 DEF ExactInv, EntriesOf
    <3>2. inverse'.kind = "None"
      BY <1>10, <3>1 DEF NoInverse
    <3>3. c.kind # "Delete"
      BY <1>4, <3>2, InverseKinds
    <3>4. DOMAIN transactions \subseteq DOMAIN transactions'
      BY <1>4, <3>3, RowsStay
    <3>5. RedoOK(x) /\ x.label # d.label
      BY <1>1, <1>8, <2>1, <2>3 DEF ExactInv, NewLabel
    <3>6. execution'[x.label] = execution[x.label]
      BY <1>1, <1>4, <2>3, <3>5, Remembered
    <3> QED
      BY <3>4, <3>5, <3>6, RedoStays
  <2>4. \A x \in EntriesOf(p) : UndoOK(x)'
    BY <1>9, <2>1
  <2> QED
    BY <1>1, <1>5, <1>10, <2>1, <2>2, <2>3, <2>4 DEF ExactInv
<1>11. CASE inverse' # NoInverse /\ HistoryCapacity # 0 /\ Recorded(history, history', d)
  <2>1. q = <<>>
    BY <1>1, <1>11 DEF Recorded
  <2>2. PICK s : Pushed(s, u, d) /\ Trimmed(p, s)
    BY <1>1, <1>11 DEF Recorded
  <2>3. IsHistory(history')
    BY <1>2, CommitRecords DEF ExactInv
  <2>4. EntriesOf(s) = EntriesOf(u) \union {d} /\ EntriesOf(p) \subseteq EntriesOf(s) /\ IsStack(s)
    BY <2>2 DEF Pushed, Trimmed
  <2>5. d \in EntriesOf(p) =>
          /\ UndoOK(d)'
          /\ d.inverse.kind = "RemoveAssignment" => d.inverse.category \notin DOMAIN assignments
    <3>1. SUFFICES ASSUME d \in EntriesOf(p)
                   PROVE  /\ UndoOK(d)'
                          /\ d.inverse.kind = "RemoveAssignment" => d.inverse.category \notin DOMAIN assignments
      OBVIOUS
    <3>2. Around(execution'[d.label])
      BY <1>1, <1>4, <3>1, Remembered
    <3> QED
      BY <1>3, <1>4, <1>11, <3>2, CommittedIsUndone
  <2>6. d.inverse.kind = "RemoveAssignment" => d.inverse.category \notin DOMAIN assignments
    <3>1. SUFFICES ASSUME d.inverse.kind = "RemoveAssignment" PROVE d.inverse.category \notin DOMAIN assignments
      OBVIOUS
    <3>2. c.kind = "SetAssignment"
      BY <1>3, <1>4, <1>11, <3>1, InverseKinds DEF Screened
    <3> QED
      BY <1>3, <1>4, <3>1, <3>2, InverseKinds
  <2>7. NewlyMade(d, u)
    <3>1. \A x \in EntriesOf(u) : DOMAIN AssignmentsBy(x.inverse) \subseteq DOMAIN assignments
      BY <1>1 DEF ExactInv, UndoOK
    <3> QED
      BY <2>6, <3>1 DEF NewlyMade
  <2>8. Distinct(s) /\ MadeOnce(s)
    BY <1>1, <1>7, <1>8, <2>2, <2>7, PushTells DEF ExactInv
  <2>9. Distinct(p) /\ MadeOnce(p)
    BY <2>2, <2>4, <2>8, TrimTells
  <2>10. EntriesOf(q) = {}
    BY <2>1 DEF EntriesOf
  <2>11. Distinct(q) /\ Apart(p, q) /\ Numbered(q, committed')
    BY <2>1, <2>10 DEF Distinct, Apart, Numbered
  <2>12. Numbered(p, committed')
    BY <1>1, <1>3, <1>4, <1>5, <2>4 DEF ExactInv, Numbered
  <2>13. \A x \in EntriesOf(p) : UndoOK(x)'
    BY <1>9, <2>4, <2>5
  <2>14. \A x \in EntriesOf(q) : RedoOK(x)'
    BY <2>10
  <2> QED
    BY <1>1, <1>5, <1>11, <2>3, <2>9, <2>11, <2>12, <2>13, <2>14 DEF ExactInv
<1>12. \/ history' = history /\ (inverse' = NoInverse \/ HistoryCapacity = 0)
       \/ inverse' # NoInverse /\ HistoryCapacity # 0 /\ Recorded(history, history', d)
  BY <1>2, CommitRecords DEF ExactInv
<1> QED
  BY <1>10, <1>11, <1>12

\* Every step keeps them exact.
LEMMA ExactStep ==
  ASSUME ExactInv, [Next]_vars
  PROVE  ExactInv'
<1>0. ASSUME NEW c, Commit(c),
             \/ c.kind \in {"UpdateAccount", "CreateWithOpening", "SaveTransaction", "SaveTransfer"}
             \/ c.kind \in {"SetClearance", "Delete", "SetAssignment", "CompleteSnapshot"}
      PROVE  ExactInv'
  BY <1>0, CommitKeepsExact DEF Screened
<1>1. CASE EditAccounts
  <2>1. ASSUME NEW a, NEW n, EditAccount(a, n) PROVE ExactInv'
    <3>1. PICK c : c = UpdateAccount(a, [name |-> n, closed |-> FALSE]) /\ Commit(c)
      BY <2>1 DEF EditAccount
    <3> QED
      BY <1>0, <3>1 DEF UpdateAccount
  <2>2. ASSUME NEW n, NEW opening, CreateAccount(n, opening) PROVE ExactInv'
    <3>1. PICK c : /\ c = CreateWithOpening(NewId(AccountIds), n, NewId(TransactionIds), opening)
                   /\ Commit(c)
      BY <2>2 DEF CreateAccount
    <3> QED
      BY <1>0, <3>1 DEF CreateWithOpening
  <2>3. ASSUME NEW a, Reconcile(a) PROVE ExactInv'
    <3>1. PICK c : c = CompleteSnapshot(a, {}) /\ Commit(c)
      BY <2>3 DEF Reconcile
    <3> QED
      BY <1>0, <3>1 DEF CompleteSnapshot
  <2> QED
    BY <1>1, <2>1, <2>2, <2>3 DEF EditAccounts
<1>2. CASE EditTransactions
  <2>1. ASSUME NEW a, NEW v, NEW s, EnterTransaction(a, v, s) PROVE ExactInv'
    <3>1. PICK c : c = SaveTransaction(NewId(TransactionIds), PlainRow(a, v, s)) /\ Commit(c)
      BY <2>1 DEF EnterTransaction
    <3> QED
      BY <1>0, <3>1 DEF SaveTransaction
  <2>2. ASSUME NEW t, NEW a, NEW v, NEW s, EditTransaction(t, a, v, s) PROVE ExactInv'
    <3>1. PICK c : c = SaveTransaction(t, PlainRow(a, v, s)) /\ Commit(c)
      BY <2>2 DEF EditTransaction
    <3> QED
      BY <1>0, <3>1 DEF SaveTransaction
  <2>3. ASSUME NEW legs, Commit(SaveTransfer(legs)) PROVE ExactInv'
    <3>1. PICK c : c = SaveTransfer(legs) /\ Commit(c)
      BY <2>3
    <3> QED
      BY <1>0, <3>1 DEF SaveTransfer
  <2>4. ASSUME NEW from, NEW to, NEW v, EnterTransfer(from, to, v) PROVE ExactInv'
    BY <2>3, <2>4 DEF EnterTransfer
  <2>5. ASSUME NEW s, NEW d, NEW from, NEW to, NEW v, EditTransfer(s, d, from, to, v) PROVE ExactInv'
    BY <2>3, <2>5 DEF EditTransfer
  <2>6. ASSUME NEW t, MarkCleared(t) PROVE ExactInv'
    <3>1. PICK mark, c : c = SetClearance({t}, mark) /\ Commit(c)
      BY <2>6 DEF MarkCleared
    <3> QED
      BY <1>0, <3>1 DEF SetClearance
  <2>7. ASSUME NEW ids, DeleteSelected(ids) PROVE ExactInv'
    <3>1. PICK c : c = Delete(ids) /\ Commit(c)
      BY <2>7 DEF DeleteSelected
    <3> QED
      BY <1>0, <3>1 DEF Delete
  <2> QED
    BY <1>2, <2>1, <2>2, <2>4, <2>5, <2>6, <2>7 DEF EditTransactions
<1>3. CASE EditAssignments
  <2>1. PICK c : Screened(c) /\ Commit(c)
    BY <1>3 DEF EditAssignments, Assign, Screened, SetAssignment
  <2> QED
    BY <2>1, CommitKeepsExact
<1>4. CASE UNCHANGED vars
  <2>1. UNCHANGED <<history, committed, execution, transactions, assignments>>
    BY <1>4 DEF vars, executorVars, editsVars
  <2>2. \A e : UndoOK(e)' <=> UndoOK(e)
    BY <2>1 DEF UndoOK
  <2>3. \A e : RedoOK(e)' <=> RedoOK(e)
    BY <2>1 DEF RedoOK
  <2> QED
    BY <2>1, <2>2, <2>3 DEF ExactInv
<1> QED
  BY <1>1, <1>2, <1>3, <1>4, UndoKeepsExact, RedoKeepsExact DEF Next

\* The stacks are exact when the session begins.
LEMMA ExactInit ==
  ASSUME Init
  PROVE  ExactInv
<1>1. history = [undo |-> <<>>, redo |-> <<>>] /\ committed = 0
  BY DEF Init, EmptyHistory
<1>2. IsStack(<<>>) /\ EntriesOf(<<>>) = {}
  BY DEF IsStack, EntriesOf
<1>3. IsHistory(history)
  BY <1>1, <1>2 DEF IsHistory
<1>4. Distinct(<<>>) /\ MadeOnce(<<>>)
  BY DEF Distinct, MadeOnce
<1> QED
  BY <1>1, <1>2, <1>3, <1>4 DEF ExactInv, Numbered, Apart

\* A step that moves an entry of exact stacks takes back what the entry last did.
LEMMA ExactMoves ==
  ASSUME ExactInv
  PROVE  /\ Undo => Created(LastDone) \/ TakesBack(execution[LastDone.label])
         /\ Redo => Reinserted(execution[LastUndone.label]) \/ TakesBack(execution[LastUndone.label])
<1>1. ASSUME Undo, ~Created(LastDone) PROVE TakesBack(execution[LastDone.label])
  <2>1. PICK e, c, last : e = LastDone /\ c = e.inverse /\ last = execution[e.label]
    OBVIOUS
  <2>2. Pushed(history.undo, history'.undo, e)
    BY <1>1, <2>1, UndoMoves DEF ExactInv, LastDone
  <2>3. UndoOK(e) /\ Execute(c)
    BY <1>1, <2>1, <2>2 DEF ExactInv, Pushed, Undo, NextUndo, LastDone
  <2>4. c.kind \in Replayable /\ Matches(c, last)
    BY <1>1, <2>1, <2>3 DEF UndoOK
  <2> QED
    BY <2>1, <2>3, <2>4, MatchTakesBack
<1>2. ASSUME Redo, ~Reinserted(execution[LastUndone.label]) PROVE TakesBack(execution[LastUndone.label])
  <2>1. PICK e, c, last : e = LastUndone /\ c = e.command /\ last = execution[e.label]
    OBVIOUS
  <2>2. Pushed(history.redo, history'.redo, e)
    BY <1>2, <2>1, RedoMoves DEF ExactInv, LastUndone
  <2>3. RedoOK(e) /\ Execute(c)
    BY <1>2, <2>1, <2>2 DEF ExactInv, Pushed, Redo, NextRedo, LastUndone
  <2>4. c.kind \in Replayable /\ Matches(c, last)
    BY <1>2, <2>1, <2>3 DEF RedoOK
  <2> QED
    BY <2>1, <2>3, <2>4, MatchTakesBack
<1> QED
  BY <1>1, <1>2

\* However edits, undos and redos alternate, an undo takes back what the last execution of its
\* entry did and touches nothing else, and a redo takes back what the undo did; the two
\* exceptions that HistoryIsExact names are the only ones.
THEOREM HistoryTakesBack == Spec => HistoryIsExact
<1>1. Init => ExactInv
  BY ExactInit
<1>2. ExactInv /\ [Next]_vars => ExactInv'
  BY ExactStep
<1>3. ExactInv =>
        /\ Undo => Created(LastDone) \/ TakesBack(execution[LastDone.label])
        /\ Redo => Reinserted(execution[LastUndone.label]) \/ TakesBack(execution[LastUndone.label])
  BY ExactMoves
<1> QED
  BY <1>1, <1>2, <1>3, PTL DEF Spec, HistoryIsExact
-----------------------------------------------------------------------------
(* What the stacks hold is never refused, but for a name                   *)

\* The accounts that a command names.
AccountsOf(c) ==
  {Written(c)[t].account : t \in DOMAIN Written(c)}
    \union {a \in {c.account} : c.kind \in {"UpdateAccount", "CloseAccount"}}

\* Every transaction is of an account that there is, and so is all that the stacks hold.
RefersInv ==
  /\ ExactInv
  /\ \A t \in DOMAIN transactions : transactions[t].account \in DOMAIN accounts
  /\ \A c \in OnStacks(history) : AccountsOf(c) \subseteq DOMAIN accounts

\* The conditions under which the executor accepts what the stacks can hold.
Allowed(c) ==
  /\ c.kind \in Replayable \union {"CloseAccount"}
  /\ c.kind \in {"UpdateAccount", "CloseAccount"} => c.account \in DOMAIN accounts
  /\ c.kind = "UpdateAccount" => NameFree(c.account, c.row.name)
  /\ c.kind = "SaveTransaction" => AccountExists(c.row)
  /\ c.kind = "Restore" => \A t \in DOMAIN c.prior : AccountExists(c.prior[t])

\* The accounts of rows written and of rows kept.
LEMMA AccountsWritten ==
  ASSUME NEW f, NEW new, NEW ids, \A t \in DOMAIN f : f[t].account \in ids,
         \A t \in DOMAIN new : new[t].account \in ids, NEW g, g = PutAll(f, new)
  PROVE  \A t \in DOMAIN g : g[t].account \in ids
BY DEF PutAll

\* What a command writes and leaves, and what would take it back, names accounts that there are.
LEMMA CommandRefers ==
  ASSUME \A t \in DOMAIN transactions : transactions[t].account \in DOMAIN accounts, NEW c, Execute(c)
  PROVE  /\ DOMAIN accounts \subseteq DOMAIN accounts'
         /\ \A t \in DOMAIN transactions' : transactions'[t].account \in DOMAIN accounts'
         /\ AccountsOf(c) \subseteq DOMAIN accounts'
         /\ AccountsOf(inverse') \subseteq DOMAIN accounts'
<1>1. PICK f, g, w, i, ids, more : /\ f = transactions /\ g = transactions' /\ w = Written(c) /\ i = inverse'
                                   /\ ids = DOMAIN accounts /\ more = DOMAIN accounts'
  OBVIOUS
<1>2. \A t \in DOMAIN f : f[t].account \in ids
  BY <1>1
<1>3. ids \subseteq more
  BY <1>1 DEF Execute, ApplyUpdateAccount, ApplyCreateWithOpening, ApplyCloseAccount, ApplySaveTransaction,
     ApplySaveTransfer, ApplySetAssignment, ApplyRemoveAssignment, ApplyCompleteSnapshot, ApplySetClearance,
     ApplyDelete, ApplyRestore, Put
<1>4. ASSUME NEW x, x.kind \notin {"SaveTransaction", "SaveTransfer", "Restore", "CreateWithOpening",
                                   "UpdateAccount", "CloseAccount"}
      PROVE  AccountsOf(x) = {}
  <2>1. DOMAIN Written(x) = {}
    BY <1>4, WritesNothing
  <2> QED
    BY <1>4, <2>1 DEF AccountsOf
<1>5. ASSUME NEW x, x.kind \in {"UpdateAccount", "CloseAccount"} PROVE AccountsOf(x) = {x.account}
  <2>1. DOMAIN Written(x) = {}
    BY <1>5, WritesNothing
  <2> QED
    BY <1>5, <2>1 DEF AccountsOf
<1>6. ASSUME NEW x, x.kind \in {"SaveTransaction", "SaveTransfer", "Restore", "CreateWithOpening"}
      PROVE  AccountsOf(x) = {Written(x)[t].account : t \in DOMAIN Written(x)}
  BY <1>6 DEF AccountsOf
<1>0. ASSUME c.kind \in {"SaveTransaction", "SaveTransfer", "Restore", "CreateWithOpening"},
             \A t \in DOMAIN w : w[t].account \in more
      PROVE  AccountsOf(c) \subseteq more
  BY <1>0, <1>1, <1>6
<1>7. ASSUME NEW a \in ids, NEW row, i = UpdateAccount(a, row) PROVE AccountsOf(i) \subseteq more
  <2>1. i.kind = "UpdateAccount" /\ i.account = a
    BY <1>7 DEF UpdateAccount
  <2> QED
    BY <1>3, <1>5, <2>1
<1>8. ASSUME NEW part, i = Restore(part), \A t \in DOMAIN part : t \in DOMAIN f /\ part[t] = f[t]
      PROVE  AccountsOf(i) \subseteq more
  <2>1. i.kind = "Restore" /\ Written(i) = part
    BY <1>8 DEF Restore, Written
  <2> QED
    BY <1>2, <1>3, <1>6, <1>8, <2>1
<1>9. CASE ApplyUpdateAccount(c)
  <2>1. c.kind = "UpdateAccount" /\ c.account \in ids /\ i = UpdateAccount(c.account, accounts[c.account]) /\ g = f
    BY <1>1, <1>9 DEF ApplyUpdateAccount
  <2>2. AccountsOf(c) = {c.account}
    BY <1>5, <2>1
  <2> QED
    BY <1>1, <1>2, <1>3, <1>7, <2>1, <2>2
<1>10. CASE ApplyCloseAccount(c)
  <2>1. c.kind = "CloseAccount" /\ c.account \in ids /\ i = UpdateAccount(c.account, accounts[c.account]) /\ g = f
    BY <1>1, <1>10 DEF ApplyCloseAccount
  <2>2. AccountsOf(c) = {c.account}
    BY <1>5, <2>1
  <2> QED
    BY <1>1, <1>2, <1>3, <1>7, <2>1, <2>2
<1>11. CASE ApplyCreateWithOpening(c)
  <2>1. c.kind = "CreateWithOpening" /\ c.account \in more /\ i = CloseAccount(c.account)
    BY <1>1, <1>11 DEF ApplyCreateWithOpening, Put
  <2>2. i.kind = "CloseAccount" /\ i.account = c.account
    BY <2>1 DEF CloseAccount
  <2>3. AccountsOf(i) \subseteq more
    BY <1>5, <2>1, <2>2
  <2>4. CASE c.opening = 0
    <3>1. DOMAIN w = {} /\ g = f
      BY <1>1, <1>11, <2>1, <2>4 DEF ApplyCreateWithOpening, Written
    <3>2. AccountsOf(c) = {}
      BY <1>1, <1>6, <2>1, <3>1
    <3> QED
      BY <1>1, <1>2, <1>3, <2>3, <3>1, <3>2
  <2>5. CASE c.opening # 0
    <3>1. PICK row : row = [account |-> c.account, amount |-> c.opening,
                            clearance |-> "Cleared", transfer |-> NoTransfer]
      OBVIOUS
    <3>2. w = [t \in {c.id} |-> row] /\ row.account = c.account
      BY <1>1, <2>1, <2>5, <3>1 DEF Written
    <3>3. g = Put(f, c.id, row)
      BY <1>1, <1>11, <2>5, <3>1 DEF ApplyCreateWithOpening
    <3>4. \A t \in DOMAIN g : g[t].account \in more
      BY <1>2, <1>3, <2>1, <3>2, <3>3 DEF Put
    <3>5. AccountsOf(c) \subseteq more
      <4>1. \A t \in DOMAIN w : w[t].account \in more
        BY <2>1, <3>2
      <4> QED
        BY <1>0, <2>1, <4>1
    <3> QED
      BY <1>1, <1>3, <2>3, <3>4, <3>5
  <2> QED
    BY <2>4, <2>5
<1>12. CASE ApplySaveTransaction(c)
  <2>1. c.kind = "SaveTransaction" /\ c.row.account \in ids /\ g = Put(f, c.id, c.row)
    BY <1>1, <1>12 DEF ApplySaveTransaction, AccountExists
  <2>2. w = [t \in {c.id} |-> c.row]
    BY <1>1, <2>1 DEF Written
  <2>3. AccountsOf(c) \subseteq more
    <3>1. \A t \in DOMAIN w : w[t].account \in more
      BY <1>3, <2>1, <2>2
    <3> QED
      BY <1>0, <2>1, <3>1
  <2>4. \A t \in DOMAIN g : g[t].account \in more
    BY <1>2, <1>3, <2>1 DEF Put
  <2>5. AccountsOf(i) \subseteq more
    <3>1. CASE c.id \in DOMAIN f
      <4>1. i = SaveTransaction(c.id, f[c.id])
        BY <1>1, <1>12, <3>1 DEF ApplySaveTransaction
      <4>2. i.kind = "SaveTransaction" /\ Written(i) = [t \in {c.id} |-> f[c.id]]
        BY <4>1 DEF SaveTransaction, Written
      <4> QED
        BY <1>2, <1>3, <1>6, <3>1, <4>2
    <3>2. CASE c.id \notin DOMAIN f
      <4>1. i.kind = "None"
        BY <1>1, <1>12, <3>2 DEF ApplySaveTransaction, NoInverse
      <4> QED
        BY <1>4, <4>1
    <3> QED
      BY <3>1, <3>2
  <2> QED
    BY <1>1, <1>3, <2>3, <2>4, <2>5
<1>13. CASE ApplySaveTransfer(c)
  <2>1. c.kind = "SaveTransfer" /\ i.kind = "None" /\ g = PutAll(f, c.legs) /\ \A t \in DOMAIN c.legs : c.legs[t].account \in ids
    BY <1>1, <1>13 DEF ApplySaveTransfer, AccountExists, NoInverse
  <2>2. w = c.legs
    BY <1>1, <2>1 DEF Written
  <2>3. \A t \in DOMAIN g : g[t].account \in ids
    BY <1>2, <2>1, AccountsWritten
  <2>4. AccountsOf(c) \subseteq more
    <3>1. \A t \in DOMAIN w : w[t].account \in more
      BY <1>3, <2>1, <2>2
    <3> QED
      BY <1>0, <2>1, <3>1
  <2>5. AccountsOf(i) = {}
    BY <1>4, <2>1
  <2> QED
    BY <1>1, <1>3, <2>3, <2>4, <2>5
<1>14. CASE ApplySetAssignment(c)
  <2>1. c.kind = "SetAssignment" /\ i.kind \in {"SetAssignment", "RemoveAssignment"} /\ g = f
    BY <1>1, <1>14 DEF ApplySetAssignment, SetAssignment, RemoveAssignment
  <2>2. AccountsOf(c) = {} /\ AccountsOf(i) = {}
    BY <1>4, <2>1
  <2> QED
    BY <1>1, <1>2, <1>3, <2>1, <2>2
<1>15. CASE ApplyRemoveAssignment(c)
  <2>1. c.kind = "RemoveAssignment" /\ i.kind \in {"SetAssignment", "None"} /\ g = f
    BY <1>1, <1>15 DEF ApplyRemoveAssignment, SetAssignment, NoInverse
  <2>2. AccountsOf(c) = {} /\ AccountsOf(i) = {}
    BY <1>4, <2>1
  <2> QED
    BY <1>1, <1>2, <1>3, <2>1, <2>2
<1>16. CASE ApplyCompleteSnapshot(c)
  <2>1. c.kind = "CompleteSnapshot" /\ i.kind = "None"
    BY <1>1, <1>16 DEF ApplyCompleteSnapshot, NoInverse
  <2>2. g = [t \in DOMAIN f |-> IF t \in c.ids THEN [f[t] EXCEPT !.clearance = "Reconciled"] ELSE f[t]]
    BY <1>1, <1>16 DEF ApplyCompleteSnapshot
  <2>3. \A t \in DOMAIN g : g[t].account = f[t].account /\ t \in DOMAIN f
    BY <2>2
  <2>4. AccountsOf(c) = {} /\ AccountsOf(i) = {}
    BY <1>4, <2>1
  <2> QED
    BY <1>1, <1>2, <1>3, <2>3, <2>4
<1>17. CASE ApplySetClearance(c)
  <2>1. PICK changed, part : changed = Affected(c.ids) /\ part = Restrict(f, changed)
    OBVIOUS
  <2>2. c.kind = "SetClearance" /\ c.ids \subseteq DOMAIN transactions /\ i = Restore(part)
    BY <1>1, <1>17, <2>1 DEF ApplySetClearance, BatchAllowed, BatchInverse
  <2>3. \A t \in DOMAIN part : t \in DOMAIN f /\ part[t] = f[t]
    BY <1>1, <2>1, <2>2, AffectedWhole DEF Restrict
  <2>4. g = [t \in DOMAIN f |-> IF t \in changed THEN [f[t] EXCEPT !.clearance = c.clearance] ELSE f[t]]
    BY <1>1, <1>17, <2>1 DEF ApplySetClearance
  <2>5. \A t \in DOMAIN g : g[t].account = f[t].account /\ t \in DOMAIN f
    BY <2>4
  <2>6. AccountsOf(c) = {}
    BY <1>4, <2>2
  <2> QED
    BY <1>1, <1>2, <1>3, <1>8, <2>2, <2>3, <2>5, <2>6
<1>18. CASE ApplyDelete(c)
  <2>1. PICK changed, part : changed = Affected(c.ids) /\ part = Restrict(f, changed)
    OBVIOUS
  <2>2. c.kind = "Delete" /\ c.ids \subseteq DOMAIN transactions /\ i = Restore(part)
    BY <1>1, <1>18, <2>1 DEF ApplyDelete, BatchAllowed, BatchInverse
  <2>3. \A t \in DOMAIN part : t \in DOMAIN f /\ part[t] = f[t]
    BY <1>1, <2>1, <2>2, AffectedWhole DEF Restrict
  <2>4. g = Restrict(f, DOMAIN f \ changed)
    BY <1>1, <1>18, <2>1 DEF ApplyDelete
  <2>5. \A t \in DOMAIN g : g[t] = f[t] /\ t \in DOMAIN f
    BY <2>4 DEF Restrict
  <2>6. AccountsOf(c) = {}
    BY <1>4, <2>2
  <2> QED
    BY <1>1, <1>2, <1>3, <1>8, <2>2, <2>3, <2>5, <2>6
<1>19. CASE ApplyRestore(c)
  <2>1. c.kind = "Restore" /\ g = PutAll(f, c.prior) /\ \A t \in DOMAIN c.prior : c.prior[t].account \in ids
    BY <1>1, <1>19 DEF ApplyRestore, AccountExists
  <2>2. w = c.prior
    BY <1>1, <2>1 DEF Written
  <2>3. \A t \in DOMAIN g : g[t].account \in ids
    BY <1>2, <2>1, AccountsWritten
  <2>4. AccountsOf(c) \subseteq more
    <3>1. \A t \in DOMAIN w : w[t].account \in more
      BY <1>3, <2>1, <2>2
    <3> QED
      BY <1>0, <2>1, <3>1
  <2>5. PICK part : part = Restrict(f, DOMAIN c.prior \intersect DOMAIN f)
    OBVIOUS
  <2>6. i = Restore(part)
    BY <1>1, <1>19, <2>5 DEF ApplyRestore
  <2>7. \A t \in DOMAIN part : t \in DOMAIN f /\ part[t] = f[t]
    BY <2>5 DEF Restrict
  <2>8. AccountsOf(i) \subseteq more
    BY <1>8, <2>6, <2>7
  <2> QED
    BY <1>1, <1>3, <2>3, <2>4, <2>8
<1> QED
  BY <1>9, <1>10, <1>11, <1>12, <1>13, <1>14, <1>15, <1>16, <1>17, <1>18, <1>19 DEF Execute

\* Every step keeps the accounts that there are named.
LEMMA RefersStep ==
  ASSUME RefersInv, [Next]_vars
  PROVE  RefersInv'
<1>1. ExactInv'
  BY ExactStep DEF RefersInv
<1>2. ASSUME NEW c, Commit(c) \/ (Undo /\ c = NextUndo(history)) \/ (Redo /\ c = NextRedo(history))
      PROVE  RefersInv'
  <2>1. Execute(c)
    BY <1>2 DEF Commit, Undo, Redo
  <2>2. OnStacks(history') \subseteq OnStacks(history) \union {c, inverse'}
    BY <1>2, StacksHold DEF RefersInv, ExactInv
  <2>3. /\ DOMAIN accounts \subseteq DOMAIN accounts'
        /\ \A t \in DOMAIN transactions' : transactions'[t].account \in DOMAIN accounts'
        /\ AccountsOf(c) \subseteq DOMAIN accounts'
        /\ AccountsOf(inverse') \subseteq DOMAIN accounts'
    BY <2>1, CommandRefers DEF RefersInv
  <2>4. ASSUME NEW x \in OnStacks(history') PROVE AccountsOf(x) \subseteq DOMAIN accounts'
    BY <2>2, <2>3, <2>4 DEF RefersInv
  <2> QED
    BY <1>1, <2>3, <2>4 DEF RefersInv
<1>3. CASE UNCHANGED vars
  BY <1>1, <1>3 DEF vars, executorVars, editsVars, RefersInv
<1>4. ASSUME NEW c, Commit(c) PROVE RefersInv'
  BY <1>2, <1>4
<1>5. CASE EditAccounts
  BY <1>4, <1>5 DEF EditAccounts, EditAccount, CreateAccount, Reconcile
<1>6. CASE EditTransactions
  BY <1>4, <1>6 DEF EditTransactions, EnterTransaction, EditTransaction, EnterTransfer, EditTransfer,
                    MarkCleared, DeleteSelected
<1>7. CASE EditAssignments
  BY <1>4, <1>7 DEF EditAssignments, Assign
<1> QED
  BY <1>2, <1>3, <1>5, <1>6, <1>7 DEF Next

\* They are named when the session begins.
LEMMA RefersInit ==
  ASSUME Init
  PROVE  RefersInv
<1>1. ExactInv
  BY ExactInit
<1>2. \A t \in DOMAIN transactions : transactions[t].account \in DOMAIN accounts
  BY EditsAssumption DEF Init, IsLedger
<1>3. EntriesOf(history.undo) = {} /\ EntriesOf(history.redo) = {}
  BY DEF Init, EmptyHistory, EntriesOf
<1> QED
  BY <1>1, <1>2, <1>3 DEF RefersInv, OnStacks

\* What the stacks offer is allowed, but for a name.
LEMMA RefersAllowed ==
  ASSUME RefersInv
  PROVE  /\ CanUndo(history) => TakenName(NextUndo(history)) \/ Allowed(NextUndo(history))
         /\ CanRedo(history) => TakenName(NextRedo(history)) \/ Allowed(NextRedo(history))
<1>1. ASSUME NEW c \in OnStacks(history), c.kind \in Replayable \union {"CloseAccount"}
      PROVE  TakenName(c) \/ Allowed(c)
  <2>1. AccountsOf(c) \subseteq DOMAIN accounts
    BY <1>1 DEF RefersInv
  <2>2. c.kind \in {"UpdateAccount", "CloseAccount"} => c.account \in DOMAIN accounts
    BY <2>1 DEF AccountsOf
  <2>3. c.kind = "SaveTransaction" => AccountExists(c.row)
    BY <2>1 DEF AccountsOf, Written, AccountExists
  <2>4. c.kind = "Restore" => \A t \in DOMAIN c.prior : AccountExists(c.prior[t])
    BY <2>1 DEF AccountsOf, Written, AccountExists
  <2> QED
    BY <1>1, <2>2, <2>3, <2>4 DEF Allowed, TakenName
<1>2. ASSUME CanUndo(history) PROVE TakenName(NextUndo(history)) \/ Allowed(NextUndo(history))
  <2>1. PICK e, p : e = Top(history.undo) /\ p = Pop(history.undo)
    OBVIOUS
  <2>2. Pushed(history.undo, p, e)
    BY <1>2, <2>1, PopIs DEF RefersInv, ExactInv, IsHistory, CanUndo
  <2>3. e \in EntriesOf(history.undo) /\ e.inverse = NextUndo(history)
    BY <2>1, <2>2 DEF Pushed, NextUndo
  <2>4. e.inverse.kind \in Replayable \union {"CloseAccount"}
    BY <2>3 DEF RefersInv, ExactInv, UndoOK
  <2>5. e.inverse \in OnStacks(history)
    BY <2>3 DEF OnStacks
  <2> QED
    BY <1>1, <2>3, <2>4, <2>5
<1>3. ASSUME CanRedo(history) PROVE TakenName(NextRedo(history)) \/ Allowed(NextRedo(history))
  <2>1. PICK e, p : e = Top(history.redo) /\ p = Pop(history.redo)
    OBVIOUS
  <2>2. Pushed(history.redo, p, e)
    BY <1>3, <2>1, PopIs DEF RefersInv, ExactInv, IsHistory, CanRedo
  <2>3. e \in EntriesOf(history.redo) /\ e.command = NextRedo(history)
    BY <2>1, <2>2 DEF Pushed, NextRedo
  <2>4. e.command.kind \in Replayable \union {"CloseAccount"}
    BY <2>3 DEF RefersInv, ExactInv, RedoOK
  <2>5. e.command \in OnStacks(history)
    BY <2>3 DEF OnStacks
  <2> QED
    BY <1>1, <2>3, <2>4, <2>5
<1> QED
  BY <1>2, <1>3

\* Whatever was edited, deleted or undone since, what the stacks offer meets every condition of
\* the executor, unless it gives an account a name that another account has taken.
THEOREM HistoryStaysAllowed ==
  Spec => [](/\ CanUndo(history) => TakenName(NextUndo(history)) \/ Allowed(NextUndo(history))
             /\ CanRedo(history) => TakenName(NextRedo(history)) \/ Allowed(NextRedo(history)))
<1>1. Init => RefersInv
  BY RefersInit
<1>2. RefersInv /\ [Next]_vars => RefersInv'
  BY RefersStep
<1>3. RefersInv =>
        /\ CanUndo(history) => TakenName(NextUndo(history)) \/ Allowed(NextUndo(history))
        /\ CanRedo(history) => TakenName(NextRedo(history)) \/ Allowed(NextRedo(history))
  BY RefersAllowed
<1> QED
  BY <1>1, <1>2, <1>3, PTL DEF Spec
=============================================================================
