----------------------------- MODULE Books_proofs -----------------------------
(***************************************************************************)
(* Proofs about money: the books, statement imports, the assignments of    *)
(* the budget and the screen that changes them in batches, for every set   *)
(* of accounts, categories, dates and amounts and any number of calls.     *)
(*                                                                         *)
(* Most calls on the books touch a transfer only in ways that leave both   *)
(* of its legs as they were, so their invariants are stated about one      *)
(* ledger (a function from ids to rows) and one transfer, and each way of  *)
(* changing a ledger (a row added, replaced, removed) has a lemma of its   *)
(* own.                                                                    *)
(***************************************************************************)
EXTENDS Books, StatementImport, BudgetScreen, SequenceTheorems, SetLemmas

-----------------------------------------------------------------------------
(* Ledgers *)

\* Rows and transfers are named by the ids handed out so far.
IsLedger(ledger, n) ==
  /\ ledger \in [DOMAIN ledger -> LedgerRows]
  /\ DOMAIN ledger \subseteq 1..n
  /\ \A id \in DOMAIN ledger : TransferOf(ledger[id]) \subseteq 1..n

Leg(ledger, id, t) == id \in DOMAIN ledger /\ t \in TransferOf(ledger[id])

\* The two legs of a transfer as TransfersPaired demands them.
Pair(ledger, id, pair) ==
  /\ ledger[pair].account # ledger[id].account
  /\ ledger[pair].account = ledger[id].body.other
  /\ ledger[pair].date = ledger[id].date
  /\ ledger[pair].amount = -ledger[id].amount
  /\ ledger[id].body.otherAmount = ledger[pair].amount

Paired(ledger, t) ==
  \A id \in DOMAIN ledger : Leg(ledger, id, t) =>
    \E pair \in DOMAIN ledger \ {id} :
      /\ \A other \in DOMAIN ledger : Leg(ledger, other, t) <=> other \in {id, pair}
      /\ Pair(ledger, id, pair)

SameRow(r, q) == /\ r.account = q.account /\ r.date = q.date
                 /\ r.amount = q.amount /\ r.body = q.body

\* A transfer has the same legs in two ledgers.
SameLegs(old, new, t) ==
  /\ \A id : Leg(old, id, t) <=> Leg(new, id, t)
  /\ \A id : Leg(old, id, t) => SameRow(old[id], new[id])

\* The transfers named in a row's body.
LEMMA RowTransfers ==
  ASSUME NEW r \in LedgerRows, NEW t, t \in TransferOf(r)
  PROVE  r.body.kind = "transfer" /\ r.body.transfer = t /\ t \in Nat
BY DEF LedgerRows, Bodies, TransferOf, Opening, Categorized

\* Nothing happens to a transfer whose legs stay the same.
LEMMA PairedKept ==
  ASSUME NEW old, NEW new, NEW t, SameLegs(old, new, t), Paired(old, t)
  PROVE  Paired(new, t)
<1> SUFFICES ASSUME NEW id \in DOMAIN new, Leg(new, id, t)
             PROVE  \E pair \in DOMAIN new \ {id} :
                      /\ \A other \in DOMAIN new : Leg(new, other, t) <=> other \in {id, pair}
                      /\ Pair(new, id, pair)
  BY DEF Paired
<1>1. Leg(old, id, t) /\ id \in DOMAIN old
  BY DEF SameLegs, Leg
<1>2. PICK pair \in DOMAIN old \ {id} :
        /\ \A other \in DOMAIN old : Leg(old, other, t) <=> other \in {id, pair}
        /\ Pair(old, id, pair)
  BY <1>1 DEF Paired
<1>3. Leg(old, pair, t) /\ Leg(new, pair, t) /\ pair \in DOMAIN new \ {id}
  BY <1>2 DEF SameLegs, Leg
<1>4. SameRow(old[id], new[id]) /\ SameRow(old[pair], new[pair])
  BY <1>1, <1>3 DEF SameLegs
<1>5. Pair(new, id, pair)
  BY <1>2, <1>4 DEF Pair, SameRow
<1>6. \A other \in DOMAIN new : Leg(new, other, t) <=> other \in {id, pair}
  <2>1. \A other : Leg(old, other, t) => other \in DOMAIN old
    BY DEF Leg
  <2> QED
    BY <1>1, <1>2, <1>3, <2>1 DEF SameLegs
<1> QED
  BY <1>3, <1>5, <1>6

\* The property is that of every transfer no correction has touched.
LEMMA TransfersPairedIs ==
  ASSUME IsLedger(rows, issued)
  PROVE  TransfersPaired <=> \A t : t \notin patched => Paired(rows, t)
<1>1. \A id \in DOMAIN rows : \A t : Leg(rows, id, t) <=> IsTransfer(id) /\ rows[id].body.transfer = t
  BY DEF Leg, TransferOf, IsTransfer
<1>2. \A id \in DOMAIN rows : LegsOf(id) = {other \in DOMAIN rows : Leg(rows, other, rows[id].body.transfer)}
  BY <1>1 DEF LegsOf
<1>3. ASSUME NEW id \in DOMAIN rows, NEW pair \in DOMAIN rows
      PROVE  LegsOf(id) = {id, pair} <=>
               \A other \in DOMAIN rows :
                 Leg(rows, other, rows[id].body.transfer) <=> other \in {id, pair}
  BY <1>2
<1>4. ASSUME TransfersPaired, NEW t, t \notin patched PROVE Paired(rows, t)
  <2> SUFFICES ASSUME NEW id \in DOMAIN rows, Leg(rows, id, t)
               PROVE  \E pair \in DOMAIN rows \ {id} :
                        /\ \A other \in DOMAIN rows : Leg(rows, other, t) <=> other \in {id, pair}
                        /\ Pair(rows, id, pair)
    BY DEF Paired
  <2>1. IsTransfer(id) /\ rows[id].body.transfer = t
    BY <1>1
  <2>2. PICK pair \in DOMAIN rows \ {id} : LegsOf(id) = {id, pair} /\ Pair(rows, id, pair)
    BY <1>4, <2>1 DEF TransfersPaired, Pair
  <2> QED
    BY <1>3, <2>1, <2>2
<1>5. ASSUME \A t : t \notin patched => Paired(rows, t) PROVE TransfersPaired
  <2> SUFFICES ASSUME NEW id \in DOMAIN rows, IsTransfer(id), rows[id].body.transfer \notin patched
               PROVE  \E pair \in DOMAIN rows \ {id} : LegsOf(id) = {id, pair} /\ Pair(rows, id, pair)
    BY DEF TransfersPaired, Pair
  <2>1. Leg(rows, id, rows[id].body.transfer) /\ Paired(rows, rows[id].body.transfer)
    BY <1>1, <1>5
  <2>2. PICK pair \in DOMAIN rows \ {id} :
          /\ \A other \in DOMAIN rows :
               Leg(rows, other, rows[id].body.transfer) <=> other \in {id, pair}
          /\ Pair(rows, id, pair)
    BY <2>1 DEF Paired
  <2> QED
    BY <1>3, <2>2
<1> QED
  BY <1>4, <1>5
-----------------------------------------------------------------------------
(* The ways a ledger changes *)

\* More ids handed out.
LEMMA LedgerGrows ==
  ASSUME NEW n \in Nat, NEW m \in Nat, n <= m, NEW ledger, IsLedger(ledger, n)
  PROVE  IsLedger(ledger, m)
BY DEF IsLedger

\* A row that belongs to no transfer is added.
LEMMA RowAdded ==
  ASSUME NEW n \in Nat, NEW old, IsLedger(old, n), NEW r \in LedgerRows, TransferOf(r) = {},
         NEW new, new = Put(old, n + 1, r)
  PROVE  /\ IsLedger(new, n + 1)
         /\ \A t : SameLegs(old, new, t)
         /\ DOMAIN new = DOMAIN old \cup {n + 1}
         /\ \A id \in DOMAIN old : new[id] = old[id]
         /\ new[n + 1] = r
<1>1. n + 1 \notin DOMAIN old
  BY DEF IsLedger
<1>2. DOMAIN new = DOMAIN old \cup {n + 1}
  BY DEF Put
<1>3. /\ \A id \in DOMAIN old : new[id] = old[id]
      /\ new[n + 1] = r
  BY <1>1 DEF Put
<1>4. new \in [DOMAIN new -> LedgerRows]
  <2>1. new = [id \in DOMAIN new |-> new[id]]
    BY DEF Put
  <2>2. \A id \in DOMAIN new : new[id] \in LedgerRows
    BY <1>2, <1>3 DEF IsLedger
  <2> QED
    BY <2>1, <2>2
<1>5. DOMAIN new \subseteq 1..(n + 1)
  BY <1>2 DEF IsLedger
<1>6. \A id \in DOMAIN new : TransferOf(new[id]) \subseteq 1..(n + 1)
  BY <1>2, <1>3 DEF IsLedger
<1>7. \A t : SameLegs(old, new, t)
  BY <1>2, <1>3 DEF SameLegs, SameRow, Leg
<1> QED
  BY <1>2, <1>3, <1>4, <1>5, <1>6, <1>7 DEF IsLedger

\* Rows are replaced, each by a row that belongs to no other transfer.
LEMMA RowsReplaced ==
  ASSUME NEW n \in Nat, NEW old, IsLedger(old, n), NEW new \in [DOMAIN old -> LedgerRows],
         \A id \in DOMAIN old : TransferOf(new[id]) \subseteq TransferOf(old[id])
  PROVE  /\ IsLedger(new, n)
         /\ \A t : (\A id \in DOMAIN old :
                      t \in TransferOf(old[id]) => SameRow(old[id], new[id]))
                   => SameLegs(old, new, t)
<1>1. DOMAIN new = DOMAIN old
  OBVIOUS
<1>2. IsLedger(new, n)
  BY <1>1 DEF IsLedger
<1>3. ASSUME NEW t, \A id \in DOMAIN old : t \in TransferOf(old[id]) => SameRow(old[id], new[id])
      PROVE  SameLegs(old, new, t)
  <2>1. \A id \in DOMAIN old : t \in TransferOf(old[id]) => TransferOf(new[id]) = TransferOf(old[id])
    BY <1>3 DEF SameRow, TransferOf
  <2> QED
    BY <1>1, <1>3, <2>1 DEF SameLegs, Leg
<1> QED
  BY <1>2, <1>3

\* Rows are removed.
LEMMA RowsRemoved ==
  ASSUME NEW n \in Nat, NEW old, IsLedger(old, n), NEW ids,
         NEW new, new = Restrict(old, DOMAIN old \ ids)
  PROVE  /\ IsLedger(new, n)
         /\ \A t : (\A id \in DOMAIN old \cap ids : t \notin TransferOf(old[id]))
                   => SameLegs(old, new, t)
         /\ DOMAIN new = DOMAIN old \ ids
         /\ \A id \in DOMAIN new : new[id] = old[id]
<1>1. /\ DOMAIN new = DOMAIN old \ ids
      /\ \A id \in DOMAIN new : new[id] = old[id]
      /\ new = [id \in DOMAIN new |-> new[id]]
  BY DEF Restrict
<1>2. IsLedger(new, n)
  BY <1>1 DEF IsLedger
<1>3. ASSUME NEW t, \A id \in DOMAIN old \cap ids : t \notin TransferOf(old[id])
      PROVE  SameLegs(old, new, t)
  BY <1>1, <1>3 DEF SameLegs, Leg, SameRow
<1> QED
  BY <1>1, <1>2, <1>3

\* A row is written over, or written back after it was removed.
LEMMA RowWritten ==
  ASSUME NEW n \in Nat, NEW old, IsLedger(old, n), NEW i \in 1..n,
         NEW r \in LedgerRows, TransferOf(r) \subseteq 1..n,
         NEW new, new = Put(old, i, r)
  PROVE  /\ IsLedger(new, n)
         /\ \A t : t \notin TransferOf(r) /\ (i \in DOMAIN old => t \notin TransferOf(old[i]))
                   => SameLegs(old, new, t)
         /\ i \in DOMAIN old /\ r = old[i] => new = old
         /\ DOMAIN new = DOMAIN old \cup {i}
         /\ \A id \in DOMAIN old \ {i} : new[id] = old[id]
         /\ new[i] = r
<1>1. /\ DOMAIN new = DOMAIN old \cup {i}
      /\ \A id \in DOMAIN old \ {i} : new[id] = old[id]
      /\ new[i] = r
      /\ new = [id \in DOMAIN new |-> new[id]]
  BY DEF Put
<1>2. IsLedger(new, n)
  BY <1>1 DEF IsLedger
<1>3. ASSUME NEW t, t \notin TransferOf(r), i \in DOMAIN old => t \notin TransferOf(old[i])
      PROVE  SameLegs(old, new, t)
  BY <1>1, <1>3 DEF SameLegs, Leg, SameRow
<1>4. i \in DOMAIN old /\ r = old[i] => new = old
  <2>1. old = [id \in DOMAIN old |-> old[id]]
    BY DEF IsLedger
  <2> QED
    BY <1>1, <2>1
<1> QED
  BY <1>1, <1>2, <1>3, <1>4

\* Both legs of a new transfer are added at once.
LEMMA TransferAdded ==
  ASSUME issued \in Nat, IsLedger(rows, issued),
         NEW source \in Accounts, NEW destination \in Accounts, source # destination,
         NEW date \in Dates, NEW amount \in Int,
         NEW new, new = WithTransfer(source, destination, date, amount)
  PROVE  /\ IsLedger(new, issued + 2)
         /\ \A t : t # New => SameLegs(rows, new, t)
         /\ Paired(new, New)
         /\ DOMAIN new = DOMAIN rows \cup {New, New + 1}
         /\ \A id \in DOMAIN rows : new[id] = rows[id]
         /\ new[New].date = date /\ new[New + 1].date = date
<1> DEFINE leg(account, other, own) ==
             Row(account, date, own, "Uncleared", TRUE,
                 [kind |-> "transfer", transfer |-> New, other |-> other, otherAmount |-> -own])
           first == leg(source, destination, amount)
           second == leg(destination, source, -amount)
<1>1. New \notin DOMAIN rows /\ New + 1 \notin DOMAIN rows /\ New \in Nat /\ New # New + 1
  BY DEF IsLedger, New
<1>2. new = Put(Put(rows, New, first), New + 1, second)
  BY DEF WithTransfer
<1>3. first \in LedgerRows /\ second \in LedgerRows
  <2>1. -amount \in Int /\ -(-amount) \in Int
    OBVIOUS
  <2> QED
    BY <1>1, <2>1 DEF Row, LedgerRows, Bodies
<1>4. TransferOf(first) = {New} /\ TransferOf(second) = {New}
  BY DEF Row, TransferOf
<1>5. /\ first.account = source /\ second.account = destination
      /\ first.date = date /\ second.date = date
      /\ first.amount = amount /\ second.amount = -amount
      /\ first.body.other = destination /\ second.body.other = source
      /\ first.body.otherAmount = -amount /\ second.body.otherAmount = -(-amount)
  BY DEF Row
<1> HIDE DEF leg, first, second
<1>6. /\ DOMAIN new = DOMAIN rows \cup {New, New + 1}
      /\ new = [id \in DOMAIN new |-> new[id]]
      /\ \A id \in DOMAIN rows : new[id] = rows[id]
      /\ new[New] = first /\ new[New + 1] = second
  BY <1>1, <1>2 DEF Put
<1>7. IsLedger(new, issued + 2)
  <2>1. \A id \in DOMAIN new : new[id] \in LedgerRows
    BY <1>3, <1>6 DEF IsLedger
  <2>2. DOMAIN new \subseteq 1..(issued + 2)
    BY <1>6 DEF IsLedger, New
  <2>3. \A id \in DOMAIN new : TransferOf(new[id]) \subseteq 1..(issued + 2)
    BY <1>4, <1>6 DEF IsLedger, New
  <2> QED
    BY <1>6, <2>1, <2>2, <2>3 DEF IsLedger
<1>8. \A t : t # New => SameLegs(rows, new, t)
  BY <1>4, <1>6 DEF SameLegs, SameRow, Leg
<1>9. \A id : Leg(new, id, New) <=> id \in {New, New + 1}
  <2>1. \A id \in DOMAIN rows : New \notin TransferOf(rows[id])
    BY DEF IsLedger, New
  <2> QED
    BY <1>4, <1>6, <2>1 DEF Leg
<1>10. Pair(new, New, New + 1) /\ Pair(new, New + 1, New)
  <2>1. -(-amount) = amount
    OBVIOUS
  <2> QED
    BY <1>5, <1>6, <2>1 DEF Pair
<1>11. Paired(new, New)
  BY <1>1, <1>6, <1>9, <1>10 DEF Paired
<1> QED
  BY <1>5, <1>6, <1>7, <1>8, <1>11
-----------------------------------------------------------------------------
(* Balances *)

\* A sum of amounts is a number, whatever the order they are added up in.
LEMMA SumIsInt ==
  ASSUME NEW ledger, NEW ids, IsFiniteSet(ids), \A id \in ids : ledger[id].amount \in Int
  PROVE  AmountOf(ledger, ids) \in Int
<1> DEFINE pick == [s \in SUBSET ids |-> CHOOSE x \in s : TRUE]
           step == [p \in ids \X Int |-> ledger[p[1]].amount + p[2]]
           Body(f) == [s \in SUBSET ids |->
                         IF s = {} THEN 0
                         ELSE ledger[CHOOSE x \in s : TRUE].amount
                              + f[s \ {CHOOSE x \in s : TRUE}]]
           iter == CHOOSE f : f = Body(f)
<1>1. AmountOf(ledger, ids) = iter[ids]
  BY DEF AmountOf, MapThenSumSet, MapThenFoldSet
<1>2. Picks(pick, ids)
  BY DEF Picks
<1>3. \A s \in SUBSET ids : s # {} => pick[s] = (CHOOSE x \in s : TRUE) /\ pick[s] \in ids
  OBVIOUS
<1>4. \A x \in ids, v \in Int : step[<<x, v>>] = ledger[x].amount + v /\ step[<<x, v>>] \in Int
  OBVIOUS
<1> HIDE DEF pick, step
<1>5. PICK f : FoldsUp(f, ids, 0, step, pick)
  BY <1>2, FoldsExist
<1>6. \A s \in SUBSET ids : f[s] \in Int
  <2> DEFINE J == {s \in SUBSET ids : f[s] \in Int}
  <2>1. {} \in J
    BY <1>5 DEF FoldsUp
  <2>2. ASSUME NEW s \in SUBSET ids, s # {}, s \ {pick[s]} \in J PROVE s \in J
    <3>1. f[s] = step[<<pick[s], f[s \ {pick[s]}]>>]
      BY <1>5, <2>2, FoldOf
    <3> QED
      BY <1>3, <1>4, <2>2, <3>1
  <2> HIDE DEF J
  <2>3. \A s \in SUBSET ids : s \in J
    BY <1>2, <2>1, <2>2, SubsetInduction
  <2> QED
    BY <2>3 DEF J
<1>7. f = Body(f)
  <2>1. ASSUME NEW s \in SUBSET ids, s # {}
        PROVE  f[s] = ledger[CHOOSE x \in s : TRUE].amount + f[s \ {CHOOSE x \in s : TRUE}]
    <3>1. f[s] = step[<<pick[s], f[s \ {pick[s]}]>>]
      BY <1>5, <2>1, FoldOf
    <3>2. s \ {pick[s]} \in SUBSET ids
      OBVIOUS
    <3>3. f[s \ {pick[s]}] \in Int
      BY <1>6, <3>2
    <3>4. PICK x : x = pick[s] /\ x = (CHOOSE y \in s : TRUE) /\ x \in ids
      BY <1>3, <2>1
    <3>5. f[s] = ledger[x].amount + f[s \ {x}]
      BY <1>4, <3>1, <3>3, <3>4
    <3> QED
      BY <3>4, <3>5
  <2>2. f[{}] = 0
    BY <1>5 DEF FoldsUp
  <2>3. f = [s \in SUBSET ids |-> f[s]]
    BY <1>5 DEF FoldsUp
  <2> QED
    BY <2>1, <2>2, <2>3
<1>8. iter = Body(iter)
  <2> HIDE DEF Body
  <2> QED
    BY <1>7
<1>9. \A s \in SUBSET ids : iter[s] \in Int
  <2> HIDE DEF iter
  <2> DEFINE J == {s \in SUBSET ids : iter[s] \in Int}
  <2>1. {} \in J
    BY <1>8
  <2>2. ASSUME NEW s \in SUBSET ids, s # {}, s \ {pick[s]} \in J PROVE s \in J
    <3>1. iter[s] = ledger[pick[s]].amount + iter[s \ {pick[s]}]
      BY <1>3, <1>8, <2>2
    <3> QED
      BY <1>3, <2>2, <3>1
  <2> HIDE DEF J
  <2>3. \A s \in SUBSET ids : s \in J
    BY <1>2, <2>1, <2>2, SubsetInduction
  <2> QED
    BY <2>3 DEF J
<1> QED
  BY <1>1, <1>9

\* Both balances the services compute from a ledger are numbers.
LEMMA BalancesAreInts ==
  ASSUME NEW n \in Nat, NEW ledger, IsLedger(ledger, n)
  PROVE  /\ \A ids \in SUBSET DOMAIN ledger : AmountOf(ledger, ids) \in Int
         /\ \A account, through, chosen : Calculated(ledger, account, through, chosen) \in Int
<1>1. ASSUME NEW ids \in SUBSET DOMAIN ledger PROVE AmountOf(ledger, ids) \in Int
  <2>1. IsFiniteSet(ids)
    <3>1. IsFiniteSet(1..n)
      BY FS_Interval
    <3>2. ids \in SUBSET (1..n)
      BY DEF IsLedger
    <3> QED
      BY <3>1, <3>2, FS_Subset
  <2>2. \A id \in ids : ledger[id].amount \in Int
    BY DEF IsLedger, LedgerRows
  <2> QED
    BY <2>1, <2>2, SumIsInt
<1>2. ASSUME NEW account, NEW through, NEW chosen
      PROVE  Calculated(ledger, account, through, chosen) \in Int
  BY <1>1 DEF Calculated
<1> QED
  BY <1>1, <1>2
-----------------------------------------------------------------------------
(* The ledger and the sessions stay well formed *)

LedgerSound ==
  /\ issued \in Nat
  /\ IsLedger(rows, issued)
  /\ DOMAIN accounts \subseteq Accounts
  /\ recalculateFrom \in Dates \cup {NoDate}

IsSession(s, n) ==
  /\ s = [account |-> s.account, through |-> s.through, ending |-> s.ending,
          original |-> s.original, selected |-> s.selected, difference |-> s.difference]
  /\ s.account \in Accounts /\ s.through \in Dates
  /\ s.ending \in Int /\ s.difference \in Int
  /\ IsLedger(s.original, n)

SessionsSound == \A id \in DOMAIN sessions : IsSession(sessions[id], issued)

Sound == LedgerSound /\ SessionsSound

\* Sessions nobody touches stay as they are while ids are handed out.
LEMMA SessionsWait ==
  ASSUME SessionsSound, issued \in Nat, issued' \in Nat, issued <= issued', UNCHANGED sessions
  PROVE  SessionsSound'
<1> SUFFICES ASSUME NEW id \in DOMAIN sessions PROVE IsSession(sessions[id], issued')
  BY DEF SessionsSound
<1>1. IsSession(sessions[id], issued)
  BY DEF SessionsSound
<1>2. IsLedger(sessions[id].original, issued')
  BY <1>1, LedgerGrows DEF IsSession
<1> QED
  BY <1>1, <1>2 DEF IsSession

\* The date a recalculation starts from is a date of the ledger.
LEMMA EarliestIsDate ==
  ASSUME recalculateFrom \in Dates \cup {NoDate}, NEW date \in Dates
  PROVE  /\ Earliest(date) \in Dates
         /\ Earliest(date) <= date
         /\ recalculateFrom # NoDate => Earliest(date) <= recalculateFrom
BY BooksAssumption DEF Earliest

\* A row built by a call has the shape of a row, and belongs to no transfer.
LEMMA RowTyped ==
  ASSUME NEW account \in Accounts, NEW date \in Dates, NEW amount \in Int,
         NEW clearance \in {"Uncleared", "Cleared", "Reconciled"}, NEW body \in {Opening, Categorized}
  PROVE  /\ Row(account, date, amount, clearance, TRUE, body) \in LedgerRows
         /\ TransferOf(Row(account, date, amount, clearance, TRUE, body)) = {}
BY DEF Row, LedgerRows, Bodies, TransferOf, Opening, Categorized

\* A step that only adds a row of no transfer.
LEMMA AddingIsSound ==
  ASSUME Sound, NEW r \in LedgerRows, TransferOf(r) = {}, rows' = Put(rows, New, r),
         issued' = issued + 1, UNCHANGED sessions,
         DOMAIN accounts' \subseteq Accounts, recalculateFrom' \in Dates \cup {NoDate}
  PROVE  Sound' /\ \A t : SameLegs(rows, rows', t)
<1>1. issued \in Nat /\ IsLedger(rows, issued) /\ SessionsSound
  BY DEF Sound, LedgerSound
<1>2. New = issued + 1
  BY DEF New
<1>3. IsLedger(rows', issued + 1) /\ \A t : SameLegs(rows, rows', t)
  BY <1>1, <1>2, RowAdded
<1>4. SessionsSound'
  BY <1>1, SessionsWait
<1>5. issued' \in Nat
  BY <1>1
<1>6. LedgerSound'
  BY <1>3, <1>5 DEF LedgerSound
<1> QED
  BY <1>3, <1>4, <1>6 DEF Sound

\* A step that only replaces rows, or writes dates, amounts and clearances into them.
LEMMA ReplacingIsSound ==
  ASSUME Sound, rows' \in [DOMAIN rows -> LedgerRows],
         \A id \in DOMAIN rows : TransferOf(rows'[id]) \subseteq TransferOf(rows[id]),
         UNCHANGED <<issued, sessions, accounts>>, recalculateFrom' \in Dates \cup {NoDate}
  PROVE  /\ Sound'
         /\ \A t : (\A id \in DOMAIN rows :
                      t \in TransferOf(rows[id]) => SameRow(rows[id], rows'[id]))
                   => SameLegs(rows, rows', t)
<1>1. issued \in Nat /\ IsLedger(rows, issued) /\ SessionsSound
  BY DEF Sound, LedgerSound
<1>2. /\ IsLedger(rows', issued)
      /\ \A t : (\A id \in DOMAIN rows :
                   t \in TransferOf(rows[id]) => SameRow(rows[id], rows'[id]))
                => SameLegs(rows, rows', t)
  BY <1>1, RowsReplaced
<1>3. SessionsSound'
  BY <1>1, SessionsWait
<1>4. LedgerSound'
  BY <1>2 DEF LedgerSound, Sound
<1> QED
  BY <1>2, <1>3, <1>4 DEF Sound

\* A step that only removes rows.
LEMMA RemovingIsSound ==
  ASSUME Sound, NEW ids, rows' = Restrict(rows, DOMAIN rows \ ids),
         UNCHANGED <<issued, sessions, accounts>>, recalculateFrom' \in Dates \cup {NoDate}
  PROVE  /\ Sound'
         /\ \A t : (\A id \in DOMAIN rows \cap ids : t \notin TransferOf(rows[id]))
                   => SameLegs(rows, rows', t)
         /\ DOMAIN rows' = DOMAIN rows \ ids
         /\ \A id \in DOMAIN rows' : rows'[id] = rows[id]
<1>1. issued \in Nat /\ IsLedger(rows, issued) /\ SessionsSound
  BY DEF Sound, LedgerSound
<1>2. /\ IsLedger(rows', issued)
      /\ \A t : (\A id \in DOMAIN rows \cap ids : t \notin TransferOf(rows[id]))
                => SameLegs(rows, rows', t)
      /\ DOMAIN rows' = DOMAIN rows \ ids
      /\ \A id \in DOMAIN rows' : rows'[id] = rows[id]
  BY <1>1, RowsRemoved
<1>3. SessionsSound'
  BY <1>1, SessionsWait
<1>4. LedgerSound'
  BY <1>2 DEF LedgerSound, Sound
<1> QED
  BY <1>2, <1>3, <1>4 DEF Sound
-----------------------------------------------------------------------------
(* Transfers stay paired under every call *)

TransfersStand == \A t : t \notin patched => Paired(rows, t)

PairsInv == Sound /\ TransfersStand

\* Transfers stay paired when the legs of those no correction touched stay the same.
LEMMA StandingKept ==
  ASSUME TransfersStand, patched \subseteq patched',
         \A t : t \notin patched' => SameLegs(rows, rows', t)
  PROVE  TransfersStand'
<1> SUFFICES ASSUME NEW t, t \notin patched' PROVE Paired(rows', t)
  BY DEF TransfersStand
<1>1. Paired(rows, t) /\ SameLegs(rows, rows', t)
  BY DEF TransfersStand
<1> QED
  BY <1>1, PairedKept

\* The parts of PairsInv a step can use.
LEMMA PairsParts ==
  ASSUME PairsInv
  PROVE  /\ Sound /\ TransfersStand /\ SessionsSound
         /\ issued \in Nat /\ IsLedger(rows, issued)
         /\ rows \in [DOMAIN rows -> LedgerRows]
         /\ DOMAIN accounts \subseteq Accounts
         /\ recalculateFrom \in Dates \cup {NoDate}
         /\ \A id \in DOMAIN rows : rows[id] \in LedgerRows
BY DEF PairsInv, Sound, LedgerSound, IsLedger

\* AccountService: a new account with its opening row.
LEMMA CreateAccountPairs ==
  ASSUME PairsInv, NEW a \in Accounts, NEW l \in BOOLEAN, NEW x \in Amounts, NEW d \in Dates,
         CreateAccount(a, l, x, d)
  PROVE  PairsInv'
<1> DEFINE opening == IF l THEN -x ELSE x
<1>1. opening \in Int
  BY BooksAssumption
<1>2. DOMAIN accounts' \subseteq Accounts
  BY PairsParts DEF CreateAccount, Put
<1>3. UNCHANGED <<recalculateFrom, sessions, patched>>
  BY DEF CreateAccount
<1>4. CASE opening = 0
  <2>1. UNCHANGED <<rows, issued>>
    BY <1>4 DEF CreateAccount
  <2>2. Sound'
    BY <1>2, <1>3, <2>1, PairsParts, SessionsWait DEF Sound, LedgerSound, SessionsSound
  <2> QED
    BY <1>3, <2>1, <2>2, PairsParts DEF PairsInv, TransfersStand
<1>5. CASE opening # 0
  <2> DEFINE r == Row(a, d, opening, "Cleared", TRUE, Opening)
  <2>1. rows' = Put(rows, New, r) /\ issued' = issued + 1
    BY <1>5 DEF CreateAccount, Issue
  <2>2. r \in LedgerRows /\ TransferOf(r) = {}
    BY <1>1, RowTyped
  <2>3. recalculateFrom' \in Dates \cup {NoDate}
    BY <1>3, PairsParts
  <2> HIDE DEF r
  <2>4. Sound' /\ \A t : SameLegs(rows, rows', t)
    BY <1>2, <1>3, <2>1, <2>2, <2>3, PairsParts, AddingIsSound
  <2> QED
    BY <1>3, <2>4, PairsParts, StandingKept DEF PairsInv
<1> QED
  BY <1>4, <1>5

\* Opening, closing or forgetting an account without touching a row.
LEMMA AccountPairs ==
  ASSUME PairsInv, UNCHANGED <<rows, issued, recalculateFrom, sessions, patched>>,
         DOMAIN accounts' \subseteq Accounts
  PROVE  PairsInv'
BY DEF PairsInv, Sound, LedgerSound, SessionsSound, TransfersStand

\* The two legs written together are a pair; for create_transfer and for a closing transfer.
LEMMA CreateTransferPairs ==
  ASSUME PairsInv, NEW source \in Accounts, NEW destination \in Accounts, source # destination,
         NEW date \in Dates, NEW amount \in Int,
         rows' = WithTransfer(source, destination, date, amount), issued' = issued + 2,
         DOMAIN accounts' \subseteq Accounts, recalculateFrom' \in Dates \cup {NoDate},
         UNCHANGED <<sessions, patched>>
  PROVE  PairsInv'
<1>1. issued \in Nat /\ IsLedger(rows, issued) /\ SessionsSound /\ TransfersStand
  BY PairsParts
<1>2. /\ IsLedger(rows', issued + 2)
      /\ \A t : t # New => SameLegs(rows, rows', t)
      /\ Paired(rows', New)
  BY <1>1, TransferAdded
<1>3. SessionsSound'
  BY <1>1, SessionsWait
<1>4. issued' \in Nat /\ IsLedger(rows', issued')
  BY <1>1, <1>2
<1>5. Sound'
  BY <1>3, <1>4 DEF Sound, LedgerSound
<1>6. ASSUME NEW t, t \notin patched PROVE Paired(rows', t)
  <2>1. CASE t = New
    BY <1>2, <2>1
  <2>2. CASE t # New
    <3>1. SameLegs(rows, rows', t) /\ Paired(rows, t)
      BY <1>1, <1>2, <1>6, <2>2 DEF TransfersStand
    <3> QED
      BY <3>1, PairedKept
  <2> QED
    BY <2>1, <2>2
<1> QED
  BY <1>5, <1>6 DEF PairsInv, TransfersStand

\* AccountService: an account closed, by an adjusting row or by a transfer of its balance.
LEMMA ClosePairs ==
  ASSUME PairsInv, NEW a \in Accounts, NEW r \in Accounts \cup {"adjust"}, NEW d \in Dates,
         Close(a, r, d)
  PROVE  PairsInv'
<1> DEFINE balance == WorkingBalance(a)
<1>1. balance \in Int /\ -balance \in Int
  <2>1. {id \in DOMAIN rows : rows[id].account = a} \in SUBSET DOMAIN rows
    OBVIOUS
  <2>2. WorkingBalance(a) \in Int
    BY <2>1, PairsParts, BalancesAreInts DEF WorkingBalance
  <2> QED
    BY <2>2
<1>2. DOMAIN accounts' \subseteq Accounts /\ UNCHANGED <<recalculateFrom, sessions, patched>>
  BY PairsParts DEF Close
<1>3. recalculateFrom' \in Dates \cup {NoDate}
  BY <1>2, PairsParts
<1> HIDE DEF balance
<1>4. CASE UNCHANGED <<rows, issued>>
  BY <1>2, <1>4, AccountPairs
<1>5. CASE /\ Issue(1)
           /\ rows' = Put(rows, New, Row(a, d, -balance, "Cleared", TRUE, Opening))
  <2> DEFINE q == Row(a, d, -balance, "Cleared", TRUE, Opening)
  <2>1. q \in LedgerRows /\ TransferOf(q) = {}
    BY <1>1, RowTyped
  <2>2. rows' = Put(rows, New, q) /\ issued' = issued + 1
    BY <1>5 DEF Issue
  <2> HIDE DEF q
  <2>3. Sound' /\ \A t : SameLegs(rows, rows', t)
    BY <1>2, <1>3, <2>1, <2>2, PairsParts, AddingIsSound
  <2> QED
    BY <1>2, <2>3, PairsParts, StandingKept DEF PairsInv
<1>6. CASE /\ CanTransfer(a, r) /\ Issue(2)
           /\ rows' = WithTransfer(a, r, d, -balance)
  <2>1. r \in Accounts /\ a # r /\ issued' = issued + 2
    BY <1>6, PairsParts DEF CanTransfer, Issue
  <2> QED
    BY <1>1, <1>2, <1>3, <1>6, <2>1, CreateTransferPairs
<1> QED
  BY <1>4, <1>5, <1>6 DEF Close, balance

\* A row put as a client supplies it disturbs only the transfers that are marked for it.
LEMMA SuppliedStands ==
  ASSUME PairsInv, NEW n \in Nat, issued <= n, NEW id \in 1..n, NEW r \in LedgerRows,
         TransferOf(r) \subseteq 1..n, rows' = Put(rows, id, r), Patches(id, r)
  PROVE  IsLedger(rows', n) /\ TransfersStand'
<1>1. IsLedger(rows, n)
  BY PairsParts, LedgerGrows
<1>2. /\ IsLedger(rows', n)
      /\ \A t : t \notin TransferOf(r) /\ (id \in DOMAIN rows => t \notin TransferOf(rows[id]))
                => SameLegs(rows, rows', t)
      /\ id \in DOMAIN rows /\ r = rows[id] => rows' = rows
  <2>1. ASSUME NEW t, t \notin TransferOf(r),
               id \in DOMAIN rows => t \notin TransferOf(rows[id])
        PROVE  SameLegs(rows, rows', t)
    BY <1>1, <2>1, RowWritten
  <2>2. IsLedger(rows', n)
    BY <1>1, RowWritten
  <2>3. ASSUME id \in DOMAIN rows, r = rows[id] PROVE rows' = rows
    <3>1. rows = [old \in DOMAIN rows |-> rows[old]]
      BY PairsParts
    <3> QED
      BY <2>3, <3>1 DEF Put
  <2> QED
    BY <2>1, <2>2, <2>3
<1>3. patched \subseteq patched'
  BY DEF Patches
<1>4. ASSUME NEW t, t \notin patched' PROVE SameLegs(rows, rows', t)
  <2>1. CASE id \in DOMAIN rows /\ r = rows[id]
    BY <1>2, <2>1 DEF SameLegs, SameRow
  <2>2. CASE ~(id \in DOMAIN rows /\ r = rows[id])
    <3>1. t \notin TransferOf(r) /\ (id \in DOMAIN rows => t \notin TransferOf(rows[id]))
      BY <1>4, <2>2 DEF Patches
    <3> QED
      BY <1>2, <3>1
  <2> QED
    BY <2>1, <2>2
<1> QED
  BY <1>2, <1>3, <1>4, PairsParts, StandingKept

\* Replacing a row that exists is putting it.
LEMMA ReplacedIsPut ==
  ASSUME PairsInv, NEW id \in DOMAIN rows, NEW r
  PROVE  [rows EXCEPT ![id] = r] = Put(rows, id, r) /\ id \in 1..issued
<1>1. rows = [old \in DOMAIN rows |-> rows[old]]
  BY PairsParts
<1>2. DOMAIN rows \cup {id} = DOMAIN rows
  OBVIOUS
<1> QED
  BY <1>1, <1>2, PairsParts DEF Put, IsLedger

\* TransactionService: a client's row is put, under a new id or one in use.
LEMMA AddPairs ==
  ASSUME PairsInv, NEW id \in 1..New, NEW r \in ClientRows, NEW ok \in BOOLEAN, Add(id, r, ok)
  PROVE  PairsInv'
<1>1. /\ rows' = Put(rows, id, r) /\ Patches(id, r)
      /\ IF id = New THEN issued' = issued + 1 ELSE id \in 1..issued /\ issued' = issued
      /\ TransferOf(r) \subseteq 1..issued'
      /\ UNCHANGED <<accounts, sessions>>
      /\ recalculateFrom' = Earliest(r.date)
  BY DEF Add, Issue
<1>2. r \in LedgerRows /\ r.date \in Dates
  BY BooksAssumption DEF LedgerRows
<1>3. issued' \in Nat /\ issued <= issued' /\ id \in 1..issued'
  BY <1>1, PairsParts DEF New
<1>4. IsLedger(rows', issued') /\ TransfersStand'
  BY <1>1, <1>2, <1>3, SuppliedStands
<1>5. recalculateFrom' \in Dates \cup {NoDate}
  BY <1>1, <1>2, PairsParts, EarliestIsDate
<1>6. LedgerSound'
  BY <1>1, <1>3, <1>4, <1>5, PairsParts DEF LedgerSound
<1>7. SessionsSound'
  BY <1>1, <1>3, PairsParts, SessionsWait
<1> QED
  BY <1>4, <1>6, <1>7 DEF PairsInv, Sound

\* TransactionService: an ordinary row is copied.
LEMMA DuplicatePairs ==
  ASSUME PairsInv, NEW id \in DOMAIN rows, Duplicate(id)
  PROVE  PairsInv'
<1> DEFINE r == [rows[id] EXCEPT !.clearance = "Uncleared", !.approved = FALSE]
<1>1. rows[id] \in LedgerRows /\ TransferOf(rows[id]) = {}
  BY PairsParts DEF Duplicate, IsTransfer, TransferOf
<1>2. r \in LedgerRows /\ TransferOf(r) = {}
  BY <1>1 DEF LedgerRows, TransferOf
<1>3. /\ rows' = Put(rows, New, r) /\ issued' = issued + 1
      /\ UNCHANGED <<accounts, sessions, patched>>
      /\ recalculateFrom' = Earliest(rows[id].date)
  BY DEF Duplicate, Issue
<1>4. rows[id].date \in Dates
  BY <1>1 DEF LedgerRows
<1>5. recalculateFrom' \in Dates \cup {NoDate} /\ DOMAIN accounts' \subseteq Accounts
  BY <1>3, <1>4, PairsParts, EarliestIsDate
<1> HIDE DEF r
<1>6. Sound' /\ \A t : SameLegs(rows, rows', t)
  BY <1>2, <1>3, <1>5, PairsParts, AddingIsSound
<1> QED
  BY <1>3, <1>6, PairsParts, StandingKept DEF PairsInv

\* Replacing rows is harmless when the legs of transfers keep account, date, amount and body.
LEMMA ReplacingPairs ==
  ASSUME PairsInv, rows' \in [DOMAIN rows -> LedgerRows],
         \A id \in DOMAIN rows : TransferOf(rows'[id]) \subseteq TransferOf(rows[id]),
         \A id \in DOMAIN rows : \A t \in TransferOf(rows[id]) :
           t \notin patched' => SameRow(rows[id], rows'[id]),
         UNCHANGED <<issued, sessions, accounts>>, patched \subseteq patched',
         recalculateFrom' \in Dates \cup {NoDate}
  PROVE  PairsInv'
<1>1. /\ Sound'
      /\ \A t : (\A id \in DOMAIN rows :
                   t \in TransferOf(rows[id]) => SameRow(rows[id], rows'[id]))
                => SameLegs(rows, rows', t)
  BY PairsParts, ReplacingIsSound
<1>2. \A t : t \notin patched' => SameLegs(rows, rows', t)
  BY <1>1
<1> QED
  BY <1>1, <1>2, PairsParts, StandingKept DEF PairsInv

\* Removing rows is harmless when the legs of a transfer go together.
LEMMA RemovingPairs ==
  ASSUME PairsInv, NEW ids, rows' = Restrict(rows, DOMAIN rows \ ids),
         \A id \in DOMAIN rows \cap ids : \A t \in TransferOf(rows[id]) : t \notin patched =>
           \A other \in DOMAIN rows : Leg(rows, other, t) => other \in ids,
         UNCHANGED <<issued, sessions, accounts, patched>>,
         recalculateFrom' \in Dates \cup {NoDate}
  PROVE  PairsInv'
<1>1. /\ Sound'
      /\ \A t : (\A id \in DOMAIN rows \cap ids : t \notin TransferOf(rows[id]))
                => SameLegs(rows, rows', t)
      /\ DOMAIN rows' = DOMAIN rows \ ids
      /\ \A id \in DOMAIN rows' : rows'[id] = rows[id]
  BY PairsParts, RemovingIsSound
<1>2. ASSUME NEW t, t \notin patched PROVE Paired(rows', t)
  <2>1. CASE \A id \in DOMAIN rows \cap ids : t \notin TransferOf(rows[id])
    <3>1. SameLegs(rows, rows', t) /\ Paired(rows, t)
      BY <1>1, <1>2, <2>1, PairsParts DEF TransfersStand
    <3> QED
      BY <3>1, PairedKept
  <2>2. CASE \E id \in DOMAIN rows \cap ids : t \in TransferOf(rows[id])
    <3>1. \A other \in DOMAIN rows : Leg(rows, other, t) => other \in ids
      BY <1>2, <2>2
    <3>2. \A other \in DOMAIN rows' : ~Leg(rows', other, t)
      BY <1>1, <3>1 DEF Leg
    <3> QED
      BY <3>2 DEF Paired
  <2> QED
    BY <2>1, <2>2
<1> QED
  BY <1>1, <1>2 DEF PairsInv, TransfersStand

\* TransactionService: rows are approved.
LEMMA ApprovePairs ==
  ASSUME PairsInv, NEW ids, ApproveRows(ids)
  PROVE  PairsInv'
<1>1. /\ rows' = [id \in DOMAIN rows |-> IF id \in ids THEN [rows[id] EXCEPT !.approved = TRUE]
                                         ELSE rows[id]]
      /\ UNCHANGED <<issued, sessions, accounts, patched, recalculateFrom>>
  BY DEF ApproveRows
<1>2. ASSUME NEW id \in DOMAIN rows
      PROVE  /\ rows'[id] \in LedgerRows
             /\ TransferOf(rows'[id]) = TransferOf(rows[id])
             /\ SameRow(rows[id], rows'[id])
  <2>1. rows[id] \in LedgerRows
    BY PairsParts
  <2> QED
    BY <1>1, <2>1 DEF LedgerRows, TransferOf, SameRow
<1>3. rows' \in [DOMAIN rows -> LedgerRows]
  BY <1>1, <1>2
<1> QED
  BY <1>1, <1>2, <1>3, PairsParts, ReplacingPairs

\* TransactionService: one field of a row is set; a leg keeps its body and its account.
LEMMA ChangeRowPairs ==
  ASSUME PairsInv, NEW id \in DOMAIN rows, NEW ok \in BOOLEAN, ChangeRow(id, ok)
  PROVE  PairsInv'
<1>1. /\ rows[id] \in LedgerRows
      /\ UNCHANGED <<issued, sessions, accounts, patched, recalculateFrom>>
  BY PairsParts DEF ChangeRow
<1>2. PICK r \in LedgerRows :
        /\ rows' = [rows EXCEPT ![id] = r]
        /\ TransferOf(r) \subseteq TransferOf(rows[id])
        /\ TransferOf(rows[id]) # {} => SameRow(rows[id], r)
  <2>1. CASE \E clearance \in {"Uncleared", "Cleared", "Reconciled"} :
               rows' = [rows EXCEPT ![id].clearance = clearance]
    <3>1. PICK clearance \in {"Uncleared", "Cleared", "Reconciled"} :
                 rows' = [rows EXCEPT ![id] = [rows[id] EXCEPT !.clearance = clearance]]
      BY <2>1
    <3> DEFINE r == [rows[id] EXCEPT !.clearance = clearance]
    <3>2. r \in LedgerRows /\ TransferOf(r) = TransferOf(rows[id]) /\ SameRow(rows[id], r)
      BY <1>1 DEF LedgerRows, TransferOf, SameRow
    <3> QED
      BY <3>1, <3>2
  <2>2. CASE ~IsTransfer(id) /\ rows' = [rows EXCEPT ![id].body = Categorized]
    <3> DEFINE r == [rows[id] EXCEPT !.body = Categorized]
    <3>1. r \in LedgerRows /\ TransferOf(r) = {}
      BY <1>1 DEF LedgerRows, Bodies, TransferOf, Categorized
    <3>2. TransferOf(rows[id]) = {} /\ rows' = [rows EXCEPT ![id] = r]
      BY <2>2 DEF IsTransfer, TransferOf
    <3> QED
      BY <3>1, <3>2
  <2>3. CASE /\ ~IsTransfer(id)
             /\ \E account \in Accounts : /\ Open(account, ok)
                                          /\ rows' = [rows EXCEPT ![id].account = account]
    <3>1. PICK account \in Accounts :
                 rows' = [rows EXCEPT ![id] = [rows[id] EXCEPT !.account = account]]
      BY <2>3
    <3> DEFINE r == [rows[id] EXCEPT !.account = account]
    <3>2. r \in LedgerRows /\ TransferOf(r) = {} /\ TransferOf(rows[id]) = {}
      BY <1>1, <2>3 DEF LedgerRows, TransferOf, IsTransfer
    <3> QED
      BY <3>1, <3>2
  <2> QED
    BY <2>1, <2>2, <2>3 DEF ChangeRow
<1>3. /\ rows' \in [DOMAIN rows -> LedgerRows]
      /\ rows'[id] = r /\ \A other \in DOMAIN rows \ {id} : rows'[other] = rows[other]
  BY <1>2, PairsParts
<1>4. \A other \in DOMAIN rows : TransferOf(rows'[other]) \subseteq TransferOf(rows[other])
  BY <1>2, <1>3
<1>5. \A other \in DOMAIN rows : \A t \in TransferOf(rows[other]) : SameRow(rows[other], rows'[other])
  BY <1>2, <1>3 DEF SameRow
<1> QED
  BY <1>1, <1>3, <1>4, <1>5, PairsParts, ReplacingPairs

\* The dates of the rows in a set have a minimum.
LEMMA FirstDate ==
  ASSUME PairsInv, NEW ids \in SUBSET DOMAIN rows, ids # {}
  PROVE  /\ Min({rows[id].date : id \in ids}) \in Dates
         /\ \A old \in ids : Min({rows[id].date : id \in ids}) <= rows[old].date
<1> DEFINE dates == {rows[id].date : id \in ids}
<1>1. IsFiniteSet(ids)
  <2>1. IsFiniteSet(1..issued)
    BY PairsParts, FS_Interval
  <2>2. ids \in SUBSET (1..issued)
    BY PairsParts DEF IsLedger
  <2> QED
    BY <2>1, <2>2, FS_Subset
<1>2. IsFiniteSet(dates)
  <2>1. [id \in ids |-> rows[id].date] \in Surjection(ids, dates)
    BY DEF Surjection
  <2> QED
    BY <1>1, <2>1, FS_Surjection
<1>3. dates \subseteq Dates /\ dates # {}
  BY PairsParts DEF LedgerRows
<1>4. Min(dates) \in dates /\ \A d \in dates : Min(dates) <= d
  <2> HIDE DEF dates
  <2> QED
    BY <1>2, <1>3, MinExists, BooksAssumption
<1> QED
  BY <1>3, <1>4

\* TransactionService: ordinary rows are deleted.
LEMMA DeleteRowsPairs ==
  ASSUME PairsInv, NEW ids \in SUBSET DOMAIN rows, NEW ok \in BOOLEAN, DeleteRows(ids, ok)
  PROVE  PairsInv'
<1>1. /\ rows' = Restrict(rows, DOMAIN rows \ ids)
      /\ ids # {}
      /\ recalculateFrom' = Earliest(Min({rows[id].date : id \in ids}))
      /\ UNCHANGED <<issued, sessions, accounts, patched>>
      /\ \A id \in ids : ~IsTransfer(id)
  BY DEF DeleteRows
<1>2. recalculateFrom' \in Dates \cup {NoDate}
  BY <1>1, FirstDate, PairsParts, EarliestIsDate
<1>3. \A id \in ids : TransferOf(rows[id]) = {}
  BY <1>1 DEF IsTransfer, TransferOf
<1> QED
  BY <1>1, <1>2, <1>3, RemovingPairs

\* Of a transfer no correction touched, LegsOf names the leg and its pair.
LEMMA TheOtherLeg ==
  ASSUME PairsInv, NEW id \in DOMAIN rows, IsTransfer(id),
         NEW pair \in LegsOf(id) \ {id}
  PROVE  /\ pair \in DOMAIN rows /\ IsTransfer(pair)
         /\ rows[pair].body.transfer = rows[id].body.transfer
         /\ rows[id].body.transfer \notin patched =>
              /\ Pair(rows, id, pair) /\ Pair(rows, pair, id)
              /\ \A other \in DOMAIN rows :
                   Leg(rows, other, rows[id].body.transfer) <=> other \in {id, pair}
<1> DEFINE t == rows[id].body.transfer
<1>1. pair \in DOMAIN rows /\ pair # id /\ IsTransfer(pair) /\ rows[pair].body.transfer = t
  BY DEF LegsOf
<1>2. Leg(rows, id, t) /\ Leg(rows, pair, t)
  BY <1>1 DEF Leg, IsTransfer, TransferOf
<1>3. ASSUME t \notin patched
      PROVE  /\ Pair(rows, id, pair) /\ Pair(rows, pair, id)
             /\ \A other \in DOMAIN rows : Leg(rows, other, t) <=> other \in {id, pair}
  <2>1. Paired(rows, t)
    BY <1>3, PairsParts DEF TransfersStand
  <2> HIDE DEF t
  <2>2. PICK p \in DOMAIN rows \ {id} :
          /\ \A other \in DOMAIN rows : Leg(rows, other, t) <=> other \in {id, p}
          /\ Pair(rows, id, p)
    BY <1>2, <2>1 DEF Paired
  <2>3. PICK q \in DOMAIN rows \ {pair} :
          /\ \A other \in DOMAIN rows : Leg(rows, other, t) <=> other \in {pair, q}
          /\ Pair(rows, pair, q)
    BY <1>1, <1>2, <2>1 DEF Paired
  <2>4. p = pair /\ q = id
    BY <1>1, <1>2, <2>2, <2>3
  <2> QED
    BY <2>2, <2>3, <2>4
<1> QED
  BY <1>1, <1>3

\* What EditLegs makes of the two rows.
LEMMA LegsEdited ==
  ASSUME PairsInv, NEW id \in DOMAIN rows, IsTransfer(id), NEW pair \in LegsOf(id) \ {id},
         NEW d \in Dates, NEW x \in Int, EditLegs(id, pair, d, x)
  PROVE  /\ rows' \in [DOMAIN rows -> LedgerRows]
         /\ \A other \in DOMAIN rows : TransferOf(rows'[other]) = TransferOf(rows[other])
         /\ \A other \in DOMAIN rows \ {id, pair} : rows'[other] = rows[other]
         /\ rows'[id].account = rows[id].account /\ rows'[pair].account = rows[pair].account
         /\ rows'[id].date = d /\ rows'[pair].date = d
         /\ rows'[id].amount = x /\ rows'[pair].amount = -x
         /\ rows'[id].body.other = rows[id].body.other
         /\ rows'[pair].body.other = rows[pair].body.other
         /\ rows'[id].body.otherAmount = -x /\ rows'[pair].body.otherAmount = x
<1> DEFINE Edited(r, amount, other) ==
             [r EXCEPT !.date = d, !.amount = amount, !.body.otherAmount = other]
<1>1. pair \in DOMAIN rows /\ IsTransfer(pair) /\ pair # id
  BY TheOtherLeg
<1>2. rows[id] \in LedgerRows /\ rows[pair] \in LedgerRows /\ rows \in [DOMAIN rows -> LedgerRows]
  BY <1>1, PairsParts
<1>3. -x \in Int
  OBVIOUS
<1>4. ASSUME NEW r \in LedgerRows, r.body.kind = "transfer", NEW amount \in Int, NEW other \in Int
      PROVE  /\ Edited(r, amount, other) \in LedgerRows
             /\ TransferOf(Edited(r, amount, other)) = TransferOf(r)
             /\ Edited(r, amount, other).account = r.account
             /\ Edited(r, amount, other).date = d
             /\ Edited(r, amount, other).amount = amount
             /\ Edited(r, amount, other).body.other = r.body.other
             /\ Edited(r, amount, other).body.otherAmount = other
  <2>1. r.body \in [kind : {"transfer"}, transfer : Nat, other : Accounts, otherAmount : Int]
    BY <1>4 DEF LedgerRows, Bodies, Opening, Categorized
  <2> DEFINE body == [r.body EXCEPT !.otherAmount = other]
  <2>2. /\ body \in [kind : {"transfer"}, transfer : Nat, other : Accounts, otherAmount : Int]
        /\ body.kind = r.body.kind /\ body.transfer = r.body.transfer
        /\ body.other = r.body.other /\ body.otherAmount = other
    BY <1>4, <2>1
  <2>3. Edited(r, amount, other) = [r EXCEPT !.date = d, !.amount = amount, !.body = body]
    BY <1>4 DEF LedgerRows
  <2> HIDE DEF body, Edited
  <2>4. body \in Bodies
    BY <2>2 DEF Bodies
  <2>5. [r EXCEPT !.date = d, !.amount = amount, !.body = body] \in LedgerRows
    BY <1>4, <2>4 DEF LedgerRows
  <2>6. /\ Edited(r, amount, other).account = r.account
        /\ Edited(r, amount, other).date = d
        /\ Edited(r, amount, other).amount = amount
        /\ Edited(r, amount, other).body = body
    BY <1>4, <2>3 DEF LedgerRows
  <2>7. TransferOf(Edited(r, amount, other)) = TransferOf(r)
    BY <2>2, <2>6 DEF TransferOf
  <2> QED
    BY <2>2, <2>3, <2>5, <2>6, <2>7
<1>5. rows' = [rows EXCEPT ![id] = Edited(rows[id], x, -x), ![pair] = Edited(rows[pair], -x, x)]
  BY <1>1, <1>2 DEF EditLegs
<1> HIDE DEF Edited
<1>6. /\ rows'[id] = Edited(rows[id], x, -x)
      /\ rows'[pair] = Edited(rows[pair], -x, x)
      /\ \A other \in DOMAIN rows \ {id, pair} : rows'[other] = rows[other]
      /\ DOMAIN rows' = DOMAIN rows
  BY <1>1, <1>2, <1>5
<1>7. /\ rows'[id] \in LedgerRows /\ rows'[pair] \in LedgerRows
      /\ TransferOf(rows'[id]) = TransferOf(rows[id])
      /\ TransferOf(rows'[pair]) = TransferOf(rows[pair])
  BY <1>1, <1>2, <1>3, <1>4, <1>6 DEF IsTransfer
<1>8. rows' \in [DOMAIN rows -> LedgerRows]
  <2>1. \A other \in DOMAIN rows : rows'[other] \in LedgerRows
    BY <1>2, <1>6, <1>7
  <2> QED
    BY <1>5, <2>1
<1> QED
  BY <1>1, <1>2, <1>3, <1>4, <1>6, <1>7, <1>8 DEF IsTransfer

\* TransactionService: the date and amount of a leg are taken over by the other.
LEMMA EditTransferPairs ==
  ASSUME PairsInv, NEW id \in DOMAIN rows, IsTransfer(id), NEW d \in Dates, NEW x \in Int,
         NEW ok \in BOOLEAN, EditTransfer(id, d, x, ok)
  PROVE  PairsInv'
<1> DEFINE t == rows[id].body.transfer
<1>1. PICK pair \in LegsOf(id) \ {id} : EditLegs(id, pair, d, x)
  BY DEF EditTransfer
<1>2. x \in Int /\ -x \in Int /\ -(-x) = x
  BY BooksAssumption
<1>3. /\ rows' \in [DOMAIN rows -> LedgerRows]
      /\ \A other \in DOMAIN rows : TransferOf(rows'[other]) = TransferOf(rows[other])
      /\ \A other \in DOMAIN rows \ {id, pair} : rows'[other] = rows[other]
      /\ rows'[id].account = rows[id].account /\ rows'[pair].account = rows[pair].account
      /\ rows'[id].date = d /\ rows'[pair].date = d
      /\ rows'[id].amount = x /\ rows'[pair].amount = -x
      /\ rows'[id].body.other = rows[id].body.other
      /\ rows'[pair].body.other = rows[pair].body.other
      /\ rows'[id].body.otherAmount = -x /\ rows'[pair].body.otherAmount = x
  BY <1>1, <1>2, LegsEdited
<1>4. /\ pair \in DOMAIN rows /\ pair # id /\ IsTransfer(pair) /\ rows[pair].body.transfer = t
      /\ t \notin patched =>
           /\ Pair(rows, id, pair) /\ Pair(rows, pair, id)
           /\ \A other \in DOMAIN rows : Leg(rows, other, t) <=> other \in {id, pair}
  BY <1>1, TheOtherLeg
<1>5. TransferOf(rows[id]) = {t} /\ TransferOf(rows[pair]) = {t}
  BY <1>4 DEF IsTransfer, TransferOf
<1>6. UNCHANGED <<issued, sessions, accounts, patched>> /\ recalculateFrom' \in Dates \cup {NoDate}
  <2>1. rows[id].date \in Dates
    BY PairsParts DEF LedgerRows
  <2> QED
    BY <2>1, PairsParts, EarliestIsDate DEF EditTransfer
<1>7. /\ Sound'
      /\ \A u : (\A other \in DOMAIN rows :
                   u \in TransferOf(rows[other]) => SameRow(rows[other], rows'[other]))
                => SameLegs(rows, rows', u)
  BY <1>3, <1>6, PairsParts, ReplacingIsSound
<1> HIDE DEF t
<1>8. ASSUME NEW u, u \notin patched' PROVE Paired(rows', u)
  <2>1. CASE u = t
    <3>1. /\ Pair(rows, id, pair) /\ Pair(rows, pair, id)
          /\ \A other \in DOMAIN rows : Leg(rows, other, t) <=> other \in {id, pair}
      BY <1>4, <1>6, <1>8, <2>1
    <3>2. \A other \in DOMAIN rows' : Leg(rows', other, t) <=> other \in {id, pair}
      BY <1>3, <3>1 DEF Leg
    <3>3. Pair(rows', id, pair) /\ Pair(rows', pair, id)
      BY <1>2, <1>3, <3>1 DEF Pair
    <3> QED
      BY <1>3, <1>4, <2>1, <3>2, <3>3 DEF Paired
  <2>2. CASE u # t
    <3>1. SameLegs(rows, rows', u)
      BY <1>3, <1>5, <1>7, <2>2 DEF SameRow
    <3> QED
      BY <1>6, <1>8, <3>1, PairsParts, PairedKept DEF TransfersStand
  <2> QED
    BY <2>1, <2>2
<1> QED
  BY <1>7, <1>8 DEF PairsInv, TransfersStand

\* TransactionService: a row is edited, as an ordinary one or as a leg.
LEMMA EditPairs ==
  ASSUME PairsInv, NEW id \in DOMAIN rows, NEW r \in ClientRows, NEW ok \in BOOLEAN,
         Edit(id, r, ok)
  PROVE  PairsInv'
<1>1. CASE IsTransfer(id)
  <2>1. r.date \in Dates /\ r.amount \in Int
    BY BooksAssumption DEF LedgerRows
  <2> QED
    BY <1>1, <2>1, EditTransferPairs DEF Edit
<1>2. CASE ~IsTransfer(id)
  <2>1. /\ rows' = [rows EXCEPT ![id] = r] /\ Patches(id, r)
        /\ TransferOf(r) \subseteq 1..issued
        /\ recalculateFrom' = Earliest(rows[id].date)
        /\ UNCHANGED <<accounts, issued, sessions>>
    BY <1>2 DEF Edit
  <2>2. r \in LedgerRows /\ rows[id].date \in Dates
    BY BooksAssumption, PairsParts DEF LedgerRows
  <2>3. rows' = Put(rows, id, r) /\ id \in 1..issued
    BY <2>1, ReplacedIsPut
  <2>4. IsLedger(rows', issued) /\ TransfersStand'
    <3>1. issued \in Nat /\ issued <= issued
      BY PairsParts
    <3> QED
      BY <2>1, <2>2, <2>3, <3>1, SuppliedStands
  <2>5. recalculateFrom' \in Dates \cup {NoDate}
    BY <2>1, <2>2, PairsParts, EarliestIsDate
  <2>6. LedgerSound'
    BY <2>1, <2>4, <2>5, PairsParts DEF LedgerSound
  <2>7. SessionsSound'
    BY <2>1, PairsParts, SessionsWait
  <2> QED
    BY <2>4, <2>6, <2>7 DEF PairsInv, Sound
<1> QED
  BY <1>1, <1>2

\* TransactionService: both legs are deleted or both become ordinary rows.
LEMMA EndTransferPairs ==
  ASSUME PairsInv, NEW id \in DOMAIN rows, NEW ok \in BOOLEAN, EndTransfer(id, ok)
  PROVE  PairsInv'
<1>1. IsTransfer(id) /\ UNCHANGED <<accounts, issued, sessions, patched>>
  BY DEF EndTransfer
<1>2. PICK pair \in LegsOf(id) \ {id} :
        \/ /\ rows' = Restrict(rows, DOMAIN rows \ {id, pair})
           /\ recalculateFrom' = Earliest(Min({rows[id].date, rows[pair].date}))
        \/ /\ rows' = [rows EXCEPT ![id].body = Opening, ![pair].body = Opening]
           /\ UNCHANGED recalculateFrom
  BY DEF EndTransfer
<1> DEFINE t == rows[id].body.transfer
<1>3. /\ pair \in DOMAIN rows /\ pair # id /\ IsTransfer(pair) /\ rows[pair].body.transfer = t
      /\ t \notin patched =>
           \A other \in DOMAIN rows : Leg(rows, other, t) <=> other \in {id, pair}
  BY <1>1, TheOtherLeg
<1>4. TransferOf(rows[id]) = {t} /\ TransferOf(rows[pair]) = {t}
  BY <1>1, <1>3 DEF IsTransfer, TransferOf
<1> HIDE DEF t
<1>5. CASE /\ rows' = Restrict(rows, DOMAIN rows \ {id, pair})
           /\ recalculateFrom' = Earliest(Min({rows[id].date, rows[pair].date}))
  <2>1. {rows[old].date : old \in {id, pair}} = {rows[id].date, rows[pair].date}
    OBVIOUS
  <2>2. {id, pair} \in SUBSET DOMAIN rows /\ {id, pair} # {}
    BY <1>3
  <2>3. Min({rows[id].date, rows[pair].date}) \in Dates
    BY <2>1, <2>2, FirstDate
  <2>4. recalculateFrom' \in Dates \cup {NoDate}
    BY <1>5, <2>3, PairsParts, EarliestIsDate
  <2>5. \A old \in DOMAIN rows \cap {id, pair} : \A u \in TransferOf(rows[old]) : u \notin patched =>
           \A other \in DOMAIN rows : Leg(rows, other, u) => other \in {id, pair}
    BY <1>3, <1>4
  <2> QED
    BY <1>1, <1>5, <2>4, <2>5, RemovingPairs
<1>6. CASE /\ rows' = [rows EXCEPT ![id].body = Opening, ![pair].body = Opening]
           /\ UNCHANGED recalculateFrom
  <2> DEFINE Unlinked(r) == [r EXCEPT !.body = Opening]
  <2>1. ASSUME NEW r \in LedgerRows PROVE Unlinked(r) \in LedgerRows /\ TransferOf(Unlinked(r)) = {}
    BY DEF LedgerRows, Bodies, TransferOf, Opening
  <2>2. /\ rows' = [rows EXCEPT ![id] = Unlinked(rows[id]), ![pair] = Unlinked(rows[pair])]
        /\ rows \in [DOMAIN rows -> LedgerRows]
        /\ recalculateFrom' \in Dates \cup {NoDate}
    BY <1>3, <1>6, PairsParts
  <2> HIDE DEF Unlinked
  <2>3. /\ rows'[id] = Unlinked(rows[id]) /\ rows'[pair] = Unlinked(rows[pair])
        /\ \A other \in DOMAIN rows \ {id, pair} : rows'[other] = rows[other]
    BY <1>3, <2>2
  <2>4. rows' \in [DOMAIN rows -> LedgerRows]
    <3>1. \A other \in DOMAIN rows : rows'[other] \in LedgerRows
      BY <1>3, <2>1, <2>2, <2>3
    <3> QED
      BY <2>2, <3>1
  <2>5. /\ TransferOf(rows'[id]) = {} /\ TransferOf(rows'[pair]) = {}
        /\ \A other \in DOMAIN rows : TransferOf(rows'[other]) \subseteq TransferOf(rows[other])
    BY <1>3, <2>1, <2>2, <2>3
  <2>6. Sound' /\ \A u : (\A other \in DOMAIN rows :
                            u \in TransferOf(rows[other]) => SameRow(rows[other], rows'[other]))
                         => SameLegs(rows, rows', u)
    BY <1>1, <2>2, <2>4, <2>5, PairsParts, ReplacingIsSound
  <2>7. ASSUME NEW u, u \notin patched PROVE Paired(rows', u)
    <3>1. CASE u = t
      <4>1. \A other \in DOMAIN rows' : ~Leg(rows', other, t)
        BY <1>3, <2>3, <2>4, <2>5, <2>7, <3>1 DEF Leg
      <4> QED
        BY <3>1, <4>1 DEF Paired
    <3>2. CASE u # t
      <4>1. SameLegs(rows, rows', u)
        BY <1>4, <2>3, <2>6, <3>2 DEF SameRow
      <4> QED
        BY <2>7, <4>1, PairsParts, PairedKept DEF TransfersStand
    <3> QED
      BY <3>1, <3>2
  <2> QED
    BY <1>1, <2>6, <2>7 DEF PairsInv, TransfersStand
<1> QED
  BY <1>2, <1>5, <1>6
-----------------------------------------------------------------------------
(* The calls of ReconciliationService *)

\* Recalculating a session touches its difference only.
LEMMA RecalculatedIs ==
  ASSUME NEW n \in Nat, NEW s, IsSession(s, n), NEW ledger, IsLedger(ledger, n)
  PROVE  /\ IsSession(Recalculated(s, ledger), n)
         /\ Recalculated(s, ledger).account = s.account
         /\ Recalculated(s, ledger).through = s.through
         /\ Recalculated(s, ledger).selected = s.selected
         /\ Recalculated(s, ledger).original = s.original
<1> DEFINE x == s.ending - Calculated(ledger, s.account, s.through, s.selected)
           q == Recalculated(s, ledger)
<1>1. Calculated(ledger, s.account, s.through, s.selected) \in Int /\ s.ending \in Int
  BY BalancesAreInts DEF IsSession
<1>2. x \in Int
  BY <1>1
<1>3. q = [s EXCEPT !.difference = x]
  BY DEF Recalculated
<1> HIDE DEF x, q
<1>4. q = [account |-> s.account, through |-> s.through, ending |-> s.ending,
           original |-> s.original, selected |-> s.selected, difference |-> x]
  BY <1>3 DEF IsSession
<1>5. IsSession(q, n)
  BY <1>2, <1>4 DEF IsSession
<1>6. q.account = s.account /\ q.through = s.through /\ q.selected = s.selected /\ q.original = s.original
  BY <1>4
<1> QED
  BY <1>5, <1>6 DEF q

\* One session is written.
LEMMA SessionWritten ==
  ASSUME SessionsSound, NEW id, NEW s, IsSession(s, issued),
         sessions' = Put(sessions, id, s) \/ sessions' = [sessions EXCEPT ![id] = s],
         UNCHANGED issued
  PROVE  SessionsSound'
BY DEF SessionsSound, Put

\* ReconciliationService: a session copies eligible rows and changes none.
LEMMA StartPairs ==
  ASSUME PairsInv, NEW id \in Statements, NEW a \in Accounts, NEW d \in Dates, NEW x \in Endings,
         Start(id, a, d, x)
  PROVE  PairsInv'
<1> DEFINE eligible == Eligible(a, d)
           s == [account |-> a, through |-> d, ending |-> x,
                 original |-> Restrict(rows, eligible),
                 selected |-> {row \in eligible : rows[row].clearance = "Cleared"},
                 difference |-> 0]
<1>1. /\ sessions' = Put(sessions, id, Recalculated(s, rows))
      /\ UNCHANGED <<accounts, rows, issued, recalculateFrom, patched>>
  BY DEF Start
<1>2. IsLedger(Restrict(rows, eligible), issued)
  BY PairsParts DEF IsLedger, Restrict, Eligible
<1>3. IsSession(s, issued)
  BY <1>2, BooksAssumption DEF IsSession
<1> HIDE DEF s
<1>4. IsSession(Recalculated(s, rows), issued)
  BY <1>3, PairsParts, RecalculatedIs
<1>5. SessionsSound'
  BY <1>1, <1>4, PairsParts, SessionWritten
<1> QED
  BY <1>1, <1>5 DEF PairsInv, Sound, LedgerSound, TransfersStand

\* ReconciliationService: a row is ticked in the session alone.
LEMMA SetClearedPairs ==
  ASSUME PairsInv, NEW id \in DOMAIN sessions, NEW row, SetCleared(id, row)
  PROVE  PairsInv'
<1> DEFINE s == sessions[id]
           toggled == IF row \in s.selected THEN s.selected \ {row} ELSE s.selected \cup {row}
           q == [s EXCEPT !.selected = toggled]
<1>1. /\ sessions' = [sessions EXCEPT ![id] = Recalculated(q, rows)]
      /\ UNCHANGED <<accounts, rows, issued, recalculateFrom, patched>>
  BY DEF SetCleared
<1>2. IsSession(s, issued)
  BY PairsParts DEF SessionsSound
<1> HIDE DEF s, toggled
<1>3. IsSession(q, issued)
  BY <1>2 DEF IsSession
<1> HIDE DEF q
<1>4. IsSession(Recalculated(q, rows), issued)
  BY <1>3, PairsParts, RecalculatedIs
<1>5. SessionsSound'
  BY <1>1, <1>4, PairsParts, SessionWritten
<1> QED
  BY <1>1, <1>5 DEF PairsInv, Sound, LedgerSound, TransfersStand

\* ReconciliationService: a row replaced from the session patches the transfers it names.
LEMMA CorrectionPairs ==
  ASSUME PairsInv, NEW id \in DOMAIN sessions, NEW row, NEW r \in ClientRows,
         Correction(id, row, r)
  PROVE  PairsInv'
<1> DEFINE s == sessions[id]
           ledger == Put(rows, row, r)
           q == [s EXCEPT !.original[row] = r]
<1>1. /\ row \in DOMAIN s.original
      /\ TransferOf(r) \subseteq 1..issued
      /\ rows' = ledger
      /\ sessions' = [sessions EXCEPT ![id] = Recalculated(q, ledger)]
      /\ Patches(row, r)
      /\ UNCHANGED <<accounts, issued, recalculateFrom>>
  BY DEF Correction
<1>2. IsSession(s, issued) /\ IsLedger(rows, issued) /\ issued \in Nat
  BY PairsParts DEF SessionsSound
<1>3. row \in 1..issued /\ r \in LedgerRows
  BY <1>1, <1>2, BooksAssumption DEF IsSession, IsLedger
<1> HIDE DEF s
<1>4. IsLedger(rows', issued) /\ TransfersStand'
  BY <1>1, <1>2, <1>3, SuppliedStands
<1>5. IsSession(q, issued)
  <2>1. q = [account |-> s.account, through |-> s.through, ending |-> s.ending,
             original |-> [s.original EXCEPT ![row] = r],
             selected |-> s.selected, difference |-> s.difference]
    BY <1>2 DEF IsSession
  <2>2. IsLedger([s.original EXCEPT ![row] = r], issued)
    BY <1>1, <1>2, <1>3 DEF IsSession, IsLedger
  <2> HIDE DEF q
  <2> QED
    BY <1>2, <2>1, <2>2 DEF IsSession
<1> HIDE DEF ledger, q
<1>6. IsSession(Recalculated(q, ledger), issued)
  BY <1>1, <1>2, <1>4, <1>5, RecalculatedIs
<1>7. SessionsSound'
  BY <1>1, <1>6, PairsParts, SessionWritten
<1>8. LedgerSound'
  BY <1>1, <1>4, PairsParts DEF LedgerSound
<1> QED
  BY <1>4, <1>7, <1>8 DEF PairsInv, Sound

\* ReconciliationService: the adjusting row belongs to no transfer.
LEMMA ConfirmAdjustmentPairs ==
  ASSUME PairsInv, NEW id \in DOMAIN sessions, ConfirmAdjustment(id)
  PROVE  PairsInv'
<1> DEFINE s == sessions[id]
           row == Row(s.account, s.through, s.difference, "Cleared", TRUE, Opening)
           ledger == Put(rows, New, row)
           q == [s EXCEPT !.original = Put(@, New, row), !.selected = @ \cup {New}]
<1>1. /\ issued' = issued + 1
      /\ rows' = ledger
      /\ sessions' = [sessions EXCEPT ![id] = Recalculated(q, ledger)]
      /\ UNCHANGED <<accounts, recalculateFrom, patched>>
  BY DEF ConfirmAdjustment, Issue
<1>2. IsSession(s, issued) /\ IsLedger(rows, issued) /\ issued \in Nat /\ New = issued + 1
  BY PairsParts DEF SessionsSound, New
<1>3. row \in LedgerRows /\ TransferOf(row) = {}
  BY <1>2, RowTyped DEF IsSession
<1> HIDE DEF s, row
<1>4. IsLedger(ledger, issued + 1) /\ \A t : SameLegs(rows, ledger, t)
  BY <1>2, <1>3, RowAdded
<1>5. IsSession(q, issued + 1)
  <2>1. q = [account |-> s.account, through |-> s.through, ending |-> s.ending,
             original |-> Put(s.original, New, row),
             selected |-> s.selected \cup {New}, difference |-> s.difference]
    <3>1. ASSUME NEW original, NEW chosen
          PROVE  [s EXCEPT !.original = original, !.selected = chosen]
                   = [account |-> s.account, through |-> s.through, ending |-> s.ending,
                      original |-> original, selected |-> chosen, difference |-> s.difference]
      <4> DEFINE p == [s EXCEPT !.original = original]
      <4>1. p = [account |-> s.account, through |-> s.through, ending |-> s.ending,
                 original |-> original, selected |-> s.selected, difference |-> s.difference]
        BY <1>2 DEF IsSession
      <4> HIDE DEF p
      <4>2. [p EXCEPT !.selected = chosen]
              = [account |-> s.account, through |-> s.through, ending |-> s.ending,
                 original |-> original, selected |-> chosen, difference |-> s.difference]
        BY <4>1
      <4> QED
        BY <4>2 DEF p
    <3> QED
      BY <3>1
  <2>2. IsLedger(Put(s.original, New, row), issued + 1)
    BY <1>2, <1>3, RowAdded DEF IsSession
  <2> HIDE DEF q
  <2> QED
    BY <1>2, <2>1, <2>2 DEF IsSession
<1> HIDE DEF ledger, q
<1>6. IsSession(Recalculated(q, ledger), issued + 1)
  BY <1>2, <1>4, <1>5, RecalculatedIs
<1>7. SessionsSound'
  <2> SUFFICES ASSUME NEW other \in DOMAIN sessions PROVE IsSession(sessions'[other], issued + 1)
    BY <1>1 DEF SessionsSound
  <2>1. CASE other = id
    BY <1>1, <1>6, <2>1
  <2>2. CASE other # id
    <3>1. sessions'[other] = sessions[other] /\ IsSession(sessions[other], issued)
      BY <1>1, <2>2, PairsParts DEF SessionsSound
    <3>2. IsLedger(sessions[other].original, issued + 1)
      BY <1>2, <3>1, LedgerGrows DEF IsSession
    <3> QED
      BY <3>1, <3>2 DEF IsSession
  <2> QED
    BY <2>1, <2>2
<1>8. LedgerSound'
  BY <1>1, <1>2, <1>4, PairsParts DEF LedgerSound
<1>9. TransfersStand'
  BY <1>1, <1>4, PairsParts, StandingKept
<1> QED
  BY <1>7, <1>8, <1>9 DEF PairsInv, Sound

\* ReconciliationService: completing writes clearances only.
LEMMA CompletePairs ==
  ASSUME PairsInv, NEW id \in DOMAIN sessions, Complete(id)
  PROVE  PairsInv'
<1> DEFINE s == sessions[id]
<1>1. /\ rows' = [row \in DOMAIN rows |-> IF row \in s.selected
                    THEN [rows[row] EXCEPT !.clearance = "Reconciled"] ELSE rows[row]]
      /\ sessions' = Restrict(sessions, DOMAIN sessions \ {id})
      /\ UNCHANGED <<accounts, issued, recalculateFrom, patched>>
  BY DEF Complete
<1> HIDE DEF s
<1>2. ASSUME NEW row \in DOMAIN rows
      PROVE  /\ rows'[row] \in LedgerRows
             /\ TransferOf(rows'[row]) = TransferOf(rows[row])
             /\ SameRow(rows[row], rows'[row])
  <2>1. rows[row] \in LedgerRows
    BY PairsParts
  <2> QED
    BY <1>1, <2>1 DEF LedgerRows, TransferOf, SameRow
<1>3. rows' \in [DOMAIN rows -> LedgerRows]
  BY <1>1, <1>2
<1>4. IsLedger(rows', issued) /\ \A t : SameLegs(rows, rows', t)
  BY <1>2, <1>3, PairsParts, RowsReplaced
<1>5. SessionsSound'
  BY <1>1, PairsParts DEF SessionsSound, Restrict
<1>6. LedgerSound'
  BY <1>1, <1>4, PairsParts DEF LedgerSound
<1>7. TransfersStand'
  BY <1>1, <1>4, PairsParts, StandingKept
<1> QED
  BY <1>5, <1>6, <1>7 DEF PairsInv, Sound

\* ReconciliationService: an edited leg patches its transfer.
LEMMA EditReconciledPairs ==
  ASSUME PairsInv, NEW id \in DOMAIN rows, NEW r \in ClientRows, NEW ok \in BOOLEAN,
         EditReconciled(id, r, ok)
  PROVE  PairsInv'
<1>1. /\ rows' = [rows EXCEPT ![id] = r] /\ Patches(id, r)
      /\ TransferOf(r) \subseteq 1..issued
      /\ UNCHANGED <<accounts, issued, recalculateFrom, sessions>>
  BY DEF EditReconciled
<1>2. r \in LedgerRows
  BY BooksAssumption
<1>3. rows' = Put(rows, id, r) /\ id \in 1..issued
  BY <1>1, ReplacedIsPut
<1>4. IsLedger(rows', issued) /\ TransfersStand'
  <2>1. issued \in Nat /\ issued <= issued
    BY PairsParts
  <2> QED
    BY <1>1, <1>2, <1>3, <2>1, SuppliedStands
<1>5. LedgerSound'
  BY <1>1, <1>4, PairsParts DEF LedgerSound
<1>6. SessionsSound'
  BY <1>1, PairsParts, SessionsWait
<1> QED
  BY <1>4, <1>5, <1>6 DEF PairsInv, Sound

\* ReconciliationService: a transfer goes with both of its legs.
LEMMA DeleteReconciledPairs ==
  ASSUME PairsInv, NEW id \in DOMAIN rows, NEW ok \in BOOLEAN, DeleteReconciled(id, ok)
  PROVE  PairsInv'
<1> DEFINE ids == IF IsTransfer(id) THEN LegsOf(id) ELSE {id}
<1>1. /\ rows' = Restrict(rows, DOMAIN rows \ ids)
      /\ UNCHANGED <<accounts, issued, recalculateFrom, sessions, patched>>
  BY DEF DeleteReconciled
<1>2. ASSUME NEW row \in DOMAIN rows \cap ids, NEW t \in TransferOf(rows[row]),
             NEW other \in DOMAIN rows, Leg(rows, other, t)
      PROVE  other \in ids
  BY <1>2 DEF Leg, TransferOf, IsTransfer, LegsOf
<1>3. recalculateFrom' \in Dates \cup {NoDate}
  BY <1>1, PairsParts
<1> HIDE DEF ids
<1> QED
  BY <1>1, <1>2, <1>3, RemovingPairs
-----------------------------------------------------------------------------
\* The empty ledger.
LEMMA PairsAtStart == BooksStart => PairsInv
<1> SUFFICES ASSUME BooksStart PROVE PairsInv
  OBVIOUS
<1>1. /\ accounts = <<>> /\ rows = <<>> /\ issued = 0 /\ recalculateFrom = NoDate
      /\ sessions = <<>>
  BY DEF BooksStart
<1>2. DOMAIN <<>> = {} /\ <<>> = [id \in {} |-> id]
  OBVIOUS
<1>3. IsLedger(rows, issued)
  BY <1>1, <1>2 DEF IsLedger
<1>4. Sound
  BY <1>1, <1>2, <1>3 DEF Sound, LedgerSound, SessionsSound
<1>5. TransfersStand
  BY <1>1, <1>2 DEF TransfersStand, Paired
<1> QED
  BY <1>4, <1>5 DEF PairsInv

\* Every call of the three services keeps the invariant.
LEMMA PairsStep == PairsInv /\ [BooksNext]_books => PairsInv'
<1> SUFFICES ASSUME PairsInv, [BooksNext]_books PROVE PairsInv'
  OBVIOUS
<1>1. CASE TransactionStep
  <2>1. CASE \E a, b \in Accounts, d \in Dates, x \in Amounts : CreateTransfer(a, b, d, x)
    <3>1. PICK a \in Accounts, b \in Accounts, d \in Dates, x \in Amounts : CreateTransfer(a, b, d, x)
      BY <2>1
    <3>2. /\ a # b /\ x \in Int
          /\ rows' = WithTransfer(a, b, d, x) /\ issued' = issued + 2
          /\ UNCHANGED <<accounts, sessions, patched>>
          /\ recalculateFrom' = Earliest(d)
      BY <3>1, BooksAssumption DEF CreateTransfer, CanTransfer, Issue
    <3>3. recalculateFrom' \in Dates \cup {NoDate} /\ DOMAIN accounts' \subseteq Accounts
      BY <3>2, PairsParts, EarliestIsDate
    <3> QED
      BY <3>2, <3>3, CreateTransferPairs
  <2> QED
    BY <1>1, <2>1, AddPairs, EditPairs, DeleteRowsPairs, DuplicatePairs, ApprovePairs,
       ChangeRowPairs, EndTransferPairs DEF TransactionStep
<1>2. CASE AccountStep
  <2>1. CASE \E a \in Accounts : (\E l \in BOOLEAN : ChangeType(a, l)) \/ Reopen(a) \/ DeleteAccount(a)
    <3>1. /\ UNCHANGED <<rows, issued, recalculateFrom, sessions, patched>>
          /\ DOMAIN accounts' \subseteq DOMAIN accounts
      BY <2>1 DEF ChangeType, Reopen, DeleteAccount, Restrict
    <3> QED
      BY <3>1, PairsParts, AccountPairs
  <2> QED
    BY <1>2, <2>1, CreateAccountPairs, ClosePairs DEF AccountStep
<1>3. CASE ReconciliationStep
  BY <1>3, StartPairs, SetClearedPairs, CorrectionPairs, ConfirmAdjustmentPairs, CompletePairs,
     EditReconciledPairs, DeleteReconciledPairs DEF ReconciliationStep
<1>4. CASE UNCHANGED books
  BY <1>4 DEF books, PairsInv, Sound, LedgerSound, SessionsSound, TransfersStand
<1> QED
  BY <1>1, <1>2, <1>3, <1>4 DEF BooksNext

\* Under every sequence of calls of the three services the two legs of a transfer stay a
\* pair: distinct accounts that name each other, one date, exactly opposite amounts.
THEOREM TransfersStayPaired == BooksSpec => []TransfersPaired
<1>1. PairsInv => TransfersPaired
  BY PairsParts, TransfersPairedIs DEF TransfersStand
<1> QED
  BY <1>1, PairsAtStart, PairsStep, PTL DEF BooksSpec
-----------------------------------------------------------------------------
(* Completed reconciliations go on describing their rows *)

IsRecord(r) ==
  /\ r = [account |-> r.account, through |-> r.through, included |-> r.included,
          difference |-> r.difference, state |-> r.state]
  /\ r.through \in Int

Described(r, id) ==
  id \in DOMAIN rows /\ rows[id].clearance = "Reconciled" /\ rows[id].account = records[r].account

RecordsHold ==
  \A r \in DOMAIN records :
    /\ IsRecord(records[r])
    /\ Stands(r) => \A id \in records[r].included \ overridden : Described(r, id)

PastInv == PairsInv /\ RecordsHold

SameEntry(r, q) == /\ r.account = q.account /\ r.date = q.date
                   /\ r.amount = q.amount /\ r.clearance = q.clearance

\* The four fields RecordsStand looks at, one by one.
LEMMA EntryFields ==
  ASSUME NEW r, NEW q, SameEntry(r, q)
  PROVE  \A field \in {"account", "date", "amount", "clearance"} : q[field] = r[field]
BY DEF SameEntry

\* A step that lets every reconciled row alone, or says that it overrode it.
LEMMA RecordsKept ==
  ASSUME RecordsHold, UNCHANGED records, overridden \subseteq overridden',
         \A id \in DOMAIN rows \ overridden' : rows[id].clearance = "Reconciled" =>
           id \in DOMAIN rows' /\ SameEntry(rows[id], rows'[id])
  PROVE  RecordsHold' /\ RecordsStand
<1>1. ASSUME NEW r \in DOMAIN records, Stands(r), NEW id \in records[r].included \ overridden'
      PROVE  /\ Described(r, id) /\ id \in DOMAIN rows'
             /\ SameEntry(rows[id], rows'[id])
  <2>1. Described(r, id)
    BY <1>1 DEF RecordsHold
  <2> QED
    BY <1>1, <2>1 DEF Described
<1>2. RecordsHold'
  <2>1. ASSUME NEW r \in DOMAIN records PROVE IsRecord(records[r])
    BY DEF RecordsHold
  <2>2. ASSUME NEW r \in DOMAIN records, Stands(r), NEW id \in records[r].included \ overridden'
        PROVE  Described(r, id)'
    BY <1>1, <2>2 DEF Described, SameEntry
  <2> QED
    BY <2>1, <2>2 DEF RecordsHold, Stands
<1>3. RecordsStand
  BY <1>1, EntryFields DEF RecordsStand
<1> QED
  BY <1>2, <1>3

\* The rows a call of TransactionService changes are overridden when they are reconciled.
LEMMA OverridingKeeps ==
  ASSUME RecordsHold, UNCHANGED records, NEW ids, Overrides(ids),
         \A id \in DOMAIN rows \ ids : id \in DOMAIN rows' /\ SameEntry(rows[id], rows'[id])
  PROVE  RecordsHold' /\ RecordsStand
<1>1. overridden \subseteq overridden'
  BY DEF Overrides
<1>2. ASSUME NEW id \in DOMAIN rows \ overridden', rows[id].clearance = "Reconciled"
      PROVE  id \in DOMAIN rows' /\ SameEntry(rows[id], rows'[id])
  BY <1>2 DEF Overrides
<1> QED
  BY <1>1, <1>2, RecordsKept

\* A row left alone has kept them.
LEMMA SameEntryItself == ASSUME NEW r PROVE SameEntry(r, r)
BY DEF SameEntry

\* A call that only adds rows, or leaves them all as they are.
LEMMA AddingKeeps ==
  ASSUME RecordsHold, UNCHANGED <<records, overridden>>,
         \A id \in DOMAIN rows : id \in DOMAIN rows' /\ rows'[id] = rows[id]
  PROVE  RecordsHold' /\ RecordsStand
BY SameEntryItself, RecordsKept

\* Ids not handed out name no row.
LEMMA NewIsNew ==
  ASSUME PairsInv
  PROVE  New \notin DOMAIN rows /\ New + 1 \notin DOMAIN rows /\ New # New + 1
BY PairsParts DEF New, IsLedger

\* Adding a transfer leaves the rows there are.
LEMMA WithTransferKeeps ==
  ASSUME PairsInv, NEW a, NEW b, NEW d, NEW x, rows' = WithTransfer(a, b, d, x)
  PROVE  \A id \in DOMAIN rows : id \in DOMAIN rows' /\ rows'[id] = rows[id]
BY NewIsNew DEF WithTransfer, Put

\* So does adding one row.
LEMMA AddedKeeps ==
  ASSUME PairsInv, NEW r, rows' = Put(rows, New, r)
  PROVE  \A id \in DOMAIN rows : id \in DOMAIN rows' /\ rows'[id] = rows[id]
<1>1. New \notin DOMAIN rows
  BY NewIsNew
<1> QED
  BY <1>1 DEF Put

\* The calls of AccountService.
LEMMA AccountKeeps ==
  ASSUME PastInv, AccountStep
  PROVE  RecordsHold' /\ RecordsStand
<1>1. RecordsHold /\ PairsInv
  BY DEF PastInv
<1>2. UNCHANGED <<records, overridden>>
  BY DEF AccountStep, CreateAccount, ChangeType, Close, Reopen, DeleteAccount
<1>3. \A id \in DOMAIN rows : id \in DOMAIN rows' /\ rows'[id] = rows[id]
  <2>1. CASE UNCHANGED rows
    BY <2>1
  <2>2. ASSUME NEW r, rows' = Put(rows, New, r)
        PROVE  \A id \in DOMAIN rows : id \in DOMAIN rows' /\ rows'[id] = rows[id]
    BY <1>1, <2>2, AddedKeeps
  <2>3. CASE \E a \in Accounts, l \in BOOLEAN, x \in Amounts, d \in Dates : CreateAccount(a, l, x, d)
    <3>1. PICK a \in Accounts, l \in BOOLEAN, x \in Amounts, d \in Dates : CreateAccount(a, l, x, d)
      BY <2>3
    <3> DEFINE opening == IF l THEN -x ELSE x
               r == Row(a, d, opening, "Cleared", TRUE, Opening)
    <3>2. UNCHANGED rows \/ rows' = Put(rows, New, r)
      BY <3>1 DEF CreateAccount
    <3> HIDE DEF r
    <3> QED
      BY <2>1, <2>2, <3>2
  <2>4. CASE \E a \in Accounts, r \in Accounts \cup {"adjust"}, d \in Dates : Close(a, r, d)
    <3>1. PICK a \in Accounts, r \in Accounts \cup {"adjust"}, d \in Dates : Close(a, r, d)
      BY <2>4
    <3>2. CASE \E x : rows' = WithTransfer(a, r, d, x)
      BY <1>1, <3>2, WithTransferKeeps
    <3> QED
      BY <2>1, <2>2, <3>1, <3>2 DEF Close
  <2> QED
    BY <2>1, <2>3, <2>4 DEF AccountStep, ChangeType, Reopen, DeleteAccount
<1> QED
  BY <1>1, <1>2, <1>3, AddingKeeps

\* The calls of TransactionService.
LEMMA TransactionKeeps ==
  ASSUME PastInv, TransactionStep
  PROVE  RecordsHold' /\ RecordsStand
<1>1. RecordsHold /\ PairsInv
  BY DEF PastInv
<1>2. UNCHANGED records
  BY DEF TransactionStep, Add, Edit, EditTransfer, DeleteRows, Duplicate, ApproveRows, ChangeRow,
         CreateTransfer, EndTransfer
<1>3. ASSUME NEW r, rows' = Put(rows, New, r), UNCHANGED overridden
      PROVE  RecordsHold' /\ RecordsStand
  <2>1. \A id \in DOMAIN rows : id \in DOMAIN rows' /\ rows'[id] = rows[id]
    BY <1>1, <1>3, AddedKeeps
  <2> QED
    BY <1>1, <1>2, <1>3, <2>1, AddingKeeps
<1>4. ASSUME NEW ids, Overrides(ids),
             \A id \in DOMAIN rows \ ids : id \in DOMAIN rows' /\ rows'[id] = rows[id]
      PROVE  RecordsHold' /\ RecordsStand
  BY <1>1, <1>2, <1>4, SameEntryItself, OverridingKeeps
<1>5. ASSUME NEW id \in 1..New, NEW r \in ClientRows, NEW ok \in BOOLEAN, Add(id, r, ok)
      PROVE  RecordsHold' /\ RecordsStand
  <2>1. rows' = Put(rows, id, r) /\ Overrides({id} \cap DOMAIN rows)
    BY <1>5 DEF Add
  <2>2. \A old \in DOMAIN rows \ ({id} \cap DOMAIN rows) :
          old \in DOMAIN rows' /\ rows'[old] = rows[old]
    BY <2>1 DEF Put
  <2> QED
    BY <1>4, <2>1, <2>2
<1>6. ASSUME NEW id \in DOMAIN rows, Duplicate(id) PROVE RecordsHold' /\ RecordsStand
  BY <1>3, <1>6 DEF Duplicate
<1>7. ASSUME NEW id \in DOMAIN rows, NEW r \in ClientRows, NEW ok \in BOOLEAN, Edit(id, r, ok)
      PROVE  RecordsHold' /\ RecordsStand
  <2>1. CASE IsTransfer(id)
    <3>1. PICK pair \in LegsOf(id) \ {id} : EditLegs(id, pair, r.date, r.amount) /\ Overrides({id, pair})
      BY <1>7, <2>1 DEF Edit, EditTransfer
    <3>2. \A old \in DOMAIN rows \ {id, pair} : old \in DOMAIN rows' /\ rows'[old] = rows[old]
      BY <3>1 DEF EditLegs
    <3> QED
      BY <1>4, <3>1, <3>2
  <2>2. CASE ~IsTransfer(id)
    <3>1. /\ Overrides({id})
          /\ \A old \in DOMAIN rows \ {id} : old \in DOMAIN rows' /\ rows'[old] = rows[old]
      BY <1>7, <2>2 DEF Edit
    <3> QED
      BY <1>4, <3>1
  <2> QED
    BY <2>1, <2>2
<1>8. ASSUME NEW ids \in SUBSET DOMAIN rows, NEW ok \in BOOLEAN, DeleteRows(ids, ok)
      PROVE  RecordsHold' /\ RecordsStand
  <2>1. /\ Overrides(ids)
        /\ \A old \in DOMAIN rows \ ids : old \in DOMAIN rows' /\ rows'[old] = rows[old]
    BY <1>8 DEF DeleteRows, Restrict
  <2> QED
    BY <1>4, <2>1
<1>9. ASSUME NEW ids \in SUBSET DOMAIN rows, ApproveRows(ids) PROVE RecordsHold' /\ RecordsStand
  <2>1. ASSUME NEW id \in DOMAIN rows PROVE id \in DOMAIN rows' /\ SameEntry(rows[id], rows'[id])
    <3>1. rows[id] \in LedgerRows
      BY <1>1, PairsParts
    <3> QED
      BY <1>9, <3>1 DEF ApproveRows, SameEntry, LedgerRows
  <2>2. UNCHANGED overridden
    BY <1>9 DEF ApproveRows
  <2> QED
    BY <1>1, <1>2, <2>1, <2>2, RecordsKept
<1>10. ASSUME NEW id \in DOMAIN rows, NEW ok \in BOOLEAN, ChangeRow(id, ok)
       PROVE  RecordsHold' /\ RecordsStand
  <2>1. /\ Overrides({id})
        /\ \A old \in DOMAIN rows \ {id} : old \in DOMAIN rows' /\ rows'[old] = rows[old]
    BY <1>10 DEF ChangeRow
  <2> QED
    BY <1>4, <2>1
<1>11. ASSUME NEW a \in Accounts, NEW b \in Accounts, NEW d \in Dates, NEW x \in Amounts,
              CreateTransfer(a, b, d, x)
       PROVE  RecordsHold' /\ RecordsStand
  <2>1. rows' = WithTransfer(a, b, d, x) /\ UNCHANGED overridden
    BY <1>11 DEF CreateTransfer
  <2>2. \A id \in DOMAIN rows : id \in DOMAIN rows' /\ rows'[id] = rows[id]
    BY <1>1, <2>1, WithTransferKeeps
  <2> QED
    BY <1>1, <1>2, <2>1, <2>2, AddingKeeps
<1>12. ASSUME NEW id \in DOMAIN rows, NEW ok \in BOOLEAN, EndTransfer(id, ok)
       PROVE  RecordsHold' /\ RecordsStand
  <2>1. PICK pair \in LegsOf(id) \ {id} :
          /\ Overrides({id, pair})
          /\ \/ rows' = Restrict(rows, DOMAIN rows \ {id, pair})
             \/ rows' = [rows EXCEPT ![id].body = Opening, ![pair].body = Opening]
    BY <1>12 DEF EndTransfer
  <2>2. \A old \in DOMAIN rows \ {id, pair} : old \in DOMAIN rows' /\ rows'[old] = rows[old]
    BY <2>1 DEF Restrict
  <2> QED
    BY <1>4, <2>1, <2>2
<1> QED
  BY <1>5, <1>6, <1>7, <1>8, <1>9, <1>10, <1>11, <1>12 DEF TransactionStep

\* invalidate_chain marks every completed record that includes one of the rows.
LEMMA InvalidatingKeeps ==
  ASSUME RecordsHold, UNCHANGED overridden, NEW ids \in SUBSET DOMAIN rows, Invalidate(ids),
         \A id \in DOMAIN rows \ ids : id \in DOMAIN rows' /\ rows'[id] = rows[id]
  PROVE  RecordsHold' /\ RecordsStand
<1>1. DOMAIN records' = DOMAIN records
  BY DEF Invalidate
<1>2. ASSUME NEW r \in DOMAIN records
      PROVE  /\ IsRecord(records'[r])
             /\ records'[r].included = records[r].included
             /\ records'[r].account = records[r].account
             /\ records'[r].state = "Completed" => records[r].state = "Completed"
  <2> DEFINE new == [records[r] EXCEPT !.state = "PotentiallyInvalid"]
  <2>1. IsRecord(records[r])
    BY DEF RecordsHold
  <2>2. /\ IsRecord(new) /\ new.included = records[r].included
        /\ new.account = records[r].account /\ new.state = "PotentiallyInvalid"
    BY <2>1 DEF IsRecord
  <2>3. records'[r] = new \/ records'[r] = records[r]
    BY DEF Invalidate
  <2> HIDE DEF new
  <2> QED
    BY <2>1, <2>2, <2>3
<1>3. ASSUME NEW r \in DOMAIN records, records'[r].state = "Completed",
             NEW id \in records[r].included \ overridden
      PROVE  /\ Stands(r) /\ Described(r, id)
             /\ id \in DOMAIN rows' /\ rows'[id] = rows[id]
  <2>1. Stands(r) /\ Described(r, id) /\ IsRecord(records[r])
    BY <1>2, <1>3 DEF Stands, RecordsHold
  <2>2. id \notin ids
    <3> SUFFICES ASSUME id \in ids PROVE FALSE
      OBVIOUS
    <3>1. records[r].account = rows[id].account /\ records[r].through <= records[r].through
      BY <2>1 DEF Described, IsRecord
    <3>2. records'[r] = [records[r] EXCEPT !.state = "PotentiallyInvalid"]
      BY <1>3, <3>1 DEF Invalidate
    <3>3. records'[r].state = "PotentiallyInvalid"
      BY <2>1, <3>2 DEF IsRecord
    <3> QED
      BY <1>3, <3>3
  <2> QED
    BY <2>1, <2>2 DEF Described
<1>4. RecordsHold'
  <2>1. ASSUME NEW r \in DOMAIN records', Stands(r)', NEW id \in records'[r].included \ overridden'
        PROVE  Described(r, id)'
    <3>1. r \in DOMAIN records /\ records'[r].state = "Completed" /\ id \in records[r].included \ overridden
      BY <1>1, <1>2, <2>1 DEF Stands
    <3>2. Described(r, id) /\ id \in DOMAIN rows' /\ rows'[id] = rows[id]
      BY <1>3, <3>1
    <3> QED
      BY <1>2, <3>1, <3>2 DEF Described
  <2> QED
    BY <1>1, <1>2, <2>1 DEF RecordsHold
<1>5. RecordsStand
  BY <1>1, <1>3 DEF RecordsStand
<1> QED
  BY <1>4, <1>5

\* A record is added for rows that no standing record includes: they were not Reconciled.
LEMMA CompleteKeeps ==
  ASSUME PastInv, NEW id \in DOMAIN sessions, Complete(id)
  PROVE  RecordsHold' /\ RecordsStand
<1> DEFINE s == sessions[id]
           record == [account |-> s.account, through |-> s.through, included |-> s.selected,
                      difference |-> s.ending - Calculated(rows, s.account, s.through, s.selected),
                      state |-> "Completed"]
<1>1. RecordsHold /\ PairsInv
  BY DEF PastInv
<1>2. /\ \A row \in s.selected : Unchanged(s, row)
      /\ rows' = [row \in DOMAIN rows |-> IF row \in s.selected
                    THEN [rows[row] EXCEPT !.clearance = "Reconciled"] ELSE rows[row]]
      /\ records' = Put(records, id, record)
      /\ UNCHANGED overridden
  BY DEF Complete
<1>3. IsRecord(record) /\ record.included = s.selected /\ record.account = s.account
  <2>1. s.through \in Int
    BY <1>1, PairsParts, BooksAssumption DEF SessionsSound, IsSession
  <2> HIDE DEF s
  <2> QED
    BY <2>1 DEF IsRecord
<1> HIDE DEF s, record
<1>4. ASSUME NEW row \in DOMAIN rows
      PROVE  /\ row \in DOMAIN rows'
             /\ rows'[row].account = rows[row].account
             /\ rows'[row].date = rows[row].date
             /\ rows'[row].amount = rows[row].amount
             /\ row \in s.selected => rows'[row].clearance = "Reconciled"
             /\ rows[row].clearance = "Reconciled" => rows'[row].clearance = "Reconciled"
  <2>1. rows[row] \in LedgerRows
    BY <1>1, PairsParts
  <2> QED
    BY <1>2, <2>1 DEF LedgerRows
<1>5. /\ DOMAIN records' = DOMAIN records \cup {id} /\ records'[id] = record
      /\ \A r \in DOMAIN records \ {id} : records'[r] = records[r]
  BY <1>2 DEF Put
<1>6. ASSUME NEW r \in DOMAIN records, Stands(r), NEW row \in records[r].included \ overridden
      PROVE  Described(r, row) /\ row \notin s.selected
  BY <1>1, <1>2, <1>6 DEF RecordsHold, Described, Unchanged
<1>7. RecordsHold'
  <2>1. ASSUME NEW r \in DOMAIN records' PROVE IsRecord(records'[r])
    BY <1>1, <1>3, <1>5 DEF RecordsHold
  <2>2. ASSUME NEW r \in DOMAIN records', Stands(r)', NEW row \in records'[r].included \ overridden'
        PROVE  Described(r, row)'
    <3>1. CASE r = id
      BY <1>2, <1>3, <1>4, <1>5, <2>2, <3>1 DEF Described, Unchanged
    <3>2. CASE r # id
      <4>1. Stands(r) /\ row \in records[r].included \ overridden /\ records'[r] = records[r]
            /\ r \in DOMAIN records
        BY <1>2, <1>5, <2>2, <3>2 DEF Stands
      <4> QED
        BY <1>4, <1>6, <4>1 DEF Described
    <3> QED
      BY <3>1, <3>2
  <2> QED
    BY <2>1, <2>2 DEF RecordsHold
<1>8. RecordsStand
  <2>1. ASSUME NEW r \in DOMAIN records, Stands(r), NEW row \in records[r].included \ overridden
        PROVE  /\ row \in DOMAIN rows' /\ SameEntry(rows[row], rows'[row])
    BY <1>4, <1>6, <2>1 DEF Described, SameEntry
  <2>2. ASSUME NEW r \in DOMAIN records' \ DOMAIN records, NEW q \in DOMAIN records, Stands(q)
        PROVE  (records'[r].included \cap records[q].included) \subseteq overridden
    BY <1>3, <1>5, <1>6, <2>2
  <2>3. ASSUME NEW r \in DOMAIN records, Stands(r), NEW row \in records[r].included \ overridden'
        PROVE  /\ row \in DOMAIN rows'
               /\ \A field \in {"account", "date", "amount", "clearance"} :
                    rows'[row][field] = rows[row][field]
    BY <1>2, <2>1, <2>3, EntryFields
  <2> QED
    BY <2>2, <2>3 DEF RecordsStand, Stands
<1> QED
  BY <1>7, <1>8

\* The calls of ReconciliationService.
LEMMA ReconciliationKeeps ==
  ASSUME PastInv, ReconciliationStep
  PROVE  RecordsHold' /\ RecordsStand
<1>1. RecordsHold /\ PairsInv
  BY DEF PastInv
<1>2. CASE UNCHANGED <<rows, records, overridden>>
  BY <1>1, <1>2, AddingKeeps
<1>3. ASSUME NEW id \in DOMAIN sessions, NEW row, NEW q, Correction(id, row, q)
      PROVE  RecordsHold' /\ RecordsStand
  <2>1. PICK r : rows' = Put(rows, row, r)
    BY <1>3 DEF Correction
  <2>2. UNCHANGED records /\ Overrides({row} \cap DOMAIN rows)
    BY <1>3 DEF Correction
  <2>3. \A old \in DOMAIN rows \ ({row} \cap DOMAIN rows) :
          old \in DOMAIN rows' /\ rows'[old] = rows[old]
    BY <2>1 DEF Put
  <2> QED
    BY <1>1, <2>2, <2>3, SameEntryItself, OverridingKeeps
<1>4. ASSUME NEW id \in DOMAIN sessions, ConfirmAdjustment(id)
      PROVE  RecordsHold' /\ RecordsStand
  <2>1. PICK r : rows' = Put(rows, New, r)
    BY <1>4 DEF ConfirmAdjustment
  <2>2. UNCHANGED <<records, overridden>>
    BY <1>4 DEF ConfirmAdjustment
  <2>3. \A old \in DOMAIN rows : old \in DOMAIN rows' /\ rows'[old] = rows[old]
    BY <1>1, <2>1, AddedKeeps
  <2> QED
    BY <1>1, <2>2, <2>3, AddingKeeps
<1>5. ASSUME NEW id \in DOMAIN rows, NEW q, NEW ok, EditReconciled(id, q, ok)
      PROVE  RecordsHold' /\ RecordsStand
  <2>1. /\ Invalidate({id}) /\ UNCHANGED overridden
        /\ \A old \in DOMAIN rows \ {id} : old \in DOMAIN rows' /\ rows'[old] = rows[old]
    BY <1>5 DEF EditReconciled
  <2> QED
    BY <1>1, <2>1, InvalidatingKeeps
<1>6. ASSUME NEW id \in DOMAIN rows, NEW ok, DeleteReconciled(id, ok)
      PROVE  RecordsHold' /\ RecordsStand
  <2>1. PICK ids \in SUBSET DOMAIN rows :
          rows' = Restrict(rows, DOMAIN rows \ ids) /\ Invalidate(ids)
    BY <1>6 DEF DeleteReconciled, LegsOf
  <2>2. UNCHANGED overridden
    BY <1>6 DEF DeleteReconciled
  <2>3. \A old \in DOMAIN rows \ ids : old \in DOMAIN rows' /\ rows'[old] = rows[old]
    BY <2>1 DEF Restrict
  <2> QED
    BY <1>1, <2>1, <2>2, <2>3, InvalidatingKeeps
<1>7. ASSUME NEW id, NEW a, NEW d, NEW x, Start(id, a, d, x) PROVE RecordsHold' /\ RecordsStand
  BY <1>2, <1>7 DEF Start
<1>8. ASSUME NEW id, NEW row, SetCleared(id, row) PROVE RecordsHold' /\ RecordsStand
  BY <1>2, <1>8 DEF SetCleared
<1> QED
  BY <1>3, <1>4, <1>5, <1>6, <1>7, <1>8, CompleteKeeps DEF ReconciliationStep
-----------------------------------------------------------------------------
(* The recalculation starts early enough *)

\* Rows whose old date, or whose date now, a call of TransactionService has to reach.
Left(id) ==
  /\ id \in DOMAIN rows /\ (IsTransfer(id) => rows[id].body.transfer \notin patched)
  /\ id \in DOMAIN rows' => rows'[id].date # rows[id].date \/ rows'[id].amount # rows[id].amount

Arrived(id) ==
  /\ id \in DOMAIN rows'
  /\ id \in DOMAIN rows => /\ IsTransfer(id) /\ rows[id].body.transfer \notin patched
                           /\ rows'[id].date # rows[id].date

\* Calls of the other services announce nothing.
LEMMA NothingToReach ==
  ASSUME PairsInv, UNCHANGED recalculateFrom,
         service' = "transactions" => \A id : ~Left(id) /\ ~Arrived(id)
  PROVE  RecalculationReachesBack
<1>1. recalculateFrom # NoDate => recalculateFrom \in Int
  BY PairsParts, BooksAssumption
<1> QED
  BY <1>1 DEF RecalculationReachesBack, Left, Arrived

\* Every row has a date.
LEMMA RowsAreDated == PairsInv => \A id \in DOMAIN rows : rows[id].date \in Dates
BY PairsParts DEF LedgerRows

\* The recalculation starts from a date that no changed row precedes.
LEMMA ReachesFrom ==
  ASSUME PairsInv, PairsInv', NEW date \in Dates, recalculateFrom' = Earliest(date),
         \A id : Left(id) => date <= rows[id].date,
         \A id : Arrived(id) => date <= rows'[id].date
  PROVE  RecalculationReachesBack
<1>1. /\ recalculateFrom' \in Dates /\ recalculateFrom' <= date
      /\ recalculateFrom # NoDate => recalculateFrom' <= recalculateFrom
  BY PairsParts, EarliestIsDate
<1>2. \A id \in DOMAIN rows : rows[id].date \in Dates
  BY RowsAreDated
<1>3. \A id \in DOMAIN rows' : rows'[id].date \in Dates
  <2>1. (PairsInv => \A id \in DOMAIN rows : rows[id].date \in Dates)'
    BY RowsAreDated, PTL
  <2> QED
    BY <2>1
<1>4. Dates \subseteq Int /\ recalculateFrom' # NoDate
  BY <1>1, BooksAssumption
<1>5. ASSUME NEW id, Left(id) PROVE recalculateFrom' <= rows[id].date
  <2>1. rows[id].date \in Int
    BY <1>2, <1>4, <1>5 DEF Left
  <2>2. date <= rows[id].date /\ date \in Int /\ recalculateFrom' \in Int
    BY <1>1, <1>4, <1>5
  <2> QED
    BY <1>1, <2>1, <2>2
<1>6. ASSUME NEW id, Arrived(id) PROVE recalculateFrom' <= rows'[id].date
  <2>1. rows'[id].date \in Int
    BY <1>3, <1>4, <1>6 DEF Arrived
  <2>2. date <= rows'[id].date /\ date \in Int /\ recalculateFrom' \in Int
    BY <1>1, <1>4, <1>6
  <2> QED
    BY <1>1, <2>1, <2>2
<1> QED
  BY <1>1, <1>4, <1>5, <1>6 DEF RecalculationReachesBack, Left, Arrived

\* AccountService announces no recalculation and needs none.
LEMMA AccountReaches ==
  ASSUME PairsInv, AccountStep
  PROVE  RecalculationReachesBack
<1>1. UNCHANGED recalculateFrom /\ service' = "accounts"
  BY DEF AccountStep, CreateAccount, ChangeType, Close, Reopen, DeleteAccount, Call
<1> QED
  BY <1>1, NothingToReach

\* Nor does ReconciliationService, as RecalculationReachesBack is stated.
LEMMA ReconciliationReaches ==
  ASSUME PairsInv, ReconciliationStep
  PROVE  RecalculationReachesBack
<1>1. UNCHANGED recalculateFrom /\ service' = "reconciliation"
  BY DEF ReconciliationStep, Start, SetCleared, Correction, ConfirmAdjustment, Complete,
         EditReconciled, DeleteReconciled, Call
<1> QED
  BY <1>1, NothingToReach

\* A new row is reached from its own date.
LEMMA AddedReaches ==
  ASSUME PairsInv, PairsInv', NEW r \in LedgerRows, rows' = Put(rows, New, r),
         recalculateFrom' = Earliest(r.date)
  PROVE  RecalculationReachesBack
<1>1. r.date \in Dates /\ r.date \in Int
  BY BooksAssumption DEF LedgerRows
<1>2. /\ \A id \in DOMAIN rows : id \in DOMAIN rows' /\ rows'[id] = rows[id]
  BY AddedKeeps
<1>3. DOMAIN rows' = DOMAIN rows \cup {New} /\ rows'[New] = r
  BY DEF Put
<1>4. \A id : ~Left(id)
  BY <1>2 DEF Left
<1>5. \A id : Arrived(id) => id = New
  BY <1>2, <1>3 DEF Arrived
<1> QED
  BY <1>1, <1>3, <1>4, <1>5, ReachesFrom

\* An added row is reached from its date.
LEMMA AddReaches ==
  ASSUME PairsInv, PairsInv', NEW id \in 1..New, NEW r \in ClientRows, NEW ok \in BOOLEAN,
         Add(id, r, ok)
  PROVE  RecalculationReachesBack
<1>1. rows' = Put(rows, id, r) /\ recalculateFrom' = Earliest(r.date) /\ r.date \in Dates
  BY BooksAssumption DEF Add, LedgerRows
<1>2. CASE id \in DOMAIN rows
  <2>1. service' = "overwrite"
    BY <1>2 DEF Add, Call
  <2>2. /\ recalculateFrom' \in Int
        /\ recalculateFrom # NoDate => recalculateFrom' <= recalculateFrom
        /\ recalculateFrom' # NoDate
    BY <1>1, PairsParts, EarliestIsDate, BooksAssumption
  <2> QED
    BY <2>1, <2>2 DEF RecalculationReachesBack
<1>3. CASE id \notin DOMAIN rows
  <2>1. /\ \A old \in DOMAIN rows : old \in DOMAIN rows' /\ rows'[old] = rows[old]
        /\ DOMAIN rows' = DOMAIN rows \cup {id} /\ rows'[id] = r
    BY <1>1, <1>3 DEF Put
  <2>2. \A old : ~Left(old) /\ (Arrived(old) => old = id)
    BY <2>1 DEF Left, Arrived
  <2>3. r.date \in Int
    BY <1>1, BooksAssumption
  <2>4. r.date <= r.date
    BY <2>3
  <2> QED
    BY <1>1, <2>1, <2>2, <2>4, ReachesFrom
<1> QED
  BY <1>2, <1>3

\* A copy is reached from the date of the row it copies.
LEMMA DuplicateReaches ==
  ASSUME PairsInv, PairsInv', NEW id \in DOMAIN rows, Duplicate(id)
  PROVE  RecalculationReachesBack
<1> DEFINE r == [rows[id] EXCEPT !.clearance = "Uncleared", !.approved = FALSE]
<1>1. rows' = Put(rows, New, r) /\ recalculateFrom' = Earliest(rows[id].date)
  BY DEF Duplicate
<1>2. rows[id] \in LedgerRows
  BY PairsParts
<1>3. r \in LedgerRows /\ r.date = rows[id].date
  BY <1>2 DEF LedgerRows
<1> HIDE DEF r
<1> QED
  BY <1>1, <1>3, AddedReaches

\* An edited row is reached from its old date, a leg and its pair from both dates.
LEMMA EditReaches ==
  ASSUME PairsInv, PairsInv', NEW id \in DOMAIN rows, NEW r \in ClientRows, NEW ok \in BOOLEAN,
         Edit(id, r, ok)
  PROVE  RecalculationReachesBack
<1> DEFINE d == r.date
           x == r.amount
<1>1. /\ rows[id].date \in Dates /\ rows[id].date \in Int
      /\ d \in Dates /\ d \in Int /\ x \in Int
  BY PairsParts, BooksAssumption DEF LedgerRows
<1> HIDE DEF d, x
<1>2. CASE ~IsTransfer(id)
  <2>1. rows' = [rows EXCEPT ![id] = r]
    BY <1>2 DEF Edit
  <2>2. DOMAIN rows' = DOMAIN rows /\ \A old \in DOMAIN rows \ {id} : rows'[old] = rows[old]
    BY <2>1
  <2>3. recalculateFrom' = Earliest(rows[id].date)
    BY <1>2 DEF Edit
  <2>4. \A old : Left(old) => old = id
    BY <2>2 DEF Left
  <2>5. \A old : ~Arrived(old)
    BY <1>2, <2>2 DEF Arrived
  <2> QED
    BY <1>1, <2>3, <2>4, <2>5, ReachesFrom
<1>3. CASE IsTransfer(id)
  <2> DEFINE from == IF rows[id].date <= d THEN rows[id].date ELSE d
  <2>1. PICK pair \in LegsOf(id) \ {id} : EditLegs(id, pair, d, x)
    BY <1>3 DEF Edit, EditTransfer, d, x
  <2>2. recalculateFrom' = Earliest(from)
    BY <1>3 DEF Edit, EditTransfer, d, x
  <2>3. from \in Dates /\ from <= rows[id].date /\ from <= d
    BY <1>1
  <2> HIDE DEF from
  <2>4. /\ DOMAIN rows' = DOMAIN rows
        /\ \A other \in DOMAIN rows \ {id, pair} : rows'[other] = rows[other]
        /\ rows'[id].date = d /\ rows'[pair].date = d
    BY <1>1, <1>3, <2>1, LegsEdited
  <2>5. /\ rows[pair].body.transfer = rows[id].body.transfer /\ IsTransfer(pair)
        /\ rows[id].body.transfer \notin patched => rows[pair].date = rows[id].date
    BY <1>3, <2>1, TheOtherLeg DEF Pair
  <2>6. \A old : Left(old) => old \in {id, pair} /\ rows[old].date = rows[id].date
    BY <2>4, <2>5 DEF Left
  <2>7. \A old : Arrived(old) => rows'[old].date = d
    BY <2>4 DEF Arrived
  <2> QED
    BY <2>2, <2>3, <2>6, <2>7, ReachesFrom
<1> QED
  BY <1>2, <1>3

\* Deleted rows are reached from the earliest of their dates.
LEMMA DeleteRowsReaches ==
  ASSUME PairsInv, PairsInv', NEW ids \in SUBSET DOMAIN rows, NEW ok \in BOOLEAN, DeleteRows(ids, ok)
  PROVE  RecalculationReachesBack
<1> DEFINE from == Min({rows[id].date : id \in ids})
<1>1. rows' = Restrict(rows, DOMAIN rows \ ids) /\ recalculateFrom' = Earliest(from) /\ ids # {}
  BY DEF DeleteRows
<1>2. from \in Dates /\ \A id \in ids : from <= rows[id].date
  BY <1>1, FirstDate
<1> HIDE DEF from
<1>3. /\ DOMAIN rows' = DOMAIN rows \ ids
      /\ \A old \in DOMAIN rows \ ids : rows'[old] = rows[old]
  BY <1>1 DEF Restrict
<1>4. \A old : Left(old) => old \in ids
  BY <1>3 DEF Left
<1>5. \A old : ~Arrived(old)
  BY <1>3 DEF Arrived
<1> QED
  BY <1>1, <1>2, <1>4, <1>5, ReachesFrom

\* Calls that write neither a date nor an amount.
LEMMA SameDatesReach ==
  ASSUME PairsInv, UNCHANGED recalculateFrom, DOMAIN rows' = DOMAIN rows,
         \A id \in DOMAIN rows : rows'[id].date = rows[id].date /\ rows'[id].amount = rows[id].amount
  PROVE  RecalculationReachesBack
<1>1. \A id : ~Left(id) /\ ~Arrived(id)
  BY DEF Left, Arrived
<1> QED
  BY <1>1, NothingToReach

\* Approving moves no row.
LEMMA ApproveReaches ==
  ASSUME PairsInv, NEW ids \in SUBSET DOMAIN rows, ApproveRows(ids)
  PROVE  RecalculationReachesBack
<1>1. ASSUME NEW id \in DOMAIN rows
      PROVE  rows'[id].date = rows[id].date /\ rows'[id].amount = rows[id].amount
  <2>1. rows[id] \in LedgerRows
    BY PairsParts
  <2> QED
    BY <2>1 DEF ApproveRows, LedgerRows
<1>2. UNCHANGED recalculateFrom /\ DOMAIN rows' = DOMAIN rows
  BY DEF ApproveRows
<1> QED
  BY <1>1, <1>2, SameDatesReach

\* Setting one field moves no row.
LEMMA ChangeRowReaches ==
  ASSUME PairsInv, NEW id \in DOMAIN rows, NEW ok \in BOOLEAN, ChangeRow(id, ok)
  PROVE  RecalculationReachesBack
<1>1. rows[id] \in LedgerRows /\ rows \in [DOMAIN rows -> LedgerRows]
  BY PairsParts
<1>2. DOMAIN rows' = DOMAIN rows /\ \A old \in DOMAIN rows \ {id} : rows'[old] = rows[old]
  BY DEF ChangeRow
<1>3. rows'[id].date = rows[id].date /\ rows'[id].amount = rows[id].amount
  BY <1>1 DEF ChangeRow, LedgerRows
<1>4. UNCHANGED recalculateFrom
  BY DEF ChangeRow
<1> QED
  BY <1>2, <1>3, <1>4, SameDatesReach

\* Both legs are reached from their common date.
LEMMA CreateTransferReaches ==
  ASSUME PairsInv, PairsInv', NEW a \in Accounts, NEW b \in Accounts, NEW d \in Dates,
         NEW x \in Amounts, CreateTransfer(a, b, d, x)
  PROVE  RecalculationReachesBack
<1>1. rows' = WithTransfer(a, b, d, x) /\ recalculateFrom' = Earliest(d)
  BY DEF CreateTransfer
<1>2. \A id \in DOMAIN rows : id \in DOMAIN rows' /\ rows'[id] = rows[id]
  BY <1>1, WithTransferKeeps
<1>3. \A id \in DOMAIN rows' \ DOMAIN rows : rows'[id].date = d
  BY <1>1 DEF WithTransfer, Put, Row
<1>4. \A id : ~Left(id)
  BY <1>2 DEF Left
<1>5. \A id : Arrived(id) => rows'[id].date = d
  BY <1>2, <1>3 DEF Arrived
<1>6. d <= d
  BY BooksAssumption
<1> QED
  BY <1>1, <1>4, <1>5, <1>6, ReachesFrom

\* Two deleted legs are reached from the earlier of their dates.
LEMMA EndTransferReaches ==
  ASSUME PairsInv, PairsInv', NEW id \in DOMAIN rows, NEW ok \in BOOLEAN, EndTransfer(id, ok)
  PROVE  RecalculationReachesBack
<1>1. PICK pair \in LegsOf(id) \ {id} :
        \/ /\ rows' = Restrict(rows, DOMAIN rows \ {id, pair})
           /\ recalculateFrom' = Earliest(Min({rows[id].date, rows[pair].date}))
        \/ /\ rows' = [rows EXCEPT ![id].body = Opening, ![pair].body = Opening]
           /\ UNCHANGED recalculateFrom
  BY DEF EndTransfer
<1>2. pair \in DOMAIN rows
  BY <1>1 DEF LegsOf
<1>3. CASE /\ rows' = Restrict(rows, DOMAIN rows \ {id, pair})
           /\ recalculateFrom' = Earliest(Min({rows[id].date, rows[pair].date}))
  <2> DEFINE from == Min({rows[old].date : old \in {id, pair}})
  <2>1. from \in Dates /\ \A old \in {id, pair} : from <= rows[old].date
    BY <1>2, FirstDate
  <2>2. {rows[old].date : old \in {id, pair}} = {rows[id].date, rows[pair].date}
    OBVIOUS
  <2>3. recalculateFrom' = Earliest(from)
    BY <1>3, <2>2
  <2> HIDE DEF from
  <2>4. /\ DOMAIN rows' = DOMAIN rows \ {id, pair}
        /\ \A old \in DOMAIN rows \ {id, pair} : rows'[old] = rows[old]
    BY <1>3 DEF Restrict
  <2>5. \A old : Left(old) => old \in {id, pair}
    BY <2>4 DEF Left
  <2>6. \A old : ~Arrived(old)
    BY <2>4 DEF Arrived
  <2> QED
    BY <2>1, <2>3, <2>5, <2>6, ReachesFrom
<1>4. CASE /\ rows' = [rows EXCEPT ![id].body = Opening, ![pair].body = Opening]
           /\ UNCHANGED recalculateFrom
  <2>1. rows[id] \in LedgerRows /\ rows[pair] \in LedgerRows /\ rows \in [DOMAIN rows -> LedgerRows]
    BY <1>2, PairsParts
  <2>2. DOMAIN rows' = DOMAIN rows /\ \A old \in DOMAIN rows \ {id, pair} : rows'[old] = rows[old]
    BY <1>4
  <2>3. \A old \in {id, pair} : rows'[old].date = rows[old].date /\ rows'[old].amount = rows[old].amount
    BY <1>2, <1>4, <2>1 DEF LedgerRows
  <2> QED
    BY <1>4, <2>2, <2>3, SameDatesReach
<1> QED
  BY <1>1, <1>3, <1>4

\* Every call of TransactionService announces enough.
LEMMA TransactionReaches ==
  ASSUME PairsInv, PairsInv', TransactionStep
  PROVE  RecalculationReachesBack
<1>1. CASE \E a, b \in Accounts, d \in Dates, x \in Amounts : CreateTransfer(a, b, d, x)
  BY <1>1, CreateTransferReaches
<1> QED
  BY <1>1, AddReaches, EditReaches, DeleteRowsReaches, DuplicateReaches, ApproveReaches,
     ChangeRowReaches, EndTransferReaches DEF TransactionStep
-----------------------------------------------------------------------------
\* The invariant, and the two halves of PastIsKept, over one call.
LEMMA PastStep ==
  ASSUME PastInv, [BooksNext]_books
  PROVE  PastInv' /\ (UNCHANGED books \/ (RecordsStand /\ RecalculationReachesBack))
<1>1. PairsInv /\ RecordsHold /\ PairsInv'
  BY PairsStep DEF PastInv
<1>2. CASE BooksNext
  <2>1. RecordsHold' /\ RecordsStand
    BY <1>2, AccountKeeps, TransactionKeeps, ReconciliationKeeps DEF BooksNext
  <2>2. RecalculationReachesBack
    BY <1>1, <1>2, AccountReaches, TransactionReaches, ReconciliationReaches DEF BooksNext
  <2> QED
    BY <1>1, <2>1, <2>2 DEF PastInv
<1>3. CASE UNCHANGED books
  BY <1>1, <1>3 DEF books, PastInv, RecordsHold, Stands, Described
<1> QED
  BY <1>2, <1>3

\* What was concluded from rows survives every call of the three services: a standing
\* reconciliation keeps describing its rows and shares none with a later one, and the
\* recalculation reaches back to every date a call of TransactionService left or wrote.
THEOREM ThePastIsKept == BooksSpec => PastIsKept
<1>1. BooksStart => PastInv
  BY PairsAtStart DEF BooksStart, PastInv, RecordsHold
<1>2. PastInv /\ [BooksNext]_books => PastInv'
  BY PastStep
<1>3. PastInv /\ [BooksNext]_books => [RecordsStand /\ RecalculationReachesBack]_books
  BY PastStep
<1> QED
  BY <1>1, <1>2, <1>3, PTL DEF BooksSpec, PastIsKept
-----------------------------------------------------------------------------
(* Statement imports *)

\* The accepted rows of a list of candidates are a list of candidates, all accepted.
LEMMA AcceptedIsSequence ==
  ASSUME NEW S, NEW list \in Seq(S)
  PROVE  FoldLeft(TakeAccepted, <<>>, list) \in Seq({c \in S : c.decision = "Accept"})
<1>0. PICK D : D = DOMAIN list
  OBVIOUS
<1> DEFINE Taken == {c \in S : c.decision = "Accept"}
           Lists == Seq(Taken)
           pick == [s \in SUBSET D |-> Max(s)]
           step == [p \in D \X Lists |-> TakeAccepted(p[2], list[p[1]])]
           Body(f) == [s \in SUBSET D |->
                         IF s = {} THEN <<>> ELSE TakeAccepted(f[s \ {Max(s)}], list[Max(s)])]
           iter == CHOOSE f : f = Body(f)
<1>1. FoldLeft(TakeAccepted, <<>>, list) = iter[D]
  BY <1>0 DEF FoldLeft, MapThenFoldSet
<1>2. IsFiniteSet(D) /\ D \subseteq Int /\ \A i \in D : list[i] \in S
  <2>1. D = 1..Len(list) /\ Len(list) \in Nat
    BY <1>0, LenProperties
  <2>2. \A i \in 1..Len(list) : list[i] \in S
    BY ElementOfSeq
  <2> QED
    BY <2>1, <2>2, FS_Interval
<1>2a. IsFiniteSet(D)
  BY <1>2
<1>3. \A s \in SUBSET D : s # {} => pick[s] = Max(s) /\ Max(s) \in s
  <2>1. ASSUME NEW s \in SUBSET D, s # {} PROVE Max(s) \in s
    <3>1. IsFiniteSet(s) /\ s \subseteq Int
      BY <1>2, FS_Subset
    <3> QED
      BY <2>1, <3>1, MaxExists
  <2> QED
    BY <2>1
<1>4. Picks(pick, D)
  BY <1>3 DEF Picks
<1>5. \A i \in D, taken \in Lists :
        step[<<i, taken>>] = TakeAccepted(taken, list[i]) /\ TakeAccepted(taken, list[i]) \in Lists
  <2>1. ASSUME NEW c \in S, NEW taken \in Lists PROVE TakeAccepted(taken, c) \in Lists
    <3>1. c.decision = "Accept" => c \in Taken
      OBVIOUS
    <3> HIDE DEF Taken
    <3>2. c \in Taken => Append(taken, c) \in Seq(Taken)
      BY AppendProperties
    <3> QED
      BY <3>1, <3>2 DEF TakeAccepted
  <2> QED
    BY <1>2, <2>1
<1>5a. <<>> \in Lists
  OBVIOUS
<1> HIDE DEF pick, step, Lists
<1>6. PICK f : FoldsUp(f, D, <<>>, step, pick)
  BY <1>2a, <1>4, FoldsExist
<1>7. \A s \in SUBSET D : f[s] \in Lists
  <2> DEFINE J == {s \in SUBSET D : f[s] \in Lists}
  <2>1. {} \in J
    BY <1>5a, <1>6 DEF FoldsUp
  <2>2. ASSUME NEW s \in SUBSET D, s # {}, s \ {pick[s]} \in J PROVE s \in J
    <3>1. f[s] = step[<<pick[s], f[s \ {pick[s]}]>>]
      BY <1>6, <2>2, FoldOf
    <3>2. pick[s] \in D
      BY <1>3, <2>2
    <3>3. PICK taken \in Lists : taken = f[s \ {pick[s]}]
      BY <2>2
    <3>4. PICK i \in D : i = pick[s]
      BY <3>2
    <3>5. step[<<i, taken>>] \in Lists
      BY <1>5
    <3> QED
      BY <3>1, <3>3, <3>4, <3>5
  <2> HIDE DEF J
  <2>3. \A s \in SUBSET D : s \in J
    BY <1>2a, <1>4, <2>1, <2>2, SubsetInduction
  <2> QED
    BY <2>3 DEF J
<1>8. f = Body(f)
  <2>1. ASSUME NEW s \in SUBSET D, s # {}
        PROVE  f[s] = TakeAccepted(f[s \ {Max(s)}], list[Max(s)])
    <3>1. f[s] = step[<<pick[s], f[s \ {pick[s]}]>>]
      BY <1>6, <2>1, FoldOf
    <3>2. PICK m : m = Max(s)
      OBVIOUS
    <3>3. pick[s] = m /\ m \in D
      BY <1>3, <2>1, <3>2
    <3>4. PICK taken \in Lists : taken = f[s \ {m}]
      BY <1>7
    <3> QED
      BY <1>5, <3>1, <3>2, <3>3, <3>4
  <2>2. f[{}] = <<>>
    BY <1>6 DEF FoldsUp
  <2>3. f = [s \in SUBSET D |-> f[s]]
    BY <1>6 DEF FoldsUp
  <2> QED
    BY <2>1, <2>2, <2>3
<1>9. iter = Body(iter)
  <2> HIDE DEF Body
  <2> QED
    BY <1>8
<1>10. /\ iter[{}] = <<>>
       /\ \A s \in SUBSET D : s # {} =>
            \E m \in s : m = pick[s] /\ iter[s] = TakeAccepted(iter[s \ {m}], list[m])
  <2> HIDE DEF iter
  <2>1. ASSUME NEW s \in SUBSET D, s # {}
        PROVE \E m \in s : m = pick[s] /\ iter[s] = TakeAccepted(iter[s \ {m}], list[m])
    <3>1. iter[s] = TakeAccepted(iter[s \ {Max(s)}], list[Max(s)])
      BY <1>9, <2>1
    <3> QED
      BY <1>3, <2>1, <3>1
  <2> QED
    BY <1>9, <2>1
<1> HIDE DEF iter
<1> DEFINE K == {s \in SUBSET D : iter[s] \in Lists}
<1>11. {} \in K
  BY <1>5a, <1>10
<1>12. ASSUME NEW s \in SUBSET D, s # {}, s \ {pick[s]} \in K PROVE s \in K
  <2>1. PICK m \in s : m = pick[s] /\ iter[s] = TakeAccepted(iter[s \ {m}], list[m])
    BY <1>10, <1>12
  <2>2. PICK taken \in Lists : taken = iter[s \ {m}]
    BY <1>12, <2>1
  <2> QED
    BY <1>5, <2>1, <2>2
<1> HIDE DEF K
<1>13. \A s \in SUBSET D : s \in K
  BY <1>2a, <1>4, <1>11, <1>12, SubsetInduction
<1> QED
  BY <1>1, <1>13 DEF K, Lists

\* A list of candidates with other decisions is a list of candidates.
LEMMA DecidedIsSequence ==
  ASSUME NEW f, NEW n \in Nat, NEW T, DOMAIN f = 1..n, f = [i \in DOMAIN f |-> f[i]],
         \A i \in 1..n : f[i] \in T
  PROVE  f \in Seq(T)
<1>1. f \in [1..n -> T]
  OBVIOUS
<1> QED
  BY <1>1, SeqDef

\* Of a row that is the same record as one in the ledger there is evidence of the best rank.
LEMMA SameRecordIsSuggested ==
  ASSUME NEW row, NEW existing, NEW i \in DOMAIN existing, SameRecord(row, existing[i])
  PROVE  \E s \in Suggestions(row, existing) : s.class = "ExactImportIdDuplicate"
<1> DEFINE by(name) == [index |-> i, by |-> name, class |-> "ExactImportIdDuplicate"]
<1>1. CASE Fingerprint(row) = Fingerprint(existing[i])
  <2>1. by("fingerprint") \in Suggestions(row, existing)
    BY <1>1 DEF Suggestions
  <2> QED
    BY <2>1
<1>2. CASE row.account = existing[i].account /\ row.fitid # NoId /\ row.fitid = existing[i].fitid
  <2>1. by("import_id") \in Suggestions(row, existing)
    BY <1>2 DEF Suggestions, IdClass
  <2> QED
    BY <2>1
<1>3. CASE row.account = existing[i].account /\ row.source # NoId /\ row.source = existing[i].source
  <2>1. by("source_record_id") \in Suggestions(row, existing)
    BY <1>3 DEF Suggestions, IdClass
  <2> QED
    BY <2>1
<1> QED
  BY <1>1, <1>2, <1>3 DEF SameRecord

\* The four classes a suggestion can have.
LEMMA SuggestedClasses ==
  ASSUME NEW row, NEW existing, NEW s \in Suggestions(row, existing)
  PROVE  s.class \in {"ExactImportIdDuplicate", "AccountMismatch",
                      "StrongDateAmountPayeeMatch", "PossibleManualMatch"}
BY DEF Suggestions, IdClass, LikenessClass

\* A row that is in the ledger already is shown as an exact duplicate or as ambiguous.
LEMMA SameRecordIsNoticed ==
  ASSUME NEW row, NEW existing, NEW i \in DOMAIN existing, SameRecord(row, existing[i])
  PROVE  Classify(row, existing) \in {"ExactImportIdDuplicate", "AmbiguousMatch"}
<1> DEFINE all == Suggestions(row, existing)
           best == {s \in all : \A t \in all : Rank(s.class) <= Rank(t.class)}
<1>1. PICK s \in all : s.class = "ExactImportIdDuplicate"
  BY SameRecordIsSuggested
<1>2. \A t \in all : Rank(t.class) \in 0..3 /\ (Rank(t.class) = 0 => t.class = "ExactImportIdDuplicate")
  BY SuggestedClasses DEF Rank
<1>3. Rank(s.class) = 0
  BY <1>1 DEF Rank
<1> HIDE DEF all
<1>4. s \in best
  BY <1>2, <1>3
<1>5. \A t \in best : t.class = "ExactImportIdDuplicate"
  <2>1. ASSUME NEW t \in best PROVE t.class = "ExactImportIdDuplicate"
    <3>1. t \in all /\ Rank(t.class) <= Rank(s.class)
      OBVIOUS
    <3> QED
      BY <1>2, <1>3, <3>1
  <2> QED
    BY <2>1
<1>6. all # {}
  BY <1>1
<1>7. Classify(row, existing) = IF Cardinality(best) > 1 THEN "AmbiguousMatch"
                                ELSE (CHOOSE t \in best : TRUE).class
  BY <1>6 DEF Classify, all
<1> HIDE DEF best
<1> QED
  BY <1>4, <1>5, <1>7

\* A staged row, of a ledger: its class was found against the rows imported by then, and
\* when one of them is the same record and the row is accepted, it was accepted as that.
Weighed(ledger, c) ==
  /\ DOMAIN c = {"row", "class", "decision", "known", "review"}
  /\ c.known \in 0..Len(ledger)
  /\ \A i \in 1..c.known : SameRecord(c.row, ledger[i]) =>
       c.class \in {"ExactImportIdDuplicate", "AmbiguousMatch"}
  /\ c.decision = "Accept" =>
       /\ c.review \in {"bulk", "alone", "overridden"}
       /\ c.review = "bulk" => c.class = "New"
       /\ c.class = "ExactImportIdDuplicate" => c.review # "alone"
       /\ c.class # "ExactImportIdDuplicate" => c.review # "overridden"

WeighedRows(ledger, S) == \A c \in S : Weighed(ledger, c)

\* What was imported, and what its reviews had said.
ImportedInv ==
  /\ \E S : imported \in Seq(S)
  /\ \E S : reviews \in Seq(S)
  /\ Len(reviews) = Len(imported)
  /\ \A j \in 1..Len(imported) : reviews[j].known \in 0..(j - 1)
  /\ DuplicatesAreChosen

StagedInv == \E S : candidates \in Seq(S) /\ WeighedRows(imported, S)

InsertingInv ==
  \E S : /\ transaction \in Seq(S) /\ WeighedRows(imported, S)
         /\ \A c \in S : c.decision = "Accept"

ImportsInv == ImportedInv /\ StagedInv /\ InsertingInv

\* Nothing is imported, staged or inserted.
LEMMA ImportsStart == ASSUME ImportsInit PROVE ImportsInv
<1>1. <<>> \in Seq({}) /\ Len(<<>>) = 0 /\ DOMAIN <<>> = {}
  OBVIOUS
<1>2. ImportedInv
  BY <1>1 DEF ImportsInit, ImportedInv, DuplicatesAreChosen
<1>3. StagedInv /\ InsertingInv
  BY <1>1 DEF ImportsInit, StagedInv, InsertingInv, WeighedRows
<1> QED
  BY <1>2, <1>3 DEF ImportsInv

\* The accepted rows are a list of staged rows that were accepted.
LEMMA AcceptedShape ==
  ASSUME StagedInv
  PROVE  \E S : /\ Accepted \in Seq(S) /\ WeighedRows(imported, S)
               /\ \A c \in S : c.decision = "Accept"
<1>1. PICK S : candidates \in Seq(S) /\ WeighedRows(imported, S)
  BY DEF StagedInv
<1> DEFINE T == {c \in S : c.decision = "Accept"}
<1>2. PICK list \in Seq(S) : list = candidates
  BY <1>1
<1>3. FoldLeft(TakeAccepted, <<>>, list) \in Seq(T)
  BY AcceptedIsSequence
<1>4. Accepted \in Seq(T)
  BY <1>2, <1>3 DEF Accepted
<1>5. WeighedRows(imported, T) /\ \A c \in T : c.decision = "Accept"
  BY <1>1 DEF WeighedRows
<1> QED
  BY <1>4, <1>5

\* The staged rows are a list again after a step that writes each of them.
LEMMA StagedAgain ==
  ASSUME NEW n \in Nat, NEW f, candidates' = f, DOMAIN f = 1..n,
         f = [i \in DOMAIN f |-> f[i]],
         NEW ledger, imported' = ledger, \A i \in 1..n : Weighed(ledger, f[i])
  PROVE  StagedInv'
<1> DEFINE T == {f[i] : i \in 1..n}
<1>1. f \in Seq(T)
  BY DecidedIsSequence
<1>2. WeighedRows(ledger, T)
  BY DEF WeighedRows
<1>3. candidates' \in Seq(T) /\ WeighedRows(imported', T)
  BY <1>1, <1>2
<1> QED
  BY <1>3 DEF StagedInv, WeighedRows, Weighed

\* What was found of a row stays true while rows are only added to the ledger.
LEMMA WeighedLater ==
  ASSUME NEW S, NEW ledger, NEW longer, WeighedRows(ledger, S),
         Len(ledger) \in Nat, Len(longer) \in Nat, Len(ledger) <= Len(longer),
         \A i \in 1..Len(ledger) : longer[i] = ledger[i]
  PROVE  WeighedRows(longer, S)
<1> SUFFICES ASSUME NEW c \in S PROVE Weighed(longer, c)
  BY DEF WeighedRows
<1>1. Weighed(ledger, c)
  BY DEF WeighedRows
<1>2. c.known \in 0..Len(ledger)
  BY <1>1 DEF Weighed
<1>3. c.known \in 0..Len(longer) /\ \A i \in 1..c.known : i \in 1..Len(ledger)
  BY <1>2
<1>4. \A i \in 1..c.known : longer[i] = ledger[i]
  BY <1>3
<1> QED
  BY <1>1, <1>3, <1>4 DEF Weighed

\* A step that leaves the imported rows alone.
LEMMA ImportedStays ==
  ASSUME ImportedInv, UNCHANGED <<imported, reviews>>
  PROVE  ImportedInv'
BY DEF ImportedInv, DuplicatesAreChosen

\* Two lists one after the other.
LEMMA OneAfterTheOther ==
  ASSUME NEW U, NEW s \in Seq(U), NEW t \in Seq(U), NEW n \in Nat, n = Len(s),
         NEW m \in Nat, m = Len(t)
  PROVE  /\ s \o t \in Seq(U) /\ Len(s \o t) = n + m
         /\ \A i \in 1..n : (s \o t)[i] = s[i]
         /\ \A k \in 1..m : (s \o t)[n + k] = t[k]
<1>1. /\ s \o t \in Seq(U) /\ Len(s \o t) = n + m
      /\ \A i \in 1..(n + m) : (s \o t)[i] = IF i <= n THEN s[i] ELSE t[i - n]
  BY ConcatProperties
<1>2. \A k \in 1..m : n + k \in 1..(n + m) /\ ~(n + k <= n) /\ (n + k) - n = k
  OBVIOUS
<1>3. \A i \in 1..n : i \in 1..(n + m) /\ i <= n
  OBVIOUS
<1>4. PICK st : st = s \o t
  OBVIOUS
<1> QED
  BY <1>1, <1>2, <1>3, <1>4

\* What is kept of a review.
LEMMA ReviewSays ==
  ASSUME NEW c
  PROVE  /\ ReviewOf(c).known = c.known /\ ReviewOf(c).class = c.class
         /\ ReviewOf(c).review = c.review
BY DEF ReviewOf

\* The rows of a batch: those that were in the ledger already had been chosen.
LEMMA CommitKeeps ==
  ASSUME ImportsInv, Commit
  PROVE  ImportsInv'
<1>1. PICK S, R, T :
        /\ imported \in Seq(S) /\ reviews \in Seq(R)
        /\ transaction \in Seq(T) /\ WeighedRows(imported, T) /\ \A c \in T : c.decision = "Accept"
  BY DEF ImportsInv, ImportedInv, InsertingInv
<1> DEFINE n == Len(imported)
           m == Len(transaction)
           added == [k \in DOMAIN transaction |-> transaction[k].row]
           said == [k \in DOMAIN transaction |-> ReviewOf(transaction[k])]
<1>2. /\ n \in Nat /\ m \in Nat /\ Len(reviews) = n
      /\ DOMAIN transaction = 1..m /\ \A k \in 1..m : transaction[k] \in T
  BY <1>1, LenProperties, ElementOfSeq DEF ImportsInv, ImportedInv
<1>3. PICK U : imported \in Seq(U) /\ added \in Seq(U) /\ Len(added) = m
  <2> DEFINE V == S \cup {transaction[k].row : k \in 1..m}
  <2>1. imported \in Seq(V)
    <3>1. imported \in [1..n -> S]
      BY <1>1, LenProperties
    <3>2. imported \in [1..n -> V]
      BY <3>1
    <3> QED
      BY <1>2, <3>2, SeqDef
  <2>2. added \in [1..m -> V]
    BY <1>2
  <2>3. added \in Seq(V) /\ Len(added) = m
    BY <1>2, <2>2, SeqDef, LenProperties
  <2> QED
    BY <2>1, <2>3
<1>4. PICK W : reviews \in Seq(W) /\ said \in Seq(W) /\ Len(said) = m
  <2> DEFINE V == R \cup {ReviewOf(transaction[k]) : k \in 1..m}
  <2>1. reviews \in Seq(V)
    <3>1. reviews \in [1..n -> R]
      BY <1>1, <1>2, LenProperties
    <3>2. reviews \in [1..n -> V]
      BY <3>1
    <3> QED
      BY <1>2, <3>2, SeqDef
  <2>2. said \in [1..m -> V]
    BY <1>2
  <2>3. said \in Seq(V) /\ Len(said) = m
    BY <1>2, <2>2, SeqDef, LenProperties
  <2> QED
    BY <2>1, <2>3
<1>5. imported' = imported \o added /\ reviews' = reviews \o said
  BY DEF Commit
<1>6. \A k \in 1..m : added[k] = transaction[k].row /\ said[k] = ReviewOf(transaction[k])
  BY <1>2
<1>6a. transaction' = <<>> /\ candidates' = candidates
  BY DEF Commit
<1> HIDE DEF added, said
<1>7. /\ imported' \in Seq(U) /\ Len(imported') = n + m
      /\ \A i \in 1..n : imported'[i] = imported[i]
      /\ \A k \in 1..m : imported'[n + k] = transaction[k].row
  <2>1. PICK s, t, st : s = imported /\ t = added /\ st = imported' /\ st = s \o t
    BY <1>5
  <2>2. /\ st \in Seq(U) /\ Len(st) = n + m
        /\ \A i \in 1..n : st[i] = s[i]
        /\ \A k \in 1..m : st[n + k] = t[k]
    <3>1. /\ s \in Seq(U) /\ t \in Seq(U) /\ n \in Nat /\ m \in Nat
          /\ n = Len(s) /\ m = Len(t)
      BY <1>2, <1>3, <2>1
    <3> HIDE DEF n, m
    <3> QED
      BY <2>1, <3>1, OneAfterTheOther
  <2> QED
    BY <1>6, <2>1, <2>2
<1>8. /\ reviews' \in Seq(W) /\ Len(reviews') = n + m
      /\ \A i \in 1..n : reviews'[i] = reviews[i]
      /\ \A k \in 1..m : reviews'[n + k] = ReviewOf(transaction[k])
  <2>1. PICK s, t, st : s = reviews /\ t = said /\ st = reviews' /\ st = s \o t
    BY <1>5
  <2>2. /\ st \in Seq(W) /\ Len(st) = n + m
        /\ \A i \in 1..n : st[i] = s[i]
        /\ \A k \in 1..m : st[n + k] = t[k]
    <3>1. /\ s \in Seq(W) /\ t \in Seq(W) /\ n \in Nat /\ m \in Nat
          /\ n = Len(s) /\ m = Len(t)
      BY <1>2, <1>4, <2>1
    <3> HIDE DEF n, m
    <3> QED
      BY <2>1, <3>1, OneAfterTheOther
  <2> QED
    BY <1>6, <2>1, <2>2
<1>9. \A j \in 1..(n + m) : j \in 1..n \/ \E k \in 1..m : j = n + k
  <2>1. ASSUME NEW j \in 1..(n + m), j \notin 1..n PROVE \E k \in 1..m : j = n + k
    <3>1. j - n \in 1..m /\ j = n + (j - n)
      BY <1>2, <2>1
    <3> QED
      BY <3>1
  <2> QED
    BY <2>1
<1> HIDE DEF n, m
<1>10. ASSUME NEW j \in 1..n
       PROVE  /\ reviews'[j].known \in 0..(j - 1)
              /\ \A i \in 1..reviews'[j].known : SameRecord(imported'[j], imported'[i]) =>
                   \/ reviews'[j].class = "ExactImportIdDuplicate" /\ reviews'[j].review = "overridden"
                   \/ reviews'[j].class = "AmbiguousMatch" /\ reviews'[j].review = "alone"
  <2>1. reviews[j].known \in 0..(j - 1)
    BY DEF ImportsInv, ImportedInv, n
  <2>2. \A i \in 1..reviews[j].known : i \in 1..n
    BY <1>2, <2>1
  <2>3. DOMAIN imported = 1..n
    BY <1>1, LenProperties DEF n
  <2>4. \A i \in 1..reviews[j].known : SameRecord(imported[j], imported[i]) =>
          \/ reviews[j].class = "ExactImportIdDuplicate" /\ reviews[j].review = "overridden"
          \/ reviews[j].class = "AmbiguousMatch" /\ reviews[j].review = "alone"
    BY <2>3 DEF ImportsInv, ImportedInv, DuplicatesAreChosen
  <2> QED
    BY <1>7, <1>8, <2>1, <2>2, <2>4
<1>11. ASSUME NEW k \in 1..m, NEW j, j = n + k
       PROVE  /\ reviews'[j].known \in 0..(j - 1)
              /\ \A i \in 1..reviews'[j].known : SameRecord(imported'[j], imported'[i]) =>
                   \/ reviews'[j].class = "ExactImportIdDuplicate" /\ reviews'[j].review = "overridden"
                   \/ reviews'[j].class = "AmbiguousMatch" /\ reviews'[j].review = "alone"
  <2> DEFINE c == transaction[k]
  <2>1. Weighed(imported, c) /\ c.decision = "Accept"
    BY <1>1, <1>2 DEF WeighedRows
  <2>2. /\ reviews'[j].known = c.known /\ reviews'[j].class = c.class
        /\ reviews'[j].review = c.review
    <3>1. reviews'[j] = ReviewOf(c)
      BY <1>8, <1>11
    <3> QED
      BY <3>1, ReviewSays
  <2>3. imported'[j] = c.row
    BY <1>7, <1>11
  <2> HIDE DEF c
  <2>4. c.known \in 0..n
    BY <2>1 DEF Weighed, n
  <2>5. c.known \in 0..(j - 1) /\ \A i \in 1..c.known : i \in 1..n
    BY <1>2, <1>11, <2>4
  <2>6. \A i \in 1..c.known : SameRecord(c.row, imported[i]) =>
          \/ c.class = "ExactImportIdDuplicate" /\ c.review = "overridden"
          \/ c.class = "AmbiguousMatch" /\ c.review = "alone"
    BY <2>1 DEF Weighed
  <2>7. \A i \in 1..c.known : imported'[i] = imported[i]
    BY <1>7, <2>5
  <2> QED
    BY <2>2, <2>3, <2>5, <2>6, <2>7
<1>12. DuplicatesAreChosen' /\ \A j \in 1..Len(imported') : reviews'[j].known \in 0..(j - 1)
  <2>1. DOMAIN imported' = 1..(n + m) /\ Len(imported') = n + m
    BY <1>7, LenProperties
  <2>2. ASSUME NEW j \in 1..(n + m)
        PROVE  /\ reviews'[j].known \in 0..(j - 1)
               /\ \A i \in 1..reviews'[j].known : SameRecord(imported'[j], imported'[i]) =>
                    \/ reviews'[j].class = "ExactImportIdDuplicate" /\ reviews'[j].review = "overridden"
                    \/ reviews'[j].class = "AmbiguousMatch" /\ reviews'[j].review = "alone"
    <3>1. CASE j \in 1..n
      BY <1>10, <3>1
    <3>2. CASE \E k \in 1..m : j = n + k
      BY <1>11, <3>2
    <3> QED
      BY <1>9, <3>1, <3>2
  <2> QED
    BY <2>1, <2>2 DEF DuplicatesAreChosen, SameRecord, Fingerprint
<1>13. ImportedInv'
  BY <1>7, <1>8, <1>12 DEF ImportedInv
<1>14. n \in Nat /\ Len(imported') \in Nat /\ n <= Len(imported')
  BY <1>2, <1>7
<1>15. \A V : WeighedRows(imported, V) => WeighedRows(imported', V)
  BY <1>7, <1>14, WeighedLater DEF n
<1>16. StagedInv'
  <2>1. PICK V : candidates \in Seq(V) /\ WeighedRows(imported, V)
    BY DEF ImportsInv, StagedInv
  <2>2. candidates' \in Seq(V) /\ WeighedRows(imported', V)
    BY <1>6a, <1>15, <2>1
  <2> QED
    BY <2>2 DEF StagedInv, WeighedRows, Weighed
<1>17. InsertingInv'
  <2>1. <<>> \in Seq({})
    OBVIOUS
  <2> QED
    BY <1>6a, <2>1 DEF InsertingInv, WeighedRows
<1> QED
  BY <1>13, <1>16, <1>17 DEF ImportsInv

\* Every row of a statement that was staged is weighed against the whole ledger.
LEMMA StageKeeps ==
  ASSUME ImportsInv, NEW statement \in ImportFiles, Stage(statement)
  PROVE  ImportsInv'
<1> DEFINE Staged(i) == [row |-> statement[i], class |-> Classify(statement[i], imported),
                         decision |-> "Pending", known |-> Len(imported), review |-> "none"]
<1>1. PICK S, n, f, ledger :
        /\ imported \in Seq(S) /\ n = Len(statement) /\ ledger = imported
        /\ f = [i \in DOMAIN statement |-> Staged(i)]
  BY DEF ImportsInv, ImportedInv
<1>2. n \in Nat /\ DOMAIN statement = 1..n
  BY <1>1, ImportsAssumption
<1>3. Len(ledger) \in Nat /\ DOMAIN ledger = 1..Len(ledger)
  BY <1>1, LenProperties
<1>4. ASSUME NEW i \in 1..n PROVE Weighed(ledger, f[i])
  <2>1. f[i] = Staged(i)
    BY <1>1, <1>2
  <2>2. Weighed(ledger, Staged(i))
    BY <1>1, <1>3, SameRecordIsNoticed DEF Weighed
  <2> QED
    BY <2>1, <2>2
<1>5. DOMAIN f = 1..n /\ f = [i \in DOMAIN f |-> f[i]]
  BY <1>1, <1>2
<1>6. candidates' = f /\ imported' = ledger
  BY <1>1 DEF Stage
<1>7. StagedInv'
  <2> HIDE DEF Staged
  <2> QED
    BY <1>2, <1>4, <1>5, <1>6, StagedAgain
<1>8. ImportedInv'
  BY ImportedStays DEF ImportsInv, Stage
<1>9. InsertingInv'
  BY DEF ImportsInv, InsertingInv, Stage, WeighedRows, Weighed
<1> QED
  BY <1>7, <1>8, <1>9 DEF ImportsInv

\* What is said of a row when a decision on it is written.
LEMMA StillWeighed ==
  ASSUME NEW ledger, NEW c, Weighed(ledger, c), NEW d, NEW decision, NEW review,
         DOMAIN d = DOMAIN c, d.known = c.known, d.row = c.row, d.class = c.class,
         d.decision = decision, d.review = review,
         decision = "Accept" =>
           /\ review \in {"bulk", "alone", "overridden"}
           /\ review = "bulk" => c.class = "New"
           /\ c.class = "ExactImportIdDuplicate" => review # "alone"
           /\ c.class # "ExactImportIdDuplicate" => review # "overridden"
  PROVE  Weighed(ledger, d)
BY DEF Weighed

\* A staged row with another decision.
LEMMA RowDecided ==
  ASSUME NEW ledger, NEW c, Weighed(ledger, c), NEW decision, NEW review, NEW d,
         d = [c EXCEPT !.decision = decision, !.review = review],
         decision = "Accept" =>
           /\ review \in {"bulk", "alone", "overridden"}
           /\ review = "bulk" => c.class = "New"
           /\ c.class = "ExactImportIdDuplicate" => review # "alone"
           /\ c.class # "ExactImportIdDuplicate" => review # "overridden"
  PROVE  Weighed(ledger, d)
<1>1. DOMAIN c = {"row", "class", "decision", "known", "review"}
  BY DEF Weighed
<1>2. /\ DOMAIN d = DOMAIN c /\ d.known = c.known /\ d.row = c.row /\ d.class = c.class
      /\ d.decision = decision /\ d.review = review
  BY <1>1
<1> QED
  BY <1>2, StillWeighed

\* A decision written on one staged row.
LEMMA DecidesOne ==
  ASSUME ImportsInv, NEW i \in DOMAIN candidates, NEW decision, NEW review,
         UNCHANGED imported,
         candidates' = [candidates EXCEPT ![i].decision = decision, ![i].review = review],
         decision = "Accept" =>
           /\ review \in {"bulk", "alone", "overridden"}
           /\ review = "bulk" => candidates[i].class = "New"
           /\ candidates[i].class = "ExactImportIdDuplicate" => review # "alone"
           /\ candidates[i].class # "ExactImportIdDuplicate" => review # "overridden"
  PROVE  StagedInv'
<1>1. PICK S, n, f, g, ledger :
        /\ candidates \in Seq(S) /\ WeighedRows(imported, S)
        /\ n = Len(candidates) /\ g = candidates /\ f = candidates' /\ ledger = imported
  BY DEF ImportsInv, StagedInv
<1>2. n \in Nat /\ g \in [1..n -> S] /\ i \in 1..n /\ DOMAIN g = 1..n
  BY <1>1, LenProperties
<1>3. f = [g EXCEPT ![i].decision = decision, ![i].review = review]
  BY <1>1
<1>4. /\ DOMAIN f = 1..n /\ f = [k \in DOMAIN f |-> f[k]]
      /\ \A k \in 1..n : k # i => f[k] = g[k]
      /\ f[i] = [g[i] EXCEPT !.decision = decision, !.review = review]
  BY <1>2, <1>3
<1>5. \A k \in 1..n : Weighed(ledger, g[k])
  BY <1>1, <1>2 DEF WeighedRows
<1>6. Weighed(ledger, f[i])
  BY <1>1, <1>2, <1>4, <1>5, RowDecided
<1>7. \A k \in 1..n : Weighed(ledger, f[k])
  BY <1>4, <1>5, <1>6
<1>8. candidates' = f /\ imported' = ledger
  BY <1>1
<1> QED
  BY <1>2, <1>4, <1>7, <1>8, StagedAgain

\* A decision written on all staged rows.
LEMMA DecidesAll ==
  ASSUME ImportsInv, NEW decision, DecideAll(decision)
  PROVE  StagedInv'
<1>1. PICK S, n, f, g, ledger, review :
        /\ candidates \in Seq(S) /\ WeighedRows(imported, S)
        /\ n = Len(candidates) /\ g = candidates /\ f = candidates' /\ ledger = imported
        /\ review = Reviewed(decision, "bulk")
  BY DEF ImportsInv, StagedInv
<1>2. n \in Nat /\ g \in [1..n -> S] /\ DOMAIN g = 1..n
  BY <1>1, LenProperties
<1>3. /\ f = [k \in DOMAIN g |-> [g[k] EXCEPT !.decision = decision, !.review = review]]
      /\ decision = "Accept" => \A k \in DOMAIN g : g[k].class = "New"
  BY <1>1 DEF DecideAll
<1>4. decision = "Accept" => review = "bulk"
  BY <1>1 DEF Reviewed
<1>5. ASSUME NEW k \in 1..n PROVE Weighed(ledger, f[k])
  <2>1. Weighed(ledger, g[k])
    BY <1>1, <1>2 DEF WeighedRows
  <2>2. f[k] = [g[k] EXCEPT !.decision = decision, !.review = review]
    BY <1>2, <1>3
  <2> QED
    BY <1>2, <1>3, <1>4, <2>1, <2>2, RowDecided
<1>6. DOMAIN f = 1..n /\ f = [k \in DOMAIN f |-> f[k]]
  BY <1>2, <1>3
<1>7. candidates' = f /\ imported' = ledger
  BY <1>1 DEF DecideAll
<1> QED
  BY <1>2, <1>5, <1>6, <1>7, StagedAgain

\* The rows of a database transaction are accepted rows.
LEMMA InsertKeeps ==
  ASSUME ImportsInv, InsertCandidate
  PROVE  InsertingInv'
<1>1. PICK S, A, T, taken, before, m :
        /\ taken = Accepted /\ taken \in Seq(A) /\ WeighedRows(imported, A)
        /\ \A c \in A : c.decision = "Accept"
        /\ before = transaction /\ before \in Seq(T) /\ WeighedRows(imported, T)
        /\ \A c \in T : c.decision = "Accept"
        /\ m = Len(before) + 1
  BY AcceptedShape DEF ImportsInv, InsertingInv
<1>2. m \in 1..Len(taken) /\ transaction' = Append(before, taken[m])
  BY <1>1, LenProperties DEF InsertCandidate
<1>3. taken[m] \in A
  BY <1>1, <1>2, ElementOfSeq
<1> DEFINE U == T \cup A
<1>4. before \in Seq(U)
  <2>1. before \in [1..Len(before) -> T] /\ Len(before) \in Nat
    BY <1>1, LenProperties
  <2>2. before \in [1..Len(before) -> U]
    BY <2>1
  <2> QED
    BY <2>1, <2>2, SeqDef
<1>5. transaction' \in Seq(U)
  BY <1>2, <1>3, <1>4, AppendProperties
<1>6. WeighedRows(imported', U) /\ \A c \in U : c.decision = "Accept"
  BY <1>1 DEF InsertCandidate, WeighedRows
<1> QED
  BY <1>5, <1>6 DEF InsertingInv, WeighedRows, Weighed

\* Every step of a review and of a commit keeps what is known of the imports.
LEMMA ImportsKeep == ASSUME ImportsInv, ImportsNext PROVE ImportsInv'
<1>1. ASSUME UNCHANGED <<imported, reviews>>, StagedInv', InsertingInv' PROVE ImportsInv'
  BY <1>1, ImportedStays DEF ImportsInv
<1>2. ASSUME UNCHANGED <<imported, candidates>> PROVE StagedInv'
  BY <1>2 DEF ImportsInv, StagedInv, WeighedRows, Weighed
<1>3. ASSUME UNCHANGED <<imported, transaction>> PROVE InsertingInv'
  BY <1>3 DEF ImportsInv, InsertingInv, WeighedRows, Weighed
<1>4. ASSUME candidates' = <<>> PROVE StagedInv'
  <2>1. <<>> \in Seq({})
    OBVIOUS
  <2>2. candidates' \in Seq({})
    BY <1>4, <2>1
  <2> QED
    BY <2>2 DEF StagedInv, WeighedRows
<1>5. ASSUME transaction' = <<>> PROVE InsertingInv'
  <2>1. <<>> \in Seq({})
    OBVIOUS
  <2>2. transaction' \in Seq({})
    BY <1>5, <2>1
  <2> QED
    BY <2>2 DEF InsertingInv, WeighedRows
<1>6. ASSUME NEW statement \in ImportFiles, Stage(statement) PROVE ImportsInv'
  BY <1>6, StageKeeps
<1>7. ASSUME NEW i \in DOMAIN candidates, NEW decision, NEW override \in BOOLEAN,
             Decide(i, decision, override)
      PROVE ImportsInv'
  <2>1. PICK review :
          review = Reviewed(decision, IF candidates[i].class = "ExactImportIdDuplicate" /\ override
                                      THEN "overridden" ELSE "alone")
    OBVIOUS
  <2>2. /\ candidates' = [candidates EXCEPT ![i].decision = decision, ![i].review = review]
        /\ UNCHANGED <<transaction, imported, reviews>>
        /\ decision = "Accept" /\ candidates[i].class = "ExactImportIdDuplicate" => override
    BY <1>7, <2>1 DEF Decide
  <2>3. StagedInv'
    BY <2>1, <2>2, DecidesOne DEF Reviewed
  <2> QED
    BY <1>1, <1>3, <2>2, <2>3
<1>8. ASSUME NEW i \in DOMAIN candidates, ApplyRule(i) PROVE ImportsInv'
  <2>1. /\ candidates' = [candidates EXCEPT ![i].decision = "Pending", ![i].review = "none"]
        /\ UNCHANGED <<transaction, imported, reviews>>
    BY <1>8 DEF ApplyRule
  <2> QED
    BY <1>1, <1>3, <2>1, DecidesOne
<1>9. ASSUME NEW decision, DecideAll(decision) PROVE ImportsInv'
  <2>1. UNCHANGED <<transaction, imported, reviews>>
    BY <1>9 DEF DecideAll
  <2> QED
    BY <1>1, <1>3, <1>9, <2>1, DecidesAll
<1>10. CASE Discard \/ Archive \/ CrashDuringImport
  BY <1>1, <1>3, <1>4, <1>5, <1>10 DEF Discard, Archive, CrashDuringImport
<1>11. CASE Begin \/ FailDatabase \/ FailArchive
  BY <1>1, <1>2, <1>3, <1>5, <1>11 DEF Begin, FailDatabase, FailArchive
<1>12. CASE InsertCandidate
  <2>1. UNCHANGED <<candidates, imported, reviews>>
    BY <1>12 DEF InsertCandidate
  <2> QED
    BY <1>1, <1>2, <1>12, <2>1, InsertKeeps
<1>13. CASE Commit
  BY <1>13, CommitKeeps
<1> QED
  BY <1>6, <1>7, <1>8, <1>9, <1>10, <1>11, <1>12, <1>13 DEF ImportsNext

\* A record enters the ledger a second time only because someone said so of that row, over
\* any number of statements, reviews, failed calls, crashes and repeated commits
\* (DuplicatesAreChosen; deduplication.rs, workflow.rs, import_service.rs).
THEOREM DuplicatesChosen == ImportsSpec => []DuplicatesAreChosen
<1>1. ImportsInit => ImportsInv
  BY ImportsStart
<1>2. ImportsInv /\ [ImportsNext]_imports => ImportsInv'
  <2>1. ASSUME ImportsInv, UNCHANGED imports PROVE ImportsInv'
    BY <2>1 DEF imports, ImportsInv, ImportedInv, StagedInv, InsertingInv, WeighedRows,
                Weighed, DuplicatesAreChosen
  <2> QED
    BY <2>1, ImportsKeep
<1>3. ImportsInv => DuplicatesAreChosen
  BY DEF ImportsInv, ImportedInv
<1> QED
  BY <1>1, <1>2, <1>3, PTL DEF ImportsSpec

-----------------------------------------------------------------------------
(* Sums *)

\* F adds up the numbers of f over the subsets of its domain, in any order.
IsSum(F, f) ==
  /\ F = [s \in SUBSET DOMAIN f |-> F[s]]
  /\ F[{}] = 0
  /\ \A s \in SUBSET DOMAIN f : F[s] \in Int /\ \A c \in s : F[s] = F[s \ {c}] + f[c]

AnyOf(S) == [s \in SUBSET S |-> CHOOSE c \in s : TRUE]
\* Some member of each non-empty set.
LEMMA AnyPicks == ASSUME NEW S PROVE Picks(AnyOf(S), S)
BY DEF AnyOf, Picks

\* A total does not depend on the order in which it is added up.
LEMMA TotalIsSum ==
  ASSUME NEW f, IsFiniteSet(DOMAIN f), \A c \in DOMAIN f : f[c] \in Int
  PROVE  \E F : IsSum(F, f) /\ TotalWorth(f) = F[DOMAIN f]
<1>0. PICK S : S = DOMAIN f
  OBVIOUS
<1> DEFINE pick == AnyOf(S)
           step == [p \in S \X Int |-> f[p[1]] + p[2]]
           Body(F) == [s \in SUBSET S |->
                         IF s = {} THEN 0
                         ELSE f[CHOOSE x \in s : TRUE] + F[s \ {CHOOSE x \in s : TRUE}]]
           iter == CHOOSE F : F = Body(F)
<1>1. TotalWorth(f) = iter[S]
  BY <1>0 DEF TotalWorth, MapThenSumSet, MapThenFoldSet
<1>2. Picks(pick, S)
  BY AnyPicks
<1>2a. IsFiniteSet(S)
  BY <1>0
<1>3. \A s \in SUBSET S : s # {} => pick[s] = (CHOOSE x \in s : TRUE) /\ pick[s] \in s /\ pick[s] \in S
  BY DEF AnyOf
<1>4. \A x \in S, v \in Int : step[<<x, v>>] = f[x] + v /\ step[<<x, v>>] \in Int
  BY <1>0
<1> HIDE DEF pick, step
<1>5. PICK g : FoldsUp(g, S, 0, step, pick)
  BY <1>2, <1>2a, FoldsExist
<1>6. \A s \in SUBSET S : g[s] \in Int
  <2> DEFINE J == {s \in SUBSET S : g[s] \in Int}
  <2>1. {} \in J
    BY <1>5 DEF FoldsUp
  <2>2. ASSUME NEW s \in SUBSET S, s # {}, s \ {pick[s]} \in J PROVE s \in J
    <3>1. g[s] = step[<<pick[s], g[s \ {pick[s]}]>>]
      BY <1>5, <2>2, FoldOf
    <3> QED
      BY <1>3, <1>4, <2>2, <3>1
  <2> HIDE DEF J
  <2>3. \A s \in SUBSET S : s \in J
    BY <1>2, <1>2a, <2>1, <2>2, SubsetInduction
  <2> QED
    BY <2>3 DEF J
<1>7. g = Body(g)
  <2>1. ASSUME NEW s \in SUBSET S, s # {}
        PROVE  g[s] = f[CHOOSE x \in s : TRUE] + g[s \ {CHOOSE x \in s : TRUE}]
    <3>1. g[s] = step[<<pick[s], g[s \ {pick[s]}]>>]
      BY <1>5, <2>1, FoldOf
    <3>2. s \ {pick[s]} \in SUBSET S
      OBVIOUS
    <3>3. g[s \ {pick[s]}] \in Int
      BY <1>6, <3>2
    <3>4. PICK x : x = pick[s] /\ x = (CHOOSE y \in s : TRUE) /\ x \in S
      BY <1>3, <2>1
    <3>5. g[s] = f[x] + g[s \ {x}]
      BY <1>4, <3>1, <3>3, <3>4
    <3> QED
      BY <3>4, <3>5
  <2>2. g[{}] = 0
    BY <1>5 DEF FoldsUp
  <2>3. g = [s \in SUBSET S |-> g[s]]
    BY <1>5 DEF FoldsUp
  <2> QED
    BY <2>1, <2>2, <2>3
<1>8. iter = Body(iter)
  <2> HIDE DEF Body
  <2> QED
    BY <1>7
<1>9. /\ iter = [s \in SUBSET S |-> iter[s]]
      /\ iter[{}] = 0
      /\ \A s \in SUBSET S : s # {} => iter[s] = f[pick[s]] + iter[s \ {pick[s]}]
  <2> HIDE DEF iter
  <2>1. ASSUME NEW s \in SUBSET S, s # {} PROVE iter[s] = f[pick[s]] + iter[s \ {pick[s]}]
    <3>1. iter[s] = f[CHOOSE x \in s : TRUE] + iter[s \ {CHOOSE x \in s : TRUE}]
      BY <1>8, <2>1
    <3> QED
      BY <1>3, <2>1, <3>1
  <2> QED
    BY <1>8, <2>1
<1> HIDE DEF iter
<1>10. \A s \in SUBSET S : iter[s] \in Int
  <2> DEFINE J == {s \in SUBSET S : iter[s] \in Int}
  <2>1. {} \in J
    BY <1>9
  <2>2. ASSUME NEW s \in SUBSET S, s # {}, s \ {pick[s]} \in J PROVE s \in J
    <3>1. PICK n \in Int : n = f[pick[s]]
      BY <1>0, <1>3, <2>2
    <3>2. PICK r \in Int : r = iter[s \ {pick[s]}]
      BY <2>2
    <3>3. iter[s] = n + r
      BY <1>9, <2>2, <3>1, <3>2
    <3> QED
      BY <3>3
  <2> HIDE DEF J
  <2>3. \A s \in SUBSET S : s \in J
    BY <1>2, <1>2a, <2>1, <2>2, SubsetInduction
  <2> QED
    BY <2>3 DEF J
<1> DEFINE Good(s) == \A c \in s : iter[s] = iter[s \ {c}] + f[c]
<1>11. ASSUME NEW T, T = {s \in SUBSET S : ~Good(s)}, T # {} PROVE FALSE
  <2>1. T \in SUBSET SUBSET S /\ T # {}
    BY <1>11
  <2>2. PICK R \in T : \A Q \in T : Q \subseteq R => Q = R
    BY ONLY <2>1, <1>2a, SmallestSubset
  <2>3. R \in SUBSET S /\ ~Good(R)
    BY <1>11
  <2>4. PICK c \in R : iter[R] # iter[R \ {c}] + f[c]
    BY <2>3
  <2>5. PICK m : m = pick[R] /\ m \in R /\ m \in S
    BY <1>3, <2>3, <2>4
  <2>6. iter[R] = f[m] + iter[R \ {m}]
    BY <1>9, <2>3, <2>4, <2>5
  <2>6a. R \ {m} \in SUBSET S /\ R \ {c} \in SUBSET S /\ (R \ {m}) \ {c} \in SUBSET S
    BY <2>3
  <2>7. PICK n, k, rm, rc, rest \in Int :
          /\ n = f[m] /\ k = f[c]
          /\ rm = iter[R \ {m}] /\ rc = iter[R \ {c}] /\ rest = iter[(R \ {m}) \ {c}]
    BY <1>0, <1>10, <2>3, <2>4, <2>5, <2>6a
  <2>8. c # m
    <3>1. iter[R] = n + rm /\ iter[R] # rc + k
      BY <2>4, <2>6, <2>7
    <3>2. c = m => rm = rc /\ n = k
      BY <2>7
    <3> QED
      BY <3>1, <3>2
  <2>9. Good(R \ {m}) /\ Good(R \ {c})
    <3>1. R \ {m} \notin T /\ R \ {c} \notin T
      BY <2>2, <2>4, <2>5
    <3> QED
      BY <1>11, <2>3, <3>1
  <2>10. rm = rest + k
    <3>1. c \in R \ {m}
      BY <2>4, <2>8
    <3>2. iter[R \ {m}] = iter[(R \ {m}) \ {c}] + f[c]
      BY <2>9, <3>1
    <3> QED
      BY <2>7, <3>2
  <2>11. rc = rest + n
    <3>1. m \in R \ {c}
      BY <2>5, <2>8
    <3>2. iter[R \ {c}] = iter[(R \ {c}) \ {m}] + f[m]
      BY <2>9, <3>1
    <3>3. (R \ {c}) \ {m} = (R \ {m}) \ {c}
      OBVIOUS
    <3> QED
      BY <2>7, <3>2, <3>3
  <2>12. iter[R] = n + rm /\ iter[R] # rc + k
    BY <2>4, <2>6, <2>7
  <2> QED
    BY <2>10, <2>11, <2>12
<1>12. \A s \in SUBSET S : Good(s)
  <2>1. PICK T : T = {s \in SUBSET S : ~Good(s)}
    OBVIOUS
  <2>2. T = {}
    BY <1>11, <2>1
  <2> QED
    BY <2>1, <2>2
<1>13. IsSum(iter, f)
  BY <1>0, <1>9, <1>10, <1>12 DEF IsSum
<1> QED
  BY <1>0, <1>1, <1>13

\* Totals add up.
LEMMA TotalsAdd ==
  ASSUME NEW S, IsFiniteSet(S), NEW f \in [S -> Int], NEW g \in [S -> Int], NEW h \in [S -> Int],
         \A c \in S : h[c] = f[c] + g[c]
  PROVE  TotalWorth(h) = TotalWorth(f) + TotalWorth(g) /\ TotalWorth(f) \in Int /\ TotalWorth(g) \in Int
<1>1. PICK F : IsSum(F, f) /\ TotalWorth(f) = F[S]
  BY TotalIsSum
<1>2. PICK G : IsSum(G, g) /\ TotalWorth(g) = G[S]
  BY TotalIsSum
<1>3. PICK H : IsSum(H, h) /\ TotalWorth(h) = H[S]
  BY TotalIsSum
<1> DEFINE J == {s \in SUBSET S : H[s] = F[s] + G[s]}
<1>4. {} \in J
  BY <1>1, <1>2, <1>3 DEF IsSum
<1>5. PICK pick : pick = AnyOf(S)
  OBVIOUS
<1>6. Picks(pick, S)
  BY <1>5, AnyPicks
<1>7. ASSUME NEW s \in SUBSET S, s # {}, s \ {pick[s]} \in J PROVE s \in J
  <2>1. PICK c \in s : c = pick[s]
    BY <1>6, <1>7 DEF Picks
  <2>2. PICK r : r = s \ {c}
    OBVIOUS
  <2>3. r \in SUBSET S /\ c \in S
    BY <2>1, <2>2
  <2>4. F[s] = F[r] + f[c] /\ F[r] \in Int
    BY <1>1, <2>2, <2>3 DEF IsSum
  <2>5. G[s] = G[r] + g[c] /\ G[r] \in Int
    BY <1>2, <2>2, <2>3 DEF IsSum
  <2>6. H[s] = H[r] + h[c]
    BY <1>3, <2>2, <2>3 DEF IsSum
  <2>7. H[r] = F[r] + G[r]
    BY <1>7, <2>1, <2>2
  <2>8. f[c] \in Int /\ g[c] \in Int /\ h[c] = f[c] + g[c]
    BY <2>3
  <2> QED
    BY <2>4, <2>5, <2>6, <2>7, <2>8
<1> HIDE DEF J
<1>8. \A s \in SUBSET S : s \in J
  BY <1>4, <1>6, <1>7, SubsetInduction
<1>9. H[S] = F[S] + G[S] /\ F[S] \in Int /\ G[S] \in Int
  BY <1>1, <1>2, <1>8 DEF J, IsSum
<1> QED
  BY <1>1, <1>2, <1>3, <1>9

\* Entries of zero do not count.
LEMMA TotalsExtend ==
  ASSUME NEW A, IsFiniteSet(A), NEW S \in SUBSET A, NEW f \in [S -> Int], NEW g \in [A -> Int],
         \A c \in A : g[c] = IF c \in S THEN f[c] ELSE 0
  PROVE  TotalWorth(g) = TotalWorth(f) /\ TotalWorth(f) \in Int
<1>0. IsFiniteSet(S)
  BY FS_Subset
<1>1. PICK F : IsSum(F, f) /\ TotalWorth(f) = F[S]
  BY <1>0, TotalIsSum
<1>2. PICK G : IsSum(G, g) /\ TotalWorth(g) = G[A]
  BY TotalIsSum
<1> DEFINE J == {s \in SUBSET A : G[s] = F[s \cap S]}
<1>4. {} \in J
  BY <1>1, <1>2 DEF IsSum
<1>5. PICK pick : pick = AnyOf(A)
  OBVIOUS
<1>6. Picks(pick, A)
  BY <1>5, AnyPicks
<1>7. ASSUME NEW s \in SUBSET A, s # {}, s \ {pick[s]} \in J PROVE s \in J
  <2>1. PICK c \in s : c = pick[s]
    BY <1>6, <1>7 DEF Picks
  <2>2. PICK r : r = s \ {c}
    OBVIOUS
  <2>3. r \in SUBSET A /\ c \in A
    BY <2>1, <2>2
  <2>4. G[s] = G[r] + g[c] /\ G[r] \in Int
    BY <1>2, <2>2, <2>3 DEF IsSum
  <2>5. G[r] = F[r \cap S]
    BY <1>7, <2>1, <2>2
  <2>6. CASE c \in S
    <3>1. PICK t : t = s \cap S
      OBVIOUS
    <3>2. t \in SUBSET S /\ c \in t /\ t \ {c} = r \cap S
      BY <2>2, <2>6, <3>1
    <3>3. F[t] = F[t \ {c}] + f[c]
      BY <1>1, <3>2 DEF IsSum
    <3>4. g[c] = f[c]
      BY <2>3, <2>6
    <3> QED
      BY <2>4, <2>5, <3>1, <3>2, <3>3, <3>4
  <2>7. CASE c \notin S
    <3>1. r \cap S = s \cap S
      BY <2>2, <2>7
    <3>2. g[c] = 0
      BY <2>3, <2>7
    <3> QED
      BY <2>4, <2>5, <3>1, <3>2
  <2> QED
    BY <2>6, <2>7
<1> HIDE DEF J
<1>8. \A s \in SUBSET A : s \in J
  BY <1>4, <1>6, <1>7, SubsetInduction
<1>9. G[A] = F[A \cap S] /\ A \cap S = S /\ F[S] \in Int
  BY <1>1, <1>8 DEF J, IsSum
<1> QED
  BY <1>1, <1>2, <1>9

\* The same amount for each of some.
LEMMA TotalOfEqual ==
  ASSUME NEW S, IsFiniteSet(S), NEW T \in SUBSET S, NEW k \in Int, NEW f \in [S -> Int],
         \A c \in S : f[c] = IF c \in T THEN k ELSE 0
  PROVE  TotalWorth(f) = k * Cardinality(T) /\ Cardinality(T) \in Nat
<1>1. PICK F : IsSum(F, f) /\ TotalWorth(f) = F[S]
  BY TotalIsSum
<1>2. \A s \in SUBSET S : IsFiniteSet(s \cap T) /\ Cardinality(s \cap T) \in Nat
  <2>1. ASSUME NEW s \in SUBSET S PROVE IsFiniteSet(s \cap T) /\ Cardinality(s \cap T) \in Nat
    <3>1. IsFiniteSet(s \cap T)
      BY FS_Subset
    <3> QED
      BY <3>1, FS_CardinalityType
  <2> QED
    BY <2>1
<1> DEFINE J == {s \in SUBSET S : F[s] = k * Cardinality(s \cap T)}
<1>4. {} \in J
  <2>1. Cardinality({} \cap T) = 0
    <3>1. {} \cap T = {}
      OBVIOUS
    <3> QED
      BY <3>1, FS_EmptySet
  <2> QED
    BY <1>1, <2>1 DEF IsSum
<1>5. PICK pick : pick = AnyOf(S)
  OBVIOUS
<1>6. Picks(pick, S)
  BY <1>5, AnyPicks
<1>7. ASSUME NEW s \in SUBSET S, s # {}, s \ {pick[s]} \in J PROVE s \in J
  <2>1. PICK c \in s : c = pick[s]
    BY <1>6, <1>7 DEF Picks
  <2>2. PICK r : r = s \ {c}
    OBVIOUS
  <2>3. r \in SUBSET S /\ c \in S
    BY <2>1, <2>2
  <2>4. F[s] = F[r] + f[c] /\ F[r] \in Int
    BY <1>1, <2>2, <2>3 DEF IsSum
  <2>5. F[r] = k * Cardinality(r \cap T)
    BY <1>7, <2>1, <2>2
  <2>6. CASE c \in T
    <3>1. PICK t, u : t = s \cap T /\ u = r \cap T
      OBVIOUS
    <3>2. IsFiniteSet(u) /\ Cardinality(u) \in Nat /\ c \notin u /\ t = u \cup {c}
      BY <1>2, <2>2, <2>3, <2>6, <3>1
    <3>3. Cardinality(t) = Cardinality(u) + 1
      BY <3>2, FS_AddElement
    <3>4. f[c] = k
      BY <2>3, <2>6
    <3>5. k * (Cardinality(u) + 1) = k * Cardinality(u) + k
      BY <3>2
    <3> QED
      BY <2>4, <2>5, <3>1, <3>3, <3>4, <3>5
  <2>7. CASE c \notin T
    <3>1. r \cap T = s \cap T
      BY <2>2, <2>7
    <3>2. f[c] = 0
      BY <2>3, <2>7
    <3>3. F[s] = F[r]
      BY <2>4, <3>2
    <3> QED
      BY <2>5, <3>1, <3>3
  <2> QED
    BY <2>6, <2>7
<1> HIDE DEF J
<1>8. \A s \in SUBSET S : s \in J
  BY <1>4, <1>6, <1>7, SubsetInduction
<1>9. F[S] = k * Cardinality(S \cap T) /\ S \cap T = T
  BY <1>8 DEF J
<1> QED
  BY <1>1, <1>2, <1>9
-----------------------------------------------------------------------------
(* Assignments *)

\* Amounts other than zero for some of the categories; what each category has.
Worths == UNION {[s -> Int \ {0}] : s \in SUBSET AssignedCategories}
Held(w, c) == IF c \in DOMAIN w THEN w[c] ELSE 0
Amounted == AssignedCategories \X Int

\* An entry of the map is never zero: a category with nothing assigned has no entry.
LEMMA WorthShape ==
  ASSUME NEW w \in Worths
  PROVE  /\ DOMAIN w \subseteq AssignedCategories /\ w = [c \in DOMAIN w |-> w[c]]
         /\ \A c \in DOMAIN w : w[c] \in Int \ {0}
         /\ \A c : Held(w, c) \in Int /\ (c \in DOMAIN w <=> Held(w, c) # 0)
BY DEF Worths, Held

\* A write changes one category.
LEMMA WritesOne ==
  ASSUME NEW w \in Worths, NEW change \in Amounted
  PROVE  /\ WriteWorth(w, change) \in Worths
         /\ \A c \in AssignedCategories :
              Held(WriteWorth(w, change), c) = IF c = change[1] THEN change[2] ELSE Held(w, c)
<1>1. PICK id \in AssignedCategories, amount \in Int : id = change[1] /\ amount = change[2]
  BY DEF Amounted
<1>2. PICK s \in SUBSET AssignedCategories : w \in [s -> Int \ {0}]
  BY DEF Worths
<1>3. CASE amount = 0
  <2>1. PICK v : v = Restrict(w, DOMAIN w \ {id})
    OBVIOUS
  <2>2. v \in [s \ {id} -> Int \ {0}] /\ DOMAIN v = s \ {id} /\ \A c \in s \ {id} : v[c] = w[c]
    BY <1>2, <2>1 DEF Restrict
  <2>3. v \in Worths
    BY <2>2 DEF Worths
  <2>4. WriteWorth(w, change) = v
    BY <1>1, <1>3, <2>1 DEF WriteWorth
  <2> QED
    BY <1>1, <1>2, <1>3, <2>2, <2>3, <2>4 DEF Held
<1>4. CASE amount # 0
  <2>1. PICK v : v = Put(w, id, amount)
    OBVIOUS
  <2>2. v \in [s \cup {id} -> Int \ {0}] /\ DOMAIN v = s \cup {id}
        /\ v[id] = amount /\ \A c \in s \ {id} : v[c] = w[c]
    BY <1>2, <1>4, <2>1 DEF Put
  <2>3. v \in Worths
    BY <2>2 DEF Worths
  <2>4. WriteWorth(w, change) = v
    BY <1>1, <1>4, <2>1 DEF WriteWorth
  <2> QED
    BY <1>1, <1>2, <1>4, <2>2, <2>3, <2>4 DEF Held
<1> QED
  BY <1>3, <1>4

\* What the writes i of s, in their order, make of w.
Wrote(w, list, s, v) ==
  /\ v \in Worths
  /\ \A c \in AssignedCategories : (\A i \in s : list[i][1] # c) => Held(v, c) = Held(w, c)
  /\ \A i \in s : (\A j \in s : j > i => list[j][1] # list[i][1]) => Held(v, list[i][1]) = list[i][2]

\* One more write, later than the others.
LEMMA WritesNext ==
  ASSUME NEW w, NEW n \in Nat, NEW list \in [1..n -> Amounted], NEW s \in SUBSET (1..n), NEW m \in s,
         \A x \in s : m >= x, NEW v, Wrote(w, list, s \ {m}, v)
  PROVE  Wrote(w, list, s, WriteWorth(v, list[m]))
<1>1. PICK id, amount : id = list[m][1] /\ amount = list[m][2]
  OBVIOUS
<1>2. PICK u : u = WriteWorth(v, list[m])
  OBVIOUS
<1>3. v \in Worths /\ list[m] \in Amounted /\ id \in AssignedCategories
  BY <1>1 DEF Wrote, Amounted
<1>4. u \in Worths /\ \A c \in AssignedCategories : Held(u, c) = IF c = id THEN amount ELSE Held(v, c)
  BY <1>1, <1>2, <1>3, WritesOne
<1>5. ASSUME NEW c \in AssignedCategories, \A i \in s : list[i][1] # c PROVE Held(u, c) = Held(w, c)
  BY <1>1, <1>4, <1>5 DEF Wrote
<1>6. ASSUME NEW i \in s, \A j \in s : j > i => list[j][1] # list[i][1] PROVE Held(u, list[i][1]) = list[i][2]
  <2>0. list[i][1] \in AssignedCategories
    BY DEF Amounted
  <2>1. CASE i = m
    BY <1>1, <1>3, <1>4, <2>1
  <2>2. CASE i # m
    <3>1. m > i /\ i \in s \ {m}
      BY <2>2
    <3>2. list[i][1] # id
      BY <1>1, <1>6, <3>1
    <3>3. Held(v, list[i][1]) = list[i][2]
      BY <1>6, <3>1 DEF Wrote
    <3> QED
      BY <1>4, <2>0, <3>2, <3>3
  <2> QED
    BY <2>1, <2>2
<1>7. Wrote(w, list, s, u)
  BY <1>4, <1>5, <1>6 DEF Wrote
<1> QED
  BY <1>2, <1>7

\* All the writes.
LEMMA WritesAll ==
  ASSUME NEW w \in Worths, NEW n \in Nat, NEW list \in [1..n -> Amounted]
  PROVE  Wrote(w, list, 1..n, FoldLeft(WriteWorth, w, list))
<1>0. PICK D : D = 1..n /\ D = DOMAIN list
  OBVIOUS
<1> DEFINE pick == [s \in SUBSET D |-> Max(s)]
           step == [p \in D \X Worths |-> WriteWorth(p[2], list[p[1]])]
           Body(f) == [s \in SUBSET D |->
                         IF s = {} THEN w ELSE WriteWorth(f[s \ {Max(s)}], list[Max(s)])]
           iter == CHOOSE f : f = Body(f)
<1>1. FoldLeft(WriteWorth, w, list) = iter[D]
  BY <1>0 DEF FoldLeft, MapThenFoldSet
<1>2. IsFiniteSet(D) /\ D \subseteq Int /\ \A i \in D : list[i] \in Amounted
  BY <1>0, FS_Interval
<1>2a. IsFiniteSet(D)
  BY <1>2
<1>3. \A s \in SUBSET D : s # {} => pick[s] = Max(s) /\ Max(s) \in s /\ \A x \in s : Max(s) >= x
  <2>1. ASSUME NEW s \in SUBSET D, s # {} PROVE Max(s) \in s /\ \A x \in s : Max(s) >= x
    <3>1. IsFiniteSet(s) /\ s \subseteq Int
      BY <1>2, FS_Subset
    <3> QED
      BY <2>1, <3>1, MaxExists
  <2> QED
    BY <2>1
<1>4. Picks(pick, D)
  BY <1>3 DEF Picks
<1>5. \A i \in D, v \in Worths : step[<<i, v>>] = WriteWorth(v, list[i]) /\ WriteWorth(v, list[i]) \in Worths
  <2>1. ASSUME NEW i \in D, NEW v \in Worths PROVE WriteWorth(v, list[i]) \in Worths
    <3>1. list[i] \in Amounted
      BY <1>2
    <3> QED
      BY <3>1, WritesOne
  <2> QED
    BY <2>1
<1> HIDE DEF pick, step
<1>6. PICK f : FoldsUp(f, D, w, step, pick)
  BY <1>2a, <1>4, FoldsExist
<1>7. \A s \in SUBSET D : f[s] \in Worths
  <2> DEFINE J == {s \in SUBSET D : f[s] \in Worths}
  <2>1. {} \in J
    BY <1>6 DEF FoldsUp
  <2>2. ASSUME NEW s \in SUBSET D, s # {}, s \ {pick[s]} \in J PROVE s \in J
    <3>1. f[s] = step[<<pick[s], f[s \ {pick[s]}]>>]
      BY <1>6, <2>2, FoldOf
    <3>2. PICK i \in D : i = pick[s]
      BY <1>3, <2>2
    <3>3. PICK v \in Worths : v = f[s \ {pick[s]}]
      BY <2>2
    <3>4. step[<<i, v>>] \in Worths
      BY <1>5
    <3> QED
      BY <3>1, <3>2, <3>3, <3>4
  <2> HIDE DEF J
  <2>3. \A s \in SUBSET D : s \in J
    BY <1>2a, <1>4, <2>1, <2>2, SubsetInduction
  <2> QED
    BY <2>3 DEF J
<1>8. f = Body(f)
  <2>1. ASSUME NEW s \in SUBSET D, s # {}
        PROVE  f[s] = WriteWorth(f[s \ {Max(s)}], list[Max(s)])
    <3>1. f[s] = step[<<pick[s], f[s \ {pick[s]}]>>]
      BY <1>6, <2>1, FoldOf
    <3>2. PICK m : m = Max(s)
      OBVIOUS
    <3>3. pick[s] = m /\ m \in D
      BY <1>3, <2>1, <3>2
    <3>4. PICK v \in Worths : v = f[s \ {m}]
      BY <1>7
    <3> QED
      BY <1>5, <3>1, <3>2, <3>3, <3>4
  <2>2. f[{}] = w
    BY <1>6 DEF FoldsUp
  <2>3. f = [s \in SUBSET D |-> f[s]]
    BY <1>6 DEF FoldsUp
  <2> QED
    BY <2>1, <2>2, <2>3
<1>9. iter = Body(iter)
  <2> HIDE DEF Body
  <2> QED
    BY <1>8
<1>10. /\ iter[{}] = w
       /\ \A s \in SUBSET D : s # {} =>
            \E m \in s : /\ m = pick[s] /\ iter[s] = WriteWorth(iter[s \ {m}], list[m])
                         /\ \A x \in s : m >= x
  <2> HIDE DEF iter
  <2>1. ASSUME NEW s \in SUBSET D, s # {}
        PROVE \E m \in s : /\ m = pick[s] /\ iter[s] = WriteWorth(iter[s \ {m}], list[m])
                           /\ \A x \in s : m >= x
    <3>1. iter[s] = WriteWorth(iter[s \ {Max(s)}], list[Max(s)])
      BY <1>9, <2>1
    <3>2. PICK m \in s : m = Max(s) /\ m = pick[s] /\ \A x \in s : m >= x
      BY <1>3, <2>1
    <3> QED
      BY <3>1, <3>2
  <2> QED
    BY <1>9, <2>1
<1> HIDE DEF iter
<1> DEFINE K == {s \in SUBSET D : Wrote(w, list, s, iter[s])}
<1>11. {} \in K
  BY <1>10 DEF Wrote
<1>12. ASSUME NEW s \in SUBSET D, s # {}, s \ {pick[s]} \in K PROVE s \in K
  <2>1. PICK m \in s : /\ m = pick[s] /\ iter[s] = WriteWorth(iter[s \ {m}], list[m])
                       /\ \A x \in s : m >= x
    BY <1>10, <1>12
  <2>2. PICK v : v = iter[s \ {m}]
    OBVIOUS
  <2>3. Wrote(w, list, s \ {m}, v)
    BY <1>12, <2>1, <2>2
  <2>4. s \in SUBSET (1..n)
    BY <1>0
  <2>5. Wrote(w, list, s, WriteWorth(v, list[m]))
    BY ONLY n \in Nat, list \in [1..n -> Amounted], <2>1, <2>3, <2>4, WritesNext
  <2> QED
    BY <2>1, <2>2, <2>5
<1> HIDE DEF K
<1>13. \A s \in SUBSET D : s \in K
  BY <1>2a, <1>4, <1>11, <1>12, SubsetInduction
<1> QED
  BY <1>0, <1>1, <1>13 DEF K
-----------------------------------------------------------------------------
(* What assignments gain *)

\* One category has more, or less.
LEMMA TotalOfOne ==
  ASSUME NEW S, IsFiniteSet(S), NEW id \in S, NEW k \in Int, NEW f \in [S -> Int],
         \A c \in S : f[c] = IF c = id THEN k ELSE 0
  PROVE  TotalWorth(f) = k
<1>1. PICK T : T = {id}
  OBVIOUS
<1>2. T \in SUBSET S /\ \A c \in S : f[c] = IF c \in T THEN k ELSE 0
  BY <1>1
<1>3. TotalWorth(f) = k * Cardinality(T)
  BY <1>2, TotalOfEqual
<1>4. Cardinality(T) = 1
  BY <1>1, FS_Singleton
<1> QED
  BY <1>3, <1>4

\* What is assigned changes by the differences.
LEMMA GainIs ==
  ASSUME NEW w \in Worths, NEW v \in Worths, NEW d \in [AssignedCategories -> Int],
         \A c \in AssignedCategories : Held(v, c) = Held(w, c) + d[c]
  PROVE  TotalWorth(v) - TotalWorth(w) = TotalWorth(d) /\ TotalWorth(d) \in Int
<1> DEFINE F == [c \in AssignedCategories |-> Held(w, c)]
           G == [c \in AssignedCategories |-> Held(v, c)]
<1>0. IsFiniteSet(AssignedCategories)
  BY AssignmentsAssumption
<1>1. PICK f \in [AssignedCategories -> Int] : f = F
  BY WorthShape
<1>2. PICK g \in [AssignedCategories -> Int] : g = G
  BY WorthShape
<1>3. PICK s \in SUBSET AssignedCategories : w \in [s -> Int]
  BY DEF Worths
<1>4. PICK t \in SUBSET AssignedCategories : v \in [t -> Int]
  BY DEF Worths
<1>5. \A c \in AssignedCategories : f[c] = IF c \in s THEN w[c] ELSE 0
  BY <1>1, <1>3 DEF Held
<1>6. \A c \in AssignedCategories : g[c] = IF c \in t THEN v[c] ELSE 0
  BY <1>2, <1>4 DEF Held
<1>7. TotalWorth(f) = TotalWorth(w)
  BY <1>0, <1>3, <1>5, TotalsExtend
<1>8. TotalWorth(g) = TotalWorth(v)
  BY <1>0, <1>4, <1>6, TotalsExtend
<1>9. \A c \in AssignedCategories : g[c] = f[c] + d[c]
  BY <1>1, <1>2
<1>10. TotalWorth(g) = TotalWorth(f) + TotalWorth(d) /\ TotalWorth(f) \in Int /\ TotalWorth(d) \in Int
  BY <1>0, <1>9, TotalsAdd
<1> QED
  BY <1>7, <1>8, <1>10

\* Distinct ids are as many as their places.
LEMMA PlacesAreMany ==
  ASSUME NEW n \in Nat, NEW ids, DOMAIN ids = 1..n, IsInjective(ids), NEW m \in 0..n
  PROVE  Cardinality({ids[i] : i \in 1..m}) = m
<1> DEFINE T == {ids[i] : i \in 1..m}
           b == [i \in 1..m |-> ids[i]]
<1>1. b \in Surjection(1..m, T)
  BY DEF Surjection
<1>2. b \in Injection(1..m, T)
  BY DEF Injection, IsInjective
<1>3. ExistsBijection(1..m, T)
  BY <1>1, <1>2 DEF Bijection, ExistsBijection
<1>4. IsFiniteSet(1..m) /\ Cardinality(1..m) = m
  BY FS_Interval
<1> HIDE DEF T, b
<1>5. Cardinality(T) = Cardinality(1..m)
  BY <1>3, <1>4, FS_Bijection
<1> QED
  BY <1>4, <1>5 DEF T

\* A share of an amount is what division leaves, and in order also a cent of the rest.
Rest(n, amount) == amount - n * Truncated(amount, n)
SignOf(k) == IF k < 0 THEN -1 ELSE 1

\* What division leaves over is less than the number of shares, and has the sign of the amount.
LEMMA RestIsSmall ==
  ASSUME NEW n \in Nat \ {0}, NEW amount \in Int
  PROVE  /\ Truncated(amount, n) \in Int /\ Rest(n, amount) \in Int
         /\ n * Truncated(amount, n) + Rest(n, amount) = amount
         /\ Rest(n, amount) * SignOf(Rest(n, amount)) \in 0..(n - 1)
         /\ Rest(n, amount) * SignOf(amount) \in 0..(n - 1)
         /\ SignOf(Rest(n, amount)) * (Rest(n, amount) * SignOf(Rest(n, amount))) = Rest(n, amount)
<1>1. CASE amount >= 0
  <2>1. PICK q \in Nat : q = amount \div n
    BY <1>1
  <2>2. n * q <= amount /\ amount < n * q + n
    BY <1>1, <2>1
  <2>3. PICK p \in Int : p = n * q
    OBVIOUS
  <2>4. Truncated(amount, n) = q /\ Rest(n, amount) = amount - p
    BY <1>1, <2>1, <2>3 DEF Truncated, Rest
  <2>5. PICK r \in 0..(n - 1) : r = amount - p
    BY <2>2, <2>3
  <2>6. Rest(n, amount) = r /\ SignOf(r) = 1 /\ SignOf(amount) = 1
    BY <1>1, <2>4, <2>5 DEF SignOf
  <2> QED
    BY <2>3, <2>4, <2>5, <2>6
<1>2. CASE amount < 0
  <2>0. PICK a \in Nat : a = -amount
    BY <1>2
  <2>1. PICK q \in Nat : q = a \div n
    OBVIOUS
  <2>2. n * q <= a /\ a < n * q + n
    BY <2>1
  <2>3. PICK p \in Int : p = n * q
    OBVIOUS
  <2>4. n * (-q) = -p
    BY <2>3
  <2>5. Truncated(amount, n) = -q
    BY <1>2, <2>0, <2>1 DEF Truncated
  <2>6. Rest(n, amount) = amount + p
    BY <2>4, <2>5 DEF Rest
  <2>7. PICK r \in 0..(n - 1) : -r = amount + p
    <3>1. a - p \in 0..(n - 1) /\ -(a - p) = amount + p
      BY <2>0, <2>2, <2>3
    <3> QED
      BY <3>1
  <2>8. Rest(n, amount) = -r /\ SignOf(amount) = -1
    BY <1>2, <2>6, <2>7 DEF SignOf
  <2>9. SignOf(-r) = (IF r = 0 THEN 1 ELSE -1)
    BY DEF SignOf
  <2>10. (-r) * SignOf(-r) = r /\ SignOf(-r) * r = -r /\ (-r) * (-1) = r
    BY <2>9
  <2> QED
    BY <2>4, <2>5, <2>6, <2>7, <2>8, <2>10
<1> QED
  BY <1>1, <1>2
-----------------------------------------------------------------------------
(* The map, its undo tokens and the proposal *)

Tokens == [before : UNION {[s -> Int] : s \in SUBSET AssignedCategories}, at : Nat, past : Worths]
Restores(token, w) ==
  \A c \in AssignedCategories :
    Held(token.past, c) = IF c \in DOMAIN token.before THEN token.before[c] ELSE Held(w, c)
TokensOK(tokens, rev, w) ==
  /\ tokens \in Seq(Tokens)
  /\ \A i \in DOMAIN tokens : tokens[i].at <= rev /\ (tokens[i].at = rev => Restores(tokens[i], w))
Proposed(p) ==
  /\ p.before \in [AssignedCategories -> Int] /\ p.after \in [AssignedCategories -> Int]
  /\ \E d \in [AssignedCategories -> Int] :
       p.total = TotalWorth(d) /\ \A c \in AssignedCategories : p.after[c] = p.before[c] + d[c]

\* The map holds amounts other than zero; the token of the last change restores what was
\* there before it; a proposal adds up.
AssignInv ==
  /\ worth \in Worths /\ serviceRevision \in Nat
  /\ TokensOK(undoTokens, serviceRevision, worth)
  /\ underReview # <<>> => Proposed(underReview[1])

Gained == TotalWorth(worth') - TotalWorth(worth)

\* Two maps in which each category has the same are the same.
LEMMA SameWorths ==
  ASSUME NEW w \in Worths, NEW v \in Worths, \A c \in AssignedCategories : Held(v, c) = Held(w, c)
  PROVE  v = w
<1>1. DOMAIN v = DOMAIN w
  BY WorthShape
<1>2. \A c \in DOMAIN w : v[c] = w[c]
  BY <1>1, WorthShape DEF Held
<1> QED
  BY <1>1, <1>2, WorthShape

\* Every change of the map writes all of its list, and hands out a token that restores.
LEMMA ChangedWrites ==
  ASSUME AssignInv, NEW n \in Nat, NEW list \in [1..n -> Amounted], Changed(list)
  PROVE  /\ Wrote(worth, list, 1..n, worth') /\ worth' \in Worths
         /\ serviceRevision' = serviceRevision + 1 /\ serviceRevision' \in Nat
         /\ TokensOK(undoTokens', serviceRevision', worth')
<1>1. PICK w \in Worths : w = worth
  BY DEF AssignInv
<1>2. PICK v : v = FoldLeft(WriteWorth, w, list)
  OBVIOUS
<1>3. Wrote(w, list, 1..n, v)
  BY <1>2, WritesAll
<1>4. worth' = v /\ v \in Worths
  BY <1>1, <1>2, <1>3 DEF Changed, Wrote
<1>5. PICK rev \in Nat : rev = serviceRevision
  BY DEF AssignInv
<1>6. PICK keys : keys = {list[i][1] : i \in DOMAIN list}
  OBVIOUS
<1>7. PICK token : token = [before |-> [c \in keys |-> Worth(c)], at |-> rev + 1, past |-> w]
  OBVIOUS
<1>8. keys \in SUBSET AssignedCategories
  BY <1>6 DEF Amounted
<1>9. \A c : Worth(c) = Held(w, c) /\ Held(w, c) \in Int
  BY <1>1, WorthShape DEF Worth, Held
<1>10. token \in Tokens
  <2>1. [c \in keys |-> Worth(c)] \in [keys -> Int]
    BY <1>9
  <2>2. [c \in keys |-> Worth(c)] \in UNION {[s -> Int] : s \in SUBSET AssignedCategories}
    BY <1>8, <2>1
  <2> QED
    BY <1>5, <1>7, <2>2 DEF Tokens
<1>11. Restores(token, v)
  <2>1. token.past = w /\ DOMAIN token.before = keys /\ \A c \in keys : token.before[c] = Held(w, c)
    BY <1>7, <1>9
  <2>2. ASSUME NEW c \in AssignedCategories, c \notin keys PROVE Held(v, c) = Held(w, c)
    <3>1. \A i \in 1..n : list[i][1] # c
      BY <1>6, <2>2
    <3> QED
      BY <1>3, <3>1 DEF Wrote
  <2> QED
    BY <2>1, <2>2 DEF Restores
<1>12. PICK old : old = undoTokens
  OBVIOUS
<1>13. TokensOK(old, rev, w)
  BY <1>1, <1>5, <1>12 DEF AssignInv
<1>14. old \in Seq(Tokens)
  BY <1>13 DEF TokensOK
<1>15. PICK new : new = Append(old, token)
  OBVIOUS
<1>16. /\ new \in Seq(Tokens) /\ Len(new) = Len(old) + 1 /\ Len(old) \in Nat
       /\ \A i \in 1..Len(old) : new[i] = old[i]
       /\ new[Len(old) + 1] = token
  BY <1>10, <1>14, <1>15, AppendProperties, LenProperties
<1>17. DOMAIN new = 1..(Len(old) + 1) /\ DOMAIN old = 1..Len(old)
  BY <1>14, <1>16, LenProperties
<1>18. TokensOK(new, rev + 1, v)
  <2>1. ASSUME NEW i \in DOMAIN old PROVE new[i].at < rev + 1
    <3>1. old[i].at <= rev
      BY <1>13 DEF TokensOK
    <3>2. old[i] \in Tokens
      BY <1>14, <1>17, ElementOfSeq
    <3>3. old[i].at \in Nat
      BY <3>2 DEF Tokens
    <3> QED
      BY <1>5, <1>16, <1>17, <3>1, <3>3
  <2>2. ASSUME NEW i \in DOMAIN new
        PROVE  new[i].at <= rev + 1 /\ (new[i].at = rev + 1 => Restores(new[i], v))
    <3>1. CASE i \in DOMAIN old
      <4>1. old[i] \in Tokens
        BY <1>14, <1>17, <3>1, ElementOfSeq
      <4>2. new[i].at \in Nat /\ new[i].at < rev + 1
        BY <1>16, <1>17, <2>1, <3>1, <4>1 DEF Tokens
      <4> QED
        BY <4>2
    <3>2. CASE i \notin DOMAIN old
      <4>1. i = Len(old) + 1
        BY <1>16, <1>17, <3>2
      <4>2. new[i] = token /\ token.at = rev + 1
        BY <1>7, <1>16, <4>1
      <4> QED
        BY <1>11, <4>2
    <3> QED
      BY <3>1, <3>2
  <2> QED
    BY <1>16, <2>2 DEF TokensOK
<1>19. serviceRevision' = rev + 1 /\ undoTokens' = new
  BY <1>1, <1>5, <1>6, <1>7, <1>12, <1>15 DEF Changed
<1> QED
  BY <1>1, <1>3, <1>4, <1>5, <1>18, <1>19

\* The list of one change is a list of changes.
LEMMA OneChange ==
  ASSUME NEW c \in AssignedCategories, NEW k \in Int
  PROVE  << <<c, k>> >> \in [1..1 -> Amounted]
BY DEF Amounted

\* A change of one category.
LEMMA SetsOne ==
  ASSUME AssignInv, NEW c \in AssignedCategories, NEW k \in Int, Changed(<< <<c, k>> >>), UNCHANGED underReview
  PROVE  AssignInv'
<1>1. PICK list \in [1..1 -> Amounted] : list = << <<c, k>> >>
  BY OneChange
<1>2. /\ worth' \in Worths /\ serviceRevision' \in Nat
      /\ TokensOK(undoTokens', serviceRevision', worth')
  <2>1. Changed(list)
    BY <1>1
  <2> QED
    BY <2>1, ChangedWrites
<1> QED
  BY <1>2 DEF AssignInv

\* A move leaves the total alone, unless it is from a category to itself.
LEMMA MoveConserves ==
  ASSUME AssignInv, NEW from \in AssignedCategories, NEW to \in AssignedCategories, NEW amount \in Int,
         MoveMoney(from, to, amount)
  PROVE  AssignInv' /\ Gained = IF from = to THEN amount ELSE 0
<1>1. PICK a, b \in Int : a = Worth(from) /\ b = Worth(to)
  BY WorthShape DEF AssignInv, Worth, Held
<1>2. PICK list : list = << <<from, a - amount>>, <<to, b + amount>> >>
  OBVIOUS
<1>3. /\ list \in [1..2 -> Amounted]
      /\ list[1][1] = from /\ list[1][2] = a - amount /\ list[2][1] = to /\ list[2][2] = b + amount
  BY <1>2 DEF Amounted
<1>4. Changed(list)
  BY <1>1, <1>2 DEF MoveMoney
<1>5. /\ Wrote(worth, list, 1..2, worth') /\ worth' \in Worths
      /\ serviceRevision' \in Nat /\ TokensOK(undoTokens', serviceRevision', worth')
  <2>1. 2 \in Nat
    OBVIOUS
  <2> QED
    BY ONLY AssignInv, <1>3, <1>4, <2>1, ChangedWrites
<1>6. AssignInv'
  BY <1>5 DEF AssignInv, MoveMoney
<1>7. Held(worth, from) = a /\ Held(worth, to) = b
  BY <1>1 DEF Worth, Held
<1>8. \A c \in AssignedCategories \ {from, to} : Held(worth', c) = Held(worth, c)
  BY <1>3, <1>5 DEF Wrote
<1>9. Held(worth', to) = b + amount
  <2>1. \A j \in 1..2 : j > 2 => list[j][1] # list[2][1]
    OBVIOUS
  <2> QED
    BY <1>3, <1>5, <2>1 DEF Wrote
<1>10. from # to => Held(worth', from) = a - amount
  <2>1. from # to => \A j \in 1..2 : j > 1 => list[j][1] # list[1][1]
    BY <1>3
  <2> QED
    BY <1>3, <1>5, <2>1 DEF Wrote
<1>11. IsFiniteSet(AssignedCategories)
  BY AssignmentsAssumption
<1>12. worth \in Worths /\ \A c : Held(worth, c) \in Int
  BY WorthShape DEF AssignInv
<1>13. CASE from = to
  <2>1. PICK d : d = [c \in AssignedCategories |-> IF c = to THEN amount ELSE 0]
    OBVIOUS
  <2>2. d \in [AssignedCategories -> Int] /\ \A c \in AssignedCategories : d[c] = IF c = to THEN amount ELSE 0
    BY <2>1
  <2>3. TotalWorth(d) = amount
    BY <1>11, <2>2, TotalOfOne
  <2>4. \A c \in AssignedCategories : Held(worth', c) = Held(worth, c) + d[c]
    BY <1>7, <1>8, <1>9, <1>12, <1>13, <2>2
  <2> QED
    BY <1>5, <1>6, <1>12, <1>13, <2>2, <2>3, <2>4, GainIs DEF Gained
<1>14. CASE from # to
  <2>1. PICK e : e = [c \in AssignedCategories |-> IF c = to THEN amount ELSE 0]
    OBVIOUS
  <2>2. e \in [AssignedCategories -> Int] /\ \A c \in AssignedCategories : e[c] = IF c = to THEN amount ELSE 0
    BY <2>1
  <2>3. TotalWorth(e) = amount
    BY <1>11, <2>2, TotalOfOne
  <2>4. PICK f : f = [c \in AssignedCategories |-> IF c = from THEN -amount ELSE 0]
    OBVIOUS
  <2>5. f \in [AssignedCategories -> Int] /\ \A c \in AssignedCategories : f[c] = IF c = from THEN -amount ELSE 0
    BY <2>4
  <2>6. TotalWorth(f) = -amount
    BY <1>11, <2>5, TotalOfOne
  <2>7. PICK d : d = [c \in AssignedCategories |-> f[c] + e[c]]
    OBVIOUS
  <2>8. d \in [AssignedCategories -> Int] /\ \A c \in AssignedCategories : d[c] = f[c] + e[c]
    BY <2>2, <2>5, <2>7
  <2>9. TotalWorth(d) = TotalWorth(f) + TotalWorth(e)
    BY ONLY <1>11, <2>2, <2>5, <2>8, TotalsAdd
  <2>10. TotalWorth(d) = 0
    BY <2>3, <2>6, <2>9
  <2>11. ASSUME NEW c \in AssignedCategories PROVE Held(worth', c) = Held(worth, c) + d[c]
    <3>1. CASE c = to
      <4>1. d[c] = 0 + amount
        BY <1>14, <2>2, <2>5, <2>8, <3>1
      <4> QED
        BY <1>7, <1>9, <3>1, <4>1
    <3>2. CASE c = from
      <4>1. d[c] = (-amount) + 0
        BY <1>14, <2>2, <2>5, <2>8, <3>2
      <4> QED
        BY <1>7, <1>10, <1>14, <3>2, <4>1
    <3>3. CASE c \notin {from, to}
      <4>1. d[c] = 0 + 0
        BY <2>2, <2>5, <2>8, <3>3
      <4> QED
        BY <1>8, <1>12, <3>3, <4>1
    <3> QED
      BY <3>1, <3>2, <3>3
  <2> QED
    BY <1>5, <1>6, <1>12, <1>14, <2>8, <2>10, <2>11, GainIs DEF Gained
<1> QED
  BY <1>13, <1>14
\* Handing out assigns the whole amount in order, and otherwise all but a small rest.
LEMMA DistributeConserves ==
  ASSUME AssignInv, NEW ids \in Orders, NEW amount \in Int, NEW inOrder \in BOOLEAN,
         DistributeMoney(ids, amount, inOrder)
  PROVE  /\ AssignInv'
         /\ inOrder => Gained = amount
         /\ ~inOrder => (amount - Gained) * SignOf(amount) \in 0..(Len(ids) - 1)
<1>0. IsFiniteSet(AssignedCategories) /\ Cardinality(AssignedCategories) \in Nat
  BY AssignmentsAssumption, FS_CardinalityType
<1>1. PICK n \in Nat \ {0} : ids \in [1..n -> AssignedCategories] /\ IsInjective(ids)
  BY <1>0 DEF Orders
<1>2. Len(ids) = n /\ DOMAIN ids = 1..n
  <2>1. ids \in Seq(AssignedCategories)
    BY <1>1, SeqDef
  <2> QED
    BY <1>1, <2>1, LenProperties
<1>3. PICK base, r \in Int : base = Truncated(amount, n) /\ r = Rest(n, amount)
  BY <1>1, RestIsSmall
<1>4. PICK sign \in {-1, 1} : sign = SignOf(r)
  BY DEF SignOf
<1>5. PICK m \in 0..(n - 1) : m = r * sign
  BY <1>1, <1>3, <1>4, RestIsSmall
<1>6. n * base + r = amount /\ sign * m = r /\ r * SignOf(amount) \in 0..(n - 1)
  BY <1>1, <1>3, <1>4, <1>5, RestIsSmall
<1>7. PICK share : share = Shares(n, amount, inOrder)
  OBVIOUS
<1>8. share = [i \in 1..n |-> IF inOrder /\ i <= m THEN base + sign ELSE base]
  <2>1. r = amount - n * base
    BY <1>3 DEF Rest
  <2> QED
    BY <1>3, <1>4, <1>5, <1>7, <2>1 DEF Shares, SignOf
<1>9. PICK list : list = [i \in DOMAIN ids |-> <<ids[i], Worth(ids[i]) + share[i]>>]
  OBVIOUS
<1>10. worth \in Worths /\ \A c : Held(worth, c) \in Int /\ Worth(c) = Held(worth, c)
  BY WorthShape DEF AssignInv, Worth, Held
<1>11. \A i \in 1..n : share[i] \in Int
  BY <1>8
<1>12. /\ list \in [1..n -> Amounted]
       /\ \A i \in 1..n : list[i][1] = ids[i] /\ list[i][2] = Held(worth, ids[i]) + share[i]
  <2>1. ASSUME NEW i \in 1..n PROVE <<ids[i], Worth(ids[i]) + share[i]>> \in Amounted
    <3>1. PICK k \in Int : k = Worth(ids[i])
      BY <1>10
    <3>2. PICK l \in Int : l = share[i]
      BY <1>11
    <3>3. k + l \in Int /\ ids[i] \in AssignedCategories
      BY <1>1
    <3> QED
      BY <3>1, <3>2, <3>3 DEF Amounted
  <2>2. list = [i \in 1..n |-> <<ids[i], Worth(ids[i]) + share[i]>>]
    BY <1>2, <1>9
  <2> QED
    BY <1>10, <2>1, <2>2
<1>13. Changed(list) /\ UNCHANGED underReview
  BY <1>2, <1>7, <1>9 DEF DistributeMoney
<1>14. /\ Wrote(worth, list, 1..n, worth') /\ worth' \in Worths
       /\ serviceRevision' \in Nat /\ TokensOK(undoTokens', serviceRevision', worth')
  BY ONLY AssignInv, n \in Nat \ {0}, <1>12, <1>13, ChangedWrites
<1>15. AssignInv'
  BY <1>13, <1>14 DEF AssignInv
<1>16. \A i \in 1..n : Held(worth', ids[i]) = Held(worth, ids[i]) + share[i]
  <2>1. \A i, j \in 1..n : j > i => list[j][1] # list[i][1]
    BY <1>1, <1>2, <1>12 DEF IsInjective
  <2>2. \A i \in 1..n : Held(worth', list[i][1]) = list[i][2]
    BY <1>14, <2>1 DEF Wrote
  <2> QED
    BY <1>12, <2>2
<1>17. PICK all, some : all = {ids[i] : i \in 1..n} /\ some = {ids[i] : i \in 1..m}
  OBVIOUS
<1>18. /\ all \in SUBSET AssignedCategories /\ some \in SUBSET AssignedCategories
       /\ Cardinality(all) = n /\ Cardinality(some) = m
  <2>1. n \in 0..n /\ m \in 0..n /\ 1..m \subseteq 1..n
    OBVIOUS
  <2>2. Cardinality({ids[i] : i \in 1..n}) = n
    BY <1>1, <1>2, <2>1, PlacesAreMany
  <2>3. Cardinality({ids[i] : i \in 1..m}) = m
    BY <1>1, <1>2, <2>1, PlacesAreMany
  <2> QED
    BY <1>1, <1>17, <2>1, <2>2, <2>3
<1>19. \A c \in AssignedCategories \ all : Held(worth', c) = Held(worth, c)
  <2>1. \A c \in AssignedCategories \ all : \A i \in 1..n : list[i][1] # c
    BY <1>12, <1>17
  <2> QED
    BY <1>14, <2>1 DEF Wrote
<1>20. PICK f : f = [c \in AssignedCategories |-> IF c \in all THEN base ELSE 0]
  OBVIOUS
<1>21. /\ f \in [AssignedCategories -> Int]
       /\ \A c \in AssignedCategories : f[c] = IF c \in all THEN base ELSE 0
  BY <1>20
<1>22. TotalWorth(f) = n * base
  <2>1. TotalWorth(f) = base * Cardinality(all)
    BY <1>0, <1>18, <1>21, TotalOfEqual
  <2> QED
    BY <1>18, <2>1
<1>23. CASE ~inOrder
  <2>1. \A i \in 1..n : share[i] = base
    BY <1>8, <1>23
  <2>2. \A c \in AssignedCategories : Held(worth', c) = Held(worth, c) + f[c]
    BY <1>10, <1>16, <1>17, <1>19, <1>21, <2>1
  <2>3. Gained = n * base
    BY <1>10, <1>14, <1>21, <1>22, <2>2, GainIs DEF Gained
  <2>4. PICK p \in Int : p = n * base
    OBVIOUS
  <2>5. amount - Gained = r
    BY <1>6, <2>3, <2>4
  <2> QED
    BY <1>2, <1>6, <1>15, <1>23, <2>5
<1>24. CASE inOrder
  <2>0. PICK cent \in Int : cent = sign
    OBVIOUS
  <2>1. PICK g : g = [c \in AssignedCategories |-> IF c \in some THEN cent ELSE 0]
    OBVIOUS
  <2>2. /\ g \in [AssignedCategories -> Int]
        /\ \A c \in AssignedCategories : g[c] = IF c \in some THEN cent ELSE 0
    BY <2>1
  <2>3. TotalWorth(g) = r
    <3>1. IsFiniteSet(AssignedCategories)
      BY <1>0
    <3>2. some \in SUBSET AssignedCategories
      BY <1>18
    <3>3. TotalWorth(g) = cent * Cardinality(some)
      BY ONLY <2>2, <3>1, <3>2, cent \in Int, TotalOfEqual
    <3> QED
      BY <1>6, <1>18, <2>0, <3>3
  <2>4. PICK d : d = [c \in AssignedCategories |-> f[c] + g[c]]
    OBVIOUS
  <2>5. d \in [AssignedCategories -> Int] /\ \A c \in AssignedCategories : d[c] = f[c] + g[c]
    BY <1>21, <2>2, <2>4
  <2>6. TotalWorth(d) = TotalWorth(f) + TotalWorth(g)
    BY ONLY <1>0, <1>21, <2>2, <2>5, TotalsAdd
  <2>7. TotalWorth(d) = amount
    BY <1>6, <1>22, <2>3, <2>6
  <2>8. ASSUME NEW i \in 1..n PROVE d[ids[i]] = share[i]
    <3>1. ids[i] \in AssignedCategories /\ ids[i] \in all
      BY <1>1, <1>17
    <3>2. ids[i] \in some <=> i <= m
      BY <1>1, <1>2, <1>17 DEF IsInjective
    <3>3. d[ids[i]] = base + g[ids[i]]
      BY <1>21, <2>5, <3>1
    <3> QED
      BY <1>8, <1>24, <2>0, <2>2, <3>1, <3>2, <3>3
  <2>9. ASSUME NEW c \in AssignedCategories PROVE Held(worth', c) = Held(worth, c) + d[c]
    <3>1. CASE c \in all
      <4>1. PICK i \in 1..n : c = ids[i]
        BY <1>17, <3>1
      <4> QED
        BY <1>16, <2>8, <4>1
    <3>2. CASE c \notin all
      <4>1. c \notin some
        BY <1>17, <3>2
      <4>2. d[c] = 0 + 0
        BY <1>21, <2>2, <2>5, <3>2, <4>1
      <4> QED
        BY <1>10, <1>19, <3>2, <4>2
    <3> QED
      BY <3>1, <3>2
  <2>10. Gained = amount
    BY <1>10, <1>14, <2>5, <2>7, <2>9, GainIs DEF Gained
  <2> QED
    BY <1>15, <1>24, <2>10
<1> QED
  BY <1>23, <1>24

\* The elements of a finite set in a list, each once.
ListsAll(ids, n, S) ==
  ids \in [1..n -> S] /\ IsInjective(ids) /\ \A x \in S : \E i \in 1..n : ids[i] = x
\* The list of a finite set has each of its elements once.
LEMMA ListOfSet ==
  ASSUME NEW S, IsFiniteSet(S), NEW ids, ids = SetToSeq(S)
  PROVE  \E n \in Nat : ListsAll(ids, n, S)
<1>1. PICK n \in Nat : n = Cardinality(S)
  BY FS_CardinalityType
<1>2. ExistsBijection(1..n, S)
  BY <1>1, FS_CardinalityType
<1>3. PICK f : f \in Bijection(1..n, S)
  BY <1>2 DEF ExistsBijection
<1>4. f \in [1..n -> S] /\ IsInjective(f)
  BY <1>3 DEF Bijection, Injection
<1>5. ids = CHOOSE g \in [1..n -> S] : IsInjective(g)
  BY <1>1 DEF SetToSeq
<1>6. ids \in [1..n -> S] /\ IsInjective(ids)
  BY <1>4, <1>5
<1>7. ids \in Injection(1..n, S)
  BY <1>6 DEF Injection
<1>8. IsFiniteSet(1..n) /\ Cardinality(1..n) = n
  BY FS_Interval
<1>9. ids \in Surjection(1..n, S)
  BY <1>1, <1>7, <1>8, FS_Injection
<1> QED
  BY <1>6, <1>9 DEF Surjection, ListsAll

\* A preview assigns the total that was reviewed.
LEMMA PreviewConserves ==
  ASSUME AssignInv, ApplyPreview
  PROVE  AssignInv' /\ Gained = underReview[1].total
<1>0. IsFiniteSet(AssignedCategories)
  BY AssignmentsAssumption
<1>1. PICK p : p = underReview[1]
  OBVIOUS
<1>2. /\ p.before \in [AssignedCategories -> Int] /\ p.after \in [AssignedCategories -> Int]
      /\ \A c \in DOMAIN p.before : Worth(c) = p.before[c]
  BY <1>1 DEF AssignInv, Proposed, ApplyPreview
<1>3. PICK d \in [AssignedCategories -> Int] :
        p.total = TotalWorth(d) /\ \A c \in AssignedCategories : p.after[c] = p.before[c] + d[c]
  BY <1>1 DEF AssignInv, Proposed, ApplyPreview
<1>4. PICK ids : ids = SetToSeq(AssignedCategories)
  OBVIOUS
<1>5. PICK n \in Nat : ListsAll(ids, n, AssignedCategories)
  BY ONLY <1>0, <1>4, ListOfSet
<1>5a. /\ ids \in [1..n -> AssignedCategories] /\ IsInjective(ids)
       /\ \A x \in AssignedCategories : \E i \in 1..n : ids[i] = x
  BY <1>5 DEF ListsAll
<1>6. PICK list : list = [i \in DOMAIN ids |-> <<ids[i], p.after[ids[i]]>>]
  OBVIOUS
<1>7. list \in [1..n -> Amounted] /\ \A i \in 1..n : list[i][1] = ids[i] /\ list[i][2] = p.after[ids[i]]
  BY <1>2, <1>5a, <1>6 DEF Amounted
<1>8. Changed(list) /\ UNCHANGED underReview
  <2>1. SetToSeq(DOMAIN p.after) = ids
    BY <1>2, <1>4
  <2> QED
    BY <1>1, <1>6, <2>1 DEF ApplyPreview
<1>9. /\ Wrote(worth, list, 1..n, worth') /\ worth' \in Worths
      /\ serviceRevision' \in Nat /\ TokensOK(undoTokens', serviceRevision', worth')
  BY ONLY AssignInv, n \in Nat, <1>7, <1>8, ChangedWrites
<1>10. AssignInv'
  BY <1>8, <1>9 DEF AssignInv
<1>11. \A i \in 1..n : Held(worth', ids[i]) = p.after[ids[i]]
  <2>1. ASSUME NEW i \in 1..n, NEW j \in 1..n, j > i PROVE list[j][1] # list[i][1]
    <3>1. i # j /\ DOMAIN ids = 1..n
      BY <1>5a, <2>1
    <3>2. ids[j] # ids[i]
      BY <1>5a, <3>1 DEF IsInjective
    <3> QED
      BY <1>7, <3>2
  <2>2. \A i \in 1..n : Held(worth', list[i][1]) = list[i][2]
    BY <1>9, <2>1 DEF Wrote
  <2> QED
    BY <1>7, <2>2
<1>12. worth \in Worths /\ \A c : Worth(c) = Held(worth, c)
  BY DEF AssignInv, Worth, Held
<1>13. ASSUME NEW c \in AssignedCategories PROVE Held(worth', c) = Held(worth, c) + d[c]
  <2>1. PICK i \in 1..n : ids[i] = c
    BY <1>5a
  <2>2. Held(worth', c) = p.after[c]
    BY <1>11, <2>1
  <2>3. Held(worth, c) = p.before[c]
    BY <1>2, <1>12
  <2> QED
    BY <1>3, <2>2, <2>3
<1>14. Gained = TotalWorth(d)
  BY <1>9, <1>12, <1>13, GainIs DEF Gained
<1> QED
  BY <1>1, <1>3, <1>10, <1>14

\* Undoing the last change restores what was there; undoing an older one touches no other category.
LEMMA UndoConserves ==
  ASSUME AssignInv, NEW i \in DOMAIN undoTokens, UndoAssignment(i)
  PROVE  /\ AssignInv'
         /\ undoTokens[i].at = serviceRevision => worth' = undoTokens[i].past
         /\ \A c \in (DOMAIN worth \cup DOMAIN worth') \ DOMAIN undoTokens[i].before :
              Restrict(worth', {c}) = Restrict(worth, {c})
<1>1. PICK tokens \in Seq(Tokens) : tokens = undoTokens
  BY DEF AssignInv, TokensOK
<1>2. PICK rev \in Nat : rev = serviceRevision
  BY DEF AssignInv
<1>3. PICK w \in Worths : w = worth
  BY DEF AssignInv
<1>4. i \in 1..Len(tokens) /\ Len(tokens) \in Nat /\ DOMAIN tokens = 1..Len(tokens)
  BY <1>1, LenProperties
<1>5. \A k \in DOMAIN tokens : tokens[k] \in Tokens
  BY <1>4, ElementOfSeq
<1>5a. \A k \in DOMAIN tokens : tokens[k].at \in Nat /\ tokens[k].at <= rev
  BY <1>1, <1>2, <1>5 DEF AssignInv, TokensOK, Tokens
<1>6. PICK token \in Tokens : token = tokens[i]
  BY <1>4, <1>5
<1>7. PICK s \in SUBSET AssignedCategories : token.before \in [s -> Int]
  BY DEF Tokens
<1>8. PICK t : t = token.before
  OBVIOUS
<1>9. t \in [s -> Int] /\ DOMAIN t = s
  BY <1>7, <1>8
<1>10. PICK written : written = {c \in s : t[c] # 0}
  OBVIOUS
<1>11. PICK v : v = [c \in (DOMAIN w \ s) \cup written |-> IF c \in written THEN t[c] ELSE w[c]]
  OBVIOUS
<1>12. worth' = v
  BY <1>1, <1>3, <1>6, <1>8, <1>9, <1>10, <1>11 DEF UndoAssignment
<1>13. DOMAIN v = (DOMAIN w \ s) \cup written /\ written \subseteq s
  BY <1>10, <1>11
<1>14. v \in Worths
  <2>1. DOMAIN v \in SUBSET AssignedCategories
    BY <1>13, WorthShape
  <2>2. \A c \in DOMAIN v : v[c] \in Int \ {0}
    BY <1>9, <1>10, <1>11, <1>13, WorthShape
  <2>3. v = [c \in DOMAIN v |-> v[c]]
    BY <1>11
  <2>4. v \in [DOMAIN v -> Int \ {0}]
    BY <2>2, <2>3
  <2> QED
    BY <2>1, <2>4 DEF Worths
<1>15. \A c \in AssignedCategories : Held(v, c) = IF c \in s THEN t[c] ELSE Held(w, c)
  BY <1>9, <1>10, <1>11, <1>13 DEF Held
<1>16. PICK new : new = RemoveAt(tokens, i)
  OBVIOUS
<1>17. /\ new \in Seq(Tokens) /\ Len(new) = Len(tokens) - 1
       /\ \A k \in 1..(Len(tokens) - 1) : new[k] = IF k < i THEN tokens[k] ELSE tokens[k + 1]
  <2>1. PICK T : T = Tokens
    OBVIOUS
  <2>2. tokens \in Seq(T) /\ i \in DOMAIN tokens
    BY <1>1, <1>4, <2>1
  <2>3. /\ new \in Seq(T) /\ Len(new) = Len(tokens) - 1
        /\ \A k \in 1..(Len(tokens) - 1) : new[k] = IF k < i THEN tokens[k] ELSE tokens[k + 1]
    BY ONLY <1>16, <2>2, RemovedAt
  <2> QED
    BY <2>1, <2>3
<1>18. \A k \in DOMAIN new : new[k].at \in Nat /\ new[k].at <= rev
  <2>1. DOMAIN new = 1..(Len(tokens) - 1)
    BY <1>17, LenProperties
  <2>2. ASSUME NEW k \in 1..(Len(tokens) - 1) PROVE \E l \in 1..Len(tokens) : new[k] = tokens[l]
    <3>1. k \in 1..Len(tokens) /\ k + 1 \in 1..Len(tokens)
      BY <1>4
    <3>2. new[k] = tokens[k] \/ new[k] = tokens[k + 1]
      BY <1>17
    <3> QED
      BY <3>1, <3>2
  <2> QED
    BY <1>4, <1>5a, <2>1, <2>2
<1>19. TokensOK(new, rev + 1, v)
  BY <1>17, <1>18 DEF TokensOK
<1>20. serviceRevision' = rev + 1 /\ undoTokens' = new /\ UNCHANGED underReview
  BY <1>1, <1>2, <1>16 DEF UndoAssignment
<1>21. AssignInv'
  BY <1>2, <1>12, <1>14, <1>19, <1>20 DEF AssignInv
<1>22. ASSUME token.at = rev PROVE v = token.past
  <2>1. Restores(token, w)
    BY <1>1, <1>2, <1>3, <1>4, <1>6, <1>22 DEF AssignInv, TokensOK
  <2>2. token.past \in Worths
    BY DEF Tokens
  <2>3. \A c \in AssignedCategories : Held(v, c) = Held(token.past, c)
    BY <1>8, <1>9, <1>15, <2>1 DEF Restores
  <2> QED
    BY <1>14, <2>2, <2>3, SameWorths
<1>23. ASSUME NEW c \in (DOMAIN w \cup DOMAIN v) \ s PROVE Restrict(v, {c}) = Restrict(w, {c})
  <2>1. c \in DOMAIN w /\ v[c] = w[c]
    BY <1>10, <1>11, <1>13, <1>23
  <2> QED
    BY <2>1 DEF Restrict
<1> QED
  BY <1>1, <1>2, <1>3, <1>6, <1>8, <1>9, <1>12, <1>21, <1>22, <1>23

\* Every step of the service keeps its invariant.
LEMMA AssignKeeps == ASSUME AssignInv, AssignmentsNext PROVE AssignInv'
<1>0. MoneyToAssign \subseteq Int
  BY AssignmentsAssumption
<1>1. ASSUME NEW c \in AssignedCategories, NEW k \in Int, SetWorth(c, k) PROVE AssignInv'
  BY <1>1, SetsOne DEF SetWorth
<1>2. ASSUME NEW c \in AssignedCategories, NEW k \in Int, AddWorth(c, k) PROVE AssignInv'
  <2>1. PICK l \in Int : l = Worth(c) + k
    BY WorthShape DEF AssignInv, Worth, Held
  <2>2. Changed(<< <<c, l>> >>) /\ UNCHANGED underReview
    BY <1>2, <2>1 DEF AddWorth
  <2> QED
    BY <2>2, SetsOne
<1>3. ASSUME NEW delta \in Int, ReviewProposal([c \in AssignedCategories |-> delta]) PROVE AssignInv'
  <2>1. PICK d : d = [c \in AssignedCategories |-> delta]
    OBVIOUS
  <2>2. d \in [AssignedCategories -> Int]
    BY <2>1
  <2>3. PICK p : p = Preview(serviceRevision, [c \in DOMAIN d |-> Worth(c)], d)
    OBVIOUS
  <2>4. underReview' = <<p>> /\ UNCHANGED <<worth, serviceRevision, undoTokens>>
    BY <1>3, <2>1, <2>3 DEF ReviewProposal
  <2>5. \A c : Worth(c) \in Int
    BY WorthShape DEF AssignInv, Worth, Held
  <2>6. /\ p.before = [c \in AssignedCategories |-> Worth(c)]
        /\ p.after = [c \in AssignedCategories |-> p.before[c] + d[c]]
        /\ p.total = TotalWorth(d)
    BY <2>2, <2>3 DEF Preview
  <2>7. p.before \in [AssignedCategories -> Int]
    BY <2>5, <2>6
  <2>8. p.after \in [AssignedCategories -> Int]
    BY <2>2, <2>6, <2>7
  <2>9. Proposed(p)
    BY <2>2, <2>6, <2>7, <2>8 DEF Proposed
  <2> QED
    BY <2>4, <2>9 DEF AssignInv
<1>4. CASE \E c \in AssignedCategories, amount \in MoneyToAssign \cup {0} : SetWorth(c, amount) \/ AddWorth(c, amount)
  BY <1>0, <1>1, <1>2, <1>4
<1>5. CASE \E from, to \in AssignedCategories, amount \in MoneyToAssign : MoveMoney(from, to, amount)
  BY <1>0, <1>5, MoveConserves
<1>6. CASE \E ids \in Orders, amount \in MoneyToAssign, inOrder \in BOOLEAN : DistributeMoney(ids, amount, inOrder)
  BY <1>0, <1>6, DistributeConserves
<1>7. CASE ApplyPreview
  BY <1>7, PreviewConserves
<1>8. CASE \E i \in DOMAIN undoTokens : UndoAssignment(i)
  BY <1>8, UndoConserves
<1>9. CASE \E delta \in MoneyToAssign : ReviewProposal([c \in AssignedCategories |-> delta])
  BY <1>0, <1>3, <1>9
<1> QED
  BY <1>4, <1>5, <1>6, <1>7, <1>8, <1>9 DEF AssignmentsNext

\* What each call does to the money assigned.
LEMMA AssignConserves == ASSUME AssignInv, AssignInv' PROVE AssignmentsConserve
<1>0. MoneyToAssign \subseteq Int
  BY AssignmentsAssumption
<1>1. \A c \in DOMAIN worth' : worth'[c] # 0
  BY WorthShape DEF AssignInv
<1>2. ASSUME NEW from \in AssignedCategories, NEW to \in AssignedCategories, NEW amount \in MoneyToAssign,
             MoveMoney(from, to, amount)
      PROVE  Gained = IF from = to THEN amount ELSE 0
  BY <1>0, <1>2, MoveConserves
<1>3. ASSUME NEW ids \in Orders, NEW amount \in MoneyToAssign, DistributeMoney(ids, amount, TRUE)
      PROVE  Gained = amount
  BY <1>0, <1>3, DistributeConserves
<1>4. ASSUME NEW ids \in Orders, NEW amount \in MoneyToAssign, DistributeMoney(ids, amount, FALSE)
      PROVE  (amount - Gained) * (IF amount < 0 THEN -1 ELSE 1) \in 0 .. Len(ids) - 1
  BY <1>0, <1>4, DistributeConserves DEF SignOf
<1>5. ApplyPreview => Gained = underReview[1].total
  BY PreviewConserves
<1>6. ASSUME NEW i \in DOMAIN undoTokens, UndoAssignment(i)
      PROVE  /\ undoTokens[i].at = serviceRevision => worth' = undoTokens[i].past
             /\ \A c \in (DOMAIN worth \cup DOMAIN worth') \ DOMAIN undoTokens[i].before :
                  Restrict(worth', {c}) = Restrict(worth, {c})
  BY <1>6, UndoConserves
<1> QED
  BY <1>1, <1>2, <1>3, <1>4, <1>5, <1>6 DEF AssignmentsConserve, Gained
-----------------------------------------------------------------------------
(* The screen *)

\* A batch was made at a revision and a number of single assignments; if neither has moved,
\* it replaces the amounts it says it does.
Fits(b, rev, count, now) ==
  /\ b.revision \in Nat /\ b.revision <= rev
  /\ b.singles \in Nat /\ b.singles <= count
  /\ DOMAIN b.after \subseteq Rows
  /\ b.revision = rev /\ b.singles = count => \A c \in DOMAIN b.after : now[c] = b.before[c]
QueueFits(queue, rev, count, now) ==
  \E S : queue \in Seq(S) /\ \A x \in S : x.kind = "batch" => Fits(x, rev, count, now)
ScreenFits(rev, count, now) ==
  /\ view.revision \in Nat /\ view.revision <= rev
  /\ view.singles \in Nat /\ view.singles <= count
  /\ view.revision = rev /\ view.singles = count => view.amounts = now
  /\ preview # <<>> => Fits(preview, rev, count, now)
  /\ QueueFits(sent, rev, count, now)

\* The projection, the preview, the batches on their way and the inverse fit the amounts.
ScreenInv ==
  /\ log \in Nat /\ revision \in 0..log /\ singles \in Nat
  /\ DOMAIN amounts = Rows /\ selected \subseteq Rows
  /\ ScreenFits(revision, singles, amounts)
  /\ inverse # <<>> => Fits(inverse, revision, singles, amounts)

\* What was made before a change promises nothing of the amounts after it.
LEMMA FitsLater ==
  ASSUME NEW rev \in Nat, NEW count \in Nat, NEW now, NEW rev2 \in Nat, NEW count2 \in Nat, NEW later,
         rev2 >= rev, count2 >= count, rev2 > rev \/ count2 > count
  PROVE  /\ \A b : Fits(b, rev, count, now) => Fits(b, rev2, count2, later)
         /\ \A queue : QueueFits(queue, rev, count, now) => QueueFits(queue, rev2, count2, later)
         /\ ScreenFits(rev, count, now) => ScreenFits(rev2, count2, later)
<1>1. ASSUME NEW b, Fits(b, rev, count, now) PROVE Fits(b, rev2, count2, later)
  BY <1>1 DEF Fits
<1>2. ASSUME NEW queue, QueueFits(queue, rev, count, now) PROVE QueueFits(queue, rev2, count2, later)
  <2>1. PICK S : queue \in Seq(S) /\ \A x \in S : x.kind = "batch" => Fits(x, rev, count, now)
    BY <1>2 DEF QueueFits
  <2>2. \A x \in S : x.kind = "batch" => Fits(x, rev2, count2, later)
    BY <1>1, <2>1
  <2> QED
    BY <2>1, <2>2 DEF QueueFits
<1>3. ASSUME ScreenFits(rev, count, now) PROVE ScreenFits(rev2, count2, later)
  <2>1. preview # <<>> => Fits(preview, rev2, count2, later)
    BY <1>1, <1>3 DEF ScreenFits
  <2>2. QueueFits(sent, rev2, count2, later)
    BY <1>2, <1>3 DEF ScreenFits
  <2> QED
    BY <1>3, <2>1, <2>2 DEF ScreenFits
<1> QED
  BY <1>1, <1>2, <1>3

\* The queue grows at one end and is served at the other.
LEMMA QueueGrows ==
  ASSUME NEW queue, NEW rev, NEW count, NEW now, QueueFits(queue, rev, count, now), NEW x,
         x.kind = "batch" => Fits(x, rev, count, now)
  PROVE  QueueFits(queue \o <<x>>, rev, count, now)
<1>1. PICK S : queue \in Seq(S) /\ \A y \in S : y.kind = "batch" => Fits(y, rev, count, now)
  BY DEF QueueFits
<1>2. PICK T : T = S \cup {x}
  OBVIOUS
<1>3. queue \in Seq(T)
  <2>1. queue \in [1..Len(queue) -> S] /\ Len(queue) \in Nat
    BY <1>1, LenProperties
  <2>2. queue \in [1..Len(queue) -> T]
    BY <1>2, <2>1
  <2> QED
    BY <2>1, <2>2, SeqDef
<1>4. <<x>> \in Seq(T)
  BY <1>2
<1>5. queue \o <<x>> \in Seq(T)
  BY <1>3, <1>4, ConcatProperties
<1>6. \A y \in T : y.kind = "batch" => Fits(y, rev, count, now)
  BY <1>1, <1>2
<1> QED
  BY <1>5, <1>6 DEF QueueFits

\* The head of the queue fits, and so does the rest.
LEMMA QueueServed ==
  ASSUME NEW queue, NEW rev, NEW count, NEW now, QueueFits(queue, rev, count, now), queue # <<>>
  PROVE  /\ QueueFits(Tail(queue), rev, count, now)
         /\ Head(queue).kind = "batch" => Fits(Head(queue), rev, count, now)
<1>1. PICK S : queue \in Seq(S) /\ \A y \in S : y.kind = "batch" => Fits(y, rev, count, now)
  BY DEF QueueFits
<1>2. Head(queue) \in S /\ Tail(queue) \in Seq(S)
  BY <1>1, HeadTailProperties
<1> QED
  BY <1>1, <1>2 DEF QueueFits

\* What moves neither the revision, the amounts, the projection, the preview nor the batches
\* on their way.
LEMMA ScreenIdle ==
  ASSUME ScreenInv, selected' \subseteq Rows,
         UNCHANGED <<amounts, log, revision, view, preview, sent, inverse, singles>>
  PROVE  ScreenInv'
BY DEF ScreenInv, ScreenFits

\* A command is sent.
LEMMA ScreenSends ==
  ASSUME ScreenInv, NEW x, x.kind = "batch" => Fits(x, revision, singles, amounts),
         NewestCommand(<<x>>),
         UNCHANGED <<amounts, log, revision, view, preview, selected, inverse, singles>>
  PROVE  ScreenInv'
<1>1. PICK queue, rev, count, now : queue = sent /\ rev = revision /\ count = singles /\ now = amounts
  OBVIOUS
<1>2. QueueFits(queue, rev, count, now)
  BY <1>1 DEF ScreenInv, ScreenFits
<1>3. QueueFits(queue \o <<x>>, rev, count, now)
  BY <1>1, <1>2, QueueGrows
<1>4. QueueFits(sent', revision, singles, amounts)
  BY <1>1, <1>3 DEF NewestCommand
<1> QED
  BY <1>4 DEF ScreenInv, ScreenFits

\* A preview is of the rows selected, in the projection it was made from.
LEMMA ScreenProposes == ASSUME ScreenInv, Propose PROVE ScreenInv'
<1>1. PICK deltas : preview' = Proposal(deltas) /\ DOMAIN deltas = selected
  BY DEF Propose
<1>2. PICK p : p = Proposal(deltas)
  OBVIOUS
<1>3. /\ p.revision = view.revision /\ p.singles = view.singles
      /\ DOMAIN p.after = selected
      /\ p.before = [c \in selected |-> view.amounts[c]]
  BY <1>1, <1>2 DEF Proposal, Preview, Restrict
<1>4. Fits(p, revision, singles, amounts)
  BY <1>3 DEF ScreenInv, ScreenFits, Fits
<1>5. UNCHANGED <<amounts, log, revision, view, selected, sent, inverse, singles>> /\ preview' = p
  BY <1>1, <1>2 DEF Propose
<1> QED
  BY <1>4, <1>5 DEF ScreenInv, ScreenFits

\* A single assignment leaves the revision alone, and is counted.
LEMMA ScreenSets == ASSUME ScreenInv, ExecuteSingle PROVE ScreenInv'
<1>1. PICK rev, count \in Nat : rev = revision /\ count = singles
  BY DEF ScreenInv
<1>2. PICK now, later : now = amounts /\ later = amounts'
  OBVIOUS
<1>3. count + 1 \in Nat /\ count + 1 > count /\ rev >= rev /\ count + 1 >= count
  OBVIOUS
<1>4. ScreenFits(rev, count, now) /\ (inverse # <<>> => Fits(inverse, rev, count, now))
  BY <1>1, <1>2 DEF ScreenInv
<1>5. /\ ScreenFits(rev, count + 1, later)
      /\ inverse # <<>> => Fits(inverse, rev, count + 1, later)
  BY <1>3, <1>4, FitsLater
<1>6. PICK queue : queue = sent
  OBVIOUS
<1>7. QueueFits(Tail(queue), rev, count + 1, later)
  <2>1. QueueFits(queue, rev, count + 1, later) /\ queue # <<>>
    BY <1>5, <1>6 DEF ScreenFits, ExecuteSingle
  <2> QED
    BY <2>1, QueueServed
<1>8. /\ log' = log + 1 /\ revision' = rev /\ singles' = count + 1 /\ sent' = Tail(queue)
      /\ amounts' = later /\ DOMAIN later = Rows
      /\ UNCHANGED <<view, selected, preview, inverse>>
  BY <1>1, <1>2, <1>6 DEF ExecuteSingle, ScreenInv
<1>9. log' \in Nat /\ revision' \in 0..log' /\ singles' \in Nat
  BY <1>1, <1>8 DEF ScreenInv
<1>10. ScreenFits(rev, count + 1, later)'
  BY <1>5, <1>7, <1>8 DEF ScreenFits
<1> QED
  BY <1>5, <1>8, <1>9, <1>10 DEF ScreenInv, ScreenFits

\* A batch moves the revision past every other batch, and its inverse is of what it left.
LEMMA ScreenExecutes == ASSUME ScreenInv, ExecuteBatch PROVE ScreenInv'
<1>1. PICK rev, count, last \in Nat : rev = revision /\ count = singles /\ last = log /\ rev <= last
  BY DEF ScreenInv
<1>2. PICK now, later : now = amounts /\ later = amounts'
  OBVIOUS
<1>3. last + 1 \in Nat /\ last + 1 > rev /\ last + 1 >= rev /\ count >= count
  BY <1>1
<1>4. ScreenFits(rev, count, now)
  BY <1>1, <1>2 DEF ScreenInv
<1>5. ScreenFits(last + 1, count, later)
  BY <1>3, <1>4, FitsLater
<1>6. PICK queue, batch : queue = sent /\ batch = Head(queue)
  OBVIOUS
<1>7. QueueFits(Tail(queue), last + 1, count, later) /\ DOMAIN batch.after \subseteq Rows
  <2>1. QueueFits(queue, last + 1, count, later) /\ queue # <<>> /\ batch.kind = "batch"
    BY <1>5, <1>6 DEF ScreenFits, ExecuteBatch
  <2>2. QueueFits(Tail(queue), last + 1, count, later) /\ Fits(batch, last + 1, count, later)
    BY <1>6, <2>1, QueueServed
  <2> QED
    BY <2>2 DEF Fits
<1>8. /\ log' = last + 1 /\ revision' = last + 1 /\ singles' = count /\ sent' = Tail(queue)
      /\ later = [c \in Rows |-> IF c \in DOMAIN batch.after THEN batch.after[c] ELSE now[c]]
      /\ inverse' = [revision |-> last + 1, singles |-> count,
                     before |-> batch.after, after |-> Restrict(now, DOMAIN batch.after)]
      /\ amounts' = later
      /\ UNCHANGED <<view, selected, preview>>
  BY <1>1, <1>2, <1>6 DEF ExecuteBatch
<1>9. Fits(inverse', last + 1, count, later)
  <2>1. DOMAIN (inverse'.after) = DOMAIN batch.after /\ inverse'.before = batch.after
        /\ inverse'.revision = last + 1 /\ inverse'.singles = count
    BY <1>8 DEF Restrict
  <2>2. \A c \in DOMAIN batch.after : later[c] = batch.after[c]
    BY <1>7, <1>8
  <2> QED
    BY <1>3, <1>7, <2>1, <2>2 DEF Fits
<1>10. ScreenFits(last + 1, count, later)'
  BY <1>5, <1>7, <1>8 DEF ScreenFits
<1>11. log' \in Nat /\ revision' \in 0..log' /\ singles' \in Nat /\ DOMAIN amounts' = Rows /\ selected' \subseteq Rows
  BY <1>8 DEF ScreenInv
<1> QED
  BY <1>8, <1>9, <1>10, <1>11 DEF ScreenInv, ScreenFits

\* Every step of the screen and the executor keeps the invariant.
LEMMA ScreenKeeps == ASSUME ScreenInv, ScreenNext PROVE ScreenInv'
<1>1. CASE \E c \in Rows : ToggleSelected(c) \/ BeginEdit(c)
  <2>1. selected \subseteq Rows
    BY DEF ScreenInv
  <2> QED
    BY <1>1, <2>1, ScreenIdle DEF ToggleSelected, BeginEdit
<1>2. CASE \E amount \in Drafts, next \in Rows : AssignmentKey(amount, next)
  <2>1. PICK amount, next : AssignmentKey(amount, next)
    BY <1>2
  <2>2. PICK x : x = Single(editing, amount)
    OBVIOUS
  <2>3. x.kind # "batch"
    BY <2>2 DEF Single
  <2>4. /\ NewestCommand(<<x>>)
        /\ UNCHANGED <<amounts, log, revision, view, preview, selected, inverse, singles>>
    BY <2>1, <2>2 DEF AssignmentKey
  <2> QED
    BY <2>3, <2>4, ScreenSends
<1>3. CASE CancelEdit
  <2>1. selected \subseteq Rows
    BY DEF ScreenInv
  <2> QED
    BY <1>3, <2>1, ScreenIdle DEF CancelEdit
<1>4. CASE Propose
  BY <1>4, ScreenProposes
<1>5. CASE ConfirmPreview
  <2>1. PICK x : x = Batch(preview)
    OBVIOUS
  <2>2. Fits(x, revision, singles, amounts)
    BY <1>5, <2>1 DEF ScreenInv, ScreenFits, ConfirmPreview, Batch, Fits
  <2>3. /\ NewestCommand(<<x>>)
        /\ UNCHANGED <<amounts, log, revision, view, preview, selected, inverse, singles>>
    BY <1>5, <2>1 DEF ConfirmPreview
  <2> QED
    BY <2>2, <2>3, ScreenSends
<1>6. CASE UndoBatch
  <2>1. PICK x : x = Batch(inverse)
    OBVIOUS
  <2>2. Fits(x, revision, singles, amounts)
    BY <1>6, <2>1 DEF ScreenInv, UndoBatch, Batch, Fits
  <2>3. /\ NewestCommand(<<x>>)
        /\ UNCHANGED <<amounts, log, revision, view, preview, selected, inverse, singles>>
    BY <1>6, <2>1 DEF UndoBatch
  <2> QED
    BY <2>2, <2>3, ScreenSends
<1>7. CASE AcceptProjection
  BY <1>7 DEF AcceptProjection, ScreenInv, ScreenFits
<1>8. CASE ExecuteSingle
  BY <1>8, ScreenSets
<1>9. CASE ExecuteBatch
  BY <1>9, ScreenExecutes
<1>10. CASE RefuseBatch
  <2>1. PICK queue, rev, count, now : queue = sent /\ rev = revision /\ count = singles /\ now = amounts
    OBVIOUS
  <2>2. QueueFits(queue, rev, count, now) /\ queue # <<>>
    BY <1>10, <2>1 DEF ScreenInv, ScreenFits, RefuseBatch
  <2>3. QueueFits(Tail(queue), rev, count, now)
    BY <2>2, QueueServed
  <2>4. QueueFits(sent', revision, singles, amounts)
    BY <1>10, <2>1, <2>3 DEF RefuseBatch
  <2> QED
    BY <1>10, <2>4 DEF ScreenInv, ScreenFits, RefuseBatch
<1> QED
  BY <1>1, <1>2, <1>3, <1>4, <1>5, <1>6, <1>7, <1>8, <1>9, <1>10 DEF ScreenNext

\* A batch that commits replaces what was reviewed.
ReplacesWhatItSays ==
  ExecuteBatch /\ Head(sent).singles = singles =>
    \A c \in DOMAIN Head(sent).after : amounts[c] = Head(sent).before[c]
\* The batch at the head fits, so it replaces the amounts it says it does.
LEMMA BatchFits == ASSUME ScreenInv PROVE ReplacesWhatItSays
<1>1. SUFFICES ASSUME ExecuteBatch, Head(sent).singles = singles
               PROVE  \A c \in DOMAIN Head(sent).after : amounts[c] = Head(sent).before[c]
  BY DEF ReplacesWhatItSays
<1>2. PICK queue, batch, rev, count, now :
        /\ queue = sent /\ batch = Head(queue)
        /\ rev = revision /\ count = singles /\ now = amounts
  OBVIOUS
<1>3. QueueFits(queue, rev, count, now) /\ queue # <<>> /\ batch.kind = "batch" /\ batch.revision = rev
  BY <1>1, <1>2 DEF ScreenInv, ScreenFits, ExecuteBatch
<1>4. Fits(batch, rev, count, now)
  BY <1>2, <1>3, QueueServed
<1> QED
  BY <1>1, <1>2, <1>3, <1>4 DEF Fits

\* Nothing is selected, sent or assigned at the beginning.
LEMMA BudgetingStart == ASSUME ScreenInit, AssignmentsInit PROVE ScreenInv /\ AssignInv
<1>1. <<>> \in Seq({}) /\ DOMAIN <<>> = {}
  OBVIOUS
<1>2. QueueFits(<<>>, 0, 0, amounts)
  BY <1>1 DEF QueueFits
<1>3. ScreenInv
  BY <1>2 DEF ScreenInit, ScreenInv, ScreenFits
<1>4. worth \in Worths
  <2>1. <<>> \in [{} -> Int \ {0}]
    OBVIOUS
  <2> QED
    BY <2>1 DEF AssignmentsInit, Worths
<1>5. TokensOK(<<>>, 0, worth)
  <2>1. <<>> \in Seq(Tokens) /\ DOMAIN <<>> = {}
    OBVIOUS
  <2> QED
    BY <2>1 DEF TokensOK
<1>6. AssignInv
  BY <1>4, <1>5 DEF AssignmentsInit, AssignInv
<1> QED
  BY <1>3, <1>6

\* For any number of categories, batches, single assignments, undos and amounts: a batch that
\* commits replaces the amounts that were reviewed, and what the service assigns, moves, hands
\* out and takes back adds up.
THEOREM ReviewedIsDone == BudgetingSpec => BatchesDoWhatWasReviewed
<1> DEFINE Inv == ScreenInv /\ AssignInv
<1>1. ScreenInit /\ AssignmentsInit => Inv
  BY BudgetingStart
<1>2. ASSUME Inv, [(ScreenNext /\ UNCHANGED assignments) \/ (AssignmentsNext /\ UNCHANGED screen)]_<<screen, assignments>>
      PROVE  /\ Inv'
             /\ ReplacesWhatItSays
             /\ serviceRevision' # serviceRevision => AssignmentsConserve
  <2>1. ReplacesWhatItSays
    BY <1>2, BatchFits
  <2>2. CASE ScreenNext /\ UNCHANGED assignments
    <3>1. ScreenInv'
      BY <1>2, <2>2, ScreenKeeps
    <3>2. AssignInv' /\ serviceRevision' = serviceRevision
      BY <1>2, <2>2 DEF assignments, AssignInv
    <3> QED
      BY <2>1, <3>1, <3>2
  <2>3. CASE AssignmentsNext /\ UNCHANGED screen
    <3>1. ScreenInv'
      BY <1>2, <2>3 DEF screen, ScreenInv, ScreenFits
    <3>2. AssignInv'
      BY <1>2, <2>3, AssignKeeps
    <3>3. AssignmentsConserve
      BY <1>2, <3>2, AssignConserves
    <3> QED
      BY <2>1, <3>1, <3>2, <3>3
  <2>4. CASE UNCHANGED <<screen, assignments>>
    <3>1. ScreenInv'
      BY <1>2, <2>4 DEF screen, ScreenInv, ScreenFits
    <3>2. AssignInv' /\ serviceRevision' = serviceRevision
      BY <1>2, <2>4 DEF assignments, AssignInv
    <3> QED
      BY <2>1, <3>1, <3>2
  <2> QED
    BY <1>2, <2>2, <2>3, <2>4
<1> QED
  BY <1>1, <1>2, PTL DEF BudgetingSpec, BatchesDoWhatWasReviewed, ReplacesWhatItSays
================================================================================
