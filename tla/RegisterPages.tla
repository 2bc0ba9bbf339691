---------------------------- MODULE RegisterPages ----------------------------
(***************************************************************************)
(* One register: the pages QueryStore::register_page reads under a keyset  *)
(* cursor, the RegisterQueryState that joins them, and the rows selected   *)
(* on the screen.  The ledger changes between any two reads.  Rows are     *)
(* numbered in the order of their creation.  Nothing in the application    *)
(* calls select_all, so a selection is a set of rows (Explicit).           *)
(***************************************************************************)
EXTENDS Integers, Sequences, FiniteSets, SequencesExt, Functions, Maps

CONSTANTS
  RegisterDates,   \* transaction dates, a set of integers
  PageSize,
  MaxRegisterRows, \* bound: rows ever created
  MaxReads         \* bound: pages asked for

VARIABLES
  table,           \* the rows the query matches: id -> date
  issuedRows,      \* rows created so far
  page,            \* last_successful: [loaded, rows, next, more], and the tables it was read from
  query,           \* latest_request_id, next_page_active and the cursor of active_request
  reading,         \* requests the worker has not answered, and answers not handled, in order
  reads,           \* request ids handed out
  selection,       \* TransactionSelection::Explicit: [ids, anchor, cursor]
  saved            \* the row that was saved last and is in no page read since; 0 if none

\* page_size is clamped; a date is a day.
ASSUME RegisterAssumption == PageSize \in Nat \ {0} /\ RegisterDates \subseteq Int

register == <<table, issuedRows, page, query, reading, reads, selection, saved>>

NoSelection == [ids |-> {}, anchor |-> 0, cursor |-> 0]
FirstPage == <<>>

RegisterInit ==
  /\ table = <<>> /\ issuedRows = 0 /\ reading = <<>> /\ reads = 0
  /\ page = [loaded |-> FALSE, rows |-> <<>>, next |-> FirstPage, more |-> FALSE, tables |-> {}]
  /\ query = [latest |-> 0, cursor |-> FirstPage, nextPage |-> FALSE]
  /\ selection = NoSelection /\ saved = 0
-----------------------------------------------------------------------------
(* register_page: newest first, by date and then by creation; a cursor is the *)
(* key its row had when it was read.                                          *)

Key(rows, r) == <<rows[r], r>>
Newer(k, l) == k[1] > l[1] \/ (k[1] = l[1] /\ k[2] > l[2])
InRegisterOrder(rows, ids) ==
  CHOOSE list \in Bijection(1..Cardinality(ids), ids) :
    \A i, j \in DOMAIN list : i < j => Newer(Key(rows, list[i]), Key(rows, list[j]))

PastMutant(rows, r, cursor) == cursor # FirstPage => rows[r] < cursor[1]
Past(rows, r, cursor) == cursor # FirstPage => Newer(cursor, Key(rows, r))

PageAt(rows, cursor) ==
  LET rest == InRegisterOrder(rows, {r \in DOMAIN rows : Past(rows, r, cursor)})
      more == Len(rest) > PageSize
      taken == SubSeq(rest, 1, IF more THEN PageSize ELSE Len(rest))
  IN  [rows |-> taken, more |-> more,
       next |-> IF more THEN Key(rows, Last(taken)) ELSE FirstPage]
-----------------------------------------------------------------------------
(* RegisterQueryState *)

Ask(cursor, nextPage) ==
  /\ reads < MaxReads /\ reads' = reads + 1
  /\ query' = [latest |-> reads', cursor |-> cursor, nextPage |-> nextPage]
  /\ reading' = Append(reading, [id |-> reads', cursor |-> cursor, answer |-> FirstPage])
  /\ UNCHANGED <<table, issuedRows, page, selection, saved>>

\* request_active_register
RefreshRegister == Ask(FirstPage, FALSE)

AskNextPage == page.loaded /\ page.more /\ Ask(page.next, TRUE)

\* The worker reads for the oldest request it has not answered.
Unanswered(i) == /\ reading[i].answer = FirstPage
                 /\ \A k \in 1..(i - 1) : reading[k].answer # FirstPage
ReadPage ==
  /\ \E i \in DOMAIN reading :
       /\ Unanswered(i)
       /\ reading' = [reading EXCEPT ![i].answer = <<PageAt(table, reading[i].cursor), table>>]
  /\ UNCHANGED <<table, issuedRows, page, query, reads, selection, saved>>

\* retain_valid_ids
RetainValidMutant(s, valid) ==
  [s EXCEPT !.ids = @ \cap valid, !.cursor = IF @ \in valid THEN @ ELSE 0]
RetainValid(s, valid) ==
  [ids |-> s.ids \cap valid, anchor |-> IF s.anchor \in valid THEN s.anchor ELSE 0,
   cursor |-> IF s.cursor \in valid THEN s.cursor ELSE 0]

\* accept: the latest request; a next page must continue the page that is shown and
\* repeat no row of it.
AcceptPage ==
  LET answer == reading[1].answer[1]
      readFrom == reading[1].answer[2]
      joined == [page EXCEPT !.rows = @ \o answer.rows, !.next = answer.next,
                             !.more = answer.more, !.tables = @ \cup {readFrom}]
      replaced == [loaded |-> TRUE, rows |-> answer.rows, next |-> answer.next,
                   more |-> answer.more, tables |-> {readFrom}]
  IN  /\ reading # <<>> /\ reading[1].answer # FirstPage
      /\ reading' = Tail(reading)
      /\ IF /\ reading[1].id = query.latest
            /\ query.nextPage =>
                 /\ page.next = reading[1].cursor
                 /\ Range(answer.rows) \cap Range(page.rows) = {}
         THEN /\ page' = IF query.nextPage THEN joined ELSE replaced
              /\ query' = [query EXCEPT !.nextPage = FALSE]
              /\ selection' = RetainValid(selection, Range(page'.rows))
              /\ saved' = 0
         ELSE UNCHANGED <<page, query, selection, saved>>
      /\ UNCHANGED <<table, issuedRows, reads>>
-----------------------------------------------------------------------------
(* The selection *)

SelectOnly(id) == [ids |-> {id}, anchor |-> id, cursor |-> id]

Toggle(id) ==
  [ids |-> IF id \in selection.ids THEN selection.ids \ {id} ELSE selection.ids \cup {id},
   anchor |-> IF selection.anchor = 0 THEN id ELSE selection.anchor, cursor |-> id]

Position(id) == SelectInSeq(page.rows, LAMBDA r : r = id)
SelectRange(target) ==
  LET anchor == IF selection.anchor = 0 THEN target ELSE selection.anchor
      span == {Position(anchor), Position(target)}
  IN  IF 0 \in span THEN SelectOnly(target)
      ELSE [selection EXCEPT !.ids = {page.rows[k] : k \in Min(span)..Max(span)},
                             !.cursor = target]

Select(s) == selection' = s /\ UNCHANGED <<table, issuedRows, page, query, reading, reads, saved>>

\* Click, and the commands of a row's menu, which select the row first
ClickRow(id) == \/ Select(SelectOnly(id)) \/ Select(Toggle(id)) \/ Select(SelectRange(id))

\* At the last row a step down selects nothing: it would take another page.
MoveCursor(delta, extend) ==
  LET current == IF Position(selection.cursor) = 0 THEN 1 ELSE Position(selection.cursor)
      id == page.rows[Max({current + delta, 1})]
  IN  /\ page.rows # <<>>
      /\ delta > 0 => current < Len(page.rows)
      /\ Select(IF extend THEN SelectRange(id) ELSE SelectOnly(id))

ToggleCurrent == selection.cursor # 0 /\ Select(Toggle(selection.cursor))
-----------------------------------------------------------------------------
(* The ledger under the register. *)

\* handle_editor_success selects the row that was saved.
CreateRow(date) ==
  /\ issuedRows < MaxRegisterRows /\ issuedRows' = issuedRows + 1
  /\ table' = Put(table, issuedRows', date)
  /\ selection' = SelectOnly(issuedRows') /\ saved' = issuedRows'
  /\ UNCHANGED <<page, query, reading, reads>>

RedateRow(id, date) ==
  /\ table[id] # date /\ table' = [table EXCEPT ![id] = date]
  /\ selection' = SelectOnly(id) /\ saved' = id
  /\ UNCHANGED <<issuedRows, page, query, reading, reads>>

RemoveRow(id) ==
  /\ table' = Restrict(table, DOMAIN table \ {id})
  /\ UNCHANGED <<issuedRows, page, query, reading, reads, selection, saved>>

RegisterNext ==
  \/ RefreshRegister \/ AskNextPage \/ ReadPage \/ AcceptPage \/ ToggleCurrent
  \/ \E k \in DOMAIN page.rows : ClickRow(page.rows[k])
  \/ \E delta \in {-1, 1}, extend \in BOOLEAN : MoveCursor(delta, extend)
  \/ \E date \in RegisterDates :
       CreateRow(date) \/ \E id \in DOMAIN table : RedateRow(id, date)
  \/ \E id \in DOMAIN table : RemoveRow(id)

RegisterSpec == RegisterInit /\ [][RegisterNext]_register
-----------------------------------------------------------------------------
\* The pages of a scroll fit together.  No row is on the screen twice, whatever was
\* created, redated or deleted between two pages; and pages read from one and the same
\* ledger are its first rows in the register's order, none skipped, all of them once the
\* register says there are no more.
PagesFitTogether ==
  /\ \A i, j \in DOMAIN page.rows : page.rows[i] = page.rows[j] => i = j
  /\ \A t \in page.tables : page.tables = {t} =>
       /\ page.rows = SubSeq(InRegisterOrder(t, DOMAIN t), 1, Len(page.rows))
       /\ ~page.more => Len(page.rows) = Cardinality(DOMAIN t)

\* What a key press acts on is on the screen: every selected row, the cursor and the
\* anchor of the next range are rows of the page shown, or the row just saved, however
\* pages and edits interleave.
SelectionIsShown ==
  (selection.ids \cup {selection.anchor, selection.cursor}) \ {0}
    \subseteq Range(page.rows) \cup {saved} \cup {0}
=============================================================================
