---------------------------- MODULE RegisterQuery ----------------------------
(***************************************************************************)
(* The query of a register, from the text a user types to the rows it      *)
(* selects: the search language (parse, canonical_text, compile), the SQL  *)
(* of QueryStore::register_page, and the selection a batch command makes   *)
(* of the same query (selected_transactions).  Text is a sequence of       *)
(* tokens: a blank, a quote, a backslash, a field name with its colon, and *)
(* words; case is left out.                                                *)
(***************************************************************************)
EXTENDS Inbox, Functions, TLC

CONSTANTS
  Keys,           \* tokens a user types
  SearchFields,   \* field token, aliases included -> [name, kind]; name is the canonical token
  Numbers,        \* amount token -> cents
  Chips,          \* the terms of the quick filters
  Pool,           \* rows a ledger may hold: id -> row
  RegisterFilters,\* structured filters: [from, through, categories, payees, cleared, approval, least, most]
  QueryBudget, QueryAccount,
  BatchLimit,
  NoValue,        \* an Option that is None
  MaxTyped, MaxTerms   \* bounds: tokens in the search box, terms of a filter with chips

VARIABLES
  typed,          \* the search box
  filter,         \* the SearchAst in use: a sequence of terms
  stored          \* identifiers of the rows in the ledger

registerQuery == <<typed, filter, stored>>

Blank == " "
Quote == "quote"
Backslash == "escape"
TrueWord == "true"
-----------------------------------------------------------------------------
(* parse *)

\* One pass over the tokens: the words it splits the text into, the blanks and escapes
\* inside quotes among their characters.
Scan(text) ==
  LET start == [words |-> <<>>, word |-> <<>>, inside |-> FALSE, quoted |-> FALSE,
                escaping |-> FALSE, bad |-> FALSE]
      Close(s) == IF s.inside THEN [s EXCEPT !.words = Append(@, s.word), !.word = <<>>,
                                            !.inside = FALSE]
                  ELSE s
      Push(s, c) == [s EXCEPT !.word = Append(@, c), !.inside = TRUE]
      Step(s, c) ==
        IF s.escaping THEN IF c \in {Quote, Backslash} THEN [Push(s, c) EXCEPT !.escaping = FALSE]
                           ELSE [s EXCEPT !.bad = TRUE]
        ELSE IF c = Quote THEN [s EXCEPT !.quoted = ~@, !.inside = TRUE]
        ELSE IF c = Backslash /\ s.quoted THEN [s EXCEPT !.escaping = TRUE]
        ELSE IF c = Blank /\ ~s.quoted THEN Close(s)
        ELSE Push(s, c)
      Finish(s) == [words |-> Close(s).words, bad |-> s.bad \/ s.escaping \/ s.quoted]
  IN  Finish(FoldLeft(Step, start, text))

Error == [kind |-> "error"]
Comparisons == {"<", "<=", "=", ">=", ">"}

\* amount(): the longest comparison that is a prefix, or none.
AmountTerm(v) ==
  LET two == Len(v) > 1 /\ v[1] \in {"<", ">"} /\ v[2] = "="
      comparison == IF two THEN v[1] \o "=" ELSE IF v[1] \in Comparisons THEN v[1] ELSE "="
      number == IF two THEN SubSeq(v, 3, Len(v)) ELSE IF v[1] \in Comparisons THEN Tail(v) ELSE v
  IN  IF Len(number) = 1 /\ number[1] \in DOMAIN Numbers
      THEN [kind |-> "amount", name |-> "amount", comparison |-> comparison, value |-> Numbers[number[1]]]
      ELSE Error

\* term(): the field ends at the first colon, quoted or not.
Term(word) ==
  LET colons == {i \in DOMAIN word : word[i] \in DOMAIN SearchFields}
      value == Tail(word)
      field == SearchFields[word[1]]
  IN  IF colons = {} THEN [kind |-> "text", name |-> "text", value |-> word]
      ELSE IF 1 \notin colons \/ value = <<>> THEN Error
      ELSE CASE field.kind = "text" -> [kind |-> "field", name |-> field.name, value |-> value]
             [] field.kind = "amount" -> AmountTerm(value)
             [] field.kind = "flag" ->
                  IF value \in {<<TrueWord>>, <<"1">>}
                  THEN [kind |-> "flag", name |-> field.name, value |-> TRUE]
                  ELSE IF value = <<"false">> THEN [kind |-> "flag", name |-> field.name, value |-> FALSE]
                  ELSE Error

Parse(text) ==
  LET Ast(bad, terms) == IF bad \/ \E i \in DOMAIN terms : terms[i] = Error
                         THEN [ok |-> FALSE, terms |-> <<>>] ELSE [ok |-> TRUE, terms |-> terms]
      Terms(scanned) == Ast(scanned.bad, [i \in DOMAIN scanned.words |-> Term(scanned.words[i])])
  IN  Terms(Scan(text))
-----------------------------------------------------------------------------
(* canonical_text *)

QuotedMutant(value) ==
  IF \E i \in DOMAIN value : value[i] \in {Blank, Quote, Backslash}
  THEN <<Quote>> \o value \o <<Quote>>
  ELSE value
Quoted(value) ==
  IF \E i \in DOMAIN value : value[i] \in {Blank, Quote, Backslash}
  THEN <<Quote>> \o FlattenSeq([i \in DOMAIN value |->
         IF value[i] \in {Quote, Backslash} THEN <<Backslash, value[i]>> ELSE <<value[i]>>]) \o <<Quote>>
  ELSE value

NumberToken(cents) == CHOOSE n \in DOMAIN Numbers : Numbers[n] = cents
ComparisonTokens(c) == IF c = "<=" THEN <<"<", "=">> ELSE IF c = ">=" THEN <<">", "=">> ELSE <<c>>
FieldToken(name) == CHOOSE f \in DOMAIN SearchFields : SearchFields[f].name = name /\ SearchFields[f].canonical

TermText(term) ==
  CASE term.kind = "text" -> Quoted(term.value)
    [] term.kind = "field" -> <<FieldToken(term.name)>> \o Quoted(term.value)
    [] term.kind = "amount" ->
         <<FieldToken("amount")>> \o ComparisonTokens(term.comparison) \o <<NumberToken(term.value)>>
    [] term.kind = "flag" -> <<FieldToken(term.name), IF term.value THEN TrueWord ELSE "false">>

CanonicalText(terms) ==
  FoldLeft(LAMBDA text, term : IF text = <<>> THEN TermText(term)
                               ELSE text \o <<Blank>> \o TermText(term), <<>>, terms)
-----------------------------------------------------------------------------
(* SQL *)

Compare(left, comparison, right) ==
  CASE comparison = "<" -> left < right
    [] comparison = "<=" -> left <= right
    [] comparison = "=" -> left = right
    [] comparison = ">=" -> left >= right
    [] comparison = ">" -> left > right

FlagHolds(name, row) ==
  CASE name = "transfer" -> row.transfer
    [] name = "cleared" -> row.clearance # "uncleared"
    [] name = "reconciled" -> row.clearance = "reconciled"
    [] name = "approved" -> row.approved
    [] name = "uncategorized" -> row.category = NoValue
    [] name = "imported" -> row.imported

\* compile, transaction_filter_sql: the clause of a term that is not about text.
ClauseHolds(term, row) ==
  IF term.kind = "amount" THEN Compare(row.amount, term.comparison, term.value)
  ELSE FlagHolds(term.name, row) = term.value

\* A clause about text is LIKE with an ESCAPE of two characters, which fails on any row.
FailsOn(terms, rows) == rows # {} /\ \E i \in DOMAIN terms : terms[i].kind \in {"text", "field"}
-----------------------------------------------------------------------------
(* QueryStore::register_page: its WHERE, before the cursor and the limit. *)

Optional(bound, holds) == bound = NoValue \/ holds
AmongIds(value, ids) == ids = {} \/ value \in ids

RegisterWhere(f, row) ==
  /\ ~row.archived /\ ~row.voided /\ row.budget = QueryBudget
  /\ row.account = QueryAccount
  /\ Optional(f.from, row.date >= f.from) /\ Optional(f.through, row.date <= f.through)
  /\ Optional(f.cleared, row.clearance = f.cleared)
  /\ Optional(f.approval, row.approved = f.approval)
  /\ Optional(f.least, row.amount >= f.least) /\ Optional(f.most, row.amount <= f.most)
  /\ AmongIds(row.category, f.categories) /\ AmongIds(row.payee, f.payees)

\* A search that is blank is no search.
RegisterPageRows(f, search) ==
  LET wanted == {id \in stored : RegisterWhere(f, Pool[id])}
      Found(ast) ==
        IF ~ast.ok \/ FailsOn(ast.terms, wanted) THEN [ok |-> FALSE, rows |-> {}]
        ELSE [ok |-> TRUE,
              rows |-> {id \in wanted : \A i \in DOMAIN ast.terms : ClauseHolds(ast.terms[i], Pool[id])}]
  IN  IF \A i \in DOMAIN search : search[i] = Blank THEN [ok |-> TRUE, rows |-> wanted]
      ELSE Found(Parse(search))
-----------------------------------------------------------------------------
(* The rows of a batch over AllMatching. *)

\* sqlite_transaction_matches: neither the categories nor the budget, archived and voided
\* rows too; the search is not parsed, the memo must contain its text.
Within(text, memo) == \E i \in 0..(Len(memo) - Len(text)) : SubSeq(memo, i + 1, i + Len(text)) = text
BatchMatches(f, search, row) ==
  /\ row.account = QueryAccount
  /\ Optional(f.from, row.date >= f.from) /\ Optional(f.through, row.date <= f.through)
  /\ Optional(f.least, row.amount >= f.least) /\ Optional(f.most, row.amount <= f.most)
  /\ AmongIds(row.payee, f.payees)
  /\ Optional(f.cleared, row.clearance = f.cleared)
  /\ Optional(f.approval, row.approved = f.approval)
  /\ search = <<>> \/ Within(search, row.memo)

\* transaction_matches of the in-memory repositories: a split matches by any of its lines.
MemoryMatches(f, search, row) ==
  /\ BatchMatches(f, search, row)
  /\ f.categories = {} \/ row.category \in f.categories
     \/ row.splits \intersect f.categories # {}

\* ORDER BY transaction_date, id LIMIT: of the whole table, before anything is matched.
Earlier(x, y) == Pool[x].date < Pool[y].date \/ (Pool[x].date = Pool[y].date /\ x < y)
Oldest(ids) == {id \in ids : Cardinality({x \in ids : Earlier(x, id)}) <= BatchLimit}
SelectedTransactions(f, search, exclusions) ==
  LET matched == {id \in Oldest(stored) \ exclusions : BatchMatches(f, search, Pool[id])}
  IN  [ok |-> Cardinality(matched) <= BatchLimit, rows |-> matched]
MemorySelected(f, search, exclusions) ==
  LET matched == {id \in stored \ exclusions : MemoryMatches(f, search, Pool[id])}
  IN  [ok |-> Cardinality(matched) <= BatchLimit, rows |-> matched]
-----------------------------------------------------------------------------
QueryInit(rows) == typed = <<>> /\ filter = <<>> /\ stored = rows

Type(key) ==
  /\ Len(typed) < MaxTyped /\ filter = <<>>
  /\ typed' = Append(typed, key) /\ UNCHANGED <<filter, stored>>
Submit ==
  /\ Parse(typed).ok /\ filter = <<>>
  /\ filter' = Parse(typed).terms
  /\ UNCHANGED <<typed, stored>>

\* QuickFilter::toggle: a chip removes its term wherever it came from.
ToggleChip(chip) ==
  /\ filter' = IF \E i \in DOMAIN filter : filter[i] = chip
               THEN RemoveAt(filter, SelectInSeq(filter, LAMBDA t : t = chip)) ELSE Append(filter, chip)
  /\ Len(filter') <= MaxTerms
  /\ UNCHANGED <<typed, stored>>

Store(id) == stored' = stored \cup {id} /\ stored' # stored /\ UNCHANGED <<typed, filter>>

SearchNext == \/ \E key \in Keys : Type(key)
              \/ Submit \/ \E chip \in Chips : ToggleChip(chip)
StoreNext == \E id \in DOMAIN Pool : Store(id)
-----------------------------------------------------------------------------
Meant(terms) == SelectSeq(terms, LAMBDA t : t.kind # "text" \/ t.value # <<>>)
NoFilter == [from |-> NoValue, through |-> NoValue, categories |-> {}, payees |-> {},
             cleared |-> NoValue, approval |-> NoValue, least |-> NoValue, most |-> NoValue]

\* What stands in the inbox of a ledger.
InboxItems ==
  LET live == {id \in stored : RegisterWhere(NoFilter, Pool[id])}
  IN  QueryAll(UNION {TransactionAttention(id, Pool[id]) \cup StaleUncleared(id, Pool[id]) : id \in live})

\* The register an item opens, and the count beside each of its reasons.
Page(item) == RegisterPageRows(NoFilter, CanonicalText(Destination(item)))
InboxAgrees(items) ==
  \A i \in DOMAIN items :
    LET item == items[i]
        onward == AdvanceAfterResolution(items, item.id)
    IN  /\ Page(item).ok /\ item.id \in Page(item).rows
        /\ ReviewWindow(items, item.id, 1)[1] = item
        /\ item.id \notin onward /\ (onward = {}) = (InboxCounts(items).total = 1)
        /\ \A reason \in item.reasons :
             InboxCounts(items).of[reason] <= Cardinality(Page([item EXCEPT !.reasons = {reason}]).rows)

\* The rows of a batch against the rows a register shows; a search narrows the batch, and in
\* another way than the register.
BatchAgrees(f, search, exclusions) ==
  LET shown == RegisterPageRows(f, <<>>).rows \ exclusions
      batch == SelectedTransactions(f, search, exclusions)
      plain == {id \in batch.rows : /\ ~Pool[id].archived /\ ~Pool[id].voided
                                    /\ Pool[id].budget = QueryBudget}
  IN  batch.ok => /\ search = <<>> => shown \subseteq batch.rows
                  /\ MemorySelected(f, search, exclusions).rows \subseteq batch.rows
                  /\ f.categories = {} => plain \subseteq shown

\* However the filter is typed or toggled and whatever is stored, a query means the same
\* wherever it is read.  The text a filter travels in parses to the filter again, but for
\* empty words (the comment of canonical_text has no exception), so that the register shows
\* the rows its terms ask for.  In a ledger that stores rows, within the limit, a batch
\* over a query without search text changes every row the query shows, and nothing but
\* those, unless the query names a category, but for rows archived, voided or of another
\* budget.  Exempt is the search text of a query: the register parses it, the batch looks
\* for it in the memo (sqlite_repositories.rs:257), so that a batch over a register with a
\* search or a chip may leave rows it shows and change rows it does not; only the rows of
\* the same register without its search bound it.  The register an inbox item opens shows
\* that item's row, the review goes on to another while there is one, and the count beside
\* a reason is no more than the rows its register shows.
QueriesAgree ==
  /\ typed = <<>> => InboxAgrees(InboxItems)
  /\ Parse(CanonicalText(filter)) = [ok |-> TRUE, terms |-> Meant(filter)]
  /\ (\A i \in DOMAIN filter : filter[i].kind \notin {"text", "field"}) =>
       RegisterPageRows(NoFilter, CanonicalText(filter)) =
         [ok |-> TRUE, rows |-> {id \in stored : /\ RegisterWhere(NoFilter, Pool[id])
                                                 /\ \A i \in DOMAIN filter : ClauseHolds(filter[i], Pool[id])}]
  /\ typed = <<>> /\ Cardinality(stored) \in 1 .. BatchLimit + 1 =>
       \A f \in RegisterFilters, exclusions \in {{}, stored} \cup {{id} : id \in stored} :
         BatchAgrees(f, CanonicalText(filter), exclusions)
=============================================================================
