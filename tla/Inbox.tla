-------------------------------- MODULE Inbox --------------------------------
(***************************************************************************)
(* The inbox as it is derived from the ledger: what needs attention, one   *)
(* item per thing however many reasons there are, the counts beside it,    *)
(* and the register an item opens.  An item is an identity and its         *)
(* reasons; titles, actions and related entities are left out.  Nothing in *)
(* the repository implements InboxSource: the reasons of a transaction are *)
(* read off their names.                                                   *)
(***************************************************************************)
EXTENDS Integers, Sequences, SequencesExt, FiniteSets

CONSTANTS
  UnclearedAge,    \* policy: days after which an uncleared row is stale
  InboxDay,        \* today
  Unassigned       \* the category of a row that has none

Reason(id, reason) == [id |-> id, reason |-> reason]

\* InboxSource::transaction_attention, InboxSource::stale_uncleared
TransactionAttention(id, row) ==
  (IF row.approved THEN {} ELSE {Reason(id, "unapproved")}) \cup
  (IF row.category = Unassigned /\ row.splits = {} THEN {Reason(id, "uncategorized")} ELSE {})
IsStale(date) == date <= InboxDay - UnclearedAge
StaleUncleared(id, row) ==
  IF row.clearance = "uncleared" /\ IsStale(row.date) THEN {Reason(id, "stale")} ELSE {}

\* query_all and merge_items: in the order of the identities, the reasons of one together.
QueryAll(reasons) ==
  LET ids == SetToSortSeq({r.id : r \in reasons}, <)
  IN  [i \in DOMAIN ids |-> [id |-> ids[i], reasons |-> {r.reason : r \in {q \in reasons : q.id = ids[i]}}]]

\* counts
InboxCounts(items) ==
  [total |-> Len(items),
   of |-> [reason \in UNION {items[i].reasons : i \in DOMAIN items} |->
             Cardinality({i \in DOMAIN items : reason \in items[i].reasons})]]

\* review_window, and the item that is current after another was resolved
ReviewWindow(items, current, lookAhead) ==
  LET at == SelectInSeq(items, LAMBDA item : item.id = current)
      start == IF at = 0 THEN 1 ELSE at
  IN  SubSeq(items, start, IF start + lookAhead < Len(items) THEN start + lookAhead ELSE Len(items))
AdvanceAfterResolution(items, resolved) ==
  LET others == SelectSeq(items, LAMBDA item : item.id # resolved)
  IN  IF others = <<>> THEN {} ELSE {others[1].id}

\* transaction_destination: one term per reason, all of which a row must meet.
Destination(item) ==
  LET term(reason, name, value) ==
        IF reason \in item.reasons THEN <<[kind |-> "flag", name |-> name, value |-> value]>> ELSE <<>>
  IN  term("unapproved", "approved", FALSE) \o term("uncategorized", "uncategorized", TRUE)
      \o term("stale", "cleared", FALSE)
=============================================================================
