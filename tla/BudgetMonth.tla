----------------------------- MODULE BudgetMonth -----------------------------
(***************************************************************************)
(* The budget projection: what QueryStore::budget_month reads from the     *)
(* ledger, month by month from the first one with an entry, and what       *)
(* calculate_chronological makes of it, with the credit card engine.       *)
(* Names, targets, hidden and archived flags, tracking accounts and splits *)
(* (several lines of one transaction) are left out; transactions are       *)
(* categorized to ordinary categories only, not to payment categories.     *)
(***************************************************************************)
EXTENDS Integers, Sequences, FiniteSetsExt, SequencesExt

CONSTANTS
  Months,         \* 1..n: the months the ledger covers
  Envelopes,      \* ordinary categories
  CardOrder,      \* credit card accounts in the order of their ids; a card also names
                  \* its payment category
  CashAccount,
  Uncategorized,
  EntryAmounts,   \* amounts of transactions and assignments
  MaxEntries      \* bound: entries of the ledger

Cards == ToSet(CardOrder)

VARIABLES
  lines,          \* transactions in the order of created_at
  assigned        \* budget_assignments: month -> category -> amount

budget == <<lines, assigned>>

BudgetInit ==
  /\ lines = <<>>
  /\ assigned = [month \in Months |-> [category \in Envelopes \cup Cards |-> 0]]

Line(month, account, category, amount, transfer) ==
  [month |-> month, account |-> account, category |-> category,
   amount |-> amount, transfer |-> transfer]

Assigned(month, categories) == MapThenSumSet(LAMBDA c : assigned[month][c], categories)
Entries == Len(lines) + Cardinality({p \in Months \X (Envelopes \cup Cards) : assigned[p[1]][p[2]] # 0})

\* Entries are made month by month; within a month their order counts for the cards.
Book(new) ==
  /\ Entries < MaxEntries
  /\ lines # <<>> => new[1].month >= Last(lines).month
  /\ lines' = lines \o new
  /\ UNCHANGED assigned

Transact(month, account, category, amount) ==
  Book(<<Line(month, account, category, amount, FALSE)>>)

PayCard(month, card, amount) ==
  Book(<<Line(month, CashAccount, Uncategorized, -amount, TRUE),
         Line(month, card, Uncategorized, amount, TRUE)>>)

Assign(month, category, amount) ==
  /\ Entries < MaxEntries /\ assigned[month][category] = 0
  /\ assigned' = [assigned EXCEPT ![month][category] = amount]
  /\ UNCHANGED lines

BudgetNext ==
  \E month \in Months, amount \in EntryAmounts :
    \/ \E account \in Cards \cup {CashAccount}, category \in Envelopes \cup {Uncategorized} :
         Transact(month, account, category, amount) \/ Transact(month, account, category, -amount)
    \/ \E card \in Cards : PayCard(month, card, amount)
    \/ \E category \in Envelopes \cup Cards : Assign(month, category, amount)
-----------------------------------------------------------------------------
(* What budget_month reads. *)

LinesOf(month, Test(_)) == SelectSeq(lines, LAMBDA l : l.month = month /\ Test(l))
Total(selected) == FoldLeft(LAMBDA sum, l : sum + l.amount, 0, selected)

Activity(month, category) == Total(LinesOf(month, LAMBDA l : l.category = category))
CardActivity(month, category) ==
  Total(LinesOf(month, LAMBDA l : l.category = category /\ l.account \in Cards))

\* uncategorized_inflows: money that came in on a cash account.
Inflows(month) ==
  Total(LinesOf(month, LAMBDA l : /\ l.account = CashAccount /\ l.category = Uncategorized
                                  /\ l.amount > 0 /\ ~l.transfer))

FutureAssignments(month) ==
  MapThenSumSet(LAMBDA later : Assigned(later, Envelopes \cup Cards),
                {later \in Months : later > month})
-----------------------------------------------------------------------------
(* The card engine, event by event.  remaining is what budget_month thinks    *)
(* each category can still fund: this month's assignment, of every card anew. *)

NoCardState == [balance |-> 0, payment |-> 0, refundable |-> 0]
NonNegative(amount) == Max({amount, 0})
Least(x, y) == Min({x, y})

StartOfMonth(month, card, prior) ==
  [balance |-> prior.balance, payment |-> prior.payment + assigned[month][card],
   refundable |-> prior.refundable, ready |-> 0,
   remaining |-> [c \in Envelopes |-> NonNegative(assigned[month][c])],
   overspent |-> [c \in Envelopes |-> 0]]

Purchase(s, category, amount) ==
  LET funded == NonNegative(Least(s.remaining[category], amount))
  IN  [s EXCEPT !.remaining[category] = @ - amount, !.balance = @ - amount,
                !.payment = @ + funded, !.refundable = @ + funded,
                !.overspent[category] = @ + (amount - funded)]

Refund(s, category, amount) ==
  LET reverse == Least(Least(amount, s.refundable), NonNegative(s.payment))
  IN  [s EXCEPT !.remaining[category] = @ + amount, !.balance = @ + amount,
                !.payment = @ - reverse, !.refundable = @ - reverse]

PaymentMutant(s, amount) == [s EXCEPT !.balance = @ + amount]
Payment(s, amount) ==
  [s EXCEPT !.balance = @ + amount, !.payment = @ - Least(amount, NonNegative(@))]

Credit(s, amount) == [s EXCEPT !.balance = @ + amount, !.ready = @ + amount]

CardEvent(s, l) ==
  IF l.category # Uncategorized
  THEN IF l.amount < 0 THEN Purchase(s, l.category, -l.amount) ELSE Refund(s, l.category, l.amount)
  ELSE IF l.amount <= 0 THEN s
  ELSE IF l.transfer THEN Payment(s, l.amount) ELSE Credit(s, l.amount)

CardMonth(month, card, prior) ==
  FoldLeft(CardEvent, StartOfMonth(month, card, prior), LinesOf(month, LAMBDA l : l.account = card))
-----------------------------------------------------------------------------
(* calculate and calculate_chronological *)

NothingOverspent == [kind |-> "None", amount |-> 0]

\* The classification by monthly totals; the card engine's amount replaces it, that of the
\* last card when there are several.
Overspending(month, category, available, cards) ==
  LET short == NonNegative(-available)
      spentOnCards == NonNegative(-CardActivity(month, category))
      indebted == SelectSeq(CardOrder, LAMBDA card : cards[card].overspent[category] > 0)
  IN  IF indebted # <<>>
      THEN [kind |-> "CreditCard", amount |-> cards[Last(indebted)].overspent[category]]
      ELSE IF short = 0 THEN NothingOverspent
      ELSE IF spentOnCards > 0 THEN [kind |-> "CreditCard", amount |-> Least(short, spentOnCards)]
      ELSE [kind |-> "Cash", amount |-> short]

\* A month after the one before it: positive availability is carried, overspent cash is
\* taken from Ready to Assign, overspending on cards is left to the card's balance.
Calculate(month, prior) ==
  LET cards == [card \in Cards |-> CardMonth(month, card, prior.cards[card])]
      available == [c \in Envelopes |->
                      NonNegative(prior.available[c]) + assigned[month][c] + Activity(month, c)]
      cash == {c \in Envelopes : prior.overspent[c].kind = "Cash"}
  IN  [available |-> available,
       overspent |-> [c \in Envelopes |-> Overspending(month, c, available[c], cards)],
       ready |-> prior.ready + Inflows(month) - Assigned(month, Envelopes \cup Cards)
                 - MapThenSumSet(LAMBDA c : prior.overspent[c].amount, cash)
                 + MapThenSumSet(LAMBDA card : cards[card].ready, Cards),
       cards |-> cards]

BeforeAnyMonth ==
  [available |-> [c \in Envelopes |-> 0], overspent |-> [c \in Envelopes |-> NothingOverspent],
   ready |-> 0, cards |-> [card \in Cards |-> NoCardState]]

\* The months in order, each after the one before it.
NextMonth(past, month) ==
  Append(past, Calculate(month, IF past = <<>> THEN BeforeAnyMonth ELSE Last(past)))
Projection == FoldLeft(NextMonth, <<>>, [month \in Months |-> month])

ReadyToAssign(projection, month) == projection[month].ready - FutureAssignments(month)
-----------------------------------------------------------------------------
\* A line that is money of the budget: it has a category, or it came in from outside.
Booked(month) ==
  Total(SelectSeq(lines, LAMBDA l : /\ l.month <= month
                                    /\ l.category # Uncategorized \/ (l.amount > 0 /\ ~l.transfer)))

SpentBy(month, category, account) ==
  \E k \in DOMAIN lines : /\ lines[k].month = month /\ lines[k].category = category
                          /\ lines[k].account = account /\ lines[k].amount < 0

LeftToCards(projection, month) ==
  MapThenSumSet(LAMBDA c : NonNegative(-projection[month].available[c]),
                {c \in Envelopes : \E card \in Cards : SpentBy(month, c, card)})

Mixed(projection, month) ==
  \E c \in Envelopes : /\ projection[month].available[c] < 0 /\ SpentBy(month, c, CashAccount)
                       /\ \E card \in Cards : SpentBy(month, c, card)

\* Every line has a category or is a payment, and no balance is ever above zero.
OnlyRepaid(card) ==
  \A k \in DOMAIN lines : lines[k].account = card =>
    /\ lines[k].category = Uncategorized => lines[k].transfer
    /\ Total(SelectSeq(SubSeq(lines, 1, k), LAMBDA l : l.account = card)) <= 0

\* What was charged to the card beyond what its categories were assigned in the month of the
\* purchase; what they carried over from earlier months is not asked.
Unfunded(card, month) ==
  LET charged(m, c) == -Total(LinesOf(m, LAMBDA l : /\ l.account = card /\ l.category = c
                                                    /\ l.amount < 0))
  IN  MapThenSumSet(LAMBDA p : NonNegative(charged(p[1], p[2]) - NonNegative(assigned[p[1]][p[2]])),
                    (1..month) \X Envelopes)

\* In every month shown, Ready to Assign, what the ordinary envelopes hold and what was ever
\* given to payment categories or to later months are the booked money plus what earlier
\* overspending on cards left unpaid.  (A category overspent in one month with both cash and
\* a card is exempt: its cash part is dropped.)  A card purchase counts as spent there, so
\* what becomes of it in the payment category is said apart: on a card that is only charged
\* and repaid and whose payment category has no assignment of its own, the cash set aside is
\* never more than the card is owed, whatever was refunded, paid and carried over in between,
\* and never less than that without what was charged beyond the assignments of its month.
\* A purchase covered by money carried over from an earlier month moves nothing: the engine
\* is told of this month's assignment only (query_store.rs:1269), where "the portion covered
\* by category availability when this line occurred" (credit_card.rs:30) and the availability
\* that calculate_chronological works out (budget_month.rs:287) would include it.
EnvelopesAreBacked ==
  LET projection == Projection IN
  Entries > 0 =>
    /\ \A month \in Months :
         (\A earlier \in Months : earlier < month => ~Mixed(projection, earlier)) =>
           ReadyToAssign(projection, month) + FutureAssignments(month)
             + MapThenSumSet(LAMBDA c : projection[month].available[c], Envelopes)
             + MapThenSumSet(LAMBDA m : Assigned(m, Cards), 1..month)
           = Booked(month) + MapThenSumSet(LAMBDA m : LeftToCards(projection, m), 1..(month - 1))
    /\ \A card \in {lines[k].account : k \in DOMAIN lines} \cap Cards, month \in Months :
         OnlyRepaid(card) /\ (\A m \in 1..month : assigned[m][card] = 0) =>
           LET owed == NonNegative(-projection[month].cards[card].balance)
           IN  projection[month].cards[card].payment
                 \in NonNegative(owed - Unfunded(card, month))..owed
=============================================================================
