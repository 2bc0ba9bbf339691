----------------------------- MODULE Assignments -----------------------------
(***************************************************************************)
(* Assignments of assignment_service: a map from categories to amounts     *)
(* other than zero, for one month, its revision, the undo tokens its       *)
(* callers were given and a proposal under review.  The screen takes its   *)
(* proposals from here; the edits of the map itself are the promise that   *)
(* the executor's batches are held to.                                     *)
(***************************************************************************)
EXTENDS Integers, Sequences, FiniteSets, FiniteSetsExt, SequencesExt, Functions, Maps

CONSTANTS
  AssignedCategories,
  MoneyToAssign,      \* amounts that calls are made with
  MaxRevision         \* bound: changes of a behaviour

ASSUME AssignmentsAssumption == IsFiniteSet(AssignedCategories) /\ MoneyToAssign \subseteq Int

VARIABLES
  worth,              \* values, the months left out
  serviceRevision,
  undoTokens,         \* UndoAssignment values not used yet: [before], with a history of the
                      \* revision they led to and of the map they were made from
  underReview         \* AutoAssignPreview, <<>> if none

assignments == <<worth, serviceRevision, undoTokens, underReview>>

Worth(c) == IF c \in DOMAIN worth THEN worth[c] ELSE 0
TotalWorth(values) == MapThenSumSet(LAMBDA c : values[c], DOMAIN values)

\* Division of i64 truncates, and a remainder has the sign of the dividend.
Truncated(x, n) == IF x >= 0 THEN x \div n ELSE -((-x) \div n)

\* apply(): what was there before, for the undo, then the changes in their order.
WriteWorth(values, change) ==
  IF change[2] = 0 THEN Restrict(values, DOMAIN values \ {change[1]})
  ELSE Put(values, change[1], change[2])
Changed(changes) ==
  /\ worth' = FoldLeft(WriteWorth, worth, changes)
  /\ serviceRevision' = serviceRevision + 1
  /\ undoTokens' = Append(undoTokens,
       [before |-> [c \in {changes[i][1] : i \in DOMAIN changes} |-> Worth(c)],
        at |-> serviceRevision', past |-> worth])

\* replace and reset; add and assign_all
SetWorth(c, amount) == Changed(<< <<c, amount>> >>) /\ UNCHANGED underReview
AddWorth(c, delta) == Changed(<< <<c, Worth(c) + delta>> >>) /\ UNCHANGED underReview

\* Both amounts are computed before either is written.
MoveMoney(from, to, amount) ==
  Changed(<< <<from, Worth(from) - amount>>, <<to, Worth(to) + amount>> >>) /\ UNCHANGED underReview

\* What an Equal rule cannot divide is not assigned; InOrder hands it out cent by cent.
Shares(n, amount, inOrder) ==
  LET base == Truncated(amount, n)
      remainder == amount - n * base
      sign == IF remainder < 0 THEN -1 ELSE 1
  IN  [i \in 1..n |-> IF inOrder /\ i <= remainder * sign THEN base + sign ELSE base]
DistributeMoney(ids, amount, inOrder) ==
  LET share == Shares(Len(ids), amount, inOrder)
  IN  Changed([i \in DOMAIN ids |-> <<ids[i], Worth(ids[i]) + share[i]>>]) /\ UNCHANGED underReview

\* propose_auto_assign_at_revision: each strategy comes to an amount per category.
Preview(source, values, deltas) ==
  [revision |-> source, before |-> values,
   after |-> [c \in DOMAIN deltas |-> values[c] + deltas[c]], total |-> TotalWorth(deltas)]
ReviewProposal(deltas) ==
  /\ underReview' = <<Preview(serviceRevision, [c \in DOMAIN deltas |-> Worth(c)], deltas)>>
  /\ UNCHANGED <<worth, serviceRevision, undoTokens>>

\* apply_preview: refused as a whole if anything was assigned since it was made.
ApplyPreview ==
  /\ underReview # <<>>
  /\ LET preview == underReview[1] ids == SetToSeq(DOMAIN preview.after) IN
     /\ preview.revision = serviceRevision
     /\ \A c \in DOMAIN preview.before : Worth(c) = preview.before[c]
     /\ Changed([i \in DOMAIN ids |-> <<ids[i], preview.after[ids[i]]>>])
  /\ UNCHANGED underReview

\* Tokens are the caller's: they may be used in any order.
UndoAssignment(i) ==
  LET token == undoTokens[i].before
      written == {c \in DOMAIN token : token[c] # 0}
  IN  /\ worth' = [c \in (DOMAIN worth \ DOMAIN token) \cup written |->
                     IF c \in written THEN token[c] ELSE worth[c]]
      /\ serviceRevision' = serviceRevision + 1
      /\ undoTokens' = RemoveAt(undoTokens, i)
      /\ UNCHANGED underReview

AssignmentsInit == worth = <<>> /\ serviceRevision = 0 /\ undoTokens = <<>> /\ underReview = <<>>

Orders == {ids \in UNION {[1..n -> AssignedCategories] : n \in 1..Cardinality(AssignedCategories)} :
             IsInjective(ids)}
AssignmentsNext ==
  \/ /\ serviceRevision < MaxRevision
     /\ \/ \E c \in AssignedCategories, amount \in MoneyToAssign \cup {0} :
             SetWorth(c, amount) \/ AddWorth(c, amount)
        \/ \E from, to \in AssignedCategories, amount \in MoneyToAssign : MoveMoney(from, to, amount)
        \/ \E ids \in Orders, amount \in MoneyToAssign, inOrder \in BOOLEAN :
             DistributeMoney(ids, amount, inOrder)
        \/ ApplyPreview
        \/ \E i \in DOMAIN undoTokens : UndoAssignment(i)
  \/ /\ underReview = <<>>
     /\ \E delta \in MoneyToAssign : ReviewProposal([c \in AssignedCategories |-> delta])
-----------------------------------------------------------------------------
\* What a call may do to the money assigned.  A move leaves the total alone (unless it is
\* from a category to itself, which creates the amount: the second write wins); handing out
\* in order assigns the whole amount, evenly all but a rest smaller than the number of
\* categories; a preview assigns the total that was reviewed; undoing the last change takes
\* exactly that back, and undoing an older one touches no other category.
AssignmentsConserve ==
  LET gained == TotalWorth(worth') - TotalWorth(worth) IN
  /\ \A c \in DOMAIN worth' : worth'[c] # 0
  /\ \A from, to \in AssignedCategories, amount \in MoneyToAssign :
       MoveMoney(from, to, amount) => gained = IF from = to THEN amount ELSE 0
  /\ \A ids \in Orders, amount \in MoneyToAssign :
       /\ DistributeMoney(ids, amount, TRUE) => gained = amount
       /\ DistributeMoney(ids, amount, FALSE) =>
            (amount - gained) * (IF amount < 0 THEN -1 ELSE 1) \in 0 .. Len(ids) - 1
  /\ ApplyPreview => gained = underReview[1].total
  /\ \A i \in DOMAIN undoTokens : UndoAssignment(i) =>
       /\ undoTokens[i].at = serviceRevision => worth' = undoTokens[i].past
       /\ \A c \in (DOMAIN worth \cup DOMAIN worth') \ DOMAIN undoTokens[i].before :
            Restrict(worth', {c}) = Restrict(worth, {c})
=============================================================================
