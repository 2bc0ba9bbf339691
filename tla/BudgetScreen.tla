---------------------------- MODULE BudgetScreen -----------------------------
(***************************************************************************)
(* The budget screen and the assignments it edits: BudgetUiState, the      *)
(* Auto-Assign proposal, and the executor's assignment commands on the     *)
(* other side of the worker.  One budget, one month.  The screen works on  *)
(* a projection that was read some time ago; a batch carries the revision  *)
(* of that projection, a single assignment carries nothing.                *)
(***************************************************************************)
EXTENDS Assignments

CONSTANTS
  Rows,         \* categories of the budget, 1..n in the order they are shown
  Drafts,       \* amounts the user types
  Shortfalls,   \* amounts a category may be underfunded by
  MaxLog        \* bound: rows of change_log

VARIABLES
  amounts,      \* budget_assignments of the month
  log,          \* id of the last row of change_log
  revision,     \* id of its last row that names this budget
  view,         \* BudgetMonthView: [amounts, revision, singles]
  accepted,     \* projection_revision
  selected,     \* selected_categories
  editing,      \* category of the open AssignmentEdit, 0 if none
  waiting,      \* pending_assignments
  preview,      \* auto_preview, <<>> if none
  sent,         \* commands on their way to the executor
  inverse,      \* the inverse of the last committed batch, <<>> if none
  singles       \* history: single assignments committed

screen == <<amounts, log, revision, view, accepted, selected, editing, waiting,
            preview, sent, inverse, singles>>

ScreenInit ==
  /\ amounts = [c \in Rows |-> 0] /\ log = 0 /\ revision = 0 /\ singles = 0
  /\ view = [amounts |-> amounts, revision |-> 0, singles |-> 0] /\ accepted = 0
  /\ selected = {} /\ editing = 0 /\ waiting = {}
  /\ preview = <<>> /\ sent = <<>> /\ inverse = <<>>

NewestCommand(commands) == sent' = sent \o commands /\ log + Len(sent') <= MaxLog
Single(category, amount) == [kind |-> "set", category |-> category, amount |-> amount]
Batch(b) == [kind |-> "batch", revision |-> b.revision, singles |-> b.singles,
             before |-> b.before, after |-> b.after]
-----------------------------------------------------------------------------
(* The widgets. *)

ToggleSelected(category) ==
  /\ selected' = IF category \in selected THEN selected \ {category} ELSE selected \cup {category}
  /\ UNCHANGED <<amounts, log, revision, view, accepted, editing, waiting, preview, sent,
                 inverse, singles>>

BeginEdit(category) ==
  /\ editing # category /\ editing' = category
  /\ UNCHANGED <<amounts, log, revision, view, accepted, selected, waiting, preview, sent,
                 inverse, singles>>

\* assignment_key: a category that is still pending swallows the key; Enter keeps the
\* edit open, Tab and the arrows open the category above or below.
AssignmentKey(amount, next) ==
  /\ editing # 0 /\ editing \notin waiting
  /\ waiting' = waiting \cup {editing}
  /\ NewestCommand(<<Single(editing, amount)>>)
  /\ next \in {editing, Min({editing + 1, Cardinality(Rows)}), Max({editing - 1, 1})}
  /\ editing' = next
  /\ UNCHANGED <<amounts, log, revision, view, accepted, selected, preview, inverse, singles>>

CancelEdit ==
  /\ editing # 0 /\ editing' = 0
  /\ UNCHANGED <<amounts, log, revision, view, accepted, selected, waiting, preview, sent,
                 inverse, singles>>

\* propose_auto_assign over the selected rows of the projection: the strategies that fund a
\* shortfall, and the one that takes back what was assigned.
Proposal(deltas) ==
  LET proposed == Preview(view.revision, Restrict(view.amounts, selected), deltas)
  IN  [revision |-> proposed.revision, singles |-> view.singles,
       before |-> proposed.before, after |-> proposed.after]

Propose ==
  /\ \/ \E shortfall \in [selected -> Shortfalls] : preview' = Proposal(shortfall)
     \/ preview' = Proposal([c \in selected |-> -view.amounts[c]])
  /\ preview' # preview
  /\ UNCHANGED <<amounts, log, revision, view, accepted, selected, editing, waiting, sent,
                 inverse, singles>>

\* The preview stays on the screen after its confirmation.
ConfirmPreviewMutant ==
  /\ preview # <<>>
  /\ NewestCommand(<<Batch([preview EXCEPT !.revision = view.revision])>>)
  /\ UNCHANGED <<amounts, log, revision, view, accepted, selected, editing, waiting, preview,
                 inverse, singles>>
ConfirmPreview ==
  /\ preview # <<>>
  /\ NewestCommand(<<Batch(preview)>>)
  /\ UNCHANGED <<amounts, log, revision, view, accepted, selected, editing, waiting, preview,
                 inverse, singles>>

UndoBatch ==
  /\ inverse # <<>>
  /\ NewestCommand(<<Batch(inverse)>>)
  /\ UNCHANGED <<amounts, log, revision, view, accepted, selected, editing, waiting, preview,
                 inverse, singles>>

\* A projection read now; accept_projection drops the pending marks if its revision is new.
AcceptProjection ==
  /\ view' = [amounts |-> amounts, revision |-> revision, singles |-> singles]
  /\ view' # view
  /\ accepted' = revision
  /\ waiting' = IF accepted # revision THEN {} ELSE waiting
  /\ UNCHANGED <<amounts, log, revision, selected, editing, preview, sent, inverse, singles>>
-----------------------------------------------------------------------------
(* The executor, one command at a time. *)

\* The audit row of a single assignment names no budget.
ExecuteSingle ==
  LET command == Head(sent) IN
  /\ sent # <<>> /\ command.kind = "set"
  /\ amounts' = [amounts EXCEPT ![command.category] = command.amount]
  /\ log' = log + 1 /\ singles' = singles + 1 /\ sent' = Tail(sent)
  /\ UNCHANGED <<revision, view, accepted, selected, editing, waiting, preview, inverse>>

\* The revision is read again after the audit row is appended: an undo expects that one.
ExecuteBatch ==
  LET batch == Head(sent) IN
  /\ sent # <<>> /\ batch.kind = "batch" /\ DOMAIN batch.after # {}
  /\ batch.revision = revision
  /\ amounts' = [c \in Rows |-> IF c \in DOMAIN batch.after THEN batch.after[c] ELSE amounts[c]]
  /\ log' = log + 1 /\ revision' = log' /\ sent' = Tail(sent)
  /\ inverse' = [revision |-> revision', singles |-> singles,
                 before |-> batch.after, after |-> Restrict(amounts, DOMAIN batch.after)]
  /\ UNCHANGED <<view, accepted, selected, editing, waiting, preview, singles>>

\* "assignment batch is empty", "stale assignment revision"
RefuseBatch ==
  LET batch == Head(sent) IN
  /\ sent # <<>> /\ batch.kind = "batch"
  /\ batch.revision # revision \/ DOMAIN batch.after = {}
  /\ sent' = Tail(sent)
  /\ UNCHANGED <<amounts, log, revision, view, accepted, selected, editing, waiting, preview,
                 inverse, singles>>

ScreenNext ==
  \/ \E c \in Rows : ToggleSelected(c) \/ BeginEdit(c)
  \/ \E amount \in Drafts, next \in Rows : AssignmentKey(amount, next)
  \/ CancelEdit \/ Propose \/ ConfirmPreview \/ UndoBatch \/ AcceptProjection
  \/ ExecuteSingle \/ ExecuteBatch \/ RefuseBatch

\* The screen and the in-memory service, side by side.
BudgetingSpec ==
  /\ ScreenInit /\ AssignmentsInit
  /\ [][\/ ScreenNext /\ UNCHANGED assignments
        \/ AssignmentsNext /\ UNCHANGED screen]_<<screen, assignments>>
-----------------------------------------------------------------------------
\* A batch does what was reviewed: when it commits, every amount it replaces is the one
\* the user saw in the preview (or, for an undo, the one the batch left), whatever other
\* batches were confirmed, undone or refused since.  Single assignments are exempt: they
\* leave the revision alone, so a batch reviewed before one still goes through.  The
\* in-memory service, whose every change moves the revision, keeps the books of its own.
BatchesDoWhatWasReviewed ==
  [][/\ ExecuteBatch /\ Head(sent).singles = singles =>
          \A c \in DOMAIN Head(sent).after : amounts[c] = Head(sent).before[c]
     /\ serviceRevision' # serviceRevision => AssignmentsConserve]_<<screen, assignments>>
=============================================================================
