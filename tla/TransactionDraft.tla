-------------------------- MODULE TransactionDraft --------------------------
(***************************************************************************)
(* The inline transaction editor and its split dialog:                     *)
(* TransactionEditorState, the widgets of the register that change it, and *)
(* the runtime that opens, commits and closes it.  An amount text is a     *)
(* number or Garbage, the empty text is 0; Money is bounded as i64 is.     *)
(***************************************************************************)
EXTENDS Integers, Sequences, SequencesExt, FiniteSets

CONSTANTS
  Offered,          \* categories the pickers show
  DraftRows,        \* rows of the register and of the inspector that can be edited
  ParentTexts, LineTexts, Garbage, Overflowed,
  MaxMoney,
  NoneChosen,
  OpenAccount,
  MaxDraftSteps     \* bound: what the user does

VARIABLES
  draft,            \* TransactionEditorState, see Fresh
  submitted,        \* the Save that is on its way, <<>> if none
  draftSteps

draftVars == <<draft, submitted, draftSteps>>

\* new, and begin_transaction_editor: today's date is filled in.
Fresh(account) ==
  [mode |-> "creating", row |-> NoneChosen, account |-> account, dateOk |-> TRUE,
   outflow |-> 0, inflow |-> 0, category |-> NoneChosen, splits |-> <<>>, dialog |-> <<>>,
   reconciled |-> FALSE, closed |-> FALSE, protectedConfirmed |-> FALSE,
   closedConfirmed |-> FALSE, commit |-> "Idle"]
NoDraft == [Fresh(NoneChosen) EXCEPT !.mode = "idle"]

DraftInit == draft = NoDraft /\ submitted = <<>> /\ draftSteps = 0
-----------------------------------------------------------------------------
(* Checked cents *)

Money(v) == IF v \in -MaxMoney - 1 .. MaxMoney THEN v ELSE Overflowed
CheckedAdd(x, y) == IF Overflowed \in {x, y} THEN Overflowed ELSE Money(x + y)
CheckedSub(x, y) == IF Overflowed \in {x, y} THEN Overflowed ELSE Money(x - y)

BlankLine == [category |-> NoneChosen, amount |-> 0]
Readable(lines) == \A i \in DOMAIN lines : lines[i].amount # Garbage
Allocated(lines) == FoldLeft(LAMBDA total, line : CheckedAdd(total, line.amount), 0, lines)
SplitRemaining(total, lines) ==
  FoldLeft(LAMBDA left, line : CheckedSub(left, line.amount), total, lines)

\* transaction_amount
ParentAmount(d) ==
  IF \/ Garbage \in {d.outflow, d.inflow}
     \/ d.outflow # 0 /\ d.inflow # 0
  THEN Garbage ELSE d.inflow - d.outflow
-----------------------------------------------------------------------------
(* The split dialog *)

OpenSplitDialogMutant(d) ==
  [d EXCEPT !.category = NoneChosen,
     !.dialog = <<[lines |-> IF d.splits = <<>> THEN <<BlankLine, BlankLine>> ELSE d.splits,
                   category |-> d.category, splits |-> d.splits]>>]
OpenSplitDialog(d) ==
  LET start == IF d.splits = <<>> /\ d.category # NoneChosen /\ ParentAmount(d) \notin {Garbage, 0}
               THEN <<[category |-> d.category, amount |-> ParentAmount(d)], BlankLine>>
               ELSE d.splits
  IN  [d EXCEPT !.dialog = <<[lines |-> start, category |-> d.category, splits |-> d.splits]>>]

Lines(d) == d.dialog[1].lines
WithLines(d, lines) == [d EXCEPT !.dialog[1].lines = lines]

CancelSplitDialog(d) ==
  [d EXCEPT !.category = d.dialog[1].category, !.splits = d.dialog[1].splits, !.dialog = <<>>]

\* split_dialog_remaining; save_split_dialog subtracts line by line instead.
DialogRemaining(d) ==
  IF ParentAmount(d) = Garbage \/ ~Readable(Lines(d)) THEN Garbage
  ELSE CheckedSub(ParentAmount(d), Allocated(Lines(d)))

CanSaveSplitDialog(d) ==
  /\ Len(Lines(d)) >= 2
  /\ \A i \in DOMAIN Lines(d) : Lines(d)[i].category \in Offered
  /\ DialogRemaining(d) = 0

\* The button is enabled by the one check and the handler applies the other.
SaveSplitDialog(d) ==
  IF SplitRemaining(ParentAmount(d), Lines(d)) = 0
  THEN [d EXCEPT !.splits = Lines(d), !.category = NoneChosen, !.dialog = <<>>] ELSE d

\* distribute_split_dialog_remaining
Distribute(d) ==
  LET last == Len(Lines(d))
      sum == CheckedAdd(Lines(d)[last].amount, DialogRemaining(d))
  IN  IF Lines(d) = <<>> \/ DialogRemaining(d) \in {Garbage, Overflowed} \/ sum = Overflowed THEN d
      ELSE WithLines(d, [Lines(d) EXCEPT ![last].amount = sum])
-----------------------------------------------------------------------------
(* Validation.  `original` is never filled in by the application, so the refusal of a *)
(* transfer in validate_parts is not reached: BeginEdit refuses it.                   *)

\* validate_parts
PartErrors(d, checkTotal) ==
  {field \in {"account", "date", "category", "amount", "lines", "protected", "closed", "form"} :
     CASE field = "account" -> d.account = NoneChosen
       [] field = "date" -> ~d.dateOk
       [] field = "category" -> d.splits = <<>> /\ d.category = NoneChosen
       [] field = "amount" -> ParentAmount(d) = Garbage
       [] field = "lines" -> \/ ~Readable(d.splits)
                             \/ \E i \in DOMAIN d.splits : d.splits[i].category = NoneChosen
       [] field = "protected" -> d.reconciled /\ ~d.protectedConfirmed
       [] field = "closed" -> d.closed /\ ~d.closedConfirmed
       [] field = "form" -> d.splits # <<>> /\
            \/ Len(d.splits) < 2
            \/ /\ checkTotal /\ ParentAmount(d) # Garbage /\ Readable(d.splits)
               /\ Allocated(d.splits) # ParentAmount(d)}

\* build_transaction
Built(d) ==
  [row |-> d.row, account |-> d.account, amount |-> ParentAmount(d),
   body |-> IF d.splits = <<>> THEN <<BlankLine>> ELSE d.splits,
   category |-> IF d.splits = <<>> THEN d.category ELSE NoneChosen]

\* transaction_commit_available: what is left of a transaction without lines is all of it.
SaveButtonEnabled(d) ==
  /\ PartErrors(d, FALSE) = {} /\ SplitRemaining(ParentAmount(d), d.splits) = 0
  /\ PartErrors(d, TRUE) = {}
-----------------------------------------------------------------------------
(* The user *)

Do(d) == /\ draftSteps < MaxDraftSteps /\ draftSteps' = draftSteps + 1
         /\ draft' = d /\ d # draft

\* A new draft replaces whatever was there.
BeginDraft(account) == Do(Fresh(account)) /\ submitted' = <<>>

\* editor_from_row, BeginEdit and the inspector's Duplicate, which does not look whether
\* the account is closed.
FromRow(row) ==
  [Fresh(row.account) EXCEPT
     !.mode = "editing", !.row = row.id, !.category = row.category, !.splits = row.splits,
     !.outflow = IF row.amount < 0 THEN -row.amount ELSE 0,
     !.inflow = IF row.amount > 0 THEN row.amount ELSE 0,
     !.reconciled = row.reconciled, !.closed = row.closed]
BeginRowEdit(row) ==
  /\ ~row.transfer /\ row.whole /\ Do(FromRow(row)) /\ submitted' = <<>>
DuplicateRow(row) ==
  /\ ~row.transfer /\ row.whole
  /\ Do([FromRow(row) EXCEPT !.mode = "creating", !.row = NoneChosen,
                             !.reconciled = FALSE, !.closed = FALSE])
  /\ submitted' = <<>>

\* The dialog is modal: the row under it gets no input.
Editable == draft.mode # "idle" /\ draft.commit # "Submitting" /\ draft.dialog = <<>>
Change(d) == Do(d) /\ UNCHANGED submitted

\* show_cell of the columns that offer a choice, and of those that take a text or a
\* confirmation.
ChooseInRow ==
  /\ Editable
  /\ \/ draft.row = NoneChosen /\ Change([draft EXCEPT !.account = OpenAccount])
     \/ Change([draft EXCEPT !.dateOk = ~@])
     \/ \E c \in Offered : Change([draft EXCEPT !.category = c])
     \/ Change(OpenSplitDialog(draft))
TypeInRow ==
  /\ Editable
  /\ \/ \E text \in ParentTexts : Change([draft EXCEPT !.outflow = text]) \/ Change([draft EXCEPT !.inflow = text])
     \/ draft.reconciled /\ Change([draft EXCEPT !.protectedConfirmed = TRUE])
     \/ draft.closed /\ Change([draft EXCEPT !.closedConfirmed = TRUE])

EditLines ==
  /\ draft.dialog # <<>>
  /\ \E i \in DOMAIN Lines(draft) :
       \/ \E c \in Offered : Change(WithLines(draft, [Lines(draft) EXCEPT ![i].category = c]))
       \/ \E text \in LineTexts : Change(WithLines(draft, [Lines(draft) EXCEPT ![i].amount = text]))
       \/ Change(WithLines(draft, RemoveAt(Lines(draft), i)))
\* Enter saves as the button does, Escape cancels.
PressInDialog ==
  /\ draft.dialog # <<>>
  /\ \/ Change(WithLines(draft, Append(Lines(draft), BlankLine)))
     \/ Change(Distribute(draft))
     \/ Change(CancelSplitDialog(draft))
     \/ CanSaveSplitDialog(draft) /\ Change(SaveSplitDialog(draft))

\* commit_transaction_editor: by Enter always, by the button when it is enabled.
CommitDraft ==
  /\ Editable
  /\ IF PartErrors(draft, TRUE) = {}
     THEN Do([draft EXCEPT !.commit = "Submitting"]) /\ submitted' = <<Built(draft)>>
     ELSE Do([draft EXCEPT !.commit = "Failed"]) /\ UNCHANGED submitted

CancelDraft == Editable /\ Do(NoDraft) /\ UNCHANGED submitted

\* The answer of the worker: a failed command leaves the draft as it was.
AnswerCommit ==
  /\ submitted # <<>> /\ submitted' = <<>> /\ UNCHANGED draftSteps
  /\ draft' \in {NoDraft, [draft EXCEPT !.commit = "Failed"]}

DraftNext ==
  \/ \E account \in {NoneChosen, OpenAccount} : BeginDraft(account)
  \/ \E row \in DraftRows : BeginRowEdit(row) \/ DuplicateRow(row)
  \/ ChooseInRow \/ TypeInRow \/ EditLines \/ PressInDialog \/ CommitDraft \/ CancelDraft \/ AnswerCommit
-----------------------------------------------------------------------------
\* What the editor sends is what was entered, after any detour through the split dialog, a
\* failed save and a retry.  A split that is sent adds up to the amount beside it even if
\* that amount was changed after the dialog; a dialog that is open has changed nothing
\* yet; a reconciled row is sent only once its protection was lifted for this edit; the
\* Save button is offered for every split that Enter would take.  Exempt are a split at the
\* end of Money, because the button subtracts what Enter adds up, and a transaction of one
\* category, for which the button is enabled only if its amount is zero.
DraftsAddUp ==
  /\ \A i \in DOMAIN submitted :
       LET t == submitted[i] IN
       /\ t.category = NoneChosen =>
            Len(t.body) >= 2 /\ FoldLeft(LAMBDA sum, line : sum + line.amount, 0, t.body) = t.amount
       /\ \A row \in DraftRows : t.row = row.id /\ row.reconciled => draft.protectedConfirmed
  /\ draft.dialog # <<>> => CancelSplitDialog(draft) = [draft EXCEPT !.dialog = <<>>]
  /\ /\ PartErrors(draft, TRUE) = {} /\ draft.splits # <<>>
     /\ SplitRemaining(ParentAmount(draft), draft.splits) # Overflowed
     => SaveButtonEnabled(draft)
=============================================================================
