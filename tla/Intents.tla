------------------------------- MODULE Intents -------------------------------
(***************************************************************************)
(* What the user asks for and what becomes of it: the keyboard router, the *)
(* command palette and the buttons, the shared availability policy, and    *)
(* dispatch_ui with the editor it opens, commits and closes.  Keys are     *)
(* routed without the policy; the palette and the buttons ask it, each     *)
(* with a context of its own.                                              *)
(***************************************************************************)
EXTENDS FiniteSets, Sequences

VARIABLES
  desk,     \* the AppState an intent reads, see AtDesk
  last      \* history: the last intent that lost typed text, or that the palette offered
            \* and nothing was done about

intents == <<desk, last>>

\* An editor that is mounted: `typed` is a history of it, `dirty` its metadata, `valid`
\* whether build or validate would accept the form, `commit` its commit state or the
\* errors it shows.
Editor(kind, valid) ==
  [kind |-> kind, typed |-> FALSE, dirty |-> FALSE, valid |-> valid, commit |-> "Idle"]
NoEditor == Editor("none", FALSE)

\* surface() = Modal, and the dialogs that set dirty
ModalEditors == {"account", "transfer", "import", "reconciling"}
TracksEdits(editor) == editor.kind \in ModalEditors

\* The program before a budget is open
AtDesk ==
  [budget |-> FALSE, ws |-> "Overview", account |-> FALSE, row |-> "none",
   editor |-> NoEditor, dialog |-> FALSE]

Unnoted == [offered |-> FALSE, intent |-> "", outcome |-> "done"]

IntentsInit ==
  /\ desk = AtDesk
  /\ last = Unnoted
-----------------------------------------------------------------------------
(* command_availability *)

Groups == {"RenameAccountGroup", "DeleteAccountGroup", "MoveAccountGroup"}
OpensSomething == {"ContextualNew", "AddAccount", "EditAccount", "AddAccountGroup",
                   "AddTransaction", "EditTransaction", "CreateTransfer", "ReconcileAccount", "Import"}
Navigations == {"NavigateOverview", "NavigateBudget", "NavigateCategories", "NavigateReports",
                "NavigateAllTransactions"}
Typing == OpensSomething \cup Groups \cup
          {"FocusSearch", "CloseAccount", "DeleteTransaction", "Delete", "Rename", "MoveUp",
           "MoveDown", "ToggleSelection", "PreviousMonth", "NextMonth"}
Mutating == OpensSomething \cup Groups \cup
            {"CloseAccount", "DeleteTransaction", "Commit", "Delete", "Rename"}
NeedsBudget == Mutating \cup Navigations \cup
               {"FocusSearch", "Edit", "ToggleSelection", "AutoAssign", "MoveMoney",
                "PreviousMonth", "NextMonth", "Backup"}

\* The rows an intent tells apart; "incomplete" lacks a leg or its splits on the page.
RowKinds == {"plain", "transfer", "incomplete", "reconciled"}
RowFocused(d) == d.row \in RowKinds

\* The context: busy, readOnly and locked are FALSE in every context the application
\* builds, because nothing fills operations and only a shutdown disables mutations.
Refused(ctx, c) ==
  \/ ctx.typing /\ c \in Typing
  \/ ctx.dialog /\ c \notin {"Commit", "Cancel"}
  \/ /\ ~ctx.dialog
     /\ \/ ctx.busy /\ c \notin {"CancelOperation", "RetryOperation", "Exit"}
        \/ ~ctx.budget /\ c \in NeedsBudget
        \/ (ctx.readOnly \/ ctx.locked) /\ c \in Mutating
        \/ c \in {"ContextualNew", "Import"} /\ ctx.ws # "Account"
        \/ c = "FocusSearch" /\ ctx.ws \notin {"Account", "AllTransactions", "Reports"}
        \/ c = "Commit" /\ (~ctx.editing \/ ~ctx.valid)
        \/ c \in {"EditAccount", "CloseAccount", "ReconcileAccount"} /\ ~ctx.account
        \/ c = "AddTransaction" /\ ctx.ws \notin {"Account", "AllTransactions"}
        \/ c \in {"EditTransaction", "DeleteTransaction"} /\ ~ctx.transaction
        \/ c \in {"Delete", "DeleteTransaction"} /\ ctx.reconciled
        \/ c \in Groups
        \/ c = "Edit" /\ ctx.editing
        \/ c \in {"Edit", "Delete", "Rename", "ToggleSelection"} /\ ~ctx.selection
        \/ c \in {"MoveUp", "MoveDown"} /\ ctx.editing
        \/ c \in {"PreviousMonth", "NextMonth", "AutoAssign", "MoveMoney"} /\ ctx.ws # "Budget"
        \/ c \in {"AutoAssign", "MoveMoney"} /\ ~ctx.planning
        \/ c = "CancelOperation" /\ ~ctx.locked /\ ~ctx.busy
        \/ c = "RetryOperation" /\ ~ctx.locked

Context(d) ==
  [typing |-> FALSE, dialog |-> d.dialog, busy |-> FALSE, budget |-> d.budget, readOnly |-> FALSE,
   locked |-> FALSE, ws |-> d.ws, account |-> d.account, transaction |-> RowFocused(d),
   reconciled |-> d.row = "reconciled", selection |-> d.account \/ RowFocused(d)]

\* action_context of the toolbar and the overview; valid is "no error is shown".
ButtonContext(d) ==
  [k \in DOMAIN Context(d) \cup {"editing", "valid", "planning"} |->
     CASE k = "editing" -> d.editor.kind # "none"
       [] k = "valid" -> d.editor.commit # "Errors"
       [] k = "planning" -> FALSE
       [] OTHER -> Context(d)[k]]

\* show_palette says that nothing is being edited, unless it is an import or a
\* reconciliation; availability_context knows neither errors nor the budget grid, and
\* takes every workspace it has no name for to be AllTransactions.
PaletteContext(d) ==
  [ButtonContext(d) EXCEPT
     !.editing = d.editor.kind \in {"import", "reconciling"}, !.valid = TRUE,
     !.ws = IF d.ws \in {"Budget", "Overview", "Account", "Categories"} THEN d.ws
            ELSE IF d.budget THEN "AllTransactions" ELSE "none"]

\* commands_for
InPalette ==
  OpensSomething \cup Groups \cup Navigations \cup
  {"CloseAccount", "DeleteTransaction", "PreviousMonth", "NextMonth", "Settings", "FocusSearch",
   "Commit", "Cancel", "Edit", "Delete", "ToggleSelection", "Backup", "ToggleInspector"}
OnButtons == {"AddAccount", "AddAccountGroup", "AddTransaction", "CreateTransfer", "Import",
              "ReconcileAccount", "NavigateBudget", "Commit", "Cancel", "EditTransaction",
              "DeleteTransaction"}

\* map of the keyboard router, by what has the focus
KeyIntents(d, focus) ==
  LET offered ==
        IF d.dialog \/ d.editor.kind \in ModalEditors THEN {"Cancel", "Commit"}
        ELSE IF focus \in {"search", "cell"}
        THEN {"FocusSearch", "Cancel", "Commit"} \cup
             (IF focus = "cell" THEN {"NextField", "PreviousField"} ELSE {})
        ELSE {"ContextualNew", "SelectAllTransactions", "AddAccount", "Import", "FocusSearch", "Commit", "Cancel", "Edit", "Delete", "MoveUp", "MoveDown", "NextField",
              "PreviousField", "ToggleSelection", "NavigateCategories", "NavigateReports",
              "NavigateAllTransactions", "PreviousMonth", "NextMonth", "Settings", "Backup",
              "ToggleInspector"}
  IN  IF focus = "picker" THEN offered \ {"Commit", "Cancel", "MoveUp", "MoveDown"} ELSE offered
-----------------------------------------------------------------------------
(* dispatch_ui: what the desk becomes, and the outcome *)

Became(d, outcome) == [desk |-> d, outcome |-> outcome]
Mount(d, kind, valid) == Became([d EXCEPT !.editor = Editor(kind, valid)], "done")
Unavailable(d) == Became(d, "unavailable")
Ignored(d) == Became(d, "ignored")

RegisterOpen(d) == d.ws \in {"Account", "AllTransactions"}
Submitting(d) == d.editor.commit = "Submitting"

\* RegisterAction::BeginEdit: a transfer opens when both legs are on the page, a row when
\* its splits are.
BeginRow(d) ==
  CASE d.row \in {"plain", "reconciled"} -> Mount(d, "transaction", TRUE)
    [] d.row = "transfer" -> Mount(d, "transfer", TRUE)
    [] d.row = "incomplete" -> Ignored(d)

\* The navigation commands discard the draft, and are ignored while it is being saved.
Leave(d, c) ==
  IF d.editor.kind # "none" /\ Submitting(d) THEN Ignored(d)
  ELSE Became([d EXCEPT !.editor = NoEditor,
                        !.ws = CASE c = "NavigateOverview" -> "Overview"
                                 [] c = "NavigateBudget" -> "Budget"
                                 [] c = "NavigateCategories" -> "Categories"
                                 [] c = "NavigateReports" -> "Reports"
                                 [] OTHER -> "AllTransactions"], "done")

\* Cancel: a dirty form is kept once, with a warning.
CancelMutant(d) ==
  IF d.editor.kind # "none"
  THEN Became([d EXCEPT !.editor = NoEditor], "done")
  ELSE IF d.dialog THEN Became([d EXCEPT !.dialog = FALSE], "done") ELSE Unavailable(d)
CancelIntent(d) ==
  CASE d.editor.kind # "none" /\ Submitting(d) -> Ignored(d)
    [] d.editor.kind # "none" /\ ~Submitting(d) /\ d.editor.dirty ->
         Became([d EXCEPT !.editor.dirty = FALSE, !.editor.commit = "Errors"], "warned")
    [] d.editor.kind # "none" /\ ~Submitting(d) /\ ~d.editor.dirty ->
         Became([d EXCEPT !.editor = NoEditor], "done")
    [] d.editor.kind = "none" /\ d.dialog -> Became([d EXCEPT !.dialog = FALSE], "done")
    [] OTHER -> Unavailable(d)

\* commit_editor: the category and the group editors (organizing) and the import have no
\* command to send; a transaction shows its errors beside its fields.
CommitEditor(d) ==
  IF Submitting(d) THEN Ignored(d)
  ELSE IF d.budget /\ d.editor.valid /\ d.editor.kind \notin {"organizing", "import"}
  THEN Became([d EXCEPT !.editor.commit = "Submitting"], "done")
  ELSE Became([d EXCEPT !.editor.commit = IF d.editor.kind = "transaction" THEN "Idle"
                                          ELSE "Errors"], "done")

\* The commands of an open register come first, as long as nothing is being edited.
InRegister(d, c) == RegisterOpen(d) /\ d.editor.kind = "none" /\
                    \/ c \in {"MoveUp", "MoveDown", "ToggleSelection", "Delete", "DeleteTransaction"}
                    \/ c \in {"Edit", "EditTransaction", "Commit"} /\ RowFocused(d)

OpenEditor(d, c) ==
  CASE c = "AddAccount" -> Mount(d, "account", FALSE)
    [] c = "AddAccountGroup" -> Mount(d, "organizing", FALSE)
    [] c = "EditAccount" /\ d.account -> Mount(d, "account", TRUE)
    [] c = "CreateTransfer" /\ d.account -> Mount(d, "transfer", FALSE)
    [] c = "ReconcileAccount" /\ d.account -> Mount(d, "reconciling", FALSE)
    [] c = "Import" /\ d.account -> Mount(d, "import", FALSE)
    [] c = "AddTransaction" /\ RegisterOpen(d) -> Mount(d, "transaction", FALSE)
    [] c = "ContextualNew" /\ d.account ->
         IF RegisterOpen(d) THEN Mount(d, "transaction", FALSE) ELSE Ignored(d)
    [] c = "EditTransaction" /\ RowFocused(d) -> Mount(d, "transaction", FALSE)
    [] OTHER -> Unavailable(d)

Handle(d, c) ==
  CASE c \in Navigations -> Leave(d, c)
    [] c \in {"NextField", "PreviousField"} /\ d.editor.kind = "transaction" -> Became(d, "done")
    [] InRegister(d, c) -> IF c \in {"Edit", "EditTransaction", "Commit"} THEN BeginRow(d)
                           ELSE Became(d, "done")
    [] c \in OpensSomething /\ ~InRegister(d, c) -> OpenEditor(d, c)
    [] c = "Commit" /\ ~InRegister(d, c) ->
         IF d.editor.kind # "none" THEN CommitEditor(d) ELSE Unavailable(d)
    [] c = "Cancel" -> CancelIntent(d)
    [] c \in {"Settings", "Backup"} ->
         IF c = "Backup" /\ ~d.budget THEN Unavailable(d) ELSE Became([d EXCEPT !.dialog = TRUE], "done")
    [] c \in {"PreviousMonth", "NextMonth"} -> IF d.ws = "Budget" THEN Became(d, "done") ELSE Unavailable(d)
    [] c \in {"ToggleInspector", "FocusSearch"} -> Became(d, "done")
    [] OTHER -> Unavailable(d)

Lost(result) == desk.editor.typed /\ ~result.desk.editor.typed
Refuted(offered, result) == offered /\ result.outcome = "unavailable"
Noted(offered, c, result) ==
  last' = IF Lost(result) \/ Refuted(offered, result)
          THEN [offered |-> offered, intent |-> c, outcome |-> result.outcome] ELSE Unnoted

\* Intents that change nothing here are left out, but for the palette's refuted offers.
Sent(offered, c, result) ==
  /\ result.desk # desk \/ Refuted(offered, result)
  /\ desk' = result.desk
  /\ Noted(offered, c, result)
-----------------------------------------------------------------------------
(* The user *)

OnPalette == LET ctx == PaletteContext(desk) IN {c \in InPalette : ~Refused(ctx, c)}
ShownButtons == LET ctx == ButtonContext(desk) IN {c \in OnButtons : ~Refused(ctx, c)}
KeyedIntents == UNION {KeyIntents(desk, focus) : focus \in {"", "search", "cell", "picker"}}

\* A key, a button, or an entry of the palette, a window above the others that judges its
\* entries in the frame of the click.
Intend ==
  \/ \E c \in OnPalette : Sent(TRUE, c, Handle(desk, c))
  \/ \E c \in (ShownButtons \cup KeyedIntents) \ OnPalette : Sent(FALSE, c, Handle(desk, c))

\* The router does not know the palette: an Enter is a Commit to what is below it as well
\* (and an Escape a Cancel).
EnterInPalette ==
  LET below == Handle(desk, "Commit").desk IN
  /\ below # desk
  /\ \E c \in OnPalette : Sent(FALSE, c, Handle(below, c))

\* The sidebar writes the workspace itself; open activity does so through the runtime.
\* (The inbox is as Reports to every intent here.)
Wander ==
  /\ \/ \E ws \in {"Budget", "Categories", "Reports", "AllTransactions"} \ {desk.ws} :
          desk' = [desk EXCEPT !.ws = ws]
     \/ desk.budget /\ desk' = [desk EXCEPT !.ws = "Account", !.account = TRUE]
  /\ last' = Unnoted
\* The bar at the top asks no policy either: Inbox writes the workspace, Settings is the
\* intent, and the Data menu opens its dialogs over whatever is mounted.  (Its backups and
\* checks answer with a notification.)
GlobalBar ==
  /\ desk' \in {[desk EXCEPT !.ws = "Reports"], Handle(desk, "Settings").desk,
                [desk EXCEPT !.dialog = TRUE]} \ {desk}
  /\ last' = Unnoted
FocusRow ==
  /\ RegisterOpen(desk) /\ desk.budget
  /\ \E kind \in RowKinds : desk' = [desk EXCEPT !.row = kind]
  /\ last' = Unnoted
EditCategory ==
  /\ desk.ws = "Categories" /\ desk.budget
  /\ desk' = Mount(desk, "organizing", FALSE).desk
  /\ Noted(FALSE, "category", Mount(desk, "organizing", FALSE))
\* commit_session, of onboarding or of a launch
OpenBudget ==
  /\ ~desk.budget
  /\ desk' = [AtDesk EXCEPT !.budget = TRUE, !.ws = "Budget"]
  /\ Noted(FALSE, "budget", Became(desk', "done"))
CloseDialog == desk.dialog /\ desk' = [desk EXCEPT !.dialog = FALSE] /\ last' = Unnoted

TypeInEditor ==
  /\ desk.editor.kind # "none" /\ ~Submitting(desk)
  /\ \E valid \in BOOLEAN :
       desk' = [desk EXCEPT !.editor.typed = TRUE, !.editor.valid = valid,
                            !.editor.dirty = TracksEdits(desk.editor)]
  /\ last' = Unnoted

\* The answer of the worker
AnswerEditor ==
  /\ desk.editor.kind # "none" /\ Submitting(desk)
  /\ \/ desk' = [desk EXCEPT !.editor = NoEditor]
     \/ desk' = [desk EXCEPT !.editor.commit = "Errors"]
  /\ Noted(FALSE, "answer", Became(desk', "done"))

IntentsNext ==
  \/ Intend \/ EnterInPalette
  \/ OpenBudget \/ Wander \/ GlobalBar \/ FocusRow \/ EditCategory \/ CloseDialog \/ TypeInEditor \/ AnswerEditor

IntentsSpec == IntentsInit /\ [][IntentsNext]_intents
-----------------------------------------------------------------------------
\* What was typed is only lost the ways the program says it may be: saved by the worker,
\* discarded by a navigation command, or by a Cancel that warned before - never while it
\* is being saved.  The exemptions are what the code does: a command that opens another
\* editor replaces the one that is open, whatever its state; and the drafts that never set
\* dirty (transactions, categories, groups) go at the first Cancel.
\* An entry the palette offers is carried out, except the ones it cannot judge from its
\* context: what needs a row of a register nobody edits in, CloseAccount, which nothing
\* implements, AddTransaction in the reports, taken for a register, a transfer without an
\* account, and Commit or Cancel with nothing open.
IntentsKeepTheirWord ==
  [][/\ desk.editor.typed /\ ~desk'.editor.typed =>
          \/ last'.intent \in {"answer", "category", "budget"} \cup OpensSomething
          \/ ~Submitting(desk) /\ last'.intent \in Navigations
          \/ /\ ~Submitting(desk) /\ last'.intent = "Cancel"
             /\ ~desk.editor.dirty
     /\ last'.offered /\ last'.outcome = "unavailable" =>
          \/ last'.intent \in {"Edit", "Delete", "DeleteTransaction", "ToggleSelection"}
             /\ ~InRegister(desk, last'.intent)
          \/ last'.intent = "CloseAccount"
          \/ last'.intent = "AddTransaction" /\ desk.ws = "Reports"
          \/ last'.intent = "CreateTransfer" /\ ~desk.account
          \/ last'.intent \in {"Cancel", "Commit"} /\ desk.editor.kind = "none"]_intents
=============================================================================
