# MNAB in TLA+

MNAB is a single-user desktop budget program in Rust: an egui window, an application
runtime on the window's thread, and a worker thread that owns the only writable connection
to one SQLite file, `mnab-data/mnab.sqlite3`. This directory holds TLA+ modules of what the
program does, the configurations that check them with TLC, and proofs for TLAPS. Paths below
are relative to the crate (`src/app/runtime.rs` is the Rust file); line numbers are those of
the commit the modules were written from. `PROJECT.json` lists the components, the runs, which
lines of the source each definition stands for, the hazards of the code with the properties
that watch them, the findings and the theorems.

Contents: [the system](#the-system) · [the modules](#the-modules) · [the runs](#the-runs) ·
[bounds](#bounds) · [fairness](#fairness) · [the proofs](#the-proofs) ·
[only model-checked](#only-model-checked) · [not modelled](#not-modelled) ·
[findings](#findings-and-observations) · [plan](#what-is-left)

## The system

| Part | State it keeps | Operations | What makes it correct |
|---|---|---|---|
| storage worker (`src/storage/worker.rs`) | connection, message channel, response channel, stop flag, thread | start, submit, drain_ready, shutdown; the thread's loop | answers are true, ordered, complete; the stop is prompt and returns |
| financial executor (`src/storage/financial_executor.rs`, `sqlite_unit_of_work.rs`, `sqlite_repositories.rs`, `execute_batch` of `service/transaction_service.rs`) | the tables, one SQL transaction | execute: apply, audit, commit | all or nothing; a result only after the commit; the undo data restores what was there; a transfer keeps its two legs; no reference dangles |
| report cache (`src/storage/worker.rs`, `query_store.rs`) | results with their revision | report | a cached report is a report on the ledger as it is |
| runtime, commands (`src/app/runtime.rs`, `command.rs`) | command records, undo and redo stacks, generation, editor | dispatch, confirm, cancel, undo, redo, commit of an editor, drain | what is shown of a command is what happened to the ledger; history is exact; editors settle |
| runtime, view queries (`runtime.rs`, `state.rs`, `view_invalidation.rs`) | one `ViewQueryState` per projection, merged invalidations | request, accept, fail, invalidate | no late answer overwrites a newer one; every mutation reaches what is shown |
| intents (`app/command.rs`, `palette.rs`, `ui/keyboard.rs`, `ui/shell.rs`) | workspace, open editor, dialog | availability, routing, opening, cancelling and committing an editor | typed text is not lost unasked; what is offered is carried out |
| transaction draft (`app/transaction_editor.rs`, `ui/register/*.rs`) | the inline row and its split dialog | type, split, distribute, cancel, save | what is sent adds up and is what was entered |
| register, search, inbox (`app/register.rs`, `search.rs`, `inbox.rs`, `query_store.rs`) | pages, selection, query text and its AST | page, select, type, toggle, review | pages fit together; a query means one thing wherever it is read; selections are on the screen |
| process lifecycle (`src/main.rs`, `app.rs`, `app/lifecycle.rs`, `startup.rs`) | lifecycle state, shutdown steps, the clean-shutdown marker | launch, close, exit, shutdown, retry | the marker only vouches for what was saved; an unclean end is followed by a full check; closing is answered |
| backup, restore, repair, migration, onboarding (`service/backup_service.rs`, `storage/repair.rs`, `storage/migration.rs`, `service/onboarding_service.rs`, `app/budget_catalog.rs`) | files beside the ledger | snapshot, validate, retain, replace, migrate, create | no crash between two file operations loses a commit |
| settings (`app/settings.rs`) | settings.json and its temporary file | load, repair, change, save | a torn save is never read; a newer release's file is not written over; every column is shown once |
| calculation (`calculation/*.rs`) | none | budget month, credit card | envelopes and Ready to Assign are the booked money; what is set aside for a card stays in its limits |
| reports (`storage/query_store.rs`, `domain/report.rs`) | none | spending, income and expense, net worth, budget progress | the SQL agrees with the reference over what the user saved |
| ledger services (`service/{account,transaction,reconciliation,category}_service.rs`) | an in-memory `Ledger` and `CategoryCatalog`, which the running application does not use | add, edit, delete, transfer, reconcile, close, arrange | the two legs of a transfer agree; what was concluded from old rows is kept or marked; the arrangement stays ordered |
| assignments and targets (`service/assignment_service.rs`, `domain/target.rs`, `ui/budget_view.rs`) | assigned amounts, a projection of them on the screen | replace, move, distribute, preview, apply, undo | a batch does what was reviewed |
| schedules (`domain/schedule.rs`, `service/schedule_service.rs`) | series and occurrences | refresh, enter, skip, modify | an occurrence is entered once |
| import and merchant rules (`importing/*.rs`, `service/import_service.rs`, `service/merchant_rule_service.rs`) | staged batches, rules | parse, classify, decide, commit; learn, propose | a record enters twice only if the user said so; a proposal was earned |
| painting (`ui/*.rs`) | widget state | collects intents | (presentation) |

How they interact. A frame (`MnabApp::update`) handles a close request, drains all ready
responses of the worker, shows the widgets, dispatches the intents they collected, and,
when the lifecycle says so, runs `shutdown()` to its end. A financial intent becomes a
`RuntimeCommand`, is submitted as a `StorageRequest` through an mpsc channel, executed in
one SQL transaction, answered through a second channel, and matched with its record by
request, command and generation. A successful answer moves the undo history, merges
invalidations into one set per drain, releases the editor that waits for it, and makes
`process_invalidations` request the projections again. Both channels are unbounded; the
stop flag is the only memory the threads share. The in-memory services, the import workflow
and the merchant rules are libraries with tests of their own that the window does not call
yet.

What is hard: the frame handles answers later than the user acts; the stop flag is raised
while an operation runs; a view generation can change between a submission and its answer;
a shutdown fails half way and is tried again; the process is killed between two file
operations; what is stored is written in one shape and read back by queries in another; and
long sequences of calls that are each legal (undo of redo, edits of entered schedules, batches
over stale screens) meet state that was made for an earlier ledger. `PROJECT.json` lists each
hazard at its line.

## The modules

A component that other modules drive has no specification of its own; a subject has `Init`,
one action per operation, `Next` and a `Spec`. A call that the code refuses and that leaves
no trace is not a step. Capitalised definitions that end in `Mutant` are deliberate mistakes,
each placed before the definition it alters; no run uses them. They document, and serve to
check, that each property fails for a plausible bug.

### Threads, commands and the process

| Module | Models |
|---|---|
| `StorageWorker` | The worker: one action per step of the thread, and the calls on its handle. A component. |
| `RequestService` | What a session promises, without threads: requests served one at a time, settled (and stored) before they are answered. |
| `WorkerSession` | A `StorageWorker` driven by one client from start to the return of `shutdown()`; refines `RequestService`. |
| `CommandHistory` | The undo and redo stacks as operators on a record. |
| `CommandRuntime` | The runtime as the owner of commands, undo, editors and the account tree, composed with `StorageWorker` and `CommandHistory`. |
| `FinancialExecutor` | What the commands about rows do to the tables, the audit trail and the undo data. A component. |
| `LedgerEdits` | A user's session of edits, undos and redos: `FinancialExecutor` composed with `CommandHistory`. |
| `ReportCache` | The worker's cache of reports over the ledger of `LedgerEdits`. |
| `SessionLifecycle` | The process over its data directory, launch after launch. |

**StorageWorker.** `channel` and `responses` are the two mpsc channels, `stopping` the
`AtomicBool`. `thread` is the place in `run()`: *Receiving* at `rx.recv()`, *Received*
before the flag is read, *Executing*, *Replying* between the commit and `tx.send`,
*Closing* after the loop, *Exited*. The flag is read in a step of its own (`Admit`,
`CancelReceived`), so it can be raised before, between and after. The ledger is one value
per entity (`database`) with the audit trail (`audit`); a transaction is one step, as SQLite
makes it. Operations are reduced to what the runtime tells apart: a `Save` that carries
undo data, a `Post` that does not, and a `Query`. `Panic` stands for an unwinding thread:
its receiver is dropped, later submits fail, and join reports it. The loop that answers
what is queued behind `Message::Shutdown` is part of `ReceiveShutdown`. Progress messages
are left out: the runtime only logs them.

**CommandRuntime.** One action per entry point of the runtime: `Perform` (dispatch of a
financial action), `Undo` and `Redo`, `Confirm` and `Cancel` (public operations that no
widget calls today), the editor's `OpenEditor`, `CloseEditor`, `CommitEditor` and
`RejectDraft`, `ClickAccount`, `BeginShutdown` and `EndShutdown`. A drain is several steps
(`BeginDrain`, one step per response, `EndDrain` with `process_invalidations`), between
which the worker goes on. The status of a record omits *Queued* and *Submitting*: a record
is inserted and submitted inside one handler, so no other step sees them. Workspace
navigation with an open editor is `CloseEditor`, the same path in the code. Of a two-step
cancel of a dirty editor the second step is modelled; the first only clears a flag. The
tree response runs `resolve_startup_destination`, and with it `select_account` and the new
view generation: the reason it is in this module and the other projections are not.
`commit_session` runs once per process, so the budget part of a `Generation` is constant.

**FinancialExecutor.** Four tables: `accounts`, `transactions`, `assignments` and
`changeLog`, functions whose domain is the identifiers with a row, and `inverse`, the undo
data of the last result. One action per arm of `apply()` about them that something in `src/`
sends: the Delete arm of the transaction command and the batch actions SetCategory, SetPayee,
SetMemo and Void, which nothing sends, are left out. A command that is refused is rolled back.
The columns kept are those that validations, balances and pairings read. The uniqueness of names
and the foreign key from a transaction to its account come from the schema.
`BatchAllowed` is `batch_preflight`, `Affected` the extension of a selection to both legs of
a transfer. A restore has neither. Selections are explicit here; those by query are in
`RegisterQuery`. `SetApproval` is `SetClearance` on another column.

**LedgerEdits.** One action per thing the screens let the user send, each answered before the
next (what happens when it is not is `CommandRuntime`'s subject). `Undo` and `Redo` execute
the top of the stacks and rebind the entry to the inverse of that execution, as
`handle_command_response` does. A new identifier is one never given out before. `execution`
remembers, for each entry still on a stack, the ledger before and after its last execution.

**ReportCache.** `AskReport` computes the revision from `changeLog` as the SQL of
`report_revision` does, and serves or fills the cache; of the reports the net worth is
modelled, as the balances it is made of.

**SessionLifecycle.** `marker`, `ledger`, `dirty` and `unsaved` are the data directory: the
marker file, the state of the ledger file, transactions not checkpointed, settings not
saved. `phase` is between frames (*Idle*), in one of the three steps of `shutdown()`, or
*Off*. Every step of `shutdown()` may fail if the constant `Faults` names it, and `Kill`
may come between any two. A power failure while the worker is open can damage the file in
a way only `PRAGMA integrity_check` sees: that is all `ledger = "Damaged"` means. `dirty`
in a launch whose worker is closed is work in the WAL without a checkpoint. `LoseWindow` is an
event loop that ends without a close request: `on_exit` then runs `shutdown()` again. Settings
changed after the settings step are *Late*; no step saves them any more.

### Subjects that share no state

These modules are put side by side in `MCSubjects`: a behaviour chooses one subject in its
first state and works on it alone, so nothing is lost by not interleaving them, and each is
explored as if it had a run of its own.

| Module (subject) | State and actions, and how they correspond to the code |
|---|---|
| `Books` (books) | `accounts`, `rows`, `records`, `recalculateFrom` are the maps of the in-memory `Ledger`, `sessions` the `ReconciliationSession` values clients hold. One action per method of `AccountService`, `TransactionService` and `ReconciliationService` that goes through; `atomic` batches and both legs of a transfer are one step. A row a client supplies (`Add`, `Edit` of an ordinary row, `Correction`, `EditReconciled`) is any row of `ClientRows`, put whole under an id that is new or in use, body included: it can be the leg of a transfer. `overridden`, `patched` (the transfers such a row named or was put over) and `service` are history. |
| `Organization` (forest, catalog) | The account groups (`parentOf`, `groupOf`) with create, move, delete; the `CategoryCatalog` as the two vectors it is, with their positions and every command that reorders, hides, archives, links or deletes. |
| `Schedules` (schedules) | One `ScheduledTransaction`, its `OccurrenceStore` and the transactions entered. `Refresh`, `EnterNow`, `Skip`, `Dismiss`, the modification of one occurrence and of this and the following ones, the edit of a series with the version it was read at. Dates are days of a small calendar with months of uneven length; an occurrence's id, a hash of its identity, is the identity. |
| `StatementImport` (imports) | `classify`, the decisions of a review, `ImportService::commit` as the steps open, insert, finish, archive, each of which can fail; the process may die in between. The unit of work is a trait without an implementation in `src/`: it behaves as its comments ask (external). |
| `MerchantRules` (rules) | `rules` is the rule book; `RecordApproved` is `record_approved_outcome`, which confirms the learned rule the merchant and account lead to or adds one; `Proposals` is the choice of the winning rules. |
| `BudgetMonth` (budget) | The entries of a ledger made month by month, with two cards in the order of their ids, and as operators what `QueryStore::budget_month` reads of them and `calculate_chronological` and the card engine compute. |
| `Assignments` (assignments) | The map of `assignment_service`, its revision, undo tokens and a proposal under review: set, add, move, distribute, preview, apply, undo. |
| `BudgetScreen` (screen) | `BudgetUiState` over a projection read some time ago, the proposals of `Assignments`, and the executor's `Set` and `Batch` arms with the revision check; commands, commits and re-reads are separate steps. |
| `ViewQueries` (views) | `app` holds one `ViewQueryState` per projection, the queue of requests and the navigation state; one action per intent that asks for a projection, the worker's answers (which may fail), the drain with its invalidations, the replacement of the ledger. `OpenActivity` is `OpenTransactions`: it replaces the filter of the register and asks for nothing. An accepted month or catalog lets a category go that a commit deleted. |
| `RegisterPages` (register) | `table` is the ledger under a register; `PageAt` is `register_page` with its keyset cursor; `reading` the requests between runtime and worker; `AcceptPage` is `RegisterQueryState::accept` with `retain_valid_ids`; clicks, ranges and cursor moves of `TransactionSelection`. |
| `LedgerFiles` (files) | Each of migration, backup, retention, restore, repair and first run as the file operations it makes, in order; `FailTask` and `Stop` may come between any two, launches follow. A file is the set of commits it holds with its schema and quality. |
| `SettingsFile` (settings) | Load, `repair` of the layout, session changes and `atomic_save` as create, sync, rename with a kill between any two; other programs write the file too. |
| `Reports` (reports) | The tables as `put_transaction` writes them, against the transactions as the user saved them; the four SQL reports and the four of `domain/report.rs` as operators; save, delete, assign, target and undo as actions. |
| `RegisterQuery`, `Inbox` (search, batches) | `parse`, `canonical_text` and `compile` on token sequences, the SQL clauses, the batch selection of SQLite and of the memory repository with the search text each looks for in the memo, chips; the inbox's items, counts, review and destination as operators over the same rows. |
| `TransactionDraft` (draft) | `TransactionEditorState` and its split dialog: open a row, type, choose, split, distribute, commit, the answer, cancel; the two places that decide whether Save is enabled. |
| `Intents` (intents) | The state an intent reads (`desk`): keys, palette and buttons with the context each builds, `command_availability`, and `dispatch_ui` with the editor it opens, cancels or commits. |
| `MasterData` (masterdata) | The arms of `apply()` about accounts, categories, groups, payees, targets, schedules and dismissals as an operator from tables to tables and undo data; undo and redo execute that data; the category detail and its buttons. |
| `Maps` | Insertion into a map; used by several of them. |

`MC*` instantiate the modules for TLC and give the constants.

## The runs

| Run | Shows |
|---|---|
| `worker_session` | Three requests of any kind, a stop at any time, failures and panics. Answers are true of the ledger (`RepliesMatchStore`), nothing runs twice (`ExecutedOnce`), a stop that succeeds has answered everything (`CleanStopAnswersEverything`), nothing begins after the stop (`StopIsPrompt`), join returns (`StopReturns`), requests are answered unless the thread panicked (`EveryRequestAnswered`), and the whole implements `RequestService` (`ImplementsService`: answers come in order and none is skipped). |
| `impatient_user` | Three commands on one entity, a destructive one among them, undo depth 2, one retained finished record, panics. The status shown agrees with the ledger (`StatusMatchesLedger`), nothing runs twice and two live commands differ (`RunsOnce`), the stacks name committed commands in commit order (`HistoryInCommitOrder`), an editor closes by itself only after its commit (`EditorClosesAfterCommit`). |
| `patient_user` | The same runtime with a user who waits, a worker that does not panic, and two accounts: undo and redo are exact (`HistoryRoundTrips`), no record is left running in a session that stays open (`RunningSettles`; a drain or a new generation is no excuse), every submitted editor is released (`SubmittedEditorReleased`). |
| `undo_in_flight` (violated) | `UndoMovesItsOwnEntry` fails: with another command in flight the undo that commits moves the wrong entry. |
| `stale_editor` (violated) | `SubmittedEditorReleased` fails without patience: a tree refresh changes the generation, the answer is discarded, and the editor of a committed command stays submitting. |
| `lifecycle` | Three launches, all faults, kills: `MarkerMeansDurable`, `ClosesOnlyWhenComplete`, `CloseIsAnswered`. |
| `marker_after_failed_stop` (violated) | `MarkerAfterEveryStep` fails: the retry of a failed stop publishes the marker. |
| `unchecked_ledger` (violated) | `UncheckedLedgerStaysClosed` fails: after a refused start, one orderly exit and a quick suite open the ledger. |
| `ledger_edits` | Every session of four edits, undos and redos that starts from two accounts, a plain transaction and a transfer. A transfer has both legs, opposite and in distinct accounts, whatever was selected, deleted and taken back (`TransferPairsWhole`); what the stacks hold stays executable, but for a name another account has taken since (`HistoryStaysExecutable`); an undo takes back exactly what the last execution of its entry did (`HistoryIsExact`). |
| `redo_of_delete` (violated) | `RedoRepeats` fails: delete, undo, redo leaves the rows in the ledger. |
| `stale_report` (violated) | `ReportsAreCurrent` fails: the second report after an edit is the first one. |
| `subjects` | The subjects of `MCSubjects`, one at a time; its properties follow. |

| Property of `subjects` | What it says of the code |
|---|---|
| `TransfersPaired` | The two legs of a transfer name each other, have one date and opposite amounts under every call of the services, except the transfers that a row supplied by a client named or was put over: `add`, the `edit` of an ordinary row, a correction and `edit_reconciled` look at no other leg (an exemption, see the observations). |
| `PastIsKept` | A reconciliation that stands describes its rows and shares none with a later one; every change of old rows either tells the reconciliation that covers them or is one of the overrides the code allows; `recalculation_from` reaches back to the dates a call of `TransactionService` left or wrote, but for the new date of an edited ordinary row and the old date of a row `add` wrote over. |
| `OrganizationSound` | No group becomes its own ancestor or hangs under one that is gone; the catalog holds each group and category once and no category without its group; positions of groups and categories are 0, 1, 2, ... whatever was moved, deleted and relinked. |
| `EnteredOnce` | Transactions entered and occurrences marked Entered correspond one to one, with their dates, through refreshes and edits of the series. |
| `DuplicatesAreChosen` | Across failures, crashes, retries and repeated commits, a row that is the same record as one imported before its statement was staged is in the ledger only because the user overrode an exact duplicate or accepted an ambiguous row by itself, never in bulk. A statement is not compared with itself: see the observations. |
| `ProposalsAreEarned` | A category is proposed by an explicit rule, or after three approvals for that merchant and account. |
| `EnvelopesAreBacked` | Ready to Assign, the envelopes and what was given to payment categories are the money booked plus unpaid card overspending, in every month. On a card that is only charged and repaid, the cash set aside is no more than the card is owed, and no less than that without what was charged beyond the assignments of the month of the purchase. |
| `BatchesDoWhatWasReviewed` | A batch that commits replaces the amounts the user saw, whatever batches were confirmed or undone since. |
| `ShowsWhatWasAsked` | A screen that is neither loading nor in error shows the month, category, catalog, filter or report it claims to. Exempt: a month about to be asked for, a detail whose category was let go, and the register between `OpenTransactions` and its next request. |
| `NeverStaleUnnoticed` | At rest, a projection that claims to be current was read after the last commit that announced a change of it. |
| `PagesFitTogether` | No row twice on the screen; pages read from one ledger are its first rows in order, and all of them when there are no more. |
| `SelectionIsShown` | Selected rows, anchor and cursor are on the page shown, or are the row just saved. |
| `LedgerFileSurvives` | Every commit is in a complete file of the data directory, wherever a file operation was cut short. |
| `SettingsSurvive` | settings.json is foreign or a complete save, a newer release's file stays, every known column is shown once. |
| `ReportsMatchBooks` | The four SQL reports over the stored rows are the reference reports over what the user saved, for every filter of the controls. |
| `QueriesAgree` | The text of a filter parses back to it; a batch over a query without search text changes the rows the query shows, both in SQLite and in the memory repository; an inbox item opens a register with its row. The search text of a query is exempt (see the observations). |
| `DraftsAddUp` | What the editor sends adds up and is what was entered, through the split dialog, a failed save and a retry; a reconciled row is sent only with its protection lifted. |
| `IntentsKeepTheirWord` | Typed text is lost only by a save, a navigation or a Cancel that warned; what the palette offers is carried out. |
| `MasterDataHolds` | Undo of a master data command takes it back, no reference dangles, and screens and executor agree about what may be deleted. |

The six violated properties are what a comment or a document of the repository says;
`PROJECT.json` quotes it under `findings`. `HistoryRoundTrips` and
`SubmittedEditorReleased` hold in `patient_user` and not without its assumption: the two
findings are the price of not waiting. Where a property of `subjects` exempts something, the
exemption is a thing the code does, named in the property's comment and under
[observations](#findings-and-observations).

## Bounds

Every bound is a constant; the theorems hold without them.

* `worker_session`, `impatient_user`, `patient_user`: `MaxRequests`, `MaxCommands` 3. Two requests
  are needed for order and for one in flight behind another, a third for a stop, an undo
  or a pruning between them. One entity with two values lets a save, its inverse and an equal
  save collide, which is when the deduplication key and the rebinding of undo data matter.
  `TerminalCapacity` 1 and `HistoryCapacity` 2 make pruning and the bounded stack happen
  within three commands; the program has 64 and 100.
* `lifecycle`: `MaxLaunches` 3. The chain unclean end, refused start, wrong start takes three.
* `ledger_edits`: `MaxCommands` 4, two edits with an undo of each, or an edit, its undo, redo and
  undo again, over every choice of rows; the stack holds two entries, so it overflows; a third
  account and a third name allow a creation, its undo and the taking of the name.
* books: `MaxCalls` 3 from a new ledger, one with a transfer, and one with two open
  reconciliation sessions over the same rows; `MaxRows` 4, two dates, one amount; client rows of both accounts and
  dates, one that claims to be reconciled and one that is a leg of a transfer. Two calls make a
  conflict, the third observes it.
* forest, catalog: three account groups (a cycle of three), one account, two category groups
  with up to two categories and a card; no bound on moves, the state space is finite.
* schedules: a calendar of three months whose second is too short, `LookAhead` 2,
  `MaxVersion` 2 (one edit after entries), `MaxSteps` 5. imports: `MaxImported` 3, so that a
  second statement meets the rows of the first, and a commit is repeated after a failed archive;
  a statement of one row and one of two.
* rules: `MaxApprovals` 6, three for each of two categories; rule books with none, one
  and two conflicting explicit rules.
* budget: two months, one envelope, two cards (so that the last one's overspending is seen to win),
  one amount, `MaxEntries` 4: a purchase, its refund, a payment and an assignment in every order and
  month.
* screen: one row, `MaxLog` 3: a batch, a single assignment and an undo. assignments:
  `MaxRevision` 3, the amount -3, which two categories cannot share.
* views: two months, accounts and categories, `MaxMoves` 3, `MaxCommits` 2 of the
  two commands that announce least and most. register: `PageSize` 1, `MaxReads` 3 and
  `MaxRegisterRows` 2: a page, then the next one racing a newer first page, with a row inserted,
  redated or removed between them.
* files: `MaxFaults` 1, `MaxWrites` 2, `MaxBackups` 2, retention with `KeptManual` 1 and no
  days (so that it has something to remove), a ledger of an older release or none.
* settings: three columns, `MaxEdits` 4: a foreign write, a launch that repairs it, a change and a
  save that is cut short.
* reports: `MaxSaved` 2 of a split, card, archived, opening-balance and transfer transaction
  on three kinds of account; controls of eight kinds. A month has two days and a year two
  months, so that every timeframe has an inside and an outside.
* search: `MaxTyped` 4 of seven tokens (blank, quote, backslash, two fields, comparison, number),
  `MaxTerms` 2; batches: every subset of a pool of five rows, `BatchLimit` 3.
* draft: `MaxDraftSteps` 6 (open, split, change, save, answer, retry); `MaxMoney` 2 is the end of
  Money. intents: no bound, the state space is finite.
* masterdata: `MaxCommands` 3: two commands and an undo, or a command, its undo and its redo.

Deadlock is not checked because a session that stopped, a user who does nothing, a last
launch and the bounds above are legitimate ends.

## Fairness

Weak fairness of the worker's progress (the operating system runs a thread that can run;
`Panic` is never forced), of the frame's drain (while a command record exists
`has_pending_work` requests a repaint every frame, and every frame drains), of the return of
a join on an ended thread, and, in `SessionLifecycle`, of the frame that follows a close
request and of the steps of `shutdown()`, which run in one call. Nothing obliges the user
to act and no failure is required or excluded. The subjects promise no liveness: what they
do is done in calls that return.

## The proofs

Every theorem holds for all values of the constants that the named assumptions allow
(`WorkerAssumption`, `SessionAssumption`, `RuntimeAssumption`, `LifecycleAssumption`,
`BooksAssumption`, `CalendarAssumption`, `RulesAssumption`, `FilesAssumption`,
`SettingsAssumption`, `OrganizationAssumption`, `RegisterAssumption`, `ViewsAssumption`,
`HistoryAssumption`, `EditsAssumption`, `ImportsAssumption`, `AssignmentsAssumption`,
`MasterAssumption`; each says
that ids are ids, dates, months and amounts are integers, a target that is no card's payoff has a
positive amount (`Target::new` refuses another), markers such as `Torn` are not contents, the sets
of ids are finite, a page holds a row, a statement is a list; `EditsAssumption` adds that the ledger
a user starts from has whole transfers and no transaction without its account). TLC evaluates them
in the runs. None of the properties is inductive; the invariant that is was checked
with TLC before it was proved.

| Module | Theorem | Property |
|---|---|---|
| `WorkerSession_proofs` | `TypeCorrect`, `RepliesAreTrue`, `NoCommandTwice`, `CleanStopIsComplete`, `StopCutsIn` | `TypeOK`, `RepliesMatchStore`, `ExecutedOnce`, `CleanStopAnswersEverything`, `StopIsPrompt` |
| | `SessionImplementsService` | `ImplementsService`, the refinement |
| `CommandRuntime_proofs` | `StatusIsTheLedgers`, `CommandsRunOnce`, `HistoryFollowsCommits`, `EditorsCloseOnSuccess` | `StatusMatchesLedger`, `RunsOnce`, `HistoryInCommitOrder`, `EditorClosesAfterCommit` |
| `LedgerEdits_proofs` | `TransfersStayWhole`, `HistoryTakesBack` | `TransferPairsWhole`, `HistoryIsExact` |
| | `HistoryStaysAllowed` | (the guards of `HistoryStaysExecutable`) |
| `Books_proofs` | `TransfersStayPaired`, `ThePastIsKept` | `TransfersPaired`, `PastIsKept` |
| | `DuplicatesChosen`, `ReviewedIsDone` | `DuplicatesAreChosen`, `BatchesDoWhatWasReviewed` |
| `Services_proofs` | `OccurrencesEnterOnce`, `ProposalsEarned` | `EnteredOnce`, `ProposalsAreEarned` |
| | `CommitsSurvive`, `SettingsOutliveSessions` | `LedgerFileSurvives`, `SettingsSurvive` |
| | `ArrangementSound`, `MasterDataSound` | `OrganizationSound`, `MasterDataHolds` |
| `Screens_proofs` | `PagesAlwaysFit`, `SelectionAlwaysShown` | `PagesFitTogether`, `SelectionIsShown` |
| | `LastQuestionShown`, `StaleIsNoticed` | `ShowsWhatWasAsked`, `NeverStaleUnnoticed` |
| | `WordKept` | `IntentsKeepTheirWord` |
| | `MarkerIsHonest`, `WindowClosesComplete` | `MarkerMeansDurable`, `ClosesOnlyWhenComplete` |

**The worker.** What makes an answer stay true is that its command cannot run later, which
follows from the order of identifiers: requests wait in the channel in that order, the request
in service is older than all of them, and every command in the audit trail or answered is older
than every unsettled one (`LedgerInv`). For a clean stop, `StopInv` adds that `Shutdown` is the last
message of the channel (`ShutdownLast`), that a thread that ended cleanly answered last with
`Terminated` (`EndsInOrder`), and that answered, waiting and served requests make up what was
issued (`EveryRequestAccounted`), unless the thread unwound. The refinement maps the channel to the service's
queue and the channel of answers to its answers; the mapping counts what has been taken
(`SubSeq` of the list of what was ever sent) instead of filtering, so that each step of the
thread is seen to move one end of one interval.

**The runtime.** A command is *due* while its request waits in the channel or is served.
`CommandInv` says each command is due in one place only, under a record that is Running, that
what is answered, committed or finished is not due any more (so its fate cannot change), and
that answers on their way are faithful to the audit trail. `OrderInv` adds that the undo stack,
the redo stack read downwards, and the answers on their way, in this order, name commits in the
order of the audit trail: an undo moves the end of one to the end of the other, and what
arrives is younger than both.

**The edits.** What the stacks hold was written for an earlier ledger, so the invariants say how
past and present fit. `PairsInv`: the ledger and every table of rows that a command on a stack
would write are *consistent* (`Consistent`: each has whole transfers only, and any two agree on
which rows are legs of which transfer); then whatever a command makes of the ledger out of such
tables is whole again. That identifiers are never given out twice keeps a new transfer apart from
all of them. `ExactInv` is about values: for each entry, what its undo would write is what was
there before its last execution, in exactly the cells that execution changed (`Matches`,
`BringsBack`), creation of an account with its opening excepted, whose undo only closes it. An
entry that made an assignment came after every entry that changes another amount of it
(`MadeOnce`). The redo of what was inserted again is the empty restore of the finding, the
exception in `RedoOK`. `RefersInv` adds that every account a command on a stack names is there:
so the command meets every condition of the executor (`Allowed`), the schema's unique names
excepted.

**The lifecycle.** `LifecycleInv` says which steps are done at each phase, that a launch that
accepts input has no marker, and that once the worker is gone what it did not checkpoint
is accounted for by `stopFailed`.

**The books.** `PairsInv` is `Sound`, the shape of ledgers and sessions, and `TransfersStand`: the
legs of each transfer no client's row was ever about are two rows that name each other. A client
may put any row under any id, so such a row takes the transfers it names, and those of the row it
replaces, out of what is promised (`patched`); every other way of changing a ledger preserves the
legs of the transfers it does not touch (`StandingKept`), and whole transfers are made and removed
as two rows. `PastInv` follows each completed reconciliation: the rows a standing one selected
are there, reconciled and in its account, unless an override was recorded since (`RecordsHold`).

**The imports.** `DuplicatesAreChosen` spans several imports: a row is classified when its
statement is staged and inserted much later, perhaps twice. `ImportsInv` follows it: each staged
candidate (`StagedInv`) and each row of the open transaction (`InsertingInv`) is `Weighed`, which
says that an equal record among the rows known at staging made its class an exact duplicate or
ambiguous, and that it is accepted only in the way its class allows (in bulk if it is new, with an
override if it is an exact duplicate). A commit appends rows, so what was known at staging is
still the beginning of the ledger, and the accepted rows are a list of candidates
(`AcceptedIsSequence`), also when a commit is repeated.

**The batches.** `ScreenInv`: a preview, a batch on its way or an inverse was made at a revision
and a number of single assignments not later than the present ones, and if neither has moved
since, the amounts are those it says it replaces (`Fits`). A batch that commits has the present
revision, hence fits. For the in-memory service `AssignInv` says that no entry is zero, that a
reviewed preview has the total of its differences, and that a token restores, from what its call
left, what was there before (`Restores`). That the calls add up needs sums: a total does not
depend on the order in which it is added (`TotalIsSum`), differences add (`TotalsAdd`), equal
shares multiply (`TotalOfEqual`), a fold over a list of changes leaves each category with the last
amount written (`WritesAll`), and truncating division leaves a rest smaller than the divisor, of
the sign of the amount (`RestIsSmall`).

**The services.** `ScheduleInv` says that the occurrences are a finite map of typed records
and that what was entered and what is marked Entered correspond; each operation that changes
one occurrence finds it by id and finds it pending (`FoundIsPending`), which is what keeps a
second entry out. `RulesInv`: a learned rule is *earned* (its account is a real one, its usage
is at most the number of approvals counted for its outcome, and high confidence needs a usage of
three); each approval raises one usage and one count together.

**The arrangement.** The walk up from a group is the least set that holds it and, with a known
group, its parent (`WalkIsLeast`): after as many steps as there are groups it meets nothing new.
So a create, move or delete keeps the forest if each group has *some* closed set of known groups
above it that lacks it (`ForestKept`), and the proof names one: what was above it before, with
what is above the new parent. In the catalog every command either changes no id, group or
position, or ends in a vector that is numbered again; the places `normalize` gives are
0, 1, 2, ... each once because of two items one is ahead of the other (`PlacesCount`), and
taking an item out and putting it in elsewhere is a permutation (`MovedRearranges`).

**Master data.** The theorem starts from any tables that are whole (`Whole`: typed rows, and
every reference resolves; the tables the run starts from are). For each arm of `apply()` one lemma
(`AccountsBack`, `CategoriesBack`, `PayeesBack`, `TargetsBack`, ...) says that what it leaves is
whole and that `Back` holds: the undo it handed out is accepted by the tables it left and gives
those before, and the redo after it gives those it left. This needs that a table with an entry
written and then put back is what it was (`WrittenBack`), that `put_account` keeps the stored type
so that an update and its inverse agree (`AccountRestored`), and that a category whose group has
gone would not be written back: references resolve, so the group of every stored category is
there. `MasterInv` adds that the detail on the screen shows a category, though perhaps one that is out of
date. `AdviceAddsUp` is the arithmetic of `recommend`, rounded up by truncating division.

**The files.** `FileInv`: at each step of each task a commit is in the ledger or in a copy that
the task still knows (`TaskOK`, `AllKept`), the backup a restore makes has all of the present
ledger before the rename (`BackupFirst`), and an unmigrated ledger is migrated before anything
else, with the copy made before it being of it (`OldLedger`). `SettingsInv`: what is on disk is
foreign or a complete save (`FilesTyped`) and a save in progress is of what this session shows
and may write (`SavesOwn`); `repair` lists each known column once because it is a fold that adds
a column only if the list lacks it.

**The register.** `Screens_proofs` first shows that a finite set of rows has one listing in
register order (existence by removing the oldest row, uniqueness by the first place where two
listings differ). What lies past a row's key is then the rest of the listing after that row, so
a page read at that key continues the pages before it (`NextPageJoins`). `RegisterInv` carries
this through the asynchronous reads: requests wait in the order of their ids, an answer is a
page of some ledger from the cursor asked for, the latest request has the query's cursor, and
a page shown is the start of the only ledger it was read from. A page read from two ledgers
promises only distinct rows, which `accept` checks.

**The projections.** `ViewsInv` says of each query that a request or answer on its way which is
the latest of its projection carries the key asked last (`OnItsWay`), so only the last question
can be answered (`Consistent`); and of each commit that its answer was dropped by a new
generation, or is still on its way, or that whatever it announced is due, was asked for since, or
was read since (`Heard`). Within a drain the invalidations accumulate while answers settle queries:
`DrainHandles` follows the fold over the answers and `InvalidationsAsk` the chain of requests after
it, which asks for each due projection exactly under its present key. `NamesInv` relates questions
to what the screen claims: the catalog was last asked for with the setting shown, the detail for
the selected category, which it may outlive; the month is asked for or due. The register is the
exception: its filter changes without a request, and the property says so.

**The intents.** Two facts about the desk are enough as an invariant: the workspace of an account
has an account, and nobody types where no editor is open (`DeskOK`). The work is that `dispatch_ui`
is a chain of early returns: `HandleArms` says that every intent is answered by one of eight
arms, each arm has a lemma about what it may lose (`CancelIs`, `CommitIs`, `LeaveIs`, ...), and
`OfferedIsDone` compares what `command_availability` lets the palette offer with what the arms
then refuse.

**SetLemmas.** The provers cannot instantiate the library's induction theorems, which take an
operator. What is needed of finite sets is proved once as a smallest counterexample: among the
subsets of a finite set that lack a property there would be one none of whose strict subsets
lacks it. From it follow least and greatest elements, an induction over subsets, and that the
folds of the community modules (`FoldLeft`, `MapThenSumSet`) keep what their step keeps.

## Only model-checked

* Liveness: `StopReturns`, `EveryRequestAnswered`, `RunningSettles`, `SubmittedEditorReleased`,
  `CloseIsAnswered`. `ENABLED` and fairness are out of the prover's reach.
* What a computation over data yields for every input: `EnvelopesAreBacked`, `ReportsMatchBooks`,
  `QueriesAgree`, `DraftsAddUp`, `HistoryRoundTrips` (folds over stacks). They would need
  induction over the data, and some use `RECURSIVE` operators or `SortSeq`.
* `HistoryStaysExecutable`, which says with `ENABLED` that the executor takes what the stacks
  offer. `HistoryStaysAllowed` proves that each condition of the executor's arms holds; that an
  action whose conditions hold is enabled is left to TLC.

## Not modelled

The statement parsers (character-level text), row mapping and the text of SQL statements,
painting and layout, names and notes, logging, the fatal-startup screen, progress and
cancellation of a running backup, saved filters and recent searches (no caller), and
`force_exit`, which nothing calls. Each module's header says which columns and fields it leaves
out.

## Findings and observations

The findings with a run are in `PROJECT.json`. While translating the source the following was
also met; the models do what the code does, and the properties exempt it where they would say
otherwise.

* Master data. The SQL of `category_catalog` (`query_store.rs:90`) loses the blank before
  `WHERE`, so the query fails on every ledger. The category detail is not read again after a
  category command (`runtime.rs:864`), so Hide after Archive writes the archived flag back
  (`categories.rs:110`); `MasterDataHolds` looks at the buttons only while the detail is what is
  stored. `category_is_used` and `payee_is_used` look at some referring tables
  only. The undo of an edited target deletes it. `put_category`, `put_target` and `put_assignment`
  report success while storing nothing when the parent row is missing; `put_account` never
  updates the type.
* Assignments. Moving money from a category to itself creates the amount; an Equal
  distribution drops the remainder; undo tokens can be used out of order. The budget screen's
  single edits leave the revision alone.
* Inbox. Nothing in `src/` implements `InboxSource`; `advance_after_resolution` can go back and
  forth between two items.
* Drafts and intents. Save is disabled for a transaction of one category with an amount
  (`editor.rs:83`). Opening another editor replaces one that is dirty or submitting; transaction
  drafts never set `dirty`. `CloseAccount` is offered and never handled. Confirmations of
  destructive commands, restore and repair can be asked for and never given.
* Commands. The record of a command whose answer is discarded with its view generation, or whose
  worker panicked, stays Running: `RunningSettles` is about a user who waits and a worker that
  does not panic.
* Projections. `OpenTransactions` replaces the register's filter and asks for nothing
  (`runtime.rs:1912`), so the rows of the previous filter stand under the new one, although
  `docs/category-operations.md:16` says that the filter is used. If a register request is under
  way just then, its answer no longer fits the filter and is rejected, and the register stays
  loading until a commit makes the screen ask again. `docs/category-operations.md:26` names the
  projections a category change concerns; the list of payees is the only one that is asked for,
  and `NeverStaleUnnoticed` speaks of announced changes only.
* Queries. Text search fails: its `ESCAPE` has two characters (`query_store.rs:1590`). A batch
  over a query ignores its categories and applies the limit before the filter. A batch over a
  searched register looks for the text as typed in the memo (`sqlite_repositories.rs:257`), where
  the register parses it into terms about several fields; `QueriesAgree` compares the rows of a
  batch with those shown for registers that are not searched. Category reports
  ignore the scope Tracking; a category with two targets has two rows of progress.
* Books. A correction of one leg of a transfer leaves the other as it was and compares no token;
  `complete()` does not look at the difference again; an edit invalidates from the old date only.
  `add` writes over a row whose id is in use (`transaction_service.rs:268`): it asks for no
  confirmation if the row is reconciled and recalculates from the new date only. `add`, `edit`,
  a correction and the edit of a reconciled row take any body, a leg of a transfer too, which
  leaves a transfer with one leg or three; `TransfersPaired` promises nothing of such a transfer.
  `reorder_group_before` has no effect.
* Schedules. A refresh that fails midway leaves the occurrences it had inserted; some edits of
  a series lose or repeat a date.
* Budget. `budget_month` reads `transaction_splits`, while splits are stored in
  `subtransactions`; a category overspent in cash and on a card in one month drops the cash part. Money carried over from
  an earlier month funds no card purchase: the card engine is given the month's assignment
  (`query_store.rs:1269`), where `credit_card.rs:30` and `budget_month.rs:287` speak of what the
  category has available, so the envelope pays and the payment category receives nothing.
  Each card is given the whole assignment, less nothing for cash spent or for the other card,
  and of several cards the last one's overspending is the one kept (`budget_month.rs:217`).
* Files. Repair killed between its renames leaves no live ledger until the next launch restores
  one; onboarding killed between migration and the transaction of the budget leads to recovery on
  every later launch. A read error of settings.json other than not-found counts as a missing
  file and is written over.
* Import. A candidate whose FITID and fingerprint name two rows is ambiguous rather than
  a duplicate; a failure to archive after the commit is reported as a failed commit, and a
  second commit of the same staged import inserts the accepted rows again. The ambiguity also
  means that a plain repetition of a row with a FITID can be accepted without the override an
  exact duplicate asks for. `decide` and `resolve_duplicate` write a decision unchecked. The
  schema's unique pair of account and FITID is not counted on, since no code inserts there.

## What is left

The plan is done but for what the tools cannot reach (above). Of the properties that are only
model-checked, `EnvelopesAreBacked` is the one whose proof would say most; it needs sums along a
chain of months, which `SetLemmas` has for sets and lists but not for a recursion over the calendar.
