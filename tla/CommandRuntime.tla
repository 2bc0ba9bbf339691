---------------------------- MODULE CommandRuntime ----------------------------
(***************************************************************************)
(* The application runtime as the owner of financial commands              *)
(* (src/src/app/runtime.rs), composed with its storage worker: the user    *)
(* dispatches, undoes, redoes and edits on one thread while the worker     *)
(* executes on the other, and the frame loop drains what is ready.         *)
(*                                                                         *)
(* One budget session is modelled, from the hydration that opens it to the *)
(* shutdown that closes it: commit_session runs once per process, so the   *)
(* budget part of a Generation is constant and "generation" is its view    *)
(* part.  Of the view requests only the account tree is kept: its response *)
(* is the only one that changes what command responses are matched with.   *)
(***************************************************************************)
EXTENDS StorageWorker, CommandHistory, FiniteSets
LOCAL INSTANCE SequencesExt

CONSTANTS
  Destructive,       \* values whose Save needs confirmation (a delete)
  Accounts,          \* the open accounts of the budget
  StartupAccount,    \* where resolve_destination lands, if Accounts # {}
  NoAccount,         \* Option::None of the selected account
  TerminalCapacity,  \* how many finished commands are retained
  MaxCommands,       \* bound: commands the user dispatches
  Patient            \* whether the user waits for the screen to settle

ASSUME RuntimeAssumption ==
  /\ Destructive \subseteq Values
  /\ Accounts # {} => StartupAccount \in Accounts
  /\ NoAccount \notin Accounts
  /\ TerminalCapacity \in Nat
  /\ MaxCommands \in Nat
  /\ Patient \in BOOLEAN

VARIABLES
  ui,               \* "Idle", "Draining" inside a drain, "Joining", "Stopped"
  nextRequest,      \* allocate_request
  nextCommand,      \* identifier of the next command
  generation,       \* the view generation responses are matched with
  pending,          \* pending_commands: the retained command records
  terminalSequence, \* orders the finished records for pruning
  history,          \* the undo and redo stacks
  historyOps,       \* history_operations: commands that are an undo or a redo
  editor,           \* the mounted editor and the command it waits for
  selected,         \* the selected account
  tree,             \* ViewQueryState of the account tree
  stale,            \* whether merged invalidations include Accounts
  ready             \* responses of this drain that are still to be handled

runtimeVars ==
  <<ui, nextRequest, nextCommand, generation, pending, terminalSequence,
    history, historyOps, editor, selected, tree, stale, ready>>
vars == <<workerVars, runtimeVars>>

-----------------------------------------------------------------------------
(* CommandStatus.  A record is inserted and submitted in one handler, so   *)
(* Queued and Submitting are never observed; "Absent" stands for a command *)
(* that has no record, not dispatched yet or pruned.                       *)
Live == {"AwaitingConfirmation", "Running"}
Terminal == {"Committed", "Failed", "Cancelled"}

CommandIds == 1..MaxCommands

\* RuntimeCommand; request and generation are those of its StorageRequest.
NoRecord ==
  [op |-> Post, status |-> "Absent", request |-> 0, generation |-> 0, sequence |-> 0]

\* EditorMetadata: commit_state and pending_command_id (0: none).
NoEditor == [state |-> "None", command |-> 0]
FreshEditor == [state |-> "Editing", command |-> 0]
FailedEditor == [state |-> "Failed", command |-> 0]
-----------------------------------------------------------------------------
TreeRequest(id, g) == [id |-> id, op |-> Query, command |-> 0, generation |-> g]

\* commit_session and hydrate_session: the account tree is already requested.
Init ==
  /\ WorkerStarted
  /\ channel = <<Work(TreeRequest(1, 0))>>
  /\ ui = "Idle"
  /\ nextRequest = 2
  /\ nextCommand = 1
  /\ generation = 0
  /\ pending = [c \in CommandIds |-> NoRecord]
  /\ terminalSequence = 0
  /\ history = EmptyHistory
  /\ historyOps = [c \in CommandIds |-> "None"]
  /\ editor = NoEditor
  /\ selected = NoAccount
  /\ tree = [request |-> 1, generation |-> 0, refreshing |-> TRUE]
  /\ stale = FALSE
  /\ ready = <<>>

-----------------------------------------------------------------------------
(* Submission                                                              *)

RequiresConfirmation(op) == op.kind = "Save" /\ op.value \in Destructive

\* Mutant: only what the worker already has is compared.
DuplicateMutant(op) ==
  \E c \in CommandIds : pending[c].status = "Running" /\ pending[c].op = op

\* The deduplication key is the action itself.
Duplicate(op) ==
  \E c \in CommandIds : pending[c].status \in Live /\ pending[c].op = op

\* fail_record
FailedRecord(r) ==
  [r EXCEPT !.status = "Failed", !.sequence = terminalSequence + 1]

\* submit_runtime_command: the record runs, or fails if nothing takes it.
SubmitCommand(c, r) ==
  LET placed == [r EXCEPT !.request = nextRequest, !.generation = generation] IN
  /\ nextRequest' = nextRequest + 1
  /\ IF CanSubmit
       THEN /\ Send([id |-> nextRequest, op |-> r.op, command |-> c,
                     generation |-> generation])
            /\ pending' = [pending EXCEPT ![c] = [placed EXCEPT !.status = "Running"]]
            /\ UNCHANGED terminalSequence
       ELSE /\ pending' = [pending EXCEPT ![c] = FailedRecord(placed)]
            /\ terminalSequence' = terminalSequence + 1
            /\ UNCHANGED channel

\* dispatch, for a financial action: ignored, parked or submitted.
Dispatch(op) ==
  LET c == nextCommand
      fresh == [NoRecord EXCEPT !.op = op] IN
  IF Duplicate(op)
    THEN UNCHANGED <<nextCommand, nextRequest, pending, terminalSequence, channel>>
    ELSE /\ nextCommand' = c + 1
         /\ IF RequiresConfirmation(op)
              THEN /\ pending' = [pending EXCEPT ![c] =
                                   [fresh EXCEPT !.status = "AwaitingConfirmation"]]
                   /\ UNCHANGED <<nextRequest, terminalSequence, channel>>
              ELSE SubmitCommand(c, fresh)

\* Nothing is under way between the two threads.
Settled == channel = <<>> /\ responses = <<>> /\ thread = "Receiving"

\* The user acts between frames; a patient one also waits for the answers.
UserActs == ui = "Idle" /\ (Patient => Settled)
UserDispatches == UserActs /\ nextCommand <= MaxCommands

untouchedByUser ==
  <<responses, stopping, thread, current, exit, database, audit,
    ui, generation, history, tree, stale, ready>>

Perform(op) ==
  /\ UserDispatches
  /\ Dispatch(op)
  /\ UNCHANGED <<untouchedByUser, historyOps, editor, selected>>

\* dispatch_ui for Undo and Redo: the stack moves when the command commits.
PerformHistory(op, direction) ==
  /\ UserDispatches
  /\ Dispatch(op)
  /\ historyOps' = IF pending'[nextCommand].status # "Absent"
                     THEN [historyOps EXCEPT ![nextCommand] = direction]
                     ELSE historyOps
  /\ UNCHANGED <<untouchedByUser, editor, selected>>

Undo == CanUndo(history) /\ PerformHistory(NextUndo(history), "Undo")
Redo == CanRedo(history) /\ PerformHistory(NextRedo(history), "Redo")

\* confirm_command
Confirm(c) ==
  /\ UserActs
  /\ pending[c].status = "AwaitingConfirmation"
  /\ SubmitCommand(c, pending[c])
  /\ UNCHANGED <<untouchedByUser, nextCommand, historyOps, editor, selected>>

\* Mutant: a command the worker has been given can be cancelled too.
CancelMutant(c) ==
  /\ UserActs
  /\ pending[c].status \in Live
  /\ pending' = [pending EXCEPT ![c].status = "Cancelled"]
  /\ UNCHANGED <<untouchedByUser, channel, nextRequest, nextCommand,
                 terminalSequence, historyOps, editor, selected>>

\* cancel_command: a command the worker has not been given.
Cancel(c) ==
  /\ UserActs
  /\ pending[c].status = "AwaitingConfirmation"
  /\ pending' = [pending EXCEPT ![c].status = "Cancelled"]
  /\ UNCHANGED <<untouchedByUser, channel, nextRequest, nextCommand,
                 terminalSequence, historyOps, editor, selected>>

-----------------------------------------------------------------------------
(* Editors                                                                 *)

\* Every "begin" intent mounts a fresh editor, whatever is mounted.
OpenEditor ==
  /\ UserActs
  /\ editor' = FreshEditor
  /\ UNCHANGED <<untouchedByUser, channel, nextRequest, nextCommand, pending,
                 terminalSequence, historyOps, selected>>

\* Cancel, and workspace navigation: refused while the editor is submitting.
CloseEditor ==
  /\ UserActs
  /\ editor.state \in {"Editing", "Failed"}
  /\ editor' = NoEditor
  /\ UNCHANGED <<untouchedByUser, channel, nextRequest, nextCommand, pending,
                 terminalSequence, historyOps, selected>>

\* commit_editor with a draft that validates, for any command an editor builds.
CommitEditor(op) ==
  /\ UserDispatches
  /\ editor.state \in {"Editing", "Failed"}
  /\ ~RequiresConfirmation(op)
  /\ Dispatch(op)
  /\ editor' = IF pending'[nextCommand].status = "Running"
                 THEN [state |-> "Submitting", command |-> nextCommand]
                 ELSE FailedEditor
  /\ UNCHANGED <<untouchedByUser, historyOps, selected>>

\* commit_editor with a draft that does not.
RejectDraft ==
  /\ UserActs
  /\ editor.state \in {"Editing", "Failed"}
  /\ editor' = FailedEditor
  /\ UNCHANGED <<untouchedByUser, channel, nextRequest, nextCommand, pending,
                 terminalSequence, historyOps, selected>>

\* The sidebar writes the selection itself; it does not call select_account.
ClickAccount(a) ==
  /\ UserActs
  /\ selected' = a
  /\ UNCHANGED <<untouchedByUser, channel, nextRequest, nextCommand, pending,
                 terminalSequence, historyOps, editor>>

-----------------------------------------------------------------------------
(* drain_worker_responses                                                  *)

frameUntouched ==
  <<stopping, thread, current, exit, database, audit, nextCommand>>

\* drain_ready collects the whole queue before the first response is handled.
BeginDrain ==
  /\ ui = "Idle"
  /\ responses # <<>>
  /\ ui' = "Draining"
  /\ ready' = responses
  /\ responses' = <<>>
  /\ UNCHANGED <<frameUntouched, channel, nextRequest, generation, pending,
                 terminalSequence, history, historyOps, editor, selected,
                 tree, stale>>

\* prune_commands: the finished records that were finished first are dropped.
FinishedBefore(p, c, d) ==
  \/ p[c].sequence < p[d].sequence
  \/ p[c].sequence = p[d].sequence /\ c < d

Prune(p) ==
  LET finished == {c \in CommandIds : p[c].status \in Terminal}
      later(c) == {d \in finished : FinishedBefore(p, c, d)} IN
  [c \in CommandIds |->
     IF c \in finished /\ Cardinality(later(c)) >= TerminalCapacity
       THEN NoRecord ELSE p[c]]

\* How a committed command moves the stacks, given its undo data.
HistoryAfter(c, undo) ==
  LET known == undo.kind = "Save" IN
  CASE historyOps[c] = "Undo" ->
         IF known THEN ReplaceNextRedo(Undone(history), undo) ELSE Undone(history)
    [] historyOps[c] = "Redo" ->
         IF known THEN ReplaceNextUndo(Redone(history), undo) ELSE Redone(history)
    [] OTHER ->
         IF known THEN RecordSuccess(history, Entry(c, pending[c].op, undo)) ELSE history

\* The response is correlated with a live record of the current generation.
Correlated(p) ==
  LET r == pending[p.request.command] IN
  /\ p.request.generation = generation
  /\ r.request = p.request.id
  /\ r.status = "Running"

\* The status with which handle_command_response finishes the record.
FinalStatus(result) ==
  CASE result.status = "Mutated" -> "Committed"
    [] result.status = "Cancelled" -> "Cancelled"
    [] OTHER -> "Failed"

\* Mutant: any answer settles the mounted editor.
EditorAfterMutant(c, status) ==
  CASE status = "Committed" -> NoEditor
    [] status = "Failed" -> FailedEditor
    [] OTHER -> editor

\* Mutant: the editor that owns the command survives its success.
EditorKeptMutant(c, status) ==
  IF editor.command = c /\ status = "Failed" THEN FailedEditor ELSE editor

\* handle_editor_success and handle_editor_failure, for the editor that waits for c.
EditorAfter(c, status) ==
  IF editor.command # c THEN editor
  ELSE CASE status = "Committed" -> NoEditor
         [] status = "Failed" -> FailedEditor
         [] OTHER -> editor

HandleCommandResponse ==
  /\ ui = "Draining"
  /\ ready # <<>>
  /\ Head(ready).request.command # 0
  /\ Correlated(Head(ready))
  /\ ready' = Tail(ready)
  /\ LET c == Head(ready).request.command
         result == Head(ready).result
         committed == result.status = "Mutated"
         status == FinalStatus(result) IN
       /\ pending' = Prune([pending EXCEPT ![c].status = status,
                                           ![c].sequence = terminalSequence + 1])
       /\ terminalSequence' = terminalSequence + 1
       /\ history' = IF committed THEN HistoryAfter(c, result.undo) ELSE history
       /\ historyOps' = IF committed THEN [historyOps EXCEPT ![c] = "None"] ELSE historyOps
       /\ stale' \in IF committed THEN {stale, TRUE} ELSE {stale}
       /\ editor' = EditorAfter(c, status)
  /\ UNCHANGED <<frameUntouched, channel, responses, ui, nextRequest, generation,
                 selected, tree>>

\* A late response, of an earlier generation or a record that moved on.
DiscardResponse ==
  /\ ui = "Draining"
  /\ ready # <<>>
  /\ IF Head(ready).request.command # 0
       THEN ~Correlated(Head(ready))
       ELSE Head(ready).request.generation # generation
  /\ ready' = Tail(ready)
  /\ UNCHANGED <<frameUntouched, channel, responses, ui, nextRequest, generation,
                 pending, terminalSequence, history, historyOps, editor, selected,
                 tree, stale>>

\* The generation matches, but the request is not the tree's latest (accept fails).
Accepted(p) == tree.request = p.request.id /\ tree.generation = p.request.generation

\* handle_view_response, for the account tree: resolve_startup_destination runs
\* on every accepted tree, and select_account opens a new view generation.
HandleTree ==
  /\ ui = "Draining"
  /\ ready # <<>>
  /\ LET p == Head(ready)
         shown == Accepted(p) /\ p.result.status = "Viewed" IN
       /\ p.request.command = 0
       /\ p.request.generation = generation
       /\ tree' = [tree EXCEPT !.refreshing = @ /\ ~Accepted(p)]
       /\ IF shown /\ Accounts = {}
            THEN editor' = FreshEditor /\ UNCHANGED <<selected, generation>>
            ELSE /\ UNCHANGED editor
                 /\ IF shown /\ selected # StartupAccount
                      THEN selected' = StartupAccount /\ generation' = generation + 1
                      ELSE UNCHANGED <<selected, generation>>
  /\ ready' = Tail(ready)
  /\ UNCHANGED <<frameUntouched, channel, responses, ui, nextRequest, pending,
                 terminalSequence, history, historyOps, stale>>

\* process_invalidations, once per drain: one refresh for all of its mutations.
EndDrain ==
  /\ ui = "Draining"
  /\ ready = <<>>
  /\ ui' = "Idle"
  /\ stale' = FALSE
  /\ IF stale
       THEN /\ nextRequest' = nextRequest + 1
            /\ tree' = [request |-> nextRequest, generation |-> generation,
                        refreshing |-> CanSubmit]
            /\ IF CanSubmit THEN Send(TreeRequest(nextRequest, generation))
                            ELSE UNCHANGED channel
       ELSE UNCHANGED <<nextRequest, tree, channel>>
  /\ UNCHANGED <<frameUntouched, responses, generation, pending, terminalSequence,
                 history, historyOps, editor, selected, ready>>

-----------------------------------------------------------------------------
(* Exit                                                                    *)

\* request_exit and shutdown() up to the join of the worker, in one frame.
BeginShutdown ==
  /\ ui = "Idle"
  /\ RequestStop
  /\ ui' = "Joining"
  /\ history' = EmptyHistory
  /\ historyOps' = [c \in CommandIds |-> "None"]
  /\ pending' = [c \in CommandIds |->
                   IF pending[c].status = "AwaitingConfirmation"
                     THEN [pending[c] EXCEPT !.status = "Cancelled"] ELSE pending[c]]
  /\ UNCHANGED <<responses, thread, current, exit, database, audit, nextRequest,
                 nextCommand, generation, terminalSequence, editor, selected,
                 tree, stale, ready>>

\* The join returns; what the worker answered meanwhile is never drained.
EndShutdown ==
  /\ ui = "Joining"
  /\ Joinable
  /\ ui' = "Stopped"
  /\ UNCHANGED <<workerVars, nextRequest, nextCommand, generation, pending,
                 terminalSequence, history, historyOps, editor, selected, tree,
                 stale, ready>>

-----------------------------------------------------------------------------
User ==
  \/ \E op \in Commands : Perform(op)
  \/ Undo
  \/ Redo
  \/ \E c \in CommandIds : Confirm(c)
  \/ \E c \in CommandIds : Cancel(c)
  \/ OpenEditor
  \/ CloseEditor
  \/ \E op \in Commands : CommitEditor(op)
  \/ RejectDraft
  \/ \E a \in Accounts : ClickAccount(a)

Frame ==
  \/ BeginDrain
  \/ HandleCommandResponse
  \/ DiscardResponse
  \/ HandleTree
  \/ EndDrain

ThreadStep == WorkerStep /\ UNCHANGED runtimeVars

Next == User \/ Frame \/ BeginShutdown \/ EndShutdown \/ ThreadStep

\* The two threads run.  While a record exists has_pending_work keeps the frame
\* loop repainting, and with it draining; nothing obliges the user to act.
Fairness ==
  /\ WF_vars(WorkerProgress /\ UNCHANGED runtimeVars)
  /\ WF_vars(Frame)
  /\ WF_vars(EndShutdown)

Spec == Init /\ [][Next]_vars
FairSpec == Spec /\ Fairness

-----------------------------------------------------------------------------
\* The status the user is shown is what happened to the ledger: a command said
\* to be committed has its transaction in the audit trail, and one said to have
\* failed "without changing your data" (runtime.rs:2374) or to be cancelled has
\* none and never will.
StatusMatchesLedger ==
  \A c \in CommandIds :
    /\ pending[c].status = "Committed" => Committed(c)
    /\ pending[c].status \in {"Failed", "Cancelled"} => ~Committed(c)

\* The commands the worker has been given and has not begun to reply to.
Outstanding ==
  (IF thread \in {"Received", "Executing"} THEN {current.request} ELSE {})
    \union {channel[i].request : i \in {j \in 1..Len(channel) : channel[j].tag = "Work"}}

\* Through every retry, repeated key press, confirmation, undo and redo a command is
\* executed at most once, and an action repeated while an equal one is under way is
\* submitted once, also when the first one came from the undo stack or from an editor.
RunsOnce ==
  /\ \A i, j \in 1..Len(audit) : audit[i] = audit[j] => i = j
  /\ \A r, s \in Outstanding :
       r.command # 0 /\ s.command # 0 /\ r.op = s.op => r.command = s.command

\* The place of a command's transaction in the audit trail.
PlaceOf(c) == CHOOSE i \in 1..Len(audit) : audit[i] = c

\* "Only this result is eligible for undo history" (worker.rs:136), in the order
\* of the commits: the undo stack followed by the redo stack, read downwards,
\* names committed commands, each once, oldest transaction first.
HistoryInCommitOrder ==
  LET n == Len(history.redo)
      entries == history.undo \o [i \in 1..n |-> history.redo[n + 1 - i]] IN
  /\ \A i \in 1..Len(entries) : Committed(entries[i].label)
  /\ \A i, j \in 1..Len(entries) :
       i < j => PlaceOf(entries[i].label) < PlaceOf(entries[j].label)

\* An editor closes by itself only after its own command has committed
\* (commit_submits_once_and_closes_only_after_worker_success, runtime.rs:3182).
EditorClosesAfterCommit ==
  [][ editor.state = "Submitting" /\ editor' = NoEditor => Committed(editor.command) ]_vars

\* A transaction's effect on the ledger, and what the stacks say can be
\* undone and redone from here: the top entry first, then the ones below.
Apply(db, op) == [db EXCEPT ![op.entity] = op.value]
Rewind(db, s) == FoldRight(LAMBDA e, d : Apply(d, e.inverse), s, db)
Replay(db, s) == FoldRight(LAMBDA e, d : Apply(d, e.command), s, db)

\* Everything that was dispatched has been answered and drained.
AtRest == ui = "Idle" /\ Settled

\* Undo and redo are exact for a user who lets each operation finish, through
\* any mixture of edits, failures, undos and redos: undoing everything leads to
\* the ledger the session began with, and redoing everything and undoing it
\* again leads back to the present one.  Every inverse is therefore the one of
\* the latest execution of its command (replace_next_redo, replace_next_undo).
HistoryRoundTrips ==
  AtRest =>
    /\ Rewind(database, history.undo) = [e \in Entities |-> Initial]
    /\ LET n == Len(history.redo)
           undoneAgain == [i \in 1..n |-> history.redo[n + 1 - i]] IN
       Rewind(Replay(database, history.redo), undoneAgain) = database

\* "Rebinds the command contract after an undo has committed" (command.rs:504):
\* the entry an undo moves to the redo stack is the one whose inverse it ran.
UndoMovesItsOwnEntry ==
  [][ \A c \in CommandIds :
        historyOps[c] = "Undo" /\ pending[c].status = "Running"
          /\ pending'[c].status = "Committed" /\ CanUndo(history)
        => NextUndo(history) = pending[c].op ]_vars

\* For a user who waits and a worker that does not panic, no command is left
\* running: its record is resolved (handle_command_response), by no later than
\* the request that closes the session.  Draining alone resolves nothing: an
\* answer the drain discards, of an older generation, leaves its record running.
RunningSettles ==
  \A c \in CommandIds :
    pending[c].status = "Running" ~> pending[c].status # "Running" \/ stopping

\* "The editor deliberately remains mounted until the correlated worker
\* response succeeds" (runtime.rs:451): when its command has committed, an
\* editor of an open session stops waiting for it.
SubmittedEditorReleased ==
  \A c \in CommandIds :
    editor.command = c /\ Committed(c) ~> editor.command # c \/ stopping
=============================================================================
