---------------------------- MODULE StorageWorker ----------------------------
(***************************************************************************)
(* The storage worker of MNAB: one thread that owns the writable SQLite    *)
(* connection, a channel of messages to it, a channel of responses from    *)
(* it, and the handle through which the user-interface thread stops and    *)
(* joins it (src/src/storage/worker.rs).                                   *)
(*                                                                         *)
(* The ledger is abstracted to one value per entity.  What the operators   *)
(* of this module keep exactly is control: which step of the thread reads  *)
(* the stop flag, where the transaction commits relative to the response,  *)
(* and what a failure at each place leaves behind.                         *)
(***************************************************************************)
EXTENDS Naturals, Sequences

CONSTANTS
  Entities,   \* what a financial command can change: an account, a target...
  Values,     \* the values an entity can have
  Initial,    \* the value of every entity when the worker starts
  MayPanic    \* whether the thread can unwind while it serves a request

ASSUME WorkerAssumption ==
  /\ Initial \in Values
  /\ MayPanic \in BOOLEAN

(***************************************************************************)
(* WorkerOperation, reduced to the four kinds the runtime tells apart.     *)
(* "Save" is a FinancialCommand whose result carries UndoData::Command,    *)
(* "Post" one whose result carries no undo data, "Query" a view operation. *)
(***************************************************************************)
Save(e, v) == [kind |-> "Save", entity |-> e, value |-> v]
Post == [kind |-> "Post"]
Query == [kind |-> "Query"]

Saves == [kind : {"Save"}, entity : Entities, value : Values]
Commands == Saves \union {Post}
Operations == Commands \union {Query}

\* UndoData: absent, or the command that restores what the transaction changed.
NoUndo == [kind |-> "None"]

\* StorageRequest, with the command identifier of its envelope (0: a view request).
Requests ==
  [id : Nat, op : Operations, command : Nat, generation : Nat]

NoRequest == [id |-> 0, op |-> Query, command |-> 0, generation |-> 0]

\* enum Message
Work(r) == [tag |-> "Work", request |-> r]
Shutdown == [tag |-> "Shutdown", request |-> NoRequest]
Messages == [tag : {"Work", "Shutdown"}, request : Requests]

\* Result<TypedResult, WorkerError>
Results == [status : {"Mutated", "Viewed", "Failed", "Cancelled"},
            undo : Saves \union {NoUndo}]
Outcome(s) == [status |-> s, undo |-> NoUndo]
Mutated(u) == [status |-> "Mutated", undo |-> u]
Refused == {Outcome("Failed"), Outcome("Cancelled")}

\* StorageResponse: Completed echoes the request, Terminated is sent last.
Completed(r, res) == [tag |-> "Completed", request |-> r, result |-> res]
Terminated == [tag |-> "Terminated", request |-> NoRequest, result |-> Outcome("Viewed")]
Responses == [tag : {"Completed"}, request : Requests, result : Results]
               \union {Terminated}

VARIABLES
  channel,    \* messages sent and not yet received by the thread
  responses,  \* responses sent and not yet drained by the runtime
  stopping,   \* the flag the two threads share
  thread,     \* where the thread is
  current,    \* the message it serves, with its result once there is one
  exit,       \* how the thread ended: what join() reports
  database,   \* the committed value of every entity
  audit       \* the commands of the committed transactions, in commit order

workerVars ==
  <<channel, responses, stopping, thread, current, exit, database, audit>>

Idle == Completed(NoRequest, Outcome("Viewed"))

WorkerTypeOK ==
  /\ channel \in Seq(Messages)
  /\ responses \in Seq(Responses)
  /\ stopping \in BOOLEAN
  /\ thread \in {"Receiving", "Received", "Executing", "Replying", "Closing", "Exited"}
  /\ current \in [tag : {"Completed"}, request : Requests, result : Results]
  /\ exit \in {"None", "Clean", "CheckpointFailed", "Panicked"}
  /\ database \in [Entities -> Values]
  /\ audit \in Seq(Nat)

\* StorageWorker::start has returned: the connection is open.
WorkerStarted ==
  /\ responses = <<>>
  /\ stopping = FALSE
  /\ thread = "Receiving"
  /\ current = Idle
  /\ exit = "None"
  /\ database = [e \in Entities |-> Initial]
  /\ audit = <<>>

-----------------------------------------------------------------------------
(* Steps of the worker thread: the body of run().                          *)

\* Mutant: the message is looked at and left in the channel.
ReceiveMutant ==
  /\ thread = "Receiving"
  /\ channel # <<>>
  /\ Head(channel).tag = "Work"
  /\ current' = Completed(Head(channel).request, Outcome("Viewed"))
  /\ thread' = "Received"
  /\ UNCHANGED <<channel, responses, stopping, exit, database, audit>>

\* rx.recv() returned a request.
Receive ==
  /\ thread = "Receiving"
  /\ channel # <<>>
  /\ Head(channel).tag = "Work"
  /\ current' = Completed(Head(channel).request, Outcome("Viewed"))
  /\ channel' = Tail(channel)
  /\ thread' = "Received"
  /\ UNCHANGED <<responses, stopping, exit, database, audit>>

\* The stop flag was up before the operation began: it is refused, not run.
CancelReceived ==
  /\ thread = "Received"
  /\ stopping
  /\ current' = [current EXCEPT !.result = Outcome("Cancelled")]
  /\ thread' = "Replying"
  /\ UNCHANGED <<channel, responses, stopping, exit, database, audit>>

\* Mutant: the operation begins without looking at the stop flag.
AdmitMutant ==
  /\ thread = "Received"
  /\ thread' = "Executing"
  /\ UNCHANGED <<channel, responses, stopping, current, exit, database, audit>>

\* The flag was down when it was read.  It may go up while the operation runs.
Admit ==
  /\ thread = "Received"
  /\ ~stopping
  /\ thread' = "Executing"
  /\ UNCHANGED <<channel, responses, stopping, current, exit, database, audit>>

\* A read, over the committed state.
ExecuteQuery ==
  /\ thread = "Executing"
  /\ current.request.op.kind = "Query"
  /\ current' = [current EXCEPT !.result = Outcome("Viewed")]
  /\ thread' = "Replying"
  /\ UNCHANGED <<channel, responses, stopping, exit, database, audit>>

\* Mutant: a command that cannot be undone is returned as its own inverse.
InverseOfMutant(op) ==
  IF op.kind = "Save" THEN Save(op.entity, database[op.entity]) ELSE op

\* The inverse that apply() builds from the row it is about to replace.
InverseOf(op) ==
  IF op.kind = "Save" THEN Save(op.entity, database[op.entity]) ELSE NoUndo

\* execute_with: apply, append the audit record, commit; only then a result.
ExecuteCommand ==
  /\ thread = "Executing"
  /\ current.request.op.kind # "Query"
  /\ LET op == current.request.op IN
       /\ current' = [current EXCEPT !.result = Mutated(InverseOf(op))]
       /\ database' = IF op.kind = "Save"
                        THEN [database EXCEPT ![op.entity] = op.value]
                        ELSE database
  /\ audit' = Append(audit, current.request.command)
  /\ thread' = "Replying"
  /\ UNCHANGED <<channel, responses, stopping, exit>>

\* Mutant: the audit record of a failed command is kept.
FailExecutionMutant ==
  /\ thread = "Executing"
  /\ current' = [current EXCEPT !.result = Outcome("Failed")]
  /\ audit' = Append(audit, current.request.command)
  /\ thread' = "Replying"
  /\ UNCHANGED <<channel, responses, stopping, exit, database>>

\* Validation, a repository error or the commit itself failed: rolled back.
FailExecution ==
  /\ thread = "Executing"
  /\ current' = [current EXCEPT !.result = Outcome("Failed")]
  /\ thread' = "Replying"
  /\ UNCHANGED <<channel, responses, stopping, exit, database, audit>>

\* Mutant: an operation that was refused is not answered.
ReplyMutant ==
  /\ thread = "Replying"
  /\ responses' = IF current.result \in Refused THEN responses ELSE Append(responses, current)
  /\ current' = Idle
  /\ thread' = "Receiving"
  /\ UNCHANGED <<channel, stopping, exit, database, audit>>

\* The answer follows the commit.
Reply ==
  /\ thread = "Replying"
  /\ responses' = Append(responses, current)
  /\ current' = Idle
  /\ thread' = "Receiving"
  /\ UNCHANGED <<channel, stopping, exit, database, audit>>

\* The responses of the loop that drains the channel after Message::Shutdown.
Cancellations(messages) ==
  [i \in 1..Len(messages) |-> Completed(messages[i].request, Outcome("Cancelled"))]

ReceiveShutdown ==
  /\ thread = "Receiving"
  /\ channel # <<>>
  /\ Head(channel).tag = "Shutdown"
  /\ responses' = responses \o Cancellations(Tail(channel))
  /\ channel' = <<>>
  /\ thread' = "Closing"
  /\ UNCHANGED <<stopping, current, exit, database, audit>>

\* PRAGMA wal_checkpoint(TRUNCATE); Terminated follows only a successful one.
CheckpointAndExit ==
  /\ thread = "Closing"
  /\ responses' = Append(responses, Terminated)
  /\ thread' = "Exited"
  /\ exit' = "Clean"
  /\ UNCHANGED <<channel, stopping, current, database, audit>>

\* Mutant: the thread ends without an error all the same.
FailCheckpointMutant ==
  /\ thread = "Closing"
  /\ thread' = "Exited"
  /\ exit' = "Clean"
  /\ UNCHANGED <<channel, responses, stopping, current, database, audit>>

FailCheckpoint ==
  /\ thread = "Closing"
  /\ thread' = "Exited"
  /\ exit' = "CheckpointFailed"
  /\ UNCHANGED <<channel, responses, stopping, current, database, audit>>

\* The thread unwinds: the receiver is dropped with everything still queued.
Panic ==
  /\ MayPanic
  /\ thread \in {"Executing", "Replying"}
  /\ channel' = <<>>
  /\ current' = Idle
  /\ thread' = "Exited"
  /\ exit' = "Panicked"
  /\ UNCHANGED <<responses, stopping, database, audit>>

\* Everything the thread does but fail: what its scheduling guarantees.
WorkerProgress ==
  \/ Receive
  \/ CancelReceived
  \/ Admit
  \/ ExecuteQuery
  \/ ExecuteCommand
  \/ FailExecution
  \/ Reply
  \/ ReceiveShutdown
  \/ CheckpointAndExit
  \/ FailCheckpoint

WorkerStep == WorkerProgress \/ Panic

-----------------------------------------------------------------------------
(* Calls of the user-interface thread on its StorageWorker handle.         *)

\* submit() returns Ok: not stopping, and the receiver has not been dropped.
CanSubmit == ~stopping /\ thread # "Exited"

Send(r) == channel' = Append(channel, Work(r))

\* Mutant: only the flag is raised; an idle thread is never woken.
RequestStopMutant ==
  /\ ~stopping
  /\ stopping' = TRUE
  /\ UNCHANGED channel

\* shutdown(), up to the join: raise the flag, send one Shutdown.
RequestStop ==
  /\ ~stopping
  /\ stopping' = TRUE
  /\ channel' = IF thread = "Exited" THEN channel ELSE Append(channel, Shutdown)

\* join() returns, with an error unless the checkpoint succeeded.
Joinable == thread = "Exited"
JoinedClean == exit = "Clean"

-----------------------------------------------------------------------------
(* What is said of the worker whoever its client is.                       *)

Elements(s) == {s[i] : i \in 1..Len(s)}

\* The command has its transaction in the audit trail.
Committed(c) == \E i \in 1..Len(audit) : audit[i] = c
=============================================================================
