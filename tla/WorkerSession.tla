---------------------------- MODULE WorkerSession ----------------------------
(***************************************************************************)
(* One storage worker driven by one client, from start() to the return of  *)
(* shutdown(): the client submits requests, drains whatever is ready, and  *)
(* at some point stops and joins the thread, as the application runtime    *)
(* does with the worker of its budget session.                             *)
(***************************************************************************)
EXTENDS StorageWorker

CONSTANT MaxRequests    \* how many requests the client submits

ASSUME SessionAssumption == MaxRequests \in Nat \ {0}

VARIABLES
  nextRequest,  \* the identifier of the next request
  received,     \* every response the client has drained, in order
  client        \* "Active", "Joining" inside shutdown(), then how it returned

clientVars == <<nextRequest, received, client>>
vars == <<workerVars, clientVars>>

TypeOK ==
  /\ WorkerTypeOK
  /\ nextRequest \in 1..(MaxRequests + 1)
  /\ received \in Seq(Responses)
  /\ client \in {"Active", "Joining", "Stopped", "StopFailed"}

Init ==
  /\ WorkerStarted
  /\ channel = <<>>
  /\ nextRequest = 1
  /\ received = <<>>
  /\ client = "Active"

-----------------------------------------------------------------------------
\* A request for op; a command's identifier travels with it in its envelope.
NewRequest(op) ==
  [id |-> nextRequest, op |-> op, generation |-> 0,
   command |-> IF op = Query THEN 0 ELSE nextRequest]

Submit(op) ==
  /\ client = "Active"
  /\ nextRequest <= MaxRequests
  /\ CanSubmit
  /\ Send(NewRequest(op))
  /\ nextRequest' = nextRequest + 1
  /\ UNCHANGED <<responses, stopping, thread, current, exit, database, audit,
                 received, client>>

DrainReady ==
  /\ client = "Active"
  /\ responses # <<>>
  /\ received' = received \o responses
  /\ responses' = <<>>
  /\ UNCHANGED <<channel, stopping, thread, current, exit, database, audit,
                 nextRequest, client>>

BeginShutdown ==
  /\ client = "Active"
  /\ RequestStop
  /\ client' = "Joining"
  /\ UNCHANGED <<responses, thread, current, exit, database, audit,
                 nextRequest, received>>

EndShutdown ==
  /\ client = "Joining"
  /\ Joinable
  /\ client' = IF JoinedClean THEN "Stopped" ELSE "StopFailed"
  /\ UNCHANGED <<workerVars, nextRequest, received>>

ThreadStep ==
  /\ WorkerStep
  /\ UNCHANGED clientVars

Next ==
  \/ \E op \in Operations : Submit(op)
  \/ DrainReady
  \/ BeginShutdown
  \/ EndShutdown
  \/ ThreadStep

\* The operating system runs a thread that can run, and join() returns.
Fairness ==
  /\ WF_vars(WorkerProgress /\ UNCHANGED clientVars)
  /\ WF_vars(EndShutdown)

Spec == Init /\ [][Next]_vars
FairSpec == Spec /\ Fairness

-----------------------------------------------------------------------------
\* Every response that exists, in the order in which the thread produced it.
Replies ==
  received \o responses \o IF thread = "Replying" THEN <<current>> ELSE <<>>

Produced ==
  Elements(received) \union Elements(responses)
    \union (IF thread = "Replying" THEN {current} ELSE {})

\* A response tells the truth about the database: "A transaction committed
\* successfully" (worker.rs:136) is said of a command exactly when its
\* transaction committed, and a failed or cancelled command changed nothing.
RepliesMatchStore ==
  \A p \in Produced :
    p.tag = "Completed" /\ p.request.command # 0 =>
      /\ p.result.status = "Mutated" => Committed(p.request.command)
      /\ p.result \in Refused => ~Committed(p.request.command)

\* No command is ever executed twice, whatever the client submits and whenever
\* the worker is stopped: the audit trail has no repeated command.
ExecutedOnce ==
  \A i, j \in 1..Len(audit) : audit[i] = audit[j] => i = j

\* A stop that succeeds loses nothing: when the join returns Ok, every request
\* the client ever submitted has exactly one response, and the last message of
\* the thread is Terminated.
CleanStopAnswersEverything ==
  client = "Stopped" =>
    /\ Len(Replies) = nextRequest
    /\ Replies[nextRequest] = Terminated
    /\ \A i \in 1..(nextRequest - 1) : Replies[i].tag = "Completed"

\* A stop cuts in at the next operation: once the flag is up and no operation
\* is under way none ever begins, so nothing commits behind the back of a client
\* that is closing; and when shutdown() has returned the worker does nothing.
StopIsPrompt ==
  [][ /\ stopping /\ thread # "Executing" =>
           thread' # "Executing" /\ UNCHANGED <<database, audit>>
      /\ client \in {"Stopped", "StopFailed"} => UNCHANGED workerVars ]_vars

-----------------------------------------------------------------------------
\* The session as a RequestService: the queue is what the thread has received
\* or will receive, and a request is settled when the thread holds its result.
Ticket(r) == [id |-> r.id, command |-> r.command]

\* What the client has drained or will drain.
Sent == received \o responses

\* How many of the messages are requests: a Shutdown message is the last one of its
\* channel; and how many of the responses are answers: Terminated is the very last one.
Waiting == Len(channel) - (IF stopping /\ channel # <<>> THEN 1 ELSE 0)
Answered == Len(Sent) - (IF exit = "Clean" THEN 1 ELSE 0)

Serving == thread \in {"Received", "Executing", "Replying"}

\* The n-th unanswered request: the one being served, then the ones in the channel.
Unanswered(n) ==
  IF ~Serving THEN channel[n].request
  ELSE IF n = 1 THEN current.request ELSE channel[n - 1].request

Queue ==
  [n \in 1..(Waiting + IF Serving THEN 1 ELSE 0) |-> Ticket(Unanswered(n))]

Answers ==
  [n \in 1..Answered |-> [id |-> Sent[n].request.id, outcome |-> Sent[n].result.status]]

Service ==
  INSTANCE RequestService WITH
    Tickets <- [id : 1..MaxRequests, command : 0..MaxRequests],
    Outcomes <- {"Mutated", "Viewed", "Failed", "Cancelled"},
    queue <- Queue,
    settled <- IF thread = "Replying" THEN current.result.status ELSE "Open",
    store <- audit,
    answers <- Answers,
    closed <- thread \in {"Closing", "Exited"}

\* The thread, its channel and its stop flag implement the service.
ImplementsService == Service!ServiceSpec

\* shutdown() returns, whatever is queued and however the thread ends.
StopReturns == client = "Joining" ~> client \in {"Stopped", "StopFailed"}

\* Every submitted request is answered unless the thread panicked under it.
EveryRequestAnswered ==
  \A n \in 1..MaxRequests :
    nextRequest > n ~> Len(Replies) >= n \/ exit = "Panicked"
=============================================================================
