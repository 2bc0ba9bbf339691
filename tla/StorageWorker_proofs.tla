-------------------------- MODULE StorageWorker_proofs --------------------------
(***************************************************************************)
(* What the proofs about the worker's two clients, WorkerSession and       *)
(* CommandRuntime, share: its state keeps its shape under every step of    *)
(* its thread.                                                             *)
(***************************************************************************)
EXTENDS StorageWorker, SequenceTheorems, TLAPS

InService == thread \in {"Received", "Executing"}

-----------------------------------------------------------------------------
(* The elements of a sequence under the operators of the specification.    *)

\* Appending (Reply, Send) adds one element and removes none.
LEMMA ElementsAppend ==
  ASSUME NEW S, NEW s \in Seq(S), NEW e \in S
  PROVE  Elements(Append(s, e)) = Elements(s) \union {e}
  BY DEF Elements

\* Concatenating (DrainReady, ReceiveShutdown) keeps exactly the elements of both.
LEMMA ElementsConcat ==
  ASSUME NEW S, NEW s \in Seq(S), NEW t \in Seq(S)
  PROVE  Elements(s \o t) = Elements(s) \union Elements(t)
<1>1. Len(s \o t) = Len(s) + Len(t)
  BY ConcatProperties
<1>2. \A i \in 1..Len(s) : (s \o t)[i] = s[i]
  BY ConcatProperties
<1>3. \A j \in 1..Len(t) : (s \o t)[Len(s) + j] = t[j]
  BY ConcatProperties
<1>4. \A i \in 1..(Len(s) + Len(t)) :
        i \in 1..Len(s) \/ \E j \in 1..Len(t) : i = Len(s) + j
  <2> SUFFICES ASSUME NEW i \in 1..(Len(s) + Len(t)), i \notin 1..Len(s)
               PROVE  \E j \in 1..Len(t) : i = Len(s) + j
    OBVIOUS
  <2> DEFINE j == i - Len(s)
  <2>1. j \in 1..Len(t) /\ i = Len(s) + j
    OBVIOUS
  <2> QED
    BY <2>1
<1>5. \A j \in 1..Len(t) : Len(s) + j \in 1..(Len(s) + Len(t))
  OBVIOUS
<1> QED
  BY <1>1, <1>2, <1>3, <1>4, <1>5 DEF Elements

\* Receiving takes the head and leaves a part of the rest.
LEMMA ElementsTail ==
  ASSUME NEW S, NEW s \in Seq(S), s # <<>>
  PROVE  /\ Head(s) \in Elements(s)
         /\ Elements(Tail(s)) \subseteq Elements(s)
  BY DEF Elements

-----------------------------------------------------------------------------
(* The worker's state keeps its shape.                                     *)

\* The request and the result of an idle worker.
LEMMA NoRequestType == NoRequest \in Requests /\ Outcome("Viewed") \in Results
  BY DEF NoRequest, Requests, Operations, Query, Outcome, Results, NoUndo

\* Cancelling a channel yields one response per message.
LEMMA CancellationsType ==
  ASSUME NEW ms \in Seq(Messages)
  PROVE  /\ Cancellations(ms) \in Seq(Responses)
         /\ Len(Cancellations(ms)) = Len(ms)
<1>1. ASSUME NEW i \in 1..Len(ms)
      PROVE  Completed(ms[i].request, Outcome("Cancelled")) \in Responses
  <2>1. ms[i] \in Messages
    BY ElementOfSeq
  <2>2. ms[i].request \in Requests
    BY <2>1 DEF Messages
  <2>3. Outcome("Cancelled") \in Results
    BY DEF Results, Outcome, NoUndo
  <2> QED
    BY <2>2, <2>3 DEF Responses, Completed
<1>2. Cancellations(ms) \in [1..Len(ms) -> Responses]
  BY <1>1 DEF Cancellations
<1>3. Len(ms) \in Nat
  OBVIOUS
<1>4. Cancellations(ms) \in Seq(Responses)
  BY <1>2, <1>3, SeqDef
<1>5. DOMAIN Cancellations(ms) = 1..Len(ms)
  BY DEF Cancellations
<1> QED
  BY <1>3, <1>4, <1>5, LenProperties

\* Every step of the thread keeps the shape of the worker's state.
LEMMA WorkerStepTyped ==
  ASSUME WorkerTypeOK, WorkerStep
  PROVE  WorkerTypeOK'
<1> USE DEF WorkerTypeOK
<1>1. CASE Receive
  <2>1. Head(channel) \in Messages /\ Tail(channel) \in Seq(Messages)
    BY <1>1 DEF Receive
  <2>2. Completed(Head(channel).request, Outcome("Viewed"))
          \in [tag : {"Completed"}, request : Requests, result : Results]
    BY <2>1, NoRequestType DEF Completed, Messages
  <2> QED
    BY <1>1, <2>1, <2>2 DEF Receive
<1>2. CASE CancelReceived
  BY <1>2 DEF CancelReceived, Outcome, Results, NoUndo
<1>3. CASE Admit
  BY <1>3 DEF Admit
<1>4. CASE ExecuteQuery
  BY <1>4, NoRequestType DEF ExecuteQuery
<1>5. CASE ExecuteCommand
  <2> DEFINE op == current.request.op
  <2>1. op \in Saves \union {Post} /\ current.request.command \in Nat
    BY <1>5 DEF ExecuteCommand, Requests, Operations, Commands, Query
  <2>2. Mutated(InverseOf(op)) \in Results
    BY <2>1 DEF Mutated, InverseOf, Results, Save, Saves, Post, NoUndo
  <2>3. (IF op.kind = "Save" THEN [database EXCEPT ![op.entity] = op.value] ELSE database)
          \in [Entities -> Values]
    BY <2>1 DEF Saves, Post
  <2>4. database' \in [Entities -> Values]
    BY <1>5, <2>3 DEF ExecuteCommand
  <2>5. current' \in [tag : {"Completed"}, request : Requests, result : Results]
    BY <1>5, <2>2 DEF ExecuteCommand
  <2>6. audit' \in Seq(Nat)
    BY <1>5, <2>1 DEF ExecuteCommand
  <2>7. thread' = "Replying" /\ UNCHANGED <<channel, responses, stopping, exit>>
    BY <1>5 DEF ExecuteCommand
  <2> QED
    BY <2>4, <2>5, <2>6, <2>7
<1>6. CASE FailExecution
  BY <1>6 DEF FailExecution, Outcome, Results, NoUndo
<1>7. CASE Reply
  <2>1. current \in Responses
    BY DEF Responses
  <2>2. Idle \in [tag : {"Completed"}, request : Requests, result : Results]
    BY NoRequestType DEF Idle, Completed
  <2> QED
    BY <1>7, <2>1, <2>2 DEF Reply
<1>8. CASE ReceiveShutdown
  <2>1. Tail(channel) \in Seq(Messages)
    BY <1>8 DEF ReceiveShutdown
  <2>2. responses \o Cancellations(Tail(channel)) \in Seq(Responses)
    BY <2>1, CancellationsType, ConcatProperties
  <2> QED
    BY <1>8, <2>2 DEF ReceiveShutdown
<1>9. CASE CheckpointAndExit
  <2>1. Terminated \in Responses
    BY DEF Responses
  <2> QED
    BY <1>9, <2>1 DEF CheckpointAndExit
<1>10. CASE FailCheckpoint
  BY <1>10 DEF FailCheckpoint
<1>11. CASE Panic
  <2>1. Idle \in [tag : {"Completed"}, request : Requests, result : Results]
    BY NoRequestType DEF Idle, Completed
  <2> QED
    BY <1>11, <2>1 DEF Panic
<1> QED
  BY <1>1, <1>2, <1>3, <1>4, <1>5, <1>6, <1>7, <1>8, <1>9, <1>10, <1>11
     DEF WorkerStep, WorkerProgress
================================================================================
