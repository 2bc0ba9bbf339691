------------------------- MODULE WorkerSession_proofs -------------------------
(***************************************************************************)
(* What holds of a worker session for every set of entities and values,    *)
(* every number of requests, and whether or not the thread may panic.      *)
(***************************************************************************)
EXTENDS WorkerSession, StorageWorker_proofs

-----------------------------------------------------------------------------
(* Type correctness                                                        *)

\* A started worker and a client that has done nothing are well-typed.
LEMMA TypeInit == Init => TypeOK
<1> SUFFICES ASSUME Init PROVE TypeOK
  OBVIOUS
<1> USE DEF Init, WorkerStarted
<1>1. /\ channel \in Seq(Messages)
      /\ responses \in Seq(Responses)
      /\ audit \in Seq(Nat)
      /\ received \in Seq(Responses)
  OBVIOUS
<1>2. current \in [tag : {"Completed"}, request : Requests, result : Results]
  BY NoRequestType DEF Idle, Completed
<1>3. database \in [Entities -> Values]
  BY WorkerAssumption
<1>4. nextRequest \in 1..(MaxRequests + 1)
  BY SessionAssumption
<1> QED
  BY <1>1, <1>2, <1>3, <1>4 DEF TypeOK, WorkerTypeOK

\* The state of the worker and of its client always has the shape the code
\* gives it, for every value of the constants.
THEOREM TypeCorrect == Spec => []TypeOK
<1>1. Init => TypeOK
  BY TypeInit
<1>2. TypeOK /\ [Next]_vars => TypeOK'
  <2> SUFFICES ASSUME TypeOK, [Next]_vars
               PROVE  TypeOK'
    OBVIOUS
  <2> USE DEF TypeOK, WorkerTypeOK
  <2>1. ASSUME NEW op \in Operations, Submit(op)
        PROVE  TypeOK'
    <3>1. NewRequest(op) \in Requests
      BY SessionAssumption DEF NewRequest, Requests
    <3>2. Work(NewRequest(op)) \in Messages
      BY <3>1 DEF Work, Messages
    <3> QED
      BY <2>1, <3>2, SessionAssumption DEF Submit, Send
  <2>2. CASE DrainReady
    BY <2>2, ConcatProperties DEF DrainReady
  <2>3. CASE BeginShutdown
    <3>1. Shutdown \in Messages
      BY NoRequestType DEF Shutdown, Messages
    <3> QED
      BY <2>3, <3>1 DEF BeginShutdown, RequestStop
  <2>4. CASE EndShutdown
    BY <2>4 DEF EndShutdown, workerVars
  <2>5. CASE ThreadStep
    <3>1. WorkerTypeOK' /\ UNCHANGED clientVars
      BY <2>5, WorkerStepTyped DEF ThreadStep
    <3> QED
      BY <3>1 DEF clientVars
  <2>6. CASE UNCHANGED vars
    BY <2>6 DEF vars, workerVars, clientVars
  <2> QED
    BY <2>1, <2>2, <2>3, <2>4, <2>5, <2>6 DEF Next
<1> QED
  BY <1>1, <1>2, PTL DEF Spec

-----------------------------------------------------------------------------
(* The ledger invariant.  Neither RepliesMatchStore nor ExecutedOnce is     *)
(* inductive: that a reply stays true needs that its command cannot run     *)
(* later.  What makes it so is the order of identifiers: a request waiting  *)
(* anywhere is newer than every command that committed or was answered.     *)

\* A request as NewRequest makes them.
Issued(r) ==
  /\ r.id \in 1..(nextRequest - 1)
  /\ r.command \in {0, r.id}
  /\ r.command = 0 <=> r.op = Query

\* The requests that have been neither settled nor dropped.
Unsettled ==
  (IF InService THEN {current.request} ELSE {})
    \union {m.request : m \in {n \in Elements(channel) : n.tag = "Work"}}

\* Requests in the channel are issued, and in the order of their identifiers.
ChannelInOrder ==
  /\ \A i \in 1..Len(channel) : channel[i].tag = "Work" => Issued(channel[i].request)
  /\ \A i \in 1..Len(channel) : channel[i].tag = "Shutdown" => channel[i].request = NoRequest
  /\ \A i, j \in 1..Len(channel) :
       i < j /\ channel[i].tag = "Work" /\ channel[j].tag = "Work"
         => channel[i].request.id < channel[j].request.id

\* The request in service is issued and older than the ones in the channel.
ServiceInOrder ==
  /\ InService \/ thread = "Replying" => Issued(current.request)
  /\ InService =>
       \A i \in 1..Len(channel) :
         channel[i].tag = "Work" => current.request.id < channel[i].request.id

\* The audit trail is in order and older than everything that is unsettled.
AuditInOrder ==
  /\ \A i \in 1..Len(audit) : audit[i] \in 1..(nextRequest - 1)
  /\ \A i, j \in 1..Len(audit) : i < j => audit[i] < audit[j]
  /\ \A i \in 1..Len(audit) : \A r \in Unsettled : audit[i] < r.id

\* A reply tells the truth about its command.
Truthful(p) ==
  p.tag = "Completed" /\ p.request.command # 0 =>
    /\ p.result.status = "Mutated" => Committed(p.request.command)
    /\ p.result \in Refused => ~Committed(p.request.command)

\* A reply is to a command older than everything that is unsettled.
Outdated(p) ==
  /\ p.request.command < nextRequest
  /\ \A r \in Unsettled : p.request.command < r.id

RepliesInOrder == \A p \in Produced : Truthful(p) /\ Outdated(p)

LedgerInv == ChannelInOrder /\ ServiceInOrder /\ AuditInOrder /\ RepliesInOrder

-----------------------------------------------------------------------------
\* Unsettled requests are issued.
LEMMA UnsettledIssued ==
  ASSUME TypeOK, ChannelInOrder, ServiceInOrder
  PROVE  \A r \in Unsettled : Issued(r)
  BY DEF Unsettled, ChannelInOrder, ServiceInOrder, Elements

\* A step that commits and submits nothing preserves what concerns the audit
\* trail and the replies, if it adds only true replies to older commands.
LEMMA QuietStep ==
  ASSUME AuditInOrder, RepliesInOrder,
         UNCHANGED <<audit, nextRequest>>,
         Unsettled' \subseteq Unsettled,
         \A p \in Produced' : p \in Produced \/ (Truthful(p) /\ Outdated(p)')
  PROVE  AuditInOrder' /\ RepliesInOrder'
<1>1. AuditInOrder'
  BY DEF AuditInOrder
<1>2. ASSUME NEW p \in Produced' PROVE Truthful(p)' /\ Outdated(p)'
  <2>1. Truthful(p)' <=> Truthful(p)
    BY DEF Truthful, Committed
  <2>2. p \in Produced => Truthful(p) /\ Outdated(p)
    BY DEF RepliesInOrder
  <2>3. Outdated(p) => Outdated(p)'
    BY DEF Outdated
  <2> QED
    BY <2>1, <2>2, <2>3
<1> QED
  BY <1>1, <1>2 DEF RepliesInOrder

\* Initially nothing was submitted, committed or answered.
LEMMA LedgerInit == Init => LedgerInv
  BY DEF Init, WorkerStarted, LedgerInv, ChannelInOrder, ServiceInOrder, AuditInOrder,
         RepliesInOrder, InService, Produced, Elements, Unsettled

\* Submit: the new request is newer than everything there is.
LEMMA LedgerSubmit ==
  ASSUME TypeOK, LedgerInv, NEW op \in Operations, Submit(op)
  PROVE  LedgerInv'
<1> USE DEF TypeOK, WorkerTypeOK
<1>0. NewRequest(op) \in Requests
  BY SessionAssumption DEF NewRequest, Requests
<1> PICK r \in Requests : r = NewRequest(op)
  BY <1>0
<1>1. /\ nextRequest \in Nat \ {0}
      /\ nextRequest' = nextRequest + 1
      /\ channel' = Append(channel, Work(r))
      /\ UNCHANGED <<thread, current, audit, received, responses>>
  BY SessionAssumption DEF Submit, Send
<1>2. r.id = nextRequest /\ Issued(r)'
  BY <1>1 DEF NewRequest, Issued
<1>3. Work(r) \in Messages /\ Work(r).tag = "Work" /\ Work(r).request = r
  BY <1>2 DEF Work, Messages
<1>4. \A q : Issued(q) => Issued(q)' /\ q.id < nextRequest
  BY <1>1 DEF Issued
<1>5. /\ Len(channel') = Len(channel) + 1
      /\ \A i \in 1..Len(channel) : channel'[i] = channel[i]
      /\ channel'[Len(channel) + 1] = Work(r)
  BY <1>1, <1>3
<1>6. Elements(channel') = Elements(channel) \union {Work(r)}
  BY <1>1, <1>3, ElementsAppend
<1>7. Unsettled' = Unsettled \union {r}
  <2> DEFINE works(c) == {m.request : m \in {n \in c : n.tag = "Work"}}
  <2>1. works(Elements(channel) \union {Work(r)}) = works(Elements(channel)) \union {r}
    BY <1>3
  <2>2. works(Elements(channel')) = works(Elements(channel)) \union {r}
    BY <1>6, <2>1
  <2> QED
    BY <1>1, <2>2 DEF Unsettled, InService
<1>8. ChannelInOrder'
  <2>0. ChannelInOrder
    BY DEF LedgerInv
  <2>1. ASSUME NEW i \in 1..Len(channel')
        PROVE  channel'[i] = Work(r) \/ (i \in 1..Len(channel) /\ channel'[i] = channel[i])
    BY <1>5
  <2>2. (\A i \in 1..Len(channel) :
          channel[i].tag = "Work" => Issued(channel[i].request))'
    BY <2>0, <2>1, <1>2, <1>3, <1>4 DEF ChannelInOrder
  <2>3. \A i \in 1..Len(channel') :
          channel'[i].tag = "Shutdown" => channel'[i].request = NoRequest
    BY <2>0, <2>1, <1>3 DEF ChannelInOrder
  <2>4. ASSUME NEW i \in 1..Len(channel'), NEW j \in 1..Len(channel'), i < j,
               channel'[i].tag = "Work", channel'[j].tag = "Work"
        PROVE  channel'[i].request.id < channel'[j].request.id
    <3>1. i \in 1..Len(channel) /\ channel'[i] = channel[i]
      BY <2>4, <1>5
    <3>2. CASE j \in 1..Len(channel)
      BY <2>0, <2>4, <3>1, <3>2, <1>5 DEF ChannelInOrder
    <3>3. CASE j = Len(channel) + 1
      <4>1. Issued(channel[i].request)
        BY <2>0, <2>4, <3>1 DEF ChannelInOrder
      <4> QED
        BY <4>1, <3>1, <3>3, <1>2, <1>3, <1>4, <1>5
    <3> QED
      BY <3>2, <3>3, <1>5
  <2> QED
    BY <2>2, <2>3, <2>4 DEF ChannelInOrder
<1>9. ServiceInOrder'
  BY <1>1, <1>2, <1>3, <1>4, <1>5 DEF LedgerInv, ServiceInOrder, InService
<1>10. AuditInOrder'
  BY <1>1, <1>2, <1>7 DEF LedgerInv, AuditInOrder
<1>11. RepliesInOrder'
  <2>1. Produced' = Produced
    BY <1>1 DEF Produced, Elements
  <2>2. ASSUME NEW p \in Produced PROVE Truthful(p)' /\ Outdated(p)'
    <3>1. Truthful(p) /\ Outdated(p) /\ p \in Responses
      BY DEF LedgerInv, RepliesInOrder, Produced, Elements, Responses
    <3>2. p.request.command \in Nat
      BY <3>1 DEF Responses, Terminated, NoRequest, Requests
    <3> QED
      BY <3>1, <3>2, <1>1, <1>2, <1>7 DEF Truthful, Outdated, Committed
  <2> QED
    BY <2>1, <2>2 DEF RepliesInOrder
<1> QED
  BY <1>8, <1>9, <1>10, <1>11 DEF LedgerInv

\* DrainReady moves responses to the client, the other steps of the client add
\* no request.
LEMMA LedgerClient ==
  ASSUME TypeOK, LedgerInv, DrainReady \/ BeginShutdown \/ EndShutdown
  PROVE  LedgerInv'
<1> USE DEF TypeOK, WorkerTypeOK
<1>1. CASE DrainReady
  <2>1. /\ UNCHANGED <<channel, thread, current, audit, nextRequest>>
        /\ received' = received \o responses
        /\ responses' = <<>>
    BY <1>1 DEF DrainReady
  <2>2. Produced' = Produced
    <3>1. Elements(received') = Elements(received) \union Elements(responses)
      BY <2>1, ElementsConcat
    <3>2. Elements(responses') = {}
      BY <2>1 DEF Elements
    <3> QED
      BY <2>1, <3>1, <3>2 DEF Produced
  <2>3. Unsettled' = Unsettled
    BY <2>1 DEF Unsettled, InService, Elements
  <2>4. AuditInOrder' /\ RepliesInOrder'
    BY <2>1, <2>2, <2>3, QuietStep DEF LedgerInv
  <2> QED
    BY <2>1, <2>4 DEF LedgerInv, ChannelInOrder, ServiceInOrder, Issued, InService
<1>2. CASE BeginShutdown
  <2>1. /\ UNCHANGED <<responses, received, thread, current, audit, nextRequest>>
        /\ channel' = channel \/ channel' = Append(channel, Shutdown)
    BY <1>2 DEF BeginShutdown, RequestStop
  <2>2. Shutdown \in Messages /\ Shutdown.tag = "Shutdown" /\ Shutdown.request = NoRequest
    BY NoRequestType DEF Shutdown, Messages
  <2>3. /\ Len(channel) <= Len(channel')
        /\ \A i \in 1..Len(channel') :
             channel'[i] = Shutdown \/ (i \in 1..Len(channel) /\ channel'[i] = channel[i])
    <3>1. CASE channel' = channel
      BY <3>1
    <3>2. CASE channel' = Append(channel, Shutdown)
      BY <2>2, <3>2
    <3> QED
      BY <2>1, <3>1, <3>2
  <2>4. Elements(channel') \subseteq Elements(channel) \union {Shutdown}
    BY <2>3 DEF Elements
  <2>5. Unsettled' \subseteq Unsettled
    BY <2>1, <2>2, <2>4 DEF Unsettled, InService
  <2>6. Produced' = Produced
    BY <2>1 DEF Produced, Elements
  <2>7. AuditInOrder' /\ RepliesInOrder'
    BY <2>1, <2>5, <2>6, QuietStep DEF LedgerInv
  <2>8. ChannelInOrder'
    <3> HIDE DEF TypeOK, WorkerTypeOK, Shutdown, NoRequest, Messages
    <3>1. ASSUME NEW i \in 1..Len(channel'), channel'[i].tag = "Work"
          PROVE  i \in 1..Len(channel) /\ channel'[i] = channel[i]
      BY <2>2, <2>3, <3>1
    <3>2. ASSUME NEW i \in 1..Len(channel'), channel'[i].tag = "Work"
          PROVE  Issued(channel[i].request)'
      BY <2>1, <3>1, <3>2 DEF LedgerInv, ChannelInOrder, Issued
    <3>3. ASSUME NEW i \in 1..Len(channel'), channel'[i].tag = "Shutdown"
          PROVE  channel'[i].request = NoRequest
      BY <2>2, <2>3, <3>3 DEF LedgerInv, ChannelInOrder
    <3>4. ASSUME NEW i \in 1..Len(channel'), NEW j \in 1..Len(channel'), i < j,
                 channel'[i].tag = "Work", channel'[j].tag = "Work"
          PROVE  channel'[i].request.id < channel'[j].request.id
      <4>1. /\ i \in 1..Len(channel) /\ channel'[i] = channel[i]
            /\ j \in 1..Len(channel) /\ channel'[j] = channel[j]
        BY <3>1, <3>4
      <4> QED
        BY <3>4, <4>1 DEF LedgerInv, ChannelInOrder
    <3> QED
      BY <3>2, <3>3, <3>4 DEF ChannelInOrder
  <2>9. ServiceInOrder'
    BY <2>1, <2>2, <2>3 DEF LedgerInv, ServiceInOrder, Issued, InService
  <2> QED
    BY <2>7, <2>8, <2>9 DEF LedgerInv
<1>3. CASE EndShutdown
  <2>1. UNCHANGED <<channel, thread, current, audit, nextRequest, received, responses>>
    BY <1>3 DEF EndShutdown, workerVars
  <2>2. Unsettled' = Unsettled /\ Produced' = Produced
    BY <2>1 DEF Unsettled, InService, Elements, Produced
  <2>3. AuditInOrder' /\ RepliesInOrder'
    BY <2>1, <2>2, QuietStep DEF LedgerInv
  <2> QED
    BY <2>1, <2>3 DEF LedgerInv, ChannelInOrder, ServiceInOrder, Issued, InService
<1> QED
  BY <1>1, <1>2, <1>3

\* The thread takes the oldest request out of the channel.
LEMMA LedgerReceive ==
  ASSUME TypeOK, LedgerInv, Receive, UNCHANGED clientVars
  PROVE  LedgerInv'
<1> USE DEF TypeOK, WorkerTypeOK
<1>1. /\ thread = "Receiving"
      /\ channel # <<>>
      /\ Head(channel).tag = "Work"
      /\ current'.request = Head(channel).request
      /\ channel' = Tail(channel)
      /\ thread' = "Received"
      /\ UNCHANGED <<responses, received, audit, nextRequest>>
  BY DEF Receive, Completed, clientVars
<1>2. /\ Len(channel') = Len(channel) - 1
      /\ \A i \in 1..Len(channel') : i + 1 \in 1..Len(channel) /\ channel'[i] = channel[i + 1]
      /\ 1 \in 1..Len(channel) /\ Head(channel) = channel[1]
  BY <1>1
<1>3. Unsettled' \subseteq Unsettled
  <2>1. Head(channel) \in Elements(channel) /\ Elements(channel') \subseteq Elements(channel)
    BY <1>1, ElementsTail
  <2> QED
    BY <1>1, <2>1 DEF Unsettled, InService
<1>4. Produced' = Produced
  BY <1>1 DEF Produced, Elements
<1>5. AuditInOrder' /\ RepliesInOrder'
  BY <1>1, <1>3, <1>4, QuietStep DEF LedgerInv
<1>6. ChannelInOrder'
  BY <1>1, <1>2 DEF LedgerInv, ChannelInOrder, Issued
<1>7. ServiceInOrder'
  BY <1>1, <1>2 DEF LedgerInv, ChannelInOrder, ServiceInOrder, Issued, InService
<1> QED
  BY <1>5, <1>6, <1>7 DEF LedgerInv

\* Whatever was produced is a response.
LEMMA ProducedType ==
  ASSUME TypeOK
  PROVE  \A p \in Produced : p \in Responses /\ p.request.command \in Nat
<1>1. ASSUME NEW p \in Produced PROVE p \in Responses
  BY <1>1 DEF Produced, Elements, Responses, TypeOK, WorkerTypeOK
<1>2. \A p \in Responses : p.request \in Requests
  BY NoRequestType DEF Responses, Terminated
<1> QED
  BY <1>1, <1>2 DEF Requests

\* What is common to the steps that leave the channel alone and do not commit.
LEMMA ServiceStep ==
  ASSUME LedgerInv,
         UNCHANGED <<channel, audit, nextRequest>>,
         current'.request = current.request,
         thread' \in {"Executing", "Replying"}, InService
  PROVE  /\ ChannelInOrder' /\ ServiceInOrder'
         /\ Unsettled' \subseteq Unsettled
  BY DEF LedgerInv, ChannelInOrder, ServiceInOrder, InService, Issued, Unsettled, Elements

\* A command that is settled without a commit is not in the audit trail, and is
\* older than what remains unsettled.
LEMMA LedgerSettle ==
  ASSUME TypeOK, LedgerInv, UNCHANGED clientVars,
         CancelReceived \/ Admit \/ ExecuteQuery \/ FailExecution
  PROVE  LedgerInv'
<1> USE DEF TypeOK, WorkerTypeOK
<1>1. /\ InService
      /\ UNCHANGED <<channel, responses, received, audit, nextRequest>>
      /\ current'.request = current.request
      /\ thread' \in {"Executing", "Replying"}
      /\ thread' = "Replying" => /\ current' \in [tag : {"Completed"}, request : Requests, result : Results]
                                 /\ current'.result.status # "Mutated"
  <2>1. ASSUME NEW s \in {"Viewed", "Failed", "Cancelled"},
               current' = [current EXCEPT !.result = Outcome(s)]
        PROVE  /\ current'.request = current.request
               /\ current' \in [tag : {"Completed"}, request : Requests, result : Results]
               /\ current'.result.status # "Mutated"
    BY <2>1 DEF Outcome, Results, NoUndo
  <2>2. CASE CancelReceived
    BY <2>1, <2>2 DEF CancelReceived, InService, clientVars
  <2>3. CASE Admit
    BY <2>3 DEF Admit, InService, clientVars
  <2>4. CASE ExecuteQuery
    BY <2>1, <2>4 DEF ExecuteQuery, InService, clientVars
  <2>5. CASE FailExecution
    BY <2>1, <2>5 DEF FailExecution, InService, clientVars
  <2> QED
    BY <2>2, <2>3, <2>4, <2>5
<1>2. ChannelInOrder' /\ ServiceInOrder' /\ Unsettled' \subseteq Unsettled
  BY <1>1, ServiceStep
<1>3. ASSUME NEW p \in Produced', p \notin Produced
      PROVE  Truthful(p) /\ Outdated(p)'
  <2>1. p = current' /\ thread' = "Replying"
    BY <1>1, <1>3 DEF Produced, Elements
  <2>2. p.request = current.request /\ p.result.status # "Mutated"
    BY <1>1, <2>1
  <2>3. Issued(current.request) /\ current.request \in Unsettled /\ current.request \in Requests
    BY <1>1 DEF LedgerInv, ServiceInOrder, Unsettled
  <2>4. p.request.command # 0 => ~Committed(p.request.command)
    BY <2>2, <2>3 DEF LedgerInv, AuditInOrder, Issued, Committed, Requests
  <2>5. Truthful(p)
    BY <2>2, <2>4 DEF Truthful
  <2>6. ASSUME NEW r \in Unsettled'
        PROVE  p.request.command < r.id
    <3>1. PICK i \in 1..Len(channel) : channel[i].tag = "Work" /\ r = channel[i].request
      BY <1>1, <2>1, <2>6 DEF Unsettled, InService, Elements
    <3>2. channel[i] \in Messages
      BY ElementOfSeq
    <3>3. r \in Requests /\ current.request.id < r.id
      BY <1>1, <3>1, <3>2 DEF LedgerInv, ServiceInOrder, Messages
    <3> QED
      BY <2>2, <2>3, <3>3 DEF Issued, Requests
  <2>7. p.request.command < nextRequest'
    BY <1>1, <2>2, <2>3, SessionAssumption DEF Issued
  <2> QED
    BY <2>5, <2>6, <2>7 DEF Outdated
<1>4. AuditInOrder' /\ RepliesInOrder'
  BY <1>1, <1>2, <1>3, QuietStep DEF LedgerInv
<1> QED
  BY <1>2, <1>4 DEF LedgerInv

\* A command that commits is newer than every earlier one, so the audit trail
\* stays in order and no reply that was refused becomes a lie.
LEMMA LedgerExecute ==
  ASSUME TypeOK, LedgerInv, UNCHANGED clientVars, ExecuteCommand
  PROVE  LedgerInv'
<1> USE DEF TypeOK, WorkerTypeOK
<1> DEFINE c == current.request.command
<1>1. /\ InService
      /\ UNCHANGED <<channel, responses, received, nextRequest>>
      /\ current'.request = current.request
      /\ current'.result.status = "Mutated"
      /\ thread' = "Replying"
      /\ audit' = Append(audit, c)
      /\ current.request.op # Query
  BY DEF ExecuteCommand, InService, clientVars, Mutated, Query
<1>2. /\ current.request \in Requests /\ current.request \in Unsettled
      /\ Issued(current.request)
      /\ c = current.request.id /\ c # 0 /\ c \in 1..(nextRequest - 1)
  BY <1>1, SessionAssumption DEF LedgerInv, ServiceInOrder, Unsettled, Issued
<1> HIDE DEF c
<1>3. ChannelInOrder' /\ ServiceInOrder'
  BY <1>1 DEF LedgerInv, ChannelInOrder, ServiceInOrder, InService, Issued
<1>4. ASSUME NEW r \in Unsettled' PROVE r \in Unsettled /\ r \in Requests /\ c < r.id
  <2>1. PICK i \in 1..Len(channel) : channel[i].tag = "Work" /\ r = channel[i].request
    BY <1>1, <1>4 DEF Unsettled, InService, Elements
  <2>2. channel[i] \in Messages /\ channel[i] \in Elements(channel)
    BY ElementOfSeq DEF Elements
  <2> QED
    BY <1>1, <1>2, <2>1, <2>2 DEF LedgerInv, ServiceInOrder, Unsettled, Messages
<1>5. /\ Len(audit') = Len(audit) + 1
      /\ \A i \in 1..Len(audit) : audit'[i] = audit[i] /\ audit[i] \in Nat /\ audit[i] < c
      /\ audit'[Len(audit) + 1] = c
  <2>1. c \in Nat
    BY <1>2
  <2>2. \A i \in 1..Len(audit) : audit[i] \in Nat /\ audit[i] < c
    BY <1>2 DEF LedgerInv, AuditInOrder
  <2> QED
    BY <1>1, <2>1, <2>2
<1>6. AuditInOrder'
  <2>1. \A i \in 1..Len(audit') : audit'[i] \in 1..(nextRequest' - 1)
    BY <1>1, <1>2, <1>5 DEF LedgerInv, AuditInOrder
  <2>2. ASSUME NEW i \in 1..Len(audit'), NEW j \in 1..Len(audit'), i < j
        PROVE  audit'[i] < audit'[j]
    <3>1. i \in 1..Len(audit)
      BY <1>5, <2>2
    <3>2. CASE j \in 1..Len(audit)
      BY <1>5, <2>2, <3>1, <3>2 DEF LedgerInv, AuditInOrder
    <3>3. CASE j = Len(audit) + 1
      BY <1>5, <3>1, <3>3
    <3> QED
      BY <1>5, <3>2, <3>3
  <2>3. \A i \in 1..Len(audit') : \A r \in Unsettled' : audit'[i] < r.id
    BY <1>4, <1>5, SMTT(30) DEF LedgerInv, AuditInOrder
  <2> QED
    BY <2>1, <2>2, <2>3 DEF AuditInOrder
<1>7. \A d : Committed(d)' <=> Committed(d) \/ d = c
  <2> TAKE d
  <2>1. Committed(d)' => Committed(d) \/ d = c
    BY <1>5 DEF Committed
  <2>2. Committed(d) => Committed(d)'
    BY <1>5 DEF Committed
  <2>3. d = c => Committed(d)'
    <3>1. Len(audit) + 1 \in 1..Len(audit')
      BY <1>5
    <3> QED
      BY <1>5, <3>1 DEF Committed
  <2> QED
    BY <2>1, <2>2, <2>3
<1>8. ASSUME NEW p \in Produced' PROVE Truthful(p)' /\ Outdated(p)'
  <2>1. CASE p \in Produced
    <3>1. Truthful(p) /\ Outdated(p)
      BY <2>1 DEF LedgerInv, RepliesInOrder
    <3>2. p.request.command < c
      BY <1>2, <3>1 DEF Outdated
    <3>3. p.request.command # c
      BY <3>2, <1>2, <2>1, ProducedType
    <3> QED
      BY <1>1, <1>4, <1>7, <3>1, <3>3 DEF Truthful, Outdated
  <2>2. CASE p = current'
    <3>1. p.request.command = c /\ p.result.status = "Mutated"
      BY <1>1, <2>2 DEF c
    <3>2. p.result \notin Refused
      BY <3>1 DEF Refused, Outcome
    <3> QED
      BY <1>1, <1>2, <1>4, <1>7, <3>1, <3>2 DEF Truthful, Outdated
  <2> QED
    BY <1>1, <2>1, <2>2 DEF Produced, Elements
<1> QED
  BY <1>3, <1>6, <1>8 DEF LedgerInv, RepliesInOrder

\* The held result becomes a response; nothing new is said.
LEMMA LedgerReply ==
  ASSUME TypeOK, LedgerInv, UNCHANGED clientVars, Reply
  PROVE  LedgerInv'
<1> USE DEF TypeOK, WorkerTypeOK
<1>1. /\ thread = "Replying" /\ thread' = "Receiving"
      /\ responses' = Append(responses, current)
      /\ UNCHANGED <<channel, received, audit, nextRequest>>
  BY DEF Reply, clientVars
<1>2. Elements(responses') = Elements(responses) \union {current}
  <2>1. current \in Responses
    BY DEF Responses
  <2> QED
    BY <1>1, <2>1, ElementsAppend
<1>3. Produced' = Produced
  BY <1>1, <1>2 DEF Produced, Elements
<1>4. Unsettled' \subseteq Unsettled
  BY <1>1 DEF Unsettled, InService, Elements
<1>5. AuditInOrder' /\ RepliesInOrder'
  BY <1>1, <1>3, <1>4, QuietStep DEF LedgerInv
<1> QED
  BY <1>1, <1>5 DEF LedgerInv, ChannelInOrder, ServiceInOrder, InService, Issued

\* What the channel still holds at the end is answered as cancelled, and with
\* the channel empty nothing can run any more.
LEMMA LedgerDrainCancelled ==
  ASSUME TypeOK, LedgerInv, UNCHANGED clientVars, ReceiveShutdown
  PROVE  LedgerInv'
<1> USE DEF TypeOK, WorkerTypeOK
<1> DEFINE rest == Tail(channel)
<1>1. /\ thread = "Receiving" /\ thread' = "Closing"
      /\ channel # <<>> /\ channel' = <<>>
      /\ responses' = responses \o Cancellations(rest)
      /\ UNCHANGED <<received, audit, nextRequest>>
  BY DEF ReceiveShutdown, clientVars
<1>2. rest \in Seq(Messages) /\ Len(rest) = Len(channel) - 1
      /\ \A i \in 1..Len(rest) : i + 1 \in 1..Len(channel) /\ rest[i] = channel[i + 1]
  BY <1>1
<1> HIDE DEF rest
<1>3. Elements(responses') = Elements(responses) \union Elements(Cancellations(rest))
  BY <1>1, <1>2, CancellationsType, ElementsConcat
<1>4. Unsettled' = {}
  BY <1>1 DEF Unsettled, InService, Elements
<1>5. ASSUME NEW p \in Elements(Cancellations(rest))
      PROVE  Truthful(p) /\ Outdated(p)'
  <2>1. PICK i \in 1..Len(rest) : p = Completed(rest[i].request, Outcome("Cancelled"))
    <3>1. PICK i \in 1..Len(rest) : p = Cancellations(rest)[i]
      BY <1>2, CancellationsType DEF Elements
    <3> QED
      BY <3>1 DEF Cancellations
  <2>2. p.request = rest[i].request /\ p.result.status = "Cancelled"
    BY <2>1 DEF Completed, Outcome
  <2>3. CASE rest[i].tag = "Work"
    <3>1. i + 1 \in 1..Len(channel) /\ channel[i + 1].tag = "Work"
            /\ p.request = channel[i + 1].request /\ channel[i + 1] \in Messages
      BY <1>2, <2>2, <2>3, ElementOfSeq
    <3>2. Issued(p.request) /\ p.request \in Requests
      BY <3>1 DEF LedgerInv, ChannelInOrder, Messages
    <3>3. p.request \in Unsettled
      BY <3>1 DEF Unsettled, Elements
    <3>4. p.request.command # 0 => ~Committed(p.request.command)
      <4> HIDE DEF TypeOK, WorkerTypeOK
      <4>1. \A k \in 1..Len(audit) : audit[k] < p.request.id
        BY <3>3 DEF LedgerInv, AuditInOrder
      <4>2. p.request.command \in {0, p.request.id} /\ p.request.id \in Nat
        BY <3>2 DEF Issued
      <4>3. ASSUME NEW k \in 1..Len(audit), audit[k] = p.request.command
            PROVE  p.request.command = 0
        BY <4>1, <4>2, <4>3
      <4> QED
        BY <4>3 DEF Committed
    <3>5. p.request.command < nextRequest
      BY <3>2, SessionAssumption DEF Issued
    <3> QED
      BY <1>1, <1>4, <2>2, <3>4, <3>5 DEF Truthful, Outdated
  <2>4. CASE rest[i].tag = "Shutdown"
    <3>1. p.request = NoRequest
      BY <1>2, <2>2, <2>4 DEF LedgerInv, ChannelInOrder
    <3>2. p.request.command = 0
      BY <3>1 DEF NoRequest
    <3>3. 0 < nextRequest
      BY SessionAssumption
    <3> QED
      BY <1>1, <1>4, <3>2, <3>3 DEF Truthful, Outdated
  <2>5. rest[i] \in Messages
    BY <1>2, ElementOfSeq
  <2> QED
    BY <2>3, <2>4, <2>5 DEF Messages
<1>6. \A p \in Produced' : p \in Produced \/ (Truthful(p) /\ Outdated(p)')
  BY <1>1, <1>3, <1>5 DEF Produced, Elements
<1>7. AuditInOrder' /\ RepliesInOrder'
  BY <1>1, <1>4, <1>6, QuietStep DEF LedgerInv
<1>8. ChannelInOrder' /\ ServiceInOrder'
  BY <1>1 DEF ChannelInOrder, ServiceInOrder, InService
<1> QED
  BY <1>7, <1>8 DEF LedgerInv

\* The thread ends, in order or not: requests are dropped, never added.
LEMMA LedgerExit ==
  ASSUME TypeOK, LedgerInv, UNCHANGED clientVars,
         CheckpointAndExit \/ FailCheckpoint \/ Panic
  PROVE  LedgerInv'
<1> USE DEF TypeOK, WorkerTypeOK
<1>1. /\ thread' = "Exited"
      /\ channel' = channel \/ channel' = <<>>
      /\ UNCHANGED <<received, audit, nextRequest>>
      /\ responses' = responses \/ responses' = Append(responses, Terminated)
  BY DEF CheckpointAndExit, FailCheckpoint, Panic, clientVars
<1>2. Elements(responses') \subseteq Elements(responses) \union {Terminated}
  <2>1. Terminated \in Responses
    BY DEF Responses
  <2>2. Elements(Append(responses, Terminated)) = Elements(responses) \union {Terminated}
    BY <2>1, ElementsAppend
  <2>3. CASE responses' = responses
    BY <2>3 DEF Elements
  <2>4. CASE responses' = Append(responses, Terminated)
    BY <2>2, <2>4 DEF Elements
  <2> QED
    BY <1>1, <2>3, <2>4
<1>3. Unsettled' \subseteq Unsettled
  BY <1>1 DEF Unsettled, InService, Elements
<1>4. Truthful(Terminated) /\ Outdated(Terminated)'
  <2>1. Terminated.tag = "Terminated" /\ Terminated.request.command = 0
    BY DEF Terminated, NoRequest
  <2>2. \A r \in Unsettled' : 0 < r.id
    BY <1>3, UnsettledIssued DEF LedgerInv, Issued
  <2>3. 0 < nextRequest'
    BY <1>1, SessionAssumption
  <2> QED
    BY <2>1, <2>2, <2>3 DEF Truthful, Outdated
<1>5. \A p \in Produced' : p \in Produced \/ (Truthful(p) /\ Outdated(p)')
  BY <1>1, <1>2, <1>4 DEF Produced, Elements
<1>6. AuditInOrder' /\ RepliesInOrder'
  BY <1>1, <1>3, <1>5, QuietStep DEF LedgerInv
<1>7. ChannelInOrder'
  <2>1. CASE channel' = channel
    BY <1>1, <2>1 DEF LedgerInv, ChannelInOrder, Issued
  <2>2. CASE channel' = <<>>
    BY <2>2 DEF ChannelInOrder
  <2> QED
    BY <1>1, <2>1, <2>2
<1>8. ServiceInOrder'
  BY <1>1 DEF ServiceInOrder, InService
<1> QED
  BY <1>6, <1>7, <1>8 DEF LedgerInv

-----------------------------------------------------------------------------
\* The order of identifiers holds throughout, for every value of the constants.
LEMMA LedgerInvariant == Spec => [](TypeOK /\ LedgerInv)
<1>1. TypeOK /\ LedgerInv /\ [Next]_vars => LedgerInv'
  <2> SUFFICES ASSUME TypeOK, LedgerInv, [Next]_vars
               PROVE  LedgerInv'
    OBVIOUS
  <2>1. ASSUME NEW op \in Operations, Submit(op)
        PROVE  LedgerInv'
    BY <2>1, LedgerSubmit
  <2>2. CASE DrainReady \/ BeginShutdown \/ EndShutdown
    BY <2>2, LedgerClient
  <2>3. CASE ThreadStep
    BY <2>3, LedgerReceive, LedgerSettle, LedgerExecute, LedgerReply,
       LedgerDrainCancelled, LedgerExit
       DEF ThreadStep, WorkerStep, WorkerProgress
  <2>4. CASE UNCHANGED vars
    BY <2>4 DEF vars, workerVars, clientVars, LedgerInv, ChannelInOrder, ServiceInOrder,
                AuditInOrder, RepliesInOrder, Truthful, Outdated, Committed, Unsettled,
                InService, Issued, Produced, Elements
  <2> QED
    BY <2>1, <2>2, <2>3, <2>4 DEF Next
<1> QED
  BY <1>1, TypeCorrect, LedgerInit, PTL DEF Spec

\* A response never misstates what happened to the ledger (worker.rs:136),
\* whatever is submitted, however the session is stopped, panics included.
THEOREM RepliesAreTrue == Spec => []RepliesMatchStore
<1>1. LedgerInv => RepliesMatchStore
  BY DEF LedgerInv, RepliesInOrder, Truthful, RepliesMatchStore
<1> QED
  BY <1>1, LedgerInvariant, PTL

\* No command commits twice.
THEOREM NoCommandTwice == Spec => []ExecutedOnce
<1>1. TypeOK /\ LedgerInv => ExecutedOnce
  <2> SUFFICES ASSUME TypeOK, LedgerInv,
                      NEW i \in 1..Len(audit), NEW j \in 1..Len(audit),
                      audit[i] = audit[j]
               PROVE  i = j
    BY DEF ExecutedOnce
  <2>1. audit[i] \in Nat /\ i \in Nat /\ j \in Nat
    BY DEF TypeOK, WorkerTypeOK
  <2>2. ~(i < j) /\ ~(j < i)
    BY <2>1 DEF LedgerInv, AuditInOrder
  <2> QED
    BY <2>1, <2>2
<1> QED
  BY <1>1, LedgerInvariant, PTL
-----------------------------------------------------------------------------
(* Stopping.  Where the Shutdown message can be, what the flag and the      *)
(* thread say of one another, and where every request submitted is.         *)

\* Sequences known by their elements, in the forms the steps need.
LEMMA SeqOfFunction ==
  ASSUME NEW S, NEW n \in Nat, NEW f \in [1..n -> S]
  PROVE  f \in Seq(S) /\ Len(f) = n
<1>1. f \in Seq(S)
  BY SeqDef
<1>2. DOMAIN f = 1..n /\ DOMAIN f = 1..Len(f) /\ Len(f) \in Nat
  BY <1>1, LenProperties
<1> QED
  BY <1>1, <1>2

LEMMA AppendFromElements ==
  ASSUME NEW S, NEW s \in Seq(S), NEW t \in Seq(S), NEW e \in S,
         Len(t) = Len(s) + 1, \A i \in 1..Len(s) : t[i] = s[i], t[Len(s) + 1] = e
  PROVE  t = Append(s, e)
<1>1. /\ Append(s, e) \in Seq(S) /\ Len(Append(s, e)) = Len(s) + 1
      /\ \A i \in 1..Len(s) : Append(s, e)[i] = s[i]
      /\ Append(s, e)[Len(s) + 1] = e
  BY AppendProperties
<1>2. \A i \in 1..Len(t) : i \in 1..Len(s) \/ i = Len(s) + 1
  BY LenProperties
<1>3. \A i \in 1..Len(t) : t[i] = Append(s, e)[i]
  BY <1>1, <1>2
<1> QED
  BY <1>1, <1>3, SeqEqual

LEMMA TailFromElements ==
  ASSUME NEW S, NEW s \in Seq(S), NEW t \in Seq(S), s # <<>>,
         Len(t) = Len(s) - 1, \A i \in 1..Len(t) : t[i] = s[i + 1]
  PROVE  t = Tail(s)
  BY HeadTailProperties, SeqEqual

\* What one thread appends to its responses is appended to what was ever sent.
LEMMA ConcatAppend ==
  ASSUME NEW S, NEW s \in Seq(S), NEW t \in Seq(S), NEW e \in S
  PROVE  s \o Append(t, e) = Append(s \o t, e)
<1>1. Append(t, e) = t \o <<e>> /\ <<e>> \in Seq(S)
  BY AppendIsConcat
<1>2. s \o t \in Seq(S)
  BY ConcatProperties
<1>3. Append(s \o t, e) = (s \o t) \o <<e>>
  BY <1>2, AppendIsConcat
<1> QED
  BY <1>1, <1>3, ConcatAssociative

LEMMA SentType ==
  ASSUME TypeOK
  PROVE  Sent \in Seq(Responses) /\ Len(Sent) = Len(received) + Len(responses)
  BY ConcatProperties DEF TypeOK, WorkerTypeOK, Sent

\* The flag goes up when the one Shutdown message is sent, after every request.
ShutdownLast ==
  \A i \in 1..Len(channel) :
    channel[i].tag = "Shutdown" <=> stopping /\ i = Len(channel)

\* The thread ends after its channel; the client returns after the thread.
EndsInOrder ==
  /\ thread \in {"Closing", "Exited"} => channel = <<>>
  /\ thread = "Closing" => stopping
  /\ exit = "None" <=> thread # "Exited"
  /\ client = "Active" => ~stopping
  /\ client \in {"Stopped", "StopFailed"} => thread = "Exited"
  /\ client = "Stopped" => exit = "Clean"

\* Unless the thread unwound, every request is answered, in service or waiting;
\* and only the last message of an orderly end is no answer.
EveryRequestAccounted ==
  /\ exit # "Panicked" =>
       Answered + Waiting + (IF Serving THEN 1 ELSE 0) = nextRequest - 1
  /\ \A i \in 1..Len(Sent) : Sent[i].tag = "Completed" <=> i <= Answered
  /\ exit = "Clean" => Len(Sent) > 0 /\ Sent[Len(Sent)] = Terminated

StopInv == ShutdownLast /\ EndsInOrder /\ EveryRequestAccounted

\* The message the thread stops for is the last one: nothing is left to cancel.
LEMMA NothingToCancel ==
  ASSUME TypeOK, StopInv, ReceiveShutdown
  PROVE  Len(channel) = 1 /\ stopping /\ responses' = responses
<1> USE DEF TypeOK, WorkerTypeOK
<1>1. channel # <<>> /\ Head(channel) = channel[1] /\ channel[1].tag = "Shutdown"
  BY DEF ReceiveShutdown
<1>2. Len(channel) = 1 /\ stopping
  <2>1. 1 \in 1..Len(channel)
    BY <1>1
  <2> QED
    BY <1>1, <2>1 DEF StopInv, ShutdownLast
<1>3. Tail(channel) \in Seq(Messages) /\ Len(Tail(channel)) = 0
  BY <1>1, <1>2, HeadTailProperties
<1>4. Cancellations(Tail(channel)) \in Seq(Responses) /\ Len(Cancellations(Tail(channel))) = 0
  BY <1>3, CancellationsType
<1>5. Cancellations(Tail(channel)) = <<>>
  BY <1>4, EmptySeq
<1>6. \A r \in Seq(Responses) : r \o <<>> = r
  BY ConcatEmptySeq
<1> QED
  BY <1>2, <1>5, <1>6 DEF ReceiveShutdown

\* How each step changes what was ever sent.
LEMMA SentSteps ==
  ASSUME TypeOK, StopInv, [Next]_vars
  PROVE  /\ Reply /\ UNCHANGED clientVars => Sent' = Append(Sent, current)
         /\ CheckpointAndExit /\ UNCHANGED clientVars => Sent' = Append(Sent, Terminated)
         /\ ~Reply /\ ~CheckpointAndExit => Sent' = Sent
<1> USE DEF TypeOK, WorkerTypeOK
<1>1. \A p \in Responses : received \o Append(responses, p) = Append(Sent, p)
  BY ConcatAppend DEF Sent
<1>2. Reply /\ UNCHANGED clientVars => Sent' = Append(Sent, current)
  BY <1>1 DEF Reply, clientVars, Sent, Responses
<1>3. CheckpointAndExit /\ UNCHANGED clientVars => Sent' = Append(Sent, Terminated)
  BY <1>1 DEF CheckpointAndExit, clientVars, Sent, Responses
<1>4. DrainReady => Sent' = Sent
  <2> HAVE DrainReady
  <2>1. Sent' = Sent \o <<>>
    BY DEF DrainReady, Sent
  <2> QED
    BY <2>1, SentType, ConcatEmptySeq
<1>5. ~Reply /\ ~CheckpointAndExit /\ ~DrainReady => UNCHANGED <<received, responses>>
  <2> HAVE ~Reply /\ ~CheckpointAndExit /\ ~DrainReady
  <2>1. CASE ThreadStep
    BY <2>1, NothingToCancel DEF ThreadStep, clientVars, WorkerStep, WorkerProgress, Receive,
       CancelReceived, Admit, ExecuteQuery, ExecuteCommand, FailExecution, ReceiveShutdown,
       FailCheckpoint, Panic
  <2> QED
    BY <2>1 DEF Next, Submit, BeginShutdown, EndShutdown, vars, workerVars, clientVars
<1> QED
  BY <1>2, <1>3, <1>4, <1>5 DEF Sent

\* Nothing was submitted yet, and nothing was sent.
LEMMA StopInit == Init => StopInv
<1> SUFFICES ASSUME Init PROVE StopInv
  OBVIOUS
<1>1. Sent = <<>>
  BY ConcatEmptySeq, EmptySeq DEF Init, WorkerStarted, Sent
<1> QED
  BY <1>1 DEF Init, WorkerStarted, StopInv, ShutdownLast, EndsInOrder, EveryRequestAccounted,
     Answered, Waiting, Serving

\* The steps of the thread, each with what it leaves alone.
LEMMA ThreadSteps ==
  ASSUME ThreadStep
  PROVE  /\ UNCHANGED clientVars
         /\ \/ Receive \/ CancelReceived \/ Admit \/ ExecuteQuery \/ ExecuteCommand
            \/ FailExecution \/ Reply \/ ReceiveShutdown \/ CheckpointAndExit
            \/ FailCheckpoint \/ Panic
  BY DEF ThreadStep, WorkerStep, WorkerProgress

\* Once the Shutdown message is in, nothing is sent after it.
LEMMA StopKeepsOrder ==
  ASSUME TypeOK, StopInv, [Next]_vars
  PROVE  ShutdownLast'
<1> USE DEF TypeOK, WorkerTypeOK, StopInv, ShutdownLast
<1>1. ASSUME NEW op \in Operations, Submit(op)
      PROVE  ShutdownLast'
  <2> DEFINE m == Work(NewRequest(op))
  <2>1. m \in Messages /\ m.tag = "Work"
    BY SessionAssumption DEF NewRequest, Requests, Work, Messages
  <2>2. channel' = Append(channel, m) /\ ~stopping /\ stopping' = stopping
    BY <1>1 DEF Submit, Send, CanSubmit
  <2> HIDE DEF m
  <2>3. /\ \A i \in 1..Len(channel) : channel'[i] = channel[i]
        /\ channel'[Len(channel) + 1] = m /\ Len(channel') = Len(channel) + 1
    BY <2>1, <2>2, AppendProperties
  <2>4. \A i \in 1..Len(channel') : i \in 1..Len(channel) \/ i = Len(channel) + 1
    BY <2>3
  <2> QED
    BY <2>1, <2>2, <2>3, <2>4
<1>2. CASE BeginShutdown
  <2>1. ~stopping /\ stopping'
    BY <1>2 DEF BeginShutdown, RequestStop
  <2>2. CASE thread = "Exited"
    BY <1>2, <2>2 DEF BeginShutdown, RequestStop, EndsInOrder
  <2>3. CASE thread # "Exited"
    <3>1. channel' = Append(channel, Shutdown)
      BY <1>2, <2>3 DEF BeginShutdown, RequestStop
    <3>2. Shutdown \in Messages /\ Shutdown.tag = "Shutdown"
      BY NoRequestType DEF Shutdown, Messages
    <3>3. /\ \A i \in 1..Len(channel) : channel'[i] = channel[i]
          /\ channel'[Len(channel) + 1] = Shutdown /\ Len(channel') = Len(channel) + 1
      BY <3>1, <3>2, AppendProperties
    <3>4. \A i \in 1..Len(channel') : i \in 1..Len(channel) \/ i = Len(channel) + 1
      BY <3>3
    <3> QED
      BY <2>1, <3>2, <3>3, <3>4
  <2> QED
    BY <2>2, <2>3
<1>3. CASE Receive
  <2>1. channel # <<>> /\ channel' = Tail(channel) /\ stopping' = stopping
    BY <1>3 DEF Receive
  <2>2. /\ Len(channel') = Len(channel) - 1
        /\ \A i \in 1..Len(channel') : channel'[i] = channel[i + 1] /\ i + 1 \in 1..Len(channel)
    BY <2>1, HeadTailProperties
  <2>3. ASSUME NEW i \in 1..Len(channel')
        PROVE  channel'[i].tag = "Shutdown" <=> stopping' /\ i = Len(channel')
    <3>1. i + 1 \in 1..Len(channel) /\ channel'[i] = channel[i + 1]
      BY <2>2
    <3>2. i = Len(channel') <=> i + 1 = Len(channel)
      BY <2>2
    <3> QED
      BY <2>1, <3>1, <3>2
  <2> QED
    BY <2>3
<1>4. CASE DrainReady \/ EndShutdown \/ (ThreadStep /\ ~Receive) \/ UNCHANGED vars
  <2>1. stopping' = stopping /\ (channel' = channel \/ channel' = <<>>)
    <3>1. CASE ThreadStep /\ ~Receive
      BY <3>1, ThreadSteps DEF CancelReceived, Admit, ExecuteQuery, ExecuteCommand, FailExecution,
         Reply, ReceiveShutdown, CheckpointAndExit, FailCheckpoint, Panic
    <3> QED
      BY <1>4, <3>1 DEF DrainReady, EndShutdown, vars, workerVars
  <2>2. channel' = <<>> => 1..Len(channel') = {}
    BY EmptySeq
  <2>3. CASE channel' = channel
    BY <2>1, <2>3
  <2> QED
    BY <2>1, <2>2, <2>3
<1> QED
  BY <1>1, <1>2, <1>3, <1>4 DEF Next

\* The thread closes only after the flag went up, and never runs again.
LEMMA StopKeepsEnd ==
  ASSUME TypeOK, StopInv, [Next]_vars
  PROVE  EndsInOrder'
<1> USE DEF TypeOK, WorkerTypeOK, StopInv, EndsInOrder
<1>1. ASSUME NEW op \in Operations, Submit(op)
      PROVE  EndsInOrder'
  BY <1>1 DEF Submit, CanSubmit
<1>2. CASE DrainReady
  BY <1>2 DEF DrainReady
<1>3. CASE BeginShutdown
  BY <1>3 DEF BeginShutdown, RequestStop
<1>4. CASE EndShutdown
  BY <1>4 DEF EndShutdown, Joinable, JoinedClean, workerVars
<1>5. CASE ThreadStep
  <2> USE ThreadSteps DEF clientVars
  <2>1. CASE ReceiveShutdown
    BY <1>5, <2>1, NothingToCancel DEF ReceiveShutdown
  <2>2. CASE CheckpointAndExit \/ FailCheckpoint \/ Panic
    BY <1>5, <2>2 DEF CheckpointAndExit, FailCheckpoint, Panic
  <2>3. CASE ~ReceiveShutdown /\ ~CheckpointAndExit /\ ~FailCheckpoint /\ ~Panic
    BY <1>5, <2>3 DEF Receive, CancelReceived, Admit, ExecuteQuery, ExecuteCommand,
       FailExecution, Reply
  <2> QED
    BY <2>1, <2>2, <2>3
<1>6. CASE UNCHANGED vars
  BY <1>6 DEF vars, workerVars, clientVars
<1> QED
  BY <1>1, <1>2, <1>3, <1>4, <1>5, <1>6 DEF Next

\* The indices of a sequence that has grown by one.
LEMMA LastOrBefore == \A n \in Nat : \A i \in 1..(n + 1) : i \in 1..n \/ i = n + 1
  OBVIOUS

\* The number of requests waiting in the channel.
LEMMA WaitingType ==
  ASSUME TypeOK, StopInv
  PROVE  /\ Waiting \in Nat /\ Waiting <= Len(channel)
         /\ \A i \in 1..Waiting : channel[i].tag = "Work"
         /\ channel # <<>> /\ channel[1].tag = "Work" => Waiting > 0
         /\ channel # <<>> /\ channel[1].tag = "Shutdown" => Waiting = 0
<1>0. channel \in Seq(Messages)
  BY DEF TypeOK, WorkerTypeOK
<1>1. Len(channel) \in Nat /\ (channel # <<>> => Len(channel) > 0)
  BY <1>0, EmptySeq, LenProperties
<1>2. ASSUME NEW i \in 1..Len(channel) PROVE channel[i].tag \in {"Work", "Shutdown"}
  <2>1. channel[i] \in Messages
    BY <1>0, ElementOfSeq
  <2> QED
    BY <2>1 DEF Messages
<1>3. CASE channel = <<>>
  <2>1. Len(channel) = 0 /\ Waiting = 0
    BY <1>3, EmptySeq DEF Waiting
  <2> QED
    BY <1>3, <2>1
<1>4. CASE channel # <<>> /\ stopping
  <2>1. Waiting = Len(channel) - 1 /\ Waiting \in Nat
    BY <1>1, <1>4 DEF Waiting
  <2>2. \A i \in 1..Len(channel) : channel[i].tag = "Shutdown" <=> i = Len(channel)
    BY <1>4 DEF StopInv, ShutdownLast
  <2>3. \A i \in 1..Waiting : i \in 1..Len(channel) /\ i # Len(channel)
    BY <1>1, <2>1
  <2>4. 1 \in 1..Len(channel)
    BY <1>1, <1>4
  <2> QED
    BY <1>1, <1>2, <2>1, <2>2, <2>3, <2>4
<1>5. CASE channel # <<>> /\ ~stopping
  <2>1. Waiting = Len(channel)
    BY <1>1, <1>5 DEF Waiting
  <2>2. \A i \in 1..Len(channel) : channel[i].tag # "Shutdown"
    BY <1>5 DEF StopInv, ShutdownLast
  <2>3. 1 \in 1..Len(channel)
    BY <1>1, <1>5
  <2> QED
    BY <1>1, <1>2, <1>5, <2>1, <2>2, <2>3
<1> QED
  BY <1>3, <1>4, <1>5

\* A request moves from the channel to the thread to the answers, and is never lost
\* in between.
LEMMA StopKeepsAccount ==
  ASSUME TypeOK, StopInv, [Next]_vars
  PROVE  EveryRequestAccounted'
<1> USE DEF TypeOK, WorkerTypeOK
<1>0. /\ Sent \in Seq(Responses) /\ Len(Sent) \in Nat
      /\ Len(channel) \in Nat
      /\ Answered = Len(Sent) - (IF exit = "Clean" THEN 1 ELSE 0)
      /\ nextRequest \in Nat
      /\ Waiting \in Nat
  BY SentType, WaitingType, LenProperties, SessionAssumption DEF Answered
<1>1. ASSUME NEW op \in Operations, Submit(op)
      PROVE  EveryRequestAccounted'
  <2>0. Work(NewRequest(op)) \in Messages
    BY SessionAssumption DEF NewRequest, Requests, Work, Messages
  <2>1. /\ ~stopping /\ UNCHANGED <<stopping, thread, exit>>
        /\ nextRequest' = nextRequest + 1
        /\ Len(channel') = Len(channel) + 1
        /\ Sent' = Sent
    BY <1>1, <2>0, AppendProperties DEF Submit, Send, CanSubmit, Sent
  <2>2. Waiting' = Waiting + 1 /\ Answered' = Answered
    BY <1>0, <2>1 DEF Waiting, Answered
  <2>3. Answered \in Int /\ (IF Serving THEN 1 ELSE 0) \in Int
    BY <1>0
  <2>4. Serving' <=> Serving
    BY <2>1 DEF Serving
  <2>5. exit # "Panicked" => Answered' + Waiting' + (IF Serving THEN 1 ELSE 0) = nextRequest' - 1
    BY <1>0, <2>1, <2>2, <2>3 DEF StopInv, EveryRequestAccounted
  <2> QED
    BY <2>1, <2>2, <2>4, <2>5 DEF StopInv, EveryRequestAccounted
<1>2. CASE DrainReady \/ EndShutdown \/ UNCHANGED vars
  <2>1. UNCHANGED <<channel, stopping, thread, exit, nextRequest>> /\ ~Reply /\ ~CheckpointAndExit
    BY <1>2 DEF DrainReady, EndShutdown, vars, workerVars, clientVars, Reply, CheckpointAndExit
  <2>2. Sent' = Sent
    BY <2>1, SentSteps
  <2>3. Waiting' = Waiting /\ Answered' = Answered
    BY <2>1, <2>2 DEF Waiting, Answered
  <2> QED
    BY <2>1, <2>2, <2>3 DEF StopInv, EveryRequestAccounted, Serving
<1>3. CASE BeginShutdown
  <2>1. /\ ~stopping /\ stopping' /\ UNCHANGED <<thread, exit, nextRequest, received, responses>>
        /\ IF thread = "Exited" THEN channel' = channel ELSE Len(channel') = Len(channel) + 1
    BY <1>3, NoRequestType DEF BeginShutdown, RequestStop
  <2>2. Sent' = Sent /\ Answered' = Answered
    BY <2>1 DEF Sent, Answered
  <2>3. thread = "Exited" => channel = <<>>
    BY DEF StopInv, EndsInOrder
  <2>4. Waiting' = Waiting
    BY <1>0, <2>1, <2>3 DEF Waiting
  <2> QED
    BY <2>1, <2>2, <2>4 DEF StopInv, EveryRequestAccounted, Serving
<1>4. CASE ThreadStep
  <2> USE ThreadSteps DEF clientVars
  <2>0. stopping' = stopping /\ nextRequest' = nextRequest
    BY <1>4 DEF Receive, CancelReceived, Admit, ExecuteQuery, ExecuteCommand, FailExecution,
       Reply, ReceiveShutdown, CheckpointAndExit, FailCheckpoint, Panic
  <2>1. CASE Receive
    <3>0. channel # <<>> /\ Head(channel).tag = "Work" /\ channel' = Tail(channel)
      BY <2>1 DEF Receive
    <3>1. /\ channel # <<>> /\ channel[1].tag = "Work"
          /\ Len(channel') = Len(channel) - 1
          /\ thread = "Receiving" /\ thread' = "Received" /\ exit' = exit
          /\ ~Reply /\ ~CheckpointAndExit
      BY <2>1, <3>0, HeadTailProperties DEF Receive, Reply, CheckpointAndExit
    <3>2. Sent' = Sent /\ Answered' = Answered
      BY <3>1, SentSteps DEF Answered
    <3>3. channel' = <<>> <=> Len(channel) = 1
      <4>1. channel' \in Seq(Messages)
        BY <3>0, HeadTailProperties
      <4>2. channel' = <<>> <=> Len(channel') = 0
        BY <4>1, EmptySeq, LenProperties
      <4> QED
        BY <1>0, <3>1, <4>2
    <3>4. Waiting' = Waiting - 1
      <4>1. Waiting > 0
        BY <3>1, WaitingType
      <4> QED
        BY <1>0, <2>0, <3>1, <3>3, <4>1 DEF Waiting
    <3> QED
      <4>1. /\ exit # "Panicked" => Answered + Waiting + 0 = nextRequest - 1
            /\ \A i \in 1..Len(Sent) : Sent[i].tag = "Completed" <=> i <= Answered
            /\ exit = "Clean" => Len(Sent) > 0 /\ Sent[Len(Sent)] = Terminated
        BY <3>1 DEF StopInv, EveryRequestAccounted, Serving
      <4>2. Answered \in Int
        BY <1>0
      <4>3. exit # "Panicked" => Answered + (Waiting - 1) + 1 = nextRequest - 1
        BY <1>0, <4>1, <4>2
      <4> QED
        BY <2>0, <3>1, <3>2, <3>4, <4>1, <4>3 DEF EveryRequestAccounted, Serving
  <2>2. CASE CancelReceived \/ Admit \/ ExecuteQuery \/ ExecuteCommand \/ FailExecution
    <3>1. /\ UNCHANGED <<channel, exit>> /\ Serving /\ Serving'
          /\ ~Reply /\ ~CheckpointAndExit
      BY <2>2 DEF CancelReceived, Admit, ExecuteQuery, ExecuteCommand, FailExecution, Serving,
         Reply, CheckpointAndExit
    <3>2. Sent' = Sent /\ Answered' = Answered /\ Waiting' = Waiting
      BY <2>0, <3>1, SentSteps DEF Answered, Waiting
    <3> QED
      BY <2>0, <3>1, <3>2 DEF StopInv, EveryRequestAccounted
  <2>3. CASE Reply
    <3>1. /\ UNCHANGED <<channel, exit>> /\ Serving /\ ~Serving' /\ exit = "None"
          /\ current \in Responses /\ current.tag = "Completed"
      BY <2>3 DEF Reply, Serving, Responses, StopInv, EndsInOrder
    <3>2. Sent' = Append(Sent, current)
      BY <1>4, <2>3, SentSteps
    <3>3. /\ Len(Sent') = Len(Sent) + 1 /\ Sent'[Len(Sent) + 1] = current
          /\ \A i \in 1..Len(Sent) : Sent'[i] = Sent[i]
      BY <1>0, <3>1, <3>2, AppendProperties
    <3>4. Answered' = Answered + 1 /\ Waiting' = Waiting /\ Answered = Len(Sent)
      BY <1>0, <2>0, <3>1, <3>3 DEF Answered, Waiting
    <3>5. \A i \in 1..Len(Sent') : i \in 1..Len(Sent) \/ i = Len(Sent) + 1
      BY <1>0, <3>3, LastOrBefore
    <3>6. \A i \in 1..Len(Sent) : Sent[i].tag = "Completed"
      BY <3>4 DEF StopInv, EveryRequestAccounted
    <3>7. \A i \in 1..Len(Sent') : Sent'[i].tag = "Completed" /\ i <= Answered'
      <4>1. \A i \in 1..Len(Sent') : i <= Answered'
        BY <1>0, <3>3, <3>4
      <4>2. \A i \in 1..Len(Sent') : Sent'[i].tag = "Completed"
        BY <3>1, <3>3, <3>5, <3>6
      <4> QED
        BY <4>1, <4>2
    <3>8. Answered + Waiting + 1 = nextRequest - 1 /\ Waiting \in Nat
      BY <1>0, <3>1 DEF StopInv, EveryRequestAccounted
    <3>9. Answered' + Waiting' + 0 = nextRequest' - 1
      BY <1>0, <2>0, <3>4, <3>8
    <3> QED
      BY <3>1, <3>7, <3>9 DEF EveryRequestAccounted
  <2>4. CASE ReceiveShutdown
    <3>1. /\ channel' = <<>> /\ exit' = exit /\ ~Serving /\ ~Serving'
          /\ ~Reply /\ ~CheckpointAndExit
          /\ channel # <<>> /\ channel[1].tag = "Shutdown"
      BY <2>4 DEF ReceiveShutdown, Serving, Reply, CheckpointAndExit
    <3>2. Sent' = Sent /\ Answered' = Answered
      BY <3>1, SentSteps DEF Answered
    <3>3. Waiting = 0 /\ Waiting' = 0
      BY <3>1, WaitingType, EmptySeq DEF Waiting
    <3> QED
      BY <2>0, <3>1, <3>2, <3>3 DEF StopInv, EveryRequestAccounted
  <2>5. CASE CheckpointAndExit
    <3>1. /\ UNCHANGED <<channel>> /\ ~Serving /\ ~Serving' /\ exit = "None" /\ exit' = "Clean"
          /\ Terminated \in Responses /\ Terminated.tag = "Terminated"
      BY <2>5 DEF CheckpointAndExit, Serving, Responses, StopInv, EndsInOrder, Terminated
    <3>2. Sent' = Append(Sent, Terminated)
      BY <1>4, <2>5, SentSteps
    <3>3. /\ Len(Sent') = Len(Sent) + 1 /\ Sent'[Len(Sent) + 1] = Terminated
          /\ \A i \in 1..Len(Sent) : Sent'[i] = Sent[i]
      BY <1>0, <3>1, <3>2, AppendProperties
    <3>4. Answered' = Len(Sent) /\ Waiting' = Waiting /\ Answered = Len(Sent)
      BY <1>0, <2>0, <3>1, <3>3 DEF Answered, Waiting
    <3>5. \A i \in 1..Len(Sent') : i \in 1..Len(Sent) \/ i = Len(Sent) + 1
      BY <1>0, <3>3, LastOrBefore
    <3>6. \A i \in 1..Len(Sent) : Sent[i].tag = "Completed"
      BY <3>4 DEF StopInv, EveryRequestAccounted
    <3>7. \A i \in 1..Len(Sent') : Sent'[i].tag = "Completed" <=> i <= Answered'
      BY <1>0, <3>1, <3>3, <3>4, <3>5, <3>6
    <3>8. Answered' + Waiting' + 0 = nextRequest' - 1
      BY <1>0, <2>0, <3>1, <3>4 DEF StopInv, EveryRequestAccounted
    <3> QED
      BY <1>0, <3>1, <3>3, <3>7, <3>8 DEF EveryRequestAccounted
  <2>6. CASE FailCheckpoint
    <3>1. /\ UNCHANGED channel /\ ~Serving /\ ~Serving' /\ exit = "None"
          /\ exit' = "CheckpointFailed" /\ ~Reply /\ ~CheckpointAndExit
      BY <2>6 DEF FailCheckpoint, Serving, StopInv, EndsInOrder, Reply, CheckpointAndExit
    <3>2. Sent' = Sent /\ Answered' = Answered /\ Waiting' = Waiting
      BY <2>0, <3>1, SentSteps DEF Answered, Waiting
    <3> QED
      BY <2>0, <3>1, <3>2 DEF StopInv, EveryRequestAccounted
  <2>7. CASE Panic
    <3>1. exit = "None" /\ exit' = "Panicked" /\ ~Reply /\ ~CheckpointAndExit
      BY <2>7 DEF Panic, StopInv, EndsInOrder, Reply, CheckpointAndExit, Idle
    <3>2. Sent' = Sent /\ Answered' = Answered
      BY <3>1, SentSteps DEF Answered
    <3> QED
      BY <3>1, <3>2 DEF StopInv, EveryRequestAccounted
  <2> QED
    BY <1>4, <2>1, <2>2, <2>3, <2>4, <2>5, <2>6, <2>7
<1> QED
  BY <1>1, <1>2, <1>3, <1>4 DEF Next

\* What is needed of a stop holds throughout.
LEMMA StopInvariant == Spec => [](TypeOK /\ StopInv)
<1>1. TypeOK /\ StopInv /\ [Next]_vars => StopInv'
  BY StopKeepsOrder, StopKeepsEnd, StopKeepsAccount DEF StopInv
<1> QED
  BY <1>1, TypeCorrect, StopInit, PTL DEF Spec

\* A shutdown that returns Ok (worker.rs:108) lost nothing: every request submitted before
\* it has its response, and the last message is Terminated.
THEOREM CleanStopIsComplete == Spec => []CleanStopAnswersEverything
<1>1. TypeOK /\ StopInv => CleanStopAnswersEverything
  <2> SUFFICES ASSUME TypeOK, StopInv, client = "Stopped"
               PROVE  /\ Len(Replies) = nextRequest
                      /\ Replies[nextRequest] = Terminated
                      /\ \A i \in 1..(nextRequest - 1) : Replies[i].tag = "Completed"
    BY DEF CleanStopAnswersEverything
  <2>1. exit = "Clean" /\ thread = "Exited" /\ channel = <<>>
    BY DEF StopInv, EndsInOrder
  <2>2. Waiting = 0 /\ ~Serving
    BY <2>1, EmptySeq DEF Waiting, Serving
  <2>3. nextRequest \in Nat /\ Len(Sent) \in Nat /\ Sent \in Seq(Responses)
    BY SentType, LenProperties, SessionAssumption DEF TypeOK
  <2>4. Len(Sent) = nextRequest
    BY <2>1, <2>2, <2>3 DEF StopInv, EveryRequestAccounted, Answered
  <2>5. Replies = Sent
    <3>1. Replies = Sent \o <<>>
      BY <2>1 DEF Replies, Sent
    <3> QED
      BY <3>1, <2>3, ConcatEmptySeq
  <2>6. \A i \in 1..(nextRequest - 1) : i \in 1..Len(Sent) /\ i <= Answered
    BY <2>1, <2>3, <2>4 DEF Answered
  <2> QED
    BY <2>1, <2>4, <2>5, <2>6 DEF StopInv, EveryRequestAccounted
<1> QED
  BY <1>1, StopInvariant, PTL

\* No operation begins once the flag is up (worker.rs:193), and a worker that was joined
\* does nothing any more.
THEOREM StopCutsIn == Spec => StopIsPrompt
<1> DEFINE prompt ==
      /\ stopping /\ thread # "Executing" =>
           thread' # "Executing" /\ UNCHANGED <<database, audit>>
      /\ client \in {"Stopped", "StopFailed"} => UNCHANGED workerVars
<1>1. TypeOK /\ StopInv /\ [Next]_vars => prompt
  <2> SUFFICES ASSUME TypeOK, StopInv, [Next]_vars PROVE prompt
    OBVIOUS
  <2>1. client \in {"Stopped", "StopFailed"} => thread = "Exited"
    BY DEF StopInv, EndsInOrder
  <2>2. ASSUME NEW op \in Operations, Submit(op) PROVE prompt
    BY <2>2 DEF Submit, CanSubmit
  <2>3. CASE DrainReady \/ BeginShutdown \/ EndShutdown \/ UNCHANGED vars
    BY <2>3 DEF DrainReady, BeginShutdown, EndShutdown, vars, workerVars
  <2>4. CASE ThreadStep
    BY <2>1, <2>4, ThreadSteps DEF Receive, CancelReceived, Admit, ExecuteQuery, ExecuteCommand,
       FailExecution, Reply, ReceiveShutdown, CheckpointAndExit, FailCheckpoint, Panic
  <2> QED
    BY <2>2, <2>3, <2>4 DEF Next
<1>2. prompt => [prompt]_vars
  OBVIOUS
<1> QED
  BY <1>1, <1>2, StopInvariant, PTL DEF Spec, StopIsPrompt

-----------------------------------------------------------------------------
(* The session implements the service.                                     *)

Length == Waiting + (IF Serving THEN 1 ELSE 0)
Tickets == [id : 1..MaxRequests, command : 0..MaxRequests]
AnswerSet == [id : Nat, outcome : {"Mutated", "Viewed", "Failed", "Cancelled"}]
Fate == IF thread = "Replying" THEN current.result.status ELSE "Open"

\* The invariant under which every step of the session is one of the service.
SessionInv == TypeOK /\ LedgerInv /\ StopInv

\* An issued request has a ticket.
LEMMA TicketType ==
  ASSUME TypeOK, NEW r \in Requests, Issued(r)
  PROVE  Ticket(r) \in Tickets
<1>1. r.id \in 1..MaxRequests /\ r.command \in 0..MaxRequests
  BY SessionAssumption DEF TypeOK, Issued
<1> QED
  BY <1>1 DEF Ticket, Tickets

\* The queue of the service, read off the thread and its channel.
QueueRead ==
  /\ Length \in Nat
  /\ Queue \in Seq(Tickets) /\ Len(Queue) = Length
  /\ \A n \in 1..Length : Queue[n] = Ticket(Unanswered(n))
  /\ Serving => Length > 0 /\ Queue[1] = Ticket(current.request)

LEMMA QueueShape == SessionInv => QueueRead
<1> SUFFICES ASSUME SessionInv PROVE QueueRead
  OBVIOUS
<1>1. Waiting \in Nat /\ Length \in Nat
  BY WaitingType DEF SessionInv, Length
<1>2. ASSUME NEW n \in 1..Length
      PROVE  Ticket(Unanswered(n)) \in Tickets
  <2>1. CASE Serving /\ n = 1
    <3>1. Issued(current.request) /\ current.request \in Requests
      BY <2>1 DEF SessionInv, LedgerInv, ServiceInOrder, Serving, InService, TypeOK, WorkerTypeOK
    <3> QED
      BY <2>1, <3>1, TicketType DEF SessionInv, Unanswered
  <2>2. CASE ~(Serving /\ n = 1)
    <3> DEFINE i == IF Serving THEN n - 1 ELSE n
    <3>1. i \in 1..Waiting /\ Unanswered(n) = channel[i].request
      BY <1>1, <2>2 DEF Length, Unanswered
    <3>2. i \in 1..Len(channel) /\ channel[i].tag = "Work"
      BY <3>1, WaitingType, LenProperties DEF SessionInv, TypeOK, WorkerTypeOK
    <3>3. channel[i] \in Messages
      BY <3>2, ElementOfSeq DEF SessionInv, TypeOK, WorkerTypeOK
    <3>4. Issued(channel[i].request) /\ channel[i].request \in Requests
      BY <3>2, <3>3 DEF SessionInv, LedgerInv, ChannelInOrder, Messages
    <3> QED
      BY <3>1, <3>4, TicketType DEF SessionInv
  <2> QED
    BY <2>1, <2>2
<1>3. Queue \in [1..Length -> Tickets]
  BY <1>2 DEF Queue, Length
<1>4. Queue \in Seq(Tickets) /\ Len(Queue) = Length
  BY <1>1, <1>3, SeqOfFunction
<1>5. \A n \in 1..Length : Queue[n] = Ticket(Unanswered(n))
  BY DEF Queue, Length
<1>6. Serving => Length > 0 /\ Queue[1] = Ticket(current.request)
  BY <1>1, <1>5 DEF Length, Unanswered
<1> QED
  BY <1>1, <1>4, <1>5, <1>6 DEF QueueRead

\* The answers of the service, read off what was sent.
AnswersRead ==
  /\ Answered \in Nat /\ Answered <= Len(Sent)
  /\ Answers \in Seq(AnswerSet) /\ Len(Answers) = Answered
  /\ \A n \in 1..Answered : Answers[n] = [id |-> Sent[n].request.id,
                                          outcome |-> Sent[n].result.status]

LEMMA AnswersShape == SessionInv => AnswersRead
<1> SUFFICES ASSUME SessionInv PROVE AnswersRead
  OBVIOUS
<1>1. Sent \in Seq(Responses) /\ Len(Sent) \in Nat
  BY SentType, LenProperties DEF SessionInv
<1>2. Answered \in Nat /\ Answered <= Len(Sent)
  BY <1>1 DEF SessionInv, StopInv, EveryRequestAccounted, Answered
<1>3. ASSUME NEW n \in 1..Answered
      PROVE  [id |-> Sent[n].request.id, outcome |-> Sent[n].result.status] \in AnswerSet
  <2>1. n \in 1..Len(Sent) /\ Sent[n] \in Responses
    BY <1>1, <1>2, ElementOfSeq
  <2>2. Sent[n].tag = "Completed"
    BY <2>1 DEF SessionInv, StopInv, EveryRequestAccounted
  <2>3. Sent[n].request \in Requests /\ Sent[n].result \in Results
    BY <2>1, <2>2 DEF Responses, Terminated
  <2> QED
    BY <2>3 DEF AnswerSet, Requests, Results
<1>4. Answers \in [1..Answered -> AnswerSet]
  BY <1>3 DEF Answers
<1> QED
  BY <1>2, <1>4, SeqOfFunction DEF Answers, AnswersRead

\* A step that leaves the thread's service, the waiting requests and the answers alone is
\* a step the service does not see.
LEMMA Unseen ==
  ASSUME SessionInv, SessionInv', Length' = Length, Answered' = Answered,
         Fate' = Fate, audit' = audit,
         thread' \in {"Closing", "Exited"} <=> thread \in {"Closing", "Exited"},
         \A n \in 1..Length : Unanswered(n)' = Unanswered(n),
         \A n \in 1..Answered : Sent'[n] = Sent[n]
  PROVE  UNCHANGED Service!serviceVars
<1>1. Queue' = Queue
  BY DEF Queue, Length
<1>2. Answers' = Answers
  BY DEF Answers
<1> QED
  BY <1>1, <1>2 DEF Service!serviceVars, Fate

\* Submit is Accept.
LEMMA SubmitAccepts ==
  ASSUME SessionInv, SessionInv', NEW op \in Operations, Submit(op)
  PROVE  Service!Accept
<1>1. /\ ~stopping /\ UNCHANGED <<stopping, thread, current, exit, audit, received, responses>>
      /\ thread # "Exited" /\ channel' = Append(channel, Work(NewRequest(op)))
  BY DEF Submit, Send, CanSubmit
<1>2. thread \notin {"Closing", "Exited"}
  BY <1>1 DEF SessionInv, StopInv, EndsInOrder
<1>3. Work(NewRequest(op)) \in Messages /\ NewRequest(op) \in Requests
      /\ Work(NewRequest(op)).request = NewRequest(op)
  BY SessionAssumption DEF NewRequest, Requests, Work, Messages, SessionInv, TypeOK, WorkerTypeOK
<1>4. /\ Len(channel') = Len(channel) + 1 /\ Len(channel) \in Nat
      /\ \A i \in 1..Len(channel) : channel'[i] = channel[i]
      /\ channel'[Len(channel) + 1] = Work(NewRequest(op))
  BY <1>1, <1>3, AppendProperties, LenProperties DEF SessionInv, TypeOK, WorkerTypeOK
<1>5. Waiting = Len(channel) /\ Waiting' = Len(channel) + 1
  BY <1>1, <1>4 DEF Waiting
<1>6. Serving' <=> Serving
  BY <1>1 DEF Serving
<1>7. Length' = Length + 1
  BY <1>4, <1>5, <1>6 DEF Length
<1>8. \A n \in 1..Length : Unanswered(n)' = Unanswered(n)
  BY <1>1, <1>4, <1>5 DEF Unanswered, Length, Serving
<1>9. ASSUME NEW n, n = Length + 1 PROVE Unanswered(n)' = NewRequest(op)
  <2>1. (Len(channel) + 1 \in Nat /\ Len(channel) + 1 # 1) \/ Len(channel) = 0
    BY <1>4
  <2>2. n = IF Serving THEN Len(channel) + 2 ELSE Len(channel) + 1
    BY <1>4, <1>5, <1>9 DEF Length
  <2>3. Unanswered(n)' = channel'[Len(channel) + 1].request
    BY <1>1, <1>4, <1>6, <2>2 DEF Unanswered
  <2> QED
    BY <1>3, <1>4, <2>3
<1>10. /\ Queue \in Seq(Tickets) /\ Queue' \in Seq(Tickets)
       /\ Length \in Nat /\ Len(Queue) = Length /\ Len(Queue') = Length + 1
       /\ \A n \in 1..Length : Queue[n] = Ticket(Unanswered(n))
       /\ \A n \in 1..(Length + 1) : Queue'[n] = Ticket(Unanswered(n)')
  <2>1. QueueRead /\ QueueRead'
    BY QueueShape, PTL
  <2> QED
    BY <1>7, <2>1 DEF QueueRead, Tickets, Ticket
<1>11. \A n \in 1..Length : Queue'[n] = Queue[n]
  BY <1>8, <1>10
<1>12. Queue'[Length + 1] = Ticket(NewRequest(op)) /\ Queue'[Length + 1] \in Tickets
  <2>1. Length + 1 \in 1..(Length + 1)
    BY <1>10
  <2>2. Queue'[Length + 1] \in Tickets
    BY <1>10, <2>1, ElementOfSeq
  <2> QED
    BY <1>9, <1>10, <2>1, <2>2
<1>13. Queue' = Append(Queue, Queue'[Length + 1])
  BY <1>10, <1>11, <1>12, AppendFromElements
<1>14. Answers' = Answers
  BY <1>1 DEF Answers, Answered, Sent
<1> QED
  BY <1>1, <1>2, <1>12, <1>13, <1>14 DEF Service!Accept, Tickets

\* The steps that decide a request are Settle; a commit is stored in the same step.
LEMMA ServiceSettles ==
  ASSUME SessionInv, SessionInv', UNCHANGED clientVars,
         CancelReceived \/ ExecuteQuery \/ ExecuteCommand \/ FailExecution
  PROVE  Service!Settle
<1>1. /\ thread \in {"Received", "Executing"} /\ thread' = "Replying"
      /\ UNCHANGED <<channel, responses, received, stopping, exit>>
      /\ current'.request = current.request
  BY DEF CancelReceived, ExecuteQuery, ExecuteCommand, FailExecution, clientVars,
     SessionInv, TypeOK, WorkerTypeOK
<1>2. current'.result.status \in {"Mutated", "Viewed", "Failed", "Cancelled"}
  BY DEF SessionInv, TypeOK, WorkerTypeOK, Results
<1>3. /\ audit' = IF current'.result.status = "Mutated"
                    THEN Append(audit, current.request.command) ELSE audit
      /\ current'.result.status = "Mutated" => current.request.command # 0
  <2>0. Issued(current.request) /\ current \in [tag : {"Completed"}, request : Requests, result : Results]
    BY <1>1 DEF SessionInv, LedgerInv, ServiceInOrder, InService, TypeOK, WorkerTypeOK
  <2>1. CASE ExecuteCommand
    BY <2>0, <2>1 DEF ExecuteCommand, Mutated, Issued, Query
  <2>2. CASE CancelReceived \/ ExecuteQuery \/ FailExecution
    BY <2>0, <2>2 DEF CancelReceived, ExecuteQuery, FailExecution, Outcome
  <2> QED
    BY <2>1, <2>2
<1>4. Queue' = Queue
  <2>1. Serving /\ Serving' /\ Waiting' = Waiting
    BY <1>1 DEF Serving, Waiting
  <2>2. \A n : Unanswered(n)' = Unanswered(n)
    BY <1>1, <2>1 DEF Unanswered
  <2> QED
    BY <2>1, <2>2 DEF Queue
<1>5. Queue # <<>> /\ Head(Queue).command = current.request.command
  <2>1. Serving
    BY <1>1 DEF Serving
  <2>2. Len(Queue) > 0 /\ Queue[1] = Ticket(current.request) /\ Queue \in Seq(Tickets)
    BY <2>1, QueueShape DEF QueueRead
  <2> QED
    BY <2>2, EmptySeq DEF Ticket
<1>6. Answers' = Answers
  BY <1>1 DEF Answers, Answered, Sent
<1> QED
  BY <1>1, <1>2, <1>3, <1>4, <1>5, <1>6 DEF Service!Settle

\* Reply is Answer.
LEMMA ReplyAnswers ==
  ASSUME SessionInv, SessionInv', UNCHANGED clientVars, Reply
  PROVE  Service!Answer
<1>1. /\ thread = "Replying" /\ thread' = "Receiving" /\ Serving /\ ~Serving'
      /\ UNCHANGED <<channel, stopping, exit, audit, received>>
      /\ exit = "None"
  BY DEF Reply, clientVars, Serving, SessionInv, StopInv, EndsInOrder
<1>2. Sent' = Append(Sent, current)
  <2>1. current \in Responses
    BY DEF SessionInv, TypeOK, WorkerTypeOK, Responses
  <2>2. Sent' = received \o Append(responses, current)
    BY <1>1 DEF Reply, Sent
  <2>3. received \in Seq(Responses) /\ responses \in Seq(Responses)
    BY DEF SessionInv, TypeOK, WorkerTypeOK
  <2> QED
    BY <2>1, <2>2, <2>3, ConcatAppend DEF Sent
<1>3. /\ Len(Sent) \in Nat /\ Len(Sent') = Len(Sent) + 1 /\ Sent'[Len(Sent) + 1] = current
      /\ \A i \in 1..Len(Sent) : Sent'[i] = Sent[i]
  <2>1. current \in Responses /\ Sent \in Seq(Responses)
    BY SentType DEF SessionInv, TypeOK, WorkerTypeOK, Responses
  <2> QED
    BY <1>2, <2>1, AppendProperties, LenProperties
<1>4. Answered = Len(Sent) /\ Answered' = Len(Sent) + 1
  BY <1>1, <1>3 DEF Answered
<1> DEFINE given == [id |-> current.request.id, outcome |-> current.result.status]
<1>5. Answers' = Append(Answers, given)
  <2>1. /\ Answers \in Seq(AnswerSet) /\ Len(Answers) = Len(Sent)
        /\ \A n \in 1..Len(Sent) : Answers[n] = [id |-> Sent[n].request.id,
                                                  outcome |-> Sent[n].result.status]
    BY <1>4, AnswersShape DEF AnswersRead
  <2>0. AnswersRead'
    BY AnswersShape, PTL
  <2>2. /\ Answers' \in Seq(AnswerSet) /\ Len(Answers') = Len(Sent) + 1
        /\ \A n \in 1..(Len(Sent) + 1) : Answers'[n] = [id |-> Sent'[n].request.id,
                                                         outcome |-> Sent'[n].result.status]
    BY <1>4, <2>0 DEF AnswersRead, AnswerSet
  <2>3. Len(Sent) + 1 \in 1..(Len(Sent) + 1) /\ \A n \in 1..Len(Sent) : n \in 1..(Len(Sent) + 1)
    BY <1>3
  <2>4. Answers'[Len(Sent) + 1] = given /\ given \in AnswerSet
    BY <1>3, <2>2, <2>3, ElementOfSeq
  <2>5. \A n \in 1..Len(Sent) : Answers'[n] = Answers[n]
    BY <1>3, <2>1, <2>2, <2>3
  <2> HIDE DEF given
  <2> QED
    BY <2>1, <2>2, <2>4, <2>5, AppendFromElements
<1>6. /\ Queue \in Seq(Tickets) /\ Len(Queue) > 0 /\ Queue[1] = Ticket(current.request)
  BY <1>1, QueueShape DEF QueueRead
<1>7. Queue' = Tail(Queue)
  <2>1. Waiting' = Waiting /\ Waiting \in Nat /\ Length = Waiting + 1 /\ Length' = Waiting
    BY <1>1, WaitingType DEF Waiting, Length, SessionInv
  <2>2. Queue' \in Seq(Tickets) /\ Len(Queue') = Waiting
        /\ \A n \in 1..Waiting : Queue'[n] = Ticket(Unanswered(n)')
    <3>1. QueueRead'
      BY QueueShape, PTL
    <3> QED
      BY <2>1, <3>1 DEF QueueRead, Tickets, Ticket
  <2>3. \A n \in 1..Waiting : Queue[n + 1] = Ticket(Unanswered(n + 1)) /\ n + 1 # 1
    BY <2>1, QueueShape DEF QueueRead
  <2>4. \A n \in 1..Waiting : Unanswered(n)' = Unanswered(n + 1)
    BY <1>1, <2>1 DEF Unanswered
  <2> QED
    BY <1>6, <2>1, <2>2, <2>3, <2>4, QueueShape, TailFromElements, EmptySeq DEF QueueRead
<1>8. Head(Queue).id = current.request.id /\ Queue # <<>>
  BY <1>6, EmptySeq DEF Ticket
<1>9. current.result.status \in {"Mutated", "Viewed", "Failed", "Cancelled"}
  BY DEF SessionInv, TypeOK, WorkerTypeOK, Results
<1> QED
  BY <1>1, <1>5, <1>7, <1>8, <1>9 DEF Service!Answer

\* Taking a request out of the channel is not seen: it is unanswered before and after.
LEMMA ReceiveIsUnseen ==
  ASSUME SessionInv, SessionInv', UNCHANGED clientVars, Receive
  PROVE  UNCHANGED Service!serviceVars
<1>1. /\ thread = "Receiving" /\ thread' = "Received" /\ channel # <<>>
      /\ channel' = Tail(channel) /\ Head(channel).tag = "Work"
      /\ UNCHANGED <<responses, received, stopping, exit, audit>>
      /\ current'.request = Head(channel).request
  BY DEF Receive, clientVars, Completed
<1>2. /\ Len(channel) \in Nat /\ Len(channel') = Len(channel) - 1
      /\ channel' \in Seq(Messages)
      /\ Head(channel) = channel[1]
      /\ \A i \in 1..Len(channel') : channel'[i] = channel[i + 1]
  BY <1>1, HeadTailProperties, LenProperties DEF SessionInv, TypeOK, WorkerTypeOK
<1>3. channel' = <<>> <=> Len(channel') = 0
  BY <1>2, EmptySeq, LenProperties
<1>4. Waiting > 0 /\ Waiting \in Nat
  BY <1>1, <1>2, WaitingType DEF SessionInv
<1>5. Waiting' = Waiting - 1
  BY <1>1, <1>2, <1>3, <1>4 DEF Waiting
<1>6. ~Serving /\ Serving'
  BY <1>1 DEF Serving
<1>7. Length' = Length /\ Length = Waiting
  BY <1>4, <1>5, <1>6 DEF Length
<1>8. ASSUME NEW n \in 1..Length PROVE Unanswered(n)' = Unanswered(n)
  <2>1. CASE n = 1
    BY <1>1, <1>2, <1>6, <2>1 DEF Unanswered
  <2>2. CASE n # 1
    <3>1. n - 1 \in 1..Len(channel') /\ (n - 1) + 1 = n
      BY <1>2, <1>4, <1>7, <2>2, WaitingType DEF SessionInv
    <3> QED
      BY <1>2, <1>6, <2>2, <3>1 DEF Unanswered
  <2> QED
    BY <2>1, <2>2
<1>9. Sent' = Sent /\ Answered' = Answered
  BY <1>1 DEF Sent, Answered
<1> QED
  BY <1>1, <1>7, <1>8, <1>9, Unseen DEF Fate

\* The steps of the client after its submissions, and those of the thread that only move
\* it, are not seen either.
LEMMA MovesAreUnseen ==
  ASSUME SessionInv, SessionInv', [Next]_vars,
         \/ DrainReady \/ BeginShutdown \/ EndShutdown
         \/ (Admit \/ FailCheckpoint \/ CheckpointAndExit) /\ UNCHANGED clientVars
         \/ UNCHANGED vars
  PROVE  UNCHANGED Service!serviceVars
<1>1. /\ current' = current /\ audit' = audit
      /\ Fate' = Fate
      /\ Serving' <=> Serving
      /\ thread' \in {"Closing", "Exited"} <=> thread \in {"Closing", "Exited"}
  BY DEF DrainReady, BeginShutdown, RequestStop, EndShutdown, Admit, FailCheckpoint,
     CheckpointAndExit, vars, workerVars, Fate, Serving
<1>2. /\ Waiting' = Waiting
      /\ \A i \in 1..Waiting : channel'[i] = channel[i]
  <2>1. CASE BeginShutdown
    <3>1. ~stopping /\ stopping' /\ Len(channel) \in Nat /\ Waiting = Len(channel)
      BY <2>1, LenProperties DEF BeginShutdown, RequestStop, SessionInv, TypeOK, WorkerTypeOK, Waiting
    <3>2. CASE thread = "Exited"
      <4>1. channel = <<>> /\ channel' = <<>>
        BY <2>1, <3>2 DEF BeginShutdown, RequestStop, SessionInv, StopInv, EndsInOrder
      <4> QED
        BY <4>1, EmptySeq DEF Waiting
    <3>3. CASE thread # "Exited"
      <4>1. channel' = Append(channel, Shutdown) /\ Shutdown \in Messages
              /\ channel \in Seq(Messages)
        BY <2>1, <3>3, NoRequestType DEF BeginShutdown, RequestStop, Shutdown, Messages,
           SessionInv, TypeOK, WorkerTypeOK
      <4>2. /\ Len(channel') = Len(channel) + 1 /\ channel' # <<>>
            /\ \A i \in 1..Len(channel) : channel'[i] = channel[i]
        BY <4>1, AppendProperties
      <4> QED
        BY <3>1, <4>2 DEF Waiting
    <3> QED
      BY <3>2, <3>3
  <2>2. CASE ~BeginShutdown
    BY <2>2 DEF DrainReady, EndShutdown, Admit, FailCheckpoint, CheckpointAndExit, vars,
       workerVars, Waiting
  <2> QED
    BY <2>1, <2>2
<1>3. Length' = Length /\ \A n \in 1..Length : Unanswered(n)' = Unanswered(n)
  <2>1. Waiting \in Nat
    BY WaitingType DEF SessionInv
  <2> QED
    BY <1>1, <1>2, <2>1 DEF Length, Unanswered
<1>4. Answered' = Answered /\ \A n \in 1..Answered : Sent'[n] = Sent[n]
  <2>0. Sent \in Seq(Responses) /\ Len(Sent) \in Nat
    BY SentType, LenProperties DEF SessionInv
  <2>1. CASE CheckpointAndExit /\ UNCHANGED clientVars
    <3>1. exit = "None" /\ exit' = "Clean" /\ Terminated \in Responses
      BY <2>1 DEF CheckpointAndExit, SessionInv, StopInv, EndsInOrder, Responses
    <3>2. Sent' = Append(Sent, Terminated)
      BY <2>1, SentSteps DEF SessionInv
    <3>3. Len(Sent') = Len(Sent) + 1 /\ \A i \in 1..Len(Sent) : Sent'[i] = Sent[i]
      BY <2>0, <3>1, <3>2, AppendProperties
    <3> QED
      BY <2>0, <3>1, <3>3 DEF Answered
  <2>2. CASE ~(CheckpointAndExit /\ UNCHANGED clientVars)
    <3>1. ~Reply /\ ~CheckpointAndExit
      BY <2>2 DEF Reply, CheckpointAndExit, DrainReady, BeginShutdown, EndShutdown, Admit,
         FailCheckpoint, vars, workerVars
    <3>2. Sent' = Sent
      BY <3>1, SentSteps DEF SessionInv
    <3>3. exit = "Clean" <=> exit' = "Clean"
      BY <2>2 DEF DrainReady, BeginShutdown, EndShutdown, Admit, FailCheckpoint, vars,
         workerVars, SessionInv, StopInv, EndsInOrder
    <3> QED
      BY <3>2, <3>3 DEF Answered
  <2> QED
    BY <2>1, <2>2
<1> QED
  BY <1>1, <1>3, <1>4, Unseen

\* Receiving Shutdown is Close: nothing is unanswered.
LEMMA ShutdownCloses ==
  ASSUME SessionInv, SessionInv', UNCHANGED clientVars, ReceiveShutdown
  PROVE  Service!Close
<1>1. /\ thread = "Receiving" /\ thread' = "Closing" /\ ~Serving /\ ~Serving'
      /\ channel # <<>> /\ channel' = <<>> /\ Head(channel).tag = "Shutdown"
      /\ UNCHANGED <<stopping, current, exit, audit, received>>
      /\ responses' = responses
  BY NothingToCancel DEF ReceiveShutdown, clientVars, Serving, SessionInv
<1>2. Waiting = 0 /\ Waiting' = 0
  <2>1. channel[1].tag = "Shutdown"
    BY <1>1 DEF SessionInv, TypeOK, WorkerTypeOK
  <2> QED
    BY <1>1, <2>1, WaitingType, EmptySeq DEF Waiting, SessionInv
<1>3. Length = 0 /\ Length' = 0
  BY <1>1, <1>2 DEF Length
<1>4. Queue = <<>> /\ Queue' = Queue
  <2>1. Queue = <<>>
    BY <1>3, QueueShape, EmptySeq DEF QueueRead
  <2>2. Queue' = Queue
    BY <1>3 DEF Queue, Length
  <2> QED
    BY <2>1, <2>2
<1>5. Answers' = Answers
  BY <1>1 DEF Answers, Answered, Sent
<1> QED
  BY <1>1, <1>4, <1>5 DEF Service!Close

\* A panic is Abandon: what was queued, and the request in service, are dropped.
LEMMA PanicAbandons ==
  ASSUME SessionInv, SessionInv', UNCHANGED clientVars, Panic
  PROVE  Service!Abandon
<1>1. /\ thread \in {"Executing", "Replying"} /\ thread' = "Exited" /\ ~Serving'
      /\ channel' = <<>> /\ exit = "None" /\ exit' = "Panicked"
      /\ UNCHANGED <<audit, received, responses>>
  BY DEF Panic, clientVars, Serving, SessionInv, StopInv, EndsInOrder
<1>2. Length' = 0
  <2>1. Len(channel') = 0
    BY <1>1, EmptySeq
  <2> QED
    BY <1>1, <2>1 DEF Length, Waiting
<1>3. Queue' = <<>>
  <2>0. QueueRead'
    BY QueueShape, PTL
  <2>1. Queue' \in Seq(Tickets) /\ Len(Queue') = 0
    BY <1>2, <2>0 DEF QueueRead, Tickets
  <2> QED
    BY <2>1, EmptySeq
<1>4. Answers' = Answers
  BY <1>1 DEF Answers, Answered, Sent
<1> QED
  BY <1>1, <1>3, <1>4 DEF Service!Abandon

\* The thread, its channel and its stop flag implement the abstract service: requests
\* are settled one at a time in the order of submission, a command's change is stored
\* before it is answered, and each request is answered at most once.
THEOREM SessionImplementsService == Spec => ImplementsService
<1>1. Init => Service!ServiceInit
  <2> SUFFICES ASSUME Init PROVE Service!ServiceInit
    OBVIOUS
  <2>1. SessionInv
    <3> QED
      BY TypeInit, LedgerInit, StopInit DEF SessionInv
  <2>2. Length = 0 /\ Answered = 0 /\ thread = "Receiving" /\ audit = <<>>
    <3>1. Len(channel) = 0 /\ Sent = <<>> /\ Len(Sent) = 0
      BY ConcatEmptySeq, EmptySeq DEF Init, WorkerStarted, Sent
    <3> QED
      BY <3>1 DEF Init, WorkerStarted, Length, Waiting, Serving, Answered
  <2>3. Queue = <<>> /\ Answers = <<>>
    BY <2>1, <2>2, QueueShape, AnswersShape, EmptySeq DEF QueueRead, AnswersRead
  <2> QED
    BY <2>2, <2>3 DEF Service!ServiceInit
<1>2. SessionInv /\ SessionInv' /\ [Next]_vars => [Service!ServiceNext]_(Service!serviceVars)
  <2> SUFFICES ASSUME SessionInv, SessionInv', [Next]_vars
               PROVE  Service!ServiceNext \/ UNCHANGED Service!serviceVars
    OBVIOUS
  <2>1. ASSUME NEW op \in Operations, Submit(op) PROVE Service!ServiceNext
    BY <2>1, SubmitAccepts DEF Service!ServiceNext
  <2>2. CASE DrainReady \/ BeginShutdown \/ EndShutdown \/ UNCHANGED vars
    BY <2>2, MovesAreUnseen
  <2>3. CASE ThreadStep
    BY <2>3, ThreadSteps, ServiceSettles, ReplyAnswers, ReceiveIsUnseen, MovesAreUnseen,
       ShutdownCloses, PanicAbandons DEF Service!ServiceNext
  <2> QED
    BY <2>1, <2>2, <2>3 DEF Next
<1>3. Spec => []SessionInv
  BY LedgerInvariant, StopInvariant, PTL DEF SessionInv
<1> QED
  BY <1>1, <1>2, <1>3, PTL DEF Spec, ImplementsService, Service!ServiceSpec
=============================================================================
