------------------------- MODULE CommandRuntime_proofs -------------------------
(***************************************************************************)
(* What the user is told of commands, for every number of commands and     *)
(* every capacity, whether or not the worker may panic and however         *)
(* impatient the user is.                                                  *)
(*                                                                         *)
(* A command is due while its request waits in the channel or is being     *)
(* served.  The invariant says that each command is due in one place only, *)
(* under a record that is Running, and that what is answered, committed or *)
(* finished is not due any more; from then on its fate cannot change.      *)
(***************************************************************************)
EXTENDS CommandRuntime, StorageWorker_proofs

-----------------------------------------------------------------------------
(* The shape of the runtime's state *)

Records ==
  [op : Operations, status : {"Absent"} \union Live \union Terminal,
   request : Nat, generation : Nat, sequence : Nat]

Entries == [label : Nat, command : Commands, inverse : Commands]

RuntimeTyped ==
  /\ WorkerTypeOK
  /\ nextRequest \in Nat
  /\ nextCommand \in 1..(MaxCommands + 1)
  /\ generation \in Nat
  /\ pending \in [CommandIds -> Records]
  /\ \A c \in CommandIds : pending[c].op \in Commands
  /\ terminalSequence \in Nat
  /\ history \in [undo : Seq(Entries), redo : Seq(Entries)]
  /\ ready \in Seq(Responses)

-----------------------------------------------------------------------------
(* Commands and their fate *)

\* The request stands for a command whose record runs, or for a view.
Given(r) ==
  IF r.op = Query THEN r.command = 0
  ELSE /\ r.command \in 1..(nextCommand - 1)
       /\ pending[r.command].status = "Running" /\ pending[r.command].op = r.op

Waits(c) == \E i \in 1..Len(channel) : channel[i].request.command = c
Served(c) == InService /\ current.request.command = c
Due(c) == Waits(c) \/ Served(c)

\* Every command is due in one place at most.
DueOnce ==
  /\ \A i \in 1..Len(channel) : Given(channel[i].request)
  /\ \A i, j \in 1..Len(channel) :
       /\ channel[i].request.command # 0
       /\ channel[i].request.command = channel[j].request.command
       => i = j
  /\ InService => /\ Given(current.request)
                  /\ current.request.command # 0 => ~Waits(current.request.command)

\* Nothing is committed twice, and what is committed is over.
CommittedOnce ==
  /\ \A i \in 1..Len(audit) : audit[i] \in 1..(nextCommand - 1) /\ ~Due(audit[i])
  /\ \A i, j \in 1..Len(audit) : audit[i] = audit[j] => i = j

\* The answers the runtime has not handled.
Answers ==
  Elements(ready) \union Elements(responses)
    \union (IF thread = "Replying" THEN {current} ELSE {})

Faithful(p) ==
  p.request.command # 0 =>
    /\ p.request.command \in 1..(nextCommand - 1) /\ ~Due(p.request.command)
    /\ pending[p.request.command].status # "AwaitingConfirmation"
    /\ p.result.status = "Mutated" <=> Committed(p.request.command)

AnswersFaithful == \A p \in Answers : Faithful(p)

\* What a record says of its command.
StatusTrue ==
  \A c \in CommandIds :
    /\ pending[c].status = "Committed" => Committed(c)
    /\ pending[c].status \in {"AwaitingConfirmation", "Failed", "Cancelled"} => ~Committed(c)
    /\ c >= nextCommand => pending[c].status = "Absent"

\* No two commands that are under way do the same.
LiveDiffer ==
  \A c, d \in CommandIds :
    /\ pending[c].status \in Live /\ pending[d].status \in Live
    /\ pending[c].op = pending[d].op
    => c = d

CommandInv == DueOnce /\ CommittedOnce /\ AnswersFaithful /\ StatusTrue /\ LiveDiffer
-----------------------------------------------------------------------------
(* What the handlers do to records and channel *)

Filed(c, op, q) ==
  /\ q \in Records /\ q.op = op
  /\ pending' = [pending EXCEPT ![c] = q]

\* The command is recorded and the worker is given nothing.
Parked(c, op) ==
  \E q : /\ Filed(c, op, q) /\ q.status \in {"AwaitingConfirmation", "Failed", "Cancelled"}
         /\ UNCHANGED channel

\* The command is recorded as Running and sent.
Started(c, op) ==
  \E q : /\ Filed(c, op, q) /\ q.status = "Running"
         /\ \E g \in Requests : /\ g.op = op /\ g.command = c
                                /\ channel' = Append(channel, Work(g))

\* submit_runtime_command files the record, running or failed.
LEMMA SubmitDoes ==
  ASSUME RuntimeTyped, NEW c \in CommandIds, NEW r \in Records, r.op \in Commands,
         SubmitCommand(c, r)
  PROVE  /\ Parked(c, r.op) \/ Started(c, r.op)
         /\ nextRequest' \in Nat /\ terminalSequence' \in Nat
<1> DEFINE placed == [r EXCEPT !.request = nextRequest, !.generation = generation]
           run == [placed EXCEPT !.status = "Running"]
           fail == [placed EXCEPT !.status = "Failed", !.sequence = terminalSequence + 1]
           g == [id |-> nextRequest, op |-> r.op, command |-> c, generation |-> generation]
<1>1. nextRequest \in Nat /\ terminalSequence \in Nat /\ generation \in Nat /\ c \in Nat
  BY DEF RuntimeTyped, CommandIds
<1>2. placed \in Records /\ placed.op = r.op
  BY <1>1 DEF Records
<1> HIDE DEF placed
<1>3. run \in Records /\ run.op = r.op /\ run.status = "Running"
  BY <1>2 DEF Records, Live
<1>4. fail \in Records /\ fail.op = r.op /\ fail.status = "Failed"
  <2>1. terminalSequence + 1 \in Nat /\ "Failed" \in Terminal
    BY <1>1 DEF Terminal
  <2> QED
    BY <1>2, <2>1 DEF Records
<1>5. g \in Requests /\ g.op = r.op /\ g.command = c
  BY <1>1 DEF Requests, Operations
<1>6. /\ nextRequest' = nextRequest + 1
      /\ \/ /\ channel' = Append(channel, Work(g))
            /\ pending' = [pending EXCEPT ![c] = run] /\ UNCHANGED terminalSequence
         \/ /\ pending' = [pending EXCEPT ![c] = fail] /\ terminalSequence' = terminalSequence + 1
            /\ UNCHANGED channel
  BY DEF SubmitCommand, Send, FailedRecord, placed
<1> HIDE DEF run, fail, g
<1>7. Parked(c, r.op) \/ Started(c, r.op)
  BY <1>3, <1>4, <1>5, <1>6 DEF Parked, Started, Filed
<1> QED
  BY <1>1, <1>6, <1>7

\* dispatch ignores a duplicate and files everything else under a new identifier.
LEMMA DispatchDoes ==
  ASSUME RuntimeTyped, NEW op \in Commands, nextCommand <= MaxCommands, Dispatch(op)
  PROVE  /\ nextRequest' \in Nat /\ terminalSequence' \in Nat
         /\ \/ UNCHANGED <<nextCommand, pending, channel>>
            \/ /\ ~Duplicate(op) /\ nextCommand \in CommandIds /\ nextCommand' = nextCommand + 1
               /\ Parked(nextCommand, op) \/ Started(nextCommand, op)
<1> DEFINE c == nextCommand
           fresh == [NoRecord EXCEPT !.op = op]
           wait == [fresh EXCEPT !.status = "AwaitingConfirmation"]
<1>1. c \in CommandIds /\ nextRequest \in Nat /\ terminalSequence \in Nat
  BY RuntimeAssumption DEF RuntimeTyped, CommandIds
<1>2. fresh \in Records /\ fresh.op = op
  BY DEF NoRecord, Records, Operations
<1> HIDE DEF fresh
<1>3. wait \in Records /\ wait.op = op /\ wait.status = "AwaitingConfirmation"
  BY <1>2 DEF Records, Live
<1>4. CASE Duplicate(op)
  BY <1>1, <1>4 DEF Dispatch
<1>5. CASE ~Duplicate(op) /\ RequiresConfirmation(op)
  <2>1. /\ nextCommand' = c + 1 /\ pending' = [pending EXCEPT ![c] = wait]
        /\ UNCHANGED <<nextRequest, terminalSequence, channel>>
    BY <1>5 DEF Dispatch, fresh
  <2> HIDE DEF wait
  <2>2. Parked(c, op)
    BY <1>3, <2>1 DEF Parked, Filed
  <2> QED
    BY <1>1, <1>5, <2>1, <2>2
<1>6. CASE ~Duplicate(op) /\ ~RequiresConfirmation(op)
  <2>1. nextCommand' = c + 1 /\ SubmitCommand(c, fresh)
    BY <1>6 DEF Dispatch, fresh
  <2>2. (Parked(c, op) \/ Started(c, op)) /\ nextRequest' \in Nat /\ terminalSequence' \in Nat
    BY <1>1, <1>2, <2>1, SubmitDoes
  <2> QED
    BY <1>1, <1>6, <2>1, <2>2
<1> QED
  BY <1>4, <1>5, <1>6

\* What filing a record does to the shape of the state.
LEMMA FiledTyped ==
  ASSUME RuntimeTyped, NEW c \in CommandIds, NEW op \in Commands,
         Parked(c, op) \/ Started(c, op)
  PROVE  /\ pending' \in [CommandIds -> Records]
         /\ \A d \in CommandIds : pending'[d].op \in Commands
         /\ channel' \in Seq(Messages)
<1>1. PICK q : Filed(c, op, q)
  BY DEF Parked, Started
<1>2. /\ pending' \in [CommandIds -> Records]
      /\ \A d \in CommandIds : pending'[d].op \in Commands
  BY <1>1 DEF Filed, RuntimeTyped
<1>3. channel \in Seq(Messages)
  BY DEF RuntimeTyped, WorkerTypeOK
<1>4. \A g \in Requests : Work(g) \in Messages
  BY DEF Work, Messages
<1>5. channel' \in Seq(Messages)
  BY <1>3, <1>4 DEF Parked, Started
<1> QED
  BY <1>2, <1>5
-----------------------------------------------------------------------------
(* Filing a record keeps the invariant *)

\* Nobody works on c, nothing was said of it, and nothing that is under way does op.
Unused(c, op) ==
  /\ c \in CommandIds /\ c < nextCommand' /\ nextCommand <= nextCommand'
  /\ pending[c].status \in {"Absent", "AwaitingConfirmation"}
  /\ ~Due(c) /\ ~Committed(c)
  /\ \A p \in Answers : p.request.command # c
  /\ \A d \in CommandIds \ {c} : pending[d].status \in Live => pending[d].op # op

\* A due command has a record that is Running.
LEMMA DueRuns ==
  ASSUME DueOnce, NEW c, c # 0, Due(c)
  PROVE  c \in 1..(nextCommand - 1) /\ pending[c].status = "Running"
BY DEF DueOnce, Due, Waits, Served, Given

\* Identifiers handed out name commands.
LEMMA IdsAreCommands ==
  ASSUME RuntimeTyped
  PROVE  nextCommand \in Nat \ {0} /\ 1..(nextCommand - 1) \subseteq CommandIds
BY RuntimeAssumption DEF RuntimeTyped, CommandIds

\* The fresh identifier of a dispatch is unused.
LEMMA FreshIsUnused ==
  ASSUME RuntimeTyped, CommandInv, NEW op \in Commands, nextCommand \in CommandIds,
         nextCommand' = nextCommand + 1, ~Duplicate(op)
  PROVE  Unused(nextCommand, op)
<1>1. nextCommand \in Nat \ {0}
  BY DEF RuntimeTyped
<1>2. pending[nextCommand].status = "Absent"
  BY <1>1 DEF CommandInv, StatusTrue
<1>3. ~Due(nextCommand)
  BY <1>1, DueRuns DEF CommandInv
<1>4. ~Committed(nextCommand)
  BY <1>1 DEF CommandInv, CommittedOnce, Committed
<1>5. \A p \in Answers : p.request.command # nextCommand
  BY <1>1 DEF CommandInv, AnswersFaithful, Faithful
<1>6. \A d \in CommandIds : pending[d].status \in Live => pending[d].op # op
  BY DEF Duplicate
<1>7. nextCommand < nextCommand' /\ nextCommand <= nextCommand'
  BY <1>1
<1> QED
  BY <1>2, <1>3, <1>4, <1>5, <1>6, <1>7, Zenon DEF Unused

\* So is a command that waits for its confirmation.
LEMMA AwaitingIsUnused ==
  ASSUME RuntimeTyped, CommandInv, NEW c \in CommandIds,
         pending[c].status = "AwaitingConfirmation", UNCHANGED nextCommand
  PROVE  Unused(c, pending[c].op)
<1>1. nextCommand \in Nat \ {0} /\ c \in Nat \ {0}
  BY DEF RuntimeTyped, CommandIds
<1>2. c < nextCommand /\ ~Committed(c)
  BY <1>1 DEF CommandInv, StatusTrue
<1>3. ~Due(c)
  BY <1>1, DueRuns DEF CommandInv
<1>4. \A p \in Answers : p.request.command # c
  BY <1>1 DEF CommandInv, AnswersFaithful, Faithful
<1>5. pending[c].status \in Live
  BY DEF Live
<1>6. \A d \in CommandIds \ {c} : pending[d].status \in Live => pending[d].op # pending[c].op
  BY <1>5 DEF CommandInv, LiveDiffer
<1> QED
  BY <1>1, <1>2, <1>3, <1>4, <1>6 DEF Unused

\* What holds of the other commands is not disturbed by one record.
LEMMA FiledKeeps ==
  ASSUME RuntimeTyped, CommandInv, NEW c, NEW op, Unused(c, op), NEW q, Filed(c, op, q),
         q.status # "Committed",
         nextCommand' \in Nat, UNCHANGED <<audit, ready, responses, thread, current>>,
         \A d : d # 0 /\ Due(d)' => Due(d) \/ d = c,
         \A d \in CommandIds : d >= nextCommand' => d # c /\ d >= nextCommand
  PROVE  CommittedOnce' /\ AnswersFaithful' /\ StatusTrue' /\ LiveDiffer'
<1>1. /\ \A d \in CommandIds \ {c} : pending'[d] = pending[d]
      /\ pending'[c] = q /\ c \in CommandIds /\ nextCommand <= nextCommand'
      /\ nextCommand \in Nat \ {0}
  BY DEF Filed, RuntimeTyped, Unused
<1>2. \A d : Committed(d)' <=> Committed(d)
  BY DEF Committed
<1>3. Answers' = Answers
  BY DEF Answers
<1>4. CommittedOnce'
  <2>1. ASSUME NEW i \in 1..Len(audit)
        PROVE  audit[i] \in 1..(nextCommand' - 1) /\ ~Due(audit[i])'
    <3>1. audit[i] \in 1..(nextCommand - 1) /\ ~Due(audit[i]) /\ Committed(audit[i])
      BY DEF CommandInv, CommittedOnce, Committed
    <3>2. audit[i] # c /\ audit[i] # 0
      BY <3>1, <1>1 DEF Unused
    <3>3. ~Due(audit[i])'
      BY <3>1, <3>2
    <3> QED
      BY <1>1, <3>1, <3>3
  <2> QED
    BY <2>1 DEF CommandInv, CommittedOnce
<1>5. ASSUME NEW p \in Answers PROVE Faithful(p)'
  <2> DEFINE d == p.request.command
  <2>1. CASE d = 0
    BY <2>1 DEF Faithful
  <2>2. CASE d # 0
    <3>1. /\ d \in 1..(nextCommand - 1) /\ ~Due(d)
          /\ pending[d].status # "AwaitingConfirmation"
          /\ p.result.status = "Mutated" <=> Committed(d)
      BY <2>2 DEF CommandInv, AnswersFaithful, Faithful
    <3>2. d # c /\ d \in CommandIds
      BY <3>1, IdsAreCommands DEF Unused
    <3>3. ~Due(d)'
      BY <2>2, <3>1, <3>2
    <3>4. d \in 1..(nextCommand' - 1)
      BY <1>1, <3>1
    <3>5. pending'[d].status # "AwaitingConfirmation"
      BY <1>1, <3>1, <3>2
    <3> QED
      BY <1>2, <3>1, <3>3, <3>4, <3>5 DEF Faithful
  <2> QED
    BY <2>1, <2>2
<1>6. AnswersFaithful'
  BY <1>3, <1>5 DEF AnswersFaithful
<1>7. StatusTrue'
  BY <1>1, <1>2 DEF CommandInv, StatusTrue, Unused
<1>8. LiveDiffer'
  BY <1>1 DEF CommandInv, LiveDiffer, Unused, Filed
<1> QED
  BY <1>4, <1>6, <1>7, <1>8

\* What the other records stand for stays so.
LEMMA GivenKept ==
  ASSUME RuntimeTyped, NEW c, NEW op, Unused(c, op), NEW q, Filed(c, op, q),
         NEW r, Given(r), r.command # c, nextCommand' \in Nat
  PROVE  Given(r)'
<1>1. nextCommand <= nextCommand' /\ nextCommand \in Nat
  BY DEF Unused, RuntimeTyped
<1>2. CASE r.op = Query
  BY <1>2 DEF Given
<1>3. CASE r.op # Query
  <2>1. /\ r.command \in 1..(nextCommand - 1) /\ r.command \in CommandIds
        /\ pending[r.command].status = "Running" /\ pending[r.command].op = r.op
    BY <1>3, IdsAreCommands DEF Given
  <2>2. pending'[r.command] = pending[r.command]
    BY <2>1 DEF Filed, RuntimeTyped
  <2> QED
    BY <1>1, <1>3, <2>1, <2>2 DEF Given
<1> QED
  BY <1>2, <1>3

\* A record is added for a command the worker is not given.
LEMMA ParkedKeeps ==
  ASSUME RuntimeTyped, CommandInv, NEW c, NEW op, Unused(c, op), Parked(c, op),
         nextCommand' \in Nat, UNCHANGED <<audit, ready, responses, thread, current>>,
         \A d \in CommandIds : d >= nextCommand' => d # c /\ d >= nextCommand
  PROVE  CommandInv'
<1>1. PICK q : /\ Filed(c, op, q) /\ q.status \in {"AwaitingConfirmation", "Failed", "Cancelled"}
               /\ UNCHANGED channel
  BY DEF Parked
<1>2. \A d : Due(d)' <=> Due(d)
  BY <1>1 DEF Due, Waits, Served, InService
<1>3. CommittedOnce' /\ AnswersFaithful' /\ StatusTrue' /\ LiveDiffer'
  BY <1>1, <1>2, FiledKeeps
<1>4. ASSUME NEW r, Given(r), r.command # c PROVE Given(r)'
  BY <1>1, <1>4, GivenKept
<1>5. DueOnce'
  <2>1. ASSUME NEW i \in 1..Len(channel), NEW r, r = channel[i].request
        PROVE  Given(r)'
    <3>1. Given(r) /\ Waits(r.command)
      BY <2>1 DEF CommandInv, DueOnce, Waits
    <3>2. r.command # c
      BY <3>1 DEF Unused, Due
    <3> QED
      BY <3>1, <3>2, <1>4
  <2>2. ASSUME InService, NEW r, r = current.request PROVE Given(r)'
    BY <1>4, <2>2 DEF CommandInv, DueOnce, Unused, Due, Served
  <2>3. UNCHANGED <<channel, thread, current>>
    BY <1>1
  <2> QED
    BY <2>1, <2>2, <2>3 DEF CommandInv, DueOnce, Waits, InService, Given
<1> QED
  BY <1>3, <1>5 DEF CommandInv

\* A command is handed to the worker: it becomes due in one new place.
LEMMA StartedKeeps ==
  ASSUME RuntimeTyped, CommandInv, NEW c \in Nat \ {0}, NEW op \in Commands, Unused(c, op),
         Started(c, op),
         nextCommand' \in Nat, UNCHANGED <<audit, ready, responses, thread, current>>,
         \A d \in CommandIds : d >= nextCommand' => d # c /\ d >= nextCommand
  PROVE  CommandInv'
<1>1. PICK q : Filed(c, op, q) /\ q.status = "Running"
      /\ \E g \in Requests : g.op = op /\ g.command = c /\ channel' = Append(channel, Work(g))
  BY DEF Started
<1>2. PICK g \in Requests : g.op = op /\ g.command = c /\ channel' = Append(channel, Work(g))
  BY <1>1
<1>3. /\ Len(channel') = Len(channel) + 1 /\ Len(channel) \in Nat
      /\ \A i \in 1..Len(channel) : channel'[i] = channel[i]
      /\ channel'[Len(channel) + 1].request = g
  <2>1. channel \in Seq(Messages)
    BY DEF RuntimeTyped, WorkerTypeOK
  <2>2. Work(g) \in Messages /\ Work(g).tag = "Work" /\ Work(g).request = g
    BY DEF Work, Messages
  <2> HIDE DEF Work, Messages
  <2> QED
    BY <1>2, <2>1, <2>2
<1>4. ASSUME NEW i \in 1..Len(channel')
      PROVE  \/ i \in 1..Len(channel) /\ channel'[i] = channel[i]
             \/ i = Len(channel) + 1 /\ channel'[i].request = g
  BY <1>3
<1>5. \A d : Waits(d)' <=> Waits(d) \/ d = c
  <2>1. ASSUME NEW d, Waits(d)' PROVE Waits(d) \/ d = c
    <3>1. PICK i \in 1..Len(channel') : channel'[i].request.command = d
      BY <2>1 DEF Waits
    <3> QED
      BY <1>2, <1>4, <3>1 DEF Waits
  <2>2. ASSUME NEW d, Waits(d) PROVE Waits(d)'
    <3>1. PICK i \in 1..Len(channel) : channel[i].request.command = d
      BY <2>2 DEF Waits
    <3>2. i \in 1..Len(channel') /\ channel'[i] = channel[i]
      BY <1>3
    <3> QED
      BY <3>1, <3>2 DEF Waits
  <2>3. Waits(c)'
    <3>1. Len(channel) + 1 \in 1..Len(channel')
      BY <1>3
    <3> QED
      BY <1>2, <1>3, <3>1 DEF Waits
  <2> QED
    BY <2>1, <2>2, <2>3
<1>6. \A d : Served(d)' <=> Served(d)
  BY DEF Served, InService
<1>7. CommittedOnce' /\ AnswersFaithful' /\ StatusTrue' /\ LiveDiffer'
  <2>1. \A d : d # 0 /\ Due(d)' => Due(d) \/ d = c
    BY <1>5, <1>6 DEF Due
  <2> QED
    BY <1>1, <2>1, FiledKeeps
<1>8. ASSUME NEW r, Given(r), r.command # c PROVE Given(r)'
  BY <1>1, <1>8, GivenKept
<1>9. \A i \in 1..Len(channel) :
        Given(channel[i].request) /\ channel[i].request.command # c
  BY DEF CommandInv, DueOnce, Unused, Due, Waits
<1>10. Given(g)'
  <2>1. c \in 1..(nextCommand' - 1)
    BY DEF Unused
  <2>2. pending'[c] = q
    BY <1>1 DEF Filed, RuntimeTyped, Unused
  <2>3. op # Query
    BY DEF Commands, Saves, Post, Query
  <2> QED
    BY <1>1, <1>2, <2>1, <2>2, <2>3 DEF Given, Filed
<1>11. ASSUME NEW i \in 1..Len(channel'), NEW r, r = channel'[i].request
       PROVE  Given(r)'
  <2>1. CASE i \in 1..Len(channel) /\ channel'[i] = channel[i]
    <3>1. Given(r) /\ r.command # c
      BY <1>9, <1>11, <2>1
    <3> QED
      BY <1>8, <3>1
  <2>2. CASE r = g
    BY <1>10, <2>2
  <2> QED
    BY <1>4, <1>11, <2>1, <2>2
<1>12. ASSUME NEW i \in 1..Len(channel'), NEW j \in 1..Len(channel'),
              channel'[i].request.command # 0,
              channel'[i].request.command = channel'[j].request.command
       PROVE  i = j
  <2>1. CASE i \in 1..Len(channel) /\ channel'[i] = channel[i] /\ j \in 1..Len(channel) /\ channel'[j] = channel[j]
    BY <1>12, <2>1 DEF CommandInv, DueOnce
  <2>2. CASE i = Len(channel) + 1 \/ j = Len(channel) + 1
    BY <1>2, <1>3, <1>4, <1>9, <1>12, <2>2
  <2> QED
    BY <1>4, <2>1, <2>2
<1>13. ASSUME InService, NEW r, r = current.request
       PROVE  Given(r)' /\ (r.command # 0 => ~Waits(r.command)')
  <2>1. Given(r) /\ r.command # c /\ (r.command # 0 => ~Waits(r.command))
    BY <1>13 DEF CommandInv, DueOnce, Unused, Due, Served
  <2> QED
    BY <1>5, <1>8, <2>1
<1>14. DueOnce'
  <2>1. UNCHANGED <<thread, current>>
    OBVIOUS
  <2>2. (InService => Given(current.request) /\ (current.request.command # 0 => ~Waits(current.request.command)))'
    BY <1>13, <2>1 DEF InService, Given, Waits
  <2>3. (\A i \in 1..Len(channel) : Given(channel[i].request))'
    BY <1>11 DEF Given
  <2> QED
    BY <1>12, <2>2, <2>3 DEF DueOnce
<1> QED
  BY <1>7, <1>14 DEF CommandInv
-----------------------------------------------------------------------------
(* The steps of the worker *)

\* What is due has not committed.
LEMMA DueIsOpen ==
  ASSUME CommandInv, NEW c, c # 0, Due(c)
  PROVE  /\ c \in 1..(nextCommand - 1) /\ pending[c].status = "Running"
         /\ ~Committed(c)
BY DueRuns DEF CommandInv, CommittedOnce, Committed

\* Steps that make nothing due, commit nothing and answer faithfully.
LEMMA QuietKeeps ==
  ASSUME CommandInv, UNCHANGED <<pending, nextCommand, audit>>,
         \A d : d # 0 /\ Due(d)' => Due(d),
         \A p \in Answers' : p \in Answers \/ Faithful(p)'
  PROVE  CommittedOnce' /\ AnswersFaithful' /\ StatusTrue' /\ LiveDiffer'
<1>1. \A d : Committed(d)' <=> Committed(d)
  BY DEF Committed
<1>2. CommittedOnce'
  <2>1. ASSUME NEW i \in 1..Len(audit) PROVE audit[i] # 0 /\ ~Due(audit[i])
    BY DEF CommandInv, CommittedOnce
  <2>2. ASSUME NEW i \in 1..Len(audit), NEW d, d = audit[i] PROVE ~Due(d)'
    BY <2>1, <2>2
  <2> QED
    BY <2>2 DEF CommandInv, CommittedOnce, Due, Waits, Served, InService
<1>3. ASSUME NEW p \in Answers PROVE Faithful(p)'
  <2>1. Faithful(p)
    BY DEF CommandInv, AnswersFaithful
  <2> QED
    BY <1>1, <2>1 DEF Faithful
<1>4. AnswersFaithful'
  BY <1>3 DEF AnswersFaithful
<1>5. StatusTrue' /\ LiveDiffer'
  BY <1>1 DEF CommandInv, StatusTrue, LiveDiffer
<1> QED
  BY <1>2, <1>4, <1>5

\* The thread takes the oldest request: what waited is served.
LEMMA ReceiveKeeps ==
  ASSUME RuntimeTyped, CommandInv, UNCHANGED runtimeVars, Receive
  PROVE  CommandInv'
<1>1. /\ thread = "Receiving" /\ thread' = "Received"
      /\ channel # <<>> /\ Head(channel).tag = "Work"
      /\ current'.request = Head(channel).request
      /\ channel' = Tail(channel)
      /\ UNCHANGED <<responses, audit, pending, nextCommand, ready>>
  BY DEF Receive, runtimeVars, Completed
<1>2. /\ channel \in Seq(Messages) /\ Len(channel) \in Nat
      /\ Len(channel') = Len(channel) - 1
      /\ \A i \in 1..Len(channel') : i + 1 \in 1..Len(channel) /\ channel'[i] = channel[i + 1]
      /\ 1 \in 1..Len(channel) /\ Head(channel) = channel[1]
  BY <1>1 DEF RuntimeTyped, WorkerTypeOK
<1>3. \A d : Waits(d)' => \E i \in 1..Len(channel) :
        i # 1 /\ channel[i].request.command = d
  BY <1>2 DEF Waits
<1>4. \A d : d # 0 /\ Due(d)' => Due(d)
  BY <1>1, <1>2, <1>3 DEF Due, Waits, Served
<1>5. Answers' = Answers
  BY <1>1 DEF Answers
<1>6. DueOnce'
  <2>1. ASSUME NEW i \in 1..Len(channel')
        PROVE  Given(channel'[i].request)
    BY <1>2, <2>1 DEF CommandInv, DueOnce
  <2>2. ASSUME NEW i \in 1..Len(channel'), NEW j \in 1..Len(channel'),
               channel'[i].request.command # 0,
               channel'[i].request.command = channel'[j].request.command
        PROVE  i = j
    <3>1. /\ i + 1 \in 1..Len(channel) /\ channel'[i] = channel[i + 1]
          /\ j + 1 \in 1..Len(channel) /\ channel'[j] = channel[j + 1]
      BY <1>2
    <3>2. i + 1 = j + 1
      BY <2>2, <3>1 DEF CommandInv, DueOnce
    <3> QED
      BY <3>2, <1>2
  <2>3. Given(current'.request)
    BY <1>1, <1>2 DEF CommandInv, DueOnce
  <2>4. ASSUME current'.request.command # 0 PROVE ~(\E i \in 1..Len(channel) :
          i # 1 /\ channel[i].request.command = current'.request.command)
    BY <1>1, <1>2, <2>4 DEF CommandInv, DueOnce
  <2>5. ASSUME NEW d, d = current'.request.command, d # 0 PROVE ~Waits(d)'
    BY <1>3, <2>4, <2>5
  <2>6. ASSUME NEW r, Given(r) PROVE Given(r)'
    BY <1>1, <2>6 DEF Given
  <2>7. (InService => /\ Given(current.request)
                      /\ current.request.command # 0 => ~Waits(current.request.command))'
    BY <1>1, <2>3, <2>5 DEF Given, Waits
  <2>8. (\A i \in 1..Len(channel) : Given(channel[i].request))'
    BY <1>1, <2>1 DEF Given
  <2> QED
    BY <2>2, <2>7, <2>8 DEF DueOnce
<1> QED
  BY <1>1, <1>4, <1>5, <1>6, QuietKeeps DEF CommandInv

\* Leaving the channel alone keeps what waits in it.
LEMMA ChannelKept ==
  ASSUME CommandInv, UNCHANGED <<channel, pending, nextCommand>>,
         InService' => InService /\ current'.request = current.request
  PROVE  /\ DueOnce'
         /\ \A d : Waits(d)' <=> Waits(d)
         /\ \A d : Due(d)' => Due(d)
BY DEF CommandInv, DueOnce, Due, Waits, Served, Given

\* The request in service is answered without a commit.
LEMMA SettleKeeps ==
  ASSUME RuntimeTyped, CommandInv, UNCHANGED runtimeVars,
         CancelReceived \/ ExecuteQuery \/ FailExecution
  PROVE  CommandInv'
<1>1. /\ InService /\ thread' = "Replying"
      /\ UNCHANGED <<channel, responses, audit, pending, nextCommand, ready>>
  BY DEF CancelReceived, ExecuteQuery, FailExecution, runtimeVars, InService
<1>2. current'.request = current.request /\ current'.result.status # "Mutated"
  <2>1. ASSUME NEW s \in {"Viewed", "Failed", "Cancelled"},
               current' = [current EXCEPT !.result = Outcome(s)]
        PROVE  current'.request = current.request /\ current'.result.status # "Mutated"
    BY <2>1 DEF RuntimeTyped, WorkerTypeOK, Outcome
  <2> QED
    BY <2>1 DEF CancelReceived, ExecuteQuery, FailExecution
<1>3. ~InService'
  BY <1>1 DEF InService
<1>4. /\ DueOnce'
      /\ \A d : Waits(d)' <=> Waits(d)
      /\ \A d : Due(d)' => Due(d)
  BY <1>1, <1>2, <1>3, ChannelKept
<1>5. ASSUME NEW p, p = current', NEW c, c = p.request.command, c # 0
      PROVE  /\ c \in 1..(nextCommand - 1) /\ pending[c].status = "Running"
             /\ ~Committed(c) /\ ~Due(c)' /\ p.result.status # "Mutated"
  <2>1. c = current.request.command /\ p.result.status # "Mutated"
    BY <1>2, <1>5
  <2>2. Due(c) /\ ~Waits(c)
    BY <1>1, <1>5, <2>1 DEF CommandInv, DueOnce, Due, Served
  <2>3. c \in 1..(nextCommand - 1) /\ pending[c].status = "Running" /\ ~Committed(c)
    BY <1>5, <2>2, DueIsOpen
  <2>4. ~Served(c)'
    BY <1>3 DEF Served
  <2>5. ~Due(c)'
    BY <1>4, <2>2, <2>4 DEF Due
  <2> QED
    BY <2>1, <2>3, <2>5
<1>6. \A p \in Answers' : p \in Answers \/ p = current'
  BY <1>1 DEF Answers
<1>7. ASSUME NEW p, p = current' PROVE Faithful(p)'
  <2>1. SUFFICES ASSUME p.request.command # 0 PROVE Faithful(p)'
    BY DEF Faithful
  <2>2. PICK c : c = p.request.command
    OBVIOUS
  <2>3. /\ c \in 1..(nextCommand - 1) /\ pending[c].status = "Running"
        /\ ~Committed(c) /\ ~Due(c)' /\ p.result.status # "Mutated"
    BY <1>5, <1>7, <2>1, <2>2
  <2>4. Committed(c)' <=> Committed(c)
    BY <1>1 DEF Committed
  <2>5. Committed(p.request.command)' = Committed(c)' /\ Due(p.request.command)' = Due(c)'
    BY <2>2 DEF Committed, Due, Waits, Served, InService
  <2> QED
    BY <1>1, <2>2, <2>3, <2>4, <2>5 DEF Faithful
<1>8. \A p \in Answers' : p \in Answers \/ Faithful(p)'
  BY <1>6, <1>7
<1> QED
  BY <1>1, <1>4, <1>8, QuietKeeps DEF CommandInv
\* The flag is read, or the answer is handed over: nothing is due or said anew.
LEMMA CarryKeeps ==
  ASSUME RuntimeTyped, CommandInv, UNCHANGED runtimeVars, Admit \/ Reply
  PROVE  CommandInv'
<1>1. UNCHANGED <<channel, audit, pending, nextCommand, ready>>
  BY DEF Admit, Reply, runtimeVars
<1>2. InService' => InService /\ current'.request = current.request
  BY DEF Admit, Reply, InService
<1>3. DueOnce' /\ \A d : Due(d)' => Due(d)
  BY <1>1, <1>2, ChannelKept
<1>4. Answers' = Answers
  <2>1. CASE Admit
    BY <2>1, <1>1 DEF Admit, Answers
  <2>2. CASE Reply
    <3>1. responses \in Seq(Responses) /\ current \in Responses
      BY DEF RuntimeTyped, WorkerTypeOK, Responses
    <3>2. Elements(responses') = Elements(responses) \union {current}
      BY <2>2, <3>1, ElementsAppend DEF Reply
    <3> QED
      BY <2>2, <3>2, <1>1 DEF Reply, Answers
  <2> QED
    BY <2>1, <2>2
<1> QED
  BY <1>1, <1>3, <1>4, QuietKeeps DEF CommandInv

\* The transaction commits: the command was served, so it had not committed before,
\* and no answer had been given to it.
LEMMA CommitKeeps ==
  ASSUME RuntimeTyped, CommandInv, UNCHANGED runtimeVars, ExecuteCommand
  PROVE  CommandInv'
<1>1. PICK c : c = current.request.command
  OBVIOUS
<1>2. /\ InService /\ thread' = "Replying"
      /\ UNCHANGED <<channel, responses, pending, nextCommand, ready>>
      /\ audit' = Append(audit, c)
  BY <1>1 DEF ExecuteCommand, runtimeVars, InService
<1>3. current'.request = current.request /\ current'.result.status = "Mutated"
  BY DEF ExecuteCommand, RuntimeTyped, WorkerTypeOK, Mutated
<1>4. c \in 1..(nextCommand - 1) /\ c \in Nat \ {0} /\ pending[c].status = "Running"
  <2>1. current.request.op # Query
    BY DEF ExecuteCommand, Query
  <2>2. Given(current.request)
    BY <1>2 DEF CommandInv, DueOnce
  <2> QED
    BY <1>1, <2>1, <2>2, IdsAreCommands DEF Given
<1>5. Due(c) /\ ~Waits(c) /\ ~Committed(c)
  <2>1. Due(c) /\ ~Waits(c)
    BY <1>1, <1>2, <1>4 DEF CommandInv, DueOnce, Due, Served
  <2> QED
    BY <1>4, <2>1, DueIsOpen
<1>6. ~InService'
  BY <1>2 DEF InService
<1>7. /\ DueOnce'
      /\ \A d : Waits(d)' <=> Waits(d)
      /\ \A d : Due(d)' => Due(d)
  BY <1>2, <1>3, <1>6, ChannelKept
<1>8. ~Due(c)'
  BY <1>5, <1>6, <1>7 DEF Due, Served
<1>9. /\ Len(audit) \in Nat /\ Len(audit') = Len(audit) + 1
      /\ \A i \in 1..Len(audit) : audit'[i] = audit[i]
      /\ audit'[Len(audit) + 1] = c
  <2>1. audit \in Seq(Nat)
    BY DEF RuntimeTyped, WorkerTypeOK
  <2> QED
    BY <1>2, <1>4, <2>1
<1>10. \A d : Committed(d)' <=> Committed(d) \/ d = c
  <2>1. \A i : i \in 1..(Len(audit) + 1) <=> i \in 1..Len(audit) \/ i = Len(audit) + 1
    BY <1>9
  <2> QED
    BY <1>9, <2>1 DEF Committed
<1>11. CommittedOnce'
  <2>1. ASSUME NEW i \in 1..Len(audit'), NEW d, d = audit'[i]
        PROVE  d \in 1..(nextCommand - 1) /\ ~Due(d)'
    <3>1. CASE i \in 1..Len(audit)
      <4>1. d \in 1..(nextCommand - 1) /\ ~Due(d)
        BY <1>9, <2>1, <3>1 DEF CommandInv, CommittedOnce
      <4> QED
        BY <1>7, <4>1
    <3>2. CASE i = Len(audit) + 1
      BY <1>4, <1>8, <1>9, <2>1, <3>2
    <3> QED
      BY <1>9, <3>1, <3>2
  <2>2. ASSUME NEW i \in 1..Len(audit'), NEW j \in 1..Len(audit'), audit'[i] = audit'[j]
        PROVE  i = j
    <3>1. \A k \in 1..Len(audit) : audit[k] # c
      BY <1>5 DEF Committed
    <3>2. \A k \in 1..Len(audit') : k \in 1..Len(audit) \/ k = Len(audit) + 1
      BY <1>9
    <3> QED
      BY <1>9, <2>2, <3>1, <3>2 DEF CommandInv, CommittedOnce
  <2>3. \A i \in 1..Len(audit') : audit'[i] \in 1..(nextCommand' - 1)
    BY <1>2, <2>1
  <2>4. (\A i \in 1..Len(audit) : ~Due(audit[i]))'
    BY <2>1 DEF Due, Waits, Served, InService
  <2> QED
    BY <2>2, <2>3, <2>4 DEF CommittedOnce
<1>12. ASSUME NEW p \in Answers PROVE Faithful(p)'
  <2>1. SUFFICES ASSUME NEW d, d = p.request.command, d # 0 PROVE Faithful(p)'
    BY DEF Faithful
  <2>2. /\ d \in 1..(nextCommand - 1) /\ ~Due(d)
        /\ pending[d].status # "AwaitingConfirmation"
        /\ p.result.status = "Mutated" <=> Committed(d)
    BY <2>1 DEF CommandInv, AnswersFaithful, Faithful
  <2>3. d # c /\ ~Due(d)' /\ (Committed(d)' <=> Committed(d))
    BY <1>5, <1>7, <1>10, <2>2
  <2> QED
    BY <1>2, <2>1, <2>2, <2>3 DEF Faithful, Committed, Due, Waits, Served, InService
<1>13. ASSUME NEW p, p = current' PROVE Faithful(p)'
  <2>1. p.request.command = c /\ p.result.status = "Mutated"
    BY <1>1, <1>3, <1>13
  <2>2. Committed(c)'
    BY <1>10
  <2> QED
    BY <1>2, <1>4, <1>8, <2>1, <2>2 DEF Faithful, Committed, Due, Waits, Served, InService
<1>14. AnswersFaithful'
  <2>1. \A p \in Answers' : p \in Answers \/ p = current'
    BY <1>2 DEF Answers
  <2> QED
    BY <2>1, <1>12, <1>13 DEF AnswersFaithful
<1>15. StatusTrue' /\ LiveDiffer'
  BY <1>2, <1>4, <1>10 DEF CommandInv, StatusTrue, LiveDiffer
<1> QED
  BY <1>7, <1>11, <1>14, <1>15 DEF CommandInv

\* The channel is emptied: by Shutdown, which answers what waited, or by a panic.
LEMMA EmptiedKeeps ==
  ASSUME RuntimeTyped, CommandInv, UNCHANGED runtimeVars, ReceiveShutdown \/ Panic
  PROVE  CommandInv'
<1>1. /\ channel' = <<>> /\ UNCHANGED <<audit, pending, nextCommand, ready>>
      /\ thread' \in {"Closing", "Exited"}
  BY DEF ReceiveShutdown, Panic, runtimeVars
<1>2. \A d : ~Due(d)'
  BY <1>1 DEF Due, Waits, Served, InService
<1>3. DueOnce'
  BY <1>1 DEF DueOnce, InService
<1>4. ASSUME NEW i \in 1..Len(channel), NEW p,
             p = Completed(channel[i].request, Outcome("Cancelled"))
      PROVE  Faithful(p)'
  <2>1. SUFFICES ASSUME NEW d, d = p.request.command, d # 0 PROVE Faithful(p)'
    BY DEF Faithful
  <2>2. d = channel[i].request.command /\ p.result.status = "Cancelled"
    BY <1>4, <2>1 DEF Completed, Outcome
  <2>3. Due(d)
    BY <2>2 DEF Due, Waits
  <2>4. d \in 1..(nextCommand - 1) /\ pending[d].status = "Running" /\ ~Committed(d)
    BY <2>1, <2>3, DueIsOpen
  <2>5. Committed(d)' <=> Committed(d)
    BY <1>1 DEF Committed
  <2>6. ~Due(d)'
    BY <1>2
  <2> QED
    BY <1>1, <2>1, <2>2, <2>4, <2>5, <2>6 DEF Faithful, Committed, Due, Waits, Served, InService
<1>5. \A p \in Answers' : p \in Answers \/ Faithful(p)'
  <2>1. CASE ReceiveShutdown
    <3> DEFINE answers == Cancellations(Tail(channel))
    <3>1. /\ channel \in Seq(Messages) /\ channel # <<>> /\ Tail(channel) \in Seq(Messages)
          /\ responses \in Seq(Responses)
      BY <2>1 DEF ReceiveShutdown, RuntimeTyped, WorkerTypeOK
    <3>2. answers \in Seq(Responses) /\ Len(answers) = Len(Tail(channel))
      BY <3>1, CancellationsType
    <3>3. Elements(responses') = Elements(responses) \union Elements(answers)
      BY <2>1, <3>1, <3>2, ElementsConcat DEF ReceiveShutdown
    <3>4. ASSUME NEW p \in Elements(answers) PROVE Faithful(p)'
      <4>1. PICK i \in 1..Len(Tail(channel)) :
              p = Completed(Tail(channel)[i].request, Outcome("Cancelled"))
        BY <3>2, <3>4 DEF Elements, Cancellations
      <4>2. i + 1 \in 1..Len(channel) /\ Tail(channel)[i] = channel[i + 1]
        BY <3>1, <4>1
      <4> QED
        BY <1>4, <4>1, <4>2
    <3> HIDE DEF answers
    <3>5. thread' = "Closing"
      BY <2>1 DEF ReceiveShutdown
    <3> QED
      BY <1>1, <3>3, <3>4, <3>5 DEF Answers
  <2>2. CASE Panic
    BY <1>1, <2>2 DEF Panic, Answers
  <2> QED
    BY <2>1, <2>2
<1> QED
  BY <1>1, <1>2, <1>3, <1>5, QuietKeeps DEF CommandInv

\* The thread ends: Terminated answers no command.
LEMMA ExitKeeps ==
  ASSUME RuntimeTyped, CommandInv, UNCHANGED runtimeVars, CheckpointAndExit \/ FailCheckpoint
  PROVE  CommandInv'
<1>1. /\ UNCHANGED <<channel, audit, pending, nextCommand, ready>>
      /\ thread' = "Exited"
  BY DEF CheckpointAndExit, FailCheckpoint, runtimeVars
<1>2. ~InService'
  BY <1>1 DEF InService
<1>3. DueOnce' /\ \A d : Due(d)' => Due(d)
  BY <1>1, <1>2, ChannelKept
<1>4. Elements(responses') \subseteq Elements(responses) \union {Terminated}
  <2>1. responses \in Seq(Responses) /\ Terminated \in Responses
    BY DEF RuntimeTyped, WorkerTypeOK, Responses
  <2>2. CASE CheckpointAndExit
    BY <2>1, <2>2, ElementsAppend DEF CheckpointAndExit
  <2>3. CASE FailCheckpoint
    BY <2>3 DEF FailCheckpoint
  <2> QED
    BY <2>2, <2>3
<1>5. Faithful(Terminated)'
  BY DEF Faithful, Terminated, NoRequest
<1>6. \A p \in Answers' : p \in Answers \/ Faithful(p)'
  BY <1>1, <1>4, <1>5 DEF Answers
<1> QED
  BY <1>1, <1>3, <1>6, QuietKeeps DEF CommandInv

\* Every step of the thread.
LEMMA WorkerKeeps ==
  ASSUME RuntimeTyped, CommandInv, ThreadStep
  PROVE  CommandInv'
BY ReceiveKeeps, SettleKeeps, CarryKeeps, CommitKeeps, EmptiedKeeps, ExitKeeps
   DEF ThreadStep, WorkerStep, WorkerProgress
-----------------------------------------------------------------------------
(* The steps of the user *)

\* Steps that touch neither the records nor the worker.
LEMMA StillKeeps ==
  ASSUME CommandInv,
         UNCHANGED <<pending, nextCommand, channel, thread, current, audit, ready, responses>>
  PROVE  CommandInv'
<1>1. DueOnce' /\ \A d : Due(d)' => Due(d)
  BY ChannelKept DEF InService
<1>2. Answers' = Answers
  BY DEF Answers
<1> QED
  BY <1>1, <1>2, QuietKeeps DEF CommandInv

\* Perform, Undo, Redo and CommitEditor: what they dispatch, if it is no duplicate,
\* is recorded under an identifier that nothing knows yet.
LEMMA DispatchKeeps ==
  ASSUME RuntimeTyped, CommandInv, NEW op \in Commands, nextCommand <= MaxCommands,
         Dispatch(op), UNCHANGED <<audit, ready, responses, thread, current>>
  PROVE  CommandInv'
<1>1. CASE UNCHANGED <<nextCommand, pending, channel>>
  BY <1>1, StillKeeps
<1>2. ASSUME ~Duplicate(op), nextCommand \in CommandIds, nextCommand' = nextCommand + 1,
             NEW c, c = nextCommand, Parked(c, op) \/ Started(c, op)
      PROVE  CommandInv'
  <2>1. c \in Nat \ {0} /\ nextCommand' \in Nat
    BY <1>2 DEF RuntimeTyped
  <2>2. Unused(c, op)
    BY <1>2, FreshIsUnused
  <2>3. \A d \in CommandIds : d >= nextCommand' => d # c /\ d >= nextCommand
    BY <1>2, <2>1 DEF CommandIds
  <2> QED
    BY <1>2, <2>1, <2>2, <2>3, ParkedKeeps, StartedKeeps
<1>3. \/ UNCHANGED <<nextCommand, pending, channel>>
      \/ /\ ~Duplicate(op) /\ nextCommand \in CommandIds /\ nextCommand' = nextCommand + 1
         /\ Parked(nextCommand, op) \/ Started(nextCommand, op)
  BY DispatchDoes
<1> QED
  BY <1>1, <1>2, <1>3

\* Confirm and Cancel: a command that waited is submitted, or given up.
LEMMA AwaitedKeeps ==
  ASSUME RuntimeTyped, CommandInv, NEW c \in CommandIds, Confirm(c) \/ Cancel(c)
  PROVE  CommandInv'
<1>1. /\ pending[c].status = "AwaitingConfirmation"
      /\ UNCHANGED <<nextCommand, audit, ready, responses, thread, current>>
  BY DEF Confirm, Cancel, untouchedByUser
<1>2. PICK op : op = pending[c].op
  OBVIOUS
<1>3. op \in Commands /\ pending[c] \in Records
  BY <1>2 DEF RuntimeTyped
<1>4. Unused(c, op)
  BY <1>1, <1>2, AwaitingIsUnused
<1>5. /\ nextCommand' \in Nat /\ c \in Nat \ {0}
      /\ \A d \in CommandIds : d >= nextCommand' => d # c /\ d >= nextCommand
  BY <1>1, <1>4 DEF Unused, RuntimeTyped, CommandIds
<1>6. Parked(c, op) \/ Started(c, op)
  <2>1. CASE Confirm(c)
    <3>1. \A r : r = pending[c] => SubmitCommand(c, r)
      BY <2>1 DEF Confirm
    <3> QED
      BY <1>2, <1>3, <3>1, SubmitDoes
  <2>2. CASE Cancel(c)
    <3> DEFINE q == [pending[c] EXCEPT !.status = "Cancelled"]
    <3>1. q \in Records /\ q.op = op /\ q.status = "Cancelled"
      BY <1>2, <1>3 DEF Records, Terminal
    <3>2. pending' = [pending EXCEPT ![c] = q] /\ UNCHANGED channel
      BY <2>2 DEF Cancel, RuntimeTyped
    <3> HIDE DEF q
    <3> QED
      BY <3>1, <3>2 DEF Parked, Filed
  <2> QED
    BY <2>1, <2>2
<1> QED
  BY <1>1, <1>3, <1>4, <1>5, <1>6, ParkedKeeps, StartedKeeps

\* What the undo and redo stacks offer is a command.
LEMMA StackOffers ==
  ASSUME RuntimeTyped
  PROVE  /\ CanUndo(history) => NextUndo(history) \in Commands
         /\ CanRedo(history) => NextRedo(history) \in Commands
<1>1. ASSUME NEW s \in Seq(Entries), s # <<>> PROVE Top(s) \in Entries
  <2>1. Len(s) \in 1..Len(s)
    BY <1>1
  <2> QED
    BY <2>1 DEF Top
<1> QED
  BY <1>1 DEF RuntimeTyped, CanUndo, CanRedo, NextUndo, NextRedo, Entries

\* Every step of the user.
LEMMA UserKeeps ==
  ASSUME RuntimeTyped, CommandInv, User
  PROVE  CommandInv'
<1>1. ASSUME NEW op \in Commands, UserDispatches, Dispatch(op), UNCHANGED untouchedByUser
      PROVE  CommandInv'
  BY <1>1, DispatchKeeps DEF UserDispatches, untouchedByUser
<1>2. CASE \E op \in Commands : Perform(op) \/ CommitEditor(op)
  BY <1>1, <1>2 DEF Perform, CommitEditor, untouchedByUser
<1>3. CASE Undo \/ Redo
  <2>1. \A op : op = NextUndo(history) /\ CanUndo(history) => op \in Commands
    BY StackOffers
  <2>2. \A op : op = NextRedo(history) /\ CanRedo(history) => op \in Commands
    BY StackOffers
  <2> QED
    BY <1>1, <1>3, <2>1, <2>2 DEF Undo, Redo, PerformHistory, untouchedByUser
<1>4. CASE \E c \in CommandIds : Confirm(c) \/ Cancel(c)
  BY <1>4, AwaitedKeeps
<1>5. CASE OpenEditor \/ CloseEditor \/ RejectDraft \/ \E a \in Accounts : ClickAccount(a)
  BY <1>5, StillKeeps DEF OpenEditor, CloseEditor, RejectDraft, ClickAccount, untouchedByUser
<1> QED
  BY <1>2, <1>3, <1>4, <1>5 DEF User
-----------------------------------------------------------------------------
(* The steps of the frame loop *)

\* Collecting, and dropping or handling an answer without touching a record,
\* leaves fewer answers.
LEMMA DrainKeeps ==
  ASSUME RuntimeTyped, CommandInv, BeginDrain \/ DiscardResponse \/ HandleTree
  PROVE  CommandInv'
<1>1. UNCHANGED <<channel, pending, nextCommand, audit, thread, current>>
  BY DEF BeginDrain, DiscardResponse, HandleTree, frameUntouched
<1>2. DueOnce' /\ \A d : Due(d)' => Due(d)
  BY <1>1, ChannelKept DEF InService
<1>3. \A p \in Answers' : p \in Answers
  <2>1. CASE BeginDrain
    BY <1>1, <2>1 DEF BeginDrain, Answers, Elements
  <2>2. CASE DiscardResponse \/ HandleTree
    <3>1. ready # <<>> /\ ready' = Tail(ready) /\ UNCHANGED responses
      BY <2>2 DEF DiscardResponse, HandleTree
    <3>2. Elements(ready') \subseteq Elements(ready)
      BY <3>1, ElementsTail DEF RuntimeTyped
    <3> QED
      BY <1>1, <3>1, <3>2 DEF Answers
  <2> QED
    BY <2>1, <2>2
<1> QED
  BY <1>1, <1>2, <1>3, QuietKeeps DEF CommandInv

\* A correlated answer to a command settles its record and drops some that are
\* finished; no other record changes.
LEMMA HandleDoes ==
  ASSUME RuntimeTyped, CommandInv, HandleCommandResponse
  PROVE  \E p, c :
           /\ p = Head(ready) /\ p \in Answers /\ c = p.request.command
           /\ p \in Responses /\ p.tag = "Completed"
           /\ c \in CommandIds /\ c \in 1..(nextCommand - 1)
           /\ pending[c].status = "Running" /\ ~Due(c)
           /\ p.result.status = "Mutated" <=> Committed(c)
           /\ pending' \in [CommandIds -> Records]
           /\ \A d \in CommandIds : pending'[d].op \in Commands
           /\ pending'[c].status \in {"Absent", FinalStatus(p.result)}
           /\ \A d \in CommandIds \ {c} :
                \/ pending'[d] = pending[d]
                \/ pending[d].status \in Terminal /\ pending'[d].status = "Absent"
<1>1. PICK p, c : p = Head(ready) /\ c = p.request.command
  OBVIOUS
<1>2. ready \in Seq(Responses) /\ ready # <<>> /\ c # 0 /\ Correlated(p)
  BY <1>1 DEF HandleCommandResponse, RuntimeTyped
<1>3. p \in Responses /\ p \in Answers
  BY <1>1, <1>2, ElementsTail DEF Answers
<1>4. p.tag = "Completed"
  BY <1>1, <1>2, <1>3 DEF Responses, Terminated, NoRequest
<1>5. /\ c \in 1..(nextCommand - 1) /\ ~Due(c)
      /\ p.result.status = "Mutated" <=> Committed(c)
  BY <1>1, <1>2, <1>3 DEF CommandInv, AnswersFaithful, Faithful
<1>6. c \in CommandIds /\ pending[c].status = "Running"
  BY <1>1, <1>2, <1>5, IdsAreCommands DEF Correlated
<1> DEFINE n == terminalSequence + 1
           q == [pending[c] EXCEPT !.status = FinalStatus(p.result), !.sequence = n]
           filed == [pending EXCEPT ![c] = q]
<1>7. q \in Records /\ q.op \in Commands /\ q.status = FinalStatus(p.result)
  <2>1. n \in Nat /\ FinalStatus(p.result) \in Terminal
    BY DEF RuntimeTyped, FinalStatus, Terminal
  <2>2. pending[c] \in Records /\ pending[c].op \in Commands
    BY <1>6 DEF RuntimeTyped
  <2> HIDE DEF n
  <2> QED
    BY <2>1, <2>2 DEF Records
<1>8. pending' = Prune([pending EXCEPT ![c].status = FinalStatus(p.result), ![c].sequence = n])
  BY <1>1 DEF HandleCommandResponse
<1>9. [pending EXCEPT ![c].status = FinalStatus(p.result), ![c].sequence = n] = filed
  BY <1>6 DEF RuntimeTyped, Records
<1> HIDE DEF q, n
<1>10. /\ filed \in [CommandIds -> Records] /\ filed[c] = q
       /\ \A d \in CommandIds \ {c} : filed[d] = pending[d]
       /\ \A d \in CommandIds : filed[d].op \in Commands
  BY <1>6, <1>7 DEF RuntimeTyped
<1> HIDE DEF filed
<1>11. NoRecord \in Records /\ NoRecord.op \in Commands /\ NoRecord.status = "Absent"
  BY DEF NoRecord, Records, Operations, Commands
<1>12. /\ pending' \in [CommandIds -> Records]
       /\ \A d \in CommandIds :
            \/ pending'[d] = filed[d]
            \/ filed[d].status \in Terminal /\ pending'[d] = NoRecord
  BY <1>8, <1>9, <1>10, <1>11 DEF Prune
<1>13. /\ \A d \in CommandIds : pending'[d].op \in Commands
       /\ pending'[c].status \in {"Absent", FinalStatus(p.result)}
       /\ \A d \in CommandIds \ {c} :
            \/ pending'[d] = pending[d]
            \/ pending[d].status \in Terminal /\ pending'[d].status = "Absent"
  BY <1>6, <1>7, <1>10, <1>11, <1>12
<1> QED
  BY <1>1, <1>3, <1>4, <1>5, <1>6, <1>12, <1>13

\* What the record says then is what the answer said.
LEMMA HandleKeeps ==
  ASSUME RuntimeTyped, CommandInv, HandleCommandResponse
  PROVE  CommandInv'
<1>1. /\ UNCHANGED <<channel, nextCommand, audit, thread, current, responses>>
      /\ ready # <<>> /\ ready' = Tail(ready)
  BY DEF HandleCommandResponse, frameUntouched
<1>2. PICK p, c :
        /\ p \in Answers /\ c = p.request.command
        /\ c \in CommandIds /\ c \in 1..(nextCommand - 1)
        /\ pending[c].status = "Running" /\ ~Due(c)
        /\ p.result.status = "Mutated" <=> Committed(c)
        /\ pending'[c].status \in {"Absent", FinalStatus(p.result)}
        /\ \A d \in CommandIds \ {c} :
             \/ pending'[d] = pending[d]
             \/ pending[d].status \in Terminal /\ pending'[d].status = "Absent"
  BY HandleDoes
<1>3. \A d : (Due(d)' <=> Due(d)) /\ (Committed(d)' <=> Committed(d))
  BY <1>1 DEF Due, Waits, Served, InService, Committed
<1>4. \A d \in CommandIds : pending[d].status = "Running" /\ d # c => pending'[d] = pending[d]
  BY <1>2 DEF Terminal
<1>5. ASSUME NEW r, Given(r), r.command # c PROVE Given(r)'
  <2>1. CASE r.op = Query
    BY <1>5, <2>1 DEF Given
  <2>2. CASE r.op # Query
    <3>1. /\ r.command \in 1..(nextCommand - 1) /\ r.command \in CommandIds
          /\ pending[r.command].status = "Running" /\ pending[r.command].op = r.op
      BY <1>5, <2>2, IdsAreCommands DEF Given
    <3> QED
      BY <1>1, <1>4, <1>5, <2>2, <3>1 DEF Given
  <2> QED
    BY <2>1, <2>2
<1>6. DueOnce'
  <2>1. ASSUME NEW i \in 1..Len(channel), NEW r, r = channel[i].request PROVE Given(r)'
    <3>1. Given(r) /\ r.command # c
      BY <1>2, <2>1 DEF CommandInv, DueOnce, Due, Waits
    <3> QED
      BY <3>1, <1>5
  <2>2. ASSUME InService, NEW r, r = current.request PROVE Given(r)'
    BY <1>2, <1>5, <2>2 DEF CommandInv, DueOnce, Due, Served
  <2> QED
    BY <1>1, <2>1, <2>2 DEF CommandInv, DueOnce, Waits, InService, Given
<1>7. CommittedOnce'
  BY <1>1 DEF CommandInv, CommittedOnce, Due, Waits, Served, InService
<1>8. ASSUME NEW a \in Answers PROVE Faithful(a)'
  <2>1. SUFFICES ASSUME NEW d, d = a.request.command, d # 0 PROVE Faithful(a)'
    BY DEF Faithful
  <2>2. /\ d \in 1..(nextCommand - 1) /\ ~Due(d) /\ d \in CommandIds
        /\ pending[d].status # "AwaitingConfirmation"
        /\ a.result.status = "Mutated" <=> Committed(d)
    BY <2>1, IdsAreCommands DEF CommandInv, AnswersFaithful, Faithful
  <2>3. pending'[d].status # "AwaitingConfirmation"
    BY <1>2, <2>2 DEF FinalStatus
  <2> QED
    BY <1>1, <1>3, <2>1, <2>2, <2>3 DEF Faithful, Committed, Due, Waits, Served, InService
<1>9. AnswersFaithful'
  <2>1. Elements(ready') \subseteq Elements(ready)
    BY <1>1, ElementsTail DEF RuntimeTyped
  <2>2. \A a \in Answers' : a \in Answers
    BY <1>1, <2>1 DEF Answers
  <2> QED
    BY <1>8, <2>2 DEF AnswersFaithful
<1>10. StatusTrue'
  <2>1. pending'[c].status = "Committed" => Committed(c)
    BY <1>2 DEF FinalStatus
  <2>2. pending'[c].status \in {"AwaitingConfirmation", "Failed", "Cancelled"} => ~Committed(c)
    BY <1>2 DEF FinalStatus
  <2>3. c < nextCommand
    BY <1>2 DEF RuntimeTyped
  <2>4. ASSUME NEW d \in CommandIds, d # c
        PROVE  /\ pending'[d].status = "Committed" => Committed(d)
               /\ pending'[d].status \in {"AwaitingConfirmation", "Failed", "Cancelled"} => ~Committed(d)
               /\ d >= nextCommand => pending'[d].status = "Absent"
    BY <1>2, <2>4 DEF CommandInv, StatusTrue
  <2>5. nextCommand \in Nat /\ c \in Nat
    BY <1>2 DEF RuntimeTyped
  <2> QED
    BY <1>1, <1>3, <2>1, <2>2, <2>3, <2>4, <2>5 DEF StatusTrue
<1>11. LiveDiffer'
  <2>1. \A d \in CommandIds : pending'[d].status \in Live => pending'[d] = pending[d]
    BY <1>2 DEF Live, FinalStatus
  <2> QED
    BY <2>1 DEF CommandInv, LiveDiffer
<1> QED
  BY <1>6, <1>7, <1>9, <1>10, <1>11 DEF CommandInv
\* A message that concerns no command makes none due.
LEMMA NoticeKeeps ==
  ASSUME RuntimeTyped, CommandInv, NEW m \in Messages,
         m.request.op = Query, m.request.command = 0,
         channel' = Append(channel, m), UNCHANGED <<thread, current, nextCommand>>,
         \A d \in CommandIds : pending[d].status = "Running" => pending'[d] = pending[d]
  PROVE  DueOnce' /\ \A d : d # 0 /\ Due(d)' => Due(d)
<1>1. /\ Len(channel) \in Nat /\ Len(channel') = Len(channel) + 1
      /\ \A i \in 1..Len(channel) : channel'[i] = channel[i]
      /\ channel'[Len(channel) + 1] = m
  BY DEF RuntimeTyped, WorkerTypeOK
<1>2. \A i \in 1..Len(channel') :
        \/ i \in 1..Len(channel) /\ channel'[i] = channel[i]
        \/ channel'[i] = m
  BY <1>1
<1>3. \A d : d # 0 /\ Waits(d)' => Waits(d)
  BY <1>2 DEF Waits
<1>4. ASSUME NEW r, Given(r) PROVE Given(r)'
  <2>1. CASE r.op = Query
    BY <1>4, <2>1 DEF Given
  <2>2. CASE r.op # Query
    BY <1>4, <2>2, IdsAreCommands DEF Given
  <2> QED
    BY <2>1, <2>2
<1>5. ASSUME NEW i \in 1..Len(channel'), NEW r, r = channel'[i].request PROVE Given(r)'
  BY <1>2, <1>4, <1>5 DEF CommandInv, DueOnce, Given
<1>6. ASSUME InService, NEW r, r = current.request
      PROVE  Given(r)' /\ (r.command # 0 => ~Waits(r.command)')
  <2>1. Given(r) /\ (r.command # 0 => ~Waits(r.command))
    BY <1>6 DEF CommandInv, DueOnce
  <2> QED
    BY <1>3, <1>4, <2>1
<1>7. (\A i \in 1..Len(channel) : Given(channel[i].request))'
  BY <1>5 DEF Given
<1>8. (InService => Given(current.request) /\ (current.request.command # 0 => ~Waits(current.request.command)))'
  BY <1>6 DEF InService, Given, Waits
<1>9. ASSUME NEW i \in 1..Len(channel'), NEW j \in 1..Len(channel'),
             channel'[i].request.command # 0,
             channel'[i].request.command = channel'[j].request.command
      PROVE  i = j
  BY <1>2, <1>9 DEF CommandInv, DueOnce
<1>10. \A d : d # 0 /\ Due(d)' => Due(d)
  BY <1>3 DEF Due, Served, InService
<1> QED
  BY <1>7, <1>8, <1>9, <1>10 DEF DueOnce

\* The end of a drain may ask for the account tree again.
LEMMA EndDrainKeeps ==
  ASSUME RuntimeTyped, CommandInv, EndDrain
  PROVE  CommandInv'
<1>1. UNCHANGED <<pending, nextCommand, audit, thread, current, responses, ready>>
  BY DEF EndDrain, frameUntouched
<1>2. CASE UNCHANGED channel
  BY <1>1, <1>2, StillKeeps
<1>3. CASE channel' # channel
  <2> DEFINE g == TreeRequest(nextRequest, generation)
             m == Work(g)
  <2>1. channel' = Append(channel, m)
    BY <1>3 DEF EndDrain, Send
  <2>2. g \in Requests /\ g.op = Query /\ g.command = 0
    BY DEF TreeRequest, Requests, Operations, RuntimeTyped
  <2>3. m \in Messages /\ m.request = g
    BY <2>2 DEF Work, Messages
  <2> HIDE DEF m, g
  <2>4. DueOnce' /\ \A d : d # 0 /\ Due(d)' => Due(d)
    BY <1>1, <2>1, <2>2, <2>3, NoticeKeeps
  <2>5. Answers' = Answers
    BY <1>1 DEF Answers
  <2> QED
    BY <1>1, <2>4, <2>5, QuietKeeps DEF CommandInv
<1> QED
  BY <1>2, <1>3

\* Stopping cancels what waited for its confirmation; nobody had been given it.
LEMMA BeginShutdownKeeps ==
  ASSUME RuntimeTyped, CommandInv, BeginShutdown
  PROVE  CommandInv'
<1>1. UNCHANGED <<nextCommand, audit, thread, current, responses, ready>>
  BY DEF BeginShutdown
<1>2. \A d \in CommandIds :
        IF pending[d].status = "AwaitingConfirmation"
          THEN pending'[d].status = "Cancelled" ELSE pending'[d] = pending[d]
  <2>1. \A d \in CommandIds : pending[d] \in Records
    BY DEF RuntimeTyped
  <2> QED
    BY <2>1 DEF BeginShutdown, Records
<1>3. DueOnce' /\ \A d : d # 0 /\ Due(d)' => Due(d)
  <2>1. CASE UNCHANGED channel
    <3>1. \A d : (Due(d)' <=> Due(d))
      BY <1>1, <2>1 DEF Due, Waits, Served, InService
    <3>2. ASSUME NEW r, Given(r) PROVE Given(r)'
      <4>1. CASE r.op = Query
        BY <3>2, <4>1 DEF Given
      <4>2. CASE r.op # Query
        BY <1>1, <1>2, <3>2, <4>2, IdsAreCommands DEF Given
      <4> QED
        BY <4>1, <4>2
    <3>3. ASSUME NEW i \in 1..Len(channel), NEW r, r = channel[i].request PROVE Given(r)'
      BY <3>2, <3>3 DEF CommandInv, DueOnce
    <3>4. ASSUME InService, NEW r, r = current.request PROVE Given(r)'
      BY <3>2, <3>4 DEF CommandInv, DueOnce
    <3> QED
      BY <1>1, <2>1, <3>1, <3>3, <3>4 DEF CommandInv, DueOnce, Waits, InService, Given
  <2>2. CASE channel' = Append(channel, Shutdown)
    <3>1. /\ Shutdown \in Messages /\ Shutdown.request.op = Query
          /\ Shutdown.request.command = 0
      BY NoRequestType DEF Shutdown, Messages, NoRequest
    <3> QED
      BY <1>1, <1>2, <2>2, <3>1, NoticeKeeps
  <2> QED
    BY <2>1, <2>2 DEF BeginShutdown, RequestStop
<1>4. \A d : Committed(d)' <=> Committed(d)
  BY <1>1 DEF Committed
<1>5. CommittedOnce'
  <2>1. ASSUME NEW i \in 1..Len(audit), NEW d, d = audit[i] PROVE ~Due(d)'
    BY <1>3, <2>1 DEF CommandInv, CommittedOnce
  <2> QED
    BY <1>1, <2>1 DEF CommandInv, CommittedOnce, Due, Waits, Served, InService
<1>6. ASSUME NEW a \in Answers PROVE Faithful(a)'
  <2>1. SUFFICES ASSUME NEW d, d = a.request.command, d # 0 PROVE Faithful(a)'
    BY DEF Faithful
  <2>2. /\ d \in 1..(nextCommand - 1) /\ ~Due(d) /\ d \in CommandIds
        /\ pending[d].status # "AwaitingConfirmation"
        /\ a.result.status = "Mutated" <=> Committed(d)
    BY <2>1, IdsAreCommands DEF CommandInv, AnswersFaithful, Faithful
  <2>3. pending'[d].status # "AwaitingConfirmation" /\ ~Due(d)'
    BY <1>2, <1>3, <2>1, <2>2
  <2> QED
    BY <1>1, <1>4, <2>1, <2>2, <2>3 DEF Faithful, Committed, Due, Waits, Served, InService
<1>7. AnswersFaithful'
  BY <1>1, <1>6 DEF AnswersFaithful, Answers
<1>8. StatusTrue' /\ LiveDiffer'
  <2>1. StatusTrue'
    BY <1>1, <1>2, <1>4 DEF CommandInv, StatusTrue
  <2>2. \A d \in CommandIds : pending'[d].status \in Live => pending'[d] = pending[d]
    BY <1>2 DEF Live
  <2> QED
    BY <2>1, <2>2 DEF CommandInv, LiveDiffer
<1> QED
  BY <1>3, <1>5, <1>7, <1>8 DEF CommandInv

\* Every step of the system.
LEMMA CommandInvStep ==
  ASSUME RuntimeTyped, CommandInv, [Next]_vars
  PROVE  CommandInv'
<1>1. CASE Frame
  BY <1>1, DrainKeeps, HandleKeeps, EndDrainKeeps DEF Frame
<1>2. CASE EndShutdown
  BY <1>2, StillKeeps DEF EndShutdown, workerVars
<1>3. CASE UNCHANGED vars
  BY <1>3, StillKeeps DEF vars, workerVars, runtimeVars
<1> QED
  BY <1>1, <1>2, <1>3, UserKeeps, BeginShutdownKeeps, WorkerKeeps DEF Next
-----------------------------------------------------------------------------
(* The state keeps its shape *)

Histories == [undo : Seq(Entries), redo : Seq(Entries)]

\* The stacks stay stacks of entries under every movement.
LEMMA StacksTyped ==
  ASSUME NEW h \in Histories
  PROVE  /\ Undone(h) \in Histories /\ Redone(h) \in Histories
         /\ \A e \in Entries : RecordSuccess(h, e) \in Histories
         /\ \A c \in Commands : ReplaceNextRedo(h, c) \in Histories
         /\ \A c \in Commands : ReplaceNextUndo(h, c) \in Histories
<1>1. h.undo \in Seq(Entries) /\ h.redo \in Seq(Entries)
  BY DEF Histories
<1>2. ASSUME NEW s \in Seq(Entries), s # <<>>
      PROVE  Top(s) \in Entries /\ Pop(s) \in Seq(Entries) /\ Len(s) \in 1..Len(s)
  <2>1. Len(s) \in 1..Len(s)
    BY <1>2
  <2> QED
    BY <2>1 DEF Top, Pop
<1>3. Undone(h) \in Histories /\ Redone(h) \in Histories
  BY <1>1, <1>2 DEF Undone, Redone, CanUndo, CanRedo, Histories
<1>4. ASSUME NEW s \in Seq(Entries) PROVE Newest(s) \in Seq(Entries)
  BY HistoryAssumption DEF Newest
<1>5. ASSUME NEW e \in Entries PROVE RecordSuccess(h, e) \in Histories
  <2>1. ASSUME NEW s \in Seq(Entries) PROVE Append(s, e) \in Seq(Entries)
    BY AppendProperties
  <2>2. Newest(Append(h.undo, e)) \in Seq(Entries)
    BY <1>1, <1>4, <2>1, Zenon
  <2> QED
    BY <1>1, <2>1, <2>2 DEF RecordSuccess, Histories
<1>6. ASSUME NEW s \in Seq(Entries), s # <<>>, NEW e \in Entries
      PROVE  [s EXCEPT ![Len(s)] = e] \in Seq(Entries)
  BY <1>2, <1>6
<1>7. ASSUME NEW c \in Commands PROVE ReplaceNextRedo(h, c) \in Histories
  <2>1. CASE CanRedo(h)
    <3> DEFINE s == h.redo
               e == [s[Len(s)] EXCEPT !.command = c]
    <3>1. s \in Seq(Entries) /\ s # <<>> /\ Len(s) \in 1..Len(s)
      BY <1>1, <1>2, <2>1 DEF CanRedo
    <3>2. e \in Entries
      <4>1. PICK t \in Entries : t = s[Len(s)]
        BY <3>1
      <4> QED
        BY <4>1 DEF Entries
    <3>3. ReplaceNextRedo(h, c) = [h EXCEPT !.redo = [s EXCEPT ![Len(s)] = e]]
      BY <2>1 DEF ReplaceNextRedo, Histories
    <3> HIDE DEF e
    <3>4. [s EXCEPT ![Len(s)] = e] \in Seq(Entries)
      BY <1>6, <3>1, <3>2
    <3> QED
      BY <1>1, <3>3, <3>4 DEF Histories
  <2> QED
    BY <2>1 DEF ReplaceNextRedo
<1>8. ASSUME NEW c \in Commands PROVE ReplaceNextUndo(h, c) \in Histories
  <2>1. CASE CanUndo(h)
    <3> DEFINE s == h.undo
               e == [s[Len(s)] EXCEPT !.inverse = c]
    <3>1. s \in Seq(Entries) /\ s # <<>> /\ Len(s) \in 1..Len(s)
      BY <1>1, <1>2, <2>1 DEF CanUndo
    <3>2. e \in Entries
      <4>1. PICK t \in Entries : t = s[Len(s)]
        BY <3>1
      <4> QED
        BY <4>1 DEF Entries
    <3>3. ReplaceNextUndo(h, c) = [h EXCEPT !.undo = [s EXCEPT ![Len(s)] = e]]
      BY <2>1 DEF ReplaceNextUndo, Histories
    <3> HIDE DEF e
    <3>4. [s EXCEPT ![Len(s)] = e] \in Seq(Entries)
      BY <1>6, <3>1, <3>2
    <3> QED
      BY <1>1, <3>3, <3>4 DEF Histories
  <2> QED
    BY <2>1 DEF ReplaceNextUndo
<1> QED
  BY <1>3, <1>5, <1>7, <1>8

\* What a committed command leaves on the stacks.
LEMMA HistoryAfterTyped ==
  ASSUME RuntimeTyped, NEW c \in CommandIds, NEW u \in Saves \union {NoUndo}
  PROVE  HistoryAfter(c, u) \in Histories
<1>1. history \in Histories
  BY DEF RuntimeTyped, Histories
<1>2. u.kind = "Save" => u \in Commands
  BY DEF NoUndo, Commands
<1>3. u.kind = "Save" => Entry(c, pending[c].op, u) \in Entries
  BY <1>2 DEF Entry, Entries, RuntimeTyped, CommandIds
<1>4. Undone(history) \in Histories /\ Redone(history) \in Histories
  BY <1>1, StacksTyped
<1>5. CASE u.kind = "Save"
  <2>1. RecordSuccess(history, Entry(c, pending[c].op, u)) \in Histories
    BY <1>1, <1>3, <1>5, StacksTyped
  <2>2. /\ ReplaceNextRedo(Undone(history), u) \in Histories
        /\ ReplaceNextUndo(Redone(history), u) \in Histories
    BY <1>2, <1>4, <1>5, StacksTyped
  <2> QED
    BY <1>5, <2>1, <2>2 DEF HistoryAfter
<1>6. CASE u.kind # "Save"
  BY <1>1, <1>4, <1>6 DEF HistoryAfter
<1> QED
  BY <1>5, <1>6

\* The initial state.
LEMMA RuntimeTypedInit == Init => RuntimeTyped
<1> SUFFICES ASSUME Init PROVE RuntimeTyped
  OBVIOUS
<1>1. WorkerTypeOK
  <2>1. TreeRequest(1, 0) \in Requests
    BY DEF TreeRequest, Requests, Operations
  <2>2. channel \in Seq(Messages)
    BY <2>1 DEF Init, Work, Messages
  <2>3. current \in [tag : {"Completed"}, request : Requests, result : Results]
    BY NoRequestType DEF Init, WorkerStarted, Idle, Completed
  <2>4. responses \in Seq(Responses) /\ audit \in Seq(Nat)
    BY DEF Init, WorkerStarted
  <2>5. database \in [Entities -> Values]
    BY WorkerAssumption DEF Init, WorkerStarted
  <2> QED
    BY <2>2, <2>3, <2>4, <2>5 DEF Init, WorkerStarted, WorkerTypeOK
<1>2. NoRecord \in Records /\ NoRecord.op \in Commands
  BY DEF NoRecord, Records, Operations, Commands
<1>3. nextCommand \in 1..(MaxCommands + 1)
  BY RuntimeAssumption DEF Init
<1>4. pending \in [CommandIds -> Records] /\ \A c \in CommandIds : pending[c].op \in Commands
  BY <1>2 DEF Init
<1>5. history \in [undo : Seq(Entries), redo : Seq(Entries)] /\ ready \in Seq(Responses)
  BY DEF Init, EmptyHistory
<1> QED
  BY <1>1, <1>3, <1>4, <1>5 DEF RuntimeTyped, Init

\* The steps of the user.
LEMMA UserTyped ==
  ASSUME RuntimeTyped, User
  PROVE  RuntimeTyped'
<1> USE DEF RuntimeTyped
<1>1. ASSUME NEW op \in Commands, UserDispatches, Dispatch(op), UNCHANGED untouchedByUser
      PROVE  RuntimeTyped'
  <2>1. nextCommand <= MaxCommands /\ nextCommand \in Nat
    BY <1>1 DEF UserDispatches
  <2>2. /\ nextRequest' \in Nat /\ terminalSequence' \in Nat
        /\ \/ UNCHANGED <<nextCommand, pending, channel>>
           \/ /\ nextCommand \in CommandIds /\ nextCommand' = nextCommand + 1
              /\ Parked(nextCommand, op) \/ Started(nextCommand, op)
    BY <1>1, <2>1, DispatchDoes
  <2>3. /\ pending' \in [CommandIds -> Records]
        /\ \A d \in CommandIds : pending'[d].op \in Commands
        /\ channel' \in Seq(Messages) /\ nextCommand' \in 1..(MaxCommands + 1)
    <3>1. CASE UNCHANGED <<nextCommand, pending, channel>>
      BY <3>1 DEF WorkerTypeOK
    <3>2. CASE /\ nextCommand \in CommandIds /\ nextCommand' = nextCommand + 1
               /\ Parked(nextCommand, op) \/ Started(nextCommand, op)
      <4>1. nextCommand' \in 1..(MaxCommands + 1)
        BY <2>1, <3>2, RuntimeAssumption
      <4> QED
        BY <3>2, <4>1, FiledTyped
    <3> QED
      BY <2>2, <3>1, <3>2
  <2> QED
    BY <1>1, <2>2, <2>3 DEF untouchedByUser, WorkerTypeOK
<1>2. CASE \E op \in Commands : Perform(op) \/ CommitEditor(op)
  BY <1>1, <1>2 DEF Perform, CommitEditor
<1>3. CASE Undo \/ Redo
  <2>1. \A op : op = NextUndo(history) /\ CanUndo(history) => op \in Commands
    BY StackOffers
  <2>2. \A op : op = NextRedo(history) /\ CanRedo(history) => op \in Commands
    BY StackOffers
  <2> QED
    BY <1>1, <1>3, <2>1, <2>2 DEF Undo, Redo, PerformHistory
<1>4. ASSUME NEW c \in CommandIds, Confirm(c) PROVE RuntimeTyped'
  <2>1. \A r : r = pending[c] => SubmitCommand(c, r)
    BY <1>4 DEF Confirm
  <2>2. PICK r : r = pending[c]
    OBVIOUS
  <2>3. /\ Parked(c, r.op) \/ Started(c, r.op)
        /\ nextRequest' \in Nat /\ terminalSequence' \in Nat /\ r.op \in Commands
    BY <2>1, <2>2, SubmitDoes
  <2>4. /\ pending' \in [CommandIds -> Records]
        /\ \A d \in CommandIds : pending'[d].op \in Commands
        /\ channel' \in Seq(Messages)
    BY <2>3, FiledTyped
  <2> QED
    BY <1>4, <2>3, <2>4 DEF Confirm, untouchedByUser, WorkerTypeOK
<1>5. ASSUME NEW c \in CommandIds, Cancel(c) PROVE RuntimeTyped'
  <2>1. /\ pending' \in [CommandIds -> Records]
        /\ \A d \in CommandIds : pending'[d].op \in Commands
    BY <1>5 DEF Cancel, Records, Terminal
  <2> QED
    BY <1>5, <2>1 DEF Cancel, untouchedByUser, WorkerTypeOK
<1>6. CASE OpenEditor \/ CloseEditor \/ RejectDraft \/ \E a \in Accounts : ClickAccount(a)
  BY <1>6 DEF OpenEditor, CloseEditor, RejectDraft, ClickAccount, untouchedByUser, WorkerTypeOK
<1> QED
  BY <1>2, <1>3, <1>4, <1>5, <1>6 DEF User

\* The steps of the frame loop.
LEMMA FrameTyped ==
  ASSUME RuntimeTyped, CommandInv, Frame
  PROVE  RuntimeTyped'
<1>1. CASE BeginDrain
  BY <1>1 DEF BeginDrain, frameUntouched, RuntimeTyped, WorkerTypeOK
<1>2. CASE HandleCommandResponse
  <2>1. PICK p, c :
          /\ p = Head(ready) /\ c = p.request.command /\ c \in CommandIds
          /\ p \in Responses /\ p.tag = "Completed"
          /\ pending' \in [CommandIds -> Records]
          /\ \A d \in CommandIds : pending'[d].op \in Commands
    BY <1>2, HandleDoes
  <2>2. PICK u : u = p.result.undo
    OBVIOUS
  <2>3. u \in Saves \union {NoUndo}
    BY <2>1, <2>2 DEF Responses, Terminated, Results
  <2>4. history' = HistoryAfter(c, u) \/ history' = history
    BY <1>2, <2>1, <2>2 DEF HandleCommandResponse
  <2>5. history' \in Histories
    BY <2>1, <2>3, <2>4, HistoryAfterTyped DEF RuntimeTyped, Histories
  <2>6. ready' \in Seq(Responses) /\ terminalSequence' \in Nat
    BY <1>2 DEF HandleCommandResponse, RuntimeTyped
  <2> QED
    BY <1>2, <2>1, <2>5, <2>6
       DEF HandleCommandResponse, frameUntouched, RuntimeTyped, WorkerTypeOK, Histories
<1>3. CASE DiscardResponse
  BY <1>3 DEF DiscardResponse, frameUntouched, RuntimeTyped, WorkerTypeOK
<1>4. CASE HandleTree
  <2>1. generation' \in Nat /\ ready' \in Seq(Responses)
    BY <1>4 DEF HandleTree, RuntimeTyped
  <2> QED
    BY <1>4, <2>1 DEF HandleTree, frameUntouched, RuntimeTyped, WorkerTypeOK
<1>5. CASE EndDrain
  <2>1. TreeRequest(nextRequest, generation) \in Requests
    BY DEF TreeRequest, Requests, Operations, RuntimeTyped
  <2>2. Work(TreeRequest(nextRequest, generation)) \in Messages
    BY <2>1 DEF Work, Messages
  <2>3. \/ UNCHANGED channel
        \/ channel' = Append(channel, Work(TreeRequest(nextRequest, generation)))
    BY <1>5 DEF EndDrain, Send
  <2>4. channel' \in Seq(Messages) /\ nextRequest' \in Nat
    <3>1. channel \in Seq(Messages) /\ nextRequest \in Nat
      BY DEF RuntimeTyped, WorkerTypeOK
    <3> QED
      BY <1>5, <2>2, <2>3, <3>1 DEF EndDrain
  <2> QED
    BY <1>5, <2>4 DEF EndDrain, frameUntouched, RuntimeTyped, WorkerTypeOK
<1> QED
  BY <1>1, <1>2, <1>3, <1>4, <1>5 DEF Frame

\* Every step of the system.
LEMMA RuntimeTypedStep ==
  ASSUME RuntimeTyped, CommandInv, [Next]_vars
  PROVE  RuntimeTyped'
<1>1. CASE ThreadStep
  BY <1>1, WorkerStepTyped DEF ThreadStep, runtimeVars, RuntimeTyped
<1>2. CASE BeginShutdown
  <2>1. channel' \in Seq(Messages) /\ stopping' \in BOOLEAN
    <3>1. Shutdown \in Messages
      BY NoRequestType DEF Shutdown, Messages
    <3> QED
      BY <1>2, <3>1 DEF BeginShutdown, RequestStop, RuntimeTyped, WorkerTypeOK
  <2>2. /\ pending' \in [CommandIds -> Records]
        /\ \A d \in CommandIds : pending'[d].op \in Commands
    BY <1>2 DEF BeginShutdown, RuntimeTyped, Records, Terminal
  <2>3. history' \in [undo : Seq(Entries), redo : Seq(Entries)]
    BY <1>2 DEF BeginShutdown, EmptyHistory
  <2> QED
    BY <1>2, <2>1, <2>2, <2>3 DEF BeginShutdown, RuntimeTyped, WorkerTypeOK
<1>3. CASE EndShutdown
  BY <1>3 DEF EndShutdown, workerVars, RuntimeTyped, WorkerTypeOK
<1>4. CASE UNCHANGED vars
  BY <1>4 DEF vars, workerVars, runtimeVars, RuntimeTyped, WorkerTypeOK
<1> QED
  BY <1>1, <1>2, <1>3, <1>4, UserTyped, FrameTyped DEF Next
\* Initially nothing is due but the account tree, and nothing has been said.
LEMMA CommandInvInit == Init => CommandInv
<1> SUFFICES ASSUME Init PROVE CommandInv
  OBVIOUS
<1>1. /\ Len(channel) = 1 /\ channel[1].request = TreeRequest(1, 0)
      /\ audit = <<>> /\ ready = <<>> /\ responses = <<>> /\ thread = "Receiving"
  BY DEF Init, WorkerStarted, Work
<1>2. Given(TreeRequest(1, 0)) /\ \A i \in 1..Len(channel) : i = 1
  BY <1>1 DEF Given, TreeRequest
<1>3. DueOnce
  BY <1>1, <1>2 DEF DueOnce, InService
<1>4. CommittedOnce /\ AnswersFaithful
  BY <1>1 DEF CommittedOnce, AnswersFaithful, Answers, Elements
<1>5. \A c \in CommandIds : pending[c].status = "Absent"
  BY DEF Init, NoRecord
<1>6. StatusTrue /\ LiveDiffer
  BY <1>5 DEF StatusTrue, LiveDiffer, Live
<1> QED
  BY <1>3, <1>4, <1>6 DEF CommandInv

-----------------------------------------------------------------------------
(* The theorems *)

\* In every reachable state the runtime's state has its shape, and every command
\* is due in one place at most and has one fate.
THEOREM OneFatePerCommand == Spec => [](RuntimeTyped /\ CommandInv)
<1>1. Init => RuntimeTyped /\ CommandInv
  BY RuntimeTypedInit, CommandInvInit
<1>2. RuntimeTyped /\ CommandInv /\ [Next]_vars => (RuntimeTyped /\ CommandInv)'
  BY RuntimeTypedStep, CommandInvStep
<1> QED
  BY <1>1, <1>2, PTL DEF Spec

\* The status shown for a command (handle_command_response, cancel_command,
\* shutdown) is what happened to the ledger.
THEOREM StatusIsTheLedgers == Spec => []StatusMatchesLedger
<1>1. CommandInv => StatusMatchesLedger
  BY DEF CommandInv, StatusTrue, StatusMatchesLedger
<1> QED
  BY <1>1, OneFatePerCommand, PTL

\* However often an action is repeated, confirmed, undone or redone, its command is
\* submitted once and executed at most once (dispatch, submit_runtime_command).
THEOREM CommandsRunOnce == Spec => []RunsOnce
<1>1. RuntimeTyped /\ CommandInv => RunsOnce
  <2> SUFFICES ASSUME RuntimeTyped, CommandInv PROVE RunsOnce
    OBVIOUS
  <2>1. \A i, j \in 1..Len(audit) : audit[i] = audit[j] => i = j
    BY DEF CommandInv, CommittedOnce
  <2>2. ASSUME NEW r \in Outstanding PROVE Given(r)
    BY DEF Outstanding, CommandInv, DueOnce, InService
  <2>3. ASSUME NEW r \in Outstanding, NEW s \in Outstanding,
               r.command # 0, s.command # 0, r.op = s.op
        PROVE  r.command = s.command
    <3>1. /\ r.command \in CommandIds /\ s.command \in CommandIds
          /\ pending[r.command].status = "Running" /\ pending[r.command].op = r.op
          /\ pending[s.command].status = "Running" /\ pending[s.command].op = s.op
      BY <2>2, <2>3, IdsAreCommands DEF Given
    <3> QED
      BY <2>3, <3>1 DEF CommandInv, LiveDiffer, Live
  <2> QED
    BY <2>1, <2>3 DEF RunsOnce
<1> QED
  BY <1>1, OneFatePerCommand, PTL

\* A submitting editor closes by itself only when its own command has committed
\* (handle_editor_success).
THEOREM EditorsCloseOnSuccess == Spec => EditorClosesAfterCommit
<1>1. ASSUME RuntimeTyped, CommandInv, [Next]_vars,
             editor.state = "Submitting", editor' = NoEditor
      PROVE  Committed(editor.command)
  <2>1. editor' # editor
    BY <1>1 DEF NoEditor
  <2>2. HandleCommandResponse
    BY <1>1, <2>1
       DEF Next, User, Frame, ThreadStep, vars, runtimeVars, untouchedByUser,
           Perform, Undo, Redo, PerformHistory, Confirm, Cancel, OpenEditor, CloseEditor,
           CommitEditor, RejectDraft, ClickAccount, BeginDrain, DiscardResponse, HandleTree,
           EndDrain, BeginShutdown, EndShutdown, NoEditor, FreshEditor, FailedEditor
  <2>3. PICK p, c : /\ p = Head(ready) /\ c = p.request.command
                    /\ p.result.status = "Mutated" <=> Committed(c)
    BY <1>1, <2>2, HandleDoes
  <2>4. editor' = EditorAfter(c, FinalStatus(p.result))
    BY <2>2, <2>3 DEF HandleCommandResponse
  <2>5. editor.command = c /\ FinalStatus(p.result) = "Committed"
    BY <1>1, <2>1, <2>4 DEF EditorAfter, NoEditor, FailedEditor
  <2>6. p.result.status = "Mutated"
    BY <2>5 DEF FinalStatus
  <2> QED
    BY <2>3, <2>5, <2>6
<1>2. RuntimeTyped /\ CommandInv /\ [Next]_vars
      => [editor.state = "Submitting" /\ editor' = NoEditor => Committed(editor.command)]_vars
  BY <1>1
<1> QED
  BY <1>2, OneFatePerCommand, PTL DEF Spec, EditorClosesAfterCommit
-----------------------------------------------------------------------------
(* The order of the undo and redo stacks                                   *)
(*                                                                         *)
(* Answers travel in the order of the commits, from the reply through the  *)
(* response channel and the collected queue to the stacks, and the stacks  *)
(* keep it: what is on them committed before what is still to be handled.  *)

\* The transaction of a, if there is one, is older than the one of b.
Before(a, b) ==
  \A i, j \in 1..Len(audit) : audit[i] = a /\ audit[j] = b => i < j

LabelsOf(s) == {s[i].label : i \in 1..Len(s)}
Labels(h) == LabelsOf(h.undo) \union LabelsOf(h.redo)

\* Read from the bottom of the undo stack up and on down the redo stack.
InOrder(h) ==
  /\ \A i, j \in 1..Len(h.undo) : i < j => Before(h.undo[i].label, h.undo[j].label)
  /\ \A i, j \in 1..Len(h.redo) : i < j => Before(h.redo[j].label, h.redo[i].label)
  /\ \A i \in 1..Len(h.undo), j \in 1..Len(h.redo) : Before(h.undo[i].label, h.redo[j].label)

\* The answers of a queue, and of two queues one after the other.
Queued(s) ==
  \A i, j \in 1..Len(s) : i < j => Before(s[i].request.command, s[j].request.command)
Follows(S, T) ==
  \A p \in S, q \in T : Before(p.request.command, q.request.command)

Replying == IF thread = "Replying" THEN {current} ELSE {}

OrderInv ==
  /\ \A l \in Labels(history) : Committed(l)
  /\ InOrder(history)
  /\ \A l \in Labels(history), p \in Answers : Before(l, p.request.command)
  /\ Queued(ready) /\ Queued(responses)
  /\ Follows(Elements(ready), Elements(responses))
  /\ Follows(Elements(ready) \union Elements(responses), Replying)

\* Undoing, redoing and rebinding move labels from stack to stack in order.
LEMMA MovesKeepOrder ==
  ASSUME NEW h \in Histories, InOrder(h)
  PROVE  /\ InOrder(Undone(h)) /\ Labels(Undone(h)) \subseteq Labels(h)
         /\ InOrder(Redone(h)) /\ Labels(Redone(h)) \subseteq Labels(h)
<1>1. h.undo \in Seq(Entries) /\ h.redo \in Seq(Entries)
  BY DEF Histories
<1>2. ASSUME NEW s \in Seq(Entries), s # <<>>
      PROVE  /\ Len(s) \in 1..Len(s) /\ Top(s) = s[Len(s)] /\ Top(s) \in Entries
             /\ Len(Pop(s)) = Len(s) - 1
             /\ \A i \in 1..(Len(s) - 1) : i \in 1..Len(s) /\ i < Len(s) /\ Pop(s)[i] = s[i]
  <2>1. Len(s) \in 1..Len(s) /\ Top(s) = s[Len(s)] /\ Top(s) \in Entries
    <3>1. Len(s) \in 1..Len(s)
      BY <1>2
    <3> QED
      BY <3>1 DEF Top
  <2>2. Len(Pop(s)) = Len(s) - 1 /\ \A i \in 1..(Len(s) - 1) : Pop(s)[i] = s[i]
    <3>1. PICK n \in Nat : n = Len(s) - 1
      BY <2>1
    <3>2. /\ SubSeq(s, 1, n) \in Seq(Entries)
          /\ Len(SubSeq(s, 1, n)) = n
          /\ \A i \in 1..n : SubSeq(s, 1, n)[i] = s[i]
      BY <2>1, <3>1
    <3> QED
      BY <3>1, <3>2 DEF Pop
  <2> QED
    BY <2>1, <2>2
<1>3. ASSUME NEW s \in Seq(Entries), NEW e \in Entries
      PROVE  /\ Len(Append(s, e)) = Len(s) + 1
             /\ \A i \in 1..(Len(s) + 1) :
                  IF i = Len(s) + 1 THEN Append(s, e)[i] = e
                  ELSE i \in 1..Len(s) /\ Append(s, e)[i] = s[i]
  OBVIOUS
<1>4. ASSUME h.undo # <<>>
      PROVE  InOrder(Undone(h)) /\ Labels(Undone(h)) \subseteq Labels(h)
  <2>1. PICK u, t : u = Pop(h.undo) /\ t = Top(h.undo)
    OBVIOUS
  <2>2. PICK r : r = Append(h.redo, t)
    OBVIOUS
  <2>3. Undone(h) = [undo |-> u, redo |-> r]
    BY <1>4, <2>1, <2>2 DEF Undone, CanUndo
  <2>4. /\ Len(h.undo) \in 1..Len(h.undo) /\ t = h.undo[Len(h.undo)] /\ t \in Entries
        /\ Len(u) = Len(h.undo) - 1
        /\ \A i \in 1..Len(u) : i \in 1..Len(h.undo) /\ i < Len(h.undo) /\ u[i] = h.undo[i]
    BY <1>1, <1>2, <1>4, <2>1
  <2>5. /\ Len(r) = Len(h.redo) + 1
        /\ \A i \in 1..Len(r) :
             IF i = Len(h.redo) + 1 THEN r[i] = t
             ELSE i \in 1..Len(h.redo) /\ r[i] = h.redo[i]
    BY <1>1, <1>3, <2>2, <2>4
  <2>6. \A i, j \in 1..Len(u) : i < j => Before(u[i].label, u[j].label)
    BY <2>4 DEF InOrder
  <2>7. ASSUME NEW i \in 1..Len(r), NEW j \in 1..Len(r), i < j
        PROVE  Before(r[j].label, r[i].label)
    <3>1. i \in 1..Len(h.redo) /\ r[i] = h.redo[i]
      BY <1>1, <2>5, <2>7
    <3> QED
      BY <2>4, <2>5, <2>7, <3>1 DEF InOrder
  <2>8. \A i \in 1..Len(u), j \in 1..Len(r) : Before(u[i].label, r[j].label)
    BY <2>4, <2>5 DEF InOrder
  <2>9. InOrder(Undone(h))
    BY <2>3, <2>6, <2>7, <2>8 DEF InOrder
  <2>10. LabelsOf(u) \subseteq Labels(h) /\ LabelsOf(r) \subseteq Labels(h)
    <3>1. \A i \in 1..Len(u) : u[i].label \in Labels(h)
      BY <2>4 DEF Labels, LabelsOf
    <3>2. \A i \in 1..Len(r) : r[i].label \in Labels(h)
      BY <2>4, <2>5 DEF Labels, LabelsOf
    <3> QED
      BY <3>1, <3>2 DEF LabelsOf
  <2>11. Labels(Undone(h)) \subseteq Labels(h)
    BY <2>3, <2>10 DEF Labels
  <2> QED
    BY <2>9, <2>11
<1>5. ASSUME h.redo # <<>>
      PROVE  InOrder(Redone(h)) /\ Labels(Redone(h)) \subseteq Labels(h)
  <2>1. PICK u, t : u = Pop(h.redo) /\ t = Top(h.redo)
    OBVIOUS
  <2>2. PICK r : r = Append(h.undo, t)
    OBVIOUS
  <2>3. Redone(h) = [undo |-> r, redo |-> u]
    BY <1>5, <2>1, <2>2 DEF Redone, CanRedo
  <2>4. /\ Len(h.redo) \in 1..Len(h.redo) /\ t = h.redo[Len(h.redo)] /\ t \in Entries
        /\ Len(u) = Len(h.redo) - 1
        /\ \A i \in 1..Len(u) : i \in 1..Len(h.redo) /\ i < Len(h.redo) /\ u[i] = h.redo[i]
    BY <1>1, <1>2, <1>5, <2>1
  <2>5. /\ Len(r) = Len(h.undo) + 1
        /\ \A i \in 1..Len(r) :
             IF i = Len(h.undo) + 1 THEN r[i] = t
             ELSE i \in 1..Len(h.undo) /\ r[i] = h.undo[i]
    BY <1>1, <1>3, <2>2, <2>4
  <2>6. \A i, j \in 1..Len(u) : i < j => Before(u[j].label, u[i].label)
    BY <2>4 DEF InOrder
  <2>7. ASSUME NEW i \in 1..Len(r), NEW j \in 1..Len(r), i < j
        PROVE  Before(r[i].label, r[j].label)
    <3>1. i \in 1..Len(h.undo) /\ r[i] = h.undo[i]
      BY <1>1, <2>5, <2>7
    <3> QED
      BY <2>4, <2>5, <2>7, <3>1 DEF InOrder
  <2>8. \A i \in 1..Len(r), j \in 1..Len(u) : Before(r[i].label, u[j].label)
    BY <2>4, <2>5 DEF InOrder
  <2>9. InOrder(Redone(h))
    BY <2>3, <2>6, <2>7, <2>8 DEF InOrder
  <2>10. LabelsOf(u) \subseteq Labels(h) /\ LabelsOf(r) \subseteq Labels(h)
    <3>1. \A i \in 1..Len(u) : u[i].label \in Labels(h)
      BY <2>4 DEF Labels, LabelsOf
    <3>2. \A i \in 1..Len(r) : r[i].label \in Labels(h)
      BY <2>4, <2>5 DEF Labels, LabelsOf
    <3> QED
      BY <3>1, <3>2 DEF LabelsOf
  <2>11. Labels(Redone(h)) \subseteq Labels(h)
    BY <2>3, <2>10 DEF Labels
  <2> QED
    BY <2>9, <2>11
<1> QED
  BY <1>4, <1>5 DEF Undone, Redone, CanUndo, CanRedo

\* Rebinding the top entry leaves every label where it is.
LEMMA RebindKeepsOrder ==
  ASSUME NEW h \in Histories, InOrder(h), NEW c
  PROVE  /\ InOrder(ReplaceNextRedo(h, c)) /\ Labels(ReplaceNextRedo(h, c)) \subseteq Labels(h)
         /\ InOrder(ReplaceNextUndo(h, c)) /\ Labels(ReplaceNextUndo(h, c)) \subseteq Labels(h)
<1>1. ASSUME NEW g, Len(g.undo) = Len(h.undo), Len(g.redo) = Len(h.redo),
             \A i \in 1..Len(h.undo) : g.undo[i].label = h.undo[i].label,
             \A i \in 1..Len(h.redo) : g.redo[i].label = h.redo[i].label
      PROVE  InOrder(g) /\ Labels(g) \subseteq Labels(h)
  <2>1. InOrder(g)
    BY <1>1 DEF InOrder
  <2>2. LabelsOf(g.undo) = LabelsOf(h.undo) /\ LabelsOf(g.redo) = LabelsOf(h.redo)
    BY <1>1 DEF LabelsOf
  <2> QED
    BY <2>1, <2>2 DEF Labels
<1>2. h.undo \in Seq(Entries) /\ h.redo \in Seq(Entries)
  BY DEF Histories
<1>3. ASSUME NEW s \in Seq(Entries), NEW t, t = [s EXCEPT ![Len(s)].command = c]
      PROVE  Len(t) = Len(s) /\ \A i \in 1..Len(s) : t[i].label = s[i].label
  BY <1>3 DEF Entries
<1>4. ASSUME NEW s \in Seq(Entries), NEW t, t = [s EXCEPT ![Len(s)].inverse = c]
      PROVE  Len(t) = Len(s) /\ \A i \in 1..Len(s) : t[i].label = s[i].label
  BY <1>4 DEF Entries
<1>5. InOrder(ReplaceNextRedo(h, c)) /\ Labels(ReplaceNextRedo(h, c)) \subseteq Labels(h)
  <2>1. PICK g, t : g = ReplaceNextRedo(h, c) /\ t = [h.redo EXCEPT ![Len(h.redo)].command = c]
    OBVIOUS
  <2>2. g = h \/ (g.undo = h.undo /\ g.redo = t)
    BY <2>1, <1>2 DEF ReplaceNextRedo, CanUndo, CanRedo, Histories
  <2>3. Len(t) = Len(h.redo) /\ \A i \in 1..Len(h.redo) : t[i].label = h.redo[i].label
    BY <1>2, <1>3, <2>1
  <2> QED
    BY <1>1, <2>1, <2>2, <2>3
<1>6. InOrder(ReplaceNextUndo(h, c)) /\ Labels(ReplaceNextUndo(h, c)) \subseteq Labels(h)
  <2>1. PICK g, t : g = ReplaceNextUndo(h, c) /\ t = [h.undo EXCEPT ![Len(h.undo)].inverse = c]
    OBVIOUS
  <2>2. g = h \/ (g.redo = h.redo /\ g.undo = t)
    BY <2>1, <1>2 DEF ReplaceNextUndo, CanUndo, CanRedo, Histories
  <2>3. Len(t) = Len(h.undo) /\ \A i \in 1..Len(h.undo) : t[i].label = h.undo[i].label
    BY <1>2, <1>4, <2>1
  <2> QED
    BY <1>1, <2>1, <2>2, <2>3
<1> QED
  BY <1>5, <1>6

\* Recording puts the newest transaction on top, and forgets what could be redone.
LEMMA RecordKeepsOrder ==
  ASSUME NEW h \in Histories, InOrder(h), NEW e \in Entries,
         \A l \in Labels(h) : Before(l, e.label)
  PROVE  /\ InOrder(RecordSuccess(h, e))
         /\ Labels(RecordSuccess(h, e)) \subseteq Labels(h) \union {e.label}
<1>1. h.undo \in Seq(Entries)
  BY DEF Histories
<1>2. PICK s \in Seq(Entries) : s = Append(h.undo, e)
  <2>1. Append(h.undo, e) \in Seq(Entries)
    BY <1>1, AppendProperties
  <2> QED
    BY <2>1
<1>3. /\ Len(s) = Len(h.undo) + 1 /\ Len(h.undo) \in Nat
      /\ \A i \in 1..Len(s) :
           IF i = Len(h.undo) + 1 THEN s[i] = e
           ELSE i \in 1..Len(h.undo) /\ s[i] = h.undo[i]
  BY <1>1, <1>2
<1>4. ASSUME NEW i \in 1..Len(s), NEW j \in 1..Len(s), i < j
      PROVE  Before(s[i].label, s[j].label)
  <2>1. i \in 1..Len(h.undo) /\ s[i] = h.undo[i] /\ s[i].label \in Labels(h)
    BY <1>3, <1>4 DEF Labels, LabelsOf
  <2> QED
    BY <1>3, <1>4, <2>1 DEF InOrder
<1>5. PICK n : n = Newest(s)
  OBVIOUS
<1>6. PICK k \in Nat : /\ Len(n) + k = Len(s) /\ Len(n) \in Nat
                       /\ \A i \in 1..Len(n) : i + k \in 1..Len(s) /\ n[i] = s[i + k]
  <2>1. CASE Len(s) > HistoryCapacity
    <3> DEFINE k == Len(s) - HistoryCapacity
    <3>1. k \in Nat /\ k + 1 \in 1..(Len(s) + 1) /\ n = SubSeq(s, k + 1, Len(s))
      BY <1>5, <2>1, HistoryAssumption DEF Newest
    <3>2. /\ Len(n) = Len(s) - k
          /\ \A i \in 1..(Len(s) - k) : i + k \in 1..Len(s) /\ n[i] = s[i + k]
      BY <3>1
    <3>3. Len(n) \in Nat /\ Len(n) + k = Len(s)
      BY <3>1, <3>2
    <3> HIDE DEF k
    <3> QED
      BY <3>1, <3>2, <3>3
  <2>2. CASE ~(Len(s) > HistoryCapacity)
    BY <1>5, <2>2 DEF Newest
  <2> QED
    BY <2>1, <2>2
<1>7. CASE HistoryCapacity # 0
  <2>1. RecordSuccess(h, e) = [undo |-> n, redo |-> <<>>]
    BY <1>2, <1>5, <1>7 DEF RecordSuccess
  <2>2. ASSUME NEW i \in 1..Len(n), NEW j \in 1..Len(n), i < j
        PROVE  Before(n[i].label, n[j].label)
    BY <1>4, <1>6, <2>2
  <2>3. InOrder(RecordSuccess(h, e))
    BY <2>1, <2>2 DEF InOrder
  <2>4. \A i \in 1..Len(n) : n[i].label \in Labels(h) \union {e.label}
    BY <1>3, <1>6 DEF Labels, LabelsOf
  <2>5. Labels(RecordSuccess(h, e)) \subseteq Labels(h) \union {e.label}
    <3>1. LabelsOf(n) \subseteq Labels(h) \union {e.label} /\ LabelsOf(<<>>) = {}
      BY <2>4 DEF LabelsOf
    <3> QED
      BY <2>1, <3>1 DEF Labels
  <2> QED
    BY <2>3, <2>5
<1>8. CASE HistoryCapacity = 0
  BY <1>8 DEF RecordSuccess
<1> QED
  BY <1>7, <1>8
\* What a committed command leaves on the stacks is in order.
LEMMA HistoryAfterInOrder ==
  ASSUME RuntimeTyped, InOrder(history), NEW c \in CommandIds,
         NEW u \in Saves \union {NoUndo}, \A l \in Labels(history) : Before(l, c)
  PROVE  /\ InOrder(HistoryAfter(c, u))
         /\ Labels(HistoryAfter(c, u)) \subseteq Labels(history) \union {c}
<1>1. PICK h \in Histories : h = history
  BY DEF RuntimeTyped, Histories
<1>2. PICK e : e = Entry(c, pending[c].op, u)
  OBVIOUS
<1>3. CASE u.kind = "Save"
  <2>1. e \in Entries /\ e.label = c
    BY <1>2, <1>3 DEF Entry, Entries, RuntimeTyped, CommandIds, NoUndo, Commands
  <2>2. /\ InOrder(RecordSuccess(h, e))
        /\ Labels(RecordSuccess(h, e)) \subseteq Labels(h) \union {c}
    BY <1>1, <2>1, RecordKeepsOrder
  <2>3. PICK a, b : a = Undone(h) /\ b = Redone(h)
    OBVIOUS
  <2>4. /\ a \in Histories /\ InOrder(a) /\ Labels(a) \subseteq Labels(h)
        /\ b \in Histories /\ InOrder(b) /\ Labels(b) \subseteq Labels(h)
    BY <1>1, <2>3, MovesKeepOrder, StacksTyped
  <2>5. /\ InOrder(ReplaceNextRedo(a, u)) /\ Labels(ReplaceNextRedo(a, u)) \subseteq Labels(h)
        /\ InOrder(ReplaceNextUndo(b, u)) /\ Labels(ReplaceNextUndo(b, u)) \subseteq Labels(h)
    BY <2>4, RebindKeepsOrder
  <2> QED
    BY <1>1, <1>2, <1>3, <2>2, <2>3, <2>5 DEF HistoryAfter
<1>4. CASE u.kind # "Save"
  <2>1. /\ InOrder(Undone(h)) /\ Labels(Undone(h)) \subseteq Labels(h)
        /\ InOrder(Redone(h)) /\ Labels(Redone(h)) \subseteq Labels(h)
    BY <1>1, MovesKeepOrder
  <2> QED
    BY <1>1, <1>4, <2>1 DEF HistoryAfter
<1> QED
  BY <1>3, <1>4

\* Steps that hand over no answer, and begin none that committed.
LEMMA OrderStill ==
  ASSUME OrderInv, UNCHANGED <<history, ready, responses, audit>>,
         thread' = "Replying" =>
           UNCHANGED <<thread, current>> \/ ~Committed(current'.request.command)
  PROVE  OrderInv'
<1>1. \A a, b : Before(a, b)' <=> Before(a, b)
  BY DEF Before
<1>2. \A a, b : ~Committed(b) => Before(a, b)
  BY DEF Before, Committed
<1>3. \A p \in Replying' : p \in Replying \/ ~Committed(p.request.command)
  BY DEF Replying
<1>4. \A p \in Answers' : p \in Answers \/ ~Committed(p.request.command)
  BY <1>3 DEF Answers, Replying
<1>5. (\A l \in Labels(history) : Committed(l))' /\ InOrder(history)'
  BY DEF OrderInv, Committed, InOrder, Before, Labels, LabelsOf
<1>6. (\A l \in Labels(history), p \in Answers : Before(l, p.request.command))'
  BY <1>1, <1>2, <1>4 DEF OrderInv, Labels, LabelsOf
<1>7. (Queued(ready) /\ Queued(responses))'
  BY DEF OrderInv, Queued, Before
<1>8. Follows(Elements(ready), Elements(responses))'
  BY <1>1 DEF OrderInv, Follows, Elements
<1>9. Follows(Elements(ready) \union Elements(responses), Replying)'
  BY <1>1, <1>2, <1>3 DEF OrderInv, Follows, Elements
<1> QED
  BY <1>5, <1>6, <1>7, <1>8, <1>9 DEF OrderInv

\* An answer is handed over behind the others.
LEMMA OrderAppended ==
  ASSUME OrderInv, RuntimeTyped, NEW e \in Responses, responses' = Append(responses, e),
         UNCHANGED <<history, ready, audit>>, thread' # "Replying",
         \A l \in Labels(history) : Before(l, e.request.command),
         \A p \in Elements(ready) \union Elements(responses) :
           Before(p.request.command, e.request.command)
  PROVE  OrderInv'
<1>1. \A a, b : Before(a, b)' <=> Before(a, b)
  BY DEF Before
<1>2. responses \in Seq(Responses)
  BY DEF RuntimeTyped, WorkerTypeOK
<1>3. Elements(responses') = Elements(responses) \union {e}
  BY <1>2, ElementsAppend
<1>4. Replying' = {} /\ Answers' \subseteq Answers \union {e}
  BY <1>3 DEF Replying, Answers
<1>5. (\A l \in Labels(history) : Committed(l))' /\ InOrder(history)'
  BY DEF OrderInv, Committed, InOrder, Before, Labels, LabelsOf
<1>6. (\A l \in Labels(history), p \in Answers : Before(l, p.request.command))'
  BY <1>1, <1>4 DEF OrderInv, Labels, LabelsOf
<1>7. Queued(ready)'
  BY DEF OrderInv, Queued, Before
<1>8. Queued(responses)'
  <2>1. PICK s, t : s = responses /\ t = Append(s, e)
    OBVIOUS
  <2>2. /\ Len(t) = Len(s) + 1 /\ Len(s) \in Nat
        /\ \A i \in 1..Len(t) :
             IF i = Len(s) + 1 THEN t[i] = e ELSE i \in 1..Len(s) /\ t[i] = s[i]
    BY <1>2, <2>1
  <2>3. ASSUME NEW i \in 1..Len(t), NEW j \in 1..Len(t), i < j
        PROVE  Before(t[i].request.command, t[j].request.command)
    <3>1. i \in 1..Len(s) /\ t[i] = s[i] /\ t[i] \in Elements(responses)
      BY <2>1, <2>2, <2>3 DEF Elements
    <3>2. CASE j = Len(s) + 1
      BY <2>2, <3>1, <3>2
    <3>3. CASE j # Len(s) + 1
      BY <2>1, <2>2, <2>3, <3>1, <3>3 DEF OrderInv, Queued
    <3> QED
      BY <3>2, <3>3
  <2>4. Queued(t)'
    BY <1>1, <2>3 DEF Queued
  <2>5. responses' = t
    BY <2>1
  <2> QED
    BY <2>4, <2>5 DEF Queued, Before
<1>9. Follows(Elements(ready), Elements(responses))'
  <2>1. \A p \in Elements(ready)' : p \in Elements(ready)
    BY DEF Elements
  <2> QED
    BY <1>1, <1>3, <2>1 DEF OrderInv, Follows
<1>10. Follows(Elements(ready) \union Elements(responses), Replying)'
  BY <1>4 DEF Follows
<1> QED
  BY <1>5, <1>6, <1>7, <1>8, <1>9, <1>10 DEF OrderInv

\* A new transaction is younger than whatever was said or recorded before.
LEMMA OrderCommitted ==
  ASSUME RuntimeTyped, CommandInv, OrderInv, UNCHANGED runtimeVars, ExecuteCommand
  PROVE  OrderInv'
<1>1. PICK c : c = current.request.command
  OBVIOUS
<1>2. /\ thread = "Executing" /\ audit' = Append(audit, c)
      /\ current'.request.command = c
      /\ UNCHANGED <<history, ready, responses>>
  BY <1>1 DEF ExecuteCommand, runtimeVars, RuntimeTyped, WorkerTypeOK
<1>3. c \in Nat \ {0} /\ Due(c)
  <2>1. current.request.op # Query
    BY DEF ExecuteCommand, Query
  <2>2. Given(current.request)
    BY <1>2 DEF CommandInv, DueOnce, InService
  <2> QED
    BY <1>1, <1>2, <2>1, <2>2, IdsAreCommands DEF Given, Due, Served, InService
<1>4. ~Committed(c)
  BY <1>3, DueIsOpen
<1>5. /\ Len(audit) \in Nat /\ Len(audit') = Len(audit) + 1
      /\ \A i \in 1..Len(audit') :
           IF i = Len(audit) + 1 THEN audit'[i] = c
           ELSE i \in 1..Len(audit) /\ audit'[i] = audit[i]
  <2>1. audit \in Seq(Nat)
    BY DEF RuntimeTyped, WorkerTypeOK
  <2> QED
    BY <1>2, <1>3, <2>1
<1>6. \A a, b : a # c /\ b # c /\ Before(a, b) => Before(a, b)'
  BY <1>5 DEF Before
<1>7. \A a : a # c => Before(a, c)'
  <2>1. SUFFICES ASSUME NEW a, a # c, NEW i \in 1..Len(audit'), NEW j \in 1..Len(audit'),
                        audit'[i] = a, audit'[j] = c
                 PROVE  i < j
    BY DEF Before
  <2>2. i \in 1..Len(audit) /\ j = Len(audit) + 1
    BY <1>4, <1>5, <2>1 DEF Committed
  <2> QED
    BY <1>5, <2>2
<1>8. \A l \in Labels(history) : l # c
  BY <1>4 DEF OrderInv
<1>9. ASSUME NEW p \in Answers PROVE p.request.command # c
  BY <1>3 DEF CommandInv, AnswersFaithful, Faithful
<1>10. PICK h : h = history
  OBVIOUS
<1>11. (\A l \in Labels(h) : Committed(l))'
  <2>1. \A l : Committed(l) => Committed(l)'
    BY <1>5 DEF Committed
  <2> QED
    BY <1>10, <2>1 DEF OrderInv
<1>12. InOrder(h)'
  <2>1. /\ \A i \in 1..Len(h.undo) : h.undo[i].label # c
        /\ \A i \in 1..Len(h.redo) : h.redo[i].label # c
    BY <1>8, <1>10 DEF Labels, LabelsOf
  <2>2. InOrder(h)
    BY <1>10 DEF OrderInv
  <2> QED
    BY <1>6, <2>1, <2>2 DEF InOrder
<1>13. \A p \in Replying' : p.request.command = c
  BY <1>2 DEF Replying
<1>14. \A p \in Answers' : p \in Answers \/ p.request.command = c
  BY <1>2 DEF Answers
<1>15. \A l \in Labels(h), p \in Answers' : Before(l, p.request.command)'
  <2>1. ASSUME NEW l \in Labels(h), NEW p \in Answers PROVE Before(l, p.request.command)'
    BY <1>6, <1>8, <1>9, <1>10 DEF OrderInv
  <2>2. \A l \in Labels(h) : Before(l, c)'
    BY <1>7, <1>8, <1>10
  <2> QED
    BY <1>14, <2>1, <2>2
<1>16. PICK s, t : s = ready /\ t = responses
  OBVIOUS
<1>17. /\ \A i \in 1..Len(s) : s[i] \in Answers /\ s[i].request.command # c
       /\ \A i \in 1..Len(t) : t[i] \in Answers /\ t[i].request.command # c
  <2>1. /\ \A i \in 1..Len(s) : s[i] \in Answers
        /\ \A i \in 1..Len(t) : t[i] \in Answers
    BY <1>16 DEF Answers, Elements
  <2> QED
    BY <1>9, <2>1
<1>18. Queued(s)' /\ Queued(t)'
  <2>1. Queued(s) /\ Queued(t)
    BY <1>16 DEF OrderInv
  <2> QED
    BY <1>6, <1>17, <2>1 DEF Queued
<1>19. Follows(Elements(s), Elements(t))'
  <2>1. Follows(Elements(s), Elements(t))
    BY <1>16 DEF OrderInv
  <2> QED
    BY <1>6, <1>17, <2>1 DEF Follows, Elements
<1>20. \A p \in Elements(s) \union Elements(t), q \in Replying' :
         Before(p.request.command, q.request.command)'
  BY <1>7, <1>13, <1>17 DEF Elements
<1>21. history' = h /\ ready' = s /\ responses' = t
  BY <1>2, <1>10, <1>16
<1>22. (\A l \in Labels(history) : Committed(l))' /\ InOrder(history)'
  <2>1. (\A l \in Labels(history) : Committed(l))'
    BY <1>11, <1>21 DEF Labels, LabelsOf, Committed
  <2>2. InOrder(history)'
    BY <1>12, <1>21 DEF InOrder, Before
  <2> QED
    BY <2>1, <2>2
<1>23. (\A l \in Labels(history), p \in Answers : Before(l, p.request.command))'
  <2>1. Labels(history)' = Labels(h)
    BY <1>21 DEF Labels, LabelsOf
  <2> QED
    BY <1>15, <2>1
<1>24. (Queued(ready) /\ Queued(responses) /\ Follows(Elements(ready), Elements(responses)))'
  <2>1. Queued(ready)' /\ Queued(responses)'
    BY <1>18, <1>21 DEF Queued
  <2>2. Follows(Elements(ready), Elements(responses))'
    BY <1>19, <1>21 DEF Follows, Before, Elements
  <2> QED
    BY <2>1, <2>2
<1>25. Follows(Elements(ready) \union Elements(responses), Replying)'
  BY <1>20, <1>21 DEF Follows, Before, Elements
<1> QED
  BY <1>22, <1>23, <1>24, <1>25 DEF OrderInv
\* Shutdown answers what waited behind the other answers: none of it has committed.
LEMMA OrderCancelled ==
  ASSUME RuntimeTyped, CommandInv, OrderInv, UNCHANGED runtimeVars, ReceiveShutdown
  PROVE  OrderInv'
<1>1. PICK s, t : s = responses /\ t = Cancellations(Tail(channel))
  OBVIOUS
<1>2. /\ responses' = s \o t /\ thread' = "Closing"
      /\ UNCHANGED <<history, ready, audit>>
  BY <1>1 DEF ReceiveShutdown, runtimeVars
<1>3. /\ channel \in Seq(Messages) /\ Tail(channel) \in Seq(Messages)
      /\ \A i \in 1..Len(Tail(channel)) :
           i + 1 \in 1..Len(channel) /\ Tail(channel)[i] = channel[i + 1]
  BY DEF RuntimeTyped, WorkerTypeOK, ReceiveShutdown
<1>4. /\ t \in Seq(Responses) /\ Len(t) = Len(Tail(channel))
      /\ s \in Seq(Responses)
  BY <1>1, <1>3, CancellationsType DEF RuntimeTyped, WorkerTypeOK
<1>5. ASSUME NEW i \in 1..Len(t) PROVE ~Committed(t[i].request.command)
  <2>1. PICK j \in 1..Len(channel) : t[i] = Completed(channel[j].request, Outcome("Cancelled"))
    BY <1>1, <1>3, <1>4 DEF Cancellations
  <2>2. PICK c : c = t[i].request.command
    OBVIOUS
  <2>3. Due(c)
    BY <2>1, <2>2 DEF Due, Waits, Completed
  <2>4. c # 0 => ~Committed(c)
    BY <2>3, DueIsOpen
  <2>5. c = 0 => ~Committed(c)
    BY DEF CommandInv, CommittedOnce, Committed
  <2> QED
    BY <2>2, <2>4, <2>5
<1>6. \A a, b : (Before(a, b)' <=> Before(a, b)) /\ (~Committed(b) => Before(a, b))
  BY <1>2 DEF Before, Committed
<1>7. Elements(s \o t) = Elements(s) \union Elements(t)
  BY <1>4, ElementsConcat
<1>8. \A q \in Elements(t) : ~Committed(q.request.command)
  BY <1>5 DEF Elements
<1>9. Replying' = {} /\ \A p \in Answers' : p \in Answers \/ p \in Elements(t)
  <2>1. Replying' = {} /\ Elements(responses') = Elements(responses) \union Elements(t)
    BY <1>1, <1>2, <1>7 DEF Replying
  <2>2. Elements(ready)' = Elements(ready) /\ thread' # "Replying"
    BY <1>2
  <2> QED
    BY <2>1, <2>2 DEF Answers
<1>10. (\A l \in Labels(history) : Committed(l))' /\ InOrder(history)'
  BY <1>2 DEF OrderInv, Committed, InOrder, Before, Labels, LabelsOf
<1>11. (\A l \in Labels(history), p \in Answers : Before(l, p.request.command))'
  BY <1>2, <1>6, <1>8, <1>9 DEF OrderInv, Labels, LabelsOf
<1>12. Queued(ready)'
  BY <1>2 DEF OrderInv, Queued, Before
<1>13. Queued(s \o t)
  <2>1. /\ Len(s \o t) = Len(s) + Len(t) /\ Len(s) \in Nat /\ Len(t) \in Nat
        /\ \A i \in 1..Len(s) : (s \o t)[i] = s[i]
        /\ \A i \in 1..Len(t) : (s \o t)[Len(s) + i] = t[i]
    <3>1. Len(s) \in Nat /\ Len(t) \in Nat
      BY <1>4
    <3>2. Len(s \o t) = Len(s) + Len(t)
      BY <1>4, ConcatProperties
    <3>3. \A i \in 1..Len(s) : (s \o t)[i] = s[i]
      BY <1>4, ConcatProperties
    <3>4. \A i \in 1..Len(t) : (s \o t)[Len(s) + i] = t[i]
      BY <1>4, ConcatProperties
    <3> QED
      BY <3>1, <3>2, <3>3, <3>4
  <2>2. ASSUME NEW i \in 1..Len(s \o t), NEW j \in 1..Len(s \o t), i < j
        PROVE  Before((s \o t)[i].request.command, (s \o t)[j].request.command)
    <3>1. CASE j \in 1..Len(s)
      <4>1. i \in 1..Len(s) /\ (s \o t)[i] = s[i] /\ (s \o t)[j] = s[j]
        BY <2>1, <2>2, <3>1
      <4> QED
        BY <1>1, <2>2, <3>1, <4>1 DEF OrderInv, Queued
    <3>2. CASE j \notin 1..Len(s)
      <4>1. PICK k \in 1..Len(t) : j = Len(s) + k
        <5>1. j - Len(s) \in 1..Len(t) /\ j = Len(s) + (j - Len(s))
          BY <2>1, <3>2
        <5> QED
          BY <5>1
      <4> QED
        BY <1>5, <1>6, <2>1, <4>1
    <3> QED
      BY <3>1, <3>2
  <2> QED
    BY <2>2 DEF Queued
<1>14. Queued(responses)'
  <2>1. PICK w : w = s \o t
    OBVIOUS
  <2>2. Queued(w)' /\ responses' = w
    BY <1>2, <1>6, <1>13, <2>1 DEF Queued
  <2> QED
    BY <2>2 DEF Queued, Before
<1>15. Follows(Elements(ready), Elements(responses))'
  <2>1. Elements(ready)' = Elements(ready) /\ Elements(responses)' = Elements(s) \union Elements(t)
    BY <1>2, <1>7
  <2>2. \A p \in Elements(ready), q \in Elements(s) \union Elements(t) :
          Before(p.request.command, q.request.command)
    BY <1>1, <1>6, <1>8 DEF OrderInv, Follows
  <2> QED
    BY <1>6, <2>1, <2>2 DEF Follows
<1>16. Follows(Elements(ready) \union Elements(responses), Replying)'
  BY <1>9 DEF Follows
<1> QED
  BY <1>10, <1>11, <1>12, <1>14, <1>15, <1>16 DEF OrderInv

\* The steps of the thread.
LEMMA OrderOfThread ==
  ASSUME RuntimeTyped, CommandInv, OrderInv, ThreadStep
  PROVE  OrderInv'
<1>1. UNCHANGED runtimeVars
  BY DEF ThreadStep
<1>2. \A c : c = 0 \/ Due(c) => ~Committed(c)
  BY DueIsOpen DEF CommandInv, CommittedOnce, Committed
<1>3. CASE CancelReceived \/ ExecuteQuery \/ FailExecution
  <2>1. InService /\ current'.request = current.request /\ UNCHANGED <<responses, audit>>
    BY <1>3 DEF CancelReceived, ExecuteQuery, FailExecution, InService, RuntimeTyped, WorkerTypeOK
  <2>2. ~Committed(current'.request.command)
    BY <1>2, <2>1 DEF Due, Served
  <2> QED
    BY <1>1, <2>1, <2>2, OrderStill DEF runtimeVars
<1>4. CASE Receive \/ Admit \/ FailCheckpoint \/ Panic
  BY <1>1, <1>4, OrderStill DEF Receive, Admit, FailCheckpoint, Panic, runtimeVars
<1>5. CASE Reply
  <2>1. PICK e \in Responses : e = current
    BY DEF RuntimeTyped, WorkerTypeOK, Responses
  <2>2. e \in Answers /\ e \in Replying
    BY <1>5, <2>1 DEF Reply, Answers, Replying
  <2>3. /\ \A l \in Labels(history) : Before(l, e.request.command)
        /\ \A p \in Elements(ready) \union Elements(responses) :
             Before(p.request.command, e.request.command)
    BY <2>2 DEF OrderInv, Follows
  <2> QED
    BY <1>1, <1>5, <2>1, <2>3, OrderAppended DEF Reply, runtimeVars
<1>6. CASE CheckpointAndExit
  <2>1. PICK e \in Responses : e = Terminated
    BY DEF Responses
  <2>2. e.request.command = 0
    BY <2>1 DEF Terminated, NoRequest
  <2>3. \A a : Before(a, e.request.command)
    BY <1>2, <2>2 DEF Before, Committed
  <2> QED
    BY <1>1, <1>6, <2>1, <2>3, OrderAppended DEF CheckpointAndExit, runtimeVars
<1> QED
  BY <1>1, <1>3, <1>4, <1>5, <1>6, OrderCommitted, OrderCancelled
     DEF ThreadStep, WorkerStep, WorkerProgress

\* The steps of the frame loop: the oldest answer goes first, and if its command
\* committed, on top of the stacks.
LEMMA OrderOfFrame ==
  ASSUME RuntimeTyped, CommandInv, OrderInv, Frame
  PROVE  OrderInv'
<1>1. UNCHANGED <<audit, thread, current>>
  BY DEF Frame, BeginDrain, HandleCommandResponse, DiscardResponse, HandleTree, EndDrain,
         frameUntouched
<1>2. \A a, b : Before(a, b)' <=> Before(a, b)
  BY <1>1 DEF Before
<1>3. \A c : Committed(c)' <=> Committed(c)
  BY <1>1 DEF Committed
<1>4. Replying' = Replying
  BY <1>1 DEF Replying
<1>5. CASE EndDrain
  BY <1>1, <1>5, OrderStill DEF EndDrain
<1>6. CASE BeginDrain
  <2>1. ready' = responses /\ responses' = <<>> /\ UNCHANGED history
    BY <1>6 DEF BeginDrain
  <2>2. (\A l \in Labels(history) : Committed(l))' /\ InOrder(history)'
    <3>1. (\A l \in Labels(history) : Committed(l))'
      BY <1>1, <2>1 DEF OrderInv, Committed, Labels, LabelsOf
    <3>2. InOrder(history)'
      BY <1>1, <2>1 DEF OrderInv, InOrder, Before
    <3> QED
      BY <3>1, <3>2
  <2>3. Elements(ready') = Elements(responses) /\ Elements(responses') = {}
    BY <2>1 DEF Elements
  <2>4. \A p \in Answers' : p \in Answers
    BY <1>1, <2>3 DEF Answers
  <2>5. (\A l \in Labels(history), p \in Answers : Before(l, p.request.command))'
    BY <1>2, <2>1, <2>4 DEF OrderInv, Labels, LabelsOf
  <2>6. Queued(ready)' /\ Queued(responses)'
    BY <1>1, <2>1 DEF OrderInv, Queued, Before
  <2>7. Follows(Elements(ready), Elements(responses))'
    BY <2>3 DEF Follows
  <2>8. Follows(Elements(ready) \union Elements(responses), Replying)'
    BY <1>2, <1>4, <2>3 DEF OrderInv, Follows
  <2> QED
    BY <2>2, <2>5, <2>6, <2>7, <2>8 DEF OrderInv
<1>7. ASSUME ready # <<>>, ready' = Tail(ready), UNCHANGED responses,
             NEW h, history' = h, InOrder(h),
             \A l \in Labels(h) :
               l \in Labels(history) \/ (l = Head(ready).request.command /\ Committed(l))
      PROVE  OrderInv'
  <2>1. PICK s : s = ready
    OBVIOUS
  <2>2. s \in Seq(Responses) /\ s # <<>> /\ 1 \in 1..Len(s) /\ Head(s) = s[1]
    BY <1>7, <2>1 DEF RuntimeTyped
  <2>3. PICK t : t = Tail(s)
    OBVIOUS
  <2>4. /\ \A i \in 1..Len(t) : i + 1 \in 1..Len(s) /\ t[i] = s[i + 1] /\ 1 < i + 1
        /\ \A i, j \in 1..Len(t) : i < j => i + 1 < j + 1
    BY <2>2, <2>3
  <2>5. Queued(t) /\ \A q \in Elements(t) : q \in Elements(s) /\ Before(Head(s).request.command, q.request.command)
    BY <2>1, <2>2, <2>4 DEF OrderInv, Queued, Elements
  <2>6. ready' = t /\ Elements(ready') = Elements(t) /\ Elements(responses') = Elements(responses)
    BY <1>7, <2>1, <2>3
  <2>7. Head(s) \in Elements(s) /\ s = ready
    BY <2>1, <2>2 DEF Elements
  <2>8. \A p \in Answers' :
          p \in Answers /\ Before(Head(ready).request.command, p.request.command)
    <3>1. \A p \in Answers' : p \in Elements(t) \union Elements(responses) \union Replying
      BY <1>4, <2>6 DEF Answers, Replying
    <3>2. \A p \in Elements(responses) \union Replying :
            p \in Answers /\ Before(Head(s).request.command, p.request.command)
      BY <2>7 DEF OrderInv, Follows, Answers, Replying
    <3>3. \A p \in Elements(t) :
            p \in Answers /\ Before(Head(s).request.command, p.request.command)
      BY <2>5, <2>7 DEF Answers
    <3> QED
      BY <2>7, <3>1, <3>2, <3>3
  <2>9. \A l \in Labels(h) : Committed(l)'
    BY <1>3, <1>7 DEF OrderInv
  <2>10. \A l \in Labels(h), p \in Answers' : Before(l, p.request.command)'
    BY <1>2, <1>7, <2>8 DEF OrderInv
  <2>11. InOrder(h)'
    BY <1>2, <1>7 DEF InOrder
  <2>11a. history' = h
    BY <1>7
  <2>11b. Labels(history)' = Labels(h)
    BY <2>11a DEF Labels, LabelsOf
  <2>12. (\A l \in Labels(history) : Committed(l))'
    BY <2>9, <2>11b
  <2>13. InOrder(history)'
    BY <2>11, <2>11a DEF InOrder
  <2>14. (\A l \in Labels(history), p \in Answers : Before(l, p.request.command))'
    BY <2>10, <2>11b
  <2>15. Queued(ready)'
    <3>1. ready' = t /\ audit' = audit
      BY <1>1, <2>6
    <3>2. Queued(t)
      BY <2>5
    <3> QED
      BY <3>1, <3>2 DEF Queued, Before
  <2>16. Queued(responses)'
    <3>1. Queued(responses) /\ responses' = responses /\ audit' = audit
      BY <1>1, <1>7 DEF OrderInv
    <3> QED
      BY <3>1 DEF Queued, Before
  <2>17. Follows(Elements(ready), Elements(responses))'
    BY <1>2, <2>5, <2>6, <2>7 DEF OrderInv, Follows
  <2>18. Follows(Elements(ready) \union Elements(responses), Replying)'
    BY <1>2, <1>4, <2>5, <2>6, <2>7 DEF OrderInv, Follows
  <2> QED
    BY <2>12, <2>13, <2>14, <2>15, <2>16, <2>17, <2>18 DEF OrderInv
<1>8. CASE DiscardResponse \/ HandleTree
  <2>1. /\ ready # <<>> /\ ready' = Tail(ready) /\ UNCHANGED <<responses, history>>
    BY <1>8 DEF DiscardResponse, HandleTree
  <2> QED
    BY <1>7, <2>1 DEF OrderInv
<1>9. CASE HandleCommandResponse
  <2>1. PICK p, c :
          /\ p = Head(ready) /\ p \in Answers /\ c = p.request.command /\ c \in CommandIds
          /\ p \in Responses /\ p.tag = "Completed"
          /\ p.result.status = "Mutated" <=> Committed(c)
    BY <1>9, HandleDoes
  <2>2. PICK u : u = p.result.undo
    OBVIOUS
  <2>3. u \in Saves \union {NoUndo}
    BY <2>1, <2>2 DEF Responses, Terminated, Results
  <2>4. /\ ready # <<>> /\ ready' = Tail(ready) /\ UNCHANGED responses
        /\ \/ UNCHANGED history
           \/ p.result.status = "Mutated" /\ history' = HistoryAfter(c, u)
    BY <1>9, <2>1, <2>2 DEF HandleCommandResponse
  <2>5. PICK h : h = HistoryAfter(c, u)
    OBVIOUS
  <2>6. InOrder(h) /\ Labels(h) \subseteq Labels(history) \union {c}
    BY <2>1, <2>3, <2>5, HistoryAfterInOrder DEF OrderInv
  <2>7. CASE UNCHANGED history
    BY <1>7, <2>4, <2>7 DEF OrderInv
  <2>8. CASE p.result.status = "Mutated" /\ history' = h
    <3>1. \A l \in Labels(h) :
            l \in Labels(history) \/ (l = Head(ready).request.command /\ Committed(l))
      BY <2>1, <2>6, <2>8
    <3> QED
      BY <1>7, <2>4, <2>6, <2>8, <3>1
  <2> QED
    BY <2>4, <2>5, <2>7, <2>8
<1> QED
  BY <1>5, <1>6, <1>8, <1>9 DEF Frame

\* Every step of the system.
LEMMA OrderInvStep ==
  ASSUME RuntimeTyped, CommandInv, OrderInv, [Next]_vars
  PROVE  OrderInv'
<1>1. CASE User \/ EndShutdown \/ UNCHANGED vars
  BY <1>1, OrderStill
     DEF User, Perform, Undo, Redo, PerformHistory, Confirm, Cancel, OpenEditor, CloseEditor,
         CommitEditor, RejectDraft, ClickAccount, EndShutdown, vars, workerVars, runtimeVars,
         untouchedByUser
<1>2. CASE BeginShutdown
  <2>1. /\ history' = EmptyHistory
        /\ UNCHANGED <<ready, responses, thread, current, audit>>
    BY <1>2 DEF BeginShutdown
  <2>2. Labels(history') = {}
    BY <2>1 DEF Labels, LabelsOf, EmptyHistory
  <2>3. InOrder(history)'
    BY <2>1 DEF InOrder, EmptyHistory
  <2>4. (Queued(ready) /\ Queued(responses))'
    BY <2>1 DEF OrderInv, Queued, Before
  <2>5. (Follows(Elements(ready), Elements(responses)))'
    BY <2>1 DEF OrderInv, Follows, Before, Elements
  <2>6. Follows(Elements(ready) \union Elements(responses), Replying)'
    BY <2>1 DEF OrderInv, Follows, Before, Elements, Replying
  <2> QED
    BY <2>2, <2>3, <2>4, <2>5, <2>6 DEF OrderInv
<1> QED
  BY <1>1, <1>2, OrderOfThread, OrderOfFrame DEF Next
\* Initially no answer is under way and the stacks are empty.
LEMMA OrderInvInit == Init => OrderInv
<1> SUFFICES ASSUME Init PROVE OrderInv
  OBVIOUS
<1>1. /\ history = [undo |-> <<>>, redo |-> <<>>] /\ ready = <<>> /\ responses = <<>>
      /\ thread = "Receiving"
  BY DEF Init, WorkerStarted, EmptyHistory
<1>2. Labels(history) = {} /\ InOrder(history)
  BY <1>1 DEF Labels, LabelsOf, InOrder
<1>3. Elements(ready) = {} /\ Elements(responses) = {} /\ Replying = {}
  BY <1>1 DEF Elements, Replying
<1> QED
  BY <1>1, <1>2, <1>3 DEF OrderInv, Queued, Follows

\* The undo stack, followed by the redo stack read downwards, names committed
\* commands in the order of their transactions (HistoryAfter, drain_worker_responses).
THEOREM HistoryFollowsCommits == Spec => []HistoryInCommitOrder
<1>1. Init => RuntimeTyped /\ CommandInv /\ OrderInv
  BY RuntimeTypedInit, CommandInvInit, OrderInvInit
<1>2. RuntimeTyped /\ CommandInv /\ OrderInv /\ [Next]_vars
        => (RuntimeTyped /\ CommandInv /\ OrderInv)'
  BY RuntimeTypedStep, CommandInvStep, OrderInvStep
<1>3. RuntimeTyped /\ CommandInv /\ OrderInv => HistoryInCommitOrder
  <2> SUFFICES ASSUME RuntimeTyped, CommandInv, OrderInv PROVE HistoryInCommitOrder
    OBVIOUS
  <2>1. PICK u \in Seq(Entries), r \in Seq(Entries) : u = history.undo /\ r = history.redo
    BY DEF RuntimeTyped
  <2>2. PICK n \in Nat : n = Len(r)
    OBVIOUS
  <2>3. PICK d : d = [i \in 1..n |-> r[n + 1 - i]]
    OBVIOUS
  <2>4. \A i \in 1..n : n + 1 - i \in 1..n
    BY <2>2
  <2>5. d \in Seq(Entries) /\ Len(d) = n
    <3>1. \A i \in 1..n : r[n + 1 - i] \in Entries
      BY <2>2, <2>4
    <3> QED
      BY <2>3, <3>1
  <2>6. PICK w : w = u \o d
    OBVIOUS
  <2>7. /\ Len(w) = Len(u) + n
        /\ \A i \in 1..Len(w) : IF i <= Len(u) THEN w[i] = u[i] ELSE w[i] = d[i - Len(u)]
    BY <2>5, <2>6, ConcatProperties
  <2>8. ASSUME NEW i \in 1..Len(w)
        PROVE  \/ i \in 1..Len(u) /\ w[i] = u[i]
               \/ \E k \in 1..n : i = Len(u) + n + 1 - k /\ w[i] = r[k]
    <3>1. CASE i <= Len(u)
      BY <2>7, <3>1
    <3>2. CASE ~(i <= Len(u))
      <4>1. PICK k \in 1..n : k = Len(u) + n + 1 - i
        <5>1. Len(u) \in Nat /\ Len(u) + n + 1 - i \in 1..n
          BY <2>7, <3>2
        <5> QED
          BY <5>1
      <4>2. i - Len(u) \in 1..n /\ n + 1 - (i - Len(u)) = k /\ i = Len(u) + n + 1 - k
        BY <2>7, <3>2, <4>1
      <4>3. w[i] = r[k]
        BY <2>3, <2>7, <3>2, <4>2
      <4> QED
        BY <4>2, <4>3
    <3> QED
      BY <3>1, <3>2
  <2>9. \A i \in 1..Len(w) : w[i].label \in Labels(history)
    BY <2>1, <2>2, <2>8 DEF Labels, LabelsOf
  <2>10. ASSUME NEW i \in 1..Len(w), NEW j \in 1..Len(w), i < j
         PROVE  Before(w[i].label, w[j].label)
    <3>1. CASE i \in 1..Len(u) /\ w[i] = u[i] /\ j \in 1..Len(u) /\ w[j] = u[j]
      BY <2>1, <2>10, <3>1 DEF OrderInv, InOrder
    <3>2. CASE i \in 1..Len(u) /\ w[i] = u[i] /\ \E k \in 1..n : w[j] = r[k]
      BY <2>1, <2>2, <3>2 DEF OrderInv, InOrder
    <3>3. ASSUME NEW k \in 1..n, i = Len(u) + n + 1 - k, w[i] = r[k],
                 NEW m \in 1..n, j = Len(u) + n + 1 - m, w[j] = r[m]
          PROVE  Before(w[i].label, w[j].label)
      <4>1. m < k
        BY <2>10, <3>3
      <4> QED
        BY <2>1, <2>2, <3>3, <4>1 DEF OrderInv, InOrder
    <3>4. ASSUME NEW k \in 1..n, i = Len(u) + n + 1 - k PROVE ~(j \in 1..Len(u))
      BY <2>10, <3>4
    <3> QED
      BY <2>8, <3>1, <3>2, <3>3, <3>4
  <2>11. \A c : Committed(c) => PlaceOf(c) \in 1..Len(audit) /\ audit[PlaceOf(c)] = c
    BY DEF Committed, PlaceOf
  <2>12. \A i \in 1..Len(w) : Committed(w[i].label)
    BY <2>9 DEF OrderInv
  <2>13. \A i, j \in 1..Len(w) : i < j => PlaceOf(w[i].label) < PlaceOf(w[j].label)
    BY <2>10, <2>11, <2>12 DEF Before
  <2>14. history.undo \o [i \in 1..Len(history.redo) |-> history.redo[Len(history.redo) + 1 - i]] = w
    BY <2>1, <2>2, <2>3, <2>6
  <2> QED
    BY <2>12, <2>13, <2>14 DEF HistoryInCommitOrder
<1> QED
  BY <1>1, <1>2, <1>3, PTL DEF Spec
================================================================================
