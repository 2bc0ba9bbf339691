---------------------------- MODULE RequestService ----------------------------
(***************************************************************************)
(* What a budget session promises to whoever submits requests to it, with  *)
(* no thread, channel or flag in it: requests are served one at a time in  *)
(* the order of submission, the fate of a request is settled (and a        *)
(* command's change stored) before it is answered, each is answered at     *)
(* most once, and the service may give up, but never in the middle of one  *)
(* request to go on with the next.                                         *)
(***************************************************************************)
EXTENDS Naturals, Sequences

CONSTANTS
  Tickets,   \* requests: an identifier and the command it carries (0: none)
  Outcomes   \* how a request can be settled

VARIABLES
  queue,    \* accepted and unanswered requests, oldest first
  settled,  \* the outcome of the oldest one, or "Open"
  store,    \* the commands whose change is stored, in order
  answers,  \* the answers given, in order
  closed    \* the service has ended

serviceVars == <<queue, settled, store, answers, closed>>

ServiceInit ==
  /\ queue = <<>>
  /\ settled = "Open"
  /\ store = <<>>
  /\ answers = <<>>
  /\ closed = FALSE

Accept ==
  /\ ~closed
  /\ \E t \in Tickets : queue' = Append(queue, t)
  /\ UNCHANGED <<settled, store, answers, closed>>

\* Settling a command as mutated and storing its change are one step.
Settle ==
  /\ ~closed
  /\ queue # <<>>
  /\ settled = "Open"
  /\ \E o \in Outcomes :
       /\ settled' = o
       /\ store' = IF o = "Mutated" THEN Append(store, Head(queue).command) ELSE store
       /\ o = "Mutated" => Head(queue).command # 0
  /\ UNCHANGED <<queue, answers, closed>>

Answer ==
  /\ settled \in Outcomes
  /\ answers' = Append(answers, [id |-> Head(queue).id, outcome |-> settled])
  /\ queue' = Tail(queue)
  /\ settled' = "Open"
  /\ UNCHANGED <<store, closed>>

\* An orderly end comes after the last answer.
Close ==
  /\ ~closed
  /\ queue = <<>>
  /\ closed' = TRUE
  /\ UNCHANGED <<queue, settled, store, answers>>

\* A disorderly one drops whatever is unanswered, settled or not.
Abandon ==
  /\ ~closed
  /\ closed' = TRUE
  /\ queue' = <<>>
  /\ settled' = "Open"
  /\ UNCHANGED <<store, answers>>

ServiceNext == Accept \/ Settle \/ Answer \/ Close \/ Abandon

ServiceSpec == ServiceInit /\ [][ServiceNext]_serviceVars
=============================================================================
