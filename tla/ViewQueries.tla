----------------------------- MODULE ViewQueries -----------------------------
(***************************************************************************)
(* What the screens show: the projections ApplicationRuntime asks the      *)
(* worker for, the intents that ask, the answers, and the invalidations    *)
(* that committed commands leave behind.  The user interface thread and    *)
(* the worker meet in two queues; an intent and a drain are one step each, *)
(* because nothing else runs on the user interface thread meanwhile.  The  *)
(* worker runs, so every request is submitted (WorkerSession covers its    *)
(* end).  A revision of the ledger is the number of its commits.           *)
(***************************************************************************)
EXTENDS Integers, Sequences, SequencesExt, FiniteSets

CONSTANTS
  ViewMonths,       \* 1..n
  ViewAccounts, Home,  \* open accounts, and the one resolve_destination chooses
  CatalogCategories, ArchivedCategories,
  ReportRequests,
  Mutations,        \* commands that are sent: records [kind, month]
  Deletes,          \* of each of them, the categories it deletes
  Nothing,
  MaxMoves, MaxCommits   \* bounds: intents of the user and failed requests, commits

ASSUME ViewsAssumption ==
  /\ ViewMonths \subseteq Int
  /\ Mutations \subseteq [kind : STRING, month : Int]

VARIABLES
  app,              \* ApplicationRuntime and its AppState, see Opened
  answers,          \* responses of the worker the runtime has not drained
  commits,          \* history: the mutations committed
  moves

views == <<app, answers, commits, moves>>

Move == moves < MaxMoves /\ moves' = moves + 1

Projections == {"accounts", "month", "inbox", "catalog", "payees", "detail", "report", "register"}

\* Of a ViewQueryState: the last successful view, what was asked for last, and by which
\* request.
NeverAsked == [shown |-> Nothing, asked |-> Nothing, latest |-> 0, refreshing |-> FALSE,
               failed |-> FALSE]
-----------------------------------------------------------------------------
(* Requests *)

Send(v, of, key) ==
  [v EXCEPT !.ids = @ + 1,
            !.sent = Append(@, [id |-> v.ids + 1, generation |-> v.generation,
                                of |-> of, key |-> key])]

\* begin, and the submission of the request
BeginQuery(v, of, key) ==
  [Send(v, of, key) EXCEPT
     !.queries[of] = [@ EXCEPT !.asked = key, !.latest = v.ids + 1,
                               !.refreshing = TRUE, !.failed = FALSE]]

RequestCatalog(v) == BeginQuery(v, "catalog", v.archived)

\* hydrate_session
Opened ==
  LET blank == [workspace |-> "Overview", account |-> Nothing, month |-> 1, archived |-> FALSE,
                category |-> Nothing, activity |-> Nothing, generation |-> 0, ids |-> 0,
                queries |-> [p \in Projections |-> NeverAsked], sent |-> <<>>,
                pending |-> {}, lost |-> {}]
      catalog == RequestCatalog(blank)
      payees == BeginQuery(catalog, "payees", Nothing)
      accounts == BeginQuery(payees, "accounts", Nothing)
      month == BeginQuery(accounts, "month", blank.month)
  IN  BeginQuery(month, "inbox", Nothing)

ViewsInit == app = Opened /\ answers = <<>> /\ commits = <<>> /\ moves = 0
-----------------------------------------------------------------------------
(* Invalidations.  Those of targets, search, inspectors, category details, the  *)
(* catalog and of one account's register are announced as well, but no arm of    *)
(* process_invalidations asks for anything on their account.                     *)

Invalid(kind) == [kind |-> kind, month |-> 0]
InvalidMonth(kind, month) == [kind |-> kind, month |-> month]

\* invalidations_for: assignments and transactions, then the commands about other records
AnnouncedOfMoney(mutation) ==
  LET months == {InvalidMonth("month", mutation.month), InvalidMonth("rollover", mutation.month)}
  IN  CASE mutation.kind = "assignment" -> months \cup {Invalid("inbox")}
        [] mutation.kind = "transaction" ->
             months \cup {Invalid("accounts"), Invalid("inbox"), Invalid("payees")}
        [] mutation.kind = "batch" -> {Invalid("accounts"), Invalid("inbox"), Invalid("payees")}
AnnouncedOfRecords(mutation) ==
  CASE mutation.kind = "account" -> {Invalid("accounts"), Invalid("payees")}
    [] mutation.kind = "category" -> {Invalid("payees")}
    [] mutation.kind = "target" -> {}
    [] OTHER -> {Invalid("accounts"), Invalid("inbox"), Invalid("payees")}
Announced(mutation) ==
  {Invalid("all_transactions"), Invalid("reports")} \cup
  (IF mutation.kind \in {"assignment", "transaction", "batch"}
   THEN AnnouncedOfMoney(mutation) ELSE AnnouncedOfRecords(mutation))

MonthTouched(invalid, month) == \/ invalid.kind = "month" /\ invalid.month = month
                                \/ invalid.kind = "rollover" /\ invalid.month <= month

MonthDueMutant(v) == InvalidMonth("rollover", v.month) \in v.pending
MonthDue(v) == \E invalid \in v.pending : MonthTouched(invalid, v.month)

RequestIf(v, due, of, key) == IF due THEN BeginQuery(v, of, key) ELSE v

\* Each projection is asked for once, under its present key.
ProcessInvalidations(v) ==
  LET due(kind) == Invalid(kind) \in v.pending
      accounts == RequestIf([v EXCEPT !.pending = {}], due("accounts"), "accounts", Nothing)
      month == RequestIf(accounts, MonthDue(v), "month", v.month)
      inbox == RequestIf(month, due("inbox"), "inbox", Nothing)
      activity == RequestIf(inbox,
                            /\ due("all_transactions") /\ v.workspace = "AllTransactions"
                            /\ v.activity # Nothing,
                            "register", v.activity)
      again == v.queries["report"].asked
      reported == RequestIf(activity, due("reports") /\ v.workspace = "Reports" /\ again # Nothing,
                    "report", again)
  IN  RequestIf(reported, due("payees"), "payees", Nothing)
-----------------------------------------------------------------------------
(* Answers.  One of an earlier generation is dropped, whoever it is for.       *)

\* resolve_startup_destination and select_account
GoHome(v) ==
  IF v.account = Home THEN v
  ELSE [v EXCEPT !.account = Home, !.workspace = "Account", !.generation = @ + 1]

\* accept of the query; a month must still be the one on the screen, a register page the
\* one of the present filter.
AcceptableMutant(v, answer) ==
  /\ answer.of = "month" => v.queries["month"].asked = v.month /\ answer.key = v.month
  /\ answer.of = "register" => answer.key = v.activity
Acceptable(v, answer) ==
  /\ v.queries[answer.of].latest = answer.id
  /\ answer.of = "month" => v.queries["month"].asked = v.month /\ answer.key = v.month
  /\ answer.of = "register" => answer.key = v.activity

Deleted(category, revision) ==
  \E i \in 1..revision : commits[i] \in Mutations /\ category \in Deletes[commits[i]]

\* A selected category that is not in the rows of the month or of the catalog is let go.
Accept(v, answer) ==
  LET w == [v EXCEPT !.queries[answer.of] =
              [@ EXCEPT !.shown = [key |-> answer.key, revision |-> answer.revision],
                        !.refreshing = FALSE, !.failed = FALSE]]
  IN  CASE answer.of = "accounts" -> GoHome(w)
        [] answer.of \in {"month", "catalog"} /\ Deleted(v.category, answer.revision) ->
             [w EXCEPT !.category = Nothing]
        [] answer.of = "catalog" /\ ~answer.key /\ v.category \in ArchivedCategories ->
             [w EXCEPT !.category = Nothing]
        [] OTHER -> w

\* The register alone has no place in the error arm.
FailQuery(v, answer) ==
  IF answer.of # "register" /\ v.queries[answer.of].latest = answer.id
  THEN [v EXCEPT !.queries[answer.of] = [@ EXCEPT !.refreshing = FALSE, !.failed = TRUE]]
  ELSE v

\* The answer of a command that committed brings its invalidations.
HandleAnswer(v, answer) ==
  IF answer.generation # v.generation
  THEN IF answer.of = "command" /\ ~answer.failed
       THEN [v EXCEPT !.lost = @ \cup {answer.revision}] ELSE v
  ELSE IF answer.of = "command"
       THEN IF answer.failed THEN v ELSE [v EXCEPT !.pending = @ \cup Announced(answer.key)]
  ELSE IF answer.failed THEN FailQuery(v, answer)
  ELSE IF Acceptable(v, answer) THEN Accept(v, answer) ELSE v

\* drain_worker_responses
Drain ==
  /\ answers # <<>> \/ app.pending # {}
  /\ app' = ProcessInvalidations(FoldLeft(HandleAnswer, app, answers))
  /\ answers' = <<>>
  /\ UNCHANGED <<commits, moves>>
-----------------------------------------------------------------------------
(* The worker, one request at a time. *)

Work ==
  LET request == Head(app.sent)
      answered(failed, revision) ==
        answers' = Append(answers, [id |-> request.id, generation |-> request.generation,
                                    of |-> request.of, key |-> request.key,
                                    failed |-> failed, revision |-> revision])
  IN  /\ app.sent # <<>>
      /\ app' = [app EXCEPT !.sent = Tail(@)]
      /\ \/ request.of # "command" /\ answered(FALSE, Len(commits)) /\ UNCHANGED <<commits, moves>>
         \/ /\ request.of = "command" /\ Len(commits) < MaxCommits
            /\ commits' = Append(commits, request.key)
            /\ answered(FALSE, Len(commits')) /\ UNCHANGED moves
         \/ Move /\ answered(TRUE, Len(commits)) /\ UNCHANGED commits
-----------------------------------------------------------------------------
(* Intents *)

Intent(v) == /\ Move
             /\ app' = v /\ UNCHANGED <<answers, commits>>

\* The sidebar writes both fields itself.
ClickAccount(account) == Intent([app EXCEPT !.account = account, !.workspace = "Account"])

Navigate(workspace) ==
  LET there == [app EXCEPT !.workspace = workspace] IN
  Intent(CASE workspace = "Budget" ->
                [there EXCEPT !.pending = @ \cup {InvalidMonth("month", app.month)}]
           [] workspace = "Categories" -> RequestCatalog(there)
           [] OTHER -> there)

StepMonth(month) ==
  /\ app.workspace = "Budget" /\ month \in {app.month - 1, app.month + 1}
  /\ Intent([app EXCEPT !.month = month, !.pending = @ \cup {InvalidMonth("month", month)}])

\* ToggleArchived, and RefreshCatalog when the value stays
ToggleArchived(archived) == Intent(RequestCatalog([app EXCEPT !.archived = archived]))

SelectCategory(category) ==
  Intent(BeginQuery([app EXCEPT !.category = category], "detail", category))

\* The filter changes at once; no page is asked for.
OpenActivity(category) ==
  Intent([app EXCEPT !.activity = category, !.workspace = "AllTransactions"])

RefreshReport(report) == Intent(BeginQuery(app, "report", report))

Mutate(mutation) == Intent(Send(app, "command", mutation))

\* RestoreBackup and Repair: the worker is stopped with its queue and its answers unread,
\* the file is another one, and nothing is asked for again.
ReplaceLedger ==
  /\ Move /\ Len(commits) < MaxCommits
  /\ commits' = Append(commits, [kind |-> "restore", month |-> 1])
  /\ app' = [app EXCEPT !.sent = <<>>, !.lost = 1..Len(commits')]
  /\ answers' = <<>>

ViewsNext ==
  \/ Drain \/ Work \/ ReplaceLedger
  \/ \E account \in ViewAccounts : ClickAccount(account)
  \/ \E w \in {"Overview", "Budget", "Categories", "Reports", "AllTransactions"} : Navigate(w)
  \/ \E month \in ViewMonths : StepMonth(month)
  \/ \E archived \in BOOLEAN : ToggleArchived(archived)
  \/ \E category \in CatalogCategories : SelectCategory(category) \/ OpenActivity(category)
  \/ \E report \in ReportRequests : RefreshReport(report)
  \/ \E mutation \in Mutations : Mutate(mutation)

ViewsSpec == ViewsInit /\ [][ViewsNext]_views
-----------------------------------------------------------------------------
\* What a screen claims to show: the selected month and category, the catalog with or
\* without the archived ones, the filter of the register, the current report.
Claimed(p) ==
  CASE p = "month" -> app.month
    [] p = "catalog" -> app.archived
    [] p = "detail" -> app.category
    [] p = "register" -> app.activity
    [] OTHER -> app.queries[p].asked

\* A screen that is neither loading nor in error shows what it claims to show, however
\* quickly the user moved on and in whatever order earlier questions were answered or
\* failed.  A month just selected is still to be asked for; a category let go leaves its
\* detail on the screen.  The register is exempt from OpenActivity to the next request: it
\* replaces the filter (runtime.rs:1912) and asks for nothing, and the rows of the filter
\* asked for last stand until a commit makes the screen ask again.
ShowsWhatWasAsked ==
  \A p \in Projections :
    LET q == app.queries[p] IN
    ~q.refreshing /\ ~q.failed /\ q.shown # Nothing =>
      \/ q.shown.key = Claimed(p)
      \/ p = "month" /\ MonthDue(app)
      \/ p = "detail" /\ app.category = Nothing
      \/ p = "register" /\ q.asked # app.activity /\ q.shown.key = q.asked

\* Nothing is under way: no request, no answer, no invalidation to process.
Quiet == app.sent = <<>> /\ answers = <<>> /\ app.pending = {}

Concerns(mutation, p) ==
  \E invalid \in Announced(mutation) :
    IF p = "month" THEN MonthTouched(invalid, app.month) ELSE invalid.kind = p

\* When everything has come to rest, a balance, budget month, inbox or list of payees
\* that claims to be current was read after the last commit that announced a change of it,
\* and the month is the selected one.  Commits whose answer was dropped by a new view
\* generation, or with the worker of a replaced ledger, are exempt: nobody hears of them.
NeverStaleUnnoticed ==
  Quiet =>
    /\ LET q == app.queries["month"] IN ~q.refreshing /\ ~q.failed => q.shown.key = app.month
    /\ \A p \in {"accounts", "month", "inbox", "payees"}, i \in DOMAIN commits \ app.lost :
         LET q == app.queries[p] IN
         ~q.refreshing /\ ~q.failed /\ Concerns(commits[i], p) => q.shown.revision >= i
=============================================================================
