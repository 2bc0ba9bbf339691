------------------------------ MODULE MCSubjects ------------------------------
(***************************************************************************)
(* The parts of the program that share no state with one another, one at a *)
(* time: a behaviour works on one subject, chosen at the start, and the    *)
(* interleavings of independent calls are not enumerated.                  *)
(***************************************************************************)
EXTENDS Books, Organization, Schedules, StatementImport, MerchantRules,
        BudgetMonth, BudgetScreen, ViewQueries, RegisterPages, LedgerFiles, SettingsFile,
        Reports, RegisterQuery, TransactionDraft, Intents, MasterData
CONSTANTS a, b, g1, r1, r2, h1, h2, c1, c2, report, l1, p1
CONSTANTS
  Subjects,    \* the subjects of a run
  MaxSteps     \* bound: steps of a behaviour about schedules
VARIABLES subject, steps

MCOpen == [liability |-> FALSE, closed |-> FALSE]
MCRow(account, date, amount, clearance) ==
  Row(account, date, amount, clearance, TRUE, Categorized)
MCLeg(account, other, amount) ==
  Row(account, 2, amount, "Uncleared", TRUE,
      [kind |-> "transfer", transfer |-> 1, other |-> other, otherAmount |-> -amount])
MCSession(ending, original, included, difference) ==
  [account |-> a, through |-> 2, ending |-> ending, original |-> original,
   selected |-> included, difference |-> difference]

\* A new ledger; one with a transfer; one whose two rows both sessions of account a see.
MCTransfer == <<MCLeg(a, b, -1), MCLeg(b, a, 1)>>
MCTwo == <<MCRow(a, 1, 1, "Cleared"), MCRow(a, 2, 1, "Uncleared")>>

\* Three months whose second is too short for the second day of the month.
MCMonths == <<1, 3, 4, 6>>
MCRecurrences == {[unit |-> "days", every |-> 2], [unit |-> "months", every |-> 1]}

\* A card payment with its FITID, one from a source that has none, and a look-alike.
MCStatement(fitid, payee) ==
  [account |-> a, fitid |-> fitid, source |-> NoId, date |-> 1, amount |-> 2, payee |-> payee]
MCFiles == {<<MCStatement("F1", "shop")>>,
            <<MCStatement(NoId, "inn"), MCStatement("F2", "shops")>>}
MCResembles == [p \in {"shop", "shops", "inn"} |-> [q \in {"shop", "shops", "inn"} |->
                  IF p = q THEN "same" ELSE IF {p, q} = {"shop", "shops"} THEN "close" ELSE "far"]]

\* No explicit rule, one for the merchant anywhere, and two that conflict.
MCBooks == {<<>>, <<Explicit("shop", AnyAccount, c1, 1)>>,
            <<Explicit("shop", a, c1, 1), Explicit("shop", a, c2, 1)>>}

\* Two ordinary rows, one that claims to be reconciled, and a leg of the first transfer, or
\* of one the client makes up.
MCClientRows ==
  {Row(a, 1, 2, "Cleared", TRUE, Categorized), Row(b, 2, 2, "Reconciled", FALSE, Categorized),
   Row(a, 2, 2, "Uncleared", FALSE,
       [kind |-> "transfer", transfer |-> 1, other |-> b, otherAmount |-> -2])}

\* Cards in the order of their ids.
MCCards == <<b, l1>>

BooksInit ==
  \/ BooksStart
  \/ /\ subject = "books"
     /\ recalculateFrom = NoDate /\ records = <<>> /\ overridden = {} /\ patched = {}
     /\ service = "none" /\ calls = 0
     /\ accounts = (a :> MCOpen) @@ (b :> MCOpen) /\ issued = 2
     /\ \/ rows = MCTransfer /\ sessions = <<>>
        \/ /\ rows = MCTwo
           /\ sessions = (r1 :> MCSession(1, MCTwo, {1}, 0))
                         @@ (r2 :> MCSession(2, MCTwo, {1, 2}, 0))

MCSchedulesInit ==
  IF subject = "schedules" THEN SchedulesInit
  ELSE schedule = [start |-> 1, end |-> NoEnd, recurrence |-> [unit |-> "days", every |-> 2],
                   version |-> 1, active |-> FALSE]
       /\ occurrences = <<>> /\ entered = <<>> /\ today = 1

MCRulesInit == IF subject = "rules" THEN RulesInit ELSE rules = <<>> /\ approvals = <<>>

\* The commands that announce least and most.
MCMutations == {[kind |-> "transaction", month |-> 1], [kind |-> "assignment", month |-> 2],
                [kind |-> "category", month |-> 1]}
MCDeletes == [m \in MCMutations |-> IF m.kind = "category" THEN {c1} ELSE {}]

MCMonthOfDay == <<1, 1>>
MCFilesInit ==
  IF subject = "files" THEN FilesInit
  ELSE /\ live = NoFile /\ written = 0 /\ aside = {} /\ before = NoFile /\ backups = <<>>
       /\ process = "off" /\ writing = FALSE /\ task = <<>> /\ gone = {} /\ day = 1 /\ faults = 0

\* What others leave in settings.json: half a file, one of a newer release, and one of an
\* older release or edited by hand.
MCColumns == <<"date", "memo", "balance">>
MCSettings(version, order, invisible) ==
  [version |-> version, account |-> a,
   layout |-> [order |-> order, fine |-> [i \in DOMAIN order |-> i = 1], hidden |-> invisible]]
MCForeign == {Torn, MCSettings(4, MCColumns, {}),
              MCSettings(2, <<"memo", "junk", "memo">>, {"memo", "junk"})}

\* A checking account, a credit card and a loan; groceries and rent in their groups.
MCReportAccounts == (a :> "checking") @@ (b :> "credit_card") @@ (l1 :> "loan")
MCGroupOf == (c1 :> h1) @@ (c2 :> h2)
MCBody(kind, category) == [kind |-> kind, category |-> category]
MCSaved(account, date, payee, amount, body, stands) ==
  [account |-> account, date |-> date, payee |-> payee, amount |-> amount, body |-> body,
   archived |-> ~stands, voided |-> FALSE]
MCSplit == [kind |-> "split", lines |-> <<[category |-> c1, amount |-> -3],
                                          [category |-> c2, amount |-> 1]>>]
MCTransactions ==
  {MCSaved(a, 6, p1, -2, MCSplit, TRUE), MCSaved(b, 5, NullColumn, -1, MCBody("categorized", c1), TRUE),
   MCSaved(a, 6, p1, -1, MCBody("categorized", c1), FALSE),
   MCSaved(a, 4, NullColumn, 2, MCBody("opening", c1), TRUE),
   MCSaved(l1, 5, NullColumn, -2, MCBody("opening", NullColumn), TRUE),
   MCSaved(l1, 6, p1, 1, MCBody("transfer", NullColumn), TRUE)}
MCSavedTargets == {[category |-> c1, amount |-> 2], [category |-> c1, amount |-> NullColumn]}
MCControls(timeframe, accts, ids, cats, grps, payees) ==
  [timeframe |-> timeframe, custom |-> [start |-> 4, end |-> 5], accounts |-> accts,
   account_ids |-> ids, categories |-> cats, groups |-> grps, payees |-> payees]
MCReportControls ==
  {MCControls(t, "Both", {}, {}, {}, {}) :
     t \in {"LastMonth", "LastThreeMonths", "AllDates", "Custom"}}
  \cup {MCControls("AllDates", "OnBudget", {a, l1}, {}, {h1}, {}),
        MCControls("AllDates", "Tracking", {}, {}, {}, {}),
        MCControls("ThisYear", "Both", {}, {c1}, {}, {p1}),
        MCControls("ThisMonth", "Both", {b, l1}, {}, {h2}, {})}

MCField(name, kind, canonical) == [name |-> name, kind |-> kind, canonical |-> canonical]
MCSearchFields ==
  ("memo:" :> MCField("memo", "text", TRUE)) @@ ("amount:" :> MCField("amount", "amount", TRUE))
  @@ ("transfers:" :> MCField("transfer", "flag", FALSE))
  @@ ("transfer:" :> MCField("transfer", "flag", TRUE)) @@ ("cleared:" :> MCField("cleared", "flag", TRUE))
  @@ ("approved:" :> MCField("approved", "flag", TRUE))
  @@ ("uncategorized:" :> MCField("uncategorized", "flag", TRUE))
MCNumbers == "1" :> 1
MCChips == {[kind |-> "flag", name |-> "transfer", value |-> TRUE],
            [kind |-> "flag", name |-> "cleared", value |-> FALSE]}
MCPoolRow(date, category, splits, amount, clearance, approved) ==
  [memo |-> IF approved THEN <<"cleared:", "false", Blank, "transfer:", TrueWord>> ELSE <<>>,
   budget |-> report, account |-> a, date |-> date, payee |-> p1, category |-> category,
   splits |-> splits, amount |-> amount, clearance |-> clearance, approved |-> approved,
   transfer |-> amount > 1, imported |-> approved, archived |-> FALSE, voided |-> FALSE]
MCPool ==
  <<MCPoolRow(1, c1, {}, 1, "cleared", TRUE), MCPoolRow(2, NoValue, {}, 2, "uncleared", FALSE),
    MCPoolRow(2, NoValue, {c1, c2}, 0, "reconciled", TRUE),
    [MCPoolRow(1, c2, {}, 1, "cleared", TRUE) EXCEPT !.archived = TRUE],
    [MCPoolRow(2, c1, {}, 1, "uncleared", TRUE) EXCEPT !.account = b, !.payee = NoValue]>>
MCRegisterFilters ==
  {NoFilter, [NoFilter EXCEPT !.categories = {c1}], [NoFilter EXCEPT !.from = 2, !.payees = {p1}],
   [NoFilter EXCEPT !.through = 1, !.cleared = "cleared"],
   [NoFilter EXCEPT !.least = 1, !.most = 1, !.approval = TRUE]}

\* A split, a reconciled row of a retired category in a closed account, a transfer, a row
\* whose splits were not read, and a split at the end of Money.
MCDraftRow(id, amount, category, splits, guarded, transfer, whole) ==
  [id |-> id, account |-> a, amount |-> amount, category |-> category, splits |-> splits,
   reconciled |-> guarded, closed |-> guarded, transfer |-> transfer, whole |-> whole]
MCDraftRows ==
  {MCDraftRow(1, -1, NoneChosen, <<[category |-> c1, amount |-> -2], [category |-> c2, amount |-> 1]>>,
              FALSE, FALSE, TRUE),
   MCDraftRow(2, 2, c2, <<>>, TRUE, FALSE, TRUE), MCDraftRow(3, 1, NoneChosen, <<>>, FALSE, TRUE, TRUE),
   MCDraftRow(4, 1, NoneChosen, <<>>, FALSE, FALSE, FALSE),
   MCDraftRow(5, 2, NoneChosen, [i \in 1..3 |-> [category |-> c1, amount |-> <<-1, 2, 1>>[i]]],
              FALSE, FALSE, TRUE)}
MCLineTexts == {1, -1, Garbage}

MCRef(from, account, category, payee) ==
  [table |-> from, account |-> account, category |-> category, payee |-> payee, amount |-> 2]
\* A checking account and a card with its managed category, a group with a plain category,
\* a payee; rows that refer to each of them.
MCStart ==
  [accounts |-> (a :> [type |-> "checking", group |-> NoRef, closed |-> FALSE, favorite |-> TRUE])
                @@ (b :> [type |-> "credit_card", group |-> g1, closed |-> TRUE, favorite |-> FALSE]),
   categories |-> (c1 :> [group |-> h1, hidden |-> FALSE, archived |-> FALSE])
                  @@ (c2 :> [group |-> h1, hidden |-> FALSE, archived |-> FALSE]),
   groups |-> h1 :> [hidden |-> FALSE],
   payees |-> p1 :> [hidden |-> FALSE, category |-> NoRef],
   targets |-> <<>>, dismissed |-> FALSE,
   rows |-> {MCRef("credit_card_payment_categories", b, c2, NoRef)}]
MCReferences ==
  {MCRef("transactions", a, c1, p1), MCRef("subtransactions", NoRef, c1, NoRef),
   MCRef("budget_assignments", NoRef, c1, NoRef), MCRef("scheduled_transactions", a, c1, p1)}
MCKind(kind, amount, due, card) == [kind |-> kind, amount |-> amount, due |-> due, card |-> card]
MCKinds == {MCKind("balance", 5, NoRef, NoRef), MCKind("by_date", 5, 3, NoRef),
            MCKind("monthly", 2, NoRef, NoRef), MCKind("payoff", 0, 2, b)}

MCMoneyToAssign == {-3}

Init ==
  /\ subject \in Subjects /\ steps = 0
  /\ BooksInit /\ OrganizationInit /\ MCSchedulesInit /\ ImportsInit /\ MCRulesInit
  /\ BudgetInit /\ ScreenInit /\ AssignmentsInit /\ ViewsInit /\ RegisterInit /\ MCFilesInit /\ SettingsInit
  /\ IntentsInit /\ MasterInit(MCStart) /\ DraftInit /\ ReportsInit /\ QueryInit(IF subject = "search" THEN 1..4 ELSE {})

inMemory == <<books, forest, catalog, schedules, imports, ruleBook, assignments>>
onScreen == <<budget, screen, views, register, files, settingsFile>>
onTables == <<ledgerTables, registerQuery, draftVars, intents, masterData>>

InMemory ==
  \/ subject = "books" /\ BooksNext /\ UNCHANGED <<forest, catalog, schedules, imports, ruleBook, assignments>>
  \/ subject = "forest" /\ ForestNext /\ UNCHANGED <<books, catalog, schedules, imports, ruleBook, assignments>>
  \/ subject = "catalog" /\ CatalogNext /\ UNCHANGED <<books, forest, schedules, imports, ruleBook, assignments>>
  \/ subject = "schedules" /\ SchedulesNext /\ UNCHANGED <<books, forest, catalog, imports, ruleBook, assignments>>
  \/ subject = "imports" /\ ImportsNext /\ UNCHANGED <<books, forest, catalog, schedules, ruleBook, assignments>>
  \/ subject = "rules" /\ RulesNext /\ UNCHANGED <<books, forest, catalog, schedules, imports, assignments>>
  \/ /\ subject = "assignments" /\ AssignmentsNext
     /\ UNCHANGED <<books, forest, catalog, schedules, imports, ruleBook>>

OnScreen ==
  \/ subject = "budget" /\ BudgetNext /\ UNCHANGED <<screen, views, register, files, settingsFile>>
  \/ subject = "screen" /\ ScreenNext /\ UNCHANGED <<budget, views, register, files, settingsFile>>
  \/ subject = "views" /\ ViewsNext /\ UNCHANGED <<budget, screen, register, files, settingsFile>>
  \/ subject = "register" /\ RegisterNext /\ UNCHANGED <<budget, screen, views, files, settingsFile>>
  \/ subject = "files" /\ FilesNext /\ UNCHANGED <<budget, screen, views, register, settingsFile>>
  \/ subject = "settings" /\ SettingsNext /\ UNCHANGED <<budget, screen, views, register, files>>

OnTables ==
  \/ subject = "reports" /\ ReportsNext /\ UNCHANGED <<registerQuery, draftVars, intents, masterData>>
  \/ subject = "search" /\ SearchNext /\ UNCHANGED <<ledgerTables, draftVars, intents, masterData>>
  \/ subject = "batches" /\ StoreNext /\ UNCHANGED <<ledgerTables, draftVars, intents, masterData>>
  \/ subject = "draft" /\ DraftNext /\ UNCHANGED <<ledgerTables, registerQuery, intents, masterData>>
  \/ subject = "intents" /\ IntentsNext /\ UNCHANGED <<ledgerTables, registerQuery, draftVars, masterData>>
  \/ subject = "masterdata" /\ MasterNext /\ UNCHANGED <<ledgerTables, registerQuery, draftVars, intents>>

Next ==
  /\ UNCHANGED subject
  /\ IF subject = "schedules" THEN steps < MaxSteps /\ steps' = steps + 1 ELSE UNCHANGED steps
  /\ \/ InMemory /\ UNCHANGED <<onScreen, onTables>>
     \/ OnScreen /\ UNCHANGED <<inMemory, onTables>>
     \/ OnTables /\ UNCHANGED <<inMemory, onScreen>>

Spec == Init /\ [][Next]_<<subject, steps, inMemory, onScreen, onTables>>
=============================================================================
