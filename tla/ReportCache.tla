----------------------------- MODULE ReportCache -----------------------------
(***************************************************************************)
(* The worker's cache of reports over the ledger that the commands of      *)
(* LedgerEdits change: WorkerOperation::Report of execute_operation        *)
(* (src/src/storage/worker.rs) with report_revision                        *)
(* (src/src/storage/query_store.rs).  One budget and one request, the net  *)
(* worth of the accounts; the clock and the rows of the report are not     *)
(* distinguished beyond the balances they show.                            *)
(***************************************************************************)
EXTENDS LedgerEdits, FiniteSetsExt

CONSTANT MaxReports   \* bound: reports asked for

VARIABLES
  entries,  \* ReportCache::entries: results with the revision they were made at
  shown,    \* the report on the screen
  asked     \* how many reports were asked for

reportVars == <<entries, shown, asked>>

NoReport == <<>>

ReportInit == Init /\ entries = {} /\ shown = NoReport /\ asked = 0

Tables == {"transactions", "accounts"}

\* The newest record of the change log that names the budget and a table the
\* report reads; 0 if there is none.
ReportRevision ==
  Max({0} \union {i \in DOMAIN changeLog :
                    changeLog[i].budget /\ changeLog[i].entity \in Tables})

NetWorth ==
  [a \in DOMAIN accounts |->
     MapThenSumSet(LAMBDA t : transactions[t].amount,
                   {t \in DOMAIN transactions : transactions[t].account = a})]

AskReport ==
  /\ asked < MaxReports
  /\ LET hits == {e \in entries : e.revision = ReportRevision} IN
       \/ /\ \E e \in hits : shown' = e.result
          /\ UNCHANGED entries
       \/ /\ hits = {}
          /\ shown' = NetWorth
          /\ entries' = {[revision |-> ReportRevision, result |-> NetWorth]}
  /\ asked' = asked + 1
  /\ UNCHANGED vars

ReportNext == AskReport \/ (Next /\ UNCHANGED reportVars)
ReportSpec == ReportInit /\ [][ReportNext]_<<vars, reportVars>>

\* Whatever was committed between two reports, the second one is a report on
\* the ledger as it is.  query_store.rs says of the revision, which decides
\* whether a cached report is served, that it changes when a table capable of
\* affecting the report is committed.
ReportsAreCurrent == [][AskReport => shown' = NetWorth]_<<vars, reportVars>>
=============================================================================
