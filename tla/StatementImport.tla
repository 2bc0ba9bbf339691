---------------------------- MODULE StatementImport ----------------------------
(***************************************************************************)
(* A statement import, from the staged rows to the committed batch:        *)
(* deduplication::classify, the review decisions of importing::workflow    *)
(* and preview, merchant rules, and ImportService::commit.  The unit of    *)
(* work it commits through is a trait without an implementation in the     *)
(* source; here it behaves as its comments ask of one, and the schema's    *)
(* unique pair of account and FITID (import_identities) is not counted on. *)
(***************************************************************************)
EXTENDS Integers, Sequences, FiniteSets, FiniteSetsExt, SequencesExt, Functions

CONSTANTS
  ImportFiles,    \* statements a user can import: sequences of statement rows
  Resembles,      \* of two payees: "same", "close" or "far" (similarity bands)
  NoId,           \* no FITID or source record identifier
  MaxImported     \* bound: imported rows in the ledger

ASSUME ImportsAssumption ==
  \A statement \in ImportFiles : Len(statement) \in Nat /\ DOMAIN statement = 1..Len(statement)

VARIABLES
  stage,          \* where ImportService::commit or the review is
  candidates,     \* the staged rows: [row, class, decision], and as history how many
                  \* imported rows the class was found against (known) and how it was
                  \* accepted (review: "none", "bulk", "alone" or "overridden")
  transaction,    \* rows inserted in the open database transaction
  imported,       \* rows imported earlier, as deduplication sees them
  archive,        \* what became of the source of the last batch
  reviews         \* history: of each imported row, what its review had said

imports == <<stage, candidates, transaction, imported, archive, reviews>>
-----------------------------------------------------------------------------
(* classify.  A row is [account, fitid, source, date, amount, payee]; its   *)
(* fingerprint is its account, date, amount and normalized payee.           *)

Fingerprint(row) == <<row.account, row.date, row.amount, row.payee>>

Rank(class) == CASE class = "ExactImportIdDuplicate" -> 0
                 [] class = "AccountMismatch" -> 1
                 [] class = "StrongDateAmountPayeeMatch" -> 2
                 [] class = "PossibleManualMatch" -> 3

IdClass(row, other) == IF other.account = row.account THEN "ExactImportIdDuplicate"
                                                      ELSE "AccountMismatch"
LikenessClass(row, other, class) == IF other.account = row.account THEN class
                                                                   ELSE "AccountMismatch"

Abs(n) == IF n < 0 THEN -n ELSE n

\* Every piece of evidence is a suggestion of its own: one row can be suggested by its
\* FITID, by its source record, by its fingerprint and by its likeness.
Suggestions(row, existing) ==
  LET similar(i, days, bands) == /\ existing[i].amount = row.amount
                                 /\ Abs(existing[i].date - row.date) <= days
                                 /\ Resembles[row.payee][existing[i].payee] \in bands
      Of(by, Test(_), Class(_)) == {[index |-> i, by |-> by, class |-> Class(i)] :
                                      i \in {k \in DOMAIN existing : Test(k)}}
  IN  Of("import_id", LAMBDA i : row.fitid # NoId /\ existing[i].fitid = row.fitid,
                      LAMBDA i : IdClass(row, existing[i]))
      \cup Of("source_record_id", LAMBDA i : row.source # NoId /\ existing[i].source = row.source,
                                  LAMBDA i : IdClass(row, existing[i]))
      \cup Of("fingerprint", LAMBDA i : Fingerprint(existing[i]) = Fingerprint(row),
                             LAMBDA i : "ExactImportIdDuplicate")
      \cup Of("likeness", LAMBDA i : similar(i, 1, {"same"}),
              LAMBDA i : LikenessClass(row, existing[i], "StrongDateAmountPayeeMatch"))
      \cup Of("likeness", LAMBDA i : similar(i, 3, {"same", "close"}) /\ ~similar(i, 1, {"same"}),
              LAMBDA i : LikenessClass(row, existing[i], "PossibleManualMatch"))

\* The best suggestion wins; two of the best rank are an ambiguity.
Classify(row, existing) ==
  LET all == Suggestions(row, existing)
      best == {s \in all : \A t \in all : Rank(s.class) <= Rank(t.class)}
  IN  IF all = {} THEN "New"
      ELSE IF Cardinality(best) > 1 THEN "AmbiguousMatch"
      ELSE (CHOOSE s \in best : TRUE).class
-----------------------------------------------------------------------------
(* Review *)

\* Staging: every row is classified against what is in the ledger, and none is decided.
Stage(statement) ==
  /\ stage = "idle"
  /\ stage' = "reviewing"
  /\ candidates' = [i \in DOMAIN statement |->
       [row |-> statement[i], class |-> Classify(statement[i], imported),
        decision |-> "Pending", known |-> Len(imported), review |-> "none"]]
  /\ UNCHANGED <<transaction, imported, archive, reviews>>

Reviewed(decision, how) == IF decision = "Accept" THEN how ELSE "none"

\* validate_decision: an exact duplicate is accepted only with an individual override.
\* (ImportPreview::decide and resolve_duplicate write a decision without asking it; like
\* it, only tests call them.)
Decide(i, decision, override) ==
  LET exact == candidates[i].class = "ExactImportIdDuplicate" IN
  /\ stage = "reviewing"
  /\ decision = "Accept" /\ exact => override
  /\ candidates' = [candidates EXCEPT ![i].decision = decision,
                                      ![i].review = Reviewed(decision, IF exact /\ override
                                                                       THEN "overridden" ELSE "alone")]
  /\ UNCHANGED <<stage, transaction, imported, archive, reviews>>

\* Mutant: a bulk accept is refused for the exact duplicates only.
DecideAllMutant(decision) ==
  /\ stage = "reviewing" /\ decision # "Match"
  /\ decision = "Accept" => \A i \in DOMAIN candidates :
                             candidates[i].class # "ExactImportIdDuplicate"
  /\ candidates' = [i \in DOMAIN candidates |->
                      [candidates[i] EXCEPT !.decision = decision,
                                            !.review = Reviewed(decision, "bulk")]]
  /\ UNCHANGED <<stage, transaction, imported, archive, reviews>>

\* apply_bulk: all new rows at once, or any rows ignored; a match is never bulk.
DecideAll(decision) ==
  /\ stage = "reviewing" /\ decision # "Match"
  /\ decision = "Accept" => \A i \in DOMAIN candidates : candidates[i].class = "New"
  /\ candidates' = [i \in DOMAIN candidates |->
                      [candidates[i] EXCEPT !.decision = decision,
                                            !.review = Reviewed(decision, "bulk")]]
  /\ UNCHANGED <<stage, transaction, imported, archive, reviews>>

\* apply_merchant_rule: a rule that matched puts the row back to pending.
ApplyRule(i) ==
  /\ stage = "reviewing"
  /\ candidates' = [candidates EXCEPT ![i].decision = "Pending", ![i].review = "none"]
  /\ UNCHANGED <<stage, transaction, imported, archive, reviews>>

\* The staged import is in memory only; it can be given up.
Discard ==
  /\ stage = "reviewing"
  /\ stage' = "idle" /\ candidates' = <<>>
  /\ UNCHANGED <<transaction, imported, archive, reviews>>
-----------------------------------------------------------------------------
(* ImportService::commit *)

TakeAccepted(taken, c) == IF c.decision = "Accept" THEN Append(taken, c) ELSE taken
Accepted == FoldLeft(TakeAccepted, <<>>, candidates)

\* pre_operation_backup, begin and insert_batch
Begin ==
  /\ stage = "reviewing" /\ Accepted # <<>>
  /\ Len(imported) + Len(Accepted) <= MaxImported
  /\ stage' = "inserting" /\ transaction' = <<>>
  /\ UNCHANGED <<candidates, imported, archive, reviews>>

InsertCandidate ==
  /\ stage = "inserting" /\ Len(transaction) < Len(Accepted)
  /\ transaction' = Append(transaction, Accepted[Len(transaction) + 1])
  /\ UNCHANGED <<stage, candidates, imported, archive, reviews>>

\* A failed call drops the transaction; the review is where it was.
FailDatabase ==
  /\ stage = "inserting"
  /\ stage' = "reviewing" /\ transaction' = <<>>
  /\ UNCHANGED <<candidates, imported, archive, reviews>>

ReviewOf(c) == [class |-> c.class, review |-> c.review, known |-> c.known]

Commit ==
  /\ stage = "inserting" /\ Len(transaction) = Len(Accepted)
  /\ stage' = "archiving" /\ transaction' = <<>>
  /\ imported' = imported \o [i \in DOMAIN transaction |-> transaction[i].row]
  /\ reviews' = reviews \o [i \in DOMAIN transaction |-> ReviewOf(transaction[i])]
  /\ UNCHANGED <<candidates, archive>>

\* The source is archived, or the batch is marked for a retry the user asks for.
Archive ==
  /\ stage = "archiving"
  /\ archive' \in {"Archived", "ArchivePending"}
  /\ stage' = "idle" /\ candidates' = <<>>
  /\ UNCHANGED <<transaction, imported, reviews>>

\* Neither archived nor marked: the call returns a database error as if nothing had been
\* committed, and the caller still holds the staged import: a second commit of it inserts
\* the same rows again, without another look at the ledger.
FailArchive ==
  /\ stage = "archiving"
  /\ archive' = "Lost" /\ stage' = "reviewing"
  /\ UNCHANGED <<candidates, transaction, imported, reviews>>

\* The application ends in the middle: only what was committed is left.
CrashDuringImport ==
  /\ stage \in {"inserting", "archiving"}
  /\ stage' = "idle" /\ candidates' = <<>> /\ transaction' = <<>>
  /\ archive' = IF stage = "archiving" THEN "Lost" ELSE archive
  /\ UNCHANGED <<imported, reviews>>

ImportsInit ==
  /\ stage = "idle" /\ candidates = <<>> /\ transaction = <<>> /\ imported = <<>>
  /\ archive = "none" /\ reviews = <<>>

ImportsNext ==
  \/ \E statement \in ImportFiles : Stage(statement)
  \/ \E i \in DOMAIN candidates :
       \/ \E decision \in {"Accept", "Ignore", "Match"}, override \in BOOLEAN :
            Decide(i, decision, override)
       \/ ApplyRule(i)
  \/ \E decision \in {"Accept", "Ignore", "Match"} : DecideAll(decision)
  \/ Discard \/ Begin \/ InsertCandidate \/ FailDatabase \/ Commit
  \/ Archive \/ FailArchive \/ CrashDuringImport

ImportsSpec == ImportsInit /\ [][ImportsNext]_imports
-----------------------------------------------------------------------------
\* Two statement rows are the same record: one fingerprint, or one FITID or source record
\* of one account.
SameRecord(row, other) ==
  \/ Fingerprint(row) = Fingerprint(other)
  \/ /\ row.account = other.account
     /\ \/ row.fitid # NoId /\ row.fitid = other.fitid
        \/ row.source # NoId /\ row.source = other.source

\* A record enters the ledger a second time only because someone said so of that row: over
\* any number of imports, failures, crashes and retries, a row that is the same record as
\* one imported before its statement was staged was shown as an exact duplicate and accepted
\* with the override ("ExactDuplicateOverrideRequired", workflow.rs:168), or as ambiguous
\* and accepted by itself, never in bulk (workflow.rs:185).  The FITID and the fingerprint
\* of one earlier row are two pieces of evidence, so a plain repetition is ambiguous and
\* asks for no override.  A statement is not compared with itself: it brings in the record
\* it lists twice, and all it has accepted when it is committed again after FailArchive.
DuplicatesAreChosen ==
  \A j \in DOMAIN imported : \A i \in 1..reviews[j].known :
    SameRecord(imported[j], imported[i]) =>
      \/ reviews[j].class = "ExactImportIdDuplicate" /\ reviews[j].review = "overridden"
      \/ reviews[j].class = "AmbiguousMatch" /\ reviews[j].review = "alone"
=============================================================================
