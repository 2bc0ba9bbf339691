----------------------------- MODULE LedgerFiles -----------------------------
(***************************************************************************)
(* The files of the data directory: the ledger at its fixed path, the      *)
(* managed backups, and the copies that repair and migration leave beside  *)
(* it.  Every operation is a sequence of file operations; each can fail    *)
(* and the process can be killed between any two.  The write-ahead log     *)
(* belongs to the ledger file: a worker that has stopped has folded it.    *)
(***************************************************************************)
EXTENDS Integers, Sequences, SequencesExt, FiniteSets, Functions

CONSTANTS
  NoFile,
  KeptManual, DailyDays, MonthlyDays,    \* the buckets of apply_retention: 10, 30, 366
  MonthOfDay,                            \* month of each day
  MaxWrites, MaxBackups, MaxFaults       \* bounds: commits, managed backups, faults

VARIABLES
  live,      \* mnab.sqlite3: [holds, budget, schema, quality] or NoFile
  aside,     \* complete copies beside it: preserved originals and safety backups
  before,    \* the pre-migration copy
  backups,   \* managed backups in the order of their creation
  process,   \* "off", "first_run", "recovery" or "ready"
  writing,   \* whether the worker runs
  task,      \* the file operation under way: [op, step, file], <<>> if none
  written,   \* commits made, each with a number of its own
  gone,      \* history: commits whose last copy went with an expired or unreadable backup
  day, faults

files == <<live, aside, before, backups, process, writing, task, written, gone, day, faults>>

\* A file holds commits, belongs to a budget (0: none yet) and is sound (2), passes
\* quick_check but not integrity_check (1), or neither (0).
Copies == [holds : SUBSET Nat, budget : Nat, schema : {1, 2}, quality : 0..2]
Empty == [holds |-> {}, budget |-> 0, schema |-> 2, quality |-> 2]

ASSUME FilesAssumption == NoFile \notin Copies

\* A new installation, or a ledger of an older release.
FilesInit ==
  /\ \/ live = NoFile /\ written = 0
     \/ live = [Empty EXCEPT !.holds = {1}, !.budget = 1, !.schema = 1] /\ written = 1
  /\ aside = {} /\ before = NoFile /\ backups = <<>>
  /\ process = "off" /\ writing = FALSE /\ task = <<>> /\ gone = {} /\ day = 1 /\ faults = 0

Fault == faults < MaxFaults /\ faults' = faults + 1
Idle == process = "ready" /\ task = <<>>
Proceed(op, step, file) == task' = [op |-> op, step |-> step, file |-> file]
At(op, step) == task # <<>> /\ task.op = op /\ task.step = step
-----------------------------------------------------------------------------
(* Opening *)

\* apply_startup: inspect needs a budget row; the suite is the full one unless the last
\* shutdown was clean.
OpenFile(thorough) ==
  /\ process = "off"
  /\ IF live = NoFile THEN process' = "first_run" /\ UNCHANGED task
     ELSE /\ process' = "recovery"
          /\ IF live.budget = 0 \/ live.quality < (IF thorough THEN 2 ELSE 1)
             THEN UNCHANGED task ELSE Proceed("open", "migrate", NoFile)
  /\ UNCHANGED <<live, aside, before, backups, writing, written, gone, day, faults>>

\* initialize_database: the file and its schema first, then everything else in one
\* transaction.
CreateFile ==
  /\ process = "first_run" /\ live = NoFile
  /\ live' = Empty
  /\ UNCHANGED <<aside, before, backups, process, writing, task, written, gone, day, faults>>

InitializeBudget ==
  /\ process = "first_run" /\ live # NoFile /\ live.budget = 0
  /\ written < MaxWrites /\ written' = written + 1
  /\ live' = [live EXCEPT !.holds = {written'}, !.budget = written']
  /\ process' = "ready" /\ writing' = TRUE
  /\ UNCHANGED <<aside, before, backups, task, gone, day, faults>>

\* StorageWorker::start: open_primary creates a missing file and migrates in one
\* transaction, after a verified copy that takes the place of the previous one.
StartWorker ==
  LET current == live = NoFile \/ live.schema = 2
      starts == current \/ live.quality = 2
  IN  /\ At("open", "migrate") /\ task' = <<>>
      /\ before' = IF current THEN before ELSE live
      /\ live' = IF live = NoFile THEN Empty
                 ELSE IF starts THEN [live EXCEPT !.schema = 2] ELSE live
      /\ writing' = starts
      /\ process' = IF starts THEN "ready" ELSE process
      /\ UNCHANGED <<aside, backups, written, gone, day, faults>>

Write ==
  /\ process = "ready" /\ writing /\ live # NoFile /\ live.budget # 0
  /\ written < MaxWrites /\ written' = written + 1
  /\ live' = [live EXCEPT !.holds = @ \cup {written'}]
  /\ UNCHANGED <<aside, before, backups, process, writing, task, gone, day, faults>>
-----------------------------------------------------------------------------
(* Managed backups.  One without its metadata is not known.                   *)

Good == {i \in DOMAIN backups : backups[i].known /\ backups[i].readable}

\* create_at copies the ledger as it is when the copy ends; quick_check decides.
BeginBackup(op, chosen) ==
  /\ live # NoFile /\ live.budget # 0 /\ Len(backups) < MaxBackups
  /\ Proceed(op, "copied", chosen)

CreateBackup ==
  /\ Idle /\ BeginBackup("backup", NoFile)
  /\ UNCHANGED <<live, aside, before, backups, process, writing, written, gone, day, faults>>

PublishBackup ==
  /\ task # <<>> /\ task.step = "copied" /\ live.quality > 0
  /\ backups' = Append(backups, [file |-> live, known |-> FALSE, readable |-> TRUE, day |-> day])
  /\ task' = [task EXCEPT !.step = "published"]
  /\ UNCHANGED <<live, aside, before, process, writing, written, gone, day, faults>>

WriteMetadata ==
  /\ task # <<>> /\ task.step = "published"
  /\ backups' = [backups EXCEPT ![Len(backups)].known = TRUE]
  /\ IF task.op = "backup" THEN task' = <<>> ELSE task' = [task EXCEPT !.step = "backed_up"]
  /\ UNCHANGED <<live, aside, before, process, writing, written, gone, day, faults>>

\* apply_retention, on the valid backups: the newest; then, each in the first bucket that
\* has room, the newest manual ones, one a day, one a month.  (Every backup the program
\* makes is manual or precedes an operation.)
Retained ==
  LET newestFirst == Reverse(SetToSortSeq(Good, <))
      newest == backups[Head(newestFirst)].day
      bucket(s, i) ==
        LET on == backups[i].day IN
        IF s.manual < KeptManual THEN [s EXCEPT !.keep = @ \cup {i}, !.manual = @ + 1]
        ELSE IF on >= newest - DailyDays /\ on \notin s.days
             THEN [s EXCEPT !.keep = @ \cup {i}, !.days = @ \cup {on}]
        ELSE IF on >= newest - MonthlyDays /\ MonthOfDay[on] \notin s.months
             THEN [s EXCEPT !.keep = @ \cup {i}, !.months = @ \cup {MonthOfDay[on]}]
        ELSE s
  IN  FoldLeft(bucket, [keep |-> {Head(newestFirst)}, manual |-> 0, days |-> {}, months |-> {}],
               Tail(newestFirst)).keep

HeldBy(copies) == UNION {copy.holds : copy \in copies \ {NoFile}}

ApplyRetention ==
  LET kept == {i \in DOMAIN backups : i \notin Good \/ i \in Retained} IN
  /\ Idle /\ Cardinality(Good) > 1 /\ kept # DOMAIN backups
  /\ \E order \in Bijection(1..Cardinality(kept), kept) :
       /\ \A k, l \in DOMAIN order : k < l => order[k] < order[l]
       /\ backups' = [k \in DOMAIN order |-> backups[order[k]]]
  /\ gone' = gone \cup HeldBy({backups[i].file : i \in DOMAIN backups \ kept})
  /\ UNCHANGED <<live, aside, before, process, writing, task, written, day, faults>>
-----------------------------------------------------------------------------
(* Restore and repair, with the worker stopped. *)

\* restore_fixed: a valid backup of this budget, a backup of the present ledger, a copy
\* that passes the complete diagnostics, and one rename over the ledger.
RestoreMutant(i) ==
  /\ Idle /\ i \in Good /\ live # NoFile /\ backups[i].file.budget = live.budget
  /\ Proceed("restore", "backed_up", backups[i].file) /\ writing' = FALSE
  /\ UNCHANGED <<live, aside, before, backups, process, written, gone, day, faults>>
Restore(i) ==
  /\ Idle /\ i \in Good
  /\ live # NoFile /\ backups[i].file.budget = live.budget
  /\ BeginBackup("restore", backups[i].file)
  /\ writing' = FALSE
  /\ UNCHANGED <<live, aside, before, backups, process, written, gone, day, faults>>

SwapRestored ==
  /\ At("restore", "backed_up") /\ task.file.quality = 2
  /\ live' = task.file /\ Proceed("open", "migrate", NoFile)
  /\ UNCHANGED <<aside, before, backups, process, writing, written, gone, day, faults>>

\* repair: a safety copy and a candidate that both pass, then two renames.
Repair ==
  /\ Idle /\ live # NoFile /\ live.budget # 0
  /\ Proceed("repair", "safety_copy", NoFile) /\ writing' = FALSE
  /\ UNCHANGED <<live, aside, before, backups, process, written, gone, day, faults>>

SafetyCopy ==
  /\ At("repair", "safety_copy")
  /\ aside' = aside \cup {live}
  /\ IF live.quality = 2 THEN Proceed("repair", "candidate", live) ELSE Proceed("open", "migrate", NoFile)
  /\ UNCHANGED <<live, before, backups, process, writing, written, gone, day, faults>>

Preserve ==
  /\ At("repair", "candidate")
  /\ aside' = aside \cup {live} /\ live' = NoFile
  /\ task' = [task EXCEPT !.step = "preserved"]
  /\ UNCHANGED <<before, backups, process, writing, written, gone, day, faults>>

SwapRepaired ==
  /\ At("repair", "preserved")
  /\ live' = task.file /\ Proceed("open", "migrate", NoFile)
  /\ UNCHANGED <<aside, before, backups, process, writing, written, gone, day, faults>>

\* The replacement failed and the original is renamed back, or that fails too.
RollBack ==
  /\ Fault /\ At("repair", "preserved")
  /\ \/ live' = task.file \/ UNCHANGED live
  /\ Proceed("open", "migrate", NoFile)
  /\ UNCHANGED <<aside, before, backups, process, writing, written, gone, day>>

\* Any other step fails: what it was writing is removed, and the worker is started again
\* on whatever is there.  A backup that was published without metadata is removed.
FailTask ==
  /\ task # <<>> /\ task.step # "preserved"
  /\ \/ Fault
     \/ /\ \/ task.step = "copied" /\ live.quality = 0
           \/ task.step = "backed_up" /\ task.file.quality < 2
        /\ UNCHANGED faults
  /\ backups' = IF task.step = "published" THEN Front(backups) ELSE backups
  /\ IF task.op \in {"backup", "open"} THEN task' = <<>> ELSE Proceed("open", "migrate", NoFile)
  /\ UNCHANGED <<live, aside, before, process, writing, written, gone, day>>
-----------------------------------------------------------------------------
(* What happens to the files from outside. *)

\* Killed, or closed between operations.
Stop ==
  /\ process # "off" /\ process' = "off" /\ writing' = FALSE /\ task' = <<>>
  /\ UNCHANGED <<live, aside, before, backups, written, gone, day, faults>>

DamageLedger ==
  /\ Fault /\ live # NoFile /\ live.quality > 0
  /\ \E worse \in 0..(live.quality - 1) : live' = [live EXCEPT !.quality = worse]
  /\ UNCHANGED <<aside, before, backups, process, writing, task, written, gone, day>>

LoseBackup(i) ==
  /\ Fault /\ backups[i].readable
  /\ backups' = [backups EXCEPT ![i].readable = FALSE]
  /\ gone' = gone \cup backups[i].file.holds
  /\ UNCHANGED <<live, aside, before, process, writing, task, written, day>>

PassDay ==
  /\ Idle /\ day < Len(MonthOfDay) /\ day' = day + 1
  /\ UNCHANGED <<live, aside, before, backups, process, writing, task, written, gone, faults>>

FilesNext ==
  \/ \E thorough \in BOOLEAN : OpenFile(thorough)
  \/ CreateFile \/ InitializeBudget \/ StartWorker \/ Write
  \/ CreateBackup \/ PublishBackup \/ WriteMetadata \/ ApplyRetention
  \/ \E i \in DOMAIN backups : Restore(i) \/ LoseBackup(i)
  \/ SwapRestored \/ Repair \/ SafetyCopy \/ Preserve \/ SwapRepaired \/ RollBack \/ FailTask
  \/ Stop \/ DamageLedger \/ PassDay

FilesSpec == FilesInit /\ [][FilesNext]_files
-----------------------------------------------------------------------------
\* No operation on the files loses a commit: wherever a backup, a restore, a repair, a
\* migration or a first run is killed or fails, every commit ever made is in a complete
\* file of the data directory, be it the ledger, a copy beside it or a known backup, unless
\* the last such copy was a backup that expired or became unreadable.
LedgerFileSurvives ==
  (1..written) \ gone \subseteq
    HeldBy({live, before} \cup aside \cup {backups[i].file : i \in Good})
=============================================================================
