------------------------------- MODULE Schedules -------------------------------
(***************************************************************************)
(* A scheduled transaction, the occurrences OccurrenceStore generates from *)
(* it and the transactions ScheduleService enters.  A date is a day number *)
(* of a small calendar; a recurrence is a number of days or of months.     *)
(* Occurrences are stored under their sequence number and found by an id   *)
(* that is a hash of the identity they were created with, so the identity  *)
(* itself stands for the id.                                               *)
(***************************************************************************)
EXTENDS Integers, Sequences, FiniteSets, SequencesExt, FiniteSetsExt, Functions

CONSTANTS
  MonthStarts,    \* the first day of each month of the calendar, and the day after its last
  Recurrences,    \* records [unit, every]: "days" or "months", and how many
  Starts, Ends,   \* start dates, and end dates or NoEnd, of the schedules entered
  LookAhead,      \* days refresh looks ahead
  NoEnd, OutOfRange,
  MaxVersion      \* bound: versions of the schedule

ASSUME CalendarAssumption == MonthStarts \in Seq(Nat) /\ MonthStarts # <<>>

VARIABLES
  schedule,       \* the ScheduledTransaction
  occurrences,    \* OccurrenceStore::values: sequence number -> occurrence
  entered,        \* the transactions entered, in order: [date, occurrence]
  today

schedules == <<schedule, occurrences, entered, today>>

-----------------------------------------------------------------------------
(* occurrence_date *)

LastDay == Last(MonthStarts) - 1
Calendar == 1..LastDay
MonthOf(date) == CHOOSE m \in 1..Len(MonthStarts) - 1 :
                   MonthStarts[m] <= date /\ date < MonthStarts[m + 1]

\* The day of the start date, or the last one of a month that is too short.
AddMonthsClamped(date, count) ==
  LET month == MonthOf(date) + count
      clamped == MonthStarts[month] + date - MonthStarts[MonthOf(date)]
  IN  IF month >= Len(MonthStarts) THEN OutOfRange
      ELSE IF clamped < MonthStarts[month + 1] THEN clamped ELSE MonthStarts[month + 1] - 1

AddDays(date, days) == IF date + days \in Calendar THEN date + days ELSE OutOfRange

Unbounded(s, n) == IF s.recurrence.unit = "days"
                   THEN AddDays(s.start, n * s.recurrence.every)
                   ELSE AddMonthsClamped(s.start, n * s.recurrence.every)
OccurrenceDate(s, n) ==
  LET date == Unbounded(s, n) IN
  IF date # OutOfRange /\ s.end # NoEnd /\ s.end < date THEN NoEnd ELSE date
-----------------------------------------------------------------------------
(* OccurrenceStore *)

Scheduled(date, version) == [kind |-> "scheduled", date |-> date, version |-> version]

\* refresh goes through the sequence numbers until a date is past the window, the end or
\* the calendar; what it inserted before an error stays.
Walk(s) ==
  LET goesOn(n) == LET d == OccurrenceDate(s, n) IN
                   d # OutOfRange /\ d # NoEnd /\ d <= today + LookAhead
      duplicate(n) == n \notin DOMAIN occurrences /\ \E k \in DOMAIN occurrences :
                        occurrences[k].identity = Scheduled(OccurrenceDate(s, n), s.version)
      looksAt(n) == /\ \A k \in 0..n : goesOn(k)
                    /\ \A k \in 0..n : today <= OccurrenceDate(s, k) => ~duplicate(k)
                    /\ today <= OccurrenceDate(s, n)
  IN  {n \in 0..LastDay : goesOn(n) /\ looksAt(n)}

Refresh ==
  LET created == Walk(schedule) \ DOMAIN occurrences
      occurrence(n) ==
        LET date == OccurrenceDate(schedule, n) IN
        [id |-> Scheduled(date, schedule.version), identity |-> Scheduled(date, schedule.version),
         date |-> date, disposition |-> "Pending", transaction |-> 0]
  IN  /\ schedule.active /\ today + LookAhead \in Calendar
      /\ occurrences' = [n \in DOMAIN occurrences \cup created |->
                           IF n \in created THEN occurrence(n) ELSE occurrences[n]]
      /\ UNCHANGED <<schedule, entered, today>>

\* pending_mut: the first pending occurrence, in sequence order, that has the id.
PendingWithMutant(id) == {n \in DOMAIN occurrences : occurrences[n].id = id}
PendingWith(id) == {n \in DOMAIN occurrences :
                      occurrences[n].id = id /\ occurrences[n].disposition = "Pending"}
Found(n, id) == PendingWith(id) # {} /\ n = Min(PendingWith(id))

\* skip; dismiss is the same with a name of its own
Skip(n) ==
  /\ Found(n, occurrences[n].id)
  /\ occurrences' = [occurrences EXCEPT ![n].disposition = "Skipped"]
  /\ UNCHANGED <<schedule, entered, today>>

ModifyBeforeEntry(n, date) ==
  /\ Found(n, occurrences[n].id)
  /\ occurrences' = [occurrences EXCEPT ![n].date = date,
       ![n].identity = [kind |-> "modified", original |-> occurrences[n].date,
                        date |-> date, version |-> n]]
  /\ UNCHANGED <<schedule, entered, today>>

\* The occurrence shown is the first with the id and has to be pending; the transaction
\* and the disposition are staged on a copy and written together.
EnterNow(n) ==
  LET id == occurrences[n].id IN
  /\ n = Min({k \in DOMAIN occurrences : occurrences[k].id = id})
  /\ occurrences[n].disposition = "Pending"
  /\ entered' = Append(entered, [date |-> occurrences[n].date, occurrence |-> n])
  /\ occurrences' = [occurrences EXCEPT ![n].disposition = "Entered",
                                           ![n].transaction = Len(entered) + 1]
  /\ UNCHANGED <<schedule, today>>
-----------------------------------------------------------------------------
(* ScheduleService *)

\* The version written is one more than the one the caller read, not the stored one.
EditSchedule(start, end, recurrence, read) ==
  LET edited == [schedule EXCEPT !.start = start, !.end = end, !.recurrence = recurrence,
                                 !.version = read + 1]
  IN  /\ read \in 1..schedule.version /\ read < MaxVersion
      /\ recurrence.every > 0 /\ OccurrenceDate(edited, 0) # OutOfRange
      /\ schedule' = edited
      /\ UNCHANGED <<occurrences, entered, today>>

\* activate and deactivate
SetActive(active) ==
  /\ schedule' = [schedule EXCEPT !.active = active]
  /\ UNCHANGED <<occurrences, entered, today>>

\* modify_series changes the amounts of pending occurrences, which are left out here.
ModifySeries(recurrence, end) ==
  /\ schedule.version < MaxVersion /\ recurrence.every > 0
  /\ end # NoEnd => schedule.start <= end
  /\ schedule' = [schedule EXCEPT !.version = @ + 1, !.recurrence = recurrence, !.end = end]
  /\ UNCHANGED <<occurrences, entered, today>>

NextDay == today < LastDay /\ today' = today + 1 /\ UNCHANGED <<schedule, occurrences, entered>>

SchedulesInit ==
  /\ \E start \in Starts, end \in Ends, recurrence \in Recurrences :
       /\ end # NoEnd => start <= end
       /\ schedule = [start |-> start, end |-> end, recurrence |-> recurrence,
                      version |-> 1, active |-> TRUE]
  /\ occurrences = <<>> /\ entered = <<>> /\ today = 1

SchedulesNext ==
  \/ Refresh
  \/ \E n \in DOMAIN occurrences :
       \/ Skip(n)
       \/ EnterNow(n)
       \/ \E date \in Starts : ModifyBeforeEntry(n, date)
  \/ \E recurrence \in Recurrences, end \in Ends :
       \/ ModifySeries(recurrence, end)
       \/ \E start \in Starts, read \in 1..MaxVersion : EditSchedule(start, end, recurrence, read)
  \/ \E active \in BOOLEAN : SetActive(active)
  \/ NextDay

SchedulesSpec == SchedulesInit /\ [][SchedulesNext]_schedules
-----------------------------------------------------------------------------
\* An occurrence is entered at most once, whatever edits, refreshes and modifications
\* come between: the transactions entered and the occurrences marked Entered correspond
\* one to one, and the date of each is the one the occurrence had.
EnteredOnce ==
  /\ \A n \in DOMAIN occurrences : occurrences[n].disposition = "Entered" =>
       /\ occurrences[n].transaction \in DOMAIN entered
       /\ entered[occurrences[n].transaction].occurrence = n
  /\ \A t \in DOMAIN entered :
       LET n == entered[t].occurrence IN
       /\ n \in DOMAIN occurrences /\ occurrences[n].disposition = "Entered"
       /\ occurrences[n].transaction = t
       /\ occurrences[n].date = entered[t].date
=============================================================================
