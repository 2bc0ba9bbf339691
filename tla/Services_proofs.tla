---------------------------- MODULE Services_proofs ----------------------------
(***************************************************************************)
(* Proofs about the services of schedules, of merchant rules, of account   *)
(* groups and of the category catalog, about the records transactions      *)
(* refer to, and about the files a session leaves behind (the ledger and   *)
(* its copies, the settings), for any number of calls, commits, backups    *)
(* and faults.                                                             *)
(***************************************************************************)
EXTENDS Schedules, MerchantRules, Organization, LedgerFiles, SettingsFile, MasterData, SequenceTheorems, SetLemmas

-----------------------------------------------------------------------------
(* Scheduled transactions *)

IsOccurrence(o) ==
  o = [id |-> o.id, identity |-> o.identity, date |-> o.date,
       disposition |-> o.disposition, transaction |-> o.transaction]

\* How modify_before_entry writes an occurrence.
LEMMA OccurrenceModified ==
  ASSUME NEW o, IsOccurrence(o), NEW x, NEW y
  PROVE  [o EXCEPT !.date = x, !.identity = y] =
           [id |-> o.id, identity |-> y, date |-> x,
            disposition |-> o.disposition, transaction |-> o.transaction]
<1>1. PICK q : q = [o EXCEPT !.date = x]
  OBVIOUS
<1>2. q = [id |-> o.id, identity |-> o.identity, date |-> x,
           disposition |-> o.disposition, transaction |-> o.transaction]
  BY <1>1 DEF IsOccurrence
<1>3. [q EXCEPT !.identity = y] = [id |-> o.id, identity |-> y, date |-> x,
                                   disposition |-> o.disposition, transaction |-> o.transaction]
  BY <1>2
<1> QED
  BY <1>1, <1>3

\* The numbered occurrences are finitely many, so that pending_mut finds a first one.
OccurrencesOK ==
  /\ IsFiniteSet(DOMAIN occurrences)
  /\ DOMAIN occurrences \subseteq Int
  /\ occurrences = [n \in DOMAIN occurrences |-> occurrences[n]]
  /\ \A n \in DOMAIN occurrences : IsOccurrence(occurrences[n])

ScheduleInv ==
  /\ OccurrencesOK
  /\ \E D : entered \in Seq(D)
  /\ EnteredOnce

\* The occurrence that skip, dismiss and modify_before_entry change is pending.
LEMMA FoundIsPending ==
  ASSUME OccurrencesOK, NEW n \in DOMAIN occurrences, Found(n, occurrences[n].id)
  PROVE  occurrences[n].disposition = "Pending"
<1> DEFINE P == PendingWith(occurrences[n].id)
<1>1. P \subseteq DOMAIN occurrences
  BY DEF PendingWith
<1>2. IsFiniteSet(P) /\ P \subseteq Int
  BY <1>1, FS_Subset DEF OccurrencesOK
<1>3. P # {} /\ n = Min(P)
  BY DEF Found
<1>4. n \in P
  <2> HIDE DEF P
  <2> QED
    BY <1>2, <1>3, MinExists
<1> QED
  BY <1>4 DEF PendingWith

\* A pending occurrence that gives way to one that is not Entered either, and is at its
\* number, disturbs no entry.
LEMMA PendingChanged ==
  ASSUME ScheduleInv, NEW n \in DOMAIN occurrences, occurrences[n].disposition = "Pending",
         NEW o, IsOccurrence(o), o.disposition # "Entered",
         occurrences' = [occurrences EXCEPT ![n] = o], UNCHANGED entered
  PROVE  ScheduleInv'
<1>1. DOMAIN occurrences' = DOMAIN occurrences
  OBVIOUS
<1>2. \A k \in DOMAIN occurrences : occurrences'[k] = IF k = n THEN o ELSE occurrences[k]
  BY DEF ScheduleInv, OccurrencesOK
<1>3. OccurrencesOK'
  BY <1>1, <1>2 DEF ScheduleInv, OccurrencesOK, IsOccurrence
<1>4. EnteredOnce'
  BY <1>1, <1>2 DEF ScheduleInv, EnteredOnce
<1> QED
  BY <1>3, <1>4 DEF ScheduleInv

\* refresh adds pending occurrences under numbers that are free.
LEMMA RefreshKeepsEntries ==
  ASSUME ScheduleInv, Refresh
  PROVE  ScheduleInv'
<1> DEFINE created == Walk(schedule) \ DOMAIN occurrences
<1>1. IsFiniteSet(created) /\ created \subseteq Int
  <2>1. LastDay \in Int
    BY CalendarAssumption DEF LastDay, Last
  <2>2. IsFiniteSet(0..LastDay)
    BY <2>1, FS_Interval
  <2>3. created \subseteq 0..LastDay
    BY DEF Walk
  <2> QED
    BY <2>1, <2>2, <2>3, FS_Subset
<1>2. DOMAIN occurrences' = DOMAIN occurrences \cup created
  BY DEF Refresh
<1>3. occurrences' = [n \in DOMAIN occurrences' |-> occurrences'[n]]
  BY DEF Refresh
<1>4. ASSUME NEW n \in DOMAIN occurrences PROVE occurrences'[n] = occurrences[n]
  BY <1>4 DEF Refresh
<1>5. ASSUME NEW n \in created
      PROVE  IsOccurrence(occurrences'[n]) /\ occurrences'[n].disposition = "Pending"
  BY <1>5 DEF Refresh, IsOccurrence
<1>6. UNCHANGED entered
  BY DEF Refresh
<1> HIDE DEF created
<1>7. IsFiniteSet(DOMAIN occurrences')
  BY <1>1, <1>2, FS_Union DEF ScheduleInv, OccurrencesOK
<1>8. OccurrencesOK'
  BY <1>1, <1>2, <1>3, <1>4, <1>5, <1>7 DEF ScheduleInv, OccurrencesOK, IsOccurrence
<1>9. EnteredOnce'
  BY <1>2, <1>4, <1>5, <1>6 DEF ScheduleInv, EnteredOnce
<1> QED
  BY <1>6, <1>8, <1>9 DEF ScheduleInv

\* enter_now appends the one transaction of a pending occurrence.
LEMMA EnterNowEnters ==
  ASSUME ScheduleInv, NEW n \in DOMAIN occurrences, EnterNow(n)
  PROVE  ScheduleInv'
<1> DEFINE t == Len(entered) + 1
           e == [date |-> occurrences[n].date, occurrence |-> n]
<1>1. /\ occurrences[n].disposition = "Pending"
      /\ entered' = Append(entered, e)
      /\ occurrences' = [occurrences EXCEPT ![n].disposition = "Entered", ![n].transaction = t]
  BY DEF EnterNow
<1>2. PICK D : entered \in Seq(D)
  BY DEF ScheduleInv
<1>3. entered \in Seq(D \cup {e}) /\ e \in D \cup {e}
  BY <1>2, SeqMonotonic
<1>4. entered' \in Seq(D \cup {e})
  BY <1>1, <1>3, AppendProperties
<1>5. Len(entered) \in Nat /\ DOMAIN entered = 1..Len(entered) /\ Len(entered') = Len(entered) + 1
  BY <1>1, <1>3, AppendProperties, LenProperties
<1>6. DOMAIN entered' = 1..Len(entered')
  BY <1>4, LenProperties
<1>7. DOMAIN entered' = DOMAIN entered \cup {t} /\ t \notin DOMAIN entered
  BY <1>5, <1>6
<1>8. \A i \in DOMAIN entered : entered'[i] = entered[i]
  BY <1>1, <1>3, <1>5, AppendProperties
<1>9. entered'[t] = e
  BY <1>1, <1>3, <1>5, AppendProperties
<1>10. DOMAIN occurrences' = DOMAIN occurrences
  BY <1>1
<1>11. \A k \in DOMAIN occurrences : k # n => occurrences'[k] = occurrences[k]
  BY <1>1 DEF ScheduleInv, OccurrencesOK
<1>12. /\ IsOccurrence(occurrences'[n])
       /\ occurrences'[n].disposition = "Entered"
       /\ occurrences'[n].transaction = t
       /\ occurrences'[n].date = occurrences[n].date
  <2>1. IsOccurrence(occurrences[n])
    BY DEF ScheduleInv, OccurrencesOK
  <2>2. PICK f : f = [occurrences EXCEPT ![n].disposition = "Entered"]
    OBVIOUS
  <2>3. n \in DOMAIN f
    BY <2>2
  <2>4. f[n] = [id |-> occurrences[n].id, identity |-> occurrences[n].identity,
                date |-> occurrences[n].date, disposition |-> "Entered",
                transaction |-> occurrences[n].transaction]
    BY <2>1, <2>2 DEF IsOccurrence
  <2>5. occurrences' = [f EXCEPT ![n].transaction = t]
    BY <1>1, <2>2
  <2>6. occurrences'[n] = [id |-> occurrences[n].id, identity |-> occurrences[n].identity,
                           date |-> occurrences[n].date, disposition |-> "Entered",
                           transaction |-> t]
    BY <2>3, <2>4, <2>5
  <2> QED
    BY <2>6 DEF IsOccurrence
<1>13. e.occurrence = n /\ e.date = occurrences[n].date
  OBVIOUS
<1> HIDE DEF t, e
<1>14. OccurrencesOK'
  <2>1. occurrences' = [k \in DOMAIN occurrences' |-> occurrences'[k]]
    BY <1>1
  <2>2. \A k \in DOMAIN occurrences' : IsOccurrence(occurrences'[k])
    BY <1>10, <1>11, <1>12 DEF ScheduleInv, OccurrencesOK
  <2> QED
    BY <1>10, <2>1, <2>2 DEF ScheduleInv, OccurrencesOK, IsOccurrence
<1>15. EnteredOnce'
  <2>1. \A k \in DOMAIN occurrences' : occurrences'[k].disposition = "Entered" =>
          /\ occurrences'[k].transaction \in DOMAIN entered'
          /\ entered'[occurrences'[k].transaction].occurrence = k
    BY <1>7, <1>8, <1>9, <1>10, <1>11, <1>12, <1>13 DEF ScheduleInv, EnteredOnce
  <2>2. ASSUME NEW i \in DOMAIN entered, NEW k, k = entered[i].occurrence
        PROVE  /\ k \in DOMAIN occurrences /\ k # n /\ occurrences[k].disposition = "Entered"
               /\ occurrences[k].transaction = i /\ occurrences[k].date = entered[i].date
    BY <1>1, <2>2 DEF ScheduleInv, EnteredOnce
  <2>3. ASSUME NEW i \in DOMAIN entered', NEW k, k = entered'[i].occurrence
        PROVE  /\ k \in DOMAIN occurrences' /\ occurrences'[k].disposition = "Entered"
               /\ occurrences'[k].transaction = i /\ occurrences'[k].date = entered'[i].date
    BY <1>7, <1>8, <1>9, <1>10, <1>11, <1>12, <1>13, <2>2, <2>3
  <2> QED
    BY <2>1, <2>3 DEF EnteredOnce
<1> QED
  BY <1>4, <1>14, <1>15 DEF ScheduleInv

\* EnteredOnce: enter_now, refresh, the edits of the series and of single occurrences never
\* make two transactions of one occurrence, nor change the date of one that was entered.
THEOREM OccurrencesEnterOnce == SchedulesSpec => []EnteredOnce
<1>1. SchedulesInit => ScheduleInv
  <2> SUFFICES ASSUME SchedulesInit PROVE ScheduleInv
    OBVIOUS
  <2>1. DOMAIN occurrences = {} /\ DOMAIN entered = {}
    BY DEF SchedulesInit
  <2>2. occurrences = [n \in DOMAIN occurrences |-> occurrences[n]]
    BY DEF SchedulesInit
  <2>3. entered \in Seq({})
    BY DEF SchedulesInit
  <2>4. IsFiniteSet({})
    BY FS_EmptySet
  <2> QED
    BY <2>1, <2>2, <2>3, <2>4 DEF ScheduleInv, OccurrencesOK, EnteredOnce
<1>2. ScheduleInv /\ [SchedulesNext]_schedules => ScheduleInv'
  <2> SUFFICES ASSUME ScheduleInv, [SchedulesNext]_schedules PROVE ScheduleInv'
    OBVIOUS
  <2>1. CASE Refresh
    BY <2>1, RefreshKeepsEntries
  <2>2. ASSUME NEW n \in DOMAIN occurrences, Skip(n) PROVE ScheduleInv'
    <3> DEFINE o == [occurrences[n] EXCEPT !.disposition = "Skipped"]
    <3>1. IsOccurrence(o) /\ o.disposition # "Entered"
      BY DEF ScheduleInv, OccurrencesOK, IsOccurrence
    <3>2. occurrences' = [occurrences EXCEPT ![n] = o] /\ UNCHANGED entered
      BY <2>2 DEF Skip
    <3>3. occurrences[n].disposition = "Pending"
      BY <2>2, FoundIsPending DEF Skip, ScheduleInv
    <3> HIDE DEF o
    <3> QED
      BY <3>1, <3>2, <3>3, PendingChanged
  <2>3. ASSUME NEW n \in DOMAIN occurrences, NEW date \in Starts, ModifyBeforeEntry(n, date)
        PROVE  ScheduleInv'
    <3> DEFINE o == [occurrences[n] EXCEPT !.date = date,
                       !.identity = [kind |-> "modified", original |-> occurrences[n].date,
                                     date |-> date, version |-> n]]
    <3>1. occurrences[n].disposition = "Pending"
      BY <2>3, FoundIsPending DEF ModifyBeforeEntry, ScheduleInv
    <3>4. IsOccurrence(occurrences[n])
      BY DEF ScheduleInv, OccurrencesOK
    <3> DEFINE identity == [kind |-> "modified", original |-> occurrences[n].date,
                            date |-> date, version |-> n]
    <3>5. o = [id |-> occurrences[n].id, identity |-> identity, date |-> date,
               disposition |-> occurrences[n].disposition,
               transaction |-> occurrences[n].transaction]
      <4> HIDE DEF identity
      <4>1. [occurrences[n] EXCEPT !.date = date, !.identity = identity] =
              [id |-> occurrences[n].id, identity |-> identity, date |-> date,
               disposition |-> occurrences[n].disposition,
               transaction |-> occurrences[n].transaction]
        BY <3>4, OccurrenceModified
      <4> QED
        BY <4>1 DEF identity
    <3>2. IsOccurrence(o) /\ o.disposition # "Entered"
      <4> HIDE DEF o, identity
      <4> QED
        BY <3>1, <3>5 DEF IsOccurrence
    <3>3. occurrences' = [occurrences EXCEPT ![n] = o] /\ UNCHANGED entered
      BY <2>3 DEF ModifyBeforeEntry
    <3> HIDE DEF o
    <3> QED
      BY <3>1, <3>2, <3>3, PendingChanged
  <2>4. ASSUME NEW n \in DOMAIN occurrences, EnterNow(n) PROVE ScheduleInv'
    BY <2>4, EnterNowEnters
  <2>5. CASE UNCHANGED <<occurrences, entered>>
    BY <2>5 DEF ScheduleInv, OccurrencesOK, IsOccurrence, EnteredOnce
  <2>6. ASSUME NEW recurrence \in Recurrences, NEW end \in Ends, ModifySeries(recurrence, end)
        PROVE  UNCHANGED <<occurrences, entered>>
    BY <2>6 DEF ModifySeries
  <2>7. ASSUME NEW recurrence \in Recurrences, NEW end \in Ends, NEW start \in Starts,
               NEW read \in 1..MaxVersion, EditSchedule(start, end, recurrence, read)
        PROVE  UNCHANGED <<occurrences, entered>>
    BY <2>7 DEF EditSchedule
  <2>8. ASSUME NEW active \in BOOLEAN, SetActive(active) PROVE UNCHANGED <<occurrences, entered>>
    BY <2>8 DEF SetActive
  <2>9. NextDay \/ UNCHANGED schedules => UNCHANGED <<occurrences, entered>>
    BY DEF NextDay, schedules
  <2> QED
    BY <2>1, <2>2, <2>3, <2>4, <2>5, <2>6, <2>7, <2>8, <2>9 DEF SchedulesNext
<1>3. ScheduleInv => EnteredOnce
  BY DEF ScheduleInv
<1> QED
  BY <1>1, <1>2, <1>3, PTL DEF SchedulesSpec
-----------------------------------------------------------------------------
(* Merchant rules *)

Outcomes == Merchants \X RuleAccounts \X RuleCategories
OutcomeOf(rule) == <<rule.merchant, rule.account, rule.category>>
TimesApproved(outcome) == {k \in DOMAIN approvals : approvals[k] = outcome}

\* A learned rule is about one account, has counted no more approvals than there were of its
\* outcome, and is trusted from the third.
Earned(rule) ==
  rule.origin = "Learned" =>
    /\ rule.account \in RuleAccounts
    /\ rule.usage <= Cardinality(TimesApproved(OutcomeOf(rule)))
    /\ rule.confidence = "High" => rule.usage >= 3

RulesInv ==
  /\ rules \in Seq(MerchantRule)
  /\ approvals \in Seq(Outcomes)
  /\ \A i \in DOMAIN rules : Earned(rules[i])

\* With no rule and no approval nothing is owed.
LEMMA RulesStart == RulesInit => RulesInv
<1> SUFFICES ASSUME RulesInit PROVE RulesInv
  OBVIOUS
<1>1. rules \in Seq(MerchantRule) /\ \A i \in DOMAIN rules : rules[i].origin = "Explicit"
  BY RulesAssumption DEF RulesInit
<1>2. \A i \in DOMAIN rules : Earned(rules[i])
  BY <1>1 DEF Earned
<1>3. approvals = <<>>
  BY DEF RulesInit
<1>4. approvals \in Seq(Outcomes)
  BY <1>3
<1> QED
  BY <1>1, <1>2, <1>4 DEF RulesInv

\* An approval is counted for its outcome and takes no other's away.
LEMMA ApprovalCounts ==
  ASSUME NEW new \in Outcomes, approvals \in Seq(Outcomes), approvals' = Append(approvals, new)
  PROVE  /\ approvals' \in Seq(Outcomes)
         /\ \A o \in Outcomes :
              /\ Cardinality(TimesApproved(o)) \in Nat
              /\ Cardinality(TimesApproved(o)') >= Cardinality(TimesApproved(o))
         /\ Cardinality(TimesApproved(new)') = Cardinality(TimesApproved(new)) + 1
<1>1. PICK after : after = Append(approvals, new)
  OBVIOUS
<1>2. after \in Seq(Outcomes)
  BY <1>1, AppendProperties
<1>3. Len(after) = Len(approvals) + 1
  BY <1>1, AppendProperties
<1>4. \A k \in 1..Len(approvals) : after[k] = approvals[k]
  BY <1>1, AppendProperties
<1>5. after[Len(approvals) + 1] = new
  BY <1>1, AppendProperties
<1>6. /\ Len(approvals) \in Nat /\ DOMAIN approvals = 1..Len(approvals)
      /\ DOMAIN after = 1..(Len(approvals) + 1)
  BY <1>2, <1>3, LenProperties
<1>7. PICK n : n = Len(approvals)
  OBVIOUS
<1>8. ASSUME NEW o \in Outcomes
      PROVE  LET was == {k \in DOMAIN approvals : approvals[k] = o}
                 is == {k \in DOMAIN after : after[k] = o}
             IN  /\ Cardinality(was) \in Nat
                 /\ Cardinality(is) = IF o = new THEN Cardinality(was) + 1 ELSE Cardinality(was)
  <2>1. PICK was : was = {k \in 1..n : approvals[k] = o}
    OBVIOUS
  <2>2. IsFiniteSet(was)
    <3>1. IsFiniteSet(1..n)
      BY <1>6, <1>7, FS_Interval
    <3>2. was \in SUBSET (1..n)
      BY <2>1
    <3> QED
      BY <3>1, <3>2, FS_Subset
  <2>3. PICK is : is = {k \in 1..(n + 1) : after[k] = o}
    OBVIOUS
  <2>4. n + 1 \notin was
    BY <1>6, <1>7, <2>1
  <2>5. is = IF o = new THEN was \cup {n + 1} ELSE was
    <3>1. \A k \in 1..(n + 1) : k \in 1..n \/ k = n + 1
      BY <1>6, <1>7
    <3>2. \A k \in 1..n : k \in 1..(n + 1) /\ after[k] = approvals[k]
      BY <1>4, <1>6, <1>7
    <3>3. n + 1 \in 1..(n + 1) /\ after[n + 1] = new
      BY <1>5, <1>6, <1>7
    <3> QED
      BY <2>1, <2>3, <3>1, <3>2, <3>3
  <2>6. Cardinality(was) \in Nat
    BY <2>2, FS_CardinalityType
  <2>7. Cardinality(was \cup {n + 1}) = Cardinality(was) + 1
    BY <2>2, <2>4, FS_AddElement
  <2>8. Cardinality(is) = IF o = new THEN Cardinality(was) + 1 ELSE Cardinality(was)
    BY <2>5, <2>7
  <2> QED
    BY <1>6, <1>7, <2>1, <2>3, <2>6, <2>8
<1>9. approvals' = after
  BY <1>1
<1>10. \A o : TimesApproved(o) = {k \in DOMAIN approvals : approvals[k] = o}
  BY DEF TimesApproved
<1>11. \A o : TimesApproved(o)' = {k \in DOMAIN after : after[k] = o}
  BY <1>9 DEF TimesApproved
<1>12. \A o \in Outcomes :
         /\ Cardinality(TimesApproved(o)) \in Nat
         /\ Cardinality(TimesApproved(o)') = IF o = new THEN Cardinality(TimesApproved(o)) + 1
                                             ELSE Cardinality(TimesApproved(o))
  BY <1>8, <1>10, <1>11
<1>13. \A c, d \in Nat : d = c + 1 \/ d = c => d >= c
  OBVIOUS
<1> QED
  BY <1>2, <1>9, <1>12, <1>13
\* What was earned stays earned.
LEMMA EarnedStays ==
  ASSUME NEW new \in Outcomes, approvals \in Seq(Outcomes), approvals' = Append(approvals, new),
         NEW rule \in MerchantRule, Earned(rule)
  PROVE  Earned(rule)'
<1>1. CASE rule.origin # "Learned"
  BY <1>1 DEF Earned
<1>2. CASE rule.origin = "Learned"
  <2>1. PICK o : o = OutcomeOf(rule)
    OBVIOUS
  <2>2. /\ rule.account \in RuleAccounts
        /\ rule.usage <= Cardinality(TimesApproved(o))
        /\ rule.confidence = "High" => rule.usage >= 3
    BY <1>2, <2>1 DEF Earned
  <2>3. o \in Outcomes /\ rule.usage \in Nat
    BY <2>1, <2>2 DEF OutcomeOf, Outcomes, MerchantRule
  <2>4. Cardinality(TimesApproved(o)) \in Nat /\ Cardinality(TimesApproved(o)') >= Cardinality(TimesApproved(o))
    BY <2>3, ApprovalCounts
  <2>5. Cardinality(TimesApproved(o)') \in Int
    <3>1. Cardinality(TimesApproved(o)') \in Nat
      <4>1. IsFiniteSet(TimesApproved(o)')
        <5>1. approvals' \in Seq(Outcomes)
          BY ApprovalCounts
        <5>2. DOMAIN approvals' = 1..Len(approvals') /\ Len(approvals') \in Nat
          BY <5>1, LenProperties
        <5>3. IsFiniteSet(DOMAIN approvals')
          BY <5>2, FS_Interval
        <5>4. TimesApproved(o)' \subseteq DOMAIN approvals'
          BY DEF TimesApproved
        <5> QED
          BY <5>3, <5>4, FS_Subset
      <4> QED
        BY <4>1, FS_CardinalityType
    <3> QED
      BY <3>1
  <2>6. rule.usage <= Cardinality(TimesApproved(o)')
    BY <2>2, <2>3, <2>4, <2>5
  <2>7. Cardinality(TimesApproved(o)') = Cardinality(TimesApproved(OutcomeOf(rule)))'
    BY <2>1 DEF TimesApproved
  <2> QED
    BY <2>2, <2>6, <2>7 DEF Earned, OutcomeOf
<1> QED
  BY <1>1, <1>2

\* An approval confirms the rule it finds, or starts one.
LEMMA ApprovalEarns ==
  ASSUME NEW m \in Merchants, NEW a \in RuleAccounts, NEW c \in RuleCategories,
         RulesInv, RecordApproved(m, a, c)
  PROVE  RulesInv'
<1>1. PICK new : new = <<m, a, c>>
  OBVIOUS
<1>2. new \in Outcomes /\ approvals \in Seq(Outcomes) /\ approvals' = Append(approvals, new)
  BY <1>1 DEF RulesInv, RecordApproved, Outcomes
<1>3. approvals' \in Seq(Outcomes)
  BY <1>2, ApprovalCounts
<1>4. Cardinality(TimesApproved(new)) \in Nat
      /\ Cardinality(TimesApproved(new)') = Cardinality(TimesApproved(new)) + 1
  BY <1>2, ApprovalCounts
<1>5. /\ rules \in Seq(MerchantRule) /\ DOMAIN rules = 1..Len(rules) /\ Len(rules) \in Nat
      /\ \A i \in DOMAIN rules : rules[i] \in MerchantRule
  <2>1. rules \in Seq(MerchantRule)
    BY DEF RulesInv
  <2> QED
    BY <2>1, LenProperties, ElementOfSeq
<1>6. ASSUME NEW i \in DOMAIN rules, NEW rule, rule = rules[i]
      PROVE  rule \in MerchantRule /\ Earned(rule)'
  <2>1. rule \in MerchantRule /\ Earned(rule)
    BY <1>5, <1>6 DEF RulesInv
  <2> QED
    BY <1>2, <2>1, EarnedStays
<1>7. PICK learned : learned = {i \in DOMAIN rules : /\ rules[i].origin = "Learned"
                                                     /\ rules[i].account = a
                                                     /\ rules[i].merchant = m
                                                     /\ rules[i].category = c}
  OBVIOUS
<1>9. CASE learned # {}
  <2>1. PICK i \in learned :
          rules' = [rules EXCEPT ![i] = Confirmed(@)]
    BY <1>7, <1>9 DEF RecordApproved
  <2>2. i \in DOMAIN rules
    BY <1>7
  <2>3. PICK old : old = rules[i]
    OBVIOUS
  <2>4. old \in MerchantRule /\ Earned(old) /\ OutcomeOf(old) = new /\ old.origin = "Learned"
    BY <1>1, <1>5, <1>7, <2>2, <2>3 DEF RulesInv, OutcomeOf
  <2>5. PICK confidence : confidence = IF old.usage + 1 >= 3 THEN "High" ELSE old.confidence
    OBVIOUS
  <2>6. PICK rule : rule = [origin |-> "Learned", merchant |-> old.merchant, account |-> old.account,
                            category |-> old.category, priority |-> old.priority,
                            confidence |-> confidence, usage |-> old.usage + 1]
    OBVIOUS
  <2>7. rules' = [rules EXCEPT ![i] = rule]
    <3>1. PICK counted : counted = [old EXCEPT !.usage = @ + 1]
      OBVIOUS
    <3>2. counted = [origin |-> "Learned", merchant |-> old.merchant,
                     account |-> old.account, category |-> old.category,
                     priority |-> old.priority,
                     confidence |-> old.confidence, usage |-> old.usage + 1]
      BY <2>4, <3>1 DEF MerchantRule
    <3>3. PICK r : r = [counted EXCEPT !.confidence = confidence]
      OBVIOUS
    <3>4. r = rule
      BY <2>6, <3>2, <3>3
    <3>5. Confirmed(old) = r
      BY <2>5, <3>1, <3>2, <3>3 DEF Confirmed
    <3> QED
      BY <2>1, <2>3, <3>4, <3>5
  <2>8. confidence \in {"High", "Learning"}
    BY <2>4, <2>5 DEF MerchantRule
  <2>9. rule \in MerchantRule
    BY <2>4, <2>6, <2>8 DEF MerchantRule
  <2>10. Earned(rule)'
    <3>1. old.account \in RuleAccounts /\ old.usage <= Cardinality(TimesApproved(new))
          /\ (old.confidence = "High" => old.usage >= 3)
      BY <2>4 DEF Earned
    <3>2. old.usage \in Nat
      BY <2>4 DEF MerchantRule
    <3>3. PICK earlier : earlier = Cardinality(TimesApproved(new)) /\ earlier \in Nat
      BY <1>4
    <3>4. rule.usage <= Cardinality(TimesApproved(new)')
      BY <1>4, <2>6, <3>1, <3>2, <3>3
    <3>5. rule.confidence = "High" => rule.usage >= 3
      BY <2>5, <2>6, <3>1, <3>2
    <3>6. OutcomeOf(rule) = new
      BY <2>4, <2>6 DEF OutcomeOf
    <3>7. rule.account \in RuleAccounts
      BY <2>6, <3>1
    <3>8. Cardinality(TimesApproved(new)') = Cardinality(TimesApproved(OutcomeOf(rule)))'
      BY <3>6 DEF TimesApproved
    <3> QED
      BY <3>4, <3>5, <3>7, <3>8 DEF Earned, OutcomeOf
  <2>11. rules' \in Seq(MerchantRule)
    BY <1>5, <2>2, <2>7, <2>9, ExceptSeq
  <2>12. ASSUME NEW k \in DOMAIN rules' PROVE Earned(rules[k])'
    <3>1. CASE k = i
      <4>1. rules'[k] = rule
        BY <2>2, <2>7, <3>1
      <4> QED
        BY <2>10, <4>1 DEF Earned, OutcomeOf, TimesApproved
    <3>2. CASE k # i
      <4>1. PICK r : r = rules[k]
        OBVIOUS
      <4>2. k \in DOMAIN rules /\ rules'[k] = r
        BY <2>7, <2>12, <3>2, <4>1
      <4>3. Earned(r)'
        BY <1>6, <4>1, <4>2
      <4> QED
        BY <4>2, <4>3 DEF Earned, OutcomeOf, TimesApproved
    <3> QED
      BY <3>1, <3>2
  <2> QED
    BY <1>3, <2>11, <2>12 DEF RulesInv
<1>10. CASE learned = {}
  <2>1. PICK rule : rule = [origin |-> "Learned", merchant |-> m, account |-> a, category |-> c,
                            priority |-> 0, confidence |-> "Learning", usage |-> 1]
    OBVIOUS
  <2>2. rules' = Append(rules, rule)
    BY <1>7, <1>10, <2>1 DEF RecordApproved
  <2>3. rule \in MerchantRule
    BY <2>1 DEF MerchantRule
  <2>4. Earned(rule)'
    <3>1. OutcomeOf(rule) = new
      BY <1>1, <2>1 DEF OutcomeOf
    <3>2. rule.usage <= Cardinality(TimesApproved(new)')
      BY <1>4, <2>1
    <3>3. Cardinality(TimesApproved(new)') = Cardinality(TimesApproved(OutcomeOf(rule)))'
      BY <3>1 DEF TimesApproved
    <3> QED
      BY <2>1, <3>2, <3>3 DEF Earned, OutcomeOf
  <2>5. rules' \in Seq(MerchantRule)
    BY <1>5, <2>2, <2>3, AppendProperties
  <2>6. Len(rules') = Len(rules) + 1
    BY <1>5, <2>2, <2>3, AppendProperties
  <2>7. \A k \in 1..Len(rules) : rules'[k] = rules[k]
    BY <1>5, <2>2, <2>3, AppendProperties
  <2>8. rules'[Len(rules) + 1] = rule
    BY <1>5, <2>2, <2>3, AppendProperties
  <2>9. DOMAIN rules' = 1..(Len(rules) + 1)
    BY <2>5, <2>6, LenProperties
  <2>10. ASSUME NEW k \in DOMAIN rules' PROVE Earned(rules[k])'
    <3>1. k \in DOMAIN rules \/ k = Len(rules) + 1
      BY <1>5, <2>9, <2>10
    <3>2. CASE k = Len(rules) + 1
      <4>1. rules'[k] = rule
        BY <2>8, <3>2
      <4> QED
        BY <2>4, <4>1 DEF Earned, OutcomeOf, TimesApproved
    <3>3. CASE k \in DOMAIN rules
      <4>1. PICK r : r = rules[k]
        OBVIOUS
      <4>2. rules'[k] = r
        BY <1>5, <2>7, <3>3, <4>1
      <4>3. Earned(r)'
        BY <1>6, <3>3, <4>1
      <4> QED
        BY <4>2, <4>3 DEF Earned, OutcomeOf, TimesApproved
    <3> QED
      BY <3>1, <3>2, <3>3
  <2> QED
    BY <1>3, <2>5, <2>10 DEF RulesInv
<1> QED
  BY <1>9, <1>10

\* Among matching rules an explicit one comes before every learned one, and a learned one is
\* trusted and for this very account.
LEMMA EarnedSuffices == RulesInv => ProposalsAreEarned
<1> SUFFICES ASSUME RulesInv, NEW m \in Merchants, NEW a \in RuleAccounts, NEW c \in RuleCategories,
                    c \in Proposals(m, a)
             PROVE  LET explicit == {i \in Matching(m, a) : rules[i].origin = "Explicit"} IN
                    IF explicit # {} THEN c \in {rules[i].category : i \in explicit}
                    ELSE Cardinality({k \in DOMAIN approvals : approvals[k] = <<m, a, c>>}) >= 3
  BY DEF ProposalsAreEarned
<1>1. PICK i \in Matching(m, a) : /\ c = rules[i].category
                                  /\ \A j \in Matching(m, a) : ~Precedes(rules[j], rules[i])
  BY DEF Proposals
<1>2. i \in DOMAIN rules /\ Matches(rules[i], m, a)
  BY DEF Matching
<1>3. PICK rule : rule = rules[i]
  OBVIOUS
<1>4. rule \in MerchantRule /\ Earned(rule)
  BY <1>2, <1>3, ElementOfSeq, LenProperties DEF RulesInv
<1>5. CASE rule.origin = "Explicit"
  BY <1>1, <1>3, <1>5
<1>6. CASE rule.origin = "Learned"
  <2>1. ASSUME NEW j \in Matching(m, a), rules[j].origin = "Explicit" PROVE FALSE
    <3>1. Precedes(rules[j], rules[i])
      BY <1>3, <1>6, <2>1 DEF Precedes
    <3> QED
      BY <1>1, <3>1
  <2>2. rule.account = a /\ rule.merchant = m /\ rule.confidence = "High" /\ rule.usage >= 3
    BY <1>2, <1>3, <1>4, <1>6, RulesAssumption DEF Matches, Earned
  <2>3. OutcomeOf(rule) = <<m, a, c>>
    BY <1>1, <1>3, <2>2 DEF OutcomeOf
  <2>4. rule.usage <= Cardinality(TimesApproved(<<m, a, c>>)) /\ rule.usage \in Nat
    BY <1>4, <1>6, <2>3 DEF Earned, MerchantRule
  <2>5. Cardinality(TimesApproved(<<m, a, c>>)) \in Int
    <3>1. approvals \in Seq(Outcomes)
      BY DEF RulesInv
    <3>2. DOMAIN approvals = 1..Len(approvals) /\ Len(approvals) \in Nat
      BY <3>1, LenProperties
    <3>3. IsFiniteSet(DOMAIN approvals)
      BY <3>2, FS_Interval
    <3>4. IsFiniteSet(TimesApproved(<<m, a, c>>))
      BY <3>3, FS_Subset DEF TimesApproved
    <3> QED
      BY <3>4, FS_CardinalityType
  <2>6. Cardinality(TimesApproved(<<m, a, c>>)) >= 3
    BY <2>2, <2>4, <2>5
  <2> QED
    BY <2>1, <2>6 DEF TimesApproved
<1> QED
  BY <1>4, <1>5, <1>6 DEF MerchantRule

\* Whatever rules the user wrote and however many outcomes are approved in whatever order, a
\* category is proposed by an explicit rule or after three approvals for the very merchant and
\* account.
THEOREM ProposalsEarned == RulesSpec => []ProposalsAreEarned
<1>1. RulesInit => RulesInv
  BY RulesStart
<1>2. RulesInv /\ [RulesNext]_ruleBook => RulesInv'
  <2> SUFFICES ASSUME RulesInv, [RulesNext]_ruleBook PROVE RulesInv'
    OBVIOUS
  <2>1. CASE RulesNext
    BY <2>1, ApprovalEarns DEF RulesNext
  <2>2. CASE UNCHANGED ruleBook
    BY <2>2 DEF ruleBook, RulesInv, Earned, TimesApproved, OutcomeOf
  <2> QED
    BY <2>1, <2>2
<1>3. RulesInv => ProposalsAreEarned
  BY EarnedSuffices
<1> QED
  BY <1>1, <1>2, <1>3, PTL DEF RulesSpec
-----------------------------------------------------------------------------
(* The files of the ledger *)

\* A file that has no budget yet holds no commit.
Complete(f) == f \in Copies /\ (f.budget = 0 => f.holds = {})
CompleteOrNone(f) == f = NoFile \/ Complete(f)

\* A file the program made or opened, of the present release.
Present(f) == Complete(f) /\ f.schema = 2

Entries == [file : {f \in Copies : f.budget # 0 /\ f.schema = 2},
            known : BOOLEAN, readable : BOOLEAN, day : Nat]

Steps == {"migrate", "copied", "published", "backed_up", "safety_copy", "candidate", "preserved"}

FilesOK ==
  /\ CompleteOrNone(live) /\ CompleteOrNone(before)
  /\ \A f \in aside : CompleteOrNone(f)
  /\ backups \in Seq(Entries)
  /\ written \in Nat /\ day \in Nat

\* An old ledger is migrated before anything else is done with it; the copy made before is
\* of it.
OldLedger ==
  live # NoFile /\ live.schema # 2 =>
    /\ process \in {"off", "recovery"}
    /\ before = NoFile \/ before.holds = live.holds

\* What the operations know of the files between their steps.
TaskOK ==
  /\ process \in {"off", "first_run"} => task = <<>>
  /\ task # <<>> =>
       /\ task \in [op : {"open", "backup", "restore", "repair"}, step : Steps,
                    file : Copies \cup {NoFile}]
       /\ task.op # "open" => process = "ready"
       /\ task.op \in {"restore", "repair"} => ~writing
       /\ task.op = "open" <=> task.step = "migrate"
       /\ task.op = "repair" <=> task.step \in {"safety_copy", "candidate", "preserved"}
       /\ task.op = "backup" => task.step # "backed_up"
       /\ task.op = "restore" => Present(task.file) /\ task.file.budget # 0
       /\ task.step \in {"copied", "published", "safety_copy", "candidate"} =>
            live # NoFile /\ live.budget # 0
       /\ task.step \in {"candidate", "preserved"} => Present(task.file)
       /\ task.step = "preserved" => live = NoFile

\* The backup a restore makes of the present ledger has all of it before the rename.
Backed(c) == c \in gone \/ \E i \in Good : c \in backups[i].file.holds
BackupFirst ==
  task # <<>> =>
    /\ task.step = "published" =>
         /\ backups # <<>> /\ ~backups[Len(backups)].known
         /\ task.op = "restore" =>
              /\ live # NoFile
              /\ live.holds \subseteq backups[Len(backups)].file.holds
              /\ backups[Len(backups)].readable
                   \/ backups[Len(backups)].file.holds \subseteq gone
    /\ task.step = "backed_up" => live # NoFile /\ \A c \in live.holds : Backed(c)

\* Where a commit is.
InFile(c, f) == f # NoFile /\ c \in f.holds
Kept(c) ==
  \/ c \in gone \/ InFile(c, live) \/ InFile(c, before)
  \/ \E f \in aside : InFile(c, f)
  \/ \E i \in Good : InFile(c, backups[i].file)
AllKept == \A c \in 1..written : Kept(c)

FileInv == FilesOK /\ OldLedger /\ TaskOK /\ BackupFirst /\ AllKept

\* LedgerFileSurvives says the same.
LEMMA KeptSurvives == AllKept => LedgerFileSurvives
<1> SUFFICES ASSUME AllKept, NEW c \in 1..written, c \notin gone
             PROVE  c \in HeldBy({live, before} \cup aside \cup {backups[i].file : i \in Good})
  BY DEF LedgerFileSurvives
<1> DEFINE X == {live, before} \cup aside \cup {backups[i].file : i \in Good}
<1>1. \E f \in X : InFile(c, f)
  BY DEF AllKept, Kept
<1> QED
  BY <1>1 DEF HeldBy, InFile

\* A step that leaves the files alone.
LEMMA FilesAlone ==
  ASSUME FileInv, UNCHANGED <<live, aside, before, backups, written, gone>>, day' \in Nat
  PROVE  FilesOK' /\ AllKept'
BY DEF FileInv, FilesOK, AllKept, Kept, Good, CompleteOrNone

\* Between operations, and when a ledger is about to be opened, no step has anything left
\* to rely on.
Opening == task = [op |-> "open", step |-> "migrate", file |-> NoFile]

\* See Opening.
LEMMA NoTask == task = <<>> => TaskOK /\ BackupFirst
BY DEF TaskOK, BackupFirst

\* See Opening.
LEMMA OpeningTask == process \notin {"off", "first_run"} /\ Opening => TaskOK /\ BackupFirst
<1> SUFFICES ASSUME process \notin {"off", "first_run"}, Opening PROVE TaskOK /\ BackupFirst
  OBVIOUS
<1>1. /\ task.op = "open" /\ task.step = "migrate" /\ task # <<>>
  BY DEF Opening
<1>2. task \in [op : {"open", "backup", "restore", "repair"}, step : Steps,
               file : Copies \cup {NoFile}]
  BY DEF Opening, Steps
<1> HIDE DEF Opening
<1> QED
  BY <1>1, <1>2 DEF TaskOK, BackupFirst

-----------------------------------------------------------------------------
(* Opening *)

\* apply_startup reads, and no more.
LEMMA OpenFileKeeps == ASSUME FileInv, NEW thorough, OpenFile(thorough) PROVE FileInv'
<1>1. UNCHANGED <<live, aside, before, backups, writing, written, gone, day>> /\ process = "off"
  BY DEF OpenFile
<1>2. FilesOK' /\ AllKept'
  BY <1>1, FilesAlone DEF FileInv, FilesOK
<1>3. /\ process' \in {"first_run", "recovery"}
      /\ process' = "first_run" => task' = task
      /\ task' = task \/ task' = [op |-> "open", step |-> "migrate", file |-> NoFile]
      /\ live # NoFile => process' = "recovery"
  BY DEF OpenFile, Proceed
<1>4. task = <<>>
  BY <1>1 DEF FileInv, TaskOK
<1>5. TaskOK' /\ BackupFirst'
  <2>1. CASE (task = <<>>)'
    BY <2>1, NoTask, PTL
  <2>2. CASE (process \notin {"off", "first_run"} /\ Opening)'
    BY <2>2, OpeningTask, PTL
  <2> QED
    BY <1>3, <1>4, <2>1, <2>2 DEF Opening
<1>6. OldLedger'
  BY <1>1, <1>3 DEF FileInv, OldLedger
<1> QED
  BY <1>2, <1>5, <1>6 DEF FileInv

\* A first run finds no ledger, and none of its files is replaced.
LEMMA CreateFileKeeps == ASSUME FileInv, CreateFile PROVE FileInv'
<1>1. /\ UNCHANGED <<aside, before, backups, writing, written, gone, day, process, task>>
      /\ live = NoFile /\ live' = Empty /\ process = "first_run"
  BY DEF CreateFile
<1>2. Complete(Empty) /\ Empty.schema = 2
  BY DEF Complete, Copies, Empty
<1>3. FilesOK'
  BY <1>1, <1>2 DEF FileInv, FilesOK, CompleteOrNone
<1>4. AllKept'
  BY <1>1 DEF FileInv, AllKept, Kept, Good, InFile
<1>5. task = <<>>
  BY <1>1 DEF FileInv, TaskOK
<1>6. TaskOK' /\ BackupFirst' /\ OldLedger'
  BY <1>1, <1>2, <1>5 DEF TaskOK, BackupFirst, OldLedger
<1> QED
  BY <1>3, <1>4, <1>6 DEF FileInv

\* The file the budget is written to holds no commit before.
LEMMA InitializeBudgetKeeps == ASSUME FileInv, InitializeBudget PROVE FileInv'
<1>1. /\ UNCHANGED <<aside, before, backups, gone, day, task>>
      /\ live # NoFile /\ live.budget = 0 /\ process = "first_run" /\ process' = "ready"
      /\ written' = written + 1
  BY DEF InitializeBudget
<1>11. live' = [live EXCEPT !.holds = {written'}, !.budget = written']
  BY DEF InitializeBudget
<1>2. live \in Copies /\ live.holds = {} /\ written \in Nat
  BY <1>1 DEF FileInv, FilesOK, CompleteOrNone, Complete
<1>3. live.schema = 2
  BY <1>1 DEF FileInv, OldLedger
<1>12. written' = written + 1 /\ written \in Nat
  BY <1>1, <1>2
<1>4. PICK w \in Nat : w = written' /\ w # 0
  BY <1>12
<1>5. /\ live' \in Copies /\ live'.holds = {w} /\ live'.budget = w /\ live'.schema = 2
  <2>1. PICK f : f = [live EXCEPT !.holds = {w}]
    OBVIOUS
  <2>2. f \in Copies /\ f.holds = {w} /\ f.schema = 2
    BY <1>2, <1>3, <2>1 DEF Copies
  <2>3. live' = [f EXCEPT !.budget = w]
    BY <1>4, <1>11, <2>1
  <2> QED
    BY <2>2, <2>3 DEF Copies
<1>6. live' # NoFile
  BY <1>5, FilesAssumption
<1>7. FilesOK'
  BY <1>1, <1>2, <1>4, <1>5 DEF FileInv, FilesOK, CompleteOrNone, Complete
<1>8. AllKept'
  <2> SUFFICES ASSUME NEW c \in 1..written' PROVE Kept(c)'
    BY DEF AllKept
  <2>1. CASE c = written'
    BY <1>4, <1>5, <1>6, <2>1 DEF Kept, InFile
  <2>2. CASE c # written'
    <3>1. c \in 1..written
      BY <1>1, <1>2, <2>2
    <3>2. Kept(c) /\ ~InFile(c, live)
      BY <1>2, <3>1 DEF FileInv, AllKept, InFile
    <3> QED
      BY <1>1, <3>2 DEF Kept, Good
  <2> QED
    BY <2>1, <2>2
<1>9. task = <<>>
  BY <1>1 DEF FileInv, TaskOK
<1>10. TaskOK' /\ BackupFirst' /\ OldLedger'
  BY <1>1, <1>5, <1>9 DEF TaskOK, BackupFirst, OldLedger
<1> QED
  BY <1>7, <1>8, <1>10 DEF FileInv
\* The migration makes a copy of an old ledger; the copy it replaces was of the same one.
LEMMA StartWorkerKeeps == ASSUME FileInv, StartWorker PROVE FileInv'
<1> DEFINE current == live = NoFile \/ live.schema = 2
           starts == current \/ live.quality = 2
<1>1. /\ UNCHANGED <<aside, backups, written, gone, day>>
      /\ task # <<>> /\ task.op = "open" /\ task' = <<>>
  BY DEF StartWorker, At
<1>2. /\ before' = IF current THEN before ELSE live
      /\ live = NoFile => live' = Empty
      /\ live # NoFile => live' = IF starts THEN [live EXCEPT !.schema = 2] ELSE live
      /\ ~starts => process' = process
  BY DEF StartWorker
<1>3. Complete(Empty) /\ Empty.schema = 2
  BY DEF Complete, Copies, Empty
<1>4. ASSUME live # NoFile
      PROVE  /\ live' # NoFile /\ Complete(live') /\ live'.holds = live.holds
             /\ live'.schema = IF starts THEN 2 ELSE live.schema
  <2>1. live \in Copies /\ Complete(live)
    BY <1>4 DEF FileInv, FilesOK, CompleteOrNone, Complete
  <2>2. CASE starts
    <3>1. live' = [live EXCEPT !.schema = 2]
      BY <1>2, <1>4, <2>2
    <3> HIDE DEF starts
    <3> QED
      BY <2>1, <2>2, <3>1, FilesAssumption DEF Complete, Copies
  <2>3. CASE ~starts
    BY <1>2, <1>4, <2>1, <2>3
  <2> QED
    BY <2>2, <2>3
<1>5. OldLedger'
  <2> SUFFICES ASSUME live' # NoFile, live'.schema # 2
               PROVE  process' \in {"off", "recovery"} /\ before'.holds = live'.holds
    BY DEF OldLedger
  <2>1. live # NoFile
    BY <1>2, <1>3
  <2>2. ~starts /\ live.schema # 2
    BY <1>4, <2>1
  <2>3. before' = live /\ process' = process
    BY <1>2, <2>1, <2>2
  <2> HIDE DEF current, starts
  <2> QED
    BY <1>4, <2>1, <2>2, <2>3 DEF FileInv, OldLedger
<1>6. FilesOK'
  <2>1. CompleteOrNone(live')
    BY <1>2, <1>3, <1>4 DEF CompleteOrNone
  <2>2. CompleteOrNone(before')
    BY <1>2 DEF FileInv, FilesOK
  <2> QED
    BY <1>1, <2>1, <2>2 DEF FileInv, FilesOK
<1>7. AllKept'
  <2> SUFFICES ASSUME NEW c \in 1..written' PROVE Kept(c)'
    BY DEF AllKept
  <2>1. Kept(c)
    BY <1>1 DEF FileInv, AllKept
  <2>2. InFile(c, live) => InFile(c, live')
    BY <1>4 DEF InFile
  <2>3. InFile(c, before) => InFile(c, before') \/ InFile(c, live)
    BY <1>2 DEF InFile, FileInv, OldLedger
  <2> HIDE DEF current, starts
  <2> QED
    BY <1>1, <2>1, <2>2, <2>3 DEF Kept, Good
<1>8. TaskOK' /\ BackupFirst'
  <2>1. (task = <<>>)'
    BY <1>1
  <2> QED
    BY <2>1, NoTask, PTL
<1> QED
  BY <1>5, <1>6, <1>7, <1>8 DEF FileInv

\* A commit is written to the ledger, and while a restore or a repair is under way there
\* are none.
LEMMA WriteKeeps == ASSUME FileInv, Write PROVE FileInv'
<1>1. /\ UNCHANGED <<aside, before, backups, gone, day, task, process, writing>>
      /\ process = "ready" /\ writing
  BY DEF Write
<1>2. live # NoFile /\ live.budget # 0
  BY DEF Write
<1>3. written' = written + 1 /\ live' = [live EXCEPT !.holds = @ \cup {written'}]
  BY DEF Write
<1>4. live \in Copies /\ written \in Nat
  BY <1>2 DEF FileInv, FilesOK, CompleteOrNone, Complete
<1>5. PICK w \in Nat : w = written' /\ w = written + 1
  BY <1>3, <1>4
<1>6. live' = [live EXCEPT !.holds = @ \cup {w}]
  BY <1>3, <1>5
<1>7. /\ live' \in Copies /\ live'.budget = live.budget /\ live'.schema = live.schema
      /\ live'.holds = live.holds \cup {w}
  BY <1>4, <1>6 DEF Copies
<1>8. live' # NoFile
  BY <1>7, FilesAssumption
<1>9. FilesOK'
  BY <1>1, <1>2, <1>5, <1>7 DEF FileInv, FilesOK, CompleteOrNone, Complete
<1>10. OldLedger'
  BY <1>1, <1>2, <1>7 DEF FileInv, OldLedger
<1>11. task # <<>> => task.op \notin {"restore", "repair"} /\ task.step # "backed_up"
  BY <1>1 DEF FileInv, TaskOK, Steps
<1>12. TaskOK'
  BY <1>1, <1>2, <1>7, <1>8, <1>11 DEF FileInv, TaskOK
<1>13. BackupFirst'
  BY <1>1, <1>11 DEF FileInv, BackupFirst
<1>14. AllKept'
  <2> SUFFICES ASSUME NEW c \in 1..written' PROVE Kept(c)'
    BY DEF AllKept
  <2>1. CASE c = w
    BY <1>7, <1>8, <2>1 DEF Kept, InFile
  <2>2. CASE c # w
    <3>1. c \in 1..written
      BY <1>4, <1>5, <2>2
    <3>2. Kept(c)
      BY <3>1 DEF FileInv, AllKept
    <3>3. InFile(c, live) => InFile(c, live')
      BY <1>7, <1>8 DEF InFile
    <3> QED
      BY <1>1, <3>2, <3>3 DEF Kept, Good
  <2> QED
    BY <2>1, <2>2
<1> QED
  BY <1>9, <1>10, <1>12, <1>13, <1>14 DEF FileInv

-----------------------------------------------------------------------------
(* Backups *)

Tasks == [op : {"open", "backup", "restore", "repair"}, step : Steps, file : Copies \cup {NoFile}]

\* The first step of an operation of a session that is ready.
LEMMA BeginKeeps ==
  ASSUME FileInv, process = "ready", live # NoFile, live.budget # 0,
         UNCHANGED <<live, aside, before, backups, process, written, gone, day>>,
         NEW op \in {"backup", "restore", "repair"},
         NEW step \in {"copied", "safety_copy"}, op = "repair" <=> step = "safety_copy",
         NEW f \in Copies \cup {NoFile}, op = "restore" => Present(f) /\ f.budget # 0,
         op = "backup" \/ ~writing',
         task' = [op |-> op, step |-> step, file |-> f]
  PROVE  FileInv'
<1>1. FilesOK' /\ AllKept'
  BY FilesAlone DEF FileInv, FilesOK
<1>2. OldLedger'
  BY DEF FileInv, OldLedger
<1>3. task' # <<>> /\ task'.op = op /\ task'.step = step /\ task'.file = f /\ task' \in Tasks
  BY DEF Tasks, Steps
<1>4. BackupFirst'
  BY <1>3 DEF BackupFirst
<1>5. TaskOK'
  BY <1>3 DEF TaskOK, Tasks
<1> QED
  BY <1>1, <1>2, <1>4, <1>5 DEF FileInv

\* See BeginKeeps.
LEMMA CreateBackupKeeps == ASSUME FileInv, CreateBackup PROVE FileInv'
BY BeginKeeps DEF CreateBackup, BeginBackup, Proceed, Idle

\* The files of the backups are of the present release and have a budget.
LEMMA BackupFiles ==
  ASSUME FilesOK, NEW i \in DOMAIN backups
  PROVE  backups[i] \in Entries /\ Present(backups[i].file) /\ backups[i].file.budget # 0
<1>1. backups[i] \in Entries
  BY ElementOfSeq DEF FilesOK
<1> QED
  BY <1>1 DEF Entries, Present, Complete

\* See BeginKeeps.
LEMMA RestoreKeeps == ASSUME FileInv, NEW i \in DOMAIN backups, Restore(i) PROVE FileInv'
<1>1. Present(backups[i].file) /\ backups[i].file.budget # 0
  BY BackupFiles DEF FileInv
<1>2. backups[i].file \in Copies
  BY <1>1 DEF Present, Complete
<1> QED
  BY <1>1, <1>2, BeginKeeps DEF Restore, BeginBackup, Proceed, Idle

\* See BeginKeeps.
LEMMA RepairKeeps == ASSUME FileInv, Repair PROVE FileInv'
BY BeginKeeps DEF Repair, Proceed, Idle
\* The entries that stay when one is appended.
LEMMA Appended ==
  ASSUME FilesOK, NEW e \in Entries, backups' = Append(backups, e)
  PROVE  /\ backups' \in Seq(Entries) /\ Len(backups') = Len(backups) + 1 /\ Len(backups) \in Nat
         /\ DOMAIN backups = 1..Len(backups) /\ DOMAIN backups' = 1..Len(backups')
         /\ \A i \in DOMAIN backups : i \in DOMAIN backups' /\ backups'[i] = backups[i]
         /\ backups'[Len(backups')] = e
<1>1. backups \in Seq(Entries)
  BY DEF FilesOK
<1>2. backups' \in Seq(Entries) /\ Len(backups') = Len(backups) + 1
  BY <1>1, AppendProperties
<1>3. Len(backups) \in Nat /\ DOMAIN backups = 1..Len(backups) /\ DOMAIN backups' = 1..Len(backups')
  BY <1>1, <1>2, LenProperties
<1>4. \A i \in 1..Len(backups) : backups'[i] = backups[i]
  BY <1>1, AppendProperties
<1>5. backups'[Len(backups) + 1] = e
  BY <1>1, AppendProperties
<1> QED
  BY <1>2, <1>3, <1>4, <1>5

\* A published file is a copy of the ledger, not known as a backup yet.
LEMMA PublishBackupKeeps == ASSUME FileInv, PublishBackup PROVE FileInv'
<1> DEFINE e == [file |-> live, known |-> FALSE, readable |-> TRUE, day |-> day]
<1>1. /\ UNCHANGED <<live, aside, before, process, writing, written, gone, day>>
      /\ task # <<>> /\ task.step = "copied"
      /\ task' = [task EXCEPT !.step = "published"]
  BY DEF PublishBackup
<1>2. backups' = Append(backups, e)
  BY DEF PublishBackup
<1>3. live # NoFile /\ live.budget # 0 /\ task \in Tasks /\ task.op \in {"backup", "restore"}
  BY <1>1 DEF FileInv, TaskOK, Tasks, Steps
<1>4. live.schema = 2
  BY <1>1, <1>3 DEF FileInv, OldLedger, TaskOK
<1>5. e \in Entries
  BY <1>3, <1>4 DEF FileInv, FilesOK, CompleteOrNone, Complete, Entries
<1>6. /\ e.file = live /\ e.known = FALSE /\ e.readable
  OBVIOUS
<1> HIDE DEF e
<1>7. /\ backups' \in Seq(Entries) /\ Len(backups') = Len(backups) + 1 /\ Len(backups) \in Nat
      /\ DOMAIN backups' = 1..Len(backups')
      /\ \A i \in DOMAIN backups : i \in DOMAIN backups' /\ backups'[i] = backups[i]
      /\ backups'[Len(backups')] = e
  BY <1>2, <1>5, Appended DEF FileInv
<1>8. FilesOK'
  BY <1>1, <1>7 DEF FileInv, FilesOK
<1>9. OldLedger'
  BY <1>1 DEF FileInv, OldLedger
<1>10. /\ task' # <<>> /\ task' \in Tasks /\ task'.op = task.op
       /\ task'.step = "published" /\ task'.file = task.file
  BY <1>1, <1>3 DEF Tasks, Steps
<1>11. TaskOK'
  BY <1>1, <1>3, <1>10 DEF FileInv, TaskOK, Tasks
<1>12. BackupFirst'
  <2>1. backups' # <<>>
    BY <1>7
  <2> QED
    BY <1>1, <1>3, <1>6, <1>7, <1>10, <2>1 DEF BackupFirst
<1>13. Good \subseteq Good'
  BY <1>7 DEF Good
<1>14. AllKept'
  <2> SUFFICES ASSUME NEW c \in 1..written' PROVE Kept(c)'
    BY DEF AllKept
  <2>1. Kept(c)
    BY <1>1 DEF FileInv, AllKept
  <2>2. \A i \in Good : backups'[i] = backups[i]
    BY <1>7 DEF Good
  <2> QED
    BY <1>1, <1>13, <2>1, <2>2 DEF Kept
<1> QED
  BY <1>8, <1>9, <1>11, <1>12, <1>14 DEF FileInv

\* Changing what is known of one entry.
LEMMA EntryChanged ==
  ASSUME FilesOK, NEW i \in DOMAIN backups, NEW e \in Entries, backups' = [backups EXCEPT ![i] = e]
  PROVE  /\ backups' \in Seq(Entries) /\ Len(backups') = Len(backups)
         /\ DOMAIN backups' = DOMAIN backups
         /\ \A k \in DOMAIN backups : backups'[k] = IF k = i THEN e ELSE backups[k]
<1>1. backups \in Seq(Entries)
  BY DEF FilesOK
<1>2. backups' \in Seq(Entries) /\ Len(backups') = Len(backups)
  BY <1>1, ExceptSeq
<1> QED
  BY <1>2, <1>1

\* With its metadata the file is a backup, one that holds the whole ledger.
LEMMA WriteMetadataKeeps == ASSUME FileInv, WriteMetadata PROVE FileInv'
<1> DEFINE n == Len(backups)
           e == [backups[n] EXCEPT !.known = TRUE]
<1>1. /\ UNCHANGED <<live, aside, before, process, writing, written, gone, day>>
      /\ task # <<>> /\ task.step = "published"
      /\ task' = <<>> \/ (task.op # "backup" /\ task' = [task EXCEPT !.step = "backed_up"])
  BY DEF WriteMetadata
<1>2. backups' = [backups EXCEPT ![n] = e]
  BY DEF WriteMetadata
<1>3. backups \in Seq(Entries) /\ backups # <<>> /\ ~backups[n].known
  BY <1>1 DEF FileInv, FilesOK, BackupFirst
<1>4. n \in DOMAIN backups
  BY <1>3
<1>5. backups[n] \in Entries
  BY <1>4, BackupFiles DEF FileInv
<1>6. e \in Entries /\ e.file = backups[n].file /\ e.known /\ e.readable = backups[n].readable
  BY <1>5 DEF Entries
<1>13. task \in Tasks /\ task.op \in {"backup", "restore"}
  BY <1>1 DEF FileInv, TaskOK, Tasks, Steps
<1>14. task.op = "restore" =>
         /\ live # NoFile /\ live.holds \subseteq backups[n].file.holds
         /\ backups[n].readable \/ backups[n].file.holds \subseteq gone
  BY <1>1 DEF FileInv, BackupFirst
<1> HIDE DEF e, n
<1>7. /\ backups' \in Seq(Entries) /\ DOMAIN backups' = DOMAIN backups
      /\ \A k \in DOMAIN backups : backups'[k] = IF k = n THEN e ELSE backups[k]
  BY <1>2, <1>4, <1>6, EntryChanged DEF FileInv
<1>8. /\ Good \subseteq Good'
      /\ backups[n].readable => n \in Good'
      /\ \A i \in DOMAIN backups : backups'[i].file = backups[i].file
  BY <1>4, <1>6, <1>7 DEF Good
<1>9. FilesOK'
  BY <1>1, <1>7 DEF FileInv, FilesOK
<1>10. OldLedger'
  BY <1>1 DEF FileInv, OldLedger
<1>11. AllKept'
  <2> SUFFICES ASSUME NEW c \in 1..written' PROVE Kept(c)'
    BY DEF AllKept
  <2>1. Kept(c)
    BY <1>1 DEF FileInv, AllKept
  <2>2. \A i \in Good : i \in Good' /\ backups'[i].file = backups[i].file
    BY <1>8 DEF Good
  <2> QED
    BY <1>1, <2>1, <2>2 DEF Kept
<1>12. TaskOK' /\ BackupFirst'
  <2>1. CASE (task = <<>>)'
    BY <2>1, NoTask, PTL
  <2>2. CASE task.op # "backup" /\ task' = [task EXCEPT !.step = "backed_up"]
    <3>1. /\ task' # <<>> /\ task' \in Tasks /\ task'.op = "restore"
          /\ task'.step = "backed_up" /\ task'.file = task.file
      BY <1>13, <2>2 DEF Tasks, Steps
    <3>2. TaskOK'
      BY <1>1, <1>13, <2>2, <3>1 DEF FileInv, TaskOK, Tasks
    <3>3. live' # NoFile /\ \A c \in live'.holds : Backed(c)'
      <4>1. live # NoFile /\ live' = live
        BY <1>1, <1>13, <1>14, <2>2
      <4>2. ASSUME NEW c \in live.holds PROVE Backed(c)'
        <5>1. c \in backups[n].file.holds
          BY <1>13, <1>14, <2>2
        <5>2. CASE backups[n].readable
          <6>1. n \in Good' /\ c \in backups'[n].file.holds
            BY <1>4, <1>8, <5>1, <5>2
          <6> QED
            BY <6>1 DEF Backed
        <5>3. CASE backups[n].file.holds \subseteq gone
          BY <1>1, <5>1, <5>3 DEF Backed
        <5> QED
          BY <1>13, <1>14, <2>2, <5>2, <5>3
      <4> QED
        BY <4>1, <4>2
    <3> QED
      BY <3>1, <3>2, <3>3 DEF BackupFirst
  <2> QED
    BY <1>1, <2>1, <2>2
<1> QED
  BY <1>9, <1>10, <1>11, <1>12 DEF FileInv
\* Whatever apply_retention lets expire is gone; the others keep their order.
LEMMA ApplyRetentionKeeps == ASSUME FileInv, ApplyRetention PROVE FileInv'
<1> DEFINE kept == {i \in DOMAIN backups : i \notin Good \/ i \in Retained}
           lost == HeldBy({backups[i].file : i \in DOMAIN backups \ kept})
<1>1. /\ UNCHANGED <<live, aside, before, process, writing, task, written, day>>
      /\ task = <<>>
  BY DEF ApplyRetention, Idle
<1>2. gone' = gone \cup lost
  BY DEF ApplyRetention
<1>3. PICK order \in Bijection(1..Cardinality(kept), kept) :
        backups' = [k \in DOMAIN order |-> backups[order[k]]]
  BY DEF ApplyRetention
<1>4. \A i \in DOMAIN backups : backups[i] \in Entries /\ backups[i].file # NoFile
  BY BackupFiles, FilesAssumption DEF FileInv, Present, Complete
<1>5. Cardinality(kept) \in Nat
  <2>1. backups \in Seq(Entries)
    BY DEF FileInv, FilesOK
  <2>2. IsFiniteSet(DOMAIN backups)
    BY <2>1, LenProperties, FS_Interval
  <2> QED
    BY <2>2, FS_Subset, FS_CardinalityType
<1>6. kept \subseteq DOMAIN backups /\ \A i \in DOMAIN backups \ kept : i \in Good
  OBVIOUS
<1>7. \A c, i : i \in DOMAIN backups \ kept /\ c \in backups[i].file.holds => c \in gone'
  BY <1>2, <1>4 DEF HeldBy
<1> HIDE DEF kept, lost
<1>8. PICK n \in Nat : n = Cardinality(kept)
  BY <1>5
<1>9. /\ order \in [1..n -> kept]
      /\ \A i \in kept : \E k \in 1..n : order[k] = i
  BY <1>3, <1>8 DEF Bijection, Injection, Surjection
<1>10. backups' \in [1..n -> Entries]
  BY <1>3, <1>4, <1>6, <1>9
<1>11. backups' \in Seq(Entries)
  BY <1>10, SeqDef
<1>12. \A i \in kept : \E k \in DOMAIN backups' : backups'[k] = backups[i]
  BY <1>3, <1>9
<1>13. FilesOK'
  BY <1>1, <1>11 DEF FileInv, FilesOK
<1>14. OldLedger'
  BY <1>1 DEF FileInv, OldLedger
<1>15. TaskOK' /\ BackupFirst'
  <2>1. (task = <<>>)'
    BY <1>1
  <2> QED
    BY <2>1, NoTask, PTL
<1>16. AllKept'
  <2> SUFFICES ASSUME NEW c \in 1..written' PROVE Kept(c)'
    BY DEF AllKept
  <2>1. Kept(c)
    BY <1>1 DEF FileInv, AllKept
  <2>2. ASSUME NEW i \in Good, InFile(c, backups[i].file)
        PROVE  c \in gone' \/ \E k \in Good' : InFile(c, backups'[k].file)
    <3>1. CASE i \in kept
      BY <1>12, <2>2, <3>1 DEF Good
    <3>2. CASE i \notin kept
      BY <1>7, <2>2, <3>2 DEF Good, InFile
    <3> QED
      BY <3>1, <3>2
  <2> QED
    BY <1>1, <1>2, <2>1, <2>2 DEF Kept
<1> QED
  BY <1>13, <1>14, <1>15, <1>16 DEF FileInv

\* A backup that cannot be read any more is gone.
LEMMA LoseBackupKeeps == ASSUME FileInv, NEW i \in DOMAIN backups, LoseBackup(i) PROVE FileInv'
<1> DEFINE e == [backups[i] EXCEPT !.readable = FALSE]
<1>1. /\ UNCHANGED <<live, aside, before, process, writing, task, written, day>>
      /\ gone' = gone \cup backups[i].file.holds
  BY DEF LoseBackup
<1>2. backups' = [backups EXCEPT ![i] = e]
  BY DEF LoseBackup
<1>3. backups[i] \in Entries
  BY BackupFiles DEF FileInv
<1>4. e \in Entries /\ e.file = backups[i].file /\ e.known = backups[i].known
  BY <1>3 DEF Entries
<1> HIDE DEF e
<1>5. /\ backups' \in Seq(Entries) /\ Len(backups') = Len(backups) /\ DOMAIN backups' = DOMAIN backups
      /\ \A k \in DOMAIN backups : backups'[k] = IF k = i THEN e ELSE backups[k]
  BY <1>2, <1>4, EntryChanged DEF FileInv
<1>6. Good \ {i} \subseteq Good'
  BY <1>5 DEF Good
<1>7. \A k \in DOMAIN backups : /\ backups'[k].file = backups[k].file
                                /\ backups'[k].known = backups[k].known
                                /\ k # i => backups'[k].readable = backups[k].readable
  BY <1>4, <1>5
<1>8. FilesOK'
  BY <1>1, <1>5 DEF FileInv, FilesOK
<1>9. OldLedger' /\ TaskOK'
  BY <1>1 DEF FileInv, OldLedger, TaskOK
<1>10. ASSUME NEW c, NEW k \in Good, c \in backups[k].file.holds
       PROVE  c \in gone' \/ (k \in Good' /\ c \in backups'[k].file.holds)
  BY <1>1, <1>6, <1>7, <1>10 DEF Good
<1>11. AllKept'
  <2> SUFFICES ASSUME NEW c \in 1..written' PROVE Kept(c)'
    BY DEF AllKept
  <2>1. Kept(c)
    BY <1>1 DEF FileInv, AllKept
  <2>2. \A k \in Good : InFile(c, backups[k].file) =>
          c \in gone' \/ (k \in Good' /\ InFile(c, backups'[k].file))
    BY <1>7, <1>10 DEF InFile, Good
  <2> QED
    BY <1>1, <2>1, <2>2 DEF Kept
<1>12. BackupFirst'
  <2> SUFFICES ASSUME task # <<>>
               PROVE  /\ task.step = "published" =>
                           /\ backups' # <<>> /\ ~backups'[Len(backups')].known
                           /\ task.op = "restore" =>
                                /\ live # NoFile
                                /\ live.holds \subseteq backups'[Len(backups')].file.holds
                                /\ backups'[Len(backups')].readable
                                     \/ backups'[Len(backups')].file.holds \subseteq gone'
                      /\ task.step = "backed_up" => live # NoFile /\ \A c \in live.holds : Backed(c)'
    BY <1>1 DEF BackupFirst
  <2>1. ASSUME task.step = "published"
        PROVE  /\ backups' # <<>> /\ ~backups'[Len(backups')].known
               /\ task.op = "restore" =>
                    /\ live # NoFile
                    /\ live.holds \subseteq backups'[Len(backups')].file.holds
                    /\ backups'[Len(backups')].readable
                         \/ backups'[Len(backups')].file.holds \subseteq gone'
    <3>1. backups # <<>> /\ backups \in Seq(Entries)
      BY <2>1 DEF FileInv, BackupFirst, FilesOK
    <3>2. Len(backups) \in DOMAIN backups /\ backups' # <<>>
      BY <1>5, <3>1
    <3>3. PICK n \in DOMAIN backups : n = Len(backups) /\ n = Len(backups')
      BY <1>5, <3>2
    <3>4. /\ ~backups[n].known
          /\ task.op = "restore" =>
               /\ live # NoFile /\ live.holds \subseteq backups[n].file.holds
               /\ backups[n].readable \/ backups[n].file.holds \subseteq gone
      BY <2>1, <3>3 DEF FileInv, BackupFirst
    <3>5. backups'[n].readable = backups[n].readable \/ backups'[n].file.holds \subseteq gone'
      BY <1>1, <1>7
    <3>6. gone \subseteq gone'
      BY <1>1
    <3> QED
      BY <1>7, <3>2, <3>3, <3>4, <3>5, <3>6
  <2>2. ASSUME task.step = "backed_up"
        PROVE  live # NoFile /\ \A c \in live.holds : Backed(c)'
    <3>1. live # NoFile /\ \A c \in live.holds : Backed(c)
      BY <2>2 DEF FileInv, BackupFirst
    <3>2. ASSUME NEW c \in live.holds PROVE Backed(c)'
      BY <1>1, <1>10, <3>1 DEF Backed
    <3> QED
      BY <3>1, <3>2
  <2> QED
    BY <2>1, <2>2
<1> QED
  BY <1>8, <1>9, <1>11, <1>12 DEF FileInv
-----------------------------------------------------------------------------
(* Restore and repair *)

\* What a step that ends in opening the ledger leaves to show.
LEMMA OpensLedger ==
  ASSUME FileInv, task # <<>>, UNCHANGED process,
         task' = [op |-> "open", step |-> "migrate", file |-> NoFile]
  PROVE  TaskOK' /\ BackupFirst'
<1>1. process \notin {"off", "first_run"}
  BY DEF FileInv, TaskOK
<1>2. (process \notin {"off", "first_run"} /\ Opening)'
  BY <1>1 DEF Opening
<1> QED
  BY <1>2, OpeningTask, PTL

\* The ledger that a restore replaces is in a backup.
LEMMA SwapRestoredKeeps == ASSUME FileInv, SwapRestored PROVE FileInv'
<1>1. /\ UNCHANGED <<aside, before, backups, process, writing, written, gone, day>>
      /\ task # <<>> /\ task.op = "restore" /\ task.step = "backed_up"
      /\ live' = task.file /\ task' = [op |-> "open", step |-> "migrate", file |-> NoFile]
  BY DEF SwapRestored, At, Proceed
<1>2. Present(task.file)
  BY <1>1 DEF FileInv, TaskOK
<1>3. \A c : InFile(c, live) => Backed(c)
  BY <1>1 DEF FileInv, BackupFirst, InFile
<1>4. \A i \in Good : backups[i].file # NoFile
  BY BackupFiles, FilesAssumption DEF FileInv, Present, Complete, Good
<1>5. AllKept'
  <2> SUFFICES ASSUME NEW c \in 1..written' PROVE Kept(c)'
    BY DEF AllKept
  <2>1. Kept(c)
    BY <1>1 DEF FileInv, AllKept
  <2>2. Backed(c) => c \in gone \/ \E i \in Good : InFile(c, backups[i].file)
    BY <1>4 DEF Backed, InFile
  <2>3. Good' = Good
    BY <1>1 DEF Good
  <2> QED
    BY <1>1, <1>3, <2>1, <2>2, <2>3 DEF Kept
<1>6. FilesOK' /\ OldLedger'
  BY <1>1, <1>2 DEF FileInv, FilesOK, OldLedger, CompleteOrNone, Present
<1>7. TaskOK' /\ BackupFirst'
  BY <1>1, OpensLedger
<1> QED
  BY <1>5, <1>6, <1>7 DEF FileInv

\* The safety copy is of the ledger, and so is the candidate.
LEMMA SafetyCopyKeeps == ASSUME FileInv, SafetyCopy PROVE FileInv'
<1>1. /\ UNCHANGED <<live, before, backups, process, writing, written, gone, day>>
      /\ task # <<>> /\ task.op = "repair" /\ task.step = "safety_copy"
      /\ aside' = aside \cup {live}
      /\ \/ task' = [op |-> "open", step |-> "migrate", file |-> NoFile]
         \/ task' = [op |-> "repair", step |-> "candidate", file |-> live]
  BY DEF SafetyCopy, At, Proceed
<1>2. FilesOK' /\ OldLedger'
  BY <1>1 DEF FileInv, FilesOK, OldLedger
<1>3. AllKept'
  BY <1>1 DEF FileInv, AllKept, Kept, Good
<1>4. TaskOK' /\ BackupFirst'
  <2>1. CASE task' = [op |-> "open", step |-> "migrate", file |-> NoFile]
    BY <1>1, <2>1, OpensLedger
  <2>2. CASE task' = [op |-> "repair", step |-> "candidate", file |-> live]
    <3>1. process = "ready" /\ ~writing /\ live # NoFile /\ live.budget # 0
      BY <1>1 DEF FileInv, TaskOK
    <3>2. Present(live) /\ live \in Copies
      BY <3>1 DEF FileInv, FilesOK, OldLedger, CompleteOrNone, Present, Complete
    <3>3. /\ task' # <<>> /\ task'.op = "repair" /\ task'.step = "candidate" /\ task'.file = live
          /\ task' \in Tasks
      BY <2>2, <3>2 DEF Tasks, Steps
    <3>4. BackupFirst'
      BY <3>3 DEF BackupFirst
    <3>5. TaskOK'
      BY <1>1, <3>1, <3>2, <3>3 DEF TaskOK, Tasks
    <3> QED
      BY <3>4, <3>5
  <2> QED
    BY <1>1, <2>1, <2>2
<1> QED
  BY <1>2, <1>3, <1>4 DEF FileInv

\* The original is renamed, and is still beside the place of the ledger.
LEMMA PreserveKeeps == ASSUME FileInv, Preserve PROVE FileInv'
<1>1. /\ UNCHANGED <<before, backups, process, writing, written, gone, day>>
      /\ task # <<>> /\ task.op = "repair" /\ task.step = "candidate"
      /\ aside' = aside \cup {live} /\ live' = NoFile
      /\ task' = [task EXCEPT !.step = "preserved"]
  BY DEF Preserve, At
<1>2. FilesOK' /\ OldLedger'
  BY <1>1 DEF FileInv, FilesOK, OldLedger, CompleteOrNone
<1>3. AllKept'
  BY <1>1 DEF FileInv, AllKept, Kept, Good, InFile
<1>4. process = "ready" /\ ~writing /\ Present(task.file) /\ task \in Tasks
  BY <1>1 DEF FileInv, TaskOK, Tasks
<1>5. /\ task' # <<>> /\ task'.op = "repair" /\ task'.step = "preserved"
      /\ task'.file = task.file /\ task' \in Tasks
  BY <1>1, <1>4 DEF Tasks, Steps
<1>6. BackupFirst'
  BY <1>5 DEF BackupFirst
<1>7. TaskOK'
  BY <1>1, <1>4, <1>5 DEF TaskOK, Tasks
<1> QED
  BY <1>2, <1>3, <1>6, <1>7 DEF FileInv

\* Where the candidate or the original is put there is no ledger.
LEMMA SwapRepairedKeeps == ASSUME FileInv, SwapRepaired \/ RollBack PROVE FileInv'
<1>1. /\ UNCHANGED <<aside, before, backups, process, writing, written, gone, day>>
      /\ task # <<>> /\ task.step = "preserved"
      /\ live' = task.file \/ live' = live
      /\ task' = [op |-> "open", step |-> "migrate", file |-> NoFile]
  BY DEF SwapRepaired, RollBack, At, Proceed
<1>2. live = NoFile /\ Present(task.file)
  BY <1>1 DEF FileInv, TaskOK
<1>3. FilesOK' /\ OldLedger'
  BY <1>1, <1>2 DEF FileInv, FilesOK, OldLedger, CompleteOrNone, Present
<1>4. AllKept'
  BY <1>1, <1>2 DEF FileInv, AllKept, Kept, Good, InFile
<1>5. TaskOK' /\ BackupFirst'
  BY <1>1, OpensLedger
<1> QED
  BY <1>3, <1>4, <1>5 DEF FileInv

\* A file that was published without metadata is no backup, and may go.
LEMMA FailTaskKeeps == ASSUME FileInv, FailTask PROVE FileInv'
<1>1. /\ UNCHANGED <<live, aside, before, process, writing, written, gone, day>>
      /\ task # <<>>
      /\ \/ task' = <<>>
         \/ task' = [op |-> "open", step |-> "migrate", file |-> NoFile]
      /\ backups' = IF task.step = "published" THEN Front(backups) ELSE backups
  BY DEF FailTask, Proceed
<1>2. TaskOK' /\ BackupFirst'
  <2>1. CASE (task = <<>>)'
    BY <2>1, NoTask, PTL
  <2>2. CASE task' = [op |-> "open", step |-> "migrate", file |-> NoFile]
    BY <1>1, <2>2, OpensLedger
  <2> QED
    BY <1>1, <2>1, <2>2
<1>3. backups' \in Seq(Entries) /\ \A i \in Good : i \in Good' /\ backups'[i] = backups[i]
  <2>1. backups \in Seq(Entries)
    BY DEF FileInv, FilesOK
  <2>2. CASE task.step = "published"
    <3>1. backups # <<>> /\ ~backups[Len(backups)].known
      BY <1>1, <2>2 DEF FileInv, BackupFirst
    <3>2. PICK n \in Nat : Len(backups) = n + 1
      <4>1. Len(backups) \in Nat /\ Len(backups) # 0
        BY <2>1, <3>1, EmptySeq, LenProperties
      <4>2. Len(backups) - 1 \in Nat /\ Len(backups) = (Len(backups) - 1) + 1
        BY <4>1
      <4> QED
        BY <4>2
    <3>3. backups' = SubSeq(backups, 1, n)
      BY <1>1, <2>2, <3>2 DEF Front
    <3>4. \A i \in 1..n : backups[i] \in Entries
      BY <2>1, <3>2, ElementOfSeq
    <3>5. backups' \in Seq(Entries) /\ Len(backups') = n /\ \A i \in 1..n : backups'[i] = backups[i]
      BY <2>1, <3>2, <3>3, SubSeqProperties
    <3>6. DOMAIN backups' = 1..n /\ DOMAIN backups = 1..(n + 1)
      BY <2>1, <3>2, <3>5, LenProperties
    <3>7. \A i \in Good : i \in 1..n
      BY <3>1, <3>2, <3>6 DEF Good
    <3> QED
      BY <3>5, <3>6, <3>7 DEF Good
  <2>3. CASE task.step # "published"
    BY <1>1, <2>1, <2>3 DEF Good
  <2> QED
    BY <2>2, <2>3
<1>4. FilesOK' /\ OldLedger'
  BY <1>1, <1>3 DEF FileInv, FilesOK, OldLedger
<1>5. AllKept'
  <2> SUFFICES ASSUME NEW c \in 1..written' PROVE Kept(c)'
    BY DEF AllKept
  <2>1. Kept(c)
    BY <1>1 DEF FileInv, AllKept
  <2> QED
    BY <1>1, <1>3, <2>1 DEF Kept
<1> QED
  BY <1>2, <1>4, <1>5 DEF FileInv

-----------------------------------------------------------------------------
(* Outside *)

\* A kill leaves the files as they are.
LEMMA StopKeeps == ASSUME FileInv, Stop PROVE FileInv'
<1>1. UNCHANGED <<live, aside, before, backups, written, gone, day>> /\ process' = "off" /\ task' = <<>>
  BY DEF Stop
<1>2. FilesOK' /\ AllKept'
  BY <1>1, FilesAlone DEF FileInv, FilesOK
<1>3. OldLedger'
  BY <1>1 DEF FileInv, OldLedger
<1>4. (task = <<>>)'
  BY <1>1
<1>5. TaskOK' /\ BackupFirst'
  BY <1>4, NoTask, PTL
<1> QED
  BY <1>2, <1>3, <1>5 DEF FileInv

\* A damaged ledger still has its rows, for all that quick_check says.
LEMMA DamageLedgerKeeps == ASSUME FileInv, DamageLedger PROVE FileInv'
<1>1. /\ UNCHANGED <<aside, before, backups, process, writing, task, written, gone, day>>
      /\ live # NoFile
  BY DEF DamageLedger
<1>2. live \in Copies /\ Complete(live)
  BY <1>1 DEF FileInv, FilesOK, CompleteOrNone, Complete
<1>3. PICK worse \in 0..(live.quality - 1) : live' = [live EXCEPT !.quality = worse]
  BY DEF DamageLedger
<1>4. live.quality \in 0..2
  BY <1>2 DEF Copies
<1>5. worse \in 0..2
  BY <1>3, <1>4
<1>6. /\ live' \in Copies /\ live'.holds = live.holds /\ live'.budget = live.budget
      /\ live'.schema = live.schema
  BY <1>2, <1>3, <1>5 DEF Copies
<1>7. live' # NoFile
  BY <1>6, FilesAssumption
<1>8. FilesOK'
  BY <1>1, <1>2, <1>6 DEF FileInv, FilesOK, CompleteOrNone, Complete
<1>9. OldLedger'
  BY <1>1, <1>6 DEF FileInv, OldLedger
<1>10. TaskOK'
  BY <1>1, <1>6, <1>7 DEF FileInv, TaskOK
<1>11. BackupFirst'
  BY <1>1, <1>6, <1>7 DEF FileInv, BackupFirst, Backed, Good
<1>12. AllKept'
  BY <1>1, <1>6, <1>7 DEF FileInv, AllKept, Kept, Good, InFile
<1> QED
  BY <1>8, <1>9, <1>10, <1>11, <1>12 DEF FileInv

\* A day passes between operations.
LEMMA PassDayKeeps == ASSUME FileInv, PassDay PROVE FileInv'
<1>1. UNCHANGED <<live, aside, before, backups, process, writing, task, written, gone>> /\ day' = day + 1
  BY DEF PassDay
<1>2. day' \in Nat
  BY <1>1 DEF FileInv, FilesOK
<1>3. FilesOK' /\ AllKept'
  BY <1>1, <1>2, FilesAlone
<1>4. OldLedger' /\ TaskOK' /\ BackupFirst'
  BY <1>1 DEF FileInv, OldLedger, TaskOK, BackupFirst, Backed, Good
<1> QED
  BY <1>3, <1>4 DEF FileInv

\* LedgerFileSurvives: whatever operation is under way when the process is killed or a step
\* fails, every commit is in a complete file, unless its last copy was a backup that expired
\* or became unreadable.
THEOREM CommitsSurvive == FilesSpec => []LedgerFileSurvives
<1>1. FilesInit => FileInv
  <2> SUFFICES ASSUME FilesInit PROVE FileInv
    OBVIOUS
  <2>1. /\ aside = {} /\ before = NoFile /\ backups = <<>> /\ process = "off" /\ task = <<>>
        /\ gone = {} /\ day = 1
        /\ \/ live = NoFile /\ written = 0
           \/ live = [holds |-> {1}, budget |-> 1, schema |-> 1, quality |-> 2] /\ written = 1
    BY DEF FilesInit, Empty
  <2>2. backups \in Seq(Entries) /\ CompleteOrNone(before)
    BY <2>1 DEF CompleteOrNone
  <2>3. CASE live = NoFile /\ written = 0
    <3>1. FilesOK
      BY <2>1, <2>2, <2>3 DEF FilesOK, CompleteOrNone
    <3>2. OldLedger /\ AllKept
      BY <2>1, <2>3 DEF OldLedger, AllKept
    <3> QED
      BY <2>1, <3>1, <3>2, NoTask DEF FileInv
  <2>4. CASE live = [holds |-> {1}, budget |-> 1, schema |-> 1, quality |-> 2] /\ written = 1
    <3>1. /\ live \in Copies /\ live.budget = 1 /\ live.holds = {1}
      BY <2>4 DEF Copies
    <3>2. FilesOK
      BY <2>1, <2>2, <2>4, <3>1 DEF FilesOK, CompleteOrNone, Complete
    <3>3. OldLedger
      BY <2>1 DEF OldLedger
    <3>4. live # NoFile /\ 1 \in live.holds
      BY <3>1, FilesAssumption
    <3>5. Kept(1)
      BY <3>4 DEF Kept, InFile
    <3>6. AllKept
      BY <2>4, <3>5 DEF AllKept
    <3> QED
      BY <2>1, <3>2, <3>3, <3>6, NoTask DEF FileInv
  <2> QED
    BY <2>1, <2>3, <2>4
<1>2. FileInv /\ [FilesNext]_files => FileInv'
  <2> SUFFICES ASSUME FileInv, [FilesNext]_files PROVE FileInv'
    OBVIOUS
  <2>1. ASSUME NEW thorough \in BOOLEAN, OpenFile(thorough) PROVE FileInv'
    BY <2>1, OpenFileKeeps
  <2>2. CASE CreateFile \/ InitializeBudget \/ StartWorker \/ Write
    BY <2>2, CreateFileKeeps, InitializeBudgetKeeps, StartWorkerKeeps, WriteKeeps
  <2>3. CASE CreateBackup \/ PublishBackup \/ WriteMetadata \/ ApplyRetention
    BY <2>3, CreateBackupKeeps, PublishBackupKeeps, WriteMetadataKeeps, ApplyRetentionKeeps
  <2>4. ASSUME NEW i \in DOMAIN backups, Restore(i) \/ LoseBackup(i) PROVE FileInv'
    BY <2>4, RestoreKeeps, LoseBackupKeeps
  <2>5. CASE SwapRestored \/ Repair \/ SafetyCopy \/ Preserve
    BY <2>5, SwapRestoredKeeps, RepairKeeps, SafetyCopyKeeps, PreserveKeeps
  <2>6. CASE SwapRepaired \/ RollBack \/ FailTask
    BY <2>6, SwapRepairedKeeps, FailTaskKeeps
  <2>7. CASE Stop \/ DamageLedger \/ PassDay
    BY <2>7, StopKeeps, DamageLedgerKeeps, PassDayKeeps
  <2>8. CASE UNCHANGED files
    <3>1. UNCHANGED <<live, aside, before, backups, process, writing, task, written, gone, day>>
      BY <2>8 DEF files
    <3> QED
      BY <3>1 DEF FileInv, FilesOK, OldLedger, TaskOK, BackupFirst, Backed, AllKept, Kept, Good
  <2> QED
    BY <2>1, <2>2, <2>3, <2>4, <2>5, <2>6, <2>7, <2>8 DEF FilesNext
<1>3. FileInv => LedgerFileSurvives
  BY KeptSurvives DEF FileInv
<1> QED
  BY <1>1, <1>2, <1>3, PTL DEF FilesSpec
-----------------------------------------------------------------------------
(* The settings file *)

\* A list of columns that names none twice.
Orders == {o \in Seq(Range(Columns)) : IsInjective(o)}

\* One step of the repair keeps what is listed, adds what is known, and repeats nothing.
LEMMA OnceAddsOnce ==
  ASSUME NEW o \in Orders, NEW c
  PROVE  /\ Once(o, c) \in Orders
         /\ Range(o) \subseteq Range(Once(o, c))
         /\ c \in Range(Columns) => c \in Range(Once(o, c))
<1>1. o \in Seq(Range(Columns)) /\ IsInjective(o)
  BY DEF Orders
<1>2. CASE c \in Range(Columns) \ Range(o)
  <2>1. Once(o, c) = Append(o, c)
    BY <1>2 DEF Once
  <2>2. PICK p : p = Append(o, c)
    OBVIOUS
  <2>3. c \in Range(Columns)
    BY <1>2
  <2>4. p \in Seq(Range(Columns))
    BY <1>1, <2>2, <2>3, AppendProperties
  <2>5. Len(p) = Len(o) + 1
    BY <1>1, <2>2, <2>3, AppendProperties
  <2>6. \A i \in 1..Len(o) : p[i] = o[i]
    BY <1>1, <2>2, <2>3, AppendProperties
  <2>7. p[Len(o) + 1] = c
    BY <1>1, <2>2, <2>3, AppendProperties
  <2>8. DOMAIN o = 1..Len(o) /\ DOMAIN p = 1..(Len(o) + 1) /\ Len(o) \in Nat
    BY <1>1, <2>4, <2>5, LenProperties
  <2>9. \A i \in DOMAIN p : i \in DOMAIN o \/ i = Len(o) + 1
    BY <2>8
  <2>10. \A i \in DOMAIN o : o[i] # c
    BY <1>2 DEF Range
  <2>11. IsInjective(p)
    BY <1>1, <2>6, <2>7, <2>8, <2>9, <2>10 DEF IsInjective
  <2>12. Range(o) \subseteq Range(p)
    BY <2>6, <2>8 DEF Range
  <2>13. c \in Range(p)
    BY <2>7, <2>8 DEF Range
  <2> QED
    BY <2>1, <2>2, <2>4, <2>11, <2>12, <2>13 DEF Orders
<1>3. CASE c \notin Range(Columns) \ Range(o)
  BY <1>3 DEF Once
<1> QED
  BY <1>2, <1>3

\* So does the repair of a whole list.
LEMMA FoldAddsOnce ==
  ASSUME NEW base \in Orders, NEW list \in Seq(STRING)
  PROVE  /\ FoldLeft(Once, base, list) \in Orders
         /\ Range(base) \subseteq Range(FoldLeft(Once, base, list))
         /\ Range(list) \cap Range(Columns) \subseteq Range(FoldLeft(Once, base, list))
<1>0. PICK S : S = DOMAIN list
  OBVIOUS
<1> DEFINE pick == [s \in SUBSET S |-> Max(s)]
           step == [p \in S \X Orders |-> Once(p[2], list[p[1]])]
           Body(f) == [s \in SUBSET S |->
                         IF s = {} THEN base ELSE Once(f[s \ {Max(s)}], list[Max(s)])]
           iter == CHOOSE f : f = Body(f)
<1>1. FoldLeft(Once, base, list) = iter[S]
  BY <1>0 DEF FoldLeft, MapThenFoldSet
<1>2. IsFiniteSet(S) /\ S \subseteq Int
  <2>1. S = 1..Len(list) /\ Len(list) \in Nat
    BY <1>0, LenProperties
  <2> QED
    BY <2>1, FS_Interval
<1>2a. IsFiniteSet(S)
  BY <1>2
<1>3. \A s \in SUBSET S : s # {} => pick[s] = Max(s) /\ Max(s) \in s
  <2>1. ASSUME NEW s \in SUBSET S, s # {} PROVE Max(s) \in s
    <3>1. IsFiniteSet(s) /\ s \subseteq Int
      BY <1>2, FS_Subset
    <3> QED
      BY <2>1, <3>1, MaxExists
  <2> QED
    BY <2>1
<1>4. Picks(pick, S)
  BY <1>3 DEF Picks
<1>5. \A i \in S, o \in Orders : step[<<i, o>>] = Once(o, list[i]) /\ step[<<i, o>>] \in Orders
  BY OnceAddsOnce
<1> HIDE DEF pick, step
<1>6. PICK f : FoldsUp(f, S, base, step, pick)
  BY <1>2, <1>4, FoldsExist
<1>7. \A s \in SUBSET S : f[s] \in Orders
  <2> DEFINE J == {s \in SUBSET S : f[s] \in Orders}
  <2>1. {} \in J
    BY <1>6 DEF FoldsUp
  <2>2. ASSUME NEW s \in SUBSET S, s # {}, s \ {pick[s]} \in J PROVE s \in J
    <3>1. f[s] = step[<<pick[s], f[s \ {pick[s]}]>>]
      BY <1>6, <2>2, FoldOf
    <3>2. pick[s] \in S
      BY <1>3, <2>2
    <3> QED
      BY <1>5, <2>2, <3>1, <3>2
  <2> HIDE DEF J
  <2>3. \A s \in SUBSET S : s \in J
    BY <1>2a, <1>4, <2>1, <2>2, SubsetInduction
  <2> QED
    BY <2>3 DEF J
<1>8. f = Body(f)
  <2>1. ASSUME NEW s \in SUBSET S, s # {}
        PROVE  f[s] = Once(f[s \ {Max(s)}], list[Max(s)])
    <3>1. f[s] = step[<<pick[s], f[s \ {pick[s]}]>>]
      BY <1>6, <2>1, FoldOf
    <3>2. PICK m : m = Max(s)
      OBVIOUS
    <3>3. pick[s] = m /\ m \in S
      BY <1>3, <2>1, <3>2
    <3>4. f[s \ {m}] \in Orders
      BY <1>7
    <3> QED
      BY <1>5, <3>1, <3>2, <3>3, <3>4
  <2>2. f[{}] = base
    BY <1>6 DEF FoldsUp
  <2>3. f = [s \in SUBSET S |-> f[s]]
    BY <1>6 DEF FoldsUp
  <2> QED
    BY <2>1, <2>2, <2>3
<1>9. iter = Body(iter)
  <2> HIDE DEF Body
  <2> QED
    BY <1>8
<1>10. /\ iter[{}] = base
       /\ \A s \in SUBSET S : s # {} =>
            \E m \in s : m = pick[s] /\ iter[s] = Once(iter[s \ {m}], list[m])
  <2> HIDE DEF iter
  <2>1. ASSUME NEW s \in SUBSET S, s # {}
        PROVE \E m \in s : m = pick[s] /\ iter[s] = Once(iter[s \ {m}], list[m])
    <3>1. iter[s] = Once(iter[s \ {Max(s)}], list[Max(s)])
      BY <1>9, <2>1
    <3> QED
      BY <1>3, <2>1, <3>1
  <2> QED
    BY <1>9, <2>1
<1> HIDE DEF iter
<1> DEFINE Sound(s) == /\ iter[s] \in Orders
                      /\ Range(base) \subseteq Range(iter[s])
                      /\ \A i \in s : list[i] \in Range(Columns) => list[i] \in Range(iter[s])
           K == {s \in SUBSET S : Sound(s)}
<1>11. {} \in K
  BY <1>10
<1>12. ASSUME NEW s \in SUBSET S, s # {}, s \ {pick[s]} \in K PROVE s \in K
  <2>1. PICK m \in s : m = pick[s] /\ iter[s] = Once(iter[s \ {m}], list[m])
    BY <1>10, <1>12
  <2>2. Sound(s \ {m})
    BY <1>12, <2>1
  <2>3. /\ iter[s] \in Orders
        /\ Range(iter[s \ {m}]) \subseteq Range(iter[s])
        /\ list[m] \in Range(Columns) => list[m] \in Range(iter[s])
    BY <2>1, <2>2, OnceAddsOnce
  <2>4. Sound(s)
    BY <2>2, <2>3
  <2> QED
    BY <2>4
<1> HIDE DEF K
<1>13. \A s \in SUBSET S : s \in K
  BY <1>2a, <1>4, <1>11, <1>12, SubsetInduction
<1>14. Sound(S)
  BY <1>13 DEF K
<1>15. \A c \in Range(list) : \E i \in S : c = list[i]
  BY <1>0 DEF Range
<1> QED
  BY <1>1, <1>14, <1>15

Usable(layout) ==
  /\ layout \in Layouts /\ layout.order \in Orders
  /\ Range(layout.order) = Range(Columns)
  /\ DOMAIN layout.fine = DOMAIN layout.order
  /\ \A i \in DOMAIN layout.order : layout.fine[i]

NewerRelease(f) == f \notin {NoSettings, Torn} /\ f.version > SettingsVersion

IsSession(s) ==
  /\ s = [readOnly |-> s.readOnly, account |-> s.account, layout |-> s.layout]
  /\ s.readOnly \in BOOLEAN
  /\ Usable(s.layout)

FilesTyped ==
  /\ disk \in {NoSettings, Torn} \cup Foreign \cup Saves
  /\ settings # NoSettings => IsSession(settings)
  /\ Usable(shownLayout)
  /\ chosen \in Selectable \cup {Nobody}

\* A session that writes may: it has read no file of a newer release.
SavesOwn ==
  /\ disk = Torn => foreignDisk = Torn
  /\ NewerRelease(foreignDisk) => disk = foreignDisk
  /\ NewerRelease(foreignDisk) /\ settings # NoSettings => settings.readOnly
  /\ saving \in {"writing", "written"} =>
       settings # NoSettings /\ ~settings.readOnly /\ settings.account = chosen
  /\ saving = "written" => temp \in Saves

SettingsInv == FilesTyped /\ SavesOwn
-----------------------------------------------------------------------------
\* Every width of a list of columns is good.
LEMMA AllFine ==
  ASSUME NEW T, NEW order \in Seq(T)
  PROVE  /\ [i \in DOMAIN order |-> TRUE] \in Seq(BOOLEAN)
         /\ DOMAIN [i \in DOMAIN order |-> TRUE] = DOMAIN order
<1>1. DOMAIN order = 1..Len(order) /\ Len(order) \in Nat
  BY LenProperties
<1>2. [i \in 1..Len(order) |-> TRUE] \in [1..Len(order) -> BOOLEAN]
  OBVIOUS
<1> QED
  BY <1>1, <1>2, SeqDef

\* The columns of a layout are names.
LEMMA ColumnsAreStrings == Range(Columns) \subseteq STRING /\ Columns \in Seq(Range(Columns))
<1>1. Columns \in Seq(STRING)
  BY SettingsAssumption
<1>2. DOMAIN Columns = 1..Len(Columns) /\ Len(Columns) \in Nat
  BY <1>1, LenProperties
<1>3. Columns \in [1..Len(Columns) -> STRING]
  BY <1>1, LenProperties
<1>4. Columns \in [1..Len(Columns) -> Range(Columns)]
  BY <1>2, <1>3 DEF Range
<1>5. Columns \in Seq(Range(Columns))
  BY <1>2, <1>4, SeqDef
<1> QED
  BY <1>2, <1>3, <1>5 DEF Range

\* A list of distinct known columns is one of strings.
LEMMA OrdersAreLists ==
  ASSUME NEW o \in Orders
  PROVE  o \in Seq(STRING) /\ Range(o) \subseteq Range(Columns)
<1>1. o \in Seq(Range(Columns))
  BY DEF Orders
<1>2. DOMAIN o = 1..Len(o) /\ Len(o) \in Nat /\ o \in [1..Len(o) -> Range(Columns)]
  BY <1>1, LenProperties
<1>3. o \in [1..Len(o) -> STRING]
  BY <1>2, ColumnsAreStrings
<1> QED
  BY <1>2, <1>3, SeqDef DEF Range

\* The columns a session starts with.
LEMMA DefaultUsable == Usable(DefaultLayout)
<1>1. PICK fine : fine = [i \in DOMAIN Columns |-> TRUE]
  OBVIOUS
<1>2. Columns \in Seq(STRING) /\ IsInjective(Columns) /\ DefaultHidden \subseteq STRING
  BY SettingsAssumption
<1>3. fine \in Seq(BOOLEAN) /\ DOMAIN fine = DOMAIN Columns
  BY <1>1, <1>2, AllFine
<1>4. \A i \in DOMAIN Columns : fine[i]
  BY <1>1
<1>5. PICK layout : layout = [order |-> Columns, fine |-> fine, hidden |-> DefaultHidden]
  OBVIOUS
<1>6. layout \in Layouts
  BY <1>2, <1>3, <1>5 DEF Layouts
<1>7. layout.order \in Orders
  BY <1>2, <1>5, ColumnsAreStrings DEF Orders
<1>8. DefaultLayout = layout
  BY <1>1, <1>5 DEF DefaultLayout
<1> QED
  BY <1>3, <1>4, <1>5, <1>6, <1>7, <1>8 DEF Usable

\* Whatever columns the file lists, the repair leaves every known one once.
LEMMA RepairMakesUsable ==
  ASSUME NEW layout, layout.order \in Seq(STRING)
  PROVE  Usable(RepairLayout(layout))
<1>1. <<>> \in Orders
  BY DEF Orders, IsInjective
<1>2. PICK kept : kept = FoldLeft(Once, <<>>, layout.order)
  OBVIOUS
<1>3. kept \in Orders
  BY <1>1, <1>2, FoldAddsOnce
<1>4. PICK order : order = FoldLeft(Once, kept, Columns)
  OBVIOUS
<1>5. Columns \in Seq(STRING)
  BY SettingsAssumption
<1>6. order \in Orders /\ Range(Columns) \cap Range(Columns) \subseteq Range(order)
  BY <1>3, <1>4, <1>5, FoldAddsOnce
<1>7. order \in Seq(STRING) /\ Range(order) = Range(Columns)
  BY <1>6, OrdersAreLists
<1>8. PICK fine : fine = [i \in DOMAIN order |-> TRUE]
  OBVIOUS
<1>9. fine \in Seq(BOOLEAN) /\ DOMAIN fine = DOMAIN order
  BY <1>7, <1>8, AllFine
<1>10. PICK hidden : hidden = layout.hidden \cap Range(Columns)
  OBVIOUS
<1>11. hidden \subseteq STRING
  BY <1>10, ColumnsAreStrings
<1>12. PICK r : r = [order |-> order, fine |-> fine, hidden |-> hidden]
  OBVIOUS
<1>13. RepairLayout(layout) = r
  BY <1>2, <1>4, <1>8, <1>10, <1>12 DEF RepairLayout
<1>14. r \in Layouts
  BY <1>7, <1>9, <1>11, <1>12 DEF Layouts
<1>15. \A i \in DOMAIN order : fine[i]
  BY <1>8
<1> QED
  BY <1>6, <1>7, <1>9, <1>12, <1>13, <1>14, <1>15 DEF Usable

\* Hiding or showing a column touches no other part of the layout.
LEMMA HidingKeepsUsable ==
  ASSUME NEW layout, Usable(layout), NEW hidden \in SUBSET STRING
  PROVE  Usable([layout EXCEPT !.hidden = hidden])
<1>1. layout \in Layouts
  BY DEF Usable
<1>2. PICK r : r = [layout EXCEPT !.hidden = hidden]
  OBVIOUS
<1>3. r \in Layouts /\ r.order = layout.order /\ r.fine = layout.fine
  BY <1>1, <1>2 DEF Layouts
<1> QED
  BY <1>2, <1>3 DEF Usable
-----------------------------------------------------------------------------
\* A launch starts with the defaults and no file.
LEMMA SettingsStart == SettingsInit => SettingsInv
BY DefaultUsable DEF SettingsInit, SettingsInv, FilesTyped, SavesOwn, NewerRelease

\* What a session reads is repaired, and one of a newer release is never written.
LEMMA LoadingRepairs == SettingsInv /\ LoadSettings => SettingsInv'
<1> SUFFICES ASSUME SettingsInv, LoadSettings PROVE SettingsInv'
  OBVIOUS
<1>1. /\ disk \in {NoSettings, Torn} \cup Foreign \cup Saves
      /\ Usable(shownLayout) /\ settings = NoSettings
  BY DEF SettingsInv, FilesTyped, LoadSettings
<1>2. UNCHANGED <<disk, foreignDisk>> /\ saving' = "no" /\ chosen' = Nobody /\ shownLayout' = settings'.layout
  BY DEF LoadSettings
<1>3. PICK defaults : defaults = [readOnly |-> FALSE, account |-> Nobody, layout |-> DefaultLayout]
  OBVIOUS
<1>4. IsSession(defaults)
  BY <1>3, DefaultUsable DEF IsSession
<1>5. settings' = IF disk \in {NoSettings, Torn} THEN defaults
                  ELSE IF disk.version > SettingsVersion THEN [defaults EXCEPT !.readOnly = TRUE]
                  ELSE [defaults EXCEPT !.account = disk.account, !.layout = RepairLayout(disk.layout)]
  BY <1>3 DEF LoadSettings
<1>6. IsSession(settings') /\ (NewerRelease(disk) => settings'.readOnly)
  <2>1. CASE disk \in {NoSettings, Torn}
    BY <1>4, <1>5, <2>1 DEF NewerRelease
  <2>2. CASE disk \notin {NoSettings, Torn} /\ disk.version > SettingsVersion
    <3>1. settings' = [readOnly |-> TRUE, account |-> Nobody, layout |-> DefaultLayout]
      BY <1>3, <1>5, <2>2
    <3> QED
      BY <3>1, DefaultUsable DEF IsSession
  <2>3. CASE disk \notin {NoSettings, Torn} /\ ~(disk.version > SettingsVersion)
    <3>1. disk \in Foreign \ {Torn} \/ disk \in Saves
      BY <1>1, <2>3
    <3>2. disk.layout.order \in Seq(STRING)
      <4>1. CASE disk \in Foreign \ {Torn}
        BY <4>1, SettingsAssumption
      <4>2. CASE disk \in Saves
        BY <4>2 DEF Saves, Layouts
      <4> QED
        BY <3>1, <4>1, <4>2
    <3>3. PICK layout : layout = RepairLayout(disk.layout)
      OBVIOUS
    <3>4. Usable(layout)
      BY <3>2, <3>3, RepairMakesUsable
    <3>5. PICK s : s = [readOnly |-> FALSE, account |-> disk.account, layout |-> layout]
      OBVIOUS
    <3>6. settings' = s
      <4>1. PICK r : r = [defaults EXCEPT !.account = disk.account]
        OBVIOUS
      <4>2. r = [readOnly |-> FALSE, account |-> disk.account, layout |-> DefaultLayout]
        BY <1>3, <4>1
      <4>3. settings' = [r EXCEPT !.layout = layout]
        <5>1. settings' = [defaults EXCEPT !.account = disk.account, !.layout = RepairLayout(disk.layout)]
          BY <1>5, <2>3, Zenon
        <5> QED
          BY <3>3, <4>1, <5>1
      <4>4. PICK t : t = [r EXCEPT !.layout = layout]
        OBVIOUS
      <4>5. t = s
        <5>1. PICK account, default : account = disk.account /\ default = DefaultLayout
          OBVIOUS
        <5>2. r = [readOnly |-> FALSE, account |-> account, layout |-> default]
          BY <4>2, <5>1
        <5>3. t = [readOnly |-> FALSE, account |-> account, layout |-> layout]
          BY <4>4, <5>2
        <5> QED
          BY <3>5, <5>1, <5>3
      <4> QED
        BY <4>3, <4>4, <4>5
    <3>7. IsSession(settings')
      BY <3>4, <3>5, <3>6 DEF IsSession
    <3>8. ~NewerRelease(disk)
      BY <2>3 DEF NewerRelease
    <3> QED
      BY <3>7, <3>8
  <2> QED
    BY <2>1, <2>2, <2>3
<1>7. FilesTyped'
  BY <1>1, <1>2, <1>6 DEF FilesTyped, IsSession
<1>8. SavesOwn'
  <2>1. (disk = Torn => foreignDisk = Torn) /\ (NewerRelease(foreignDisk) => disk = foreignDisk)
    BY DEF SettingsInv, SavesOwn
  <2> QED
    BY <1>2, <1>6, <2>1 DEF SavesOwn, NewerRelease
<1> QED
  BY <1>7, <1>8 DEF SettingsInv

\* A change of the columns ends up in the session's settings as it is shown.
LEMMA ColumnsStayUsable ==
  ASSUME NEW layout, Usable(layout), SettingsInv, Running,
         shownLayout' = layout, settings' = [settings EXCEPT !.layout = layout],
         UNCHANGED <<disk, temp, chosen, saving, foreignDisk>>
  PROVE  SettingsInv'
<1>1. IsSession(settings) /\ saving = "no"
  BY DEF SettingsInv, FilesTyped, Running
<1>2. settings' = [readOnly |-> settings.readOnly, account |-> settings.account, layout |-> layout]
  BY <1>1 DEF IsSession
<1>3. IsSession(settings') /\ settings'.readOnly = settings.readOnly
  BY <1>1, <1>2 DEF IsSession
<1>4. FilesTyped'
  BY <1>3 DEF SettingsInv, FilesTyped
<1>5. SavesOwn'
  BY <1>1, <1>3 DEF SettingsInv, SavesOwn, NewerRelease, Running
<1> QED
  BY <1>4, <1>5 DEF SettingsInv

\* So does the account the session opens with and the one it saves.
LEMMA AccountStaysKnown ==
  ASSUME NEW account \in Selectable \cup {Nobody}, SettingsInv, settings # NoSettings,
         settings' = [settings EXCEPT !.account = account],
         chosen' \in Selectable \cup {Nobody},
         UNCHANGED <<disk, shownLayout, foreignDisk>>,
         saving' \in {"writing", "written"} => ~settings.readOnly /\ account = chosen',
         saving' # "written"
  PROVE  SettingsInv'
<1>1. IsSession(settings)
  BY DEF SettingsInv, FilesTyped
<1>2. settings' = [readOnly |-> settings.readOnly, account |-> account, layout |-> settings.layout]
  BY <1>1 DEF IsSession
<1>3. IsSession(settings') /\ settings'.readOnly = settings.readOnly /\ settings'.account = account
  BY <1>1, <1>2 DEF IsSession
<1>3a. settings' \in Sessions
  BY <1>1, <1>2 DEF IsSession, Usable, Sessions
<1>3b. settings' # NoSettings
  BY <1>3a, SettingsAssumption
<1>4. FilesTyped'
  BY <1>3 DEF SettingsInv, FilesTyped
<1>5. SavesOwn'
  BY <1>3, <1>3b DEF SettingsInv, SavesOwn, NewerRelease
<1> QED
  BY <1>4, <1>5 DEF SettingsInv
-----------------------------------------------------------------------------
\* Every step of the session, the save and the other programs keeps the invariant.
LEMMA SettingsStep == SettingsInv /\ [SettingsNext]_settingsFile => SettingsInv'
<1> SUFFICES ASSUME SettingsInv, [SettingsNext]_settingsFile PROVE SettingsInv'
  OBVIOUS
<1> USE DEF SettingsInv
<1>1. CASE LoadSettings
  BY <1>1, LoadingRepairs
<1>2. CASE OpenLedger
  <2>1. settings # NoSettings /\ saving = "no" /\ saving' = "no" /\ UNCHANGED <<disk, shownLayout, foreignDisk, temp>>
    BY <1>2 DEF OpenLedger, Running
  <2>2. CASE settings.account \in Selectable /\ chosen' = settings.account /\ UNCHANGED settings
    <3>1. FilesTyped'
      BY <2>1, <2>2 DEF FilesTyped
    <3>2. SavesOwn'
      BY <2>1, <2>2 DEF SavesOwn, NewerRelease
    <3> QED
      BY <3>1, <3>2
  <2>3. CASE chosen' \in Selectable /\ settings' = [settings EXCEPT !.account = Nobody]
    <3> HIDE DEF SettingsInv
    <3>1. PICK account \in Selectable \cup {Nobody} : account = Nobody
      OBVIOUS
    <3> QED
      BY <2>1, <2>3, <3>1, AccountStaysKnown
  <2> QED
    BY <1>2, <2>2, <2>3 DEF OpenLedger
<1>3. CASE ResetColumns
  <2> HIDE DEF SettingsInv
  <2>1. PICK layout : layout = DefaultLayout
    OBVIOUS
  <2>2. Usable(layout)
    BY <2>1, DefaultUsable
  <2>3. Running /\ shownLayout' = layout /\ settings' = [settings EXCEPT !.layout = layout]
        /\ UNCHANGED <<disk, temp, chosen, saving, foreignDisk>>
    BY <1>3, <2>1 DEF ResetColumns
  <2> QED
    BY <2>2, <2>3, ColumnsStayUsable
<1>4. CASE WriteTemp
  <2>1. /\ settings # NoSettings /\ settings' = [settings EXCEPT !.account = chosen]
        /\ UNCHANGED <<disk, shownLayout, foreignDisk, chosen>>
        /\ saving' \in {"done", "writing"}
        /\ saving' = "writing" => ~settings.readOnly
    BY <1>4 DEF WriteTemp, Running
  <2>2. PICK account \in Selectable \cup {Nobody} : account = chosen
    BY DEF FilesTyped
  <2>3. chosen' = account /\ settings' = [settings EXCEPT !.account = account]
    BY <2>1, <2>2
  <2> HIDE DEF SettingsInv
  <2> QED
    BY <2>1, <2>3, AccountStaysKnown
<1>5. CASE SyncTemp
  <2>1. /\ saving = "writing" /\ saving' = "written"
        /\ temp' = [version |-> SettingsVersion, account |-> settings.account, layout |-> settings.layout]
        /\ UNCHANGED <<disk, settings, shownLayout, chosen, foreignDisk>>
    BY <1>5 DEF SyncTemp
  <2>2. FilesTyped'
    BY <2>1 DEF FilesTyped
  <2>3. settings.account \in Selectable \cup {Nobody} /\ settings.layout \in Layouts
    BY <2>1 DEF FilesTyped, SavesOwn, IsSession, Usable
  <2>4. temp' \in Saves
    BY <2>1, <2>3 DEF Saves
  <2>5. SavesOwn'
    BY <2>1, <2>4 DEF SavesOwn, NewerRelease
  <2> QED
    BY <2>2, <2>5
<1>6. CASE RenameTemp
  <2>1. /\ saving = "written" /\ saving' = "done" /\ disk' = temp
        /\ UNCHANGED <<settings, shownLayout, chosen, foreignDisk>>
    BY <1>6 DEF RenameTemp
  <2>2. temp \in Saves /\ ~NewerRelease(foreignDisk)
    BY <2>1 DEF SavesOwn
  <2>3. temp # Torn
    BY <2>2, SettingsAssumption
  <2>4. FilesTyped'
    BY <2>1, <2>2 DEF FilesTyped
  <2>5. SavesOwn'
    BY <2>1, <2>2, <2>3 DEF SavesOwn, NewerRelease
  <2> QED
    BY <2>4, <2>5
<1>7. CASE FailSave
  <2>1. saving' = "no" /\ UNCHANGED <<disk, settings, shownLayout, chosen, foreignDisk>>
    BY <1>7 DEF FailSave
  <2>2. FilesTyped'
    BY <2>1 DEF FilesTyped
  <2>3. SavesOwn'
    BY <2>1 DEF SavesOwn, NewerRelease
  <2> QED
    BY <2>2, <2>3
<1>8. CASE EndSession
  <2>1. saving' = "no" /\ settings' = NoSettings /\ UNCHANGED <<disk, shownLayout, chosen, foreignDisk>>
    BY <1>8 DEF EndSession
  <2>2. FilesTyped'
    BY <2>1 DEF FilesTyped
  <2>3. SavesOwn'
    BY <2>1 DEF SavesOwn, NewerRelease
  <2> QED
    BY <2>2, <2>3
<1>9. ASSUME NEW account \in Selectable, SelectAccount(account) PROVE SettingsInv'
  <2>1. /\ saving = "no" /\ chosen' = account
        /\ UNCHANGED <<disk, settings, shownLayout, foreignDisk, saving>>
    BY <1>9 DEF SelectAccount, Running
  <2>2. FilesTyped'
    BY <2>1 DEF FilesTyped
  <2>3. SavesOwn'
    BY <2>1 DEF SavesOwn, NewerRelease
  <2> QED
    BY <2>2, <2>3
<1>10. ASSUME NEW column \in Range(Columns), NEW visible \in BOOLEAN, SetVisible(column, visible)
       PROVE SettingsInv'
  <2>1. Running /\ settings' = [settings EXCEPT !.layout = shownLayout']
        /\ UNCHANGED <<disk, temp, chosen, saving, foreignDisk>>
    BY <1>10 DEF SetVisible
  <2>2. Usable(shownLayout) /\ column \in STRING /\ shownLayout.hidden \in SUBSET STRING
    BY ColumnsAreStrings DEF FilesTyped, Usable, Layouts
  <2>3. \E layout : layout = shownLayout' /\ Usable(layout)
    <3>1. CASE ~visible /\ column \in CoreColumns
      BY <1>10, <2>2, <3>1 DEF SetVisible
    <3>2. CASE ~(~visible /\ column \in CoreColumns)
      <4>1. PICK hidden \in SUBSET STRING :
              hidden = IF visible THEN shownLayout.hidden \ {column} ELSE shownLayout.hidden \cup {column}
        BY <2>2
      <4>2. shownLayout' = [shownLayout EXCEPT !.hidden = hidden]
        BY <1>10, <3>2, <4>1 DEF SetVisible
      <4>3. PICK layout : layout = [shownLayout EXCEPT !.hidden = hidden]
        OBVIOUS
      <4>4. Usable(layout)
        BY <2>2, <4>3, HidingKeepsUsable
      <4> QED
        BY <4>2, <4>3, <4>4
    <3> QED
      BY <3>1, <3>2
  <2>4. PICK layout : layout = shownLayout' /\ Usable(layout)
    BY <2>3
  <2> HIDE DEF SettingsInv
  <2> QED
    BY <2>1, <2>4, ColumnsStayUsable
<1>11. ASSUME NEW content \in Foreign, WriteForeign(content) PROVE SettingsInv'
  <2>1. /\ settings = NoSettings /\ disk' = content /\ foreignDisk' = content
        /\ UNCHANGED <<temp, settings, shownLayout, chosen, saving>>
    BY <1>11 DEF WriteForeign
  <2>2. FilesTyped'
    BY <2>1 DEF FilesTyped
  <2>3. SavesOwn'
    BY <2>1 DEF SavesOwn, NewerRelease
  <2> QED
    BY <2>2, <2>3
<1>12. CASE UNCHANGED settingsFile
  <2>1. UNCHANGED <<disk, temp, settings, shownLayout, chosen, saving, foreignDisk>>
    BY <1>12 DEF settingsFile
  <2>2. FilesTyped'
    BY <2>1 DEF FilesTyped
  <2>3. SavesOwn'
    BY <2>1 DEF SavesOwn, NewerRelease
  <2> QED
    BY <2>2, <2>3
<1> HIDE DEF SettingsInv
<1> QED
  BY <1>1, <1>2, <1>3, <1>4, <1>5, <1>6, <1>7, <1>8, <1>9, <1>10, <1>11, <1>12 DEF SettingsNext

\* The invariant is what the runs check, said with more names.
LEMMA SettingsInvSuffices == SettingsInv => SettingsSurvive
<1> SUFFICES ASSUME SettingsInv PROVE SettingsSurvive
  OBVIOUS
<1>1. /\ disk = Torn => foreignDisk = Torn
      /\ NewerRelease(foreignDisk) => disk = foreignDisk
  BY DEF SettingsInv, SavesOwn
<1>2. Usable(shownLayout)
  BY DEF SettingsInv, FilesTyped
<1> QED
  BY <1>1, <1>2 DEF SettingsSurvive, NewerRelease, Usable, Orders

\* However the session and its save are interrupted, and whatever other programs write, the
\* settings file is theirs or a complete save, one of a newer release stays, and the register
\* shows every known column once.
THEOREM SettingsOutliveSessions == SettingsSpec => []SettingsSurvive
<1>1. SettingsInit => SettingsInv
  BY SettingsStart
<1>2. SettingsInv /\ [SettingsNext]_settingsFile => SettingsInv'
  BY SettingsStep
<1>3. SettingsInv => SettingsSurvive
  BY SettingsInvSuffices
<1> QED
  BY <1>1, <1>2, <1>3, PTL DEF SettingsSpec
-----------------------------------------------------------------------------
(* Account groups *)

ParentsOrNone == AccountGroups \cup {NoGroup}
Forests == UNION {[ids -> ParentsOrNone] : ids \in SUBSET AccountGroups}

\* What holds at the start of a walk, and one step further if it does before, holds at every
\* step up to the last: all of them are in J.
LEMMA UpTo ==
  ASSUME NEW N \in Nat, NEW J, 0 \in J, \A n \in 1..N : n - 1 \in J => n \in J
  PROVE  \A n \in 0..N : n \in J
<1> SUFFICES ASSUME NEW T, T = (0..N) \ J, T # {} PROVE FALSE
  OBVIOUS
<1>1. IsFiniteSet(0..N)
  BY FS_Interval
<1>2. T \in SUBSET (0..N) /\ T \subseteq Int
  OBVIOUS
<1>3. IsFiniteSet(T)
  BY <1>1, <1>2, FS_Subset
<1>4. PICK m : m = Min(T)
  OBVIOUS
<1>5. m \in T /\ \A x \in T : m <= x
  BY <1>2, <1>3, <1>4, MinExists
<1>6. m \in 1..N /\ m - 1 \in 0..N
  BY <1>5
<1>7. m - 1 \notin T
  BY <1>5, <1>6
<1> QED
  BY <1>5, <1>6, <1>7

\* The groups met after each number of steps up.
Climbs(f, N, parents, group) ==
  f = [n \in 0..N |-> IF n = 0 THEN {group} \ {NoGroup} ELSE WithParents(parents, f[n - 1])]

\* A step up meets account groups only, and forgets none.
LEMMA ParentsMet ==
  ASSUME NEW parents \in Forests, NEW met \in SUBSET AccountGroups
  PROVE  /\ WithParents(parents, met) \in SUBSET AccountGroups
         /\ met \subseteq WithParents(parents, met)
<1>1. NoGroup \notin AccountGroups
  BY OrganizationAssumption
<1>2. \A g \in DOMAIN parents : parents[g] \in ParentsOrNone
  BY DEF Forests
<1> QED
  BY <1>1, <1>2 DEF WithParents, ParentsOrNone

\* The recursion of the walk has a solution.
LEMMA ClimbExists ==
  ASSUME NEW parents \in Forests, NEW group \in ParentsOrNone, NEW N \in Nat
  PROVE  \E f : Climbs(f, N, parents, group)
<1>0. PICK S : S = 1..N
  OBVIOUS
<1> DEFINE base == {group} \ {NoGroup}
           pick == [s \in SUBSET S |-> Max(s)]
           step == [p \in S \X SUBSET AccountGroups |-> WithParents(parents, p[2])]
<1>1. IsFiniteSet(S) /\ S \subseteq Int
  BY <1>0, FS_Interval
<1>2. \A s \in SUBSET S : s # {} => Max(s) \in s /\ \A x \in s : Max(s) >= x
  <2>1. ASSUME NEW s \in SUBSET S, s # {} PROVE Max(s) \in s /\ \A x \in s : Max(s) >= x
    <3>1. IsFiniteSet(s) /\ s \subseteq Int
      BY <1>1, FS_Subset
    <3> QED
      BY <2>1, <3>1, MaxExists
  <2> QED
    BY <2>1
<1>3. Picks(pick, S)
  BY <1>2 DEF Picks
<1>4. base \in SUBSET AccountGroups
  BY DEF ParentsOrNone
<1>5. \A i \in S, o \in SUBSET AccountGroups :
        step[<<i, o>>] = WithParents(parents, o) /\ step[<<i, o>>] \in SUBSET AccountGroups
  BY ParentsMet
<1> HIDE DEF step, base, pick
<1>6. PICK h : FoldsUp(h, S, base, step, pick)
  BY ONLY <1>1, <1>3, FoldsExist
<1>7. PICK J : J = {s \in SUBSET S : h[s] \in SUBSET AccountGroups}
  OBVIOUS
<1>8. {} \in J
  <2>1. PICK s \in SUBSET S : s = {}
    OBVIOUS
  <2>2. h[s] = IF s = {} THEN base ELSE step[<<pick[s], h[s \ {pick[s]}]>>]
    BY <1>6, FoldOf
  <2> QED
    BY <1>4, <1>7, <2>1, <2>2
<1>9. \A s \in SUBSET S : s # {} /\ s \ {pick[s]} \in J => s \in J
  <2>1. ASSUME NEW s \in SUBSET S, s # {}, s \ {pick[s]} \in J PROVE s \in J
    <3>1. h[s] = step[<<pick[s], h[s \ {pick[s]}]>>]
      BY <1>6, <2>1, FoldOf
    <3>2. pick[s] \in S
      BY <1>3, <2>1 DEF Picks
    <3> QED
      BY <1>5, <1>7, <2>1, <3>1, <3>2
  <2> QED
    BY <2>1
<1>10. \A s \in SUBSET S : h[s] \in SUBSET AccountGroups
  <2>1. \A s \in SUBSET S : s \in J
    <3>1. IsFiniteSet(S)
      BY <1>1
    <3> QED
      BY <1>3, <1>8, <1>9, <3>1, SubsetInduction
  <2> QED
    BY <1>7, <2>1
<1> DEFINE f == [n \in 0..N |-> h[1..n]]
<1>11. ASSUME NEW n \in 0..N
       PROVE  f[n] = IF n = 0 THEN base ELSE WithParents(parents, f[n - 1])
  <2>1. f[n] = h[1..n] /\ 1..n \in SUBSET S
    BY <1>0
  <2>2. CASE n = 0
    <3>1. 1..n = {}
      BY <2>2
    <3>2. PICK s \in SUBSET S : s = 1..n
      BY <2>1
    <3>3. s = {}
      BY <3>1, <3>2
    <3>4. h[s] = IF s = {} THEN base ELSE step[<<pick[s], h[s \ {pick[s]}]>>]
      BY <1>6, FoldOf
    <3> QED
      BY <2>1, <2>2, <3>2, <3>3, <3>4
  <2>3. CASE n # 0
    <3>1. PICK s : s = 1..n
      OBVIOUS
    <3>2. s \in SUBSET S /\ s # {} /\ n \in s /\ \A x \in s : x \in Int /\ x <= n
      BY <2>1, <2>3, <3>1
    <3>3. pick[s] = n
      <4>1. pick[s] = Max(s)
        BY <3>2 DEF pick
      <4>2. PICK m : m = Max(s)
        OBVIOUS
      <4>3. m \in s /\ \A x \in s : m >= x
        BY <1>2, <3>2, <4>2
      <4>4. m \in Int /\ m <= n /\ m >= n /\ n \in Int
        BY <3>2, <4>3
      <4> QED
        BY <4>1, <4>2, <4>4
    <3>4. s \ {n} = 1..(n - 1)
      BY <2>3, <3>1
    <3>5. h[s] = step[<<n, h[s \ {n}]>>]
      <4>1. h[s] = step[<<pick[s], h[s \ {pick[s]}]>>]
        BY <1>6, <3>2, FoldOf
      <4> QED
        BY <3>3, <4>1
    <3>6. n \in S /\ h[s \ {n}] \in SUBSET AccountGroups
      BY <1>10, <3>2
    <3>7. h[s] = WithParents(parents, h[s \ {n}])
      BY <1>5, <3>5, <3>6
    <3>8. f[n - 1] = h[1..(n - 1)]
      BY <2>3
    <3> QED
      BY <2>1, <2>3, <3>1, <3>4, <3>7, <3>8
  <2> QED
    BY <2>2, <2>3
<1>12. f = [n \in 0..N |-> f[n]]
  OBVIOUS
<1> HIDE DEF f
<1>13. Climbs(f, N, parents, group)
  BY <1>11, <1>12 DEF Climbs, base
<1> QED
  BY <1>13

Height == Cardinality(AccountGroups)

\* The walk is what the last step of the climb has met.
LEMMA WalkClimbs ==
  ASSUME NEW parents \in Forests, NEW group \in ParentsOrNone
  PROVE  \E f : Climbs(f, Height, parents, group) /\ WalkUp(parents, group) = f[Height]
<1> DEFINE Body(f) == [n \in 0..Height |-> IF n = 0 THEN {group} \ {NoGroup}
                                           ELSE WithParents(parents, f[n - 1])]
           up == CHOOSE f : f = Body(f)
<1>1. WalkUp(parents, group) = up[Height]
  BY DEF WalkUp, Height
<1>2. Height \in Nat
  BY OrganizationAssumption, FS_CardinalityType DEF Height
<1>3. PICK f : Climbs(f, Height, parents, group)
  BY <1>2, ClimbExists
<1>4. f = Body(f)
  BY <1>3 DEF Climbs
<1>5. up = Body(up)
  <2> HIDE DEF Body
  <2> QED
    BY <1>4
<1>6. Climbs(up, Height, parents, group)
  BY <1>5 DEF Climbs
<1> HIDE DEF up
<1> QED
  BY <1>1, <1>6

\* The group itself, unless it is none.
Holding(U, group) == group \in U \cup {NoGroup}
ClosedUp(parents, U) == \A g \in U \cap DOMAIN parents : parents[g] \in U \cup {NoGroup}

\* The walk finds the least set that holds the group and its members' parents.
LEMMA WalkIsLeast ==
  ASSUME NEW parents \in Forests, NEW group \in ParentsOrNone
  PROVE  /\ WalkUp(parents, group) \in SUBSET AccountGroups
         /\ Holding(WalkUp(parents, group), group)
         /\ ClosedUp(parents, WalkUp(parents, group))
         /\ \A U : Holding(U, group) /\ ClosedUp(parents, U) => WalkUp(parents, group) \subseteq U
<1>1. Height \in Nat /\ IsFiniteSet(AccountGroups)
  BY OrganizationAssumption, FS_CardinalityType DEF Height
<1>2. PICK N \in Nat : N = Height
  BY <1>1
<1>3. PICK f : Climbs(f, N, parents, group) /\ WalkUp(parents, group) = f[N]
  BY <1>2, WalkClimbs
<1>4. /\ f[0] = {group} \ {NoGroup}
      /\ \A n \in 1..N : f[n] = WithParents(parents, f[n - 1])
  <2>1. \A n \in 0..N :
          f[n] = IF n = 0 THEN {group} \ {NoGroup} ELSE WithParents(parents, f[n - 1])
    BY <1>3 DEF Climbs
  <2>2. 0 \in 0..N /\ \A n \in 1..N : n \in 0..N /\ n # 0
    OBVIOUS
  <2> QED
    BY <2>1, <2>2
<1>5. \A n \in 0..N : f[n] \in SUBSET AccountGroups /\ {group} \ {NoGroup} \subseteq f[n]
  <2>1. PICK J : J = {n \in 0..N : f[n] \in SUBSET AccountGroups /\ {group} \ {NoGroup} \subseteq f[n]}
    OBVIOUS
  <2>2. 0 \in J
    BY <1>4, <2>1 DEF ParentsOrNone
  <2>3. ASSUME NEW n \in 1..N, n - 1 \in J PROVE n \in J
    <3>1. f[n - 1] \in SUBSET AccountGroups /\ {group} \ {NoGroup} \subseteq f[n - 1]
      BY <2>1, <2>3
    <3>2. f[n] = WithParents(parents, f[n - 1])
      BY <1>4
    <3>3. f[n] \in SUBSET AccountGroups /\ f[n - 1] \subseteq f[n]
      BY <3>1, <3>2, ParentsMet
    <3> QED
      BY <2>1, <3>1, <3>3
  <2>4. \A n \in 0..N : n \in J
    BY ONLY <2>2, <2>3, UpTo, N \in Nat
  <2> QED
    BY <2>1, <2>4
<1>6. WithParents(parents, f[N]) = f[N]
  <2>1. PICK J : J = {n \in 0..N : Cardinality(f[n]) >= n \/ WithParents(parents, f[n]) = f[n]}
    OBVIOUS
  <2>2. \A n \in 0..N : IsFiniteSet(f[n]) /\ Cardinality(f[n]) \in Nat
    BY <1>1, <1>5, FS_Subset, FS_CardinalityType
  <2>3. 0 \in J
    BY <2>1, <2>2
  <2>4. ASSUME NEW n \in 1..N, n - 1 \in J PROVE n \in J
    <3>1. f[n] = WithParents(parents, f[n - 1])
      BY <1>4
    <3>2. CASE WithParents(parents, f[n - 1]) = f[n - 1]
      BY <2>1, <3>1, <3>2
    <3>3. CASE WithParents(parents, f[n - 1]) # f[n - 1]
      <4>1. Cardinality(f[n - 1]) >= n - 1
        BY <2>1, <2>4, <3>3
      <4>2. f[n - 1] \subseteq f[n] /\ f[n - 1] # f[n] /\ n - 1 \in 0..N
        BY <1>5, <3>1, <3>3, ParentsMet
      <4>3. Cardinality(f[n - 1]) <= Cardinality(f[n]) /\ Cardinality(f[n - 1]) # Cardinality(f[n])
        BY <2>2, <4>2, FS_Subset
      <4> QED
        BY <2>1, <2>2, <4>1, <4>2, <4>3
    <3> QED
      BY <3>2, <3>3
  <2>5. \A n \in 0..N : n \in J
    BY ONLY <2>3, <2>4, UpTo, N \in Nat
  <2>6. CASE WithParents(parents, f[N]) = f[N]
    BY <2>6
  <2>7. CASE Cardinality(f[N]) >= N
    <3>1. f[N] \in SUBSET AccountGroups
      BY <1>5
    <3>2. Cardinality(f[N]) <= Cardinality(AccountGroups) /\ Cardinality(AccountGroups) = N
      BY <1>1, <1>2, <3>1, FS_Subset DEF Height
    <3>3. f[N] = AccountGroups
      BY <1>1, <2>2, <2>7, <3>1, <3>2, FS_Subset
    <3> QED
      BY <3>1, <3>3, ParentsMet
  <2> QED
    BY <2>1, <2>5, <2>6, <2>7
<1>7. ClosedUp(parents, f[N])
  BY <1>6 DEF ClosedUp, WithParents
<1>8. ASSUME NEW U, Holding(U, group), ClosedUp(parents, U) PROVE f[N] \subseteq U
  <2>1. PICK J : J = {n \in 0..N : f[n] \subseteq U}
    OBVIOUS
  <2>2. 0 \in J
    BY <1>4, <1>8, <2>1 DEF Holding
  <2>3. ASSUME NEW n \in 1..N, n - 1 \in J PROVE n \in J
    <3>1. f[n - 1] \subseteq U /\ n \in 0..N
      BY <2>1, <2>3
    <3>2. f[n] = (f[n - 1] \cup {parents[g] : g \in f[n - 1] \cap DOMAIN parents}) \ {NoGroup}
      BY <1>4 DEF WithParents
    <3>3. {parents[g] : g \in f[n - 1] \cap DOMAIN parents} \subseteq U \cup {NoGroup}
      BY <1>8, <3>1 DEF ClosedUp
    <3>4. f[n] \subseteq U
      BY ONLY <3>1, <3>2, <3>3
    <3> QED
      BY <2>1, <3>1, <3>4
  <2>4. \A n \in 0..N : n \in J
    BY ONLY <2>2, <2>3, UpTo, N \in Nat
  <2> QED
    BY <2>1, <2>4
<1> QED
  BY <1>3, <1>5, <1>7, <1>8 DEF Holding

-----------------------------------------------------------------------------
(* The forest *)

\* No group is above itself, and nobody hangs under a group that is gone.
ForestOK(parents, grouped) ==
  /\ parents \in Forests
  /\ grouped \in [GroupedAccounts -> DOMAIN parents \cup {NoGroup}]
  /\ \A id \in DOMAIN parents : WalkUp(parents, parents[id]) \subseteq DOMAIN parents \ {id}

\* What a map of parents is.
LEMMA ForestShape ==
  ASSUME NEW parents \in Forests
  PROVE  /\ DOMAIN parents \subseteq AccountGroups /\ parents = [id \in DOMAIN parents |-> parents[id]]
         /\ \A id \in DOMAIN parents : parents[id] \in ParentsOrNone
BY DEF Forests

\* What is above a group is above whatever is below the group.
LEMMA AboveIsBelow ==
  ASSUME NEW parents \in Forests, NEW group \in ParentsOrNone, NEW g \in WalkUp(parents, group),
         g \in DOMAIN parents
  PROVE  WalkUp(parents, parents[g]) \subseteq WalkUp(parents, group)
<1>1. parents[g] \in ParentsOrNone
  BY ForestShape
<1>2. PICK U : U = WalkUp(parents, group)
  OBVIOUS
<1>3. ClosedUp(parents, U)
  BY <1>2, WalkIsLeast
<1>4. Holding(U, parents[g])
  BY <1>2, <1>3 DEF ClosedUp, Holding
<1> QED
  BY <1>1, <1>2, <1>3, <1>4, WalkIsLeast

\* A new forest is one, if each group has a closed set of known groups above it that lacks it.
LEMMA ForestKept ==
  ASSUME NEW parents \in Forests, NEW grouped,
         grouped \in [GroupedAccounts -> DOMAIN parents \cup {NoGroup}],
         \A id \in DOMAIN parents : \E U \in SUBSET (DOMAIN parents \ {id}) :
           Holding(U, parents[id]) /\ ClosedUp(parents, U)
  PROVE  ForestOK(parents, grouped)
<1>1. ASSUME NEW id \in DOMAIN parents PROVE WalkUp(parents, parents[id]) \subseteq DOMAIN parents \ {id}
  <2>1. PICK U \in SUBSET (DOMAIN parents \ {id}) : Holding(U, parents[id]) /\ ClosedUp(parents, U)
    OBVIOUS
  <2>2. PICK group \in ParentsOrNone : group = parents[id]
    BY ForestShape
  <2>3. WalkUp(parents, group) \subseteq U
    BY <2>1, <2>2, WalkIsLeast
  <2> QED
    BY <2>1, <2>2, <2>3
<1> QED
  BY <1>1 DEF ForestOK

\* A new group under a parent whose walk up is known.
LEMMA CreateKeeps ==
  ASSUME NEW parents, NEW grouped, ForestOK(parents, grouped), NEW id \in AccountGroups,
         id \notin DOMAIN parents, NEW parent \in ParentsOrNone,
         WalkUp(parents, parent) \subseteq DOMAIN parents \ {id}, NEW q, q = Put(parents, id, parent)
  PROVE  ForestOK(q, grouped)
<1>1. parents \in Forests /\ grouped \in [GroupedAccounts -> DOMAIN parents \cup {NoGroup}]
  BY DEF ForestOK
<1>2. /\ DOMAIN q = DOMAIN parents \cup {id} /\ q[id] = parent
      /\ \A g \in DOMAIN parents : q[g] = parents[g]
      /\ q = [g \in DOMAIN q |-> q[g]]
  BY DEF Put
<1>3. q \in Forests
  BY <1>1, <1>2, ForestShape DEF Forests
<1>4. grouped \in [GroupedAccounts -> DOMAIN q \cup {NoGroup}]
  BY <1>1, <1>2
<1>5. ASSUME NEW U \in SUBSET DOMAIN parents, ClosedUp(parents, U) PROVE ClosedUp(q, U)
  BY <1>2, <1>5 DEF ClosedUp
<1>6. ASSUME NEW g \in DOMAIN q
      PROVE  \E U \in SUBSET (DOMAIN q \ {g}) : Holding(U, q[g]) /\ ClosedUp(q, U)
  <2>1. CASE g = id
    <3>1. PICK U : U = WalkUp(parents, parent)
      OBVIOUS
    <3>2. Holding(U, parent) /\ ClosedUp(parents, U) /\ U \subseteq DOMAIN parents \ {id}
      BY <1>1, <3>1, WalkIsLeast
    <3> QED
      BY <1>2, <1>5, <2>1, <3>2
  <2>2. CASE g # id
    <3>1. g \in DOMAIN parents
      BY <1>2, <2>2
    <3>2. PICK above \in ParentsOrNone : above = parents[g]
      BY <1>1, <3>1, ForestShape
    <3>3. PICK U : U = WalkUp(parents, above)
      OBVIOUS
    <3>4. Holding(U, above) /\ ClosedUp(parents, U) /\ U \subseteq DOMAIN parents \ {g}
      BY <1>1, <3>1, <3>2, <3>3, WalkIsLeast DEF ForestOK
    <3> QED
      BY <1>2, <1>5, <3>1, <3>2, <3>4
  <2> QED
    BY <2>1, <2>2
<1> QED
  BY <1>3, <1>4, <1>6, ForestKept

\* A group moved under a parent it is not above.
LEMMA MoveKeeps ==
  ASSUME NEW parents, NEW grouped, ForestOK(parents, grouped), NEW id \in DOMAIN parents,
         NEW parent \in ParentsOrNone, WalkUp(parents, parent) \subseteq DOMAIN parents \ {id},
         NEW q, q = [parents EXCEPT ![id] = parent]
  PROVE  ForestOK(q, grouped)
<1>1. parents \in Forests /\ grouped \in [GroupedAccounts -> DOMAIN parents \cup {NoGroup}]
  BY DEF ForestOK
<1>2. /\ DOMAIN q = DOMAIN parents /\ q[id] = parent
      /\ \A g \in DOMAIN parents : g # id => q[g] = parents[g]
      /\ q = [g \in DOMAIN q |-> q[g]]
  <2>1. q = [g \in DOMAIN parents |-> IF g = id THEN parent ELSE parents[g]]
    OBVIOUS
  <2> QED
    BY <2>1
<1>3. q \in Forests
  BY <1>1, <1>2, ForestShape DEF Forests
<1>4. grouped \in [GroupedAccounts -> DOMAIN q \cup {NoGroup}]
  BY <1>1, <1>2
<1>5. PICK V : V = WalkUp(parents, parent)
  OBVIOUS
<1>6. Holding(V, parent) /\ ClosedUp(parents, V) /\ V \subseteq DOMAIN parents \ {id}
  BY <1>1, <1>5, WalkIsLeast
<1>7. ASSUME NEW g \in DOMAIN q
      PROVE  \E U \in SUBSET (DOMAIN q \ {g}) : Holding(U, q[g]) /\ ClosedUp(q, U)
  <2>1. CASE g = id
    <3>1. ClosedUp(q, V)
      BY <1>2, <1>6 DEF ClosedUp
    <3> QED
      BY <1>2, <1>6, <2>1, <3>1
  <2>2. CASE g # id
    <3>2. PICK above \in ParentsOrNone : above = parents[g]
      BY <1>1, <1>2, ForestShape
    <3>3. PICK U : U = WalkUp(parents, above)
      OBVIOUS
    <3>4. Holding(U, above) /\ ClosedUp(parents, U) /\ U \subseteq DOMAIN parents \ {g}
      BY <1>1, <1>2, <3>2, <3>3, WalkIsLeast DEF ForestOK
    <3>5. CASE id \notin U
      <4>1. ClosedUp(q, U)
        BY <1>2, <3>4, <3>5 DEF ClosedUp
      <4> QED
        BY <1>2, <2>2, <3>2, <3>4, <4>1
    <3>6. CASE id \in U
      <4>1. g \notin V
        <5>1. ASSUME g \in V PROVE FALSE
          <6>1. U \subseteq V
            BY <1>1, <1>2, <1>5, <3>2, <3>3, <5>1, AboveIsBelow
          <6> QED
            BY <1>6, <3>6, <6>1
        <5> QED
          BY <5>1
      <4>2. PICK W : W = U \cup V
        OBVIOUS
      <4>3. W \in SUBSET (DOMAIN q \ {g}) /\ Holding(W, q[g])
        BY <1>2, <1>6, <2>2, <3>2, <3>4, <4>1, <4>2 DEF Holding
      <4>4. ClosedUp(q, W)
        BY <1>2, <1>6, <3>4, <4>2 DEF ClosedUp, Holding
      <4> QED
        BY <4>3, <4>4
    <3> QED
      BY <3>5, <3>6
  <2> QED
    BY <2>1, <2>2
<1> QED
  BY <1>3, <1>4, <1>7, ForestKept

\* A group that is gone, and its children under a parent it is not above.
LEMMA DeleteKeeps ==
  ASSUME NEW parents, NEW grouped, ForestOK(parents, grouped), NEW id \in DOMAIN parents,
         NEW parent \in ParentsOrNone, NEW move \in BOOLEAN,
         ~move => \A g \in DOMAIN parents : parents[g] # id,
         ~move => \A a \in GroupedAccounts : grouped[a] # id,
         move => WalkUp(parents, parent) \subseteq DOMAIN parents \ {id},
         NEW q, q = [g \in DOMAIN parents \ {id} |-> IF parents[g] = id THEN parent ELSE parents[g]],
         NEW r, r = [a \in GroupedAccounts |-> IF grouped[a] = id THEN parent ELSE grouped[a]]
  PROVE  ForestOK(q, r)
<1>1. parents \in Forests /\ grouped \in [GroupedAccounts -> DOMAIN parents \cup {NoGroup}]
  BY DEF ForestOK
<1>2. /\ DOMAIN q = DOMAIN parents \ {id}
      /\ \A g \in DOMAIN q : q[g] = IF parents[g] = id THEN parent ELSE parents[g]
      /\ q = [g \in DOMAIN q |-> q[g]]
  OBVIOUS
<1>3. q \in Forests
  BY <1>1, <1>2, ForestShape DEF Forests
<1>5. PICK V : V = IF move THEN WalkUp(parents, parent) ELSE {}
  OBVIOUS
<1>6. /\ ClosedUp(parents, V) /\ V \subseteq DOMAIN parents \ {id}
      /\ move => Holding(V, parent) /\ V = WalkUp(parents, parent)
  <2>1. CASE move
    BY <1>1, <1>5, <2>1, WalkIsLeast
  <2>2. CASE ~move
    BY <1>5, <2>2 DEF ClosedUp
  <2> QED
    BY <2>1, <2>2
<1>8. id \in AccountGroups /\ id # NoGroup
  BY <1>1, ForestShape, OrganizationAssumption
<1>4. r \in [GroupedAccounts -> DOMAIN q \cup {NoGroup}]
  <2>1. ASSUME NEW a \in GroupedAccounts
        PROVE  (IF grouped[a] = id THEN parent ELSE grouped[a]) \in DOMAIN q \cup {NoGroup}
    BY <1>1, <1>2, <1>6 DEF Holding
  <2> QED
    BY <2>1
<1>9. \A g \in V : parents[g] # id
  BY <1>6, <1>8 DEF ClosedUp
<1>7. ASSUME NEW g \in DOMAIN q
      PROVE  \E U \in SUBSET (DOMAIN q \ {g}) : Holding(U, q[g]) /\ ClosedUp(q, U)
  <2>1. g \in DOMAIN parents /\ g # id
    BY <1>2
  <2>2. PICK above \in ParentsOrNone : above = parents[g]
    BY <1>1, <2>1, ForestShape
  <2>3. PICK U : U = WalkUp(parents, above)
    OBVIOUS
  <2>4. Holding(U, above) /\ ClosedUp(parents, U) /\ U \subseteq DOMAIN parents \ {g}
    BY <1>1, <2>1, <2>2, <2>3, WalkIsLeast DEF ForestOK
  <2>5. CASE id \notin U
    <3>1. above # id
      BY <1>8, <2>4, <2>5 DEF Holding
    <3>2. ClosedUp(q, U)
      BY <1>2, <1>8, <2>4, <2>5 DEF ClosedUp
    <3> QED
      BY <1>2, <2>2, <2>4, <2>5, <3>1, <3>2
  <2>6. CASE id \in U
    <3>1. g \notin V
      <4>1. ASSUME g \in V PROVE FALSE
        <5>1. V = WalkUp(parents, parent)
          BY <1>5, <1>6, <4>1
        <5>2. U \subseteq V
          BY <1>1, <2>1, <2>2, <2>3, <4>1, <5>1, AboveIsBelow
        <5> QED
          BY <1>6, <2>6, <5>2
      <4> QED
        BY <4>1
    <3>2. PICK W : W = (U \ {id}) \cup V
      OBVIOUS
    <3>3. W \in SUBSET (DOMAIN q \ {g})
      BY <1>2, <1>6, <2>4, <3>1, <3>2
    <3>4. Holding(W, q[g])
      <4>1. CASE above = id
        BY <1>2, <1>6, <2>1, <2>2, <3>2, <4>1 DEF Holding
      <4>2. CASE above # id
        BY <1>2, <2>2, <2>4, <3>2, <4>2 DEF Holding
      <4> QED
        BY <4>1, <4>2
    <3>5. ASSUME NEW h \in W \cap DOMAIN q PROVE q[h] \in W \cup {NoGroup}
      <4>1. CASE parents[h] = id
        BY <1>2, <1>6, <3>2, <4>1 DEF Holding
      <4>2. CASE parents[h] # id
        BY <1>2, <1>6, <2>4, <3>2, <4>2 DEF ClosedUp
      <4> QED
        BY <4>1, <4>2
    <3> QED
      BY <3>3, <3>4, <3>5 DEF ClosedUp
  <2> QED
    BY <2>5, <2>6
<1> QED
  BY <1>3, <1>4, <1>7, ForestKept

ForestInv == ForestOK(parentOf, groupOf)

\* Every step of the account groups keeps the forest.
LEMMA ForestStep ==
  ASSUME ForestInv, ForestNext
  PROVE  ForestInv'
<1>1. PICK parents, grouped : parents = parentOf /\ grouped = groupOf
  OBVIOUS
<1>2. ForestOK(parents, grouped)
  BY <1>1 DEF ForestInv
<1>3. parents \in Forests /\ grouped \in [GroupedAccounts -> DOMAIN parents \cup {NoGroup}]
  BY <1>2 DEF ForestOK
<1>4. ASSUME NEW id \in AccountGroups, NEW parent \in ParentsOrNone, CreateGroup(id, parent)
      PROVE  ForestInv'
  <2>1. PICK q : q = Put(parents, id, parent)
    OBVIOUS
  <2>2. id \notin DOMAIN parents /\ WalkUp(parents, parent) \subseteq DOMAIN parents \ {id}
    BY <1>1, <1>4 DEF CreateGroup, ValidParent, Upward
  <2>3. ForestOK(q, grouped)
    BY <1>2, <2>1, <2>2, CreateKeeps
  <2>4. parentOf' = q /\ groupOf' = grouped
    BY <1>1, <1>4, <2>1 DEF CreateGroup
  <2> QED
    BY <2>3, <2>4 DEF ForestInv
<1>5. ASSUME NEW id \in AccountGroups, NEW parent \in ParentsOrNone, MoveGroup(id, parent)
      PROVE  ForestInv'
  <2>1. PICK q : q = [parents EXCEPT ![id] = parent]
    OBVIOUS
  <2>2. id \in DOMAIN parents /\ WalkUp(parents, parent) \subseteq DOMAIN parents \ {id}
    BY <1>1, <1>5 DEF MoveGroup, ValidParent, Upward
  <2>3. ForestOK(q, grouped)
    BY <1>2, <2>1, <2>2, MoveKeeps
  <2>4. parentOf' = q /\ groupOf' = grouped
    BY <1>1, <1>5, <2>1 DEF MoveGroup
  <2> QED
    BY <2>3, <2>4 DEF ForestInv
<1>6. ASSUME NEW id \in AccountGroups, NEW parent \in ParentsOrNone, NEW move \in BOOLEAN,
             DeleteGroup(id, move, parent)
      PROVE  ForestInv'
  <2>1. PICK q : q = [g \in DOMAIN parents \ {id} |-> IF parents[g] = id THEN parent ELSE parents[g]]
    OBVIOUS
  <2>2. PICK r : r = [a \in GroupedAccounts |-> IF grouped[a] = id THEN parent ELSE grouped[a]]
    OBVIOUS
  <2>3. id \in DOMAIN parents /\ (move => WalkUp(parents, parent) \subseteq DOMAIN parents \ {id})
    BY <1>1, <1>6 DEF DeleteGroup, ValidParent, Upward
  <2>4. ~move => /\ \A g \in DOMAIN parents : parents[g] # id
                 /\ \A a \in GroupedAccounts : grouped[a] # id
    BY <1>1, <1>3, <1>6 DEF DeleteGroup, Range
  <2>5. ForestOK(q, r)
    BY <1>2, <2>1, <2>2, <2>3, <2>4, DeleteKeeps
  <2>6. parentOf' = q
    BY <1>1, <1>6, <2>1, <2>4 DEF DeleteGroup, Restrict
  <2>7. groupOf' = r
    BY <1>1, <1>3, <1>6, <2>2, <2>4 DEF DeleteGroup
  <2> QED
    BY <2>5, <2>6, <2>7 DEF ForestInv
<1>7. ASSUME NEW account \in GroupedAccounts, NEW group \in ParentsOrNone, SetAccountGroup(account, group)
      PROVE  ForestInv'
  <2>1. PICK r : r = [grouped EXCEPT ![account] = group]
    OBVIOUS
  <2>2. group \in DOMAIN parents \cup {NoGroup} /\ parentOf' = parents /\ groupOf' = r
    BY <1>1, <1>7, <2>1 DEF SetAccountGroup
  <2>3. r \in [GroupedAccounts -> DOMAIN parents \cup {NoGroup}]
    BY <1>3, <2>1, <2>2
  <2> QED
    BY <1>2, <2>2, <2>3 DEF ForestInv, ForestOK
<1> QED
  BY <1>4, <1>5, <1>6, <1>7 DEF ForestNext, ParentsOrNone
-----------------------------------------------------------------------------
(* The catalog *)

GroupItems == [id : CategoryGroups, position : Nat]
CategoryItems == [id : Categories, group : CategoryGroups, hidden : BOOLEAN, archived : BOOLEAN,
                  used : BOOLEAN, position : Nat]

IdsOf(s) == {s[i].id : i \in DOMAIN s}
Distinct(s) == \A i, j \in DOMAIN s : s[i].id = s[j].id => i = j
Positions(cats, h) == {cats[i].position : i \in InGroup(cats, h)}
Dense(cats, h) == Positions(cats, h) = 0..(Cardinality(InGroup(cats, h)) - 1)

\* What a search for an id in a vector finds.
LEMMA IndexOfIs ==
  ASSUME NEW T, NEW s \in Seq(T), NEW id
  PROVE  /\ Holds(s, id) <=> id \in IdsOf(s)
         /\ Holds(s, id) => IndexOf(s, id) \in DOMAIN s /\ s[IndexOf(s, id)].id = id
<1>1. DOMAIN s = 1..Len(s) /\ Len(s) \in Nat
  BY LenProperties
<1>2. PICK I : I = {i \in 1..Len(s) : s[i].id = id}
  OBVIOUS
<1>3. IndexOf(s, id) = IF I # {} THEN Min(I) ELSE 0
  BY <1>2 DEF IndexOf, SelectInSeq
<1>4. I # {} => Min(I) \in I
  <2>1. IsFiniteSet(1..Len(s))
    BY <1>1, FS_Interval
  <2>2. I \in SUBSET (1..Len(s)) /\ I \subseteq Int
    BY <1>2
  <2>3. IsFiniteSet(I)
    BY <2>1, <2>2, FS_Subset
  <2> QED
    BY <2>2, <2>3, MinExists
<1> QED
  BY <1>1, <1>2, <1>3, <1>4 DEF Holds, IdsOf

Inserted(s, k, e, t) == k \in 1..(Len(s) + 1) /\ t = InsertAt(s, k, e)

\* Putting an item into a vector.
LEMMA InsertedAt ==
  ASSUME NEW T, NEW s \in Seq(T), NEW e \in T, NEW k, NEW t, Inserted(s, k, e, t)
  PROVE  /\ t \in Seq(T) /\ Len(t) = Len(s) + 1
         /\ \A i \in 1..(Len(s) + 1) :
              t[i] = IF i < k THEN s[i] ELSE IF i = k THEN e ELSE s[i - 1]
<1>1. DOMAIN s = 1..Len(s) /\ Len(s) \in Nat
  BY LenProperties
<1>2. PICK n \in Nat : n = Len(s)
  BY <1>1
<1>3. k \in 1..(n + 1) /\ \A i \in 1..n : s[i] \in T
  BY <1>1, <1>2, ElementOfSeq DEF Inserted
<1>4. PICK a : a = SubSeq(s, 1, k - 1)
  OBVIOUS
<1>5. PICK b : b = SubSeq(s, k, n)
  OBVIOUS
<1>6. a \in Seq(T) /\ Len(a) = k - 1 /\ \A i \in 1..(k - 1) : a[i] = s[i]
  <2>1. \A i \in 1..(k - 1) : s[i] \in T
    BY <1>3
  <2>2. k - 1 \in Int
    BY <1>3
  <2>3. /\ a \in Seq(T) /\ Len(a) = IF 1 <= k - 1 THEN k - 1 - 1 + 1 ELSE 0
        /\ \A i \in 1..(k - 1 - 1 + 1) : a[i] = s[1 + i - 1]
    BY ONLY <1>4, <2>1, <2>2, SubSeqProperties
  <2> QED
    BY <1>3, <2>3
<1>7. b \in Seq(T) /\ Len(b) = n - k + 1 /\ \A i \in 1..(n - k + 1) : b[i] = s[k + i - 1]
  <2>1. \A i \in k..n : s[i] \in T
    BY <1>3
  <2>2. k \in Int
    BY <1>3
  <2>3. /\ b \in Seq(T) /\ Len(b) = IF k <= n THEN n - k + 1 ELSE 0
        /\ \A i \in 1..(n - k + 1) : b[i] = s[k + i - 1]
    BY ONLY <1>5, <2>1, <2>2, n \in Nat, SubSeqProperties
  <2> QED
    BY <1>3, <2>3
<1>8. PICK one : one = <<e>>
  OBVIOUS
<1>9. one \in Seq(T) /\ Len(one) = 1 /\ one[1] = e
  BY <1>8
<1>10. PICK c : c = a \o one
  OBVIOUS
<1>11. /\ c \in Seq(T) /\ Len(c) = k
       /\ \A i \in 1..k : c[i] = IF i <= k - 1 THEN a[i] ELSE one[i - (k - 1)]
  <2>1. /\ c \in Seq(T) /\ Len(c) = Len(a) + Len(one)
        /\ \A i \in 1..(Len(a) + Len(one)) : c[i] = IF i <= Len(a) THEN a[i] ELSE one[i - Len(a)]
    BY <1>6, <1>9, <1>10, ConcatProperties
  <2>2. Len(a) + Len(one) = k
    BY <1>3, <1>6, <1>9
  <2> QED
    BY <1>6, <2>1, <2>2
<1>12. t = c \o b
  BY <1>2, <1>4, <1>5, <1>8, <1>10 DEF InsertAt, Inserted
<1>13. /\ t \in Seq(T) /\ Len(t) = Len(c) + Len(b)
       /\ \A i \in 1..(Len(c) + Len(b)) : t[i] = IF i <= Len(c) THEN c[i] ELSE b[i - Len(c)]
  BY ONLY <1>7, <1>11, <1>12, ConcatProperties
<1>14. Len(c) + Len(b) = n + 1
  BY <1>3, <1>7, <1>11
<1>15. ASSUME NEW i \in 1..(n + 1)
       PROVE  t[i] = IF i < k THEN s[i] ELSE IF i = k THEN e ELSE s[i - 1]
  <2>1. CASE i < k
    <3>1. i <= Len(c) /\ i \in 1..k /\ i <= k - 1 /\ i \in 1..(k - 1)
      BY <1>3, <1>11, <2>1
    <3>2. t[i] = c[i] /\ c[i] = a[i] /\ a[i] = s[i]
      BY <1>6, <1>11, <1>13, <1>14, <3>1
    <3> QED
      BY <2>1, <3>2
  <2>2. CASE i = k
    <3>1. i <= Len(c) /\ i \in 1..k /\ ~(i <= k - 1) /\ i - (k - 1) = 1
      BY <1>3, <1>11, <2>2
    <3>2. t[i] = c[i] /\ c[i] = one[1]
      BY <1>11, <1>13, <1>14, <3>1
    <3> QED
      BY <1>9, <2>2, <3>2
  <2>3. CASE i > k
    <3>1. ~(i <= Len(c)) /\ i - Len(c) = i - k /\ i - k \in 1..(n - k + 1) /\ k + (i - k) - 1 = i - 1
      BY <1>3, <1>11, <2>3
    <3>2. t[i] = b[i - k]
      BY <1>13, <1>14, <3>1
    <3>3. b[i - k] = s[k + (i - k) - 1]
      BY <1>7, <3>1
    <3> QED
      BY <1>3, <2>3, <3>1, <3>2, <3>3
  <2>4. i < k \/ i = k \/ i > k
    BY <1>3
  <2> QED
    BY <2>1, <2>2, <2>3, <2>4
<1> QED
  BY <1>2, <1>13, <1>14, <1>15

Rearranges(s, t) == Len(t) = Len(s) /\ (Distinct(s) => Distinct(t)) /\ IdsOf(t) = IdsOf(s)

Shuffles(src, s, t) ==
  /\ \A i \in 1..Len(s) : src[i] \in 1..Len(s) /\ t[i] = s[src[i]]
  /\ \A i, j \in 1..Len(s) : src[i] = src[j] => i = j
  /\ \A m \in 1..Len(s) : \E i \in 1..Len(s) : src[i] = m

\* Vectors related by an injection of their places, both ways onto, hold the same items.
LEMMA ShuffledRearranges ==
  ASSUME NEW T, NEW s \in Seq(T), NEW t \in Seq(T), Len(t) = Len(s), NEW src, Shuffles(src, s, t)
  PROVE  Rearranges(s, t)
<1>1. PICK D : D = 1..Len(s)
  OBVIOUS
<1>2. DOMAIN s = D /\ DOMAIN t = D
  BY <1>1, LenProperties
<1>3. \A i \in D : src[i] \in D /\ t[i] = s[src[i]]
  BY <1>1 DEF Shuffles
<1>4. (\A i, j \in D : src[i] = src[j] => i = j) /\ \A m \in D : \E i \in D : src[i] = m
  BY <1>1 DEF Shuffles
<1>5. ASSUME Distinct(s) PROVE Distinct(t)
  <2>1. ASSUME NEW i \in D, NEW j \in D, t[i].id = t[j].id PROVE i = j
    <3>1. PICK a \in D : a = src[i]
      BY <1>3
    <3>2. PICK b \in D : b = src[j]
      BY <1>3
    <3>3. t[i] = s[a] /\ t[j] = s[b]
      BY ONLY <1>3, <3>1, <3>2
    <3>4. s[a].id = s[b].id
      BY ONLY <3>3, t[i].id = t[j].id
    <3>5. a = b
      BY ONLY <1>2, <1>5, <3>4 DEF Distinct
    <3> QED
      BY <1>4, <3>1, <3>2, <3>5
  <2> QED
    BY <1>2, <2>1 DEF Distinct
<1>6. ASSUME NEW x \in IdsOf(s) PROVE x \in IdsOf(t)
  <2>1. PICK m \in D : x = s[m].id
    BY <1>2, <1>6 DEF IdsOf
  <2>2. PICK i \in D : src[i] = m
    BY <1>4
  <2>3. t[i] = s[m]
    BY <1>3, <2>2
  <2> QED
    BY ONLY <1>2, <2>1, <2>3 DEF IdsOf
<1>7. ASSUME NEW x \in IdsOf(t) PROVE x \in IdsOf(s)
  <2>1. PICK i \in D : x = t[i].id
    BY <1>2, <1>7 DEF IdsOf
  <2>2. PICK m \in D : m = src[i]
    BY <1>3
  <2>3. t[i] = s[m]
    BY <1>3, <2>2
  <2> QED
    BY ONLY <1>2, <2>1, <2>3 DEF IdsOf
<1> QED
  BY <1>5, <1>6, <1>7 DEF Rearranges

\* An item taken out and put in elsewhere.
LEMMA MovedRearranges ==
  ASSUME NEW T, NEW s \in Seq(T), NEW k \in DOMAIN s, NEW to \in 1..Len(s),
         NEW t, t = InsertAt(RemoveAt(s, k), to, s[k])
  PROVE  t \in Seq(T) /\ Rearranges(s, t)
<1>1. DOMAIN s = 1..Len(s) /\ Len(s) \in Nat
  BY LenProperties
<1>2. PICK n \in Nat : n = Len(s)
  BY <1>1
<1>3. k \in 1..n /\ to \in 1..n /\ s[k] \in T
  BY <1>1, <1>2, ElementOfSeq
<1>4. PICK r : r = RemoveAt(s, k)
  OBVIOUS
<1>5. /\ r \in Seq(T) /\ Len(r) = n - 1
      /\ \A i \in 1..(n - 1) : r[i] = IF i < k THEN s[i] ELSE s[i + 1]
  BY <1>2, <1>4, RemovedAt
<1>6. PICK e \in T : e = s[k]
  BY <1>3
<1>7. to \in 1..(Len(r) + 1) /\ Len(r) + 1 = n
  BY <1>3, <1>5
<1>8. t = InsertAt(r, to, e)
  BY <1>4, <1>6
<1>9. /\ t \in Seq(T) /\ Len(t) = n
      /\ \A i \in 1..n : t[i] = IF i < to THEN r[i] ELSE IF i = to THEN e ELSE r[i - 1]
  <2>1. r \in Seq(T) /\ Inserted(r, to, e, t)
    BY <1>5, <1>7, <1>8 DEF Inserted
  <2>2. /\ t \in Seq(T) /\ Len(t) = Len(r) + 1
        /\ \A i \in 1..(Len(r) + 1) : t[i] = IF i < to THEN r[i] ELSE IF i = to THEN e ELSE r[i - 1]
    BY ONLY <2>1, e \in T, InsertedAt
  <2> QED
    BY <1>7, <2>2
<1>10. PICK src : src = [i \in 1..n |-> IF i < to THEN IF i < k THEN i ELSE i + 1
                                       ELSE IF i = to THEN k
                                       ELSE IF i - 1 < k THEN i - 1 ELSE i]
  OBVIOUS
<1>11. ASSUME NEW i \in 1..n PROVE src[i] \in 1..n /\ t[i] = s[src[i]]
  <2>1. CASE i < to
    <3>1. i \in 1..(n - 1)
      BY <1>3, <2>1
    <3>2. t[i] = r[i] /\ r[i] = IF i < k THEN s[i] ELSE s[i + 1]
      BY <1>5, <1>9, <2>1, <3>1
    <3>3. src[i] = IF i < k THEN i ELSE i + 1
      BY <1>10, <2>1
    <3> QED
      BY <1>3, <2>1, <3>1, <3>2, <3>3
  <2>2. CASE i = to
    BY <1>3, <1>6, <1>9, <1>10, <2>2
  <2>3. CASE i > to
    <3>1. i - 1 \in 1..(n - 1) /\ i - 1 + 1 = i
      BY <1>3, <2>3
    <3>2. i # to /\ ~(i < to)
      BY <1>3, <2>3
    <3>4. t[i] = r[i - 1]
      BY <1>9, <3>2
    <3>5. r[i - 1] = IF i - 1 < k THEN s[i - 1] ELSE s[i]
      BY <1>5, <3>1
    <3>3. src[i] = IF i - 1 < k THEN i - 1 ELSE i
      BY <1>10, <3>2
    <3> QED
      BY <1>3, <2>3, <3>1, <3>3, <3>4, <3>5
  <2> QED
    BY <1>3, <2>1, <2>2, <2>3
<1>12. \A i, j \in 1..n : src[i] = src[j] => i = j
  BY <1>3, <1>10
<1>13. ASSUME NEW m \in 1..n PROVE \E i \in 1..n : src[i] = m
  <2>1. CASE m = k
    BY <1>3, <1>10, <2>1
  <2>2. CASE m < k
    <3>1. CASE m < to
      BY <1>3, <1>10, <2>2, <3>1
    <3>2. CASE ~(m < to)
      <4>1. m + 1 \in 1..n /\ src[m + 1] = m
        BY <1>3, <1>10, <2>2, <3>2
      <4> QED
        BY <4>1
    <3> QED
      BY <3>1, <3>2
  <2>3. CASE m > k
    <3>1. CASE m - 1 < to
      <4>1. m - 1 \in 1..n /\ src[m - 1] = m
        BY <1>3, <1>10, <2>3, <3>1
      <4> QED
        BY <4>1
    <3>2. CASE ~(m - 1 < to)
      BY <1>3, <1>10, <2>3, <3>2
    <3> QED
      BY <3>1, <3>2
  <2> QED
    BY <1>3, <2>1, <2>2, <2>3
<1> QED
  <2>1. Len(t) = Len(s) /\ Len(s) = n
    BY <1>2, <1>9
  <2>2. Shuffles(src, s, t)
    BY <1>11, <1>12, <1>13, <2>1 DEF Shuffles
  <2>3. t \in Seq(T) /\ Len(t) = Len(s)
    BY <1>9, <2>1
  <2>4. Rearranges(s, t)
    BY ONLY <2>2, <2>3, s \in Seq(T), ShuffledRearranges
  <2> QED
    BY <2>3, <2>4
-----------------------------------------------------------------------------
(* Places and positions *)

Ahead(items, among, i) ==
  {j \in among : \/ items[j].position < items[i].position
                 \/ items[j].position = items[i].position /\ j < i}
Ranked(items, among) ==
  IsFiniteSet(among) /\ among \subseteq Int /\ \A j \in among : items[j].position \in Int

\* The places of some items of a vector are 0, 1, 2, ..., each taken by one of them: of two
\* items one is ahead of the other, and what is ahead of it is ahead of the other too.
LEMMA PlacesCount ==
  ASSUME NEW items, NEW among, Ranked(items, among), NEW n, n = Cardinality(among)
  PROVE  /\ n \in Nat
         /\ \A i \in among : Place(items, among, i) \in 0..(n - 1)
         /\ \A i, j \in among : Place(items, among, i) = Place(items, among, j) => i = j
         /\ \A p \in 0..(n - 1) : \E i \in among : Place(items, among, i) = p
<1>1. IsFiniteSet(among) /\ among \subseteq Int /\ \A j \in among : items[j].position \in Int
  BY DEF Ranked
<1>2. n \in Nat
  BY <1>1, FS_CardinalityType
<1>3. \A i \in among : Place(items, among, i) = Cardinality(Ahead(items, among, i))
  BY DEF Place, Ahead
<1>4. ASSUME NEW i \in among
      PROVE  /\ Place(items, among, i) \in 0..(n - 1)
             /\ IsFiniteSet(Ahead(items, among, i))
  <2>1. PICK A : A = Ahead(items, among, i)
    OBVIOUS
  <2>2. PICK R : R = among \ {i}
    OBVIOUS
  <2>3. IsFiniteSet(R) /\ Cardinality(R) = n - 1
    BY <1>1, <2>2, FS_RemoveElement
  <2>4. A \in SUBSET R
    BY <1>1, <2>1, <2>2 DEF Ahead
  <2>5. IsFiniteSet(A) /\ Cardinality(A) <= n - 1
    BY <2>3, <2>4, FS_Subset
  <2>6. Cardinality(A) \in Nat
    BY <2>5, FS_CardinalityType
  <2> QED
    BY <1>2, <1>3, <2>1, <2>5, <2>6
<1>5. ASSUME NEW i \in among, NEW j \in among, j \in Ahead(items, among, i)
      PROVE  Place(items, among, j) < Place(items, among, i)
  <2>1. PICK A : A = Ahead(items, among, i)
    OBVIOUS
  <2>2. PICK B : B = Ahead(items, among, j)
    OBVIOUS
  <2>3. PICK R : R = A \ {j}
    OBVIOUS
  <2>4. IsFiniteSet(A) /\ j \in A
    BY <1>4, <1>5, <2>1
  <2>5. IsFiniteSet(R) /\ Cardinality(R) = Cardinality(A) - 1
    BY <2>3, <2>4, FS_RemoveElement
  <2>6. ASSUME NEW x \in B PROVE x \in R
    <3>1. x \in among /\ x \in Int /\ i \in Int /\ j \in Int
      BY <1>1, <2>2, <2>6 DEF Ahead
    <3>2. items[x].position \in Int /\ items[i].position \in Int /\ items[j].position \in Int
      BY <1>1, <3>1
    <3> QED
      BY <1>5, <2>1, <2>2, <2>3, <2>6, <3>1, <3>2 DEF Ahead
  <2>7. B \in SUBSET R
    BY <2>6
  <2>8. Cardinality(B) <= Cardinality(R)
    BY <2>5, <2>7, FS_Subset
  <2>9. Cardinality(A) \in Nat
    BY <2>4, FS_CardinalityType
  <2>10. Cardinality(B) \in Nat
    BY <1>4, <2>2, FS_CardinalityType
  <2> QED
    BY <1>3, <2>1, <2>2, <2>5, <2>8, <2>9, <2>10
<1>6. ASSUME NEW i \in among, NEW j \in among, i # j PROVE Place(items, among, i) # Place(items, among, j)
  <2>1. i \in Int /\ j \in Int /\ items[i].position \in Int /\ items[j].position \in Int
    BY <1>1
  <2>2. i \in Ahead(items, among, j) \/ j \in Ahead(items, among, i)
    BY <1>6, <2>1 DEF Ahead
  <2>3. Place(items, among, i) < Place(items, among, j) \/ Place(items, among, j) < Place(items, among, i)
    BY <1>5, <2>2
  <2>4. Place(items, among, i) \in Int /\ Place(items, among, j) \in Int
    BY <1>4
  <2> QED
    BY <2>3, <2>4
<1>7. ASSUME NEW p \in 0..(n - 1) PROVE \E i \in among : Place(items, among, i) = p
  <2>1. PICK f : f = [i \in among |-> Place(items, among, i)]
    OBVIOUS
  <2>2. PICK N : N = 0..(n - 1)
    OBVIOUS
  <2>3. f \in Injection(among, N)
    BY <1>4, <1>6, <2>1, <2>2 DEF Injection, IsInjective
  <2>4. IsFiniteSet(N) /\ Cardinality(N) = n
    <3>1. n - 1 \in Int /\ 0 \in Int
      BY <1>2
    <3>2. IsFiniteSet(N) /\ Cardinality(N) = IF 0 > n - 1 THEN 0 ELSE n - 1 - 0 + 1
      BY ONLY <2>2, <3>1, FS_Interval
    <3> QED
      BY <1>2, <3>2
  <2>5. f \in Surjection(among, N)
    BY <2>3, <2>4, FS_Injection
  <2> QED
    BY <2>1, <2>2, <2>5 DEF Surjection
<1> QED
  BY <1>2, <1>4, <1>6, <1>7

GroupsOK(gs) == gs \in Seq(GroupItems) /\ Distinct(gs) /\ \A i \in DOMAIN gs : gs[i].position = i - 1
CategoriesOK(cats) ==
  cats \in Seq(CategoryItems) /\ Distinct(cats) /\ \A h \in CategoryGroups : Dense(cats, h)
Based(gs, cats) == \A i \in DOMAIN cats : cats[i].group \in IdsOf(gs)
CatalogOK(gs, cats) == GroupsOK(gs) /\ CategoriesOK(cats) /\ Based(gs, cats)

\* Numbering a vector of groups.
LEMMA NumberedGroups ==
  ASSUME NEW s \in Seq(GroupItems), Distinct(s), NEW t, t = Numbered(s)
  PROVE  GroupsOK(t) /\ IdsOf(t) = IdsOf(s)
<1>1. PICK n \in Nat : n = Len(s) /\ DOMAIN s = 1..n
  BY LenProperties
<1>2. \A i \in 1..n : s[i].id \in CategoryGroups
  <2>1. \A i \in 1..n : s[i] \in GroupItems
    BY <1>1, ElementOfSeq
  <2> QED
    BY <2>1 DEF GroupItems
<1>3. t = [i \in 1..n |-> [id |-> s[i].id, position |-> i - 1]]
  BY <1>1 DEF Numbered
<1>4. \A i \in 1..n : t[i] \in GroupItems /\ t[i].id = s[i].id /\ t[i].position = i - 1
  BY <1>2, <1>3 DEF GroupItems
<1>5. t \in Seq(GroupItems)
  <2>1. t \in [1..n -> GroupItems]
    BY <1>3, <1>4
  <2> QED
    BY <2>1, IsASeq
<1>6. DOMAIN t = 1..n
  BY <1>3
<1>7. IdsOf(t) = IdsOf(s)
  BY <1>1, <1>4, <1>6 DEF IdsOf
<1>8. Distinct(t)
  BY <1>1, <1>4, <1>6 DEF Distinct
<1> QED
  BY <1>4, <1>5, <1>6, <1>7, <1>8 DEF GroupsOK

\* Putting a vector of groups in the order of the positions they carry.
LEMMA OrderedGroups ==
  ASSUME NEW s \in Seq(GroupItems), Distinct(s), NEW t, t = InOrder(s)
  PROVE  GroupsOK(t) /\ IdsOf(t) = IdsOf(s)
<1>1. PICK n \in Nat : n = Len(s) /\ DOMAIN s = 1..n
  BY LenProperties
<1>2. \A i \in 1..n : s[i] \in GroupItems /\ s[i].position \in Int
  <2>1. \A i \in 1..n : s[i] \in GroupItems
    BY <1>1, ElementOfSeq
  <2> QED
    BY <2>1 DEF GroupItems
<1>3. PICK among : among = 1..n
  OBVIOUS
<1>4. IsFiniteSet(among) /\ Cardinality(among) = n
  BY <1>3, FS_Interval
<1>5. Ranked(s, among)
  BY <1>2, <1>3, <1>4 DEF Ranked
<1>6. /\ \A i \in among : Place(s, among, i) \in 0..(n - 1)
      /\ \A i, j \in among : Place(s, among, i) = Place(s, among, j) => i = j
      /\ \A p \in 0..(n - 1) : \E i \in among : Place(s, among, i) = p
  BY <1>4, <1>5, PlacesCount
<1>7. PICK src : src = [k \in 1..n |-> CHOOSE i \in among : Place(s, among, i) = k - 1]
  OBVIOUS
<1>8. ASSUME NEW k \in 1..n PROVE src[k] \in 1..n /\ Place(s, among, src[k]) = k - 1
  <2>1. k - 1 \in 0..(n - 1)
    OBVIOUS
  <2>2. \E i \in among : Place(s, among, i) = k - 1
    BY <1>6, <2>1
  <2> QED
    BY <1>3, <1>7, <2>2
<1>9. PICK r : r = [k \in 1..n |-> s[src[k]]]
  OBVIOUS
<1>10. r \in Seq(GroupItems) /\ Len(r) = n
  <2>1. r \in [1..n -> GroupItems]
    BY <1>2, <1>8, <1>9
  <2>2. r \in Seq(GroupItems)
    BY <2>1, IsASeq
  <2>3. DOMAIN r = 1..n
    BY <1>9
  <2> QED
    BY <2>2, <2>3, LenProperties
<1>11. Shuffles(src, s, r)
  <2>1. ASSUME NEW i \in 1..n, NEW j \in 1..n, src[i] = src[j] PROVE i = j
    BY <1>8, <2>1
  <2>2. ASSUME NEW m \in 1..n PROVE \E i \in 1..n : src[i] = m
    <3>1. PICK k : k = Place(s, among, m) + 1
      OBVIOUS
    <3>2. k \in 1..n /\ k - 1 = Place(s, among, m)
      BY <1>3, <1>6, <3>1
    <3>3. src[k] = m
      BY <1>3, <1>6, <1>8, <3>2
    <3> QED
      BY <3>2, <3>3
  <2> QED
    BY <1>1, <1>8, <1>9, <2>1, <2>2 DEF Shuffles
<1>12. Rearranges(s, r)
  BY <1>1, <1>10, <1>11, ShuffledRearranges
<1>13. t = Numbered(r)
  <2>1. DOMAIN s = among /\ 1..n = among
    BY <1>1, <1>3
  <2>2. t = Numbered([k \in among |-> s[CHOOSE i \in among : Place(s, among, i) = k - 1]])
    BY ONLY <2>1, t = InOrder(s) DEF InOrder
  <2>3. \A k \in among : src[k] = CHOOSE i \in among : Place(s, among, i) = k - 1
    BY <1>7, <2>1
  <2>4. r = [k \in among |-> s[CHOOSE i \in among : Place(s, among, i) = k - 1]]
    BY <1>9, <2>1, <2>3
  <2> QED
    BY ONLY <2>2, <2>4
<1>14. Distinct(r) /\ IdsOf(r) = IdsOf(s)
  BY <1>12 DEF Rearranges
<1> QED
  BY <1>10, <1>13, <1>14, NumberedGroups

Placed(cats) ==
  [i \in DOMAIN cats |-> [cats[i] EXCEPT !.position = Place(cats, InGroup(cats, cats[i].group), i)]]

\* Numbering the categories of each group by the positions they carry.
LEMMA PlacedCategories ==
  ASSUME NEW cats \in Seq(CategoryItems), Distinct(cats), NEW t, t = Placed(cats)
  PROVE  CategoriesOK(t) /\ \A gs : Based(gs, cats) => Based(gs, t)
<1>1. PICK n \in Nat : n = Len(cats) /\ DOMAIN cats = 1..n
  BY LenProperties
<1>2. \A i \in 1..n : cats[i] \in CategoryItems
  BY <1>1, ElementOfSeq
<1>3. ASSUME NEW h
      PROVE  /\ InGroup(cats, h) \subseteq 1..n /\ Ranked(cats, InGroup(cats, h))
  <2>1. PICK D : D = 1..n
    OBVIOUS
  <2>2. IsFiniteSet(D)
    BY <2>1, FS_Interval
  <2>3. InGroup(cats, h) \in SUBSET D
    BY <1>1, <2>1 DEF InGroup
  <2>4. IsFiniteSet(InGroup(cats, h))
    BY <2>2, <2>3, FS_Subset
  <2>5. \A i \in 1..n : cats[i].position \in Int
    BY <1>2 DEF CategoryItems
  <2> QED
    BY <2>1, <2>3, <2>4, <2>5 DEF Ranked
<1>4. ASSUME NEW i \in 1..n
      PROVE  /\ t[i] = [cats[i] EXCEPT !.position = Place(cats, InGroup(cats, cats[i].group), i)]
             /\ Place(cats, InGroup(cats, cats[i].group), i) \in Nat
  <2>1. PICK among : among = InGroup(cats, cats[i].group)
    OBVIOUS
  <2>2. Ranked(cats, among) /\ i \in among
    BY <1>1, <1>3, <2>1 DEF InGroup
  <2>3. PICK m : m = Cardinality(among)
    OBVIOUS
  <2>4. m \in Nat /\ Place(cats, among, i) \in 0..(m - 1)
    BY <2>2, <2>3, PlacesCount
  <2>5. Place(cats, among, i) \in Nat
    BY <2>4
  <2> QED
    BY <1>1, <2>1, <2>5 DEF Placed
<1>5. ASSUME NEW i \in 1..n
      PROVE  /\ t[i] \in CategoryItems /\ t[i].id = cats[i].id /\ t[i].group = cats[i].group
             /\ t[i].position = Place(cats, InGroup(cats, cats[i].group), i)
  <2>1. PICK p \in Nat : p = Place(cats, InGroup(cats, cats[i].group), i)
    BY <1>4
  <2>2. t[i] = [cats[i] EXCEPT !.position = p]
    BY <1>4, <2>1
  <2>3. PICK c \in CategoryItems : c = cats[i]
    BY <1>2
  <2>4. /\ t[i] \in CategoryItems /\ t[i].id = c.id /\ t[i].group = c.group /\ t[i].position = p
    BY <2>2, <2>3 DEF CategoryItems
  <2> QED
    BY <2>1, <2>3, <2>4
<1>6. DOMAIN t = 1..n
  BY <1>1 DEF Placed
<1>7. t \in Seq(CategoryItems)
  <2>1. t = [i \in 1..n |-> t[i]]
    BY <1>1 DEF Placed
  <2>2. t \in [1..n -> CategoryItems]
    BY <1>5, <2>1
  <2> QED
    BY <2>2, IsASeq
<1>8. Distinct(t)
  BY <1>1, <1>5, <1>6 DEF Distinct
<1>9. \A gs : Based(gs, cats) => Based(gs, t)
  BY <1>1, <1>5, <1>6 DEF Based
<1>10. ASSUME NEW h \in CategoryGroups PROVE Dense(t, h)
  <2>1. PICK among : among = InGroup(cats, h)
    OBVIOUS
  <2>2. InGroup(t, h) = among /\ among \subseteq 1..n
    BY <1>1, <1>5, <1>6, <2>1 DEF InGroup
  <2>3. Ranked(cats, among)
    BY <1>3, <2>1
  <2>4. PICK m : m = Cardinality(among)
    OBVIOUS
  <2>5. /\ \A i \in among : Place(cats, among, i) \in 0..(m - 1)
        /\ \A p \in 0..(m - 1) : \E i \in among : Place(cats, among, i) = p
    BY <2>3, <2>4, PlacesCount
  <2>6. \A i \in among : t[i].position = Place(cats, among, i)
    BY <1>1, <1>5, <2>1, <2>2 DEF InGroup
  <2>7. {t[i].position : i \in among} = 0..(m - 1)
    BY <2>5, <2>6
  <2> QED
    BY <2>2, <2>4, <2>7 DEF Dense, Positions
<1> QED
  BY <1>7, <1>8, <1>9, <1>10 DEF CategoriesOK
-----------------------------------------------------------------------------
(* The commands of the catalog *)

\* A vector of groups with one of them moved.
LEMMA MovedGroups ==
  ASSUME NEW s \in Seq(GroupItems), Distinct(s), NEW id, Holds(s, id), NEW to \in 1..Len(s),
         NEW t, t = MoveTo(s, id, to)
  PROVE  t \in Seq(GroupItems) /\ Distinct(t) /\ IdsOf(t) = IdsOf(s)
<1>1. PICK k : k = IndexOf(s, id)
  OBVIOUS
<1>2. k \in DOMAIN s
  BY <1>1, IndexOfIs
<1>3. t = InsertAt(RemoveAt(s, k), to, s[k])
  BY <1>1 DEF MoveTo, Without
<1>4. t \in Seq(GroupItems) /\ Rearranges(s, t)
  BY <1>2, <1>3, MovedRearranges
<1> QED
  BY <1>4 DEF Rearranges

\* A group added at the end.
LEMMA AddGroupKeeps ==
  ASSUME CatalogOK(groups, categories), NEW id \in CategoryGroups, AddGroup(id)
  PROVE  CatalogOK(groups', categories')
<1>1. PICK gs : gs = groups
  OBVIOUS
<1>2. gs \in Seq(GroupItems) /\ Distinct(gs) /\ \A i \in DOMAIN gs : gs[i].position = i - 1
  BY <1>1 DEF CatalogOK, GroupsOK
<1>3. PICK n \in Nat : n = Len(gs) /\ DOMAIN gs = 1..n
  BY <1>2, LenProperties
<1>4. PICK e : e = [id |-> id, position |-> n]
  OBVIOUS
<1>5. e \in GroupItems /\ e.id = id /\ e.position = n
  BY <1>4 DEF GroupItems
<1>6. PICK t : t = Append(gs, e)
  OBVIOUS
<1>7. /\ t \in Seq(GroupItems) /\ Len(t) = n + 1 /\ t[n + 1] = e
      /\ \A i \in 1..n : t[i] = gs[i]
  BY <1>2, <1>3, <1>5, <1>6, AppendProperties
<1>8. DOMAIN t = 1..(n + 1)
  BY <1>7, LenProperties
<1>9. id \notin IdsOf(gs)
  BY <1>1, <1>2, IndexOfIs DEF AddGroup
<1>10. Distinct(t)
  <2>1. ASSUME NEW i \in 1..(n + 1), NEW j \in 1..(n + 1), t[i].id = t[j].id PROVE i = j
    <3>1. \A m \in 1..n : gs[m].id # id
      BY <1>3, <1>9 DEF IdsOf
    <3>2. CASE i \in 1..n /\ j \in 1..n
      BY <1>2, <1>3, <1>7, <2>1, <3>2 DEF Distinct
    <3>3. CASE i \in 1..n /\ j = n + 1
      BY <1>5, <1>7, <2>1, <3>1, <3>3
    <3>4. CASE i = n + 1 /\ j \in 1..n
      BY <1>5, <1>7, <2>1, <3>1, <3>4
    <3> QED
      BY <3>2, <3>3, <3>4
  <2> QED
    BY <1>8, <2>1 DEF Distinct
<1>11. \A i \in DOMAIN t : t[i].position = i - 1
  <2>1. ASSUME NEW i \in 1..(n + 1) PROVE t[i].position = i - 1
    <3>1. CASE i \in 1..n
      BY <1>2, <1>3, <1>7, <3>1
    <3>2. CASE i = n + 1
      BY <1>5, <1>7, <3>2
    <3> QED
      BY <3>1, <3>2
  <2> QED
    BY <1>8, <2>1
<1>12. IdsOf(gs) \subseteq IdsOf(t)
  <2>1. ASSUME NEW x \in IdsOf(gs) PROVE x \in IdsOf(t)
    <3>1. PICK i \in 1..n : x = gs[i].id
      BY <1>3, <2>1 DEF IdsOf
    <3>2. i \in DOMAIN t /\ x = t[i].id
      BY <1>7, <1>8, <3>1
    <3> QED
      BY <3>2 DEF IdsOf
  <2> QED
    BY <2>1
<1>13. groups' = t /\ categories' = categories
  BY <1>1, <1>3, <1>4, <1>6 DEF AddGroup
<1> QED
  BY <1>1, <1>7, <1>10, <1>11, <1>12, <1>13 DEF CatalogOK, GroupsOK, Based

\* What normalize leaves, whatever it was given.
LEMMA NormalizeKeeps ==
  ASSUME NEW s \in Seq(GroupItems), Distinct(s), NEW cats \in Seq(CategoryItems), Distinct(cats),
         Based(s, cats), Normalize(s, cats)
  PROVE  CatalogOK(groups', categories')
<1>1. PICK gs : gs = groups'
  OBVIOUS
<1>2. gs = InOrder(s)
  BY <1>1 DEF Normalize
<1>3. GroupsOK(gs) /\ IdsOf(gs) = IdsOf(s)
  BY <1>2, OrderedGroups
<1>4. PICK t : t = categories'
  OBVIOUS
<1>5. t = Placed(cats)
  BY <1>4 DEF Normalize, Placed
<1>6. CategoriesOK(t) /\ Based(s, t)
  BY <1>5, PlacedCategories
<1> QED
  BY <1>1, <1>3, <1>4, <1>6 DEF CatalogOK, Based

\* A group moved to a position.
LEMMA ReorderGroupKeeps ==
  ASSUME CatalogOK(groups, categories), NEW id \in CategoryGroups, NEW position \in Nat,
         ReorderGroup(id, position)
  PROVE  CatalogOK(groups', categories')
<1>1. PICK gs : gs = groups
  OBVIOUS
<1>2. gs \in Seq(GroupItems) /\ Distinct(gs) /\ Holds(gs, id)
  BY <1>1 DEF CatalogOK, GroupsOK, ReorderGroup
<1>3. PICK n \in Nat : n = Len(gs) /\ DOMAIN gs = 1..n
  BY <1>2, LenProperties
<1>4. PICK to : to = 1 + IF position < n THEN position ELSE n - 1
  OBVIOUS
<1>5. n > 0
  BY <1>2, <1>3, IndexOfIs
<1>6. to \in 1..Len(gs)
  BY <1>3, <1>4, <1>5
<1>7. PICK r : r = MoveTo(gs, id, to)
  OBVIOUS
<1>8. r \in Seq(GroupItems) /\ Distinct(r) /\ IdsOf(r) = IdsOf(gs)
  BY <1>2, <1>6, <1>7, MovedGroups
<1>9. PICK t : t = Numbered(r)
  OBVIOUS
<1>10. GroupsOK(t) /\ IdsOf(t) = IdsOf(gs)
  BY <1>8, <1>9, NumberedGroups
<1>11. groups' = t /\ categories' = categories
  BY <1>1, <1>3, <1>4, <1>7, <1>9 DEF ReorderGroup
<1> QED
  BY <1>1, <1>10, <1>11 DEF CatalogOK, Based

\* A group moved before another one.
LEMMA ReorderGroupBeforeKeeps ==
  ASSUME CatalogOK(groups, categories), NEW id \in CategoryGroups, NEW next \in CategoryGroups,
         ReorderGroupBefore(id, next)
  PROVE  CatalogOK(groups', categories')
<1>1. PICK gs : gs = groups
  OBVIOUS
<1>2. gs \in Seq(GroupItems) /\ Distinct(gs) /\ Holds(gs, id)
  BY <1>1 DEF CatalogOK, GroupsOK, ReorderGroupBefore
<1>3. PICK n \in Nat : n = Len(gs) /\ DOMAIN gs = 1..n
  BY <1>2, LenProperties
<1>4. PICK k : k = IndexOf(gs, id)
  OBVIOUS
<1>5. k \in DOMAIN gs
  BY <1>2, <1>4, IndexOfIs
<1>6. PICK others : others = RemoveAt(gs, k)
  OBVIOUS
<1>7. others \in Seq(GroupItems) /\ Len(others) = n - 1
  BY <1>2, <1>3, <1>5, <1>6, RemovedAt
<1>8. PICK to : to = IF Holds(others, next) THEN IndexOf(others, next) ELSE n
  OBVIOUS
<1>9. to \in 1..Len(gs)
  <2>1. CASE Holds(others, next)
    <3>1. to \in DOMAIN others
      BY <1>7, <1>8, <2>1, IndexOfIs
    <3>2. DOMAIN others = 1..(n - 1)
      BY <1>7, LenProperties
    <3> QED
      BY <1>3, <3>1, <3>2
  <2>2. CASE ~Holds(others, next)
    BY <1>3, <1>5, <1>8, <2>2
  <2> QED
    BY <2>1, <2>2
<1>10. PICK s : s = MoveTo(gs, id, to)
  OBVIOUS
<1>11. s \in Seq(GroupItems) /\ Distinct(s) /\ IdsOf(s) = IdsOf(gs)
  BY <1>2, <1>9, <1>10, MovedGroups
<1>12. s = MovedBefore(id, next)
  BY <1>1, <1>3, <1>4, <1>6, <1>8, <1>10 DEF MovedBefore, Without
<1>13. PICK cats : cats = categories
  OBVIOUS
<1>14. cats \in Seq(CategoryItems) /\ Distinct(cats) /\ Based(s, cats)
  BY <1>1, <1>11, <1>13 DEF CatalogOK, CategoriesOK, Based
<1>15. Normalize(s, cats)
  BY <1>12, <1>13 DEF ReorderGroupBefore
<1> QED
  BY <1>11, <1>14, <1>15, NormalizeKeeps
\* Commands that leave the id, the group and the position of every category alone.
LEMMA SameKeysKeep ==
  ASSUME CatalogOK(groups, categories), groups' = groups,
         categories' \in Seq(CategoryItems), Len(categories') = Len(categories),
         \A i \in 1..Len(categories) :
           /\ categories'[i].id = categories[i].id /\ categories'[i].group = categories[i].group
           /\ categories'[i].position = categories[i].position
  PROVE  CatalogOK(groups', categories')
<1>1. PICK gs : gs = groups
  OBVIOUS
<1>2. PICK cats : cats = categories
  OBVIOUS
<1>3. PICK t : t = categories'
  OBVIOUS
<1>4. cats \in Seq(CategoryItems) /\ Distinct(cats) /\ Based(gs, cats) /\ GroupsOK(gs)
  BY <1>1, <1>2 DEF CatalogOK, CategoriesOK
<1>5. PICK n \in Nat : n = Len(cats) /\ DOMAIN cats = 1..n
  BY <1>4, LenProperties
<1>6. t \in Seq(CategoryItems) /\ Len(t) = n
  BY <1>2, <1>3, <1>5
<1>7. DOMAIN t = 1..n
  BY <1>6, LenProperties
<1>8. \A i \in 1..n : t[i].id = cats[i].id /\ t[i].group = cats[i].group /\ t[i].position = cats[i].position
  BY <1>2, <1>3, <1>5
<1>9. Distinct(t) /\ Based(gs, t)
  BY <1>4, <1>5, <1>7, <1>8 DEF Distinct, Based
<1>10. ASSUME NEW h \in CategoryGroups PROVE Dense(t, h)
  <2>1. PICK among : among = InGroup(cats, h)
    OBVIOUS
  <2>2. InGroup(t, h) = among /\ among \subseteq 1..n
    BY <1>5, <1>7, <1>8, <2>1 DEF InGroup
  <2>3. {t[i].position : i \in among} = {cats[i].position : i \in among}
    <3>1. \A i \in among : t[i].position = cats[i].position
      BY <1>8, <2>2
    <3> QED
      BY <3>1
  <2>4. Dense(cats, h)
    BY <1>2 DEF CatalogOK, CategoriesOK
  <2> QED
    BY <2>1, <2>2, <2>3, <2>4 DEF Dense, Positions
<1>11. CatalogOK(gs, t)
  BY <1>4, <1>6, <1>9, <1>10 DEF CatalogOK, CategoriesOK
<1> QED
  BY <1>1, <1>3, <1>11

\* One category changed in what is not its id, its group or its position.
LEMMA ChangedKeeps ==
  ASSUME CatalogOK(groups, categories), groups' = groups, NEW id, Holds(categories, id),
         NEW c \in CategoryItems,
         LET old == categories[IndexOf(categories, id)] IN
           c.id = old.id /\ c.group = old.group /\ c.position = old.position,
         categories' = [categories EXCEPT ![IndexOf(categories, id)] = c]
  PROVE  CatalogOK(groups', categories')
<1>1. PICK cats : cats = categories
  OBVIOUS
<1>2. cats \in Seq(CategoryItems) /\ Holds(cats, id)
  BY <1>1 DEF CatalogOK, CategoriesOK
<1>3. PICK k : k = IndexOf(cats, id)
  OBVIOUS
<1>4. PICK n \in Nat : n = Len(cats) /\ DOMAIN cats = 1..n
  BY <1>2, LenProperties
<1>5. k \in 1..n
  BY <1>2, <1>3, <1>4, IndexOfIs
<1>6. PICK t : t = [cats EXCEPT ![k] = c]
  OBVIOUS
<1>7. t = [i \in 1..n |-> IF i = k THEN c ELSE cats[i]]
  BY <1>4, <1>6
<1>8. \A i \in 1..n : cats[i] \in CategoryItems
  BY <1>2, <1>4, ElementOfSeq
<1>9. t \in Seq(CategoryItems) /\ Len(t) = n
  <2>1. t \in [1..n -> CategoryItems]
    BY <1>7, <1>8
  <2>2. t \in Seq(CategoryItems)
    BY <2>1, IsASeq
  <2>3. DOMAIN t = 1..n
    BY <1>7
  <2> QED
    BY <2>2, <2>3, LenProperties
<1>10. categories' = t
  BY <1>1, <1>3, <1>6
<1>11. \A i \in 1..n : t[i].id = cats[i].id /\ t[i].group = cats[i].group /\ t[i].position = cats[i].position
  BY <1>1, <1>3, <1>5, <1>7
<1> QED
  BY <1>1, <1>4, <1>9, <1>10, <1>11, SameKeysKeep

\* What the item found by an id is like.
LEMMA FoundCategory ==
  ASSUME CatalogOK(groups, categories), NEW id, Holds(categories, id)
  PROVE  /\ IndexOf(categories, id) \in DOMAIN categories
         /\ categories[IndexOf(categories, id)] \in CategoryItems
<1>1. PICK cats : cats = categories
  OBVIOUS
<1>2. cats \in Seq(CategoryItems) /\ Holds(cats, id)
  BY <1>1 DEF CatalogOK, CategoriesOK
<1>3. PICK k : k = IndexOf(cats, id)
  OBVIOUS
<1>4. k \in DOMAIN cats
  BY <1>2, <1>3, IndexOfIs
<1>5. cats[k] \in CategoryItems
  BY <1>2, <1>4, LenProperties, ElementOfSeq
<1> QED
  BY <1>1, <1>3, <1>4, <1>5

\* A category archived.
LEMMA ArchivedKeeps ==
  ASSUME CatalogOK(groups, categories), groups' = groups, NEW id, Holds(categories, id), Archived(id)
  PROVE  CatalogOK(groups', categories')
<1>1. PICK old \in CategoryItems : old = categories[IndexOf(categories, id)]
  BY FoundCategory
<1>2. PICK c : c = [old EXCEPT !.archived = TRUE, !.hidden = TRUE]
  OBVIOUS
<1>3. c \in CategoryItems /\ c.id = old.id /\ c.group = old.group /\ c.position = old.position
  BY <1>2 DEF CategoryItems
<1>4. categories' = [categories EXCEPT ![IndexOf(categories, id)] = c]
  BY <1>1, <1>2 DEF Archived
<1> QED
  BY <1>1, <1>3, <1>4, ChangedKeeps

\* A category hidden or shown.
LEMMA HideKeeps ==
  ASSUME CatalogOK(groups, categories), NEW id, NEW hidden \in BOOLEAN, Hide(id, hidden)
  PROVE  CatalogOK(groups', categories')
<1>1. Holds(categories, id) /\ groups' = groups
  BY DEF Hide
<1>2. PICK old \in CategoryItems : old = categories[IndexOf(categories, id)]
  BY <1>1, FoundCategory
<1>3. PICK c : c = [old EXCEPT !.hidden = hidden]
  OBVIOUS
<1>4. c \in CategoryItems /\ c.id = old.id /\ c.group = old.group /\ c.position = old.position
  BY <1>3 DEF CategoryItems
<1>5. categories' = [categories EXCEPT ![IndexOf(categories, id)] = c]
  BY <1>2, <1>3 DEF Hide
<1> QED
  BY <1>1, <1>2, <1>4, <1>5, ChangedKeeps

\* A category that a transaction uses.
LEMMA UseKeeps ==
  ASSUME CatalogOK(groups, categories), NEW id, Use(id)
  PROVE  CatalogOK(groups', categories')
<1>1. Holds(categories, id) /\ groups' = groups
  BY DEF Use
<1>2. PICK old \in CategoryItems : old = categories[IndexOf(categories, id)]
  BY <1>1, FoundCategory
<1>3. PICK c : c = [old EXCEPT !.used = TRUE]
  OBVIOUS
<1>4. c \in CategoryItems /\ c.id = old.id /\ c.group = old.group /\ c.position = old.position
  BY <1>3 DEF CategoryItems
<1>5. categories' = [categories EXCEPT ![IndexOf(categories, id)] = c]
  BY <1>2, <1>3 DEF Use
<1> QED
  BY <1>1, <1>2, <1>4, <1>5, ChangedKeeps

\* A category moved to another group, or to another position of its own.
LEMMA MoveCategoryKeeps ==
  ASSUME CatalogOK(groups, categories), NEW id \in Categories, NEW group \in CategoryGroups,
         NEW position \in Nat, MoveCategory(id, group, position)
  PROVE  CatalogOK(groups', categories')
<1>1. PICK gs : gs = groups
  OBVIOUS
<1>2. PICK cats : cats = categories
  OBVIOUS
<1>3. /\ gs \in Seq(GroupItems) /\ Distinct(gs) /\ Holds(gs, group)
      /\ cats \in Seq(CategoryItems) /\ Distinct(cats) /\ Based(gs, cats) /\ Holds(cats, id)
  BY <1>1, <1>2 DEF CatalogOK, CategoriesOK, GroupsOK, MoveCategory
<1>4. PICK k : k = IndexOf(cats, id)
  OBVIOUS
<1>5. PICK n \in Nat : n = Len(cats) /\ DOMAIN cats = 1..n
  BY <1>3, LenProperties
<1>6. k \in 1..n
  BY <1>3, <1>4, <1>5, IndexOfIs
<1>7. \A i \in 1..n : cats[i] \in CategoryItems
  BY <1>3, <1>5, ElementOfSeq
<1>8. PICK c : c = [cats[k] EXCEPT !.group = group, !.position = position]
  OBVIOUS
<1>9. c \in CategoryItems /\ c.id = cats[k].id /\ c.group = group
  <2>1. PICK old \in CategoryItems : old = cats[k]
    BY <1>6, <1>7
  <2> QED
    BY <1>8, <2>1 DEF CategoryItems
<1>10. PICK t : t = [cats EXCEPT ![k] = c]
  OBVIOUS
<1>11. t = [i \in 1..n |-> IF i = k THEN c ELSE cats[i]]
  BY <1>5, <1>10
<1>12. t \in Seq(CategoryItems)
  <2>1. t \in [1..n -> CategoryItems]
    BY <1>7, <1>9, <1>11
  <2> QED
    BY <2>1, IsASeq
<1>13. DOMAIN t = 1..n /\ \A i \in 1..n : t[i].id = cats[i].id
  BY <1>9, <1>11
<1>14. Distinct(t)
  BY <1>3, <1>5, <1>13 DEF Distinct
<1>15. group \in IdsOf(gs)
  BY <1>3, IndexOfIs
<1>16. Based(gs, t)
  BY <1>3, <1>5, <1>9, <1>11, <1>13, <1>15 DEF Based
<1>17. Normalize(gs, t)
  <2>1. t = [cats EXCEPT ![k] = [@ EXCEPT !.group = group, !.position = position]]
    BY <1>8, <1>10
  <2> QED
    BY <1>1, <1>2, <1>4, <2>1 DEF MoveCategory
<1> QED
  BY <1>3, <1>12, <1>14, <1>16, <1>17, NormalizeKeeps

\* A category deleted, or archived because it is used.
LEMMA DeleteIfUnusedKeeps ==
  ASSUME CatalogOK(groups, categories), NEW id \in Categories, DeleteIfUnused(id)
  PROVE  CatalogOK(groups', categories')
<1>1. Holds(categories, id)
  BY DEF DeleteIfUnused
<1>2. CASE categories[IndexOf(categories, id)].used
  <2>1. Archived(id) /\ groups' = groups
    BY <1>2 DEF DeleteIfUnused
  <2> QED
    BY <1>1, <2>1, ArchivedKeeps
<1>3. CASE ~categories[IndexOf(categories, id)].used
  <2>1. PICK gs : gs = groups
    OBVIOUS
  <2>2. PICK cats : cats = categories
    OBVIOUS
  <2>3. /\ gs \in Seq(GroupItems) /\ Distinct(gs)
        /\ cats \in Seq(CategoryItems) /\ Distinct(cats) /\ Based(gs, cats) /\ Holds(cats, id)
    BY <1>1, <2>1, <2>2 DEF CatalogOK, CategoriesOK, GroupsOK
  <2>4. PICK k : k = IndexOf(cats, id)
    OBVIOUS
  <2>5. PICK n \in Nat : n = Len(cats) /\ DOMAIN cats = 1..n
    BY <2>3, LenProperties
  <2>6. k \in DOMAIN cats
    BY <2>3, <2>4, IndexOfIs
  <2>7. PICK r : r = RemoveAt(cats, k)
    OBVIOUS
  <2>8. /\ r \in Seq(CategoryItems) /\ Len(r) = n - 1
        /\ \A i \in 1..(n - 1) : r[i] = IF i < k THEN cats[i] ELSE cats[i + 1]
    <3>1. /\ r \in Seq(CategoryItems) /\ Len(r) = Len(cats) - 1
          /\ \A i \in 1..(Len(cats) - 1) : r[i] = IF i < k THEN cats[i] ELSE cats[i + 1]
      BY <2>3, <2>6, <2>7, RemovedAt
    <3> QED
      BY <2>5, <3>1
  <2>9. DOMAIN r = 1..(n - 1)
    BY <2>8, LenProperties
  <2>10. PICK src : src = [i \in 1..(n - 1) |-> IF i < k THEN i ELSE i + 1]
    OBVIOUS
  <2>11. \A i \in 1..(n - 1) : src[i] \in 1..n /\ r[i] = cats[src[i]]
    BY <2>5, <2>6, <2>8, <2>10
  <2>12. \A i, j \in 1..(n - 1) : src[i] = src[j] => i = j
    BY <2>5, <2>6, <2>10
  <2>13. Distinct(r)
    <3>1. ASSUME NEW i \in 1..(n - 1), NEW j \in 1..(n - 1), r[i].id = r[j].id PROVE i = j
      <4>1. cats[src[i]].id = cats[src[j]].id /\ src[i] \in DOMAIN cats /\ src[j] \in DOMAIN cats
        BY <2>5, <2>11, <3>1
      <4>2. src[i] = src[j]
        BY <2>3, <4>1 DEF Distinct
      <4> QED
        BY <2>12, <4>2
    <3> QED
      BY <2>9, <3>1 DEF Distinct
  <2>14. Based(gs, r)
    BY <2>3, <2>5, <2>9, <2>11 DEF Based
  <2>15. Normalize(gs, r)
    BY <1>3, <2>1, <2>2, <2>4, <2>7 DEF DeleteIfUnused, Without
  <2> QED
    BY <2>3, <2>8, <2>13, <2>14, <2>15, NormalizeKeeps
<1> QED
  BY <1>2, <1>3

\* A category added at the end of its group.
LEMMA AddCategoryKeeps ==
  ASSUME CatalogOK(groups, categories), NEW id \in Categories, NEW group \in CategoryGroups,
         AddCategory(id, group)
  PROVE  CatalogOK(groups', categories')
<1>1. PICK gs : gs = groups
  OBVIOUS
<1>2. PICK cats : cats = categories
  OBVIOUS
<1>3. /\ GroupsOK(gs) /\ gs \in Seq(GroupItems) /\ Holds(gs, group)
      /\ cats \in Seq(CategoryItems) /\ Distinct(cats) /\ Based(gs, cats) /\ ~Holds(cats, id)
  BY <1>1, <1>2 DEF CatalogOK, CategoriesOK, GroupsOK, AddCategory
<1>4. PICK n \in Nat : n = Len(cats) /\ DOMAIN cats = 1..n
  BY <1>3, LenProperties
<1>5. \A h : InGroup(cats, h) \in SUBSET (1..n) /\ IsFiniteSet(InGroup(cats, h))
  <2>1. ASSUME NEW h PROVE InGroup(cats, h) \in SUBSET (1..n) /\ IsFiniteSet(InGroup(cats, h))
    <3>1. PICK D : D = 1..n
      OBVIOUS
    <3>2. IsFiniteSet(D)
      BY <3>1, FS_Interval
    <3>3. InGroup(cats, h) \in SUBSET D
      BY <1>4, <3>1 DEF InGroup
    <3> QED
      BY <3>1, <3>2, <3>3, FS_Subset
  <2> QED
    BY <2>1
<1>6. PICK last \in Nat : last = Cardinality(InGroup(cats, group))
  BY <1>5, FS_CardinalityType
<1>7. PICK e : e = [id |-> id, group |-> group, hidden |-> FALSE, archived |-> FALSE, used |-> FALSE,
                    position |-> last]
  OBVIOUS
<1>8. e \in CategoryItems /\ e.id = id /\ e.group = group /\ e.position = last
  BY <1>7 DEF CategoryItems
<1>9. PICK t : t = Append(cats, e)
  OBVIOUS
<1>10. /\ t \in Seq(CategoryItems) /\ Len(t) = n + 1 /\ t[n + 1] = e
       /\ \A i \in 1..n : t[i] = cats[i]
  BY <1>3, <1>4, <1>8, <1>9, AppendProperties
<1>11. DOMAIN t = 1..(n + 1)
  BY <1>10, LenProperties
<1>12. \A m \in 1..n : cats[m].id # id
  BY <1>3, <1>4, IndexOfIs DEF IdsOf
<1>13. Distinct(t)
  <2>1. ASSUME NEW i \in 1..(n + 1), NEW j \in 1..(n + 1), t[i].id = t[j].id PROVE i = j
    <3>1. CASE i \in 1..n /\ j \in 1..n
      BY <1>3, <1>4, <1>10, <2>1, <3>1 DEF Distinct
    <3>2. CASE i \in 1..n /\ j = n + 1
      BY <1>8, <1>10, <1>12, <2>1, <3>2
    <3>3. CASE i = n + 1 /\ j \in 1..n
      BY <1>8, <1>10, <1>12, <2>1, <3>3
    <3> QED
      BY <3>1, <3>2, <3>3
  <2> QED
    BY <1>11, <2>1 DEF Distinct
<1>14. Based(gs, t)
  <2>1. group \in IdsOf(gs)
    BY <1>3, IndexOfIs
  <2>2. ASSUME NEW i \in 1..(n + 1) PROVE t[i].group \in IdsOf(gs)
    <3>1. CASE i \in 1..n
      BY <1>3, <1>4, <1>10, <3>1 DEF Based
    <3>2. CASE i = n + 1
      BY <1>8, <1>10, <2>1, <3>2
    <3> QED
      BY <3>1, <3>2
  <2> QED
    BY <1>11, <2>2 DEF Based
<1>15. ASSUME NEW h \in CategoryGroups PROVE Dense(t, h)
  <2>1. PICK among : among = InGroup(cats, h)
    OBVIOUS
  <2>2. among \in SUBSET (1..n) /\ IsFiniteSet(among)
    BY <1>5, <2>1
  <2>3. {cats[i].position : i \in among} = 0..(Cardinality(among) - 1)
    BY <1>2, <2>1 DEF CatalogOK, CategoriesOK, Dense, Positions
  <2>4. \A i \in among : t[i].position = cats[i].position
    BY <1>10, <2>2
  <2>5. CASE h # group
    <3>1. InGroup(t, h) = among
      <4>1. ASSUME NEW i \in 1..(n + 1) PROVE t[i].group = h <=> (i \in 1..n /\ cats[i].group = h)
        <5>1. CASE i \in 1..n
          BY <1>10, <5>1
        <5>2. CASE i = n + 1
          BY <1>8, <1>10, <2>5, <5>2
        <5> QED
          BY <5>1, <5>2
      <4> QED
        BY <1>4, <1>11, <2>1, <4>1 DEF InGroup
    <3>2. {t[i].position : i \in among} = {cats[i].position : i \in among}
      BY <2>4
    <3> QED
      BY <2>3, <3>1, <3>2 DEF Dense, Positions
  <2>6. CASE h = group
    <3>1. InGroup(t, h) = among \cup {n + 1}
      <4>1. ASSUME NEW i \in 1..(n + 1) PROVE t[i].group = h <=> (i = n + 1 \/ i \in among)
        <5>1. CASE i \in 1..n
          BY <1>4, <1>10, <2>1, <5>1 DEF InGroup
        <5>2. CASE i = n + 1
          BY <1>8, <1>10, <2>6, <5>2
        <5> QED
          BY <5>1, <5>2
      <4>2. n + 1 \in 1..(n + 1) /\ among \subseteq 1..(n + 1)
        BY <2>2
      <4> QED
        BY <1>11, <4>1, <4>2 DEF InGroup
    <3>2. PICK x : x = n + 1
      OBVIOUS
    <3>3. x \notin among
      BY <2>2, <3>2
    <3>4. PICK more : more = among \cup {x}
      OBVIOUS
    <3>5. Cardinality(more) = last + 1
      BY <1>6, <2>1, <2>2, <2>6, <3>3, <3>4, FS_AddElement
    <3>6. t[x].position = last
      BY <1>8, <1>10, <3>2
    <3>7. {t[i].position : i \in more} = {cats[i].position : i \in among} \cup {last}
      BY <2>4, <3>4, <3>6
    <3>8. {cats[i].position : i \in among} = 0..(last - 1)
      BY <1>6, <2>1, <2>3, <2>6
    <3>9. 0..(last - 1) \cup {last} = 0..(last + 1 - 1)
      OBVIOUS
    <3> QED
      BY <3>1, <3>2, <3>4, <3>5, <3>7, <3>8, <3>9 DEF Dense, Positions
  <2> QED
    BY <2>5, <2>6
<1>16. groups' = gs /\ categories' = t
  BY <1>1, <1>2, <1>6, <1>7, <1>9 DEF AddCategory
<1> QED
  BY <1>3, <1>10, <1>13, <1>14, <1>15, <1>16 DEF CatalogOK, CategoriesOK

-----------------------------------------------------------------------------
OrganizationInv == ForestInv /\ CatalogOK(groups, categories)

\* An empty vector is in order.
LEMMA EmptyCatalog == CatalogOK(<<>>, <<>>)
<1>1. PICK none : none = <<>>
  OBVIOUS
<1>2. none \in Seq(GroupItems) /\ none \in Seq(CategoryItems) /\ DOMAIN none = {}
  BY <1>1, EmptySeq
<1>3. ASSUME NEW h PROVE Dense(none, h)
  <2>1. PICK among : among = InGroup(none, h)
    OBVIOUS
  <2>2. among = {}
    BY <1>2, <2>1 DEF InGroup
  <2>3. Cardinality(among) = 0
    BY <2>2, FS_EmptySet
  <2>4. {none[i].position : i \in among} = 0..(0 - 1)
    BY <2>2
  <2> QED
    BY <2>1, <2>3, <2>4 DEF Dense, Positions
<1>4. GroupsOK(none) /\ CategoriesOK(none) /\ Based(none, none)
  BY <1>2, <1>3 DEF GroupsOK, CategoriesOK, Based, Distinct
<1> QED
  BY <1>1, <1>4 DEF CatalogOK

\* A new ledger has no group.
LEMMA OrganizationStart == OrganizationInit => OrganizationInv
<1> SUFFICES ASSUME OrganizationInit PROVE OrganizationInv
  OBVIOUS
<1>1. PICK none : none = <<>>
  OBVIOUS
<1>2. none \in [{} -> ParentsOrNone]
  BY <1>1
<1>3. none \in Forests /\ DOMAIN none = {}
  <2>1. {} \in SUBSET AccountGroups
    OBVIOUS
  <2> QED
    BY <1>2, <2>1 DEF Forests
<1>4. parentOf = none /\ groupOf = [account \in GroupedAccounts |-> NoGroup]
  BY <1>1 DEF OrganizationInit
<1>5. ForestOK(parentOf, groupOf)
  BY <1>3, <1>4 DEF ForestOK
<1>6. CatalogOK(groups, categories)
  BY EmptyCatalog DEF OrganizationInit
<1> QED
  BY <1>5, <1>6 DEF OrganizationInv, ForestInv

\* Every step of the catalog keeps it.
LEMMA CatalogStep ==
  ASSUME CatalogOK(groups, categories), CatalogNext
  PROVE  CatalogOK(groups', categories')
<1>1. 0..Cardinality(CategoryGroups) \subseteq Nat /\ 0..Cardinality(Categories) \subseteq Nat
  BY OrganizationAssumption, FS_CardinalityType
<1>2. ASSUME NEW id \in CategoryGroups, AddGroup(id) PROVE CatalogOK(groups', categories')
  BY <1>2, AddGroupKeeps
<1>3. ASSUME NEW id \in CategoryGroups, NEW position \in Nat, ReorderGroup(id, position)
      PROVE  CatalogOK(groups', categories')
  BY <1>3, ReorderGroupKeeps
<1>4. ASSUME NEW id \in CategoryGroups, NEW next \in CategoryGroups, ReorderGroupBefore(id, next)
      PROVE  CatalogOK(groups', categories')
  BY <1>4, ReorderGroupBeforeKeeps
<1>5. ASSUME NEW id \in Categories, NEW group \in CategoryGroups, AddCategory(id, group)
      PROVE  CatalogOK(groups', categories')
  BY <1>5, AddCategoryKeeps
<1>6. ASSUME NEW id \in Categories, NEW group \in CategoryGroups, NEW position \in Nat,
             MoveCategory(id, group, position)
      PROVE  CatalogOK(groups', categories')
  BY <1>6, MoveCategoryKeeps
<1>7. ASSUME NEW id, NEW hidden \in BOOLEAN, Hide(id, hidden) PROVE CatalogOK(groups', categories')
  BY <1>7, HideKeeps
<1>8. ASSUME NEW id, ArchiveCategory(id) PROVE CatalogOK(groups', categories')
  BY <1>8, ArchivedKeeps DEF ArchiveCategory
<1>9. ASSUME NEW id \in Categories, DeleteIfUnused(id) PROVE CatalogOK(groups', categories')
  BY <1>9, DeleteIfUnusedKeeps
<1>10. ASSUME NEW id, Use(id) PROVE CatalogOK(groups', categories')
  BY <1>10, UseKeeps
<1>11. ASSUME NEW id, NEW account, RelinkManaged(account, id) PROVE CatalogOK(groups', categories')
  BY <1>11 DEF RelinkManaged
<1> QED
  BY <1>1, <1>2, <1>3, <1>4, <1>5, <1>6, <1>7, <1>8, <1>9, <1>10, <1>11 DEF CatalogNext

\* Every step of either part keeps both.
LEMMA OrganizationStep == OrganizationInv /\ [OrganizationNext]_<<forest, catalog>> => OrganizationInv'
<1> SUFFICES ASSUME OrganizationInv, [OrganizationNext]_<<forest, catalog>> PROVE OrganizationInv'
  OBVIOUS
<1>1. CASE ForestNext /\ UNCHANGED catalog
  <2>1. ForestInv'
    BY <1>1, ForestStep DEF OrganizationInv
  <2>2. groups' = groups /\ categories' = categories
    BY <1>1 DEF catalog
  <2> QED
    BY <2>1, <2>2 DEF OrganizationInv
<1>2. CASE CatalogNext /\ UNCHANGED forest
  <2>1. CatalogOK(groups', categories')
    BY <1>2, CatalogStep DEF OrganizationInv
  <2>2. parentOf' = parentOf /\ groupOf' = groupOf
    BY <1>2 DEF forest
  <2> QED
    BY <2>1, <2>2 DEF OrganizationInv, ForestInv
<1>3. CASE UNCHANGED <<forest, catalog>>
  <2>1. /\ groups' = groups /\ categories' = categories
        /\ parentOf' = parentOf /\ groupOf' = groupOf
    BY <1>3 DEF forest, catalog
  <2> QED
    BY <2>1 DEF OrganizationInv, ForestInv
<1> QED
  BY <1>1, <1>2, <1>3 DEF OrganizationNext

\* The invariant is what the runs check, said with more names.
LEMMA ArrangementSuffices == OrganizationInv => OrganizationSound
<1> SUFFICES ASSUME OrganizationInv PROVE OrganizationSound
  OBVIOUS
<1>1. PICK gs : gs = groups
  OBVIOUS
<1>2. PICK cats : cats = categories
  OBVIOUS
<1>3. GroupsOK(gs) /\ CategoriesOK(cats) /\ Based(gs, cats) /\ ForestOK(parentOf, groupOf)
  BY <1>1, <1>2 DEF OrganizationInv, CatalogOK, ForestInv
<1>4. gs \in Seq(GroupItems) /\ cats \in Seq(CategoryItems)
  BY <1>3 DEF GroupsOK, CategoriesOK
<1>5. Range(groupOf) \subseteq DOMAIN parentOf \cup {NoGroup}
  BY <1>3 DEF ForestOK, Range
<1>6. \A id \in DOMAIN parentOf : Upward(parentOf[id]) \subseteq DOMAIN parentOf \ {id}
  BY <1>3 DEF ForestOK, Upward
<1>7. /\ \A i, j \in DOMAIN gs : gs[i].id = gs[j].id => i = j
      /\ \A i, j \in DOMAIN cats : cats[i].id = cats[j].id => i = j
      /\ \A i \in DOMAIN gs : gs[i].position = i - 1
  BY <1>3 DEF GroupsOK, CategoriesOK, Distinct
<1>8. ASSUME NEW i \in DOMAIN cats PROVE Holds(gs, cats[i].group)
  <2>1. PICK x : x = cats[i].group
    OBVIOUS
  <2>2. x \in IdsOf(gs)
    BY <1>3, <2>1 DEF Based
  <2>3. Holds(gs, x)
    BY <1>4, <2>2, IndexOfIs
  <2> QED
    BY <2>1, <2>3
<1>9. ASSUME NEW g \in DOMAIN gs
      PROVE  {cats[i].position : i \in InGroup(cats, gs[g].id)} = 0..(Cardinality(InGroup(cats, gs[g].id)) - 1)
  <2>1. gs[g] \in GroupItems
    BY <1>4, LenProperties, ElementOfSeq
  <2>2. gs[g].id \in CategoryGroups
    BY <2>1 DEF GroupItems
  <2> QED
    BY <1>3, <2>2 DEF CategoriesOK, Dense, Positions
<1> QED
  BY <1>1, <1>2, <1>5, <1>6, <1>7, <1>8, <1>9 DEF OrganizationSound

\* OrganizationSound: whatever was created, moved, deleted, archived or relinked before, in any
\* order, no account group is above itself and none that is used is gone, the catalog holds
\* each group and category once, and their positions are 0, 1, 2, ... without a gap or a tie.
THEOREM ArrangementSound == OrganizationSpec => []OrganizationSound
<1>1. OrganizationInv /\ [OrganizationNext]_<<forest, catalog>> => OrganizationInv'
  BY OrganizationStep
<1> QED
  BY <1>1, OrganizationStart, ArrangementSuffices, PTL DEF OrganizationSpec
-----------------------------------------------------------------------------
(* Master data *)

IsAccount(row) ==
  row = [type |-> row.type, group |-> row.group, closed |-> row.closed, favorite |-> row.favorite]
IsCategory(row) ==
  /\ row = [group |-> row.group, hidden |-> row.hidden, archived |-> row.archived]
  /\ row.hidden \in BOOLEAN /\ row.archived \in BOOLEAN
TableOf(a, c, g, p, k, d, s) ==
  [accounts |-> a, categories |-> c, groups |-> g, payees |-> p, targets |-> k, dismissed |-> d, rows |-> s]
IsMap(f) == f = [x \in DOMAIN f |-> f[x]]
Shaped(t) ==
  /\ t = TableOf(t.accounts, t.categories, t.groups, t.payees, t.targets, t.dismissed, t.rows)
  /\ IsMap(t.accounts) /\ IsMap(t.categories) /\ IsMap(t.groups) /\ IsMap(t.payees) /\ IsMap(t.targets)
  /\ t.dismissed \in BOOLEAN
Filled(t) ==
  /\ \A id \in DOMAIN t.accounts : IsAccount(t.accounts[id])
  /\ \A id \in DOMAIN t.categories : IsCategory(t.categories[id])
  /\ \A id \in DOMAIN t.targets : t.targets[id].kind \in Kinds
  /\ \A row \in t.rows : row.amount \in Int

\* What ReferencesResolve says of any tables.
Resolved(t) ==
  /\ \A row \in t.rows : /\ row.account \in DOMAIN t.accounts \cup {NoRef}
                         /\ row.category \in DOMAIN t.categories \cup {NoRef}
                         /\ row.payee \in DOMAIN t.payees \cup {NoRef}
  /\ \A k \in DOMAIN t.targets : /\ t.targets[k].category \in DOMAIN t.categories
                                 /\ t.targets[k].kind.card \in DOMAIN t.accounts \cup {NoRef}
  /\ \A c \in DOMAIN t.categories : t.categories[c].group \in DOMAIN t.groups
  /\ \A p \in DOMAIN t.payees : t.payees[p].category \in DOMAIN t.categories \cup {NoRef}
Whole(t) == Shaped(t) /\ Filled(t) /\ Resolved(t)

\* One table is replaced.
LEMMA Replaced ==
  ASSUME NEW t, Shaped(t)
  PROVE  /\ \A f : [t EXCEPT !.accounts = f] =
                     TableOf(f, t.categories, t.groups, t.payees, t.targets, t.dismissed, t.rows)
         /\ \A f : [t EXCEPT !.categories = f] =
                     TableOf(t.accounts, f, t.groups, t.payees, t.targets, t.dismissed, t.rows)
         /\ \A f : [t EXCEPT !.groups = f] =
                     TableOf(t.accounts, t.categories, f, t.payees, t.targets, t.dismissed, t.rows)
         /\ \A f : [t EXCEPT !.payees = f] =
                     TableOf(t.accounts, t.categories, t.groups, f, t.targets, t.dismissed, t.rows)
         /\ \A f : [t EXCEPT !.targets = f] =
                     TableOf(t.accounts, t.categories, t.groups, t.payees, f, t.dismissed, t.rows)
         /\ \A d : [t EXCEPT !.dismissed = d] =
                     TableOf(t.accounts, t.categories, t.groups, t.payees, t.targets, d, t.rows)
         /\ \A s : [t EXCEPT !.rows = s] =
                     TableOf(t.accounts, t.categories, t.groups, t.payees, t.targets, t.dismissed, s)
<1>1. PICK a, c, g, p, k, d, s : t = TableOf(a, c, g, p, k, d, s)
  BY DEF Shaped
<1> QED
  BY <1>1 DEF TableOf

\* What whole tables are made of.
LEMMA MapsOf ==
  ASSUME NEW t, Whole(t)
  PROVE  IsMap(t.accounts) /\ IsMap(t.categories) /\ IsMap(t.groups) /\ IsMap(t.payees) /\ IsMap(t.targets)
BY DEF Whole, Shaped

\* An entry is written, or removed.
Added(g, f, id, x) ==
  /\ IsMap(g) /\ DOMAIN g = DOMAIN f \cup {id} /\ g[id] = x
  /\ \A i \in DOMAIN f : i # id => g[i] = f[i]
Removed(g, f, id) ==
  /\ IsMap(g) /\ DOMAIN g = DOMAIN f \ {id}
  /\ \A i \in DOMAIN f \ {id} : g[i] = f[i]

\* An entry written.
LEMMA PutIs ==
  ASSUME NEW f, IsMap(f), NEW id, NEW x, NEW g, g = Put(f, id, x)
  PROVE  /\ Added(g, f, id, x)
         /\ Drop(g, id) = Drop(f, id)
         /\ id \notin DOMAIN f => Drop(g, id) = f
<1>1. IsMap(g) /\ DOMAIN g = DOMAIN f \cup {id} /\ g[id] = x /\ \A i \in DOMAIN f : i # id => g[i] = f[i]
  BY DEF IsMap, Put
<1>2. DOMAIN g \ {id} = DOMAIN f \ {id}
  BY <1>1
<1>3. Drop(g, id) = Drop(f, id)
  BY <1>1, <1>2 DEF Drop, Restrict
<1>4. ASSUME id \notin DOMAIN f PROVE Drop(f, id) = f
  <2>1. DOMAIN f \ {id} = DOMAIN f
    BY <1>4
  <2> QED
    BY <2>1 DEF Drop, Restrict, IsMap
<1> QED
  BY <1>1, <1>3, <1>4 DEF Added

\* An entry written again.
LEMMA PutTwice ==
  ASSUME NEW f, NEW id, NEW x, NEW y
  PROVE  Put(Put(f, id, x), id, y) = Put(f, id, y)
<1>1. PICK g : g = Put(f, id, x)
  OBVIOUS
<1>2. DOMAIN g = DOMAIN f \cup {id} /\ \A i \in DOMAIN f : i # id => g[i] = f[i]
  BY <1>1 DEF Put
<1>3. Put(g, id, y) = Put(f, id, y)
  BY <1>2 DEF Put
<1> QED
  BY <1>1, <1>3

\* An entry removed, and one put back.
LEMMA DropIs ==
  ASSUME NEW f, IsMap(f), NEW id, NEW g, g = Drop(f, id)
  PROVE  /\ Removed(g, f, id)
         /\ id \in DOMAIN f => Put(f, id, f[id]) = f /\ Put(g, id, f[id]) = f
         /\ id \notin DOMAIN f => g = f
<1>1. IsMap(g) /\ DOMAIN g = DOMAIN f \ {id} /\ \A i \in DOMAIN f \ {id} : g[i] = f[i]
  BY DEF IsMap, Drop, Restrict
<1>2. ASSUME id \in DOMAIN f PROVE Put(f, id, f[id]) = f /\ Put(g, id, f[id]) = f
  <2>1. DOMAIN f \cup {id} = DOMAIN f /\ DOMAIN g \cup {id} = DOMAIN f
    BY <1>1, <1>2
  <2> QED
    BY <1>1, <2>1 DEF IsMap, Put
<1>3. ASSUME id \notin DOMAIN f PROVE g = f
  <2>1. DOMAIN f \ {id} = DOMAIN f
    BY <1>3
  <2> QED
    BY <2>1 DEF Drop, Restrict, IsMap
<1> QED
  BY <1>1, <1>2, <1>3 DEF Removed

\* What an entry written leaves of the table.
LEMMA Written ==
  ASSUME NEW f, IsMap(f), NEW id, NEW x
  PROVE  /\ IsMap(Put(f, id, x)) /\ DOMAIN Put(f, id, x) = DOMAIN f \cup {id} /\ Put(f, id, x)[id] = x
         /\ Drop(Put(f, id, x), id) = Drop(f, id)
<1>1. PICK g : g = Put(f, id, x)
  OBVIOUS
<1>2. Added(g, f, id, x) /\ Drop(g, id) = Drop(f, id)
  BY <1>1, PutIs
<1> QED
  BY <1>1, <1>2 DEF Added

\* A table with an entry written and then put back is what it was.
LEMMA WrittenBack ==
  ASSUME NEW f, IsMap(f), NEW id \in DOMAIN f, NEW x
  PROVE  Put(Put(f, id, x), id, f[id]) = f
<1>1. PICK old, g : old = f[id] /\ g = Drop(f, id)
  OBVIOUS
<1>2. Put(f, id, old) = f
  BY <1>1, DropIs
<1> QED
  BY <1>1, <1>2, PutTwice

\* Which arm executes a command.
LEMMA Arms ==
  ASSUME NEW t, NEW c
  PROVE  /\ c.entity = "account" => Apply(t, c) = AccountArm(t, c)
         /\ c.entity = "category" => Apply(t, c) = CategoryArm(t, c)
         /\ c.entity = "group" => Apply(t, c) = GroupArm(t, c)
         /\ c.entity = "payee" => Apply(t, c) = PayeeArm(t, c)
         /\ c.entity = "target" => Apply(t, c) = TargetArm(t, c)
         /\ c.entity = "schedule" => Apply(t, c) = ScheduleArm(t, c)
         /\ c.entity = "failure" => Apply(t, c) = DismissArm(t, c)
BY DEF Apply

\* The inverse of a command is a command.
LEMMA IsInverse ==
  ASSUME NEW entity, entity \notin {"none", "opaque"}, NEW op, NEW id, NEW value
  PROVE  /\ Command(entity, op, id, value) \notin {NoInverse, Opaque}
         /\ Command(entity, op, id, value).entity = entity /\ Command(entity, op, id, value).op = op
         /\ Command(entity, op, id, value).id = id /\ Command(entity, op, id, value).value = value
BY DEF Command, NoInverse, Opaque

\* The undo of a command takes it back, and the redo brings it again, as far as they are meant to.
Back(t, c, r) ==
  r.undo \notin {NoInverse, Opaque} =>
    \E undone \in Apply(r.tables, r.undo) :
      \/ c.entity = "target" /\ c.op = "Save" /\ c.id \in DOMAIN t.targets
      \/ /\ (c.entity = "account" /\ c.op = "Create") \/ undone.tables = t
         /\ \E redone \in Apply(undone.tables, RedoOf(c, undone.undo)) :
              (c.entity = "account" /\ c.op = "DeleteUnused") \/ redone.tables = r.tables

-----------------------------------------------------------------------------
(* Accounts *)

WithAccounts(t, f) == TableOf(f, t.categories, t.groups, t.payees, t.targets, t.dismissed, t.rows)
Typed(row, type) == [type |-> type, group |-> row.group, closed |-> row.closed, favorite |-> row.favorite]

\* An account with other columns is an account; the type stays what it was.
LEMMA AccountColumns ==
  ASSUME NEW row, IsAccount(row), NEW x
  PROVE  /\ [row EXCEPT !.type = x] = Typed(row, x)
         /\ IsAccount([row EXCEPT !.closed = x]) /\ [row EXCEPT !.closed = x].type = row.type
         /\ IsAccount([row EXCEPT !.favorite = x]) /\ [row EXCEPT !.favorite = x].type = row.type
         /\ IsAccount([row EXCEPT !.group = x]) /\ [row EXCEPT !.group = x].type = row.type
<1>1. PICK a, b, c, d : row = [type |-> a, group |-> b, closed |-> c, favorite |-> d]
  BY DEF IsAccount
<1>2. [row EXCEPT !.type = x] = [type |-> x, group |-> b, closed |-> c, favorite |-> d]
  BY <1>1
<1>3. [row EXCEPT !.closed = x] = [type |-> a, group |-> b, closed |-> x, favorite |-> d]
  BY <1>1
<1>4. [row EXCEPT !.favorite = x] = [type |-> a, group |-> b, closed |-> c, favorite |-> x]
  BY <1>1
<1>5. [row EXCEPT !.group = x] = [type |-> a, group |-> x, closed |-> c, favorite |-> d]
  BY <1>1
<1> QED
  BY <1>1, <1>2, <1>3, <1>4, <1>5 DEF IsAccount, Typed

\* More accounts, or the same, with columns of an account.
LEMMA AccountsGrow ==
  ASSUME NEW t, Whole(t), NEW id, NEW row, IsAccount(row), NEW u, u = WithAccounts(t, Put(t.accounts, id, row))
  PROVE  Whole(u)
<1>1. /\ u.accounts = Put(t.accounts, id, row) /\ u.categories = t.categories /\ u.groups = t.groups
      /\ u.payees = t.payees /\ u.targets = t.targets /\ u.dismissed = t.dismissed /\ u.rows = t.rows
      /\ u = TableOf(u.accounts, u.categories, u.groups, u.payees, u.targets, u.dismissed, u.rows)
  BY DEF WithAccounts, TableOf
<1>2. PICK f, g : f = t.accounts /\ g = Put(f, id, row)
  OBVIOUS
<1>3. Added(g, f, id, row)
  BY <1>2, MapsOf, PutIs
<1>4. Shaped(u)
  BY <1>1, <1>2, <1>3 DEF Shaped, Whole, Added
<1>5. Filled(u)
  BY <1>1, <1>2, <1>3 DEF Filled, Whole, Added
<1>6. Resolved(u)
  BY <1>1, <1>2, <1>3 DEF Resolved, Whole, Added
<1> QED
  BY <1>4, <1>5, <1>6 DEF Whole

\* The table of accounts is all that put_account writes, and the type is not written over.
LEMMA AccountPut ==
  ASSUME NEW t, Whole(t), NEW id, NEW row, IsAccount(row)
  PROVE  /\ id \notin DOMAIN t.accounts =>
              PutAccount(t, id, row) = WithAccounts(t, Put(t.accounts, id, row))
         /\ id \in DOMAIN t.accounts =>
              PutAccount(t, id, row) =
                WithAccounts(t, Put(t.accounts, id, Typed(row, t.accounts[id].type)))
<1>1. PICK f, type : f = t.accounts /\ type = f[id].type
  OBVIOUS
<1>2. [row EXCEPT !.type = type] = Typed(row, type)
  BY AccountColumns
<1>3. \A g : [t EXCEPT !.accounts = g] = WithAccounts(t, g)
  BY Replaced DEF Whole, WithAccounts
<1> QED
  BY <1>1, <1>2, <1>3 DEF PutAccount

\* The commands that change an account replace its row by another of its type.
LEMMA AccountChanged ==
  ASSUME NEW t, Whole(t), NEW c, c.entity = "account", c.id \in DOMAIN t.accounts,
         c.op \in {"Update", "Close", "Reopen", "SetFavorite", "MoveToGroup"},
         c.op = "Update" => IsAccount(c.value)
  PROVE  \E row : /\ IsAccount(row) /\ row.type = t.accounts[c.id].type
                  /\ c.op = "Update" => row = Typed(c.value, row.type)
                  /\ Apply(t, c) = Result(WithAccounts(t, Put(t.accounts, c.id, row)),
                                          Command("account", "Update", c.id, t.accounts[c.id]))
<1>1. PICK old : old = t.accounts[c.id] /\ IsAccount(old)
  BY DEF Whole, Filled
<1>2. PICK new : new = AccountChange(old, c)
  OBVIOUS
<1>3. IsAccount(new)
  BY <1>1, <1>2, AccountColumns DEF AccountChange
<1>4. PICK row : row = Typed(new, old.type)
  OBVIOUS
<1>5. IsAccount(row) /\ row.type = old.type
  BY <1>4 DEF Typed, IsAccount
<1>6. c.op = "Update" => new = c.value
  BY <1>2 DEF AccountChange
<1>7. PutAccount(t, c.id, new) = WithAccounts(t, Put(t.accounts, c.id, row))
  BY <1>1, <1>3, <1>4, AccountPut
<1>8. Apply(t, c) = Result(PutAccount(t, c.id, new), Command("account", "Update", c.id, old))
  BY <1>1, <1>2, Arms DEF AccountArm
<1> QED
  BY <1>1, <1>4, <1>5, <1>6, <1>7, <1>8

\* An account put back as it was.
LEMMA AccountRestored ==
  ASSUME NEW t, Whole(t), NEW id, id \in DOMAIN t.accounts, NEW row, IsAccount(row),
         row.type = t.accounts[id].type
  PROVE  Apply(t, Command("account", "Update", id, row)) =
           Result(WithAccounts(t, Put(t.accounts, id, row)), Command("account", "Update", id, t.accounts[id]))
<1>1. PICK c : c = Command("account", "Update", id, row)
  OBVIOUS
<1>2. c.entity = "account" /\ c.op = "Update" /\ c.id = id /\ c.value = row
  BY <1>1, IsInverse
<1>3. PICK new : /\ IsAccount(new) /\ new.type = t.accounts[id].type /\ new = Typed(row, new.type)
                 /\ Apply(t, c) = Result(WithAccounts(t, Put(t.accounts, id, new)),
                                         Command("account", "Update", id, t.accounts[id]))
  BY <1>2, AccountChanged
<1>4. new = row
  BY <1>3 DEF IsAccount, Typed
<1> QED
  BY <1>1, <1>3, <1>4
\* What an account command leaves is whole, and can be taken back.
LEMMA AccountsBack ==
  ASSUME NEW t, Whole(t), NEW c, c = Command("account", c.op, c.id, c.value),
         \/ c.op = "Create" /\ c.id \notin DOMAIN t.accounts /\ IsAccount(c.value)
         \/ c.op = "Update" /\ IsAccount(c.value)
         \/ c.op \in {"Close", "Reopen", "SetFavorite", "MoveToGroup", "DeleteUnused"},
         NEW r \in Apply(t, c)
  PROVE  Whole(r.tables) /\ Back(t, c, r)
<1> DEFINE id == c.id
           f == t.accounts
           u == r.tables
<1>1. c.entity = "account" /\ Apply(t, c) = AccountArm(t, c)
  BY Arms, IsInverse
<1>2. \A g : WithAccounts(t, g).accounts = g /\ WithAccounts(WithAccounts(t, g), f) = t
  BY DEF WithAccounts, TableOf, Whole, Shaped
<1>3. \A g, h : WithAccounts(WithAccounts(t, g), h) = WithAccounts(t, h)
  BY DEF WithAccounts, TableOf
<1>4. CASE c.op = "Create"
  <2>1. id \notin DOMAIN f /\ IsAccount(c.value)
    BY <1>4
  <2>2. r = [tables |-> PutAccount(t, id, c.value), undo |-> Command("account", "Close", id, NoRef)]
    BY <1>1, <1>4 DEF AccountArm, Result
  <2>3. u = WithAccounts(t, Put(f, id, c.value))
    BY <2>1, <2>2, AccountPut
  <2>4. Whole(u)
    BY <2>1, <2>3, AccountsGrow
  <2>5. u.accounts = Put(f, id, c.value) /\ id \in DOMAIN u.accounts /\ u.accounts[id] = c.value
    <3>1. Put(f, id, c.value)[id] = c.value /\ id \in DOMAIN Put(f, id, c.value)
      BY DEF Put
    <3> QED
      BY <1>2, <2>3, <3>1
  <2>6. PICK undo : undo = Command("account", "Close", id, NoRef) /\ undo = r.undo
    BY <2>2
  <2>7. undo.entity = "account" /\ undo.op = "Close" /\ undo.id = id
    BY <2>6, IsInverse
  <2>8. PICK row : /\ IsAccount(row) /\ row.type = u.accounts[id].type
                   /\ Apply(u, undo) = Result(WithAccounts(u, Put(u.accounts, id, row)),
                                              Command("account", "Update", id, u.accounts[id]))
    BY <2>4, <2>5, <2>7, AccountChanged
  <2>9. PICK v : v = WithAccounts(u, Put(u.accounts, id, row))
    OBVIOUS
  <2>10. /\ Whole(v) /\ v = WithAccounts(t, Put(f, id, row)) /\ v.accounts = Put(f, id, row)
         /\ id \in DOMAIN v.accounts /\ v.accounts[id].type = c.value.type
    <3>1. Whole(v)
      BY <2>4, <2>8, <2>9, AccountsGrow
    <3>2. Put(u.accounts, id, row) = Put(f, id, row)
      BY <2>5, PutTwice
    <3>3. v = WithAccounts(t, Put(f, id, row))
      BY <1>3, <2>3, <2>9, <3>2
    <3>4. v.accounts = Put(f, id, row)
      BY <1>2, <3>3
    <3>5. id \in DOMAIN Put(f, id, row) /\ Put(f, id, row)[id] = row
      BY DEF Put
    <3> QED
      BY <2>5, <2>8, <3>1, <3>3, <3>4, <3>5
  <2>11. PICK again : again = Command("account", "Update", id, c.value)
    OBVIOUS
  <2>12. RedoOf(c, again) = again
    BY <2>11, IsInverse DEF RedoOf
  <2>13. Apply(v, again) = Result(WithAccounts(v, Put(v.accounts, id, c.value)),
                                  Command("account", "Update", id, v.accounts[id]))
    BY <2>1, <2>10, <2>11, AccountRestored
  <2>14. WithAccounts(v, Put(v.accounts, id, c.value)) = u
    <3>1. Put(Put(f, id, row), id, c.value) = Put(f, id, c.value)
      BY PutTwice
    <3> QED
      BY <1>3, <2>3, <2>10, <3>1
  <2>15. \E redone \in Apply(v, RedoOf(c, again)) : redone.tables = u
    BY <2>12, <2>13, <2>14 DEF Result
  <2>16. Back(t, c, r)
    BY <1>1, <1>4, <2>5, <2>6, <2>8, <2>9, <2>11, <2>15 DEF Back, Result
  <2> QED
    BY <2>4, <2>16
<1>5. CASE c.op = "DeleteUnused"
  <2>1. id \in DOMAIN f /\ ~AccountIsUsed(t, id)
    BY <1>1, <1>5 DEF AccountArm, Rejected
  <2>2. PICK row : row = f[id] /\ IsAccount(row)
    BY <2>1 DEF Whole, Filled
  <2>3. r = [tables |-> [t EXCEPT !.accounts = Drop(@, id)], undo |-> Command("account", "Create", id, row)]
    BY <1>1, <1>5, <2>1, <2>2 DEF AccountArm, Result, Rejected
  <2>4. u = WithAccounts(t, Drop(f, id))
    BY <2>3, Replaced DEF Whole, WithAccounts
  <2>5. /\ Removed(Drop(f, id), f, id)
        /\ Put(Drop(f, id), id, row) = f
    BY <2>1, <2>2, MapsOf, DropIs
  <2>6. Whole(u)
    <3>1. /\ u.accounts = Drop(f, id) /\ u.categories = t.categories /\ u.groups = t.groups
          /\ u.payees = t.payees /\ u.targets = t.targets /\ u.dismissed = t.dismissed /\ u.rows = t.rows
          /\ u = TableOf(u.accounts, u.categories, u.groups, u.payees, u.targets, u.dismissed, u.rows)
      BY <2>4 DEF WithAccounts, TableOf
    <3>2. Shaped(u)
      BY <2>5, <3>1 DEF Shaped, Whole, Removed
    <3>3. Filled(u)
      BY <2>5, <3>1 DEF Filled, Whole, Removed
    <3>4. Resolved(u)
      BY <2>1, <2>5, <3>1 DEF Resolved, Whole, Removed, AccountIsUsed
    <3> QED
      BY <3>2, <3>3, <3>4 DEF Whole
  <2>7. u.accounts = Drop(f, id) /\ id \notin DOMAIN u.accounts
    BY <1>2, <2>4, <2>5 DEF Removed
  <2>8. PICK undo : undo = Command("account", "Create", id, row) /\ undo = r.undo
    BY <2>3
  <2>9. undo.entity = "account" /\ undo.op = "Create" /\ undo.id = id /\ undo.value = row
    BY <2>8, IsInverse
  <2>10. Apply(u, undo) = Result(PutAccount(u, id, row), Command("account", "Close", id, NoRef))
    BY <2>9, Arms DEF AccountArm
  <2>11. PutAccount(u, id, row) = t
    <3>1. PutAccount(u, id, row) = WithAccounts(u, Put(u.accounts, id, row))
      BY <2>2, <2>6, <2>7, AccountPut
    <3> QED
      BY <1>2, <2>4, <2>5, <2>7, <3>1
  <2>12. PICK again : again = Command("account", "Close", id, NoRef)
    OBVIOUS
  <2>13. again.entity = "account" /\ again.op = "Close" /\ again.id = id /\ RedoOf(c, again) = again
    BY <2>12, IsInverse DEF RedoOf
  <2>14. \E redone : redone \in Apply(t, again)
    <3>1. PICK row2 : Apply(t, again) = Result(WithAccounts(t, Put(t.accounts, id, row2)),
                                               Command("account", "Update", id, t.accounts[id]))
      BY <2>1, <2>13, AccountChanged
    <3> QED
      BY <3>1 DEF Result
  <2>15. Back(t, c, r)
    BY <1>1, <1>5, <2>8, <2>10, <2>11, <2>12, <2>13, <2>14 DEF Back, Result
  <2> QED
    BY <2>6, <2>15
<1>6. CASE c.op \in {"Update", "Close", "Reopen", "SetFavorite", "MoveToGroup"}
  <2>1. id \in DOMAIN f
    BY <1>1, <1>6 DEF AccountArm, Rejected
  <2>2. PICK old : old = f[id] /\ IsAccount(old)
    BY <2>1 DEF Whole, Filled
  <2>3. c.op = "Update" => IsAccount(c.value)
    OBVIOUS
  <2>4. PICK row : /\ IsAccount(row) /\ row.type = old.type
                   /\ Apply(t, c) = Result(WithAccounts(t, Put(f, id, row)), Command("account", "Update", id, old))
    BY <1>1, <1>6, <2>1, <2>2, <2>3, AccountChanged
  <2>5. u = WithAccounts(t, Put(f, id, row)) /\ r.undo = Command("account", "Update", id, old)
    BY <2>4 DEF Result
  <2>6. Whole(u)
    BY <2>4, <2>5, AccountsGrow
  <2>7. /\ u.accounts = Put(f, id, row) /\ id \in DOMAIN u.accounts /\ u.accounts[id] = row
        /\ Put(u.accounts, id, old) = f
    <3>1. Put(f, id, row)[id] = row /\ id \in DOMAIN Put(f, id, row)
      BY DEF Put
    <3>2. Put(Put(f, id, row), id, f[id]) = f
      BY <2>1, MapsOf, WrittenBack
    <3>3. u.accounts = Put(f, id, row)
      BY <1>2, <2>5
    <3> QED
      BY <2>2, <3>1, <3>2, <3>3
  <2>8. Apply(u, r.undo) = Result(WithAccounts(u, Put(u.accounts, id, old)), Command("account", "Update", id, row))
    BY <2>2, <2>4, <2>5, <2>6, <2>7, AccountRestored
  <2>9. WithAccounts(u, Put(u.accounts, id, old)) = t
    BY <1>2, <2>5, <2>7
  <2>10. PICK again : again = Command("account", "Update", id, row)
    OBVIOUS
  <2>11. RedoOf(c, again) = again
    BY <2>10, IsInverse DEF RedoOf
  <2>12. Apply(t, again) = Result(u, Command("account", "Update", id, old))
    BY <2>1, <2>2, <2>4, <2>5, <2>10, AccountRestored
  <2>13. Back(t, c, r)
    <3>1. PICK undone \in Apply(u, r.undo) : undone.tables = t /\ undone.undo = again
      BY <2>8, <2>9, <2>10 DEF Result
    <3>2. Apply(undone.tables, RedoOf(c, undone.undo)) = Result(u, Command("account", "Update", id, old))
      BY <2>11, <2>12, <3>1
    <3>3. \E redone \in Apply(undone.tables, RedoOf(c, undone.undo)) : redone.tables = u
      BY <3>2 DEF Result
    <3> QED
      BY <3>1, <3>3 DEF Back
  <2> QED
    BY <2>6, <2>13
<1> QED
  BY <1>4, <1>5, <1>6
-----------------------------------------------------------------------------
(* Categories, groups and payees *)

WithCategories(t, f) == TableOf(t.accounts, f, t.groups, t.payees, t.targets, t.dismissed, t.rows)

\* put_category writes a category of a group that is there, and nothing else.
LEMMA CategoryPut ==
  ASSUME NEW t, Whole(t), NEW id, NEW row, IsCategory(row), NEW u, u = PutCategory(t, id, row)
  PROVE  /\ Whole(u)
         /\ row.group \in DOMAIN t.groups => u = WithCategories(t, Put(t.categories, id, row))
         /\ row.group \notin DOMAIN t.groups => u = t
<1>1. CASE row.group \notin DOMAIN t.groups
  BY <1>1 DEF PutCategory
<1>2. CASE row.group \in DOMAIN t.groups
  <2>1. u = WithCategories(t, Put(t.categories, id, row))
    BY <1>2, Replaced DEF PutCategory, Whole, WithCategories
  <2>2. /\ u.accounts = t.accounts /\ u.categories = Put(t.categories, id, row) /\ u.groups = t.groups
        /\ u.payees = t.payees /\ u.targets = t.targets /\ u.dismissed = t.dismissed /\ u.rows = t.rows
        /\ u = TableOf(u.accounts, u.categories, u.groups, u.payees, u.targets, u.dismissed, u.rows)
    BY <2>1 DEF WithCategories, TableOf
  <2>3. PICK f, g : f = t.categories /\ g = Put(f, id, row)
    OBVIOUS
  <2>4. Added(g, f, id, row)
    BY <2>3, MapsOf, PutIs
  <2>5. Shaped(u)
    BY <2>2, <2>3, <2>4 DEF Shaped, Whole, Added
  <2>6. Filled(u)
    BY <2>2, <2>3, <2>4 DEF Filled, Whole, Added
  <2>7. Resolved(u)
    BY <1>2, <2>2, <2>3, <2>4 DEF Resolved, Whole, Added
  <2> QED
    BY <1>2, <2>1, <2>5, <2>6, <2>7 DEF Whole
<1> QED
  BY <1>1, <1>2

\* What a category command leaves is whole, and can be taken back.
LEMMA CategoriesBack ==
  ASSUME NEW t, Whole(t), NEW c, c = Command("category", c.op, c.id, c.value),
         c.op = "Delete" \/ (c.op = "Update" /\ IsCategory(c.value)),
         NEW r \in Apply(t, c)
  PROVE  Whole(r.tables) /\ Back(t, c, r)
<1> DEFINE id == c.id
           f == t.categories
           u == r.tables
<1>1. c.entity = "category" /\ Apply(t, c) = CategoryArm(t, c) /\ ~CategoryIsManaged(t, id)
  BY Arms, IsInverse DEF CategoryArm, Rejected
<1>2. \A g : WithCategories(t, g).categories = g /\ WithCategories(t, g).groups = t.groups
             /\ WithCategories(t, g).rows = t.rows /\ WithCategories(WithCategories(t, g), f) = t
  BY DEF WithCategories, TableOf, Whole, Shaped
<1>3. CASE c.op = "Update"
  <2>1. IsCategory(c.value)
    BY <1>3
  <2>2. /\ u = PutCategory(t, id, c.value)
        /\ id \in DOMAIN f => r.undo = Command("category", "Update", id, f[id])
        /\ id \notin DOMAIN f => r.undo = NoInverse
    BY <1>1, <1>3 DEF CategoryArm, Result
  <2>3. Whole(u)
    BY <2>1, <2>2, CategoryPut
  <2>4. ASSUME id \in DOMAIN f PROVE Back(t, c, r)
    <3>1. PICK old : old = f[id] /\ IsCategory(old) /\ old.group \in DOMAIN t.groups
      BY <2>4 DEF Whole, Filled, Resolved
    <3>2. PICK new : /\ IsCategory(new) /\ new.group \in DOMAIN t.groups
                     /\ u = WithCategories(t, Put(f, id, new))
                     /\ c.value.group \in DOMAIN t.groups => new = c.value
      <4>1. CASE c.value.group \in DOMAIN t.groups
        BY <2>1, <2>2, <4>1, CategoryPut
      <4>2. CASE c.value.group \notin DOMAIN t.groups
        <5>1. u = t
          BY <2>1, <2>2, <4>2, CategoryPut
        <5>2. Put(f, id, old) = f
          BY <2>4, <3>1, MapsOf, DropIs
        <5>3. WithCategories(t, f) = t
          BY DEF WithCategories, Whole, Shaped
        <5> QED
          BY <3>1, <4>2, <5>1, <5>2, <5>3
      <4> QED
        BY <4>1, <4>2
    <3>3. /\ u.categories = Put(f, id, new) /\ id \in DOMAIN u.categories /\ u.categories[id] = new
          /\ Put(u.categories, id, old) = f /\ u.groups = t.groups /\ u.rows = t.rows
      <4>1. Put(f, id, new)[id] = new /\ id \in DOMAIN Put(f, id, new)
        BY DEF Put
      <4>2. Put(Put(f, id, new), id, f[id]) = f
        BY <2>4, MapsOf, WrittenBack
      <4>3. u.categories = Put(f, id, new) /\ u.groups = t.groups /\ u.rows = t.rows
        BY <1>2, <3>2
      <4> QED
        BY <3>1, <4>1, <4>2, <4>3
    <3>4. PICK undo : undo = Command("category", "Update", id, old) /\ undo = r.undo
      BY <2>2, <2>4, <3>1
    <3>5. PICK again : again = Command("category", "Update", id, new)
      OBVIOUS
    <3>6. Apply(u, undo) = Result(PutCategory(u, id, old), again)
      <4>1. undo.entity = "category" /\ undo.op = "Update" /\ undo.id = id /\ undo.value = old
        BY <3>4, IsInverse
      <4>2. ~CategoryIsManaged(u, id)
        BY <1>1, <3>3 DEF CategoryIsManaged
      <4> QED
        BY <3>3, <3>5, <4>1, <4>2, Arms DEF CategoryArm
    <3>7. PutCategory(u, id, old) = t
      <4>1. PutCategory(u, id, old) = WithCategories(u, Put(u.categories, id, old))
        BY <2>3, <3>1, <3>3, CategoryPut
      <4> QED
        BY <1>2, <3>2, <3>3, <4>1
    <3>8. RedoOf(c, again) = again
      BY <3>5, IsInverse DEF RedoOf
    <3>9. \E redone \in Apply(t, again) : redone.tables = u
      <4>1. again.entity = "category" /\ again.op = "Update" /\ again.id = id /\ again.value = new
        BY <3>5, IsInverse
      <4>2. Apply(t, again) = Result(PutCategory(t, id, new), Command("category", "Update", id, old))
        BY <1>1, <2>4, <3>1, <4>1, Arms DEF CategoryArm
      <4>3. PutCategory(t, id, new) = u
        BY <3>2, CategoryPut
      <4> QED
        BY <4>2, <4>3 DEF Result
    <3> QED
      BY <3>4, <3>6, <3>7, <3>8, <3>9 DEF Back, Result
  <2> QED
    BY <2>2, <2>3, <2>4 DEF Back
<1>4. CASE c.op = "Delete"
  <2>1. /\ ~CategoryIsReferenced(t, id) /\ id \in DOMAIN f
        /\ r = [tables |-> [t EXCEPT !.categories = Drop(@, id)], undo |-> Opaque]
    BY <1>1, <1>4 DEF CategoryArm, Result, Rejected
  <2>2. u = WithCategories(t, Drop(f, id))
    BY <2>1, Replaced DEF Whole, WithCategories
  <2>3. Removed(Drop(f, id), f, id)
    BY MapsOf, DropIs
  <2>4. /\ u.accounts = t.accounts /\ u.categories = Drop(f, id) /\ u.groups = t.groups
        /\ u.payees = t.payees /\ u.targets = t.targets /\ u.dismissed = t.dismissed /\ u.rows = t.rows
        /\ u = TableOf(u.accounts, u.categories, u.groups, u.payees, u.targets, u.dismissed, u.rows)
    BY <2>2 DEF WithCategories, TableOf
  <2>5. Shaped(u)
    BY <2>3, <2>4 DEF Shaped, Whole, Removed
  <2>6. Filled(u)
    BY <2>3, <2>4 DEF Filled, Whole, Removed
  <2>7. Resolved(u)
    BY <2>1, <2>3, <2>4 DEF Resolved, Whole, Removed, CategoryIsReferenced
  <2>8. Back(t, c, r)
    BY <2>1 DEF Back
  <2> QED
    BY <2>5, <2>6, <2>7, <2>8 DEF Whole
<1> QED
  BY <1>3, <1>4

\* A group is written; nothing takes it back.
LEMMA GroupsBack ==
  ASSUME NEW t, Whole(t), NEW c, c = Command("group", c.op, c.id, c.value), NEW r \in Apply(t, c)
  PROVE  Whole(r.tables) /\ Back(t, c, r)
<1> DEFINE f == t.groups
           u == r.tables
<1>1. r = [tables |-> [t EXCEPT !.groups = Put(@, c.id, c.value)], undo |-> NoInverse]
  BY Arms, IsInverse DEF GroupArm, Result
<1>2. /\ IsMap(Put(f, c.id, c.value)) /\ DOMAIN Put(f, c.id, c.value) = DOMAIN f \cup {c.id}
  BY MapsOf, Written, Zenon
<1>3. u = TableOf(t.accounts, t.categories, Put(f, c.id, c.value), t.payees, t.targets, t.dismissed, t.rows)
  BY <1>1, Replaced DEF Whole
<1>4. /\ u.accounts = t.accounts /\ u.categories = t.categories /\ u.groups = Put(f, c.id, c.value)
      /\ u.payees = t.payees /\ u.targets = t.targets /\ u.dismissed = t.dismissed /\ u.rows = t.rows
      /\ u = TableOf(u.accounts, u.categories, u.groups, u.payees, u.targets, u.dismissed, u.rows)
  BY <1>3 DEF TableOf
<1>5. Shaped(u)
  BY <1>2, <1>4 DEF Shaped, Whole
<1>6. Filled(u)
  BY <1>4 DEF Filled, Whole
<1>7. Resolved(u)
  BY <1>2, <1>4 DEF Resolved, Whole
<1> QED
  BY <1>1, <1>5, <1>6, <1>7 DEF Whole, Back
WithPayees(t, f) == TableOf(t.accounts, t.categories, t.groups, f, t.targets, t.dismissed, t.rows)

\* A payee is written, with a default category that is there or none.
LEMMA PayeePut ==
  ASSUME NEW t, Whole(t), NEW id, NEW row, row.category \in DOMAIN t.categories \cup {NoRef},
         NEW u, u = PutPayee(t, id, row)
  PROVE  Whole(u) /\ u = WithPayees(t, Put(t.payees, id, row))
<1>1. u = WithPayees(t, Put(t.payees, id, row))
  BY Replaced DEF PutPayee, Whole, WithPayees
<1>2. /\ u.accounts = t.accounts /\ u.categories = t.categories /\ u.groups = t.groups
      /\ u.payees = Put(t.payees, id, row) /\ u.targets = t.targets /\ u.dismissed = t.dismissed
      /\ u.rows = t.rows
      /\ u = TableOf(u.accounts, u.categories, u.groups, u.payees, u.targets, u.dismissed, u.rows)
  BY <1>1 DEF WithPayees, TableOf
<1>3. PICK f, g : f = t.payees /\ g = Put(f, id, row)
  OBVIOUS
<1>4. Added(g, f, id, row)
  BY <1>3, MapsOf, PutIs
<1>5. Shaped(u)
  BY <1>2, <1>3, <1>4 DEF Shaped, Whole, Added
<1>6. Filled(u)
  BY <1>2 DEF Filled, Whole, Added
<1>7. Resolved(u)
  BY <1>2, <1>3, <1>4 DEF Resolved, Whole, Added
<1> QED
  BY <1>1, <1>5, <1>6, <1>7 DEF Whole

\* What a payee command leaves is whole, and can be taken back.
LEMMA PayeesBack ==
  ASSUME NEW t, Whole(t), NEW c, c = Command("payee", c.op, c.id, c.value),
         c.op \in {"Delete", "Update"}, NEW r \in Apply(t, c)
  PROVE  Whole(r.tables) /\ Back(t, c, r)
<1> DEFINE id == c.id
           f == t.payees
           u == r.tables
<1>1. c.entity = "payee" /\ Apply(t, c) = PayeeArm(t, c)
  BY Arms, IsInverse
<1>2. \A g : WithPayees(t, g).payees = g /\ WithPayees(t, g).categories = t.categories
             /\ WithPayees(WithPayees(t, g), f) = t
  BY DEF WithPayees, TableOf, Whole, Shaped
<1>3. CASE c.op = "Update"
  <2>1. c.value.category \in DOMAIN t.categories \cup {NoRef}
    BY <1>1, <1>3 DEF PayeeArm, Rejected
  <2>2. /\ u = PutPayee(t, id, c.value)
        /\ id \in DOMAIN f => r.undo = Command("payee", "Update", id, f[id])
        /\ id \notin DOMAIN f => r.undo = NoInverse
    BY <1>1, <1>3, <2>1 DEF PayeeArm, Result, Rejected
  <2>3. Whole(u) /\ u = WithPayees(t, Put(f, id, c.value))
    BY <2>1, <2>2, PayeePut
  <2>4. ASSUME id \in DOMAIN f PROVE Back(t, c, r)
    <3>1. PICK old : old = f[id] /\ old.category \in DOMAIN t.categories \cup {NoRef}
      BY <2>4 DEF Whole, Resolved
    <3>2. /\ u.payees = Put(f, id, c.value) /\ id \in DOMAIN u.payees /\ u.payees[id] = c.value
          /\ Put(u.payees, id, old) = f /\ u.categories = t.categories
      <4>1. Put(f, id, c.value)[id] = c.value /\ id \in DOMAIN Put(f, id, c.value)
        BY DEF Put
      <4>2. Put(Put(f, id, c.value), id, f[id]) = f
        BY <2>4, MapsOf, WrittenBack
      <4>3. u.payees = Put(f, id, c.value) /\ u.categories = t.categories
        BY <1>2, <2>3
      <4> QED
        BY <3>1, <4>1, <4>2, <4>3
    <3>3. PICK undo : undo = Command("payee", "Update", id, old) /\ undo = r.undo
      BY <2>2, <2>4, <3>1
    <3>4. PICK again : again = Command("payee", "Update", id, c.value)
      OBVIOUS
    <3>5. Apply(u, undo) = Result(PutPayee(u, id, old), again)
      <4>1. undo.entity = "payee" /\ undo.op = "Update" /\ undo.id = id /\ undo.value = old
        BY <3>3, IsInverse
      <4>2. Apply(u, undo) = PayeeArm(u, undo)
        BY <4>1, Arms
      <4>3. old.category \in DOMAIN u.categories \cup {NoRef}
        BY <3>1, <3>2
      <4>4. PayeeArm(u, undo) = Result(PutPayee(u, id, old), Command("payee", "Update", id, u.payees[id]))
        BY <3>2, <4>1, <4>3 DEF PayeeArm
      <4> QED
        BY <3>2, <3>4, <4>2, <4>4
    <3>6. PutPayee(u, id, old) = t
      <4>1. PutPayee(u, id, old) = WithPayees(u, Put(u.payees, id, old))
        BY <2>3, <3>1, <3>2, PayeePut
      <4> QED
        BY <1>2, <2>3, <3>2, <4>1
    <3>7. RedoOf(c, again) = again
      BY <3>4, IsInverse DEF RedoOf
    <3>8. \E redone \in Apply(t, again) : redone.tables = u
      <4>1. again.entity = "payee" /\ again.op = "Update" /\ again.id = id /\ again.value = c.value
        BY <3>4, IsInverse
      <4>2. Apply(t, again) = Result(PutPayee(t, id, c.value), Command("payee", "Update", id, old))
        BY <2>1, <2>4, <3>1, <4>1, Arms DEF PayeeArm
      <4> QED
        BY <2>2, <4>2 DEF Result
    <3> QED
      BY <3>3, <3>5, <3>6, <3>7, <3>8 DEF Back, Result
  <2> QED
    BY <2>2, <2>3, <2>4 DEF Back
<1>4. CASE c.op = "Delete"
  <2>1. /\ ~PayeeIsReferenced(t, id)
        /\ r = [tables |-> [t EXCEPT !.payees = Drop(@, id)], undo |-> Opaque]
    BY <1>1, <1>4 DEF PayeeArm, Result, Rejected
  <2>2. u = WithPayees(t, Drop(f, id))
    BY <2>1, Replaced DEF Whole, WithPayees
  <2>3. Removed(Drop(f, id), f, id)
    BY MapsOf, DropIs
  <2>4. /\ u.accounts = t.accounts /\ u.categories = t.categories /\ u.groups = t.groups
        /\ u.payees = Drop(f, id) /\ u.targets = t.targets /\ u.dismissed = t.dismissed /\ u.rows = t.rows
        /\ u = TableOf(u.accounts, u.categories, u.groups, u.payees, u.targets, u.dismissed, u.rows)
    BY <2>2 DEF WithPayees, TableOf
  <2>5. Shaped(u)
    BY <2>3, <2>4 DEF Shaped, Whole, Removed
  <2>6. Filled(u)
    BY <2>4 DEF Filled, Whole, Removed
  <2>7. Resolved(u)
    BY <2>1, <2>3, <2>4 DEF Resolved, Whole, Removed, PayeeIsReferenced
  <2>8. Back(t, c, r)
    BY <2>1 DEF Back
  <2> QED
    BY <2>5, <2>6, <2>7, <2>8 DEF Whole
<1> QED
  BY <1>3, <1>4

-----------------------------------------------------------------------------
(* Targets, schedules and the inbox *)

WithTargets(t, f) == TableOf(t.accounts, t.categories, t.groups, t.payees, f, t.dismissed, t.rows)

\* What a target command leaves is whole, and can be taken back unless it edits a target.
LEMMA TargetsBack ==
  ASSUME NEW t, Whole(t), NEW c, c = Command("target", c.op, c.id, c.value),
         c.op = "Delete" \/ (c.op = "Save" /\ c.value.kind \in Kinds), NEW r \in Apply(t, c)
  PROVE  /\ Whole(r.tables) /\ Back(t, c, r)
         /\ c.op = "Delete" => r.tables.targets = Drop(t.targets, c.id)
<1> DEFINE id == c.id
           f == t.targets
           u == r.tables
<1>1. c.entity = "target" /\ Apply(t, c) = TargetArm(t, c)
  BY Arms, IsInverse
<1>2. \A g : WithTargets(t, g).targets = g
  BY DEF WithTargets, TableOf
<1>3. \A g : /\ WithTargets(t, g).accounts = t.accounts /\ WithTargets(t, g).categories = t.categories
             /\ WithTargets(t, g).groups = t.groups /\ WithTargets(t, g).payees = t.payees
             /\ WithTargets(t, g).dismissed = t.dismissed /\ WithTargets(t, g).rows = t.rows
  BY DEF WithTargets, TableOf
<1>4. \A g : WithTargets(WithTargets(t, g), f) = t
  BY DEF WithTargets, TableOf, Whole, Shaped
<1>5. CASE c.op = "Save"
  <2>1. /\ c.value.kind \in Kinds
        /\ c.value.kind.card \in DOMAIN t.accounts \cup {NoRef}
        /\ u = PutTarget(t, id, c.value) /\ r.undo = Command("target", "Delete", id, NoRef)
    BY <1>1, <1>5 DEF TargetArm, Result, Rejected
  <2>2. PICK g : /\ u = WithTargets(t, g) /\ IsMap(g)
                 /\ g = f \/ (g = Put(f, id, c.value) /\ c.value.category \in DOMAIN t.categories)
    <3>1. CASE c.value.category \in DOMAIN t.categories
      <4>1. u = WithTargets(t, Put(f, id, c.value))
        BY <2>1, <3>1, Replaced DEF PutTarget, Whole, WithTargets
      <4>2. IsMap(Put(f, id, c.value))
        BY MapsOf, Written, Zenon
      <4> QED
        BY <3>1, <4>1, <4>2
    <3>2. CASE c.value.category \notin DOMAIN t.categories
      <4>1. u = WithTargets(t, f)
        BY <2>1, <3>2 DEF PutTarget, Whole, Shaped, WithTargets
      <4> QED
        BY <4>1 DEF Whole, Shaped
    <3> QED
      BY <3>1, <3>2
  <2>3. /\ Added(Put(f, id, c.value), f, id, c.value)
        /\ id \notin DOMAIN f => Drop(f, id) = f /\ Drop(Put(f, id, c.value), id) = f
    BY MapsOf, PutIs, DropIs
  <2>4. Shaped(u)
    <3>1. u = TableOf(u.accounts, u.categories, u.groups, u.payees, u.targets, u.dismissed, u.rows)
      BY <2>2 DEF WithTargets, TableOf
    <3> QED
      BY <1>2, <1>3, <2>2, <3>1 DEF Shaped, Whole, Added
  <2>5. Filled(u)
    BY <1>2, <1>3, <2>1, <2>2, <2>3 DEF Filled, Whole, Added
  <2>6. Resolved(u)
    BY <1>2, <1>3, <2>1, <2>2, <2>3 DEF Resolved, Whole, Added
  <2>7. PICK undo : undo = Command("target", "Delete", id, NoRef) /\ undo = r.undo
    BY <2>1
  <2>8. undo.entity = "target" /\ undo.op = "Delete" /\ undo.id = id
    BY <2>7, IsInverse
  <2>9. Apply(u, undo) = Result(WithTargets(u, Drop(g, id)), NoInverse)
    <3>1. [u EXCEPT !.targets = Drop(g, id)] = WithTargets(u, Drop(g, id))
      BY <2>4, Replaced DEF WithTargets
    <3>2. u.targets = g
      BY <1>2, <2>2
    <3> QED
      BY <2>8, <3>1, <3>2, Arms DEF TargetArm
  <2>10. Back(t, c, r)
    <3>1. CASE id \in DOMAIN f
      BY <1>1, <1>5, <2>7, <2>9, <3>1 DEF Back, Result
    <3>2. CASE id \notin DOMAIN f
      <4>1. Drop(g, id) = f
        BY <2>2, <2>3, <3>2
      <4>2. WithTargets(u, Drop(g, id)) = t
        BY <1>4, <2>2, <4>1
      <4>3. RedoOf(c, NoInverse) = c
        BY DEF RedoOf
      <4> QED
        BY <2>7, <2>9, <4>2, <4>3 DEF Back, Result
    <3> QED
      BY <3>1, <3>2
  <2> QED
    BY <1>5, <2>4, <2>5, <2>6, <2>10 DEF Whole
<1>6. CASE c.op = "Delete"
  <2>1. r = [tables |-> [t EXCEPT !.targets = Drop(@, id)], undo |-> NoInverse]
    BY <1>1, <1>6 DEF TargetArm, Result
  <2>2. u = WithTargets(t, Drop(f, id))
    BY <2>1, Replaced DEF Whole, WithTargets
  <2>3. Removed(Drop(f, id), f, id)
    BY MapsOf, DropIs
  <2>4. Shaped(u)
    <3>1. u = TableOf(u.accounts, u.categories, u.groups, u.payees, u.targets, u.dismissed, u.rows)
      BY <2>2 DEF WithTargets, TableOf
    <3> QED
      BY <1>2, <1>3, <2>2, <2>3, <3>1 DEF Shaped, Whole, Removed
  <2>5. Filled(u)
    BY <1>2, <1>3, <2>2, <2>3 DEF Filled, Whole, Removed
  <2>6. Resolved(u)
    BY <1>2, <1>3, <2>2, <2>3 DEF Resolved, Whole, Removed
  <2>7. Back(t, c, r)
    BY <2>1 DEF Back
  <2> QED
    BY <1>2, <2>2, <2>4, <2>5, <2>6, <2>7 DEF Whole
<1> QED
  BY <1>5, <1>6

\* A schedule is deleted, or the failures of the inbox dismissed or brought back.
LEMMA OthersBack ==
  ASSUME NEW t, Whole(t), NEW c, c.entity \in {"schedule", "failure"}, NEW r \in Apply(t, c)
  PROVE  Whole(r.tables) /\ Back(t, c, r)
<1> DEFINE u == r.tables
<1>1. CASE c.entity = "schedule"
  <2>1. PICK s : s \subseteq t.rows /\ r = [tables |-> [t EXCEPT !.rows = s], undo |-> NoInverse]
    BY <1>1, Arms DEF ScheduleArm, Result
  <2>2. u = TableOf(t.accounts, t.categories, t.groups, t.payees, t.targets, t.dismissed, s)
    BY <2>1, Replaced DEF Whole
  <2>3. /\ u.accounts = t.accounts /\ u.categories = t.categories /\ u.groups = t.groups
        /\ u.payees = t.payees /\ u.targets = t.targets /\ u.dismissed = t.dismissed /\ u.rows = s
        /\ u = TableOf(u.accounts, u.categories, u.groups, u.payees, u.targets, u.dismissed, u.rows)
    BY <2>2 DEF TableOf
  <2>4. Shaped(u)
    BY <2>3 DEF Shaped, Whole
  <2>5. Filled(u)
    BY <2>1, <2>3 DEF Filled, Whole
  <2>6. Resolved(u)
    BY <2>1, <2>3 DEF Resolved, Whole
  <2> QED
    BY <2>1, <2>4, <2>5, <2>6 DEF Whole, Back
<1>2. CASE c.entity = "failure"
  <2>1. \A v : Apply(v, c) = {[tables |-> [v EXCEPT !.dismissed = ~@], undo |-> c]}
    BY <1>2, Arms DEF DismissArm, ToggleFailureDismissal, Result
  <2>2. r = [tables |-> [t EXCEPT !.dismissed = ~@], undo |-> c]
    BY <2>1
  <2>3. u = TableOf(t.accounts, t.categories, t.groups, t.payees, t.targets, ~t.dismissed, t.rows)
    BY <2>2, Replaced DEF Whole
  <2>4. /\ u.accounts = t.accounts /\ u.categories = t.categories /\ u.groups = t.groups
        /\ u.payees = t.payees /\ u.targets = t.targets /\ u.dismissed = (~t.dismissed) /\ u.rows = t.rows
        /\ u = TableOf(u.accounts, u.categories, u.groups, u.payees, u.targets, u.dismissed, u.rows)
    BY <2>3 DEF TableOf
  <2>5. Shaped(u)
    BY <2>4 DEF Shaped, Whole
  <2>6. Filled(u)
    BY <2>4 DEF Filled, Whole
  <2>7. Resolved(u)
    BY <2>4 DEF Resolved, Whole
  <2>8. [u EXCEPT !.dismissed = ~@] = t
    <3>1. (~~t.dismissed) = t.dismissed
      BY DEF Whole, Shaped
    <3>2. [u EXCEPT !.dismissed = ~@] = TableOf(u.accounts, u.categories, u.groups, u.payees, u.targets, ~u.dismissed, u.rows)
      BY <2>5, Replaced
    <3> QED
      BY <2>4, <3>1, <3>2 DEF Whole, Shaped
  <2>9. RedoOf(c, c) = c
    BY DEF RedoOf
  <2>10. Back(t, c, r)
    <3>1. PICK undone \in Apply(u, c) : undone = [tables |-> t, undo |-> c]
      BY <2>1, <2>8
    <3>2. undone.tables = t /\ RedoOf(c, undone.undo) = c /\ r.undo = c
      BY <2>2, <2>9, <3>1
    <3>3. \E redone \in Apply(t, c) : redone.tables = u
      BY <2>1, <2>2
    <3> QED
      BY <3>1, <3>2, <3>3 DEF Back
  <2> QED
    BY <2>5, <2>6, <2>7, <2>10 DEF Whole
<1> QED
  BY <1>1, <1>2
-----------------------------------------------------------------------------
(* The commands of the screens, and what they leave *)

\* The commands the screens send about tables t.
Sent(t, c) ==
  /\ c = Command(c.entity, c.op, c.id, c.value)
  /\ \/ /\ c.entity = "account"
        /\ \/ c.op = "Create" /\ c.id \notin DOMAIN t.accounts /\ IsAccount(c.value)
           \/ c.op = "Update" /\ IsAccount(c.value)
           \/ c.op \in {"Close", "Reopen", "SetFavorite", "MoveToGroup", "DeleteUnused"}
     \/ c.entity = "category" /\ (c.op = "Delete" \/ (c.op = "Update" /\ IsCategory(c.value)))
     \/ c.entity = "group"
     \/ c.entity = "payee" /\ c.op \in {"Delete", "Update"}
     \/ c.entity = "target" /\ (c.op = "Delete" \/ (c.op = "Save" /\ c.value.kind \in Kinds))
     \/ c.entity \in {"schedule", "failure"}

\* Whatever the executor does, the tables stay whole and it can be taken back.
LEMMA SentBack ==
  ASSUME NEW t, Whole(t), NEW c, Sent(t, c), NEW r \in Apply(t, c)
  PROVE  Whole(r.tables) /\ Back(t, c, r)
<1>1. CASE c.entity = "account"
  <2>1. \/ c.op = "Create" /\ c.id \notin DOMAIN t.accounts /\ IsAccount(c.value)
        \/ c.op = "Update" /\ IsAccount(c.value)
        \/ c.op \in {"Close", "Reopen", "SetFavorite", "MoveToGroup", "DeleteUnused"}
    BY <1>1 DEF Sent
  <2>2. c = Command("account", c.op, c.id, c.value)
    BY <1>1 DEF Sent
  <2> QED
    BY <2>1, <2>2, AccountsBack
<1>2. CASE c.entity = "category"
  <2>1. c.op = "Delete" \/ (c.op = "Update" /\ IsCategory(c.value))
    BY <1>2 DEF Sent
  <2>2. c = Command("category", c.op, c.id, c.value)
    BY <1>2 DEF Sent
  <2> QED
    BY <2>1, <2>2, CategoriesBack
<1>3. CASE c.entity = "group"
  <2>1. c = Command("group", c.op, c.id, c.value)
    BY <1>3 DEF Sent
  <2> QED
    BY <2>1, GroupsBack
<1>4. CASE c.entity = "payee"
  <2>1. c = Command("payee", c.op, c.id, c.value) /\ c.op \in {"Delete", "Update"}
    BY <1>4 DEF Sent
  <2> QED
    BY <2>1, PayeesBack
<1>5. CASE c.entity = "target"
  <2>1. c.op = "Delete" \/ (c.op = "Save" /\ c.value.kind \in Kinds)
    BY <1>5 DEF Sent
  <2>2. c = Command("target", c.op, c.id, c.value)
    BY <1>5 DEF Sent
  <2> QED
    BY <2>1, <2>2, TargetsBack
<1>6. CASE c.entity \in {"schedule", "failure"}
  BY <1>6, OthersBack
<1> QED
  BY <1>1, <1>2, <1>3, <1>4, <1>5, <1>6 DEF Sent

\* What the detail advises adds up.
LEMMA AdviceAddsUp ==
  ASSUME NEW kind \in Kinds, NEW available \in Int, NEW advice \in Recommend(kind, MonthNow, available)
  PROVE  /\ advice.monthly <= advice.remaining
         /\ (advice.remaining = 0) = (available >= advice.target)
         /\ advice.monthly * advice.months >= advice.remaining \/ advice.monthly = advice.target
<1>1. /\ kind.card = NoRef /\ kind.amount \in Int /\ kind.amount > 0 /\ MonthNow \in Int
      /\ kind.due \in Int \cup {NoRef}
  BY MasterAssumption DEF Recommend
<1>2. PICK goal, month \in Int : goal = kind.amount /\ goal > 0 /\ month = MonthNow
  BY <1>1
<1>3. PICK funded \in Nat : funded = IF available > 0 THEN available ELSE 0
  OBVIOUS
<1>4. PICK remaining \in Nat : remaining = IF goal > funded THEN goal - funded ELSE 0
  BY <1>2
<1>5. PICK months \in Nat \ {0} : months = IF kind.due = NoRef THEN 1 ELSE MonthsInclusive(month, kind.due)
  <2>1. CASE kind.due = NoRef
    BY <2>1
  <2>2. CASE kind.due # NoRef
    <3>1. PICK due \in Int : due = kind.due
      BY <1>1, <2>2
    <3>2. MonthsInclusive(month, due) \in Nat \ {0}
      BY <1>2, <3>1 DEF MonthsInclusive
    <3> QED
      BY <2>2, <3>1, <3>2
  <2> QED
    BY <2>1, <2>2
<1>6. PICK monthly : monthly = IF kind.kind = "monthly" THEN (IF goal < remaining THEN goal ELSE remaining)
                               ELSE (remaining + months - 1) \div months
  OBVIOUS
<1>7. /\ advice.target = goal /\ advice.remaining = remaining /\ advice.months = months
      /\ advice.monthly = monthly
  BY <1>1, <1>2, <1>3, <1>4, <1>5, <1>6 DEF Recommend
<1>8. (remaining = 0) = (available >= goal)
  BY <1>2, <1>3, <1>4
<1>9. /\ monthly <= remaining
      /\ monthly * months >= remaining \/ monthly = goal
  <2>1. CASE kind.kind = "monthly"
    <3>1. monthly = goal \/ monthly = remaining
      BY <1>6, <2>1
    <3>2. monthly <= remaining
      BY <1>2, <1>6, <2>1
    <3>3. remaining * months >= remaining
      OBVIOUS
    <3> QED
      BY <3>1, <3>2, <3>3
  <2>2. CASE kind.kind # "monthly"
    <3>1. PICK q \in Int : q = (remaining + months - 1) \div months
      OBVIOUS
    <3>2. months * q <= remaining + months - 1 /\ remaining + months - 1 < months * q + months
      BY <3>1
    <3>3. q * months >= remaining
      BY <3>2
    <3>4. q <= remaining
      <4>1. ASSUME q >= remaining + 1 PROVE FALSE
        <5>1. months * q >= months * (remaining + 1)
          BY <4>1
        <5>2. months * (remaining + 1) = months * remaining + months
          OBVIOUS
        <5>3. months * remaining >= remaining
          OBVIOUS
        <5> QED
          BY <3>2, <5>1, <5>2, <5>3
      <4> QED
        BY <4>1
    <3> QED
      BY <1>6, <2>2, <3>1, <3>3, <3>4
  <2> QED
    BY <2>1, <2>2
<1> QED
  BY <1>7, <1>8, <1>9

\* What the detail of a category says is true of whole tables.
LEMMA DetailTrue == ASSUME Whole(tables) PROVE DetailsAreTrue
<1>1. SUFFICES ASSUME NEW id \in DOMAIN tables.categories, NEW detail, detail = CategoryDetail(id, MonthNow)
               PROVE  /\ detail.protected \/ detail.in_use \/ detail.targets # {} =>
                           Apply(tables, Command("category", "Delete", id, NoRef)) = Rejected
                      /\ \A advice \in detail.advice :
                           /\ advice.monthly <= advice.remaining
                           /\ (advice.remaining = 0) = (detail.current >= advice.target)
                           /\ \/ advice.monthly * advice.months >= advice.remaining
                              \/ advice.monthly = advice.target
  BY DEF DetailsAreTrue
<1>2. PICK c : c = Command("category", "Delete", id, NoRef)
  OBVIOUS
<1>3. c.entity = "category" /\ c.op = "Delete" /\ c.id = id
  BY <1>2, IsInverse
<1>4. Apply(tables, c) = CategoryArm(tables, c)
  BY <1>3, Arms
<1>5. ASSUME detail.protected PROVE Apply(tables, c) = Rejected
  <2>1. CategoryIsManaged(tables, c.id)
    BY <1>1, <1>3, <1>5 DEF CategoryDetail, CategoryIsManaged
  <2>2. CategoryArm(tables, c) = Rejected
    BY <2>1 DEF CategoryArm
  <2> QED
    BY <1>4, <2>2
<1>6. ASSUME detail.in_use \/ detail.targets # {} PROVE Apply(tables, c) = Rejected
  <2>1. CategoryIsUsed(tables, id) \/ CategoryIsReferenced(tables, id)
    BY <1>1, <1>6 DEF CategoryDetail, CategoryIsUsed, CategoryIsReferenced
  <2>2. CategoryArm(tables, c) = Rejected
    BY <1>3, <2>1 DEF CategoryArm
  <2> QED
    BY <1>4, <2>2
<1>7. ASSUME NEW advice \in detail.advice
      PROVE  /\ advice.monthly <= advice.remaining
             /\ (advice.remaining = 0) = (detail.current >= advice.target)
             /\ advice.monthly * advice.months >= advice.remaining \/ advice.monthly = advice.target
  <2>1. PICK assigned : assigned = {row \in tables.rows : row.category = id /\ row.table = "budget_assignments"}
    OBVIOUS
  <2>2. PICK current : current = IF assigned = {} THEN 0 ELSE LET row == CHOOSE r \in assigned : TRUE IN row.amount
    OBVIOUS
  <2>3. current \in Int
    BY <2>1, <2>2 DEF Whole, Filled
  <2>4. detail.current = current
    BY <1>1, <2>1, <2>2 DEF CategoryDetail
  <2>5. PICK k \in DOMAIN tables.targets : advice \in Recommend(tables.targets[k].kind, MonthNow, current)
    BY <1>1, <1>7, <2>1, <2>2 DEF CategoryDetail
  <2>6. PICK kind \in Kinds : kind = tables.targets[k].kind
    BY DEF Whole, Filled
  <2> QED
    BY <2>3, <2>4, <2>5, <2>6, AdviceAddsUp
<1> QED
  BY <1>2, <1>5, <1>6, <1>7

\* A hidden or archived category keeps its other columns.
LEMMA ColumnsKept ==
  ASSUME NEW row, IsCategory(row)
  PROVE  /\ IsCategory(HideRow(row)) /\ IsCategory(ArchiveRow(row))
         /\ HideRow(row).group = row.group /\ ArchiveRow(row).group = row.group
         /\ HideRow(row).archived = row.archived /\ HideRow(row) # row
         /\ \A column \in {"group", "archived"} : HideRow(row)[column] = row[column]
         /\ \A column \in {"group"} : ArchiveRow(row)[column] = row[column]
<1>1. PICK g, h, a : row = [group |-> g, hidden |-> h, archived |-> a] /\ h \in BOOLEAN /\ a \in BOOLEAN
  BY DEF IsCategory
<1>2. HideRow(row) = [group |-> g, hidden |-> ~h, archived |-> a]
  BY <1>1 DEF HideRow
<1>3. PICK b \in BOOLEAN : ArchiveRow(row) = [group |-> g, hidden |-> b, archived |-> b]
  <2>1. PICK b \in BOOLEAN : b = TRUE
    OBVIOUS
  <2>2. PICK half : half = [row EXCEPT !.hidden = b]
    OBVIOUS
  <2>3. half = [group |-> g, hidden |-> b, archived |-> a]
    BY <1>1, <2>2
  <2>4. [half EXCEPT !.archived = b] = [group |-> g, hidden |-> b, archived |-> b]
    BY <2>3
  <2>5. ArchiveRow(row) = [half EXCEPT !.archived = b]
    BY <2>1, <2>2 DEF ArchiveRow
  <2> QED
    BY <2>4, <2>5
<1>4. HideRow(row).hidden # row.hidden
  BY <1>1, <1>2
<1>5. IsCategory(HideRow(row)) /\ IsCategory(ArchiveRow(row))
  <2>1. PICK n \in BOOLEAN : n = ~h
    OBVIOUS
  <2>2. \A x, y \in BOOLEAN : IsCategory([group |-> g, hidden |-> x, archived |-> y])
    BY DEF IsCategory
  <2> QED
    BY <1>1, <1>2, <1>3, <2>1, <2>2
<1>6. /\ HideRow(row).group = row.group /\ ArchiveRow(row).group = row.group
      /\ HideRow(row).archived = row.archived
  BY <1>1, <1>2, <1>3
<1>7. HideRow(row)["group"] = row["group"] /\ HideRow(row)["archived"] = row["archived"]
  BY <1>1, <1>2
<1>8. ArchiveRow(row)["group"] = row["group"]
  BY <1>1, <1>3
<1> QED
  BY <1>4, <1>5, <1>6, <1>7, <1>8

\* A button that writes a category writes this one, if its group is there.
LEMMA ButtonWrites ==
  ASSUME NEW t, Whole(t), NEW id, NEW row, IsCategory(row), NEW r,
         r \in Apply(t, Command("category", "Update", id, row))
  PROVE  /\ Drop(t.categories, id) = Drop(r.tables.categories, id)
         /\ row.group \in DOMAIN t.groups => r.tables.categories[id] = row
<1>1. PICK c : c = Command("category", "Update", id, row)
  OBVIOUS
<1>2. c.entity = "category" /\ c.op = "Update" /\ c.id = id /\ c.value = row
  BY <1>1, IsInverse
<1>3. r.tables = PutCategory(t, id, row)
  BY <1>1, <1>2, Arms DEF CategoryArm, Rejected, Result
<1>4. /\ row.group \in DOMAIN t.groups => r.tables = WithCategories(t, Put(t.categories, id, row))
      /\ row.group \notin DOMAIN t.groups => r.tables = t
  BY <1>3, CategoryPut
<1>5. \A f : WithCategories(t, f).categories = f
  BY DEF WithCategories, TableOf
<1>6. Put(t.categories, id, row)[id] = row
  BY DEF Put
<1>7. Drop(Put(t.categories, id, row), id) = Drop(t.categories, id)
  BY MapsOf, Written, Zenon
<1> QED
  BY <1>4, <1>5, <1>6, <1>7

\* The tables are whole, the detail shows a category, and what the last command did is as promised.
MasterInv ==
  /\ Whole(tables)
  /\ shown # <<>> => IsCategory(shown[1].row)
  /\ UndoneAndRedone /\ ButtonsDoWhatTheySay

\* A button sends the command it is for.
Pressed(button, c) ==
  /\ shown # <<>>
  /\ \/ button = "Hide" /\ c = Command("category", "Update", shown[1].id, HideRow(shown[1].row))
     \/ button = "Archive" /\ c = Command("category", "Update", shown[1].id, ArchiveRow(shown[1].row))
     \/ button = "RemoveGoal" /\ \E target : c = Command("target", "Delete", target, NoRef)

\* A command that is executed keeps the invariant.
LEMMA ExecutedKeeps ==
  ASSUME MasterInv, NEW button, NEW c, Sent(tables, c), ExecuteFor(button, c),
         button = "AnotherScreen" \/ Pressed(button, c)
  PROVE  MasterInv'
<1>1. PICK r \in Apply(tables, c) :
        /\ tables' = r.tables
        /\ latest' = <<[command |-> c, before |-> tables, undo |-> r.undo, by |-> button, seen |-> shown]>>
  BY DEF ExecuteFor
<1>2. PICK t : t = tables
  OBVIOUS
<1>3. Whole(t) /\ Sent(t, c) /\ r \in Apply(t, c)
  BY <1>1, <1>2 DEF MasterInv
<1>4. Whole(r.tables) /\ Back(t, c, r)
  BY <1>3, SentBack
<1>5. PICK done : /\ done = [command |-> c, before |-> t, undo |-> r.undo, by |-> button, seen |-> shown]
                  /\ latest' = <<done>>
  BY <1>1, <1>2
<1>6. /\ latest'[1] = done /\ latest' # <<>>
      /\ done.command = c /\ done.before = t /\ done.undo = r.undo /\ done.by = button /\ done.seen = shown
  BY <1>5
<1>7. UndoneAndRedone'
  BY <1>1, <1>4, <1>6 DEF UndoneAndRedone, Back
<1>8. ButtonsDoWhatTheySay'
  <2>1. CASE button = "AnotherScreen"
    BY <1>6, <2>1 DEF ButtonsDoWhatTheySay
  <2>2. CASE Pressed(button, c)
    <3>1. PICK id, row : id = shown[1].id /\ row = shown[1].row /\ IsCategory(row)
      BY <2>2 DEF MasterInv, Pressed
    <3>2. id \in DOMAIN t.categories => t.categories[id].group \in DOMAIN t.groups
      BY <1>3 DEF Whole, Resolved
    <3>3. CASE button = "Hide"
      <4>1. c = Command("category", "Update", id, HideRow(row))
        BY <2>2, <3>1, <3>3 DEF Pressed
      <4>2. /\ Drop(t.categories, id) = Drop(r.tables.categories, id)
            /\ row.group \in DOMAIN t.groups => r.tables.categories[id] = HideRow(row)
        BY <1>3, <3>1, <4>1, ColumnsKept, ButtonWrites
      <4>3. id \in DOMAIN t.categories /\ t.categories[id] = row =>
              /\ \A column \in {"group", "archived"} :
                   r.tables.categories[id][column] = t.categories[id][column]
              /\ r.tables.categories[id] # t.categories[id]
        BY <3>1, <3>2, <4>2, ColumnsKept
      <4> QED
        BY <1>1, <1>6, <3>1, <3>3, <4>2, <4>3 DEF ButtonsDoWhatTheySay
    <3>4. CASE button = "Archive"
      <4>1. c = Command("category", "Update", id, ArchiveRow(row))
        BY <2>2, <3>1, <3>4 DEF Pressed
      <4>2. /\ Drop(t.categories, id) = Drop(r.tables.categories, id)
            /\ row.group \in DOMAIN t.groups => r.tables.categories[id] = ArchiveRow(row)
        BY <1>3, <3>1, <4>1, ColumnsKept, ButtonWrites
      <4>3. id \in DOMAIN t.categories /\ t.categories[id] = row =>
              \A column \in {"group"} : r.tables.categories[id][column] = t.categories[id][column]
        BY <3>1, <3>2, <4>2, ColumnsKept
      <4>4. {"group", "archived"} \ {"archived"} = {"group"}
        OBVIOUS
      <4> QED
        BY <1>1, <1>6, <3>1, <3>4, <4>2, <4>3, <4>4 DEF ButtonsDoWhatTheySay
    <3>5. CASE button = "RemoveGoal"
      <4>1. PICK target : c = Command("target", "Delete", target, NoRef)
        BY <2>2, <3>5 DEF Pressed
      <4>2. c.op = "Delete" /\ c.id = target /\ c = Command("target", c.op, c.id, c.value)
        BY <4>1, IsInverse
      <4>3. r.tables.targets = Drop(t.targets, c.id)
        BY <1>3, <4>2, TargetsBack
      <4> QED
        BY <1>1, <1>6, <3>5, <4>3 DEF ButtonsDoWhatTheySay
    <3> QED
      BY <2>2, <3>3, <3>4, <3>5 DEF Pressed
  <2> QED
    BY <2>1, <2>2
<1>9. shown' = shown
  BY DEF ExecuteFor
<1> QED
  BY <1>1, <1>4, <1>7, <1>8, <1>9 DEF MasterInv

\* A row that is recorded refers to what the editors offer.
LEMMA RecordedKeeps ==
  ASSUME MasterInv, NEW row \in References, Recorded(row)
  PROVE  MasterInv'
<1>1. PICK t, u, s : t = tables /\ u = tables' /\ s = (t.rows \ {row}) \cup ({row} \ t.rows)
  OBVIOUS
<1>2. u = [t EXCEPT !.rows = s]
  BY <1>1 DEF Recorded
<1>3. u = TableOf(t.accounts, t.categories, t.groups, t.payees, t.targets, t.dismissed, s)
  <2>1. Shaped(t)
    BY <1>1 DEF MasterInv, Whole
  <2> QED
    BY <1>2, <2>1, Replaced
<1>4. /\ u.accounts = t.accounts /\ u.categories = t.categories /\ u.groups = t.groups
      /\ u.payees = t.payees /\ u.targets = t.targets /\ u.dismissed = t.dismissed /\ u.rows = s
      /\ u = TableOf(u.accounts, u.categories, u.groups, u.payees, u.targets, u.dismissed, u.rows)
  BY <1>3 DEF TableOf
<1>5. /\ row.account \in DOMAIN t.accounts \cup {NoRef}
      /\ row.category \in DOMAIN t.categories \cup {NoRef}
      /\ row.payee \in DOMAIN t.payees \cup {NoRef}
      /\ row.amount \in Int
  BY <1>1, MasterAssumption DEF Recorded, PayeeLookup
<1>6. Whole(t) /\ \A x \in s : x \in t.rows \/ x = row
  BY <1>1 DEF MasterInv
<1>7. Shaped(u)
  BY <1>4, <1>6 DEF Shaped, Whole
<1>8. Filled(u)
  BY <1>4, <1>5, <1>6 DEF Filled, Whole
<1>9. Resolved(u)
  BY <1>4, <1>5, <1>6 DEF Resolved, Whole
<1>10. latest' = <<>> /\ shown' = shown
  BY DEF Recorded
<1>11. UndoneAndRedone' /\ ButtonsDoWhatTheySay'
  BY <1>10 DEF UndoneAndRedone, ButtonsDoWhatTheySay
<1> QED
  BY <1>1, <1>7, <1>8, <1>9, <1>10, <1>11 DEF MasterInv, Whole

\* The properties of the last command are of it and of the tables alone.
LEMMA LatestKept ==
  ASSUME MasterInv, UNCHANGED <<tables, latest>>
  PROVE  UndoneAndRedone' /\ ButtonsDoWhatTheySay' /\ Whole(tables')
BY DEF MasterInv, UndoneAndRedone, ButtonsDoWhatTheySay

\* The commands offered are commands the screens send.
LEMMA CommandsAreSent ==
  ASSUME NEW c \in Commands
  PROVE  Sent(tables, c)
BY DEF Commands, Sent, Command

\* Every step keeps the invariant.
LEMMA MasterKeeps ==
  ASSUME MasterInv, [MasterNext]_masterData
  PROVE  MasterInv'
<1>1. CASE \E c \in Commands : Execute(c)
  <2>1. PICK c \in Commands : ExecuteFor("AnotherScreen", c)
    BY <1>1 DEF Execute
  <2> QED
    BY <2>1, CommandsAreSent, ExecutedKeeps
<1>2. CASE CreateOrUpdateAccount
  <2>1. PICK id, type, group, value, op, c :
          /\ value = [type |-> type, group |-> group, closed |-> FALSE, favorite |-> FALSE]
          /\ op = IF id \in DOMAIN tables.accounts THEN "Update" ELSE "Create"
          /\ c = Command("account", op, id, value) /\ ExecuteFor("AnotherScreen", c)
    BY <1>2 DEF CreateOrUpdateAccount, Execute
  <2>2. IsAccount(value)
    BY <2>1 DEF IsAccount
  <2>3. c.entity = "account" /\ c.op = op /\ c.id = id /\ c.value = value
    BY <2>1, IsInverse
  <2>4. Sent(tables, c)
    BY <2>1, <2>2, <2>3 DEF Sent
  <2> QED
    BY <2>1, <2>4, ExecutedKeeps
<1>3. CASE CreateOrUpdateCategory
  <2>1. PICK c : /\ ExecuteFor("AnotherScreen", c)
                 /\ \/ \E id, group : \E hidden, archived \in BOOLEAN :
                         c = Command("category", "Update", id,
                                     [group |-> group, hidden |-> hidden, archived |-> archived])
                    \/ \E id, value : c = Command("group", "Create", id, value)
    BY <1>3 DEF CreateOrUpdateCategory, Execute
  <2>2. Sent(tables, c)
    BY <2>1 DEF Sent, Command, IsCategory
  <2> QED
    BY <2>1, <2>2, ExecutedKeeps
<1>4. CASE CreateOrUpdatePayee
  <2>1. PICK c, id, value : ExecuteFor("AnotherScreen", c) /\ c = Command("payee", "Update", id, value)
    BY <1>4 DEF CreateOrUpdatePayee, Execute
  <2>2. Sent(tables, c)
    BY <2>1 DEF Sent, Command
  <2> QED
    BY <2>1, <2>2, ExecutedKeeps
<1>5. CASE SaveTarget
  <2>1. PICK c, id, category : \E kind \in Kinds :
          /\ ExecuteFor("AnotherScreen", c)
          /\ c = Command("target", "Save", id, [category |-> category, kind |-> kind])
    BY <1>5 DEF SaveTarget, Execute
  <2>2. Sent(tables, c)
    BY <2>1 DEF Sent, Command
  <2> QED
    BY <2>1, <2>2, ExecutedKeeps
<1>6. CASE \E row \in References : Recorded(row)
  BY <1>6, RecordedKeeps
<1>7. CASE \E id \in DOMAIN tables.categories : OpenDetail(id)
  <2>1. PICK id \in DOMAIN tables.categories : OpenDetail(id)
    BY <1>7
  <2>2. UNCHANGED <<tables, latest>> /\ shown'[1].row = tables.categories[id]
    BY <2>1 DEF OpenDetail
  <2>3. IsCategory(shown'[1].row)
    BY <2>2 DEF MasterInv, Whole, Filled
  <2> QED
    BY <2>2, <2>3, LatestKept DEF MasterInv
<1>8. CASE DetailButton
  <2>1. PICK button, c : ExecuteFor(button, c) /\ Pressed(button, c)
    BY <1>8 DEF DetailButton, Pressed
  <2>2. IsCategory(shown[1].row)
    BY <2>1 DEF Pressed, MasterInv
  <2>3. IsCategory(HideRow(shown[1].row)) /\ IsCategory(ArchiveRow(shown[1].row))
    BY <2>2, ColumnsKept
  <2>4. Sent(tables, c)
    BY <2>1, <2>3 DEF Pressed, Sent, Command
  <2> QED
    BY <2>1, <2>4, ExecutedKeeps
<1>9. CASE UNCHANGED masterData
  <2>1. UNCHANGED <<tables, latest, shown>>
    BY <1>9 DEF masterData
  <2> QED
    BY <2>1, LatestKept DEF MasterInv
<1> QED
  BY <1>1, <1>2, <1>3, <1>4, <1>5, <1>6, <1>7, <1>8, <1>9 DEF MasterNext

\* The invariant is all that was promised.
LEMMA MasterSuffices == ASSUME MasterInv PROVE MasterDataHolds
<1>1. DetailsAreTrue
  BY DetailTrue DEF MasterInv
<1>2. ReferencesResolve
  BY DEF MasterInv, Whole, Resolved, ReferencesResolve
<1> QED
  BY <1>1, <1>2 DEF MasterInv, MasterDataHolds

\* Starting from any tables whose references resolve and whose targets are of the known kinds,
\* through any number of commands, recordings and buttons: what a command did can be taken back
\* and brought again, no reference dangles, and screens and executor agree.
THEOREM MasterDataSound ==
  ASSUME NEW start, Whole(start)
  PROVE  MasterInit(start) /\ [][MasterNext]_masterData => []MasterDataHolds
<1>1. MasterInit(start) => MasterInv
  BY DEF MasterInit, MasterInv, UndoneAndRedone, ButtonsDoWhatTheySay
<1>2. MasterInv /\ [MasterNext]_masterData => MasterInv'
  BY MasterKeeps
<1>3. MasterInv => MasterDataHolds
  BY MasterSuffices
<1> QED
  BY <1>1, <1>2, <1>3, PTL
=============================================================================
