----------------------------- MODULE MerchantRules -----------------------------
(***************************************************************************)
(* The merchant rules an import proposes categories with: explicit rules   *)
(* the user wrote and rules learned from approved rows.  Merchants are     *)
(* normalized already; the conditions kept are the merchant and the        *)
(* account, the action kept is the category (payees follow the same way,   *)
(* memos are text).                                                        *)
(***************************************************************************)
EXTENDS Integers, Sequences, FiniteSets, Functions

CONSTANTS
  Merchants, RuleAccounts, RuleCategories,
  AnyAccount,      \* the scope of a rule without an account condition
  ExplicitBooks,   \* rule books a user has written: sequences of explicit rules
  MaxApprovals     \* bound: approvals recorded

VARIABLES
  rules,           \* MerchantRuleBook::rules
  approvals        \* history: reviewed outcomes recorded, in order

ruleBook == <<rules, approvals>>

Explicit(merchant, account, category, priority) ==
  [origin |-> "Explicit", merchant |-> merchant, account |-> account, category |-> category,
   priority |-> priority, confidence |-> "High", usage |-> 0]

MerchantRule == [origin : {"Explicit", "Learned"}, merchant : Merchants,
                 account : RuleAccounts \cup {AnyAccount}, category : RuleCategories,
                 priority : Int, confidence : {"High", "Learning"}, usage : Nat]

ASSUME RulesAssumption ==
  /\ AnyAccount \notin RuleAccounts
  /\ \A book \in ExplicitBooks : /\ book \in Seq(MerchantRule)
                                /\ \A i \in DOMAIN book : book[i].origin = "Explicit"

Scoped(rule) == rule.account # AnyAccount
Conditions(rule) == IF Scoped(rule) THEN 2 ELSE 1
-----------------------------------------------------------------------------
(* evaluate *)

MatchesMutant(rule, merchant, account) ==
  rule.merchant = merchant /\ (rule.origin = "Explicit" \/ rule.confidence = "High")
Matches(rule, merchant, account) ==
  /\ rule.origin = "Explicit" \/ rule.confidence = "High"
  /\ rule.merchant = merchant
  /\ rule.account \in {account, AnyAccount}

Matching(merchant, account) == {i \in DOMAIN rules : Matches(rules[i], merchant, account)}

\* The sort keys before the id: origin, priority, scope, number of conditions.
Precedes(r, s) ==
  LET origin(x) == IF x.origin = "Explicit" THEN 1 ELSE 0
      keys(x) == <<origin(x), x.priority, IF Scoped(x) THEN 1 ELSE 0, Conditions(x)>>
  IN  \E k \in 1..4 : keys(r)[k] > keys(s)[k] /\ \A j \in 1..(k - 1) : keys(r)[j] = keys(s)[j]

\* detect_conflicts: explicit rules of equal precedence that set different categories.
Conflict(merchant, account) ==
  \E i, j \in Matching(merchant, account) :
    /\ {rules[i].origin, rules[j].origin} = {"Explicit"}
    /\ ~Precedes(rules[i], rules[j]) /\ ~Precedes(rules[j], rules[i])
    /\ rules[i].category # rules[j].category

\* The first rule that sets the category wins; among equals, the one with the lower id,
\* and ids are random.
Proposals(merchant, account) ==
  IF Conflict(merchant, account) THEN {}
  ELSE {rules[i].category : i \in {k \in Matching(merchant, account) :
          \A j \in Matching(merchant, account) : ~Precedes(rules[j], rules[k])}}
-----------------------------------------------------------------------------
Confirmed(rule) == [rule EXCEPT !.usage = @ + 1,
                      !.confidence = IF rule.usage + 1 >= 3 THEN "High" ELSE @]

\* record_approved: the learned rule for this outcome is confirmed, or a new one starts.
RecordApproved(merchant, account, category) ==
  LET learned == {i \in DOMAIN rules : /\ rules[i].origin = "Learned"
                                       /\ rules[i].account = account
                                       /\ rules[i].merchant = merchant
                                       /\ rules[i].category = category}
  IN  /\ Len(approvals) < MaxApprovals
      /\ approvals' = Append(approvals, <<merchant, account, category>>)
      /\ IF learned # {}
         THEN \E i \in learned : /\ \A j \in learned : i <= j
                                 /\ rules' = [rules EXCEPT ![i] = Confirmed(@)]
         ELSE rules' = Append(rules, [origin |-> "Learned", merchant |-> merchant,
                          account |-> account, category |-> category, priority |-> 0,
                          confidence |-> "Learning", usage |-> 1])

RulesInit == rules \in ExplicitBooks /\ approvals = <<>>

RulesNext == \E m \in Merchants, a \in RuleAccounts, c \in RuleCategories : RecordApproved(m, a, c)

RulesSpec == RulesInit /\ [][RulesNext]_ruleBook
-----------------------------------------------------------------------------
\* A category is proposed because the user asked for it: by an explicit rule, which always
\* wins over what was learned, or by approving it three times for this merchant and this
\* very account.  No proposal comes from fewer, or from another account's habits.
ProposalsAreEarned ==
  \A m \in Merchants, a \in RuleAccounts, c \in RuleCategories :
    c \in Proposals(m, a) =>
      LET written == {i \in Matching(m, a) : rules[i].origin = "Explicit"} IN
      IF written # {} THEN c \in {rules[i].category : i \in written}
      ELSE Cardinality({k \in DOMAIN approvals : approvals[k] = <<m, a, c>>}) >= 3
=============================================================================
