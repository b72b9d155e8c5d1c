-------------------------------- MODULE Tier --------------------------------
(***************************************************************************)
(* The trust tier of a request (requests/tier/index.ts), a function of the *)
(* ask, the plan version in force, what is already spent and a recurring   *)
(* rule.  It throws rather than compare amounts of two currencies.         *)
(***************************************************************************)
EXTENDS Money

CONSTANTS
  NoCap,      \* a category without a monthly cap: not the same as a cap of 0
  Null        \* no category named, no plan version, no rule

\* planned_investment is declared and nothing returns it.
Tiers == {"recurring", "planned_investment", "emergency", "unrecognized"}

RecurringRuleStatus == {"active", "paused", "cancelled"}

TierRequest(amounts, categories) ==
  [amount : amounts, categoryId : categories \cup {Null}, isEmergency : BOOLEAN]

RecurringRuleSnapshot(amounts, categories) ==
  [amount : amounts, categoryId : categories, status : RecurringRuleStatus]

\* The plan version in force is the cap of each of its categories; Null where
\* the relationship has none.  Null too for no rule.
TierInput(request, planVersion, spendToDate, recurringRule) ==
  [request |-> request, planVersion |-> planVersion, spendToDate |-> spendToDate,
   recurringRule |-> recurringRule]

\* Whether the category named is one of the version in force, and its cap.
Names(input) ==
  input.planVersion # Null /\ input.request.categoryId \in DOMAIN input.planVersion
capOf(input) == input.planVersion[input.request.categoryId]

\* The rule, the cap of the category named and the spending are all in the
\* currency of the request.
assertComparable(input) ==
  LET asked == input.request.amount
  IN  /\ sameCurrency(input.spendToDate, asked)
      /\ input.recurringRule # Null => sameCurrency(input.recurringRule.amount, asked)
      /\ Names(input) /\ capOf(input) # NoCap => sameCurrency(capOf(input), asked)

\* Bug: the cap is compared with this request alone.
EachUnderCap(input) ==
  capOf(input) = NoCap \/ compare(input.request.amount, capOf(input)) <= 0

\* Exactly at the cap is within it.
withinCap(input) ==
  \/ capOf(input) = NoCap
  \/ compare(add(input.spendToDate, input.request.amount), capOf(input)) <= 0

\* A rule for another category is a mistake of the caller and throws, but only
\* once the category is known to be one of the plan's.
ruleIsForAnother(input) ==
  /\ Names(input)
  /\ input.recurringRule # Null
  /\ input.recurringRule.categoryId # input.request.categoryId

isPreApprovedSchedule(input) ==
  /\ Names(input)
  /\ input.recurringRule # Null
  /\ input.recurringRule.status = "active"
  /\ withinCap(input)
  /\ compare(input.request.amount, input.recurringRule.amount) <= 0

classify(input) ==
  CASE ~ assertComparable(input) -> "throws"
    [] assertComparable(input) /\ input.request.isEmergency -> "emergency"
    [] OTHER -> IF ruleIsForAnother(input) THEN "throws"
                ELSE IF isPreApprovedSchedule(input) THEN "recurring"
                ELSE "unrecognized"
=============================================================================
