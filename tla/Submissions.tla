----------------------------- MODULE Submissions -----------------------------
(***************************************************************************)
(* Submitting a request against the plan in force (requests.ts:93-224) and *)
(* what the month's spending in its category is (plans/cap-window.ts).     *)
(*                                                                         *)
(* submitRequest is one SERIALIZABLE transaction of two steps here: it     *)
(* begins, which fixes created_at, reads and judges, in its snapshot and   *)
(* at the application's own clock; and it inserts, with other commits in   *)
(* between.  Nothing another transaction reads depends on the row it       *)
(* inserts, so PostgreSQL lets it commit.  Approvals are those of Requests,*)
(* as one step.                                                            *)
(***************************************************************************)
EXTENDS Plans

CONSTANTS
  Submission,   \* submissions, and the ids of their rows
  Asked,        \* amounts asked for: money
  Ruled,        \* amounts of recurring rules: money
  MonthLength,  \* ticks of the clock in a month
  offset,       \* by zone, what to add to an instant for its local time
  MaxBigint     \* the largest amount_minor

ASSUME SubmissionsAssumption ==
  /\ MonthLength \in Nat \ {0}
  /\ offset \in [Zone -> Int]
  /\ \A value \in Asked \cup Cap : value.amount \in Int

VARIABLES
  request,      \* the request table, with what the row was judged on
  submission    \* what each submission holds

submissionsVars == << planVars, request, submission >>

Category == Call \X Name

RequestRow == [amount : Asked, category : Category \cup {Null}, tier : Tiers,
               created_at : 0 .. MaxNow, judged_at : 0 .. MaxNow,
               approvedThen : SUBSET Submission, status : {"pending", "approved"}]
ASSUME NullIsNoRequest == Null \notin RequestRow /\ Null \notin Category

SubmissionState ==
  [phase : {"idle", "stored"}]
    \cup [phase : {"judged"}, row : RequestRow]

SubmissionsTypeOK ==
  /\ PlansTypeOK
  /\ request \in [Submission -> RequestRow \cup {Null}]
  /\ submission \in [Submission -> SubmissionState]

SubmissionsInit ==
  /\ PlansInit
  /\ request = [s \in Submission |-> Null]
  /\ submission = [s \in Submission |-> [phase |-> "idle"]]

Rows       == {s \in Submission : request[s] # Null}
Approved   == {s \in Rows : request[s].status = "approved"}
Categories == {v \in Call : plan_version[v] # Null} \X Name
monthlyCap(c) == plan_version[c[1]].cap[c[2]]
zoneOf(c)  == plan_version[c[1]].zone

(***************************************************************************)
(* The plan in force and the window of a cap.                              *)
(***************************************************************************)

\* The most recent plan, the larger id of two of one instant.
newestPlan ==
  CHOOSE p \in PlanIds : \A q \in PlanIds :
    \/ money_plan[q].created_at < money_plan[p].created_at
    \/ money_plan[q].created_at = money_plan[p].created_at /\ q <= p

planVersionInForce ==
  IF PlanIds = {} THEN Null ELSE money_plan[newestPlan].current

\* The caps of its categories, or Null: a newest plan without a version counts
\* as no plan, whatever an older one says.
capsInForce ==
  IF planVersionInForce = Null THEN Null
  ELSE [c \in {planVersionInForce} \X Name |-> monthlyCap(c)]

\* date_trunc('month', t at time zone zone) at time zone zone.
startOfMonth(zone, t) ==
  ((t + offset[zone]) \div MonthLength) * MonthLength - offset[zone]

endOfMonth(zone, t) == startOfMonth(zone, t) + MonthLength

\* The approved requests of the category that count at instant t.
counted(c, t) ==
  {s \in Approved : /\ request[s].category = c
                    /\ request[s].created_at >= startOfMonth(zoneOf(c), t)
                    /\ request[s].created_at < endOfMonth(zoneOf(c), t)}

total(set, currency) ==
  money(SumFunction([s \in set |-> request[s].amount.amount]), currency)

\* Spending in another currency than the one asked for is refused, not summed.
oneCurrency(category, currency, t) ==
  category # Null =>
    \A s \in counted(category, t) : request[s].amount.currency = currency

monthToDateSpend(category, currency, t) ==
  total(IF category = Null THEN {} ELSE counted(category, t), currency)

(***************************************************************************)
(* The steps of a submission, and its approval.  One that throws leaves    *)
(* nothing, and may be sent again; a request declined or expired counts as *)
(* one still pending does.                                                 *)
(***************************************************************************)

Asks ==
  [request : TierRequest(Asked, Categories),
   recurringRule : {Null} \cup RecurringRuleSnapshot(Ruled, Categories)]

tierOf(ask, t) ==
  LET category == ask.request.categoryId
      currency == ask.request.amount.currency
  IN  IF ~ oneCurrency(category, currency, t) THEN "throws"
      ELSE classify(TierInput(ask.request, capsInForce,
                              monthToDateSpend(category, currency, t), ask.recurringRule))

\* BEGIN, up to one tick ago, and the reads and the tier they give.
submitRequest(s, ask, began) ==
  /\ submission[s].phase = "idle"
  /\ began \in {now - 1, now} \cap Nat
  /\ tierOf(ask, now) # "throws"
  /\ submission' = [submission EXCEPT ![s] =
       [phase |-> "judged",
        row |-> [amount |-> ask.request.amount, category |-> ask.request.categoryId,
                 tier |-> tierOf(ask, now), created_at |-> began, judged_at |-> now,
                 approvedThen |-> Approved, status |-> "pending"]]]
  /\ UNCHANGED << planVars, request >>

insert(s) ==
  /\ submission[s].phase = "judged"
  /\ submission[s].row.amount.amount \in 1 .. MaxBigint
  /\ request' = [request EXCEPT ![s] = submission[s].row]
  /\ submission' = [submission EXCEPT ![s] = [phase |-> "stored"]]
  /\ UNCHANGED planVars

\* An amount the column does not hold, a constraint or a connection that dies.
insertFails(s) ==
  /\ submission[s].phase = "judged"
  /\ submission' = [submission EXCEPT ![s] = [phase |-> "idle"]]
  /\ UNCHANGED << planVars, request >>

approveRequest(s) ==
  /\ s \in Rows /\ request[s].status = "pending"
  /\ request' = [request EXCEPT ![s].status = "approved"]
  /\ UNCHANGED << planVars, submission >>

Tick ==
  /\ now < MaxNow
  /\ now' = now + 1
  /\ UNCHANGED << money_plan, plan_version, call, request, submission >>

SubmissionsNext ==
  \/ PlanStep /\ UNCHANGED << request, submission >>
  \/ \E s \in Submission :
       \/ \E ask \in Asks, began \in 0 .. now : submitRequest(s, ask, began)
       \/ insert(s) \/ insertFails(s) \/ approveRequest(s)
  \/ Tick

SubmissionsSpec == SubmissionsInit /\ [][SubmissionsNext]_submissionsVars

(***************************************************************************)
(* Properties.                                                             *)
(***************************************************************************)

localMonth(zone, t) == (t + offset[zone]) \div MonthLength

\* A request of the tier that needs nobody's look stayed within the cap of its
\* category: with everything of that category and of that month, by the clock
\* of the plan version, that had been approved when it was judged.
RecurringKeepsTheCap ==
  \A r \in Rows :
    LET row  == request[r]
        same == {s \in row.approvedThen :
                   /\ request[s].category = row.category
                   /\ localMonth(zoneOf(row.category), request[s].created_at)
                        = localMonth(zoneOf(row.category), row.judged_at)}
    IN  row.tier = "recurring" /\ monthlyCap(row.category) # NoCap =>
          /\ \A s \in same \cup {r} :
               request[s].amount.currency = monthlyCap(row.category).currency
          /\ total(same \cup {r}, row.amount.currency).amount
               <= monthlyCap(row.category).amount

(***************************************************************************)
(* The invariant, for the proofs.                                          *)
(***************************************************************************)

\* What had been approved of the category and the month of a row.
spentThen(row) ==
  {s \in row.approvedThen :
     /\ request[s].category = row.category
     /\ localMonth(zoneOf(row.category), request[s].created_at)
          = localMonth(zoneOf(row.category), row.judged_at)}

\* A row of the tier "recurring" stays within its cap, stored or still to be.
JudgedWithinCap(row) ==
  LET cap == monthlyCap(row.category)
  IN  /\ row.approvedThen \subseteq Rows
      /\ row.tier = "recurring" => row.category \in Categories
      /\ row.tier = "recurring" /\ cap # NoCap =>
           /\ \A s \in spentThen(row) : request[s].amount.currency = cap.currency
           /\ row.amount.currency = cap.currency
           /\ total(spentThen(row), cap.currency).amount + row.amount.amount <= cap.amount

RowsAreJudged ==
  \A s \in Submission :
    /\ s \in Rows <=> submission[s].phase = "stored"
    /\ submission[s].phase = "judged" => JudgedWithinCap(submission[s].row)
    /\ s \in Rows => s \notin request[s].approvedThen /\ JudgedWithinCap(request[s])

\* Only finitely many plans and requests have been made.
FinitelyManyRecords == IsFiniteSet(Rows) /\ IsFiniteSet(PlanIds)

SubmissionsInv ==
  PlansInv /\ SubmissionsTypeOK /\ FinitelyManyRecords /\ RowsAreJudged
=============================================================================
