-------------------------------- MODULE Plans --------------------------------
(***************************************************************************)
(* The money plans of one relationship and their versions (plans/plans.ts, *)
(* db/migrations/0005_plans.sql).                                          *)
(*                                                                         *)
(* createPlan is two SERIALIZABLE transactions: one inserts the plan, the  *)
(* other appends version 1.  A version is numbered max + 1 in the snapshot *)
(* of its transaction and its commit is refused, and the transaction run   *)
(* again, if another version took the number.  A plan is named by the call *)
(* that creates it and a version by the call that appends it.  A version   *)
(* and its categories are never changed: a category is << version, name >>.*)
(***************************************************************************)
EXTENDS Tier

CONSTANTS
  Creation,   \* calls of createPlan, as numbers (the order of the ids)
  Edit,       \* calls of editPlan, as numbers
  Zone,       \* IANA time zones
  Name,       \* names of categories
  Cap,        \* monthly caps an edit may give a category
  MaxNow      \* bound of the clock

Call == Creation \cup Edit

ASSUME PlansAssumption ==
  /\ Call \subseteq Nat
  /\ Null \notin Call
  /\ NoCap \notin Cap
  /\ MaxNow \in Nat

VARIABLES
  money_plan,     \* by plan: its creation and its current version
  plan_version,   \* by version: plan, number, time zone, cap of each name
  call,           \* each call: what it was asked and how far it has come
  now             \* the clock

planVars == << money_plan, plan_version, call, now >>

Terms == [zone : Zone, cap : [Name -> Cap \cup {NoCap}]]

PlanRow    == [created_at : 0 .. MaxNow, current : Call \cup {Null}]
VersionRow == [plan : Call, number : Nat \ {0}, zone : Zone, cap : [Name -> Cap \cup {NoCap}]]

ASSUME NullIsNoPlan == Null \notin PlanRow \cup VersionRow

Idle       == [phase |-> "idle"]
CallState  ==
  {Idle, [phase |-> "returned"], [phase |-> "threw"]}
    \cup [phase : {"created"}, zone : Zone]
    \cup [phase : {"insert"}, plan : Call, terms : Terms, number : Nat \ {0}]

PlansTypeOK ==
  /\ money_plan \in [Call -> PlanRow \cup {Null}]
  /\ plan_version \in [Call -> VersionRow \cup {Null}]
  /\ call \in [Call -> CallState]
  /\ now \in 0 .. MaxNow

PlansInit ==
  /\ money_plan = [c \in Call |-> Null]
  /\ plan_version = [c \in Call |-> Null]
  /\ call = [c \in Call |-> Idle]
  /\ now = 0

PlanIds    == {p \in Call : money_plan[p] # Null}
VersionsOf(p) == {v \in Call : plan_version[v] # Null /\ plan_version[v].plan = p}
NumbersOf(p)  == {plan_version[v].number : v \in VersionsOf(p)}

(***************************************************************************)
(* The steps of a call.                                                    *)
(***************************************************************************)

\* coalesce(max(version_number), 0) + 1, in a fresh snapshot.
nextNumber(p) ==
  1 + CHOOSE n \in NumbersOf(p) \cup {0} : \A m \in NumbersOf(p) : m <= n

Inserting(p, terms) ==
  [phase |-> "insert", plan |-> p, terms |-> terms, number |-> nextNumber(p)]

createPlan(c, zone) ==
  /\ call[c] = Idle
  /\ money_plan' = [money_plan EXCEPT ![c] = [created_at |-> now, current |-> Null]]
  /\ call' = [call EXCEPT ![c] = [phase |-> "created", zone |-> zone]]
  /\ UNCHANGED << plan_version, now >>

\* The second transaction of createPlan: the system's categories, uncapped.
firstVersion(c) ==
  /\ call[c].phase = "created"
  /\ call' = [call EXCEPT ![c] =
       Inserting(c, [zone |-> call[c].zone, cap |-> [n \in Name |-> NoCap]])]
  /\ UNCHANGED << money_plan, plan_version, now >>

\* Whoever edits a plan has been told its id: its creation has returned.
editPlan(c, p, terms) ==
  /\ call[c] = Idle
  /\ p \in PlanIds /\ call[p].phase = "returned"
  /\ call' = [call EXCEPT ![c] = Inserting(p, terms)]
  /\ UNCHANGED << money_plan, plan_version, now >>

\* Bug: a number may be given twice.
AnyNumber(c) == TRUE

plan_version_number_unique(c) == call[c].number \notin NumbersOf(call[c].plan)

\* The version with its categories, and the pointer of the plan.
appendVersion(c) ==
  /\ call[c].phase = "insert"
  /\ plan_version_number_unique(c)
  /\ plan_version' = [plan_version EXCEPT ![c] =
       [plan |-> call[c].plan, number |-> call[c].number,
        zone |-> call[c].terms.zone, cap |-> call[c].terms.cap]]
  /\ money_plan' = [money_plan EXCEPT ![call[c].plan].current = c]
  /\ call' = [call EXCEPT ![c] = [phase |-> "returned"]]
  /\ UNCHANGED now

\* The refusal is one withSerializableTx runs again, from its first statement.
again(c) ==
  /\ call[c].phase = "insert"
  /\ ~ plan_version_number_unique(c)
  /\ call' = [call EXCEPT ![c] = Inserting(call[c].plan, call[c].terms)]
  /\ UNCHANGED << money_plan, plan_version, now >>

\* The zone is not one PostgreSQL knows (TZ001), the attempts run out or the
\* process dies: a plan whose first version fails here stays without one.
throws(c) ==
  /\ call[c].phase \in {"created", "insert"}
  /\ call' = [call EXCEPT ![c] = [phase |-> "threw"]]
  /\ UNCHANGED << money_plan, plan_version, now >>

PlanStep ==
  \E c \in Call :
    \/ c \in Creation /\ \E zone \in Zone : createPlan(c, zone)
    \/ c \in Edit /\ \E p \in PlanIds, zone \in Zone, cap \in [Name -> Cap] :
         editPlan(c, p, [zone |-> zone, cap |-> cap])
    \/ firstVersion(c) \/ appendVersion(c) \/ again(c) \/ throws(c)

(***************************************************************************)
(* Properties.                                                             *)
(***************************************************************************)

\* The versions of a plan are numbered 1 to n without a gap or a repetition,
\* whoever raced to append them, and the plan points at number n: an edit that
\* was overtaken never moves the pointer back.  Only a plan whose creation has
\* not returned has no version.
VersionsAreGapless ==
  \A p \in PlanIds :
    LET current == money_plan[p].current
        number(v) == plan_version[v].number
    IN  IF current = Null
          THEN VersionsOf(p) = {} /\ call[p].phase # "returned"
          ELSE /\ current \in VersionsOf(p)
               /\ NumbersOf(p) = 1 .. number(current)
               /\ \A v, w \in VersionsOf(p) : number(v) = number(w) => v = w

(***************************************************************************)
(* The invariant, for the proofs.                                          *)
(***************************************************************************)

lastNumber(p) ==
  IF money_plan[p].current = Null THEN 0 ELSE plan_version[money_plan[p].current].number

\* A version belongs to a plan and was appended by a call that has returned.
VersionsHaveAPlan ==
  \A v \in Call : plan_version[v] # Null =>
    plan_version[v].plan \in PlanIds /\ call[v].phase = "returned"

\* A call about to append was given a number no later than the next, and a
\* creation appends to the plan it created.
CallsAreInOrder ==
  \A c \in Call :
    /\ c \in PlanIds => call[c].phase # "idle"
    /\ call[c].phase = "created" => c \in PlanIds
    /\ call[c].phase = "insert" => /\ call[c].plan \in PlanIds
                                   /\ call[c].number <= lastNumber(call[c].plan) + 1
                                   /\ c \in PlanIds => call[c].plan = c

PlansInv == PlansTypeOK /\ VersionsHaveAPlan /\ CallsAreInOrder /\ VersionsAreGapless
=============================================================================
