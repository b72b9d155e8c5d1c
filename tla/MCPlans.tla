------------------------------- MODULE MCPlans -------------------------------
(* The plans and the amounts they are made of.                              *)
(*                                                                          *)
(* Of plans: two creations and two edits in three calls on the plans of one *)
(* relationship, two submissions, and two instants on the two sides of the  *)
(* month's end in the zone of the plan, though of one month in UTC.         *)
(*                                                                          *)
(* Of amounts: one call of the package, with small amounts of both signs,   *)
(* every ratio of small numbers, up to four weights and three digits on     *)
(* each side of the point, in the two currencies of the code.               *)
EXTENDS Submissions, MoneyCalls

CONSTANTS USD, GTQ, behind, food, s1, s2

MCCurrency == {USD, GTQ}
MCExponent == [c \in MCCurrency |-> 2]

MCCreation == {1, 2}
MCEdit     == {2, 3}
MCZone     == {behind}
MCName     == {food}
MCCap      == {money(1, USD)}
MCAsked    == {money(1, USD)}
MCRuled    == {money(0, USD), money(1, USD), money(1, GTQ)}
MCOffset   == [z \in MCZone |-> -1]

MCAmounts  == -11 .. 11 \cup {-1005, -99, 99, 1005}
MCNumbers  == -6 .. 6
MCWeights  == BoundedSeq(0 .. 3, 4) \cup BoundedSeq({-1, 2}, 2)
MCDigits   == {0, 4, 9}

Symmetric == Permutations(Submission)

\* The package keeps nothing between two calls, so that a behavior is either of
\* the plans or of one call.
NoCall == [op |-> "none"]

MCInit ==
  /\ SubmissionsInit
  /\ \/ operation = NoCall /\ answer = << >>
     \/ MoneyInit

MCNext ==
  \/ operation = NoCall /\ SubmissionsNext /\ UNCHANGED moneyVars
  \/ MoneyNext /\ UNCHANGED submissionsVars

MCSpec == MCInit /\ [][MCNext]_<<submissionsVars, moneyVars>>
=============================================================================
