--------------------------- MODULE StateMachines ---------------------------
(***************************************************************************)
(* The declared state machines of the API and the check every state change *)
(* goes through before it is written (audit/transition.ts).                *)
(*                                                                         *)
(* A machine is a function from each of its states to the set of states it *)
(* declares as reachable.  Anything not listed is refused.                 *)
(***************************************************************************)
EXTENDS SequencesExt, Naturals

requestMachine ==
  [pending  |-> {"approved", "declined", "expired"},
   approved |-> {},
   declined |-> {},
   expired  |-> {}]

RequestStatus == DOMAIN requestMachine

transactionIntentMachine ==
  [committed |-> {"cancelled"},
   cancelled |-> {}]

IntentState == DOMAIN transactionIntentMachine

\* Bug: a settlement may be reported settled before it is in flight.
SettlesAtOnce ==
  [not_started |-> {"instructed", "failed"},
   instructed  |-> {"in_flight", "settled", "failed"},
   in_flight   |-> {"settled", "failed"},
   settled     |-> {"reversed"},
   failed      |-> {},
   reversed    |-> {}]

transactionSettlementMachine ==
  [not_started |-> {"instructed", "failed"},
   instructed  |-> {"in_flight", "failed"},
   in_flight   |-> {"settled", "failed"},
   settled     |-> {"reversed"},
   failed      |-> {},
   reversed    |-> {}]

SettlementState == DOMAIN transactionSettlementMachine

\* invited to invited is the resend of an invitation.
relationshipMachine ==
  [invited    |-> {"invited", "active", "terminated"},
   active     |-> {"paused", "terminated"},
   paused     |-> {"active", "terminated"},
   terminated |-> {}]

RelationshipStatus == DOMAIN relationshipMachine

\* An unknown state declares no moves.
declaredFrom(machine, from) ==
  IF from \in DOMAIN machine THEN machine[from] ELSE {}

isDeclared(machine, from, to) == to \in declaredFrom(machine, from)

\* The row transitionWithin adds to audit_log for one entity: who moved it,
\* the state the caller believed it was in, and the state it was moved to.
AuditRow(actor, from, to) == [actor |-> actor, before |-> from, after |-> to]

\* The deferred trigger audit_require_row: an UPDATE that changes the state
\* column commits only if this transaction wrote an audit row whose
\* after_state is the new state.  `before_state` is not looked at.
audit_require_row(old, new, written) ==
  old # new => \E i \in DOMAIN written : written[i].after = new
=============================================================================
