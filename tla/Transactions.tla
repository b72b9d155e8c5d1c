---------------------------- MODULE Transactions ----------------------------
(***************************************************************************)
(* The transaction record, its two states and its posting                  *)
(* (transactions/transactions.ts, db/migrations/0007_transactions.sql),    *)
(* composed with the requests they come from.                              *)
(*                                                                         *)
(* approveAndRecord reads the request inside its SERIALIZABLE transaction  *)
(* and is one step here; Approvals has its statements and implements this  *)
(* step.  cancelIntent and advanceSettlement read the two states with the  *)
(* pool first and write later, by id alone, as resolve() does in Requests. *)
(***************************************************************************)
EXTENDS Requests

CONSTANT
  Mover       \* concurrent calls of cancelIntent and advanceSettlement

VARIABLES
  transaction,     \* by request_id, which is unique: the two states, or NoRow
  ledger,          \* idempotency keys of the postings made for requests
  intent_log,      \* audit_log rows with entity_type 'transaction_intent'
  settlement_log,  \* audit_log rows with entity_type 'transaction_settlement'
  move             \* what each call of a Mover holds between its two visits

txVars == <<transaction, ledger, intent_log, settlement_log, move>>
vars   == <<reqVars, txVars>>

TransactionRow == [intent_state : IntentState, settlement_state : SettlementState]

ASSUME TransactionAssumption == NoRow \notin TransactionRow

Move == [busy : {TRUE}, id : Request, column : {"intent_state"},
         from : IntentState, to : IntentState]
          \cup [busy : {TRUE}, id : Request, column : {"settlement_state"},
                from : SettlementState, to : SettlementState]

\* Every move of a transaction is made by one kind of actor; who it was is not
\* what the properties are about.
MoveRows(states) == [actor : {Null}, before : states, after : states]

TransactionsTypeOK ==
  /\ TypeOK
  /\ transaction \in [Request -> TransactionRow \cup {NoRow}]
  /\ ledger \in SUBSET Request
  /\ intent_log \in [Request -> Seq(MoveRows(IntentState))]
  /\ settlement_log \in [Request -> Seq(MoveRows(SettlementState))]
  /\ move \in [Mover -> Move \cup {Idle}]

TransactionsInit ==
  /\ Init
  /\ transaction = [r \in Request |-> NoRow]
  /\ ledger = {}
  /\ intent_log = [r \in Request |-> <<>>]
  /\ settlement_log = [r \in Request |-> <<>>]
  /\ move = [m \in Mover |-> Idle]

Recorded(r) == transaction[r] # NoRow

(***************************************************************************)
(* The triggers of 0007.                                                   *)
(***************************************************************************)

\* TX002, deferred to commit on insert and on update: the request of a
\* transaction that is being written must be approved.
transaction_check_request_approved(row) == row # NoRow /\ row.status = "approved"

\* TX001, before each update, and the CHECK on rows born wrong.
transaction_check_state_pair(old, new) ==
  /\ (new.intent_state = "cancelled" /\ old.intent_state # "cancelled")
       => old.settlement_state = "not_started"
  /\ new.settlement_state # old.settlement_state => new.intent_state # "cancelled"

transaction_cancelled_intent_has_no_settlement(row) ==
  row.intent_state = "committed" \/ row.settlement_state = "not_started"

(***************************************************************************)
(* The actions.                                                            *)
(***************************************************************************)

\* approveAndRecord, the call that moves the request: the status as read in
\* the transaction, the audited update, the insert (request_id is unique) and
\* the posting (the request id is its idempotency key), or none of them.  A
\* call that finds the request approved and recorded replays and writes
\* nothing; one that finds it approved and not recorded, declined or expired
\* is refused as undeclared.
approveAndRecord(r, actor) ==
  /\ Submitted(r)
  /\ isDeclared(requestMachine, request[r].status, "approved")
  /\ ~ Recorded(r)
  /\ r \notin ledger
  /\ LET row     == [request[r] EXCEPT !.status = "approved", !.resolved_by = actor]
         written == <<AuditRow(actor, request[r].status, "approved")>>
     IN  /\ request_decline_reason_matches_status(row)
         /\ request_resolution_matches_status(row)
         /\ audit_require_row(request[r].status, row.status, written)
         /\ transaction_check_request_approved(row)
         /\ request' = [request EXCEPT ![r] = row]
         /\ request_log' = [request_log EXCEPT ![r] = @ \o written]
  /\ transaction' = [transaction EXCEPT ![r] = [intent_state     |-> "committed",
                                                settlement_state |-> "not_started"]]
  /\ ledger' = ledger \cup {r}
  /\ UNCHANGED <<call, intent_log, settlement_log, move>>

\* First visits: currentStates, then assertLegal.
cancelIntent(m, r) ==
  /\ move[m] = Idle
  /\ Recorded(r)
  /\ isDeclared(transactionIntentMachine, transaction[r].intent_state, "cancelled")
  /\ move' = [move EXCEPT ![m] = [busy |-> TRUE, id |-> r, column |-> "intent_state",
                                  from |-> transaction[r].intent_state, to |-> "cancelled"]]
  /\ UNCHANGED <<reqVars, transaction, ledger, intent_log, settlement_log>>

advanceSettlement(m, r, to) ==
  /\ move[m] = Idle
  /\ Recorded(r)
  /\ isDeclared(transactionSettlementMachine, transaction[r].settlement_state, to)
  /\ move' = [move EXCEPT ![m] = [busy |-> TRUE, id |-> r, column |-> "settlement_state",
                                  from |-> transaction[r].settlement_state, to |-> to]]
  /\ UNCHANGED <<reqVars, transaction, ledger, intent_log, settlement_log>>

\* What both UPDATEs have to do with the audit log.
AuditTriggers(r, new, written) ==
  /\ audit_require_row(transaction[r].intent_state, new.intent_state, written)
  /\ audit_require_row(transaction[r].settlement_state, new.settlement_state, written)

\* Bug: the two states of a transaction are not held against each other.
UpdateAllowedAnyPair(r, new, written) ==
  /\ transaction_check_request_approved(request[r])
  /\ AuditTriggers(r, new, written)

\* What every UPDATE of the transaction table has to pass.
UpdateAllowed(r, new, written) ==
  /\ transaction_check_state_pair(transaction[r], new)
  /\ transaction_cancelled_intent_has_no_settlement(new)
  /\ transaction_check_request_approved(request[r])
  /\ AuditTriggers(r, new, written)

\* Second visit of cancelIntent.
CommitCancel(m) ==
  /\ move[m] # Idle
  /\ move[m].column = "intent_state"
  /\ LET k       == move[m]
         row     == [transaction[k.id] EXCEPT !.intent_state = k.to]
         written == <<AuditRow(Null, k.from, k.to)>>
     IN  /\ UpdateAllowed(k.id, row, written)
         /\ transaction' = [transaction EXCEPT ![k.id] = row]
         /\ intent_log' = [intent_log EXCEPT ![k.id] = @ \o written]
  /\ move' = [move EXCEPT ![m] = Idle]
  /\ UNCHANGED <<reqVars, ledger, settlement_log>>

\* Second visit of advanceSettlement.
CommitAdvance(m) ==
  /\ move[m] # Idle
  /\ move[m].column = "settlement_state"
  /\ LET k       == move[m]
         row     == [transaction[k.id] EXCEPT !.settlement_state = k.to]
         written == <<AuditRow(Null, k.from, k.to)>>
     IN  /\ UpdateAllowed(k.id, row, written)
         /\ transaction' = [transaction EXCEPT ![k.id] = row]
         /\ settlement_log' = [settlement_log EXCEPT ![k.id] = @ \o written]
  /\ move' = [move EXCEPT ![m] = Idle]
  /\ UNCHANGED <<reqVars, ledger, intent_log>>

\* The second visit is refused (CancelAfterSettlementError, TX001, TX002), the
\* retry budget runs out, or the process dies.
AbandonMove(m) ==
  /\ move[m] # Idle
  /\ move' = [move EXCEPT ![m] = Idle]
  /\ UNCHANGED <<reqVars, transaction, ledger, intent_log, settlement_log>>

TransactionStep ==
  \/ \E r \in Request, a \in Resolver : approveAndRecord(r, a)
  \/ \E m \in Mover, r \in Request : cancelIntent(m, r)
  \/ \E m \in Mover, r \in Request, to \in SettlementState : advanceSettlement(m, r, to)
  \/ \E m \in Mover : CommitCancel(m)
  \/ \E m \in Mover : CommitAdvance(m)
  \/ \E m \in Mover : AbandonMove(m)

TransactionsNext ==
  \/ RequestStep /\ UNCHANGED txVars
  \/ TransactionStep

TransactionsSpec == TransactionsInit /\ [][TransactionsNext]_vars

(***************************************************************************)
(* Properties.                                                             *)
(***************************************************************************)

\* "The three have to commit together": a transaction row, its posting and the
\* approval in the audit log exist together or not at all, also after calls of
\* resolve() have overwritten the request.
RecordedTogether ==
  \A r \in Request :
    /\ Recorded(r) <=> r \in ledger
    /\ Recorded(r) => \E i \in DOMAIN request_log[r] : request_log[r][i].after = "approved"

\* A withdrawn agreement moves no money: no order of stale cancels and stale
\* advances cancels what was instructed or instructs what was cancelled.
CancelledMovesNoMoney ==
  \A r \in Request :
    Recorded(r) /\ transaction[r].intent_state = "cancelled"
      => /\ transaction[r].settlement_state = "not_started"
         /\ settlement_log[r] = <<>>

\* A settlement log that shows what comes before a state.
Shows(log, state) ==
  /\ state = "instructed" => \E i \in DOMAIN log : log[i].after = "instructed"
  /\ state \in {"in_flight", "settled", "reversed"}
       => \E i, j \in DOMAIN log : i < j /\ log[i].after = "instructed"
                                         /\ log[j].after = "in_flight"

\* Money arrives only after it was instructed and in flight: whatever the
\* interleaving of stale advances, a settled or reversed transaction has both
\* moves in its history, in that order.
ArrivesThroughEveryStage ==
  \A r \in Request : Recorded(r) => Shows(settlement_log[r], transaction[r].settlement_state)

\* Both histories end where the row is (audit_enforce_transitions on both
\* columns, under separate entity types).
HistoriesEndInState ==
  \A r \in Request : Recorded(r) =>
    /\ transaction[r].intent_state =
         IF intent_log[r] = <<>> THEN "committed" ELSE Last(intent_log[r]).after
    /\ transaction[r].settlement_state =
         IF settlement_log[r] = <<>> THEN "not_started" ELSE Last(settlement_log[r]).after

\* What a call may rely on between its two visits: the transaction is still
\* there, the move was declared when it was read, and so was its past.
MovesAreDeclared ==
  \A m \in Mover : move[m] # Idle =>
    /\ Recorded(move[m].id)
    /\ move[m].column = "settlement_state" =>
         /\ isDeclared(transactionSettlementMachine, move[m].from, move[m].to)
         /\ Shows(settlement_log[move[m].id], move[m].from)

\* The inductive invariant, with the type invariant in it.  Moving requests by
\* approveAndRecord as well breaks nothing that Requests promises.
TransactionsInv ==
  /\ TransactionsTypeOK
  /\ RequestsInv
  /\ RecordedTogether
  /\ CancelledMovesNoMoney
  /\ ArrivesThroughEveryStage
  /\ HistoriesEndInState
  /\ MovesAreDeclared
  /\ \A r \in Request : Recorded(r) =>
       (transaction[r].settlement_state = "not_started") <=> (settlement_log[r] = <<>>)
  /\ \A r \in Request : ~ Recorded(r) => intent_log[r] = <<>> /\ settlement_log[r] = <<>>

\* A transaction row is born, and its money moves, only in a state whose
\* request is approved (TX002), even when a stale decline has come between.
MovesOnlyWhileApproved ==
  [][\A r \in Request :
       transaction'[r] # transaction[r] => request'[r].status = "approved"]_vars

\* PRD invariant 3, which 0007 calls "a constraint rather than a convention": a
\* request that is declined has no transaction.
DeclinedHasNoTransaction ==
  \A r \in Request :
    Submitted(r) /\ request[r].status = "declined" => ~ Recorded(r)
=============================================================================
