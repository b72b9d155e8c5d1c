------------------------------ MODULE Approvals ------------------------------
(***************************************************************************)
(* approveAndRecord (transactions/transactions.ts) statement by statement. *)
(*                                                                         *)
(* Transactions takes the call as one step.  Here it is what the database  *)
(* sees of it: a snapshot taken by the first read, an UPDATE that holds    *)
(* the row of the request until the end, the insert of the transaction,    *)
(* the audit row, the posting and the commit, with attempts that fail      *)
(* between any two of them and calls of resolve() that want the same row.  *)
(* Nothing a transaction has written is seen by others before it commits.  *)
(***************************************************************************)
EXTENDS Transactions

CONSTANT
  Recorder     \* concurrent calls of approveAndRecord

VARIABLE
  recording    \* by call: the attempt under way, or what it has returned

approvalVars == <<vars, recording>>

NotCalled == [phase |-> "none"]
Recording ==
  [phase : {"begun"}, id : Request, actor : Resolver]
    \cup [phase : {"read", "moved", "posted"}, id : Request, actor : Resolver,
          seen : RequestRow]
    \cup [phase : {"returned"}, id : Request]

ApprovalsTypeOK ==
  /\ TransactionsTypeOK
  /\ recording \in [Recorder -> Recording \cup {NotCalled}]

ApprovalsInit ==
  /\ TransactionsInit
  /\ recording = [p \in Recorder |-> NotCalled]

\* The attempts that hold the row of a request: they have updated it and have
\* neither committed nor failed.
Holders(r) ==
  {p \in Recorder : recording[p].phase \in {"moved", "posted"} /\ recording[p].id = r}

(***************************************************************************)
(* The statements.                                                         *)
(***************************************************************************)

callApprove(p, r, actor) ==
  /\ recording[p] = NotCalled
  /\ recording' = [recording EXCEPT ![p] = [phase |-> "begun", id |-> r, actor |-> actor]]
  /\ UNCHANGED vars

findExisting(r) == Recorded(r)

\* The first read takes the snapshot.  A request that is approved and recorded
\* is a replay, and what is found is returned.
replay(p) ==
  /\ recording[p].phase = "begun"
  /\ LET r == recording[p].id
     IN  /\ Submitted(r)
         /\ request[r].status = "approved"
         /\ findExisting(r)
         /\ recording' = [recording EXCEPT ![p] = [phase |-> "returned", id |-> r]]
  /\ UNCHANGED vars

\* A status from which no approval is declared, 'approved' without a record
\* among them, throws: the call leaves.
readRequestRow(p) ==
  /\ recording[p].phase = "begun"
  /\ LET k == recording[p]
     IN  /\ Submitted(k.id)
         /\ isDeclared(requestMachine, request[k.id].status, "approved")
         /\ recording' = [recording EXCEPT ![p] =
              [phase |-> "read", id |-> k.id, actor |-> k.actor, seen |-> request[k.id]]]
  /\ UNCHANGED vars

\* The row as the UPDATE leaves it: decline_reason is not among its columns.
Approved(k) == [k.seen EXCEPT !.status = "approved", !.resolved_by = k.actor]

RecordedRow == [intent_state |-> "committed", settlement_state |-> "not_started"]

\* Bug: transition() is called, which opens a transaction of its own.
OpensItsOwnTransaction(p) ==
  /\ recording[p].phase = "read"
  /\ LET k == recording[p]
     IN  /\ request[k.id] = k.seen
         /\ Holders(k.id) = {}
         /\ request' = [request EXCEPT ![k.id] = Approved(k)]
         /\ request_log' = [request_log EXCEPT ![k.id] =
                              Append(@, AuditRow(k.actor, k.seen.status, "approved"))]
         /\ transaction' = [transaction EXCEPT ![k.id] = RecordedRow]
  /\ recording' = [recording EXCEPT ![p].phase = "moved"]
  /\ UNCHANGED <<call, ledger, intent_log, settlement_log, move>>

\* Bug: the UPDATE does not touch the row of the request, so that nothing makes
\* one approval wait for another.
HoldsNoRow(p) ==
  /\ recording[p].phase = "read"
  /\ request[recording[p].id] = recording[p].seen
  /\ recording' = [recording EXCEPT ![p].phase = "moved"]
  /\ UNCHANGED vars

\* transitionWithin: the UPDATE waits for whoever holds the row and fails with
\* 40001 when the row has moved since the snapshot; then the insert of the
\* transaction (request_id is unique) and the audit row.
transitionWithin(p) ==
  /\ recording[p].phase = "read"
  /\ LET k == recording[p]
     IN  /\ Holders(k.id) = {}
         /\ request[k.id] = k.seen
         /\ request_decline_reason_matches_status(Approved(k))
         /\ request_resolution_matches_status(Approved(k))
         /\ ~ Recorded(k.id)
  /\ recording' = [recording EXCEPT ![p].phase = "moved"]
  /\ UNCHANGED vars

\* The insert under the key of the request.  That a key taken by another call
\* is never met here is KeyRaceNeverFires.
postWithin(p) ==
  /\ recording[p].phase = "moved"
  /\ recording[p].id \notin ledger
  /\ recording' = [recording EXCEPT ![p].phase = "posted"]
  /\ UNCHANGED vars

\* COMMIT: the deferred triggers look at what the transaction leaves, and all
\* of it becomes visible; the call returns.
commit(p) ==
  /\ recording[p].phase = "posted"
  /\ LET k       == recording[p]
         written == <<AuditRow(k.actor, k.seen.status, "approved")>>
     IN  /\ audit_require_row(k.seen.status, Approved(k).status, written)
         /\ transaction_check_request_approved(Approved(k))
         /\ request' = [request EXCEPT ![k.id] = Approved(k)]
         /\ request_log' = [request_log EXCEPT ![k.id] = @ \o written]
         /\ transaction' = [transaction EXCEPT ![k.id] = RecordedRow]
         /\ ledger' = ledger \cup {k.id}
         /\ recording' = [recording EXCEPT ![p] = [phase |-> "returned", id |-> k.id]]
  /\ UNCHANGED <<call, intent_log, settlement_log, move>>

\* 40001 or 40P01 at any statement or at commit, or a lost race for the key:
\* a fresh attempt with a fresh snapshot.
tryAgain(p) ==
  /\ recording[p].phase \in {"read", "moved", "posted"}
  /\ recording' = [recording EXCEPT ![p] = [phase |-> "begun", id |-> recording[p].id,
                                            actor |-> recording[p].actor]]
  /\ UNCHANGED vars

\* The call has returned, throws, or its process dies: the database rolls back
\* what was not committed.
leave(p) ==
  /\ recording[p] # NotCalled
  /\ recording' = [recording EXCEPT ![p] = NotCalled]
  /\ UNCHANGED vars

\* The UPDATE of resolve() waits for the row as well, and writes it by id with
\* what it read before it waited.
transitionOfFreeRow(c) ==
  /\ transition(c)
  /\ Holders(call[c].id) = {}

ApproveStep ==
  \/ \E p \in Recorder, r \in Request, a \in Resolver : callApprove(p, r, a)
  \/ \E p \in Recorder : replay(p)
  \/ \E p \in Recorder : readRequestRow(p)
  \/ \E p \in Recorder : transitionWithin(p)
  \/ \E p \in Recorder : postWithin(p)
  \/ \E p \in Recorder : commit(p)
  \/ \E p \in Recorder : tryAgain(p)
  \/ \E p \in Recorder : leave(p)

ResolveStep ==
  \/ \E r \in Request : submitRequest(r)
  \/ \E c \in Caller, r \in Request : resolve(c, r)
  \/ \E c \in Caller : transitionOfFreeRow(c)
  \/ \E c \in Caller : Abandon(c)

MoveStep ==
  \/ \E m \in Mover, r \in Request : cancelIntent(m, r)
  \/ \E m \in Mover, r \in Request, to \in SettlementState : advanceSettlement(m, r, to)
  \/ \E m \in Mover : CommitCancel(m) \/ CommitAdvance(m) \/ AbandonMove(m)

ApprovalsNext ==
  \/ ApproveStep
  \/ ResolveStep /\ UNCHANGED txVars /\ UNCHANGED recording
  \/ MoveStep /\ UNCHANGED recording

ApprovalsSpec == ApprovalsInit /\ [][ApprovalsNext]_approvalVars

(***************************************************************************)
(* Properties.                                                             *)
(***************************************************************************)

\* Whatever statement an attempt fails at and whoever else wants the row, what
\* the database shows of approveAndRecord is one step of Transactions: the
\* approval, the record and the posting of a pending request, or nothing.
ImplementsTransactions == TransactionsSpec

\* A call that has returned, by its own writes or as a replay, has named a
\* transaction and a posting that exist: the empty ledgerTransactionId that
\* findExisting allows for is never given.
ReturnedMeansRecorded ==
  \A p \in Recorder : recording[p].phase = "returned" =>
    /\ Recorded(recording[p].id)
    /\ recording[p].id \in ledger

\* "This branch does not fire today": two approvals of one request meet at its
\* row, so that nobody who has moved it finds the key of the posting taken.
KeyRaceNeverFires ==
  \A p \in Recorder : recording[p].phase = "moved" =>
    /\ recording[p].id \notin ledger
    /\ ~ Recorded(recording[p].id)

\* What an attempt that holds the row may rely on: nobody else holds it, and it
\* is as the snapshot has it.
HoldsAlone(p) ==
  LET k == recording[p]
  IN  /\ Holders(k.id) = {p}
      /\ Submitted(k.id)
      /\ request[k.id] = k.seen
      /\ k.seen.status = "pending"
      /\ request_decline_reason_matches_status(Approved(k))
      /\ ~ Recorded(k.id)

HoldersAreAlone ==
  \A p \in Recorder : recording[p].phase \in {"moved", "posted"} => HoldsAlone(p)

\* What an attempt that has read goes by was declared when it was read.
ReadsArePending ==
  \A p \in Recorder : recording[p].phase = "read" => recording[p].seen.status = "pending"

\* The inductive invariant, with the type invariant and that of Transactions.
ApprovalsInv ==
  /\ TransactionsInv
  /\ ApprovalsTypeOK
  /\ HoldersAreAlone
  /\ ReadsArePending
  /\ ReturnedMeansRecorded
=============================================================================
