------------------------------ MODULE Requests ------------------------------
(***************************************************************************)
(* The request table and the functions that move it (requests/requests.ts, *)
(* db/migrations/0006_requests.sql): submit, approve, decline, expire.     *)
(*                                                                         *)
(* resolve() visits the database twice.  It reads the status with the pool *)
(* (currentStatus(db, ...)), outside any transaction, and then hands that  *)
(* value to transition(), which opens a SERIALIZABLE transaction, writes   *)
(* the row by id alone and adds the audit row.  Between the two visits     *)
(* other callers commit, and the retries of withSerializableTx keep the    *)
(* value of the first visit.  One SERIALIZABLE transaction is one step of  *)
(* the model: PostgreSQL commits them as if one after another, and every   *)
(* attempt that fails leaves nothing behind.                               *)
(***************************************************************************)
EXTENDS StateMachines

CONSTANTS
  Request,    \* identifiers of rows of the request table
  Caller,     \* concurrent calls of resolve(): HTTP handlers, jobs
  Resolver,   \* app_user ids that may decide a request
  Reason,     \* decline reasons, trimmed, 1 to 200 characters
  NoRow,      \* the request has not been submitted
  Null        \* SQL null, and the id of the system actor

ASSUME SentinelAssumption ==
  /\ Null \notin Resolver \cup Reason
  /\ NoRow \notin [status : RequestStatus, resolved_by : Resolver \cup {Null},
                   decline_reason : Reason \cup {Null}]

VARIABLES
  request,      \* the request table, resolution columns only (the ask is frozen)
  request_log,  \* audit_log rows with entity_type 'request', in seq order
  call          \* what each call of resolve() holds between its two visits

reqVars == <<request, request_log, call>>

RequestRow == [status : RequestStatus, resolved_by : Resolver \cup {Null},
               decline_reason : Reason \cup {Null}]
AuditRows  == [actor : Resolver \cup {Null}, before : RequestStatus, after : RequestStatus]
Idle       == [busy |-> FALSE]
Resolution == [busy : {TRUE}, id : Request, from : RequestStatus, to : RequestStatus,
               actor : Resolver \cup {Null}, reason : Reason \cup {Null}]

TypeOK ==
  /\ request \in [Request -> RequestRow \cup {NoRow}]
  /\ request_log \in [Request -> Seq(AuditRows)]
  /\ call \in [Caller -> Resolution \cup {Idle}]

Init ==
  /\ request = [r \in Request |-> NoRow]
  /\ request_log = [r \in Request |-> <<>>]
  /\ call = [c \in Caller |-> Idle]

Submitted(r) == request[r] # NoRow

(***************************************************************************)
(* The actions.                                                            *)
(***************************************************************************)

\* One SERIALIZABLE transaction that ends in the insert of a pending row.
submitRequest(r) ==
  /\ ~ Submitted(r)
  /\ request' = [request EXCEPT ![r] = [status |-> "pending", resolved_by |-> Null,
                                        decline_reason |-> Null]]
  /\ UNCHANGED <<request_log, call>>

\* What a call may ask for: a decision by a person, a decline with its reason,
\* or an expiry by the system actor.
ResolutionInputs ==
  [to : {"approved"}, actor : Resolver, reason : {Null}]
    \cup [to : {"declined"}, actor : Resolver, reason : Reason]
    \cup [to : {"expired"}, actor : {Null}, reason : {Null}]

\* The first visit: currentStatus, then the assertLegal that runs before the
\* transaction opens.  An undeclared move throws here and changes nothing.
resolve(c, r) ==
  /\ call[c] = Idle
  /\ Submitted(r)
  /\ \E input \in ResolutionInputs :
       /\ isDeclared(requestMachine, request[r].status, input.to)
       /\ call' = [call EXCEPT ![c] = [busy |-> TRUE, id |-> r, from |-> request[r].status,
                                       to |-> input.to, actor |-> input.actor,
                                       reason |-> input.reason]]
  /\ UNCHANGED <<request, request_log>>

\* Bug: every resolution sets all of its columns, so that an approval clears
\* the decline reason in its way.
ClearsReason(old, k) ==
  [status |-> k.to, resolved_by |-> k.actor, decline_reason |-> k.reason]

\* The columns each of approveRequest, declineRequest and expireRequest sets.
\* decline_reason is set by a decline only; the others leave what is there.
ResolutionFields(old, k) ==
  [status         |-> k.to,
   resolved_by    |-> k.actor,
   decline_reason |-> IF k.to = "declined" THEN k.reason ELSE old.decline_reason]

request_decline_reason_matches_status(row) ==
  (row.status = "declined") <=> (row.decline_reason # Null)

request_resolution_matches_status(row) ==
  (row.status \in {"approved", "declined"}) <=> (row.resolved_by # Null)

\* The second visit: UPDATE ... WHERE id, the CHECK constraints, the audit row,
\* and at commit the audit trigger.
transition(c) ==
  /\ call[c] # Idle
  /\ LET k       == call[c]
         row     == ResolutionFields(request[k.id], k)
         written == <<AuditRow(k.actor, k.from, k.to)>>
     IN  /\ request_decline_reason_matches_status(row)
         /\ request_resolution_matches_status(row)
         /\ audit_require_row(request[k.id].status, row.status, written)
         /\ request' = [request EXCEPT ![k.id] = row]
         /\ request_log' = [request_log EXCEPT ![k.id] = @ \o written]
  /\ call' = [call EXCEPT ![c] = Idle]

\* The second visit fails: a constraint refuses the row, the retry budget of
\* withSerializableTx runs out, or the process dies.  Nothing is written.
Abandon(c) ==
  /\ call[c] # Idle
  /\ call' = [call EXCEPT ![c] = Idle]
  /\ UNCHANGED <<request, request_log>>

RequestStep ==
  \/ \E r \in Request : submitRequest(r)
  \/ \E c \in Caller, r \in Request : resolve(c, r)
  \/ \E c \in Caller : transition(c)
  \/ \E c \in Caller : Abandon(c)

Spec == Init /\ [][RequestStep]_reqVars

(***************************************************************************)
(* Properties.                                                             *)
(***************************************************************************)

\* The columns of a row agree: a decline has its reason and nothing else has
\* one; a decision has its resolver and an expiry has none.
RowsAgree ==
  \A r \in Request : Submitted(r) =>
    /\ request_decline_reason_matches_status(request[r])
    /\ request_resolution_matches_status(request[r])

\* A call holds a move that was declared when it read the status of its
\* request, and that request does not go away.
CallsHoldDeclaredMoves ==
  \A c \in Caller : call[c] # Idle =>
    /\ Submitted(call[c].id)
    /\ call[c].from = "pending"

\* The row and the audit log tell one story: a request nobody resolved has no
\* audit rows, and a resolved one shows the status and the resolver of its
\* last audit row, whatever the calls that raced for it believed.
RowTellsLastDecision ==
  \A r \in Request : Submitted(r) =>
    LET log == request_log[r]
    IN  IF log = <<>> THEN request[r].status = "pending"
        ELSE /\ request[r].status = Last(log).after
             /\ request[r].resolved_by = Last(log).actor

\* The inductive invariant, with the type invariant in it: everything a call
\* may rely on between its two visits, and that what was never submitted has
\* no history.
RequestsInv ==
  /\ TypeOK
  /\ RowsAgree
  /\ CallsHoldDeclaredMoves
  /\ RowTellsLastDecision
  /\ \A r \in Request : ~ Submitted(r) => request_log[r] = <<>>

\* A declined request stays declined.  A call of approveRequest or
\* expireRequest that read 'pending' before the decline committed still tries
\* to overwrite it; its UPDATE leaves decline_reason in place and the CHECK
\* constraint refuses the row (PRD invariant 3).
DeclinedIsFinal ==
  [][\A r \in Request :
       (Submitted(r) /\ request[r].status = "declined")
         => request'[r].status = "declined"]_reqVars
=============================================================================
