------------------------- MODULE TransactionsProofs -------------------------
(***************************************************************************)
(* What is proved of Requests, of Transactions and of the routes over      *)
(* them, for every set of requests, people, callers, movers, resolvers and *)
(* reasons: the request table by itself, the two machines of a transaction *)
(* composed with it, the routes, which do nothing that Transactions does   *)
(* not allow, and approveAndRecord statement by statement, which amounts   *)
(* to what Transactions takes for one step.                                *)
(***************************************************************************)
EXTENDS RequestRoutes, Approvals, TLAPS

-----------------------------------------------------------------------------
(***************************************************************************)
(* PART ONE: Requests.                                                     *)
(***************************************************************************)

(***************************************************************************)
(* Facts about the machine and about logs.                                 *)
(***************************************************************************)

\* Only a pending request has somewhere to go.
LEMMA OnlyPendingMoves ==
  ASSUME NEW from \in RequestStatus, NEW to, isDeclared(requestMachine, from, to)
  PROVE  from = "pending" /\ to \in {"approved", "declined", "expired"}
BY DEF isDeclared, declaredFrom, requestMachine, RequestStatus

LEMMA Statuses == RequestStatus = {"pending", "approved", "declined", "expired"}
BY DEF RequestStatus, requestMachine

\* A log one row longer ends in that row.
LEMMA LogGrows ==
  ASSUME NEW S, NEW log \in Seq(S), NEW row \in S
  PROVE  /\ log \o <<row>> \in Seq(S)
         /\ log \o <<row>> # <<>>
         /\ Last(log \o <<row>>) = row
BY DEF Last

(***************************************************************************)
(* The inductive invariant.                                                *)
(***************************************************************************)

LEMMA InitRequestsInv == Init => RequestsInv
BY SentinelAssumption
   DEF Init, RequestsInv, TypeOK, RowsAgree, CallsHoldDeclaredMoves, RowTellsLastDecision, Submitted

LEMMA SubmitKeeps ==
  ASSUME RequestsInv, NEW r \in Request, submitRequest(r)
  PROVE  RequestsInv'
<1> DEFINE row == [status |-> "pending", resolved_by |-> Null, decline_reason |-> Null]
<1>1. row \in RequestRow /\ row # NoRow
  BY Statuses, SentinelAssumption DEF RequestRow
<1>2. /\ request' = [request EXCEPT ![r] = row]
      /\ request_log' = request_log /\ call' = call /\ request_log[r] = <<>>
      /\ request \in [Request -> RequestRow \cup {NoRow}]
  BY DEF submitRequest, RequestsInv, TypeOK
<1>3. TypeOK'
  BY <1>1, <1>2 DEF RequestsInv, TypeOK
<1>4. RowsAgree'
  BY <1>1, <1>2 DEF RequestsInv, RowsAgree, Submitted, request_decline_reason_matches_status,
                    request_resolution_matches_status
<1>5. CallsHoldDeclaredMoves'
  BY <1>1, <1>2 DEF RequestsInv, CallsHoldDeclaredMoves, Submitted
<1>6. RowTellsLastDecision'
  BY <1>1, <1>2 DEF RequestsInv, RowTellsLastDecision, Submitted
<1>7. \A s \in Request : ~ Submitted(s)' => request_log'[s] = <<>>
  BY <1>1, <1>2 DEF RequestsInv, Submitted
<1> QED
  BY <1>3, <1>4, <1>5, <1>6, <1>7 DEF RequestsInv

LEMMA ResolveKeeps ==
  ASSUME RequestsInv, NEW c \in Caller, NEW r \in Request, resolve(c, r)
  PROVE  RequestsInv'
<1>1. PICK input \in ResolutionInputs :
        /\ isDeclared(requestMachine, request[r].status, input.to)
        /\ call' = [call EXCEPT ![c] = [busy |-> TRUE, id |-> r, from |-> request[r].status,
                                        to |-> input.to, actor |-> input.actor,
                                        reason |-> input.reason]]
  BY DEF resolve
<1>2. Submitted(r) /\ request' = request /\ request_log' = request_log
  BY DEF resolve
<1>3. request[r] \in RequestRow
  BY <1>2 DEF RequestsInv, TypeOK, Submitted
<1>4. request[r].status = "pending" /\ input.to \in RequestStatus
  BY <1>1, <1>3, OnlyPendingMoves, Statuses DEF RequestRow
<1>5. input.actor \in Resolver \cup {Null} /\ input.reason \in Reason \cup {Null}
  BY DEF ResolutionInputs
<1>6. [busy |-> TRUE, id |-> r, from |-> request[r].status, to |-> input.to,
       actor |-> input.actor, reason |-> input.reason] \in Resolution
  BY <1>3, <1>4, <1>5 DEF Resolution, RequestRow
<1>7. TypeOK'
  BY <1>1, <1>2, <1>6 DEF RequestsInv, TypeOK
<1>8. CallsHoldDeclaredMoves'
  BY <1>1, <1>2, <1>4 DEF RequestsInv, TypeOK, CallsHoldDeclaredMoves, Submitted
<1> QED
  BY <1>2, <1>7, <1>8 DEF RequestsInv, RowsAgree, RowTellsLastDecision, Submitted

LEMMA TransitionKeeps ==
  ASSUME RequestsInv, NEW c \in Caller, transition(c)
  PROVE  RequestsInv'
<1> DEFINE k   == call[c]
           row == ResolutionFields(request[k.id], k)
           new == AuditRow(k.actor, k.from, k.to)
<1>1. /\ k \in Resolution /\ Submitted(k.id) /\ request[k.id] \in RequestRow
      /\ request_log[k.id] \in Seq(AuditRows)
  BY DEF transition, RequestsInv, TypeOK, CallsHoldDeclaredMoves, Submitted, Resolution
<1>2. /\ request_decline_reason_matches_status(row)
      /\ request_resolution_matches_status(row)
      /\ request' = [request EXCEPT ![k.id] = row]
      /\ request_log' = [request_log EXCEPT ![k.id] = request_log[k.id] \o <<new>>]
      /\ call' = [call EXCEPT ![c] = Idle]
  BY <1>1 DEF transition
<1>3. row \in RequestRow /\ row # NoRow /\ row.status = k.to /\ row.resolved_by = k.actor
  <2>1. /\ k.to \in RequestStatus /\ k.actor \in Resolver \cup {Null}
        /\ k.reason \in Reason \cup {Null}
    BY <1>1 DEF Resolution
  <2>2. request[k.id].decline_reason \in Reason \cup {Null}
    BY <1>1 DEF RequestRow
  <2>3. row \in RequestRow /\ row.status = k.to /\ row.resolved_by = k.actor
    BY <2>1, <2>2 DEF ResolutionFields, RequestRow
  <2> QED BY <2>3, SentinelAssumption DEF RequestRow
<1>4. new \in AuditRows /\ new.after = k.to /\ new.actor = k.actor
  BY <1>1 DEF AuditRow, AuditRows, Resolution
<1>5. /\ request_log'[k.id] \in Seq(AuditRows) /\ request_log'[k.id] # <<>>
      /\ Last(request_log'[k.id]) = new
      /\ request'[k.id] = row /\ k.id \in Request
      /\ \A s \in Request \ {k.id} : request'[s] = request[s] /\ request_log'[s] = request_log[s]
  <2>1. k.id \in Request
    BY <1>1 DEF Resolution
  <2> QED BY <1>1, <1>2, <1>4, <2>1, LogGrows DEF RequestsInv, TypeOK
<1>6. TypeOK'
  <2>1. request' \in [Request -> RequestRow \cup {NoRow}]
    <3>1. request \in [Request -> RequestRow \cup {NoRow}]
      BY DEF RequestsInv, TypeOK
    <3> HIDE DEF row, k
    <3> QED BY <1>2, <1>3, <3>1
  <2>2. request_log' \in [Request -> Seq(AuditRows)]
    BY <1>2, <1>5 DEF RequestsInv, TypeOK
  <2>3. call' \in [Caller -> Resolution \cup {Idle}]
    BY <1>2 DEF RequestsInv, TypeOK
  <2> QED BY <2>1, <2>2, <2>3 DEF TypeOK
<1>7. RowsAgree'
  BY <1>2, <1>5 DEF RequestsInv, RowsAgree, Submitted, request_decline_reason_matches_status,
                    request_resolution_matches_status
<1>8. CallsHoldDeclaredMoves'
  <2> SUFFICES ASSUME NEW d \in Caller, call'[d] # Idle
               PROVE  request'[call'[d].id] # NoRow /\ call'[d].from = "pending"
    BY DEF CallsHoldDeclaredMoves, Submitted
  <2>1. d # c /\ call'[d] = call[d]
    BY <1>2 DEF RequestsInv, TypeOK
  <2>2. call[d] \in Resolution /\ Submitted(call[d].id) /\ call[d].from = "pending"
    BY <2>1 DEF RequestsInv, TypeOK, CallsHoldDeclaredMoves
  <2> QED BY <1>3, <1>5, <2>1, <2>2 DEF Submitted, Resolution
<1>9. RowTellsLastDecision'
  BY <1>3, <1>4, <1>5 DEF RequestsInv, RowTellsLastDecision, Submitted
<1>10. \A s \in Request : ~ Submitted(s)' => request_log'[s] = <<>>
  BY <1>3, <1>5 DEF RequestsInv, Submitted
<1> QED
  BY <1>6, <1>7, <1>8, <1>9, <1>10 DEF RequestsInv

LEMMA AbandonKeeps ==
  ASSUME RequestsInv, NEW c \in Caller, Abandon(c)
  PROVE  RequestsInv'
BY DEF Abandon, RequestsInv, TypeOK, RowsAgree, CallsHoldDeclaredMoves, RowTellsLastDecision,
       Submitted

LEMMA StepRequestsInv == RequestsInv /\ [RequestStep]_reqVars => RequestsInv'
<1> SUFFICES ASSUME RequestsInv, [RequestStep]_reqVars PROVE RequestsInv'
  OBVIOUS
<1>1. CASE UNCHANGED reqVars
  BY <1>1 DEF reqVars, RequestsInv, TypeOK, RowsAgree, CallsHoldDeclaredMoves,
              RowTellsLastDecision, Submitted
<1> QED
  BY <1>1, SubmitKeeps, ResolveKeeps, TransitionKeeps, AbandonKeeps DEF RequestStep

\* The inductive invariant, and the type invariant with it, holds in every
\* reachable state.
THEOREM RequestsInvariance == Spec => []RequestsInv
BY InitRequestsInv, StepRequestsInv, PTL DEF Spec

(***************************************************************************)
(* What follows from it.                                                   *)
(***************************************************************************)

\* However many calls race on stale readings, a request and its audit log agree
\* on its status and on who decided it.
THEOREM LogAgreesWithRow == Spec => []RowTellsLastDecision
<1>1. RequestsInv => RowTellsLastDecision
  BY DEF RequestsInv
<1> QED
  BY <1>1, RequestsInvariance, PTL

\* A stale approval or expiry that comes after a decline is refused by the
\* CHECK on decline_reason: the row keeps its reason, which only a decline may
\* have.
LEMMA DeclineKept ==
  ASSUME RequestsInv, [RequestStep]_reqVars, NEW r \in Request, Submitted(r),
         request[r].status = "declined"
  PROVE  request'[r].status = "declined"
<1>1. request[r].decline_reason # Null
  BY DEF RequestsInv, RowsAgree, request_decline_reason_matches_status
<1>2. CASE request' = request
  BY <1>2
<1>3. ASSUME NEW s \in Request, submitRequest(s) PROVE request'[r].status = "declined"
  BY <1>3 DEF submitRequest, RequestsInv, TypeOK
<1>4. ASSUME NEW c \in Caller, transition(c) PROVE request'[r].status = "declined"
  <2>1. CASE call[c].id = r
    <3>1. /\ request'[r] = ResolutionFields(request[r], call[c])
          /\ request_decline_reason_matches_status(ResolutionFields(request[r], call[c]))
      BY <1>4, <2>1 DEF transition, RequestsInv, TypeOK
    <3> QED
      BY <1>1, <3>1 DEF ResolutionFields, request_decline_reason_matches_status
  <2>2. CASE call[c].id # r
    BY <1>4, <2>2 DEF transition, RequestsInv, TypeOK
  <2> QED BY <2>1, <2>2
<1> QED
  BY <1>2, <1>3, <1>4 DEF RequestStep, reqVars, resolve, Abandon

THEOREM DeclinesAreFinal == Spec => DeclinedIsFinal
<1> DEFINE Kept == \A r \in Request : (Submitted(r) /\ request[r].status = "declined")
                                        => request'[r].status = "declined"
<1>1. RequestsInv /\ [RequestStep]_reqVars => [Kept]_reqVars
  BY DeclineKept
<1> QED
  BY <1>1, RequestsInvariance, PTL DEF Spec, DeclinedIsFinal

-----------------------------------------------------------------------------
(***************************************************************************)
(* PART TWO: Transactions.                                                 *)
(***************************************************************************)

(***************************************************************************)
(* Facts about the machines and about logs.                                *)
(***************************************************************************)

LEMMA States ==
  /\ IntentState = {"committed", "cancelled"}
  /\ SettlementState = {"not_started", "instructed", "in_flight", "settled", "failed", "reversed"}
BY DEF IntentState, SettlementState, transactionIntentMachine, transactionSettlementMachine

\* No declared move leads back to not_started, and what a move needs in its
\* past is what its origin shows, or its origin itself.
LEMMA SettlementMoves ==
  ASSUME NEW from \in SettlementState, NEW to \in SettlementState,
         isDeclared(transactionSettlementMachine, from, to)
  PROVE  /\ to # "not_started"
         /\ to = "in_flight" => from = "instructed"
         /\ to = "settled" => from = "in_flight"
         /\ to = "reversed" => from = "settled"
BY States DEF isDeclared, declaredFrom, transactionSettlementMachine

\* A log one row longer keeps its rows and ends in the new one.
LEMMA LogKeeps ==
  ASSUME NEW S, NEW log \in Seq(S), NEW row \in S
  PROVE  /\ \A i \in DOMAIN log : i \in DOMAIN (log \o <<row>>) /\ (log \o <<row>>)[i] = log[i]
         /\ Len(log) + 1 \in DOMAIN (log \o <<row>>)
         /\ (log \o <<row>>)[Len(log) + 1] = row
         /\ \A i \in DOMAIN log : i < Len(log) + 1
OBVIOUS

\* What a log shows it still shows after a move that its past allows.
LEMMA ShowsMore ==
  ASSUME NEW S, NEW log \in Seq(S), NEW row \in S,
         NEW from \in SettlementState, NEW to \in SettlementState,
         isDeclared(transactionSettlementMachine, from, to),
         row.after = to, Shows(log, from)
  PROVE  /\ Shows(log \o <<row>>, to)
         /\ \A state : Shows(log, state) => Shows(log \o <<row>>, state)
<1> DEFINE longer == log \o <<row>>
           n      == Len(log) + 1
<1>1. /\ \A i \in DOMAIN log : i \in DOMAIN longer /\ longer[i] = log[i] /\ i < n
      /\ n \in DOMAIN longer /\ longer[n] = row
  BY LogKeeps
<1> HIDE DEF longer, n
<1>2. ASSUME NEW state, Shows(log, state) PROVE Shows(longer, state)
  <2>1. ASSUME state = "instructed" PROVE \E i \in DOMAIN longer : longer[i].after = "instructed"
    BY <1>1, <1>2, <2>1 DEF Shows
  <2>2. ASSUME state \in {"in_flight", "settled", "reversed"}
        PROVE  \E i, j \in DOMAIN longer : i < j /\ longer[i].after = "instructed"
                                                 /\ longer[j].after = "in_flight"
    BY <1>1, <1>2, <2>2 DEF Shows
  <2> QED BY <2>1, <2>2 DEF Shows
<1>3. Shows(longer, to)
  <2>1. CASE to = "instructed"
    BY <1>1, <2>1 DEF Shows
  <2>2. CASE to = "in_flight"
    <3>1. PICK i \in DOMAIN log : log[i].after = "instructed"
      BY <2>2, SettlementMoves DEF Shows
    <3>2. i \in DOMAIN longer /\ longer[i].after = "instructed" /\ i < n
      BY <1>1, <3>1
    <3> QED BY <1>1, <2>2, <3>2 DEF Shows
  <2>3. CASE to \in {"settled", "reversed"}
    <3>1. from \in {"in_flight", "settled"} /\ Shows(longer, from)
      BY <1>2, <2>3, SettlementMoves
    <3> QED BY <2>3, <3>1 DEF Shows
  <2>4. CASE to \notin {"instructed", "in_flight", "settled", "reversed"}
    BY <2>4 DEF Shows
  <2> QED BY <2>1, <2>2, <2>3, <2>4
<1> QED
  BY <1>2, <1>3 DEF longer

(***************************************************************************)
(* The inductive invariant.                                                *)
(***************************************************************************)

LEMMA InitTransactionsInv == TransactionsInit => TransactionsInv
<1> SUFFICES ASSUME TransactionsInit PROVE TransactionsInv
  OBVIOUS
<1>1. RequestsInv
  BY InitRequestsInv DEF TransactionsInit
<1>2. TransactionsTypeOK
  BY <1>1 DEF TransactionsInit, TransactionsTypeOK, RequestsInv
<1>3. /\ RecordedTogether /\ CancelledMovesNoMoney /\ ArrivesThroughEveryStage
      /\ HistoriesEndInState /\ MovesAreDeclared
      /\ \A r \in Request : ~ Recorded(r) /\ intent_log[r] = <<>> /\ settlement_log[r] = <<>>
  BY DEF TransactionsInit, RecordedTogether, CancelledMovesNoMoney, ArrivesThroughEveryStage,
         HistoriesEndInState, MovesAreDeclared, Recorded
<1> QED
  BY <1>1, <1>2, <1>3 DEF TransactionsInv

\* Neither a step of Requests nor a step of approveAndRecord takes a row out of
\* the audit log.
RequestLogKept ==
  \A r \in Request : \A i \in DOMAIN request_log[r] :
    i \in DOMAIN request_log'[r] /\ request_log'[r][i] = request_log[r][i]

LEMMA RequestStepKeepsLog ==
  ASSUME RequestsInv, RequestStep
  PROVE  RequestLogKept
<1>1. CASE request_log' = request_log
  BY <1>1 DEF RequestLogKept
<1>2. ASSUME NEW c \in Caller, transition(c) PROVE RequestLogKept
  <2> DEFINE k   == call[c]
             row == AuditRow(k.actor, k.from, k.to)
  <2>1. /\ k \in Resolution /\ request_log[k.id] \in Seq(AuditRows) /\ k.id \in Request
        /\ row \in AuditRows
    BY <1>2 DEF transition, RequestsInv, TypeOK, Resolution, AuditRow, AuditRows
  <2>2. request_log' = [request_log EXCEPT ![k.id] = request_log[k.id] \o <<row>>]
    BY <1>2, <2>1 DEF transition
  <2> HIDE DEF k, row
  <2>3. request_log'[k.id] = request_log[k.id] \o <<row>>
        /\ \A r \in Request \ {k.id} : request_log'[r] = request_log[r]
    BY <2>1, <2>2 DEF RequestsInv, TypeOK
  <2> QED BY <2>1, <2>3, LogKeeps DEF RequestLogKept
<1> QED
  BY <1>1, <1>2 DEF RequestStep, submitRequest, resolve, Abandon

LEMMA RequestStepKeeps ==
  ASSUME TransactionsInv, RequestStep, UNCHANGED txVars
  PROVE  TransactionsInv'
<1>1. RequestsInv'
  BY StepRequestsInv DEF TransactionsInv
<1>2. TransactionsTypeOK'
  BY <1>1 DEF TransactionsInv, TransactionsTypeOK, txVars, RequestsInv
<1>3. RecordedTogether'
  <2>1. RequestLogKept
    BY RequestStepKeepsLog DEF TransactionsInv
  <2> QED BY <2>1 DEF TransactionsInv, RecordedTogether, RequestLogKept, Recorded, txVars
<1>4. CancelledMovesNoMoney' /\ ArrivesThroughEveryStage' /\ HistoriesEndInState'
  BY DEF TransactionsInv, CancelledMovesNoMoney, ArrivesThroughEveryStage, HistoriesEndInState,
         Shows, Recorded, txVars
<1>5. MovesAreDeclared'
  BY DEF TransactionsInv, MovesAreDeclared, Shows, Recorded, txVars
<1> QED
  BY <1>1, <1>2, <1>3, <1>4, <1>5 DEF TransactionsInv, Recorded, txVars

\* The rows of the two state columns, and that no row is mistaken for none.
LEMMA RowsAreRows ==
  ASSUME TransactionsInv, NEW r \in Request, Recorded(r)
  PROVE  transaction[r] \in TransactionRow
BY DEF TransactionsInv, TransactionsTypeOK, Recorded

LEMMA ApproveKeepsRequests ==
  ASSUME TransactionsInv, NEW r \in Request, NEW actor \in Resolver, approveAndRecord(r, actor)
  PROVE  /\ RequestsInv' /\ RequestLogKept
         /\ \E j \in DOMAIN request_log'[r] : request_log'[r][j].after = "approved"
<1> DEFINE row == [request[r] EXCEPT !.status = "approved", !.resolved_by = actor]
           new == AuditRow(actor, request[r].status, "approved")
<1>1. /\ request[r] \in RequestRow /\ request_log[r] \in Seq(AuditRows) /\ Submitted(r)
      /\ request_decline_reason_matches_status(row)
      /\ request_resolution_matches_status(row)
      /\ request' = [request EXCEPT ![r] = row]
      /\ request_log' = [request_log EXCEPT ![r] = request_log[r] \o <<new>>]
      /\ call' = call
  BY DEF approveAndRecord, TransactionsInv, RequestsInv, TypeOK, Submitted
<1>2. row \in RequestRow /\ row # NoRow /\ row.status = "approved" /\ row.resolved_by = actor
  <2>1. row \in RequestRow /\ row.status = "approved" /\ row.resolved_by = actor
    BY <1>1, Statuses DEF RequestRow
  <2> QED BY <2>1, SentinelAssumption DEF RequestRow
<1>3. new \in AuditRows /\ new.after = "approved" /\ new.actor = actor
  BY <1>1, Statuses DEF AuditRow, AuditRows, RequestRow
<1> HIDE DEF row, new
<1>4. /\ request \in [Request -> RequestRow \cup {NoRow}]
      /\ request_log \in [Request -> Seq(AuditRows)]
  BY DEF TransactionsInv, RequestsInv, TypeOK
<1>5. /\ request_log'[r] = request_log[r] \o <<new>>
      /\ request_log'[r] \in Seq(AuditRows) /\ request_log'[r] # <<>>
      /\ Last(request_log'[r]) = new /\ request'[r] = row
      /\ \A s \in Request \ {r} : request'[s] = request[s] /\ request_log'[s] = request_log[s]
  BY <1>1, <1>3, <1>4, LogGrows
<1>6. TypeOK'
  <2>1. request' \in [Request -> RequestRow \cup {NoRow}]
    BY <1>1, <1>2, <1>4
  <2>2. request_log' \in [Request -> Seq(AuditRows)]
    BY <1>1, <1>4, <1>5
  <2> QED BY <1>1, <2>1, <2>2 DEF TransactionsInv, RequestsInv, TypeOK
<1>7. RowsAgree'
  BY <1>1, <1>5 DEF TransactionsInv, RequestsInv, RowsAgree, Submitted,
                    request_decline_reason_matches_status, request_resolution_matches_status
<1>8. CallsHoldDeclaredMoves'
  <2> SUFFICES ASSUME NEW d \in Caller, call[d] # Idle
               PROVE  request'[call[d].id] # NoRow /\ call[d].from = "pending"
    BY <1>1 DEF CallsHoldDeclaredMoves, Submitted
  <2>1. call[d] \in Resolution /\ Submitted(call[d].id) /\ call[d].from = "pending"
    BY DEF TransactionsInv, RequestsInv, TypeOK, CallsHoldDeclaredMoves
  <2> QED BY <1>2, <1>5, <2>1 DEF Submitted, Resolution
<1>9. RowTellsLastDecision'
  <2>1. RowTellsLastDecision
    BY DEF TransactionsInv, RequestsInv
  <2>2. request'[r].status = Last(request_log'[r]).after
        /\ request'[r].resolved_by = Last(request_log'[r]).actor
    BY <1>2, <1>3, <1>5
  <2> QED BY <1>5, <2>1, <2>2 DEF RowTellsLastDecision, Submitted
<1>10. \A s \in Request : ~ Submitted(s)' => request_log'[s] = <<>>
  BY <1>2, <1>5 DEF TransactionsInv, RequestsInv, Submitted
<1>11. RequestLogKept
  BY <1>1, <1>3, <1>5, LogKeeps DEF RequestLogKept
<1>12. \E j \in DOMAIN request_log'[r] : request_log'[r][j].after = "approved"
  BY <1>1, <1>3, <1>5, LogKeeps
<1> QED
  BY <1>6, <1>7, <1>8, <1>9, <1>10, <1>11, <1>12 DEF RequestsInv

LEMMA ApproveKeeps ==
  ASSUME TransactionsInv, NEW r \in Request, NEW actor \in Resolver, approveAndRecord(r, actor)
  PROVE  TransactionsInv'
<1> DEFINE born == [intent_state |-> "committed", settlement_state |-> "not_started"]
<1>1. /\ RequestsInv' /\ RequestLogKept
      /\ \E j \in DOMAIN request_log'[r] : request_log'[r][j].after = "approved"
  BY ApproveKeepsRequests
<1>2. /\ ~ Recorded(r) /\ transaction' = [transaction EXCEPT ![r] = born]
      /\ ledger' = ledger \cup {r}
      /\ intent_log' = intent_log /\ settlement_log' = settlement_log /\ move' = move
  BY DEF approveAndRecord
<1>3. born \in TransactionRow /\ born # NoRow
  BY States, TransactionAssumption DEF TransactionRow
<1>4. /\ transaction'[r] = born /\ \A s \in Request \ {r} : transaction'[s] = transaction[s]
      /\ intent_log[r] = <<>> /\ settlement_log[r] = <<>>
  BY <1>2 DEF TransactionsInv, TransactionsTypeOK
<1>5. TransactionsTypeOK'
  BY <1>1, <1>2, <1>3 DEF TransactionsInv, TransactionsTypeOK, RequestsInv
<1>6. RecordedTogether'
  <2>1. \A s \in Request \ {r} : Recorded(s) => \E j \in DOMAIN request_log[s] :
                                                  request_log[s][j].after = "approved"
    BY DEF TransactionsInv, RecordedTogether
  <2> QED BY <1>1, <1>2, <1>3, <1>4, <2>1
             DEF TransactionsInv, RecordedTogether, RequestLogKept, Recorded
<1>7. CancelledMovesNoMoney' /\ HistoriesEndInState'
  BY <1>2, <1>3, <1>4 DEF TransactionsInv, CancelledMovesNoMoney, HistoriesEndInState, Recorded
<1>8. ArrivesThroughEveryStage'
  BY <1>2, <1>3, <1>4 DEF TransactionsInv, ArrivesThroughEveryStage, Shows, Recorded
<1>9. MovesAreDeclared'
  BY <1>2, <1>3, <1>4
     DEF TransactionsInv, TransactionsTypeOK, Move, MovesAreDeclared, Shows, Recorded
<1>10. /\ \A s \in Request : Recorded(s)' => ((transaction'[s].settlement_state = "not_started")
                                                <=> (settlement_log'[s] = <<>>))
       /\ \A s \in Request : ~ Recorded(s)' => intent_log'[s] = <<>> /\ settlement_log'[s] = <<>>
  BY <1>2, <1>3, <1>4 DEF TransactionsInv, Recorded
<1> QED
  BY <1>1, <1>5, <1>6, <1>7, <1>8, <1>9, <1>10 DEF TransactionsInv

\* The steps that only pick up or put down a move.
LEMMA MoveKeeps ==
  ASSUME TransactionsInv, UNCHANGED <<reqVars, transaction, ledger, intent_log, settlement_log>>,
         move' \in [Mover -> Move \cup {Idle}], MovesAreDeclared'
  PROVE  TransactionsInv'
BY DEF TransactionsInv, TransactionsTypeOK, TypeOK, RequestsInv, RowsAgree, CallsHoldDeclaredMoves,
       RowTellsLastDecision, RecordedTogether, CancelledMovesNoMoney, ArrivesThroughEveryStage,
       HistoriesEndInState, Shows, Recorded, Submitted, reqVars

LEMMA FirstVisitsKeep ==
  ASSUME TransactionsInv, NEW m \in Mover, NEW r \in Request, NEW to \in SettlementState,
         cancelIntent(m, r) \/ advanceSettlement(m, r, to) \/ AbandonMove(m)
  PROVE  TransactionsInv'
<1> SUFFICES move' \in [Mover -> Move \cup {Idle}] /\ MovesAreDeclared'
  BY MoveKeeps DEF cancelIntent, advanceSettlement, AbandonMove
<1>1. CASE AbandonMove(m)
  BY <1>1 DEF AbandonMove, TransactionsInv, TransactionsTypeOK, MovesAreDeclared, Shows, Recorded
<1>2. CASE cancelIntent(m, r)
  <2> DEFINE new == [busy |-> TRUE, id |-> r, column |-> "intent_state",
                     from |-> transaction[r].intent_state, to |-> "cancelled"]
  <2>1. /\ move' = [move EXCEPT ![m] = new] /\ Recorded(r)
        /\ UNCHANGED <<transaction, settlement_log>>
    BY <1>2 DEF cancelIntent
  <2>2. new \in Move
    BY <2>1, RowsAreRows, States DEF TransactionRow, Move
  <2> QED
    BY <2>1, <2>2 DEF TransactionsInv, TransactionsTypeOK, MovesAreDeclared, Shows, Recorded
<1>3. CASE advanceSettlement(m, r, to)
  <2> DEFINE new == [busy |-> TRUE, id |-> r, column |-> "settlement_state",
                     from |-> transaction[r].settlement_state, to |-> to]
  <2>1. /\ move' = [move EXCEPT ![m] = new] /\ Recorded(r)
        /\ isDeclared(transactionSettlementMachine, new.from, new.to)
        /\ UNCHANGED <<transaction, settlement_log>>
    BY <1>3 DEF advanceSettlement
  <2>2. new \in Move
    BY <2>1, RowsAreRows DEF TransactionRow, Move
  <2>3. Shows(settlement_log[r], new.from)
    BY <2>1 DEF TransactionsInv, ArrivesThroughEveryStage
  <2> HIDE DEF new
  <2>4. ASSUME NEW n \in Mover, move'[n] # Idle
        PROVE  /\ transaction[move'[n].id] # NoRow
               /\ move'[n].column = "settlement_state" =>
                    /\ isDeclared(transactionSettlementMachine, move'[n].from, move'[n].to)
                    /\ Shows(settlement_log[move'[n].id], move'[n].from)
    <3>1. CASE n = m
      BY <2>1, <2>2, <2>3, <3>1 DEF TransactionsInv, TransactionsTypeOK, Recorded, new
    <3>2. CASE n # m
      BY <2>1, <2>4, <3>2 DEF TransactionsInv, TransactionsTypeOK, MovesAreDeclared, Recorded
    <3> QED BY <3>1, <3>2
  <2> QED
    BY <2>1, <2>2, <2>4 DEF TransactionsInv, TransactionsTypeOK, MovesAreDeclared, Shows, Recorded
<1> QED
  BY <1>1, <1>2, <1>3

\* What both commits have in common: one row is updated, in one of its columns,
\* and one row is added to the log of that column.
LEMMA CommitFacts ==
  ASSUME TransactionsInv, NEW m \in Mover, move[m] # Idle
  PROVE  /\ move[m] \in Move /\ move[m].id \in Request /\ Recorded(move[m].id)
         /\ transaction[move[m].id] \in TransactionRow
         /\ move[m].column = "intent_state" => move[m].from \in IntentState
                                                 /\ move[m].to \in IntentState
         /\ move[m].column = "settlement_state" =>
              /\ move[m].from \in SettlementState /\ move[m].to \in SettlementState
              /\ isDeclared(transactionSettlementMachine, move[m].from, move[m].to)
              /\ Shows(settlement_log[move[m].id], move[m].from)
<1>1. move[m] \in Move
  BY DEF TransactionsInv, TransactionsTypeOK
<1>2. move[m].id \in Request
        /\ (move[m].column = "intent_state" => move[m].from \in IntentState
                                                /\ move[m].to \in IntentState)
        /\ (move[m].column = "settlement_state" => move[m].from \in SettlementState
                                                    /\ move[m].to \in SettlementState)
  BY <1>1 DEF Move
<1>3. Recorded(move[m].id)
  BY DEF TransactionsInv, MovesAreDeclared
<1> QED
  BY <1>1, <1>2, <1>3, RowsAreRows DEF TransactionsInv, MovesAreDeclared

LEMMA CommitCancelKeeps ==
  ASSUME TransactionsInv, NEW m \in Mover, CommitCancel(m)
  PROVE  TransactionsInv'
<1> DEFINE k   == move[m]
           id  == k.id
           old == transaction[id]
           row == [old EXCEPT !.intent_state = k.to]
           new == AuditRow(Null, k.from, k.to)
<1>1. /\ id \in Request /\ Recorded(id) /\ old \in TransactionRow
      /\ k.from \in IntentState /\ k.to \in IntentState
  BY CommitFacts DEF CommitCancel
<1>2. /\ UpdateAllowed(id, row, <<new>>)
      /\ transaction' = [transaction EXCEPT ![id] = row]
      /\ intent_log' = [intent_log EXCEPT ![id] = intent_log[id] \o <<new>>]
      /\ move' = [move EXCEPT ![m] = Idle]
      /\ UNCHANGED <<reqVars, ledger, settlement_log>>
  BY <1>1 DEF CommitCancel
<1>3. /\ row \in TransactionRow /\ row # NoRow
      /\ row.intent_state = k.to /\ row.settlement_state = old.settlement_state
  BY <1>1, TransactionAssumption DEF TransactionRow
<1>4. new \in MoveRows(IntentState) /\ new.after = k.to
  BY <1>1 DEF AuditRow, MoveRows
<1>5. row.intent_state = "cancelled" => row.settlement_state = "not_started"
  BY <1>2, States DEF UpdateAllowed, transaction_cancelled_intent_has_no_settlement
<1>6. /\ transaction'[id] = row /\ \A s \in Request \ {id} : transaction'[s] = transaction[s]
      /\ intent_log'[id] = intent_log[id] \o <<new>>
      /\ \A s \in Request \ {id} : intent_log'[s] = intent_log[s]
      /\ intent_log[id] \in Seq(MoveRows(IntentState))
      /\ \A n \in Mover : move'[n] # Idle => move'[n] = move[n]
      /\ UNCHANGED <<request, request_log, call>>
  BY <1>1, <1>2 DEF TransactionsInv, TransactionsTypeOK, reqVars
<1> HIDE DEF row, new, k
<1>7. /\ intent_log'[id] \in Seq(MoveRows(IntentState)) /\ intent_log'[id] # <<>>
      /\ Last(intent_log'[id]) = new
  BY <1>4, <1>6, LogGrows
<1>8. RequestsInv'
  BY <1>6 DEF TransactionsInv, RequestsInv, TypeOK, RowsAgree, CallsHoldDeclaredMoves,
              RowTellsLastDecision, Submitted
<1>9. TransactionsTypeOK'
  <2>1. transaction' \in [Request -> TransactionRow \cup {NoRow}]
    BY <1>2, <1>3 DEF TransactionsInv, TransactionsTypeOK
  <2>2. intent_log' \in [Request -> Seq(MoveRows(IntentState))]
    BY <1>2, <1>6, <1>7 DEF TransactionsInv, TransactionsTypeOK
  <2>3. move' \in [Mover -> Move \cup {Idle}]
    BY <1>2 DEF TransactionsInv, TransactionsTypeOK
  <2> QED BY <1>2, <1>8, <2>1, <2>2, <2>3 DEF TransactionsInv, TransactionsTypeOK, RequestsInv
<1>10. RecordedTogether'
  BY <1>1, <1>2, <1>3, <1>6 DEF TransactionsInv, RecordedTogether, Recorded
<1>11. CancelledMovesNoMoney'
  <2>1. row.intent_state = "cancelled" => settlement_log[id] = <<>>
    BY <1>1, <1>3, <1>5 DEF TransactionsInv
  <2> QED BY <1>2, <1>5, <1>6, <2>1 DEF TransactionsInv, CancelledMovesNoMoney, Recorded
<1>12. ArrivesThroughEveryStage'
  BY <1>1, <1>2, <1>3, <1>6 DEF TransactionsInv, ArrivesThroughEveryStage, Shows, Recorded
<1>13. HistoriesEndInState'
  BY <1>1, <1>2, <1>3, <1>4, <1>6, <1>7 DEF TransactionsInv, HistoriesEndInState, Recorded
<1>14. MovesAreDeclared'
  BY <1>1, <1>2, <1>3, <1>6 DEF TransactionsInv, TransactionsTypeOK, Move, MovesAreDeclared, Shows,
                                Recorded
<1>15. /\ \A s \in Request : Recorded(s)' => ((transaction'[s].settlement_state = "not_started")
                                                <=> (settlement_log'[s] = <<>>))
       /\ \A s \in Request : ~ Recorded(s)' => intent_log'[s] = <<>> /\ settlement_log'[s] = <<>>
  BY <1>1, <1>2, <1>3, <1>6 DEF TransactionsInv, Recorded
<1> QED
  BY <1>8, <1>9, <1>10, <1>11, <1>12, <1>13, <1>14, <1>15 DEF TransactionsInv

LEMMA CommitAdvanceKeeps ==
  ASSUME TransactionsInv, NEW m \in Mover, CommitAdvance(m)
  PROVE  TransactionsInv'
<1> DEFINE k   == move[m]
           id  == k.id
           old == transaction[id]
           row == [old EXCEPT !.settlement_state = k.to]
           new == AuditRow(Null, k.from, k.to)
<1>1. /\ id \in Request /\ Recorded(id) /\ old \in TransactionRow
      /\ k.from \in SettlementState /\ k.to \in SettlementState
      /\ isDeclared(transactionSettlementMachine, k.from, k.to)
      /\ Shows(settlement_log[id], k.from) /\ k.to # "not_started"
  BY CommitFacts, SettlementMoves DEF CommitAdvance
<1>2. /\ UpdateAllowed(id, row, <<new>>)
      /\ transaction' = [transaction EXCEPT ![id] = row]
      /\ settlement_log' = [settlement_log EXCEPT ![id] = settlement_log[id] \o <<new>>]
      /\ move' = [move EXCEPT ![m] = Idle]
      /\ UNCHANGED <<reqVars, ledger, intent_log>>
  BY <1>1 DEF CommitAdvance
<1>3. /\ row \in TransactionRow /\ row # NoRow
      /\ row.settlement_state = k.to /\ row.intent_state = old.intent_state
  BY <1>1, TransactionAssumption DEF TransactionRow
<1>4. new \in MoveRows(SettlementState) /\ new.after = k.to
  BY <1>1 DEF AuditRow, MoveRows
<1>5. row.intent_state # "cancelled"
  BY <1>1, <1>2, <1>3 DEF UpdateAllowed, transaction_cancelled_intent_has_no_settlement
<1>6. /\ transaction'[id] = row /\ \A s \in Request \ {id} : transaction'[s] = transaction[s]
      /\ settlement_log'[id] = settlement_log[id] \o <<new>>
      /\ \A s \in Request \ {id} : settlement_log'[s] = settlement_log[s]
      /\ settlement_log[id] \in Seq(MoveRows(SettlementState))
      /\ \A n \in Mover : move'[n] # Idle => move'[n] = move[n]
      /\ UNCHANGED <<request, request_log, call>>
  BY <1>1, <1>2 DEF TransactionsInv, TransactionsTypeOK, reqVars
<1> HIDE DEF row, new, k
<1>7. /\ settlement_log'[id] \in Seq(MoveRows(SettlementState)) /\ settlement_log'[id] # <<>>
      /\ Last(settlement_log'[id]) = new
  BY <1>4, <1>6, LogGrows
<1>8. /\ Shows(settlement_log'[id], row.settlement_state)
      /\ \A state : Shows(settlement_log[id], state) => Shows(settlement_log'[id], state)
  BY <1>1, <1>3, <1>4, <1>6, ShowsMore
<1>9. RequestsInv'
  BY <1>6 DEF TransactionsInv, RequestsInv, TypeOK, RowsAgree, CallsHoldDeclaredMoves,
              RowTellsLastDecision, Submitted
<1>10. TransactionsTypeOK'
  <2>1. transaction' \in [Request -> TransactionRow \cup {NoRow}]
    BY <1>2, <1>3 DEF TransactionsInv, TransactionsTypeOK
  <2>2. settlement_log' \in [Request -> Seq(MoveRows(SettlementState))]
    BY <1>2, <1>6, <1>7 DEF TransactionsInv, TransactionsTypeOK
  <2>3. move' \in [Mover -> Move \cup {Idle}]
    BY <1>2 DEF TransactionsInv, TransactionsTypeOK
  <2> QED BY <1>2, <1>9, <2>1, <2>2, <2>3 DEF TransactionsInv, TransactionsTypeOK, RequestsInv
<1>11. RecordedTogether'
  BY <1>1, <1>2, <1>3, <1>6 DEF TransactionsInv, RecordedTogether, Recorded
<1>12. CancelledMovesNoMoney'
  BY <1>2, <1>5, <1>6 DEF TransactionsInv, CancelledMovesNoMoney, Recorded
<1>13. ArrivesThroughEveryStage'
  <2> SUFFICES ASSUME NEW s \in Request, transaction'[s] # NoRow
               PROVE  Shows(settlement_log'[s], transaction'[s].settlement_state)
    BY DEF ArrivesThroughEveryStage, Recorded, Shows
  <2>1. CASE s = id
    BY <1>6, <1>8, <2>1
  <2>2. CASE s # id
    BY <1>6, <2>2 DEF TransactionsInv, ArrivesThroughEveryStage, Recorded
  <2> QED BY <2>1, <2>2
<1>14. HistoriesEndInState'
  BY <1>1, <1>2, <1>3, <1>4, <1>6, <1>7 DEF TransactionsInv, HistoriesEndInState, Recorded
<1>15. MovesAreDeclared'
  <2> SUFFICES ASSUME NEW n \in Mover, move'[n] # Idle
               PROVE  /\ transaction'[move'[n].id] # NoRow
                      /\ move'[n].column = "settlement_state" =>
                           /\ isDeclared(transactionSettlementMachine, move'[n].from, move'[n].to)
                           /\ Shows(settlement_log'[move'[n].id], move'[n].from)
    BY DEF MovesAreDeclared, Recorded, Shows
  <2>1. move'[n] = move[n] /\ move[n].id \in Request /\ transaction[move[n].id] # NoRow
    BY <1>6, CommitFacts DEF Recorded
  <2>2. move[n].column = "settlement_state" =>
          /\ isDeclared(transactionSettlementMachine, move[n].from, move[n].to)
          /\ Shows(settlement_log[move[n].id], move[n].from)
    BY <2>1, CommitFacts
  <2> QED BY <1>3, <1>6, <1>8, <2>1, <2>2
<1>16. /\ \A s \in Request : Recorded(s)' => ((transaction'[s].settlement_state = "not_started")
                                                <=> (settlement_log'[s] = <<>>))
       /\ \A s \in Request : ~ Recorded(s)' => intent_log'[s] = <<>> /\ settlement_log'[s] = <<>>
  BY <1>1, <1>2, <1>3, <1>6, <1>7 DEF TransactionsInv, Recorded
<1> QED
  BY <1>9, <1>10, <1>11, <1>12, <1>13, <1>14, <1>15, <1>16 DEF TransactionsInv

LEMMA StepTransactionsInv == TransactionsInv /\ [TransactionsNext]_vars => TransactionsInv'
<1> SUFFICES ASSUME TransactionsInv, [TransactionsNext]_vars PROVE TransactionsInv'
  OBVIOUS
<1>1. CASE UNCHANGED vars
  <2>1. MovesAreDeclared' /\ move' \in [Mover -> Move \cup {Idle}]
    BY <1>1 DEF vars, txVars, TransactionsInv, TransactionsTypeOK, MovesAreDeclared, Shows, Recorded
  <2> QED BY <1>1, <2>1, MoveKeeps DEF vars, txVars
<1>2. CASE TransactionStep
  <2>1. ASSUME NEW m \in Mover, NEW r \in Request, cancelIntent(m, r) PROVE TransactionsInv'
    BY <2>1, FirstVisitsKeep, States
  <2>2. ASSUME NEW m \in Mover, AbandonMove(m) PROVE TransactionsInv'
    <3>1. UNCHANGED <<reqVars, transaction, ledger, intent_log, settlement_log>>
            /\ move' = [move EXCEPT ![m] = Idle]
      BY <2>2 DEF AbandonMove
    <3>2. MovesAreDeclared' /\ move' \in [Mover -> Move \cup {Idle}]
      BY <3>1 DEF TransactionsInv, TransactionsTypeOK, MovesAreDeclared, Shows, Recorded
    <3> QED BY <3>1, <3>2, MoveKeeps
  <2> QED
    BY <1>2, <2>1, <2>2, ApproveKeeps, FirstVisitsKeep, CommitCancelKeeps, CommitAdvanceKeeps
       DEF TransactionStep
<1> QED
  BY <1>1, <1>2, RequestStepKeeps DEF TransactionsNext

\* The inductive invariant, and with it everything Requests promises, holds in
\* every reachable state of the two components together.
THEOREM TransactionsInvariance == TransactionsSpec => []TransactionsInv
BY InitTransactionsInv, StepTransactionsInv, PTL DEF TransactionsSpec

(***************************************************************************)
(* What follows from it.                                                   *)
(***************************************************************************)

\* No race of stale cancels and stale advances moves money for a withdrawn
\* agreement.
THEOREM WithdrawnMovesNoMoney == TransactionsSpec => []CancelledMovesNoMoney
<1>1. TransactionsInv => CancelledMovesNoMoney
  BY DEF TransactionsInv
<1> QED
  BY <1>1, TransactionsInvariance, PTL

\* Money arrives only after it was instructed and in flight, in that order.
THEOREM NoStageIsSkipped == TransactionsSpec => []ArrivesThroughEveryStage
<1>1. TransactionsInv => ArrivesThroughEveryStage
  BY DEF TransactionsInv
<1> QED
  BY <1>1, TransactionsInvariance, PTL

\* Nothing in Transactions touches a request that is declined: approveAndRecord
\* finds the approval undeclared.
THEOREM DeclinesStayFinal == TransactionsSpec => DeclinedIsFinal
<1> DEFINE Kept == \A r \in Request : (Submitted(r) /\ request[r].status = "declined")
                                        => request'[r].status = "declined"
<1>1. ASSUME TransactionsInv, [TransactionsNext]_vars, NEW r \in Request, Submitted(r),
             request[r].status = "declined"
      PROVE  request'[r].status = "declined"
  <2>1. CASE RequestStep
    BY <1>1, <2>1, DeclineKept DEF TransactionsInv
  <2>2. ASSUME NEW s \in Request, NEW a \in Resolver, approveAndRecord(s, a)
        PROVE  request'[r].status = "declined"
    <3>1. request[s].status # "declined"
      BY <2>2 DEF approveAndRecord, isDeclared, declaredFrom, requestMachine
    <3>2. s # r /\ request'[r] = request[r]
      BY <1>1, <2>2, <3>1 DEF approveAndRecord, TransactionsInv, RequestsInv, TypeOK
    <3> QED BY <1>1, <3>2
  <2>3. CASE request' = request
    BY <1>1, <2>3
  <2> QED
    BY <1>1, <2>1, <2>2, <2>3
       DEF TransactionsNext, TransactionStep, vars, reqVars, cancelIntent, advanceSettlement,
           CommitCancel, CommitAdvance, AbandonMove
<1>2. TransactionsInv /\ [TransactionsNext]_vars => [Kept]_reqVars
  BY <1>1
<1> QED
  BY <1>2, TransactionsInvariance, PTL DEF TransactionsSpec, DeclinedIsFinal

\* Stale cancels and advances included, a transaction is written only while its
\* request is approved.
THEOREM ApprovedWhileItMoves == TransactionsSpec => MovesOnlyWhileApproved
<1> DEFINE Moves == \A r \in Request :
                      transaction'[r] # transaction[r] => request'[r].status = "approved"
<1>1. ASSUME TransactionsInv, [TransactionsNext]_vars, NEW r \in Request,
             transaction'[r] # transaction[r]
      PROVE  request'[r].status = "approved"
  <2>1. ASSUME NEW s \in Request, NEW a \in Resolver, approveAndRecord(s, a)
        PROVE  request'[r].status = "approved"
    <3>1. s = r
      BY <1>1, <2>1 DEF approveAndRecord, TransactionsInv, TransactionsTypeOK
    <3>2. Submitted(s) /\ request \in [Request -> RequestRow \cup {NoRow}]
      BY <1>1, <2>1 DEF approveAndRecord, TransactionsInv, RequestsInv, TypeOK
    <3>3. request[r] \in RequestRow
      BY <3>1, <3>2 DEF Submitted
    <3>4. request' = [request EXCEPT ![s] = [request[s] EXCEPT !.status = "approved",
                                                             !.resolved_by = a]]
      BY <2>1 DEF approveAndRecord
    <3> QED BY <3>1, <3>2, <3>3, <3>4 DEF RequestRow
  <2>2. ASSUME NEW m \in Mover, CommitCancel(m) \/ CommitAdvance(m)
        PROVE  request'[r].status = "approved"
    <3>1. request' = request /\ transaction_check_request_approved(request[move[m].id])
      BY <2>2 DEF CommitCancel, CommitAdvance, UpdateAllowed, reqVars
    <3>2. PICK row : transaction' = [transaction EXCEPT ![move[m].id] = row]
      BY <2>2 DEF CommitCancel, CommitAdvance
    <3>3. move[m].id = r
      BY <1>1, <3>2 DEF TransactionsInv, TransactionsTypeOK
    <3> QED BY <3>1, <3>3 DEF transaction_check_request_approved
  <2> QED
    BY <1>1, <2>1, <2>2
       DEF TransactionsNext, TransactionStep, vars, txVars, cancelIntent, advanceSettlement,
           AbandonMove
<1>2. TransactionsInv /\ [TransactionsNext]_vars => [Moves]_vars
  BY <1>1
<1> QED
  BY <1>2, TransactionsInvariance, PTL DEF TransactionsSpec, MovesOnlyWhileApproved

-----------------------------------------------------------------------------
(***************************************************************************)
(* PART THREE: the routes over requests.                                   *)
(***************************************************************************)

(***************************************************************************)
(* The routes implement Transactions.                                      *)
(***************************************************************************)

LEMMA RouteStepsAreSteps ==
  ASSUME [RoutesNext]_<<vars, routeVars>>
  PROVE  [TransactionsNext]_vars
<1>1. ASSUME NEW r \in Request, NEW p \in Resolver, submitRoute(r, p) PROVE TransactionsNext
  BY <1>1 DEF submitRoute, TransactionsNext, RequestStep
<1>2. ASSUME NEW c \in Caller, NEW r \in Request, resolveRoute(c, r) PROVE TransactionsNext
  BY <1>2 DEF resolveRoute, TransactionsNext, RequestStep
<1>3. ASSUME NEW c \in Caller, commitRoute(c) \/ failRoute(c) PROVE TransactionsNext
  BY <1>3 DEF commitRoute, failRoute, TransactionsNext, RequestStep
<1>4. ASSUME NEW c \in Caller, answer(c) \/ answerIsLost(c) PROVE UNCHANGED vars
  BY <1>4 DEF answer, answerIsLost, vars
<1>5. ASSUME NEW r \in Request, approveAndRecord(r, user_a[r]) PROVE TransactionsNext
  BY <1>5, RoutesAssumption DEF TransactionsNext, TransactionStep
<1>6. ASSUME NEW m \in Mover, NEW r \in Request, NEW to \in SettlementState,
             cancelIntent(m, r) \/ advanceSettlement(m, r, to)
      PROVE  TransactionsNext
  BY <1>6 DEF TransactionsNext, TransactionStep
<1>7. ASSUME NEW m \in Mover, NEW r \in Request, cancelIntent(m, r) PROVE TransactionsNext
  BY <1>7 DEF TransactionsNext, TransactionStep
<1>8. ASSUME NEW m \in Mover, CommitCancel(m) \/ CommitAdvance(m) \/ AbandonMove(m)
      PROVE  TransactionsNext
  BY <1>8 DEF TransactionsNext, TransactionStep
<1>9. CASE UNCHANGED <<vars, routeVars>>
  BY <1>9
<1> QED
  BY <1>1, <1>2, <1>3, <1>4, <1>5, <1>6, <1>7, <1>8, <1>9 DEF RoutesNext

\* Every behavior of the routes is one of Transactions: what is proved of
\* Transactions holds of the program as it is called over HTTP.
THEOREM RoutesImplementTransactions == RoutesSpec => TransactionsSpec
<1>1. RoutesInit => TransactionsInit
  BY DEF RoutesInit
<1> QED
  BY <1>1, RouteStepsAreSteps, PTL DEF RoutesSpec, TransactionsSpec

(***************************************************************************)
(* The inductive invariant.                                                *)
(***************************************************************************)

LEMMA InitRoutesInv == RoutesInit => RoutesInv
<1> SUFFICES ASSUME RoutesInit PROVE RoutesInv
  OBVIOUS
<1>1. TransactionsInv
  BY InitTransactionsInv DEF RoutesInit
<1>2. /\ \A r \in Request : ~ Submitted(r)
      /\ \A c \in Caller : call[c] = Idle
      /\ \A c \in Caller : reply[c].told = "nothing"
  BY DEF RoutesInit, TransactionsInit, Init, Submitted
<1>3. RoutesTypeOK
  BY <1>1 DEF RoutesInit, RoutesTypeOK, TransactionsInv, Reply
<1> QED
  BY <1>1, <1>2, <1>3 DEF RoutesInv, SenderDecides, AnswersShowTheDecision, CallsAreTheSenders,
                          RepliesFollowDecisions

\* What a step does to the log of a request: it adds at most one row, and that
\* row is a decision of the sender or of the system.
LogStep ==
  \A r \in Request :
    \/ request_log'[r] = request_log[r]
    \/ \E row \in AuditRows : /\ row.actor \in {Null, user_a[r]}
                              /\ request_log'[r] = request_log[r] \o <<row>>

LEMMA DecisionsStay ==
  ASSUME TransactionsInv, LogStep, NEW r \in Request
  PROVE  /\ \A i \in DOMAIN request_log[r] :
              i \in DOMAIN request_log'[r] /\ request_log'[r][i] = request_log[r][i]
         /\ Len(request_log[r]) <= Len(request_log'[r])
<1>1. request_log[r] \in Seq(AuditRows)
  BY DEF TransactionsInv, RequestsInv, TypeOK
<1>2. CASE request_log'[r] = request_log[r]
  BY <1>1, <1>2
<1>3. ASSUME NEW row \in AuditRows, request_log'[r] = request_log[r] \o <<row>>
      PROVE  /\ \A i \in DOMAIN request_log[r] :
                   i \in DOMAIN request_log'[r] /\ request_log'[r][i] = request_log[r][i]
             /\ Len(request_log[r]) <= Len(request_log'[r])
  BY <1>1, <1>3, LogKeeps
<1> QED
  BY <1>2, <1>3 DEF LogStep

LEMMA ActorsStay ==
  ASSUME TransactionsInv, LogStep, NEW r \in Request,
         \A i \in DOMAIN request_log[r] : request_log[r][i].actor \in {Null, user_a[r]}
  PROVE  \A i \in DOMAIN request_log'[r] : request_log'[r][i].actor \in {Null, user_a[r]}
<1>1. request_log[r] \in Seq(AuditRows)
  BY DEF TransactionsInv, RequestsInv, TypeOK
<1>2. CASE request_log'[r] = request_log[r]
  BY <1>2
<1>3. ASSUME NEW row \in AuditRows, row.actor \in {Null, user_a[r]},
             request_log'[r] = request_log[r] \o <<row>>
      PROVE  \A i \in DOMAIN request_log'[r] : request_log'[r][i].actor \in {Null, user_a[r]}
  <2>1. \A i \in DOMAIN (request_log[r] \o <<row>>) :
          \/ i \in DOMAIN request_log[r]
               /\ (request_log[r] \o <<row>>)[i] = request_log[r][i]
          \/ (request_log[r] \o <<row>>)[i] = row
    BY <1>1
  <2> QED BY <1>3, <2>1
<1> QED
  BY <1>2, <1>3 DEF LogStep

\* What the routes promise of requests and of the calls that hold decisions.
LEMMA SenderKeeps ==
  ASSUME RoutesInv, TransactionsInv', LogStep,
         \A r \in Request : Submitted(r)' => requested_by'[r] = user_b[r]
  PROVE  SenderDecides'
<1> SUFFICES ASSUME NEW r \in Request, Submitted(r)'
             PROVE  /\ request'[r].resolved_by \in {Null, user_a[r]}
                    /\ \A i \in DOMAIN request_log'[r] :
                         request_log'[r][i].actor \in {Null, user_a[r]}
  BY DEF SenderDecides
<1>1. \A i \in DOMAIN request_log[r] : request_log[r][i].actor \in {Null, user_a[r]}
  <2>1. CASE Submitted(r)
    BY <2>1 DEF RoutesInv, SenderDecides
  <2>2. CASE ~ Submitted(r)
    BY <2>2 DEF RoutesInv, TransactionsInv, RequestsInv
  <2> QED BY <2>1, <2>2
<1>2. \A i \in DOMAIN request_log'[r] : request_log'[r][i].actor \in {Null, user_a[r]}
  BY <1>1, ActorsStay DEF RoutesInv
<1>3. request'[r].resolved_by \in {Null, user_a[r]}
  <2>1. RowTellsLastDecision' /\ request_resolution_matches_status(request[r])'
        /\ request_log'[r] \in Seq(AuditRows)
    BY DEF TransactionsInv, RequestsInv, TypeOK, RowsAgree
  <2>2. CASE request_log'[r] = <<>>
    BY <2>1, <2>2 DEF RowTellsLastDecision, request_resolution_matches_status
  <2>3. CASE request_log'[r] # <<>>
    <3>1. /\ Len(request_log'[r]) \in DOMAIN request_log'[r]
          /\ Last(request_log'[r]) = request_log'[r][Len(request_log'[r])]
      BY <2>1, <2>3 DEF Last
    <3> QED BY <1>2, <2>1, <2>3, <3>1 DEF RowTellsLastDecision
  <2> QED BY <2>2, <2>3
<1> QED
  BY <1>2, <1>3

\* An answer that was true stays true, and one that is owed stays owed of a
\* decision in the log, as long as the log only grows.
LEMMA AnswersKeep ==
  ASSUME RoutesInv, LogStep, NEW c \in Caller, reply'[c] = reply[c]
  PROVE  /\ reply'[c].told # "nothing" =>
              reply'[c].after \in DOMAIN request_log'[reply'[c].id]
         /\ reply'[c].told = "row" =>
              \E i \in reply'[c].after .. Len(request_log'[reply'[c].id]) :
                /\ reply'[c].row.status = request_log'[reply'[c].id][i].after
                /\ reply'[c].row.resolved_by = request_log'[reply'[c].id][i].actor
                /\ request_decline_reason_matches_status(reply'[c].row)
<1> DEFINE a == reply[c]
<1> SUFFICES ASSUME a.told # "nothing"
             PROVE  /\ a.after \in DOMAIN request_log'[a.id]
                    /\ a.told = "row" =>
                         \E i \in a.after .. Len(request_log'[a.id]) :
                           /\ a.row.status = request_log'[a.id][i].after
                           /\ a.row.resolved_by = request_log'[a.id][i].actor
                           /\ request_decline_reason_matches_status(a.row)
  OBVIOUS
<1>1. a.id \in Request /\ a.after \in DOMAIN request_log[a.id]
  BY DEF RoutesInv, RoutesTypeOK, Reply, RepliesFollowDecisions
<1>2. /\ request_log[a.id] \in Seq(AuditRows)
      /\ \A i \in DOMAIN request_log[a.id] :
           i \in DOMAIN request_log'[a.id] /\ request_log'[a.id][i] = request_log[a.id][i]
      /\ Len(request_log[a.id]) <= Len(request_log'[a.id])
  BY <1>1, DecisionsStay DEF RoutesInv, TransactionsInv, RequestsInv, TypeOK
<1>3. ASSUME a.told = "row"
      PROVE  \E i \in a.after .. Len(request_log'[a.id]) :
               /\ a.row.status = request_log'[a.id][i].after
               /\ a.row.resolved_by = request_log'[a.id][i].actor
               /\ request_decline_reason_matches_status(a.row)
  <2>1. PICK i \in a.after .. Len(request_log[a.id]) :
          /\ a.row.status = request_log[a.id][i].after
          /\ a.row.resolved_by = request_log[a.id][i].actor
          /\ request_decline_reason_matches_status(a.row)
    BY <1>3 DEF RoutesInv, AnswersShowTheDecision
  <2>2. i \in DOMAIN request_log[a.id]
    BY <1>1, <1>2, <2>1
  <2>3. /\ i \in a.after .. Len(request_log'[a.id])
        /\ request_log'[a.id][i] = request_log[a.id][i]
    <3>1. Len(request_log'[a.id]) \in Nat
      BY <1>1, <1>2 DEF LogStep
    <3> QED BY <1>1, <1>2, <2>1, <2>2, <3>1
  <2> QED BY <2>1, <2>3
<1> QED
  BY <1>1, <1>2, <1>3

\* A step of the components below, the replies as they were.
LEMMA QuietStepKeeps ==
  ASSUME RoutesInv, TransactionsInv', LogStep, UNCHANGED routeVars, CallsAreTheSenders',
         \A r \in Request : Submitted(r)' => Submitted(r)
  PROVE  RoutesInv'
<1>1. RoutesTypeOK'
  BY DEF RoutesInv, RoutesTypeOK, routeVars, TransactionsInv
<1>2. SenderDecides'
  <2>1. \A r \in Request : Submitted(r)' => requested_by'[r] = user_b[r]
    BY DEF RoutesInv, SenderDecides, routeVars
  <2> QED BY <2>1, SenderKeeps
<1>3. AnswersShowTheDecision' /\ RepliesFollowDecisions'
  BY AnswersKeep DEF routeVars, AnswersShowTheDecision, RepliesFollowDecisions
<1> QED
  BY <1>1, <1>2, <1>3 DEF RoutesInv

LEMMA SubmitRouteKeeps ==
  ASSUME RoutesInv, TransactionsInv', NEW r \in Request, NEW p \in Resolver, submitRoute(r, p)
  PROVE  RoutesInv'
<1>1. /\ request_log' = request_log /\ call' = call /\ reply' = reply
      /\ requested_by' = [requested_by EXCEPT ![r] = p] /\ roleOf(r, p) = "recipient"
      /\ \A s \in Request \ {r} : request'[s] = request[s]
  BY DEF submitRoute, submitRequest, authorized, RoutesInv, TransactionsInv, RequestsInv, TypeOK
<1>2. p = user_b[r]
  BY <1>1 DEF roleOf
<1>3. LogStep
  BY <1>1 DEF LogStep
<1>4. RoutesTypeOK'
  BY <1>1 DEF RoutesInv, RoutesTypeOK, TransactionsInv
<1>5. SenderDecides'
  <2>1. \A s \in Request : Submitted(s)' => requested_by'[s] = user_b[s]
    BY <1>1, <1>2 DEF RoutesInv, RoutesTypeOK, SenderDecides, Submitted
  <2> QED BY <1>3, <2>1, SenderKeeps
<1>6. AnswersShowTheDecision' /\ RepliesFollowDecisions'
  BY <1>1, <1>3, AnswersKeep DEF AnswersShowTheDecision, RepliesFollowDecisions
<1>7. CallsAreTheSenders'
  BY <1>1 DEF RoutesInv, CallsAreTheSenders
<1> QED
  BY <1>4, <1>5, <1>6, <1>7 DEF RoutesInv

LEMMA ResolveRouteKeeps ==
  ASSUME RoutesInv, TransactionsInv', NEW c \in Caller, NEW r \in Request, resolveRoute(c, r)
  PROVE  RoutesInv'
<1>1. /\ request' = request /\ request_log' = request_log /\ requested_by' = requested_by
      /\ reply' = [reply EXCEPT ![c] = [told |-> "nothing"]]
      /\ call'[c].actor # Null => authorized(r, call'[c].actor, "sender")
  BY DEF resolveRoute, resolve
<1>2. /\ call'[c].id = r
      /\ \A d \in Caller \ {c} : call'[d] = call[d]
  BY DEF resolveRoute, resolve, RoutesInv, TransactionsInv, RequestsInv, TypeOK
<1>3. LogStep
  BY <1>1 DEF LogStep
<1>4. RoutesTypeOK'
  BY <1>1 DEF RoutesInv, RoutesTypeOK, TransactionsInv, Reply
<1>5. SenderDecides'
  <2>1. \A s \in Request : Submitted(s)' => requested_by'[s] = user_b[s]
    BY <1>1 DEF RoutesInv, SenderDecides, Submitted
  <2> QED BY <1>3, <2>1, SenderKeeps
<1>6. AnswersShowTheDecision' /\ RepliesFollowDecisions'
  <2>1. reply'[c].told = "nothing" /\ \A d \in Caller \ {c} : reply'[d] = reply[d]
    BY <1>1 DEF RoutesInv, RoutesTypeOK
  <2> QED BY <1>3, <2>1, AnswersKeep DEF AnswersShowTheDecision, RepliesFollowDecisions
<1>7. CallsAreTheSenders'
  <2>1. call'[c].actor # Null => call'[c].actor = user_a[r]
    BY <1>1 DEF authorized, roleOf
  <2> QED BY <1>2, <2>1 DEF RoutesInv, CallsAreTheSenders
<1> QED
  BY <1>4, <1>5, <1>6, <1>7 DEF RoutesInv

\* The decision of a call is added to the log of its request.
LEMMA CommitAdds ==
  ASSUME RoutesInv, NEW c \in Caller, transition(c)
  PROVE  /\ LogStep
         /\ call[c].id \in Request
         /\ Len(request_log'[call[c].id]) \in DOMAIN request_log'[call[c].id]
         /\ request_log'[call[c].id] \in Seq(AuditRows)
         /\ call' = [call EXCEPT ![c] = Idle]
         /\ \A s \in Request : Submitted(s)' => Submitted(s)
<1> DEFINE k   == call[c]
           row == AuditRow(k.actor, k.from, k.to)
<1>1. /\ k \in Resolution /\ k.id \in Request /\ row \in AuditRows
      /\ row.actor \in {Null, user_a[k.id]} /\ Submitted(k.id)
      /\ request_log \in [Request -> Seq(AuditRows)]
      /\ request \in [Request -> RequestRow \cup {NoRow}]
  BY DEF transition, RoutesInv, TransactionsInv, RequestsInv, TypeOK, Resolution, AuditRow,
         AuditRows, CallsAreTheSenders, CallsHoldDeclaredMoves
<1>2. /\ request_log' = [request_log EXCEPT ![k.id] = request_log[k.id] \o <<row>>]
      /\ call' = [call EXCEPT ![c] = Idle]
      /\ \A s \in Request \ {k.id} : request'[s] = request[s]
  BY <1>1 DEF transition
<1> HIDE DEF k, row
<1>3. /\ request_log'[k.id] = request_log[k.id] \o <<row>>
      /\ \A s \in Request \ {k.id} : request_log'[s] = request_log[s]
  BY <1>1, <1>2
<1>4. LogStep
  BY <1>1, <1>3 DEF LogStep
<1>5. /\ request_log'[k.id] \in Seq(AuditRows)
      /\ Len(request_log'[k.id]) \in DOMAIN request_log'[k.id]
  BY <1>1, <1>3
<1>6. \A s \in Request : Submitted(s)' => Submitted(s)
  BY <1>1, <1>2 DEF Submitted
<1> QED
  BY <1>1, <1>2, <1>4, <1>5, <1>6 DEF k

LEMMA CommitRouteKeeps ==
  ASSUME RoutesInv, TransactionsInv', NEW c \in Caller, commitRoute(c)
  PROVE  RoutesInv'
<1> DEFINE owed == [told |-> "owed", id |-> call[c].id, after |-> Len(request_log'[call[c].id])]
<1>1. transition(c) /\ requested_by' = requested_by /\ reply' = [reply EXCEPT ![c] = owed]
  BY DEF commitRoute
<1>2. /\ LogStep /\ owed.id \in Request /\ owed.after \in Nat
      /\ owed.after \in DOMAIN request_log'[owed.id]
      /\ call' = [call EXCEPT ![c] = Idle]
      /\ \A s \in Request : Submitted(s)' => Submitted(s)
  BY <1>1, CommitAdds
<1>3. owed \in Reply
  BY <1>2 DEF Reply
<1>4. RoutesTypeOK'
  BY <1>1, <1>3 DEF RoutesInv, RoutesTypeOK, TransactionsInv
<1>5. SenderDecides'
  <2>1. \A s \in Request : Submitted(s)' => requested_by'[s] = user_b[s]
    BY <1>1, <1>2 DEF RoutesInv, SenderDecides
  <2> QED BY <1>2, <2>1, SenderKeeps
<1>6. AnswersShowTheDecision' /\ RepliesFollowDecisions'
  <2>1. reply'[c] = owed /\ \A d \in Caller \ {c} : reply'[d] = reply[d]
    BY <1>1 DEF RoutesInv, RoutesTypeOK
  <2> QED BY <1>2, <2>1, AnswersKeep DEF AnswersShowTheDecision, RepliesFollowDecisions
<1>7. CallsAreTheSenders'
  BY <1>2 DEF RoutesInv, TransactionsInv, RequestsInv, TypeOK, CallsAreTheSenders
<1> QED
  BY <1>4, <1>5, <1>6, <1>7 DEF RoutesInv

\* The row the answer reads shows the last decision in the log.
LEMMA AnswerKeeps ==
  ASSUME RoutesInv, TransactionsInv', NEW c \in Caller, answer(c)
  PROVE  RoutesInv'
<1> DEFINE id   == reply[c].id
           told == [told |-> "row", id |-> id, after |-> reply[c].after, row |-> request[id]]
<1>1. /\ UNCHANGED <<request, request_log, call, requested_by>>
      /\ reply' = [reply EXCEPT ![c] = told] /\ reply[c].told = "owed"
  BY DEF answer, view, reqVars
<1>2. /\ id \in Request /\ reply[c].after \in Nat
      /\ reply[c].after \in DOMAIN request_log[id]
      /\ request_log[id] \in Seq(AuditRows)
      /\ Submitted(id) /\ request[id] \in RequestRow
  BY <1>1 DEF RoutesInv, RoutesTypeOK, Reply, RepliesFollowDecisions, TransactionsInv, RequestsInv,
              TypeOK, Submitted
<1>3. /\ request[id].status = Last(request_log[id]).after
      /\ request[id].resolved_by = Last(request_log[id]).actor
      /\ request_decline_reason_matches_status(request[id])
  BY <1>2 DEF RoutesInv, TransactionsInv, RequestsInv, RowTellsLastDecision, RowsAgree
<1>4. \E i \in told.after .. Len(request_log[id]) :
        /\ told.row.status = request_log[id][i].after
        /\ told.row.resolved_by = request_log[id][i].actor
        /\ request_decline_reason_matches_status(told.row)
  <2>1. Len(request_log[id]) \in told.after .. Len(request_log[id])
        /\ Last(request_log[id]) = request_log[id][Len(request_log[id])]
    BY <1>2 DEF Last
  <2> QED BY <1>3, <2>1
<1>5. LogStep /\ \A s \in Request : Submitted(s)' => Submitted(s)
  BY <1>1 DEF LogStep, Submitted
<1>6. told \in Reply
  BY <1>2 DEF Reply
<1>7. RoutesTypeOK'
  BY <1>1, <1>6 DEF RoutesInv, RoutesTypeOK, TransactionsInv
<1>8. SenderDecides'
  BY <1>1 DEF RoutesInv, SenderDecides, Submitted
<1>9. reply'[c] = told /\ \A d \in Caller \ {c} : reply'[d] = reply[d]
  BY <1>1 DEF RoutesInv, RoutesTypeOK
<1> HIDE DEF told
<1>10. told.id = id /\ told.after = reply[c].after
  BY DEF told
<1>11. AnswersShowTheDecision' /\ RepliesFollowDecisions'
  BY <1>1, <1>2, <1>4, <1>5, <1>9, <1>10, AnswersKeep
     DEF AnswersShowTheDecision, RepliesFollowDecisions
<1>12. CallsAreTheSenders'
  BY <1>1 DEF RoutesInv, CallsAreTheSenders
<1> QED
  BY <1>7, <1>8, <1>11, <1>12 DEF RoutesInv

LEMMA ApproveAndRecordKeeps ==
  ASSUME RoutesInv, TransactionsInv', NEW r \in Request, approveAndRecord(r, user_a[r]),
         UNCHANGED routeVars
  PROVE  RoutesInv'
<1> DEFINE row == AuditRow(user_a[r], request[r].status, "approved")
<1>1. /\ Submitted(r) /\ request[r] \in RequestRow /\ call' = call
      /\ request_log \in [Request -> Seq(AuditRows)]
      /\ request \in [Request -> RequestRow \cup {NoRow}]
      /\ request_log' = [request_log EXCEPT ![r] = request_log[r] \o <<row>>]
      /\ \A s \in Request \ {r} : request'[s] = request[s]
  BY DEF approveAndRecord, RoutesInv, TransactionsInv, RequestsInv, TypeOK, Submitted
<1>2. row \in AuditRows /\ row.actor = user_a[r]
  BY <1>1, Statuses, RoutesAssumption DEF AuditRow, AuditRows, RequestRow
<1> HIDE DEF row
<1>3. LogStep
  BY <1>1, <1>2 DEF LogStep
<1>4. CallsAreTheSenders' /\ \A s \in Request : Submitted(s)' => Submitted(s)
  BY <1>1 DEF RoutesInv, CallsAreTheSenders, Submitted
<1> QED
  BY <1>3, <1>4, QuietStepKeeps

\* A call of a route is given up, or the reply is lost, or a transaction moves.
LEMMA OtherStepsKeep ==
  ASSUME RoutesInv, TransactionsInv', UNCHANGED <<request, request_log, requested_by>>,
         \A c \in Caller : call'[c] \in {call[c], Idle},
         \A c \in Caller : reply'[c] \in {reply[c], [told |-> "nothing"]},
         reply' \in [Caller -> Reply]
  PROVE  RoutesInv'
<1>1. LogStep
  BY DEF LogStep
<1>2. RoutesTypeOK'
  BY DEF RoutesInv, RoutesTypeOK, TransactionsInv
<1>3. SenderDecides'
  BY DEF RoutesInv, SenderDecides, Submitted
<1>4. AnswersShowTheDecision' /\ RepliesFollowDecisions'
  <2>1. \A c \in Caller : reply'[c].told # "nothing" => reply'[c] = reply[c]
    OBVIOUS
  <2>2. \A c \in Caller : reply'[c].told = "row" => reply'[c].told # "nothing"
    OBVIOUS
  <2> QED BY <1>1, <2>1, <2>2, AnswersKeep DEF AnswersShowTheDecision, RepliesFollowDecisions
<1>5. CallsAreTheSenders'
  BY DEF RoutesInv, CallsAreTheSenders
<1> QED
  BY <1>2, <1>3, <1>4, <1>5 DEF RoutesInv

LEMMA StepRoutesInv == RoutesInv /\ [RoutesNext]_<<vars, routeVars>> => RoutesInv'
<1> SUFFICES ASSUME RoutesInv, [RoutesNext]_<<vars, routeVars>> PROVE RoutesInv'
  OBVIOUS
<1>1. TransactionsInv'
  BY RouteStepsAreSteps, StepTransactionsInv DEF RoutesInv
<1>2. /\ reply \in [Caller -> Reply] /\ [told |-> "nothing"] \in Reply
      /\ call \in [Caller -> Resolution \cup {Idle}]
  BY DEF RoutesInv, RoutesTypeOK, TransactionsInv, RequestsInv, TypeOK, Reply
<1>3. ASSUME NEW c \in Caller, failRoute(c) PROVE RoutesInv'
  BY <1>1, <1>2, <1>3, OtherStepsKeep DEF failRoute, Abandon, routeVars
<1>4. ASSUME NEW c \in Caller, answerIsLost(c) PROVE RoutesInv'
  BY <1>1, <1>2, <1>4, OtherStepsKeep DEF answerIsLost, reqVars
<1>5. ASSUME UNCHANGED reqVars, UNCHANGED routeVars PROVE RoutesInv'
  BY <1>1, <1>2, <1>5, OtherStepsKeep DEF reqVars, routeVars
<1>6. ASSUME NEW m \in Mover, NEW r \in Request, NEW to \in SettlementState,
             advanceSettlement(m, r, to), UNCHANGED routeVars
      PROVE  RoutesInv'
  BY <1>5, <1>6 DEF advanceSettlement
<1>7. ASSUME NEW m \in Mover, NEW r \in Request, cancelIntent(m, r), UNCHANGED routeVars
      PROVE  RoutesInv'
  BY <1>5, <1>7 DEF cancelIntent
<1>8. ASSUME NEW m \in Mover, CommitCancel(m) \/ CommitAdvance(m) \/ AbandonMove(m),
             UNCHANGED routeVars
      PROVE  RoutesInv'
  BY <1>5, <1>8 DEF CommitCancel, CommitAdvance, AbandonMove
<1>9. CASE UNCHANGED <<vars, routeVars>>
  BY <1>5, <1>9 DEF vars
<1> QED
  BY <1>1, <1>3, <1>4, <1>6, <1>7, <1>8, <1>9, SubmitRouteKeeps, ResolveRouteKeeps,
     CommitRouteKeeps, AnswerKeeps, ApproveAndRecordKeeps DEF RoutesNext

\* The inductive invariant of the routes holds in every reachable state.
THEOREM RoutesInvariance == RoutesSpec => []RoutesInv
BY InitRoutesInv, StepRoutesInv, PTL DEF RoutesSpec

(***************************************************************************)
(* What follows from it.                                                   *)
(***************************************************************************)

\* Whoever asked for the money never decides about it, however many decisions
\* race for the row: each is the sender's, or an expiry.
THEOREM OnlyTheSenderDecides == RoutesSpec => []SenderDecides
<1>1. RoutesInv => SenderDecides
  BY DEF RoutesInv
<1> QED
  BY <1>1, RoutesInvariance, PTL

\* An answer shows the decision of its own call or one that came after it.
THEOREM AnswersAreOfDecisions == RoutesSpec => []AnswersShowTheDecision
<1>1. RoutesInv => AnswersShowTheDecision
  BY DEF RoutesInv
<1> QED
  BY <1>1, RoutesInvariance, PTL

-----------------------------------------------------------------------------
(***************************************************************************)
(* PART FOUR: Approvals.  The statements of approveAndRecord, interrupted  *)
(* anywhere, are the one step that Transactions takes them for.            *)
(***************************************************************************)

LEMMA InitApprovalsInv == ApprovalsInit => ApprovalsInv
<1> SUFFICES ASSUME ApprovalsInit PROVE ApprovalsInv
  OBVIOUS
<1>1. TransactionsInv
  BY InitTransactionsInv DEF ApprovalsInit
<1>2. \A p \in Recorder : recording[p] = NotCalled
  BY DEF ApprovalsInit
<1>3. ApprovalsTypeOK
  BY <1>1 DEF ApprovalsInit, ApprovalsTypeOK, TransactionsInv
<1> QED
  BY <1>1, <1>2, <1>3 DEF ApprovalsInv, HoldersAreAlone, ReadsArePending, ReturnedMeansRecorded,
                          NotCalled

\* What an attempt that may commit has in its hands.
LEMMA HeldFacts ==
  ASSUME ApprovalsInv, NEW p \in Recorder, recording[p].phase \in {"moved", "posted"}
  PROVE  /\ recording[p].id \in Request /\ recording[p].actor \in Resolver
         /\ recording[p].seen \in RequestRow
         /\ request[recording[p].id] = recording[p].seen
         /\ recording[p].seen.status = "pending"
         /\ Submitted(recording[p].id) /\ ~ Recorded(recording[p].id)
         /\ recording[p].id \notin ledger
         /\ Holders(recording[p].id) = {p}
<1>1. recording[p] \in Recording \cup {NotCalled}
  BY DEF ApprovalsInv, ApprovalsTypeOK
<1>2. recording[p] \in [phase : {"read", "moved", "posted"}, id : Request, actor : Resolver,
                        seen : RequestRow]
  BY <1>1 DEF Recording, NotCalled
<1>3. recording[p].id \in Request
  BY <1>2
<1> QED
  BY <1>2, <1>3 DEF ApprovalsInv, HoldersAreAlone, HoldsAlone, TransactionsInv, RecordedTogether

LEMMA CommitIsTheStep ==
  ASSUME ApprovalsInv, NEW p \in Recorder, commit(p)
  PROVE  approveAndRecord(recording[p].id, recording[p].actor)
<1> DEFINE k   == recording[p]
           row == [request[k.id] EXCEPT !.status = "approved", !.resolved_by = k.actor]
<1>1. /\ k.id \in Request /\ k.actor \in Resolver /\ k.seen \in RequestRow
      /\ request[k.id] = k.seen /\ k.seen.status = "pending"
      /\ Submitted(k.id) /\ ~ Recorded(k.id) /\ k.id \notin ledger
  BY HeldFacts DEF commit
<1>2. Approved(k) = row
  BY <1>1 DEF Approved
<1>3. row.status = "approved" /\ row.resolved_by = k.actor /\ k.actor # Null
  BY <1>1, SentinelAssumption DEF RequestRow
<1>4. request_decline_reason_matches_status(row) /\ request_resolution_matches_status(row)
  <2>1. request_decline_reason_matches_status(Approved(k))
    BY DEF commit, ApprovalsInv, HoldersAreAlone, HoldsAlone
  <2> QED BY <1>2, <1>3, <2>1 DEF request_resolution_matches_status
<1>5. isDeclared(requestMachine, request[k.id].status, "approved")
  BY <1>1 DEF isDeclared, declaredFrom, requestMachine
<1> QED
  BY <1>1, <1>2, <1>4, <1>5 DEF commit, approveAndRecord, RecordedRow

LEMMA ApprovalStepsAreSteps ==
  ApprovalsInv /\ [ApprovalsNext]_approvalVars => [TransactionsNext]_vars
<1> SUFFICES ASSUME ApprovalsInv, [ApprovalsNext]_approvalVars PROVE [TransactionsNext]_vars
  OBVIOUS
<1>1. ASSUME NEW p \in Recorder, commit(p) PROVE TransactionsNext
  <2>1. recording[p].id \in Request /\ recording[p].actor \in Resolver
    BY <1>1, HeldFacts DEF commit
  <2> QED BY <1>1, <2>1, CommitIsTheStep DEF TransactionsNext, TransactionStep
<1>2. ASSUME ApproveStep PROVE [TransactionsNext]_vars
  BY <1>1, <1>2 DEF ApproveStep, callApprove, replay, readRequestRow, transitionWithin, postWithin,
                    tryAgain, leave
<1>3. ASSUME ResolveStep, UNCHANGED txVars PROVE TransactionsNext
  BY <1>3 DEF ResolveStep, transitionOfFreeRow, TransactionsNext, RequestStep
<1>4. ASSUME MoveStep PROVE TransactionsNext
  BY <1>4 DEF MoveStep, TransactionsNext, TransactionStep
<1> QED
  BY <1>2, <1>3, <1>4 DEF ApprovalsNext, approvalVars

\* The calls of approveAndRecord are left alone, and so is every row one of
\* them holds and every record.
LEMMA OthersKeep ==
  ASSUME ApprovalsInv, TransactionsInv', recording' = recording, ledger' = ledger,
         \A r \in Request : Recorded(r)' <=> Recorded(r),
         \A r \in Request : Holders(r) # {} => request'[r] = request[r]
  PROVE  ApprovalsInv'
<1>1. ApprovalsTypeOK'
  BY DEF ApprovalsInv, ApprovalsTypeOK, TransactionsInv
<1>2. ReadsArePending'
  BY DEF ApprovalsInv, ReadsArePending
<1>3. ReturnedMeansRecorded'
  <2>1. \A p \in Recorder : recording[p].phase = "returned" => recording[p].id \in Request
    BY DEF ApprovalsInv, ApprovalsTypeOK, Recording, NotCalled
  <2> QED BY <2>1 DEF ApprovalsInv, ReturnedMeansRecorded
<1>4. HoldersAreAlone'
  <2> SUFFICES ASSUME NEW p \in Recorder, recording'[p].phase \in {"moved", "posted"}
               PROVE  HoldsAlone(p)'
    BY DEF HoldersAreAlone
  <2>1. /\ recording[p].id \in Request /\ Submitted(recording[p].id) /\ ~ Recorded(recording[p].id)
        /\ request[recording[p].id] = recording[p].seen /\ recording[p].seen.status = "pending"
        /\ Holders(recording[p].id) = {p}
    BY HeldFacts
  <2>2. request_decline_reason_matches_status(Approved(recording[p]))
    BY DEF ApprovalsInv, HoldersAreAlone, HoldsAlone
  <2>3. Holders(recording[p].id)' = Holders(recording[p].id)
    BY DEF Holders
  <2> QED BY <2>1, <2>2, <2>3 DEF Submitted, Recorded, Approved, HoldsAlone
<1> QED
  BY <1>1, <1>2, <1>3, <1>4 DEF ApprovalsInv

\* A call of approveAndRecord changes its own state and nothing else, and it
\* holds no row that it did not hold before.
LEMMA OwnStepKeeps ==
  ASSUME ApprovalsInv, TransactionsInv', NEW p \in Recorder, NEW x \in Recording \cup {NotCalled},
         UNCHANGED vars, recording' = [recording EXCEPT ![p] = x],
         x.phase \in {"moved", "posted"} =>
           /\ recording[p].phase \in {"moved", "posted"}
           /\ x.id = recording[p].id /\ x.seen = recording[p].seen /\ x.actor = recording[p].actor,
         x.phase = "read" => x.seen.status = "pending",
         x.phase = "returned" => Recorded(x.id) /\ x.id \in ledger
  PROVE  ApprovalsInv'
<1>1. /\ recording'[p] = x /\ \A q \in Recorder \ {p} : recording'[q] = recording[q]
      /\ UNCHANGED <<request, transaction, ledger>>
  BY DEF ApprovalsInv, ApprovalsTypeOK, vars, reqVars, txVars
<1>2. ApprovalsTypeOK'
  BY DEF ApprovalsInv, ApprovalsTypeOK, TransactionsInv
<1>3. ReadsArePending' /\ ReturnedMeansRecorded'
  BY <1>1 DEF ApprovalsInv, ReadsArePending, ReturnedMeansRecorded, Recorded
<1>4. HoldersAreAlone'
  <2> SUFFICES ASSUME NEW q \in Recorder, recording'[q].phase \in {"moved", "posted"}
               PROVE  HoldsAlone(q)'
    BY DEF HoldersAreAlone
  <2>1. /\ recording[q].phase \in {"moved", "posted"} /\ recording'[q].id = recording[q].id
        /\ recording'[q].seen = recording[q].seen /\ recording'[q].actor = recording[q].actor
    BY <1>1
  <2>2. Approved(recording'[q]) = Approved(recording[q])
    BY <2>1 DEF Approved
  <2>3. /\ Submitted(recording[q].id) /\ ~ Recorded(recording[q].id)
        /\ request[recording[q].id] = recording[q].seen /\ recording[q].seen.status = "pending"
        /\ Holders(recording[q].id) = {q}
        /\ request_decline_reason_matches_status(Approved(recording[q]))
    BY <2>1 DEF ApprovalsInv, HoldersAreAlone, HoldsAlone
  <2>4. Holders(recording[q].id)' = {q}
    <3>1. \A o \in Recorder \ {q} :
            ~ (recording[o].phase \in {"moved", "posted"} /\ recording[o].id = recording[q].id)
      BY <2>3 DEF Holders
    <3>2. \A o \in Recorder \ {q} :
            ~ (recording'[o].phase \in {"moved", "posted"} /\ recording'[o].id = recording'[q].id)
      BY <1>1, <2>1, <3>1
    <3> QED BY <2>1, <3>2 DEF Holders
  <2> QED BY <1>1, <2>1, <2>2, <2>3, <2>4 DEF Submitted, Recorded, HoldsAlone, Approved
<1> QED
  BY <1>2, <1>3, <1>4 DEF ApprovalsInv

\* The UPDATE takes the row.
LEMMA TransitionWithinKeeps ==
  ASSUME ApprovalsInv, TransactionsInv', NEW p \in Recorder, transitionWithin(p)
  PROVE  ApprovalsInv'
<1> DEFINE k == recording[p]
           x == [k EXCEPT !.phase = "moved"]
<1>1. k \in [phase : {"read", "moved", "posted"}, id : Request, actor : Resolver, seen : RequestRow]
  BY DEF ApprovalsInv, ApprovalsTypeOK, Recording, NotCalled, transitionWithin
<1>2. /\ x.phase = "moved" /\ x.id = k.id /\ x.seen = k.seen /\ x.actor = k.actor
      /\ x \in Recording
  BY <1>1 DEF Recording
<1>3. /\ recording'[p] = x /\ \A q \in Recorder \ {p} : recording'[q] = recording[q]
      /\ recording' \in [Recorder -> Recording \cup {NotCalled}]
      /\ UNCHANGED <<request, transaction, ledger>>
  BY <1>2 DEF ApprovalsInv, ApprovalsTypeOK, vars, reqVars, txVars, transitionWithin
<1>4. /\ Holders(k.id) = {} /\ request[k.id] = k.seen /\ ~ Recorded(k.id)
      /\ request_decline_reason_matches_status(Approved(k)) /\ k.phase = "read"
  BY DEF transitionWithin
<1>5. k.seen.status = "pending" /\ k.seen \in RequestRow /\ k.id \in Request
  BY <1>1, <1>4 DEF ApprovalsInv, ReadsArePending
<1>6. Submitted(k.id)
  BY <1>4, <1>5, SentinelAssumption DEF Submitted, RequestRow
<1>7. Approved(x) = Approved(k)
  BY <1>2 DEF Approved
<1> HIDE DEF x
<1>8. ApprovalsTypeOK'
  BY <1>3 DEF ApprovalsTypeOK, TransactionsInv
<1>9. ReadsArePending' /\ ReturnedMeansRecorded'
  BY <1>2, <1>3 DEF ApprovalsInv, ReadsArePending, ReturnedMeansRecorded, Recorded
<1>10. HoldersAreAlone'
  <2> SUFFICES ASSUME NEW q \in Recorder, recording'[q].phase \in {"moved", "posted"}
               PROVE  HoldsAlone(q)'
    BY DEF HoldersAreAlone
  <2>1. \A o \in Recorder : ~ (recording[o].phase \in {"moved", "posted"} /\ recording[o].id = k.id)
    BY <1>4 DEF Holders
  <2>2. CASE q = p
    <3>1. Holders(recording[p].id)' = {p}
      BY <1>2, <1>3, <2>1 DEF Holders
    <3> QED BY <1>2, <1>3, <1>4, <1>5, <1>6, <1>7, <2>2, <3>1 DEF Submitted, Recorded, HoldsAlone, Approved
  <2>3. CASE q # p
    <3>1. recording'[q] = recording[q] /\ recording[q].phase \in {"moved", "posted"}
      BY <1>3, <2>3
    <3>2. /\ Submitted(recording[q].id) /\ ~ Recorded(recording[q].id)
          /\ request[recording[q].id] = recording[q].seen /\ recording[q].seen.status = "pending"
          /\ Holders(recording[q].id) = {q}
          /\ request_decline_reason_matches_status(Approved(recording[q]))
      BY <3>1 DEF ApprovalsInv, HoldersAreAlone, HoldsAlone
    <3>3. recording[q].id # k.id
      BY <2>1, <3>1
    <3>4. Holders(recording[q].id)' = {q}
      BY <1>2, <1>3, <3>1, <3>2, <3>3 DEF Holders
    <3> QED BY <1>3, <3>1, <3>2, <3>4 DEF Submitted, Recorded, HoldsAlone, Approved
  <2> QED BY <2>2, <2>3
<1> QED
  BY <1>8, <1>9, <1>10 DEF ApprovalsInv

\* Whoever commits held the row alone: no other attempt is about this request.
LEMMA CommitKeeps ==
  ASSUME ApprovalsInv, TransactionsInv', NEW p \in Recorder, commit(p)
  PROVE  ApprovalsInv'
<1> DEFINE k == recording[p]
           x == [phase |-> "returned", id |-> k.id]
<1>1. /\ k.id \in Request /\ Submitted(k.id) /\ Holders(k.id) = {p} /\ k.seen \in RequestRow
  BY HeldFacts DEF commit
<1>2. /\ request' = [request EXCEPT ![k.id] = Approved(k)]
      /\ transaction' = [transaction EXCEPT ![k.id] = RecordedRow]
      /\ ledger' = ledger \cup {k.id}
      /\ recording' = [recording EXCEPT ![p] = x]
  BY DEF commit
<1>3. /\ x \in Recording /\ x.phase = "returned" /\ x.id = k.id
  BY <1>1 DEF Recording
<1> HIDE DEF x
<1>4. /\ recording'[p] = x /\ \A q \in Recorder \ {p} : recording'[q] = recording[q]
      /\ recording' \in [Recorder -> Recording \cup {NotCalled}]
  BY <1>2, <1>3 DEF ApprovalsInv, ApprovalsTypeOK
<1>5. /\ transaction'[k.id] = RecordedRow
      /\ \A r \in Request \ {k.id} : transaction'[r] = transaction[r] /\ request'[r] = request[r]
  BY <1>1, <1>2 DEF ApprovalsInv, TransactionsInv, TransactionsTypeOK, TypeOK
<1>6. Recorded(k.id)' /\ \A r \in Request : Recorded(r) => Recorded(r)'
  <2>1. RecordedRow \in TransactionRow
    BY States DEF RecordedRow, TransactionRow
  <2> QED BY <1>1, <1>3, <1>4, <1>5, <2>1, TransactionAssumption DEF Recorded
<1>7. ApprovalsTypeOK'
  BY <1>4 DEF ApprovalsTypeOK, TransactionsInv
<1>8. ReadsArePending'
  BY <1>3, <1>4 DEF ApprovalsInv, ReadsArePending
<1>9. ReturnedMeansRecorded'
  <2>1. \A q \in Recorder : recording[q].phase = "returned" => recording[q].id \in Request
    BY DEF ApprovalsInv, ApprovalsTypeOK, Recording, NotCalled
  <2>2. \A q \in Recorder \ {p} : recording'[q].phase = "returned"
          => Recorded(recording[q].id)' /\ recording'[q].id \in ledger'
    BY <1>2, <1>4, <1>6, <2>1 DEF ApprovalsInv, ReturnedMeansRecorded
  <2>3. Recorded(recording[p].id)' /\ recording'[p].id \in ledger'
    BY <1>2, <1>3, <1>4, <1>6
  <2> QED BY <2>2, <2>3 DEF ReturnedMeansRecorded, Recorded
<1>10. HoldersAreAlone'
  <2> SUFFICES ASSUME NEW q \in Recorder, recording'[q].phase \in {"moved", "posted"}
               PROVE  HoldsAlone(q)'
    BY DEF HoldersAreAlone
  <2>1. q # p /\ recording'[q] = recording[q] /\ recording[q].phase \in {"moved", "posted"}
    BY <1>3, <1>4
  <2>2. /\ recording[q].id \in Request /\ Submitted(recording[q].id) /\ ~ Recorded(recording[q].id)
        /\ request[recording[q].id] = recording[q].seen /\ recording[q].seen.status = "pending"
        /\ Holders(recording[q].id) = {q}
    BY <2>1, HeldFacts
  <2>3. request_decline_reason_matches_status(Approved(recording[q]))
    BY <2>1 DEF ApprovalsInv, HoldersAreAlone, HoldsAlone
  <2>4. recording[q].id # k.id
    BY <1>1, <2>1, <2>2
  <2>5. Holders(recording[q].id)' = {q}
    BY <1>3, <1>4, <2>1, <2>2, <2>4 DEF Holders
  <2> QED BY <1>5, <2>1, <2>2, <2>3, <2>4, <2>5 DEF Submitted, Recorded, HoldsAlone, Approved
<1> QED
  BY <1>7, <1>8, <1>9, <1>10 DEF ApprovalsInv

\* The calls of approveAndRecord that neither take the row nor commit.
LEMMA OwnStepsKeep ==
  ASSUME ApprovalsInv, TransactionsInv', NEW p \in Recorder,
         \/ \E r \in Request, a \in Resolver : callApprove(p, r, a)
         \/ replay(p) \/ readRequestRow(p) \/ postWithin(p) \/ tryAgain(p) \/ leave(p)
  PROVE  ApprovalsInv'
<1> DEFINE k == recording[p]
<1>1. k \in Recording \cup {NotCalled}
  BY DEF ApprovalsInv, ApprovalsTypeOK
<1>2. ASSUME NEW r \in Request, NEW a \in Resolver, callApprove(p, r, a) PROVE ApprovalsInv'
  <2> DEFINE x == [phase |-> "begun", id |-> r, actor |-> a]
  <2>1. x \in Recording /\ recording' = [recording EXCEPT ![p] = x] /\ UNCHANGED vars
        /\ x.phase = "begun"
    BY <1>2 DEF callApprove, Recording
  <2> HIDE DEF x
  <2> QED BY <2>1, OwnStepKeeps
<1>3. CASE replay(p)
  <2> DEFINE x == [phase |-> "returned", id |-> k.id]
  <2>1. k \in [phase : {"begun"}, id : Request, actor : Resolver]
    BY <1>1, <1>3 DEF replay, Recording, NotCalled
  <2>2. /\ x \in Recording /\ recording' = [recording EXCEPT ![p] = x] /\ UNCHANGED vars
        /\ x.phase = "returned" /\ x.id = k.id /\ Recorded(k.id) /\ k.id \in Request
    BY <1>3, <2>1 DEF replay, Recording, findExisting
  <2>3. k.id \in ledger
    BY <2>2 DEF ApprovalsInv, TransactionsInv, RecordedTogether
  <2> HIDE DEF x
  <2> QED BY <2>2, <2>3, OwnStepKeeps
<1>4. CASE readRequestRow(p)
  <2> DEFINE x == [phase |-> "read", id |-> k.id, actor |-> k.actor, seen |-> request[k.id]]
  <2>1. k \in [phase : {"begun"}, id : Request, actor : Resolver]
    BY <1>1, <1>4 DEF readRequestRow, Recording, NotCalled
  <2>2. request[k.id] \in RequestRow /\ request[k.id].status = "pending"
    <3>1. request[k.id] \in RequestRow
      BY <1>4, <2>1 DEF readRequestRow, Submitted, ApprovalsInv, TransactionsInv, RequestsInv, TypeOK
    <3>2. isDeclared(requestMachine, request[k.id].status, "approved")
      BY <1>4 DEF readRequestRow
    <3> QED BY <3>1, <3>2, OnlyPendingMoves DEF RequestRow
  <2>3. /\ x \in Recording /\ recording' = [recording EXCEPT ![p] = x] /\ UNCHANGED vars
        /\ x.phase = "read" /\ x.seen.status = "pending"
    BY <1>4, <2>1, <2>2 DEF readRequestRow, Recording
  <2> HIDE DEF x
  <2> QED BY <2>3, OwnStepKeeps
<1>5. CASE postWithin(p)
  <2> DEFINE x == [k EXCEPT !.phase = "posted"]
  <2>1. k \in [phase : {"read", "moved", "posted"}, id : Request, actor : Resolver,
               seen : RequestRow]
    BY <1>1, <1>5 DEF postWithin, Recording, NotCalled
  <2>2. /\ x \in Recording /\ recording' = [recording EXCEPT ![p] = x] /\ UNCHANGED vars
        /\ x.phase = "posted" /\ x.id = k.id /\ x.seen = k.seen /\ x.actor = k.actor
        /\ k.phase = "moved"
    BY <1>5, <2>1 DEF postWithin, Recording
  <2> HIDE DEF x
  <2> QED BY <2>2, OwnStepKeeps
<1>6. CASE tryAgain(p)
  <2> DEFINE x == [phase |-> "begun", id |-> k.id, actor |-> k.actor]
  <2>1. k \in [phase : {"read", "moved", "posted"}, id : Request, actor : Resolver,
               seen : RequestRow]
    BY <1>1, <1>6 DEF tryAgain, Recording, NotCalled
  <2>2. x \in Recording /\ recording' = [recording EXCEPT ![p] = x] /\ UNCHANGED vars
        /\ x.phase = "begun"
    BY <1>6, <2>1 DEF tryAgain, Recording
  <2> HIDE DEF x
  <2> QED BY <2>2, OwnStepKeeps
<1>7. CASE leave(p)
  <2>1. recording' = [recording EXCEPT ![p] = NotCalled] /\ UNCHANGED vars
        /\ NotCalled.phase = "none"
    BY <1>7 DEF leave, NotCalled
  <2> QED BY <2>1, OwnStepKeeps
<1> QED
  BY <1>2, <1>3, <1>4, <1>5, <1>6, <1>7

\* resolve() takes no row that an attempt holds.
LEMMA ResolveStepKeeps ==
  ASSUME ApprovalsInv, TransactionsInv', ResolveStep, UNCHANGED txVars, recording' = recording
  PROVE  ApprovalsInv'
<1>1. /\ ledger' = ledger /\ \A r \in Request : Recorded(r)' <=> Recorded(r)
  BY DEF txVars, Recorded
<1>2. \A r \in Request : Holders(r) # {} => Submitted(r)
  BY DEF ApprovalsInv, HoldersAreAlone, HoldsAlone, Holders
<1>3. request \in [Request -> RequestRow \cup {NoRow}] /\ call \in [Caller -> Resolution \cup {Idle}]
  BY DEF ApprovalsInv, TransactionsInv, RequestsInv, TypeOK
<1>4. ASSUME NEW r \in Request, Holders(r) # {} PROVE request'[r] = request[r]
  <2>1. ASSUME NEW s \in Request, submitRequest(s) PROVE request'[r] = request[r]
    BY <1>2, <1>3, <1>4, <2>1 DEF submitRequest
  <2>2. ASSUME NEW c \in Caller, transitionOfFreeRow(c) PROVE request'[r] = request[r]
    BY <1>3, <1>4, <2>2 DEF transitionOfFreeRow, transition
  <2>3. ASSUME NEW c \in Caller, NEW s \in Request, resolve(c, s) PROVE request'[r] = request[r]
    BY <2>3 DEF resolve
  <2>4. ASSUME NEW c \in Caller, Abandon(c) PROVE request'[r] = request[r]
    BY <2>4 DEF Abandon
  <2> QED BY <2>1, <2>2, <2>3, <2>4 DEF ResolveStep
<1> QED
  BY <1>1, <1>4, OthersKeep

\* What moves a transaction needs it recorded, and leaves it so.
LEMMA MoveStepKeeps ==
  ASSUME ApprovalsInv, TransactionsInv', MoveStep, recording' = recording
  PROVE  ApprovalsInv'
<1>1. /\ transaction \in [Request -> TransactionRow \cup {NoRow}]
      /\ move \in [Mover -> Move \cup {Idle}]
      /\ \A m \in Mover : move[m] # Idle => Recorded(move[m].id)
  BY DEF ApprovalsInv, TransactionsInv, TransactionsTypeOK, MovesAreDeclared
<1>2. request' = request /\ ledger' = ledger
  BY DEF MoveStep, cancelIntent, advanceSettlement, CommitCancel, CommitAdvance, AbandonMove, reqVars
<1>3. \A r \in Request : Recorded(r)' <=> Recorded(r)
  <2>1. transaction' \in [Request -> TransactionRow \cup {NoRow}]
    BY DEF TransactionsInv, TransactionsTypeOK
  <2>2. ASSUME NEW m \in Mover, CommitCancel(m) \/ CommitAdvance(m)
        PROVE  \A r \in Request : Recorded(r)' <=> Recorded(r)
    <3> DEFINE id == move[m].id
    <3>1. move[m] \in Move /\ id \in Request /\ Recorded(id)
      BY <1>1, <2>2 DEF CommitCancel, CommitAdvance, Move
    <3>2. transaction[id] \in TransactionRow
      BY <1>1, <3>1 DEF Recorded
    <3>3. \A r \in Request \ {id} : transaction'[r] = transaction[r]
      BY <1>1, <2>2 DEF CommitCancel, CommitAdvance
    <3>4. transaction'[id] \in TransactionRow
      <4>1. CASE CommitCancel(m)
        <5>1. transaction'[id] = [transaction[id] EXCEPT !.intent_state = move[m].to]
          BY <1>1, <3>1, <4>1 DEF CommitCancel
        <5>2. move[m].to \in IntentState
          BY <3>1, <4>1 DEF CommitCancel, Move
        <5> QED BY <3>2, <5>1, <5>2 DEF TransactionRow
      <4>2. CASE CommitAdvance(m)
        <5>1. transaction'[id] = [transaction[id] EXCEPT !.settlement_state = move[m].to]
          BY <1>1, <3>1, <4>2 DEF CommitAdvance
        <5>2. move[m].to \in SettlementState
          BY <3>1, <4>2 DEF CommitAdvance, Move
        <5> QED BY <3>2, <5>1, <5>2 DEF TransactionRow
      <4> QED BY <2>2, <4>1, <4>2
    <3> QED BY <3>1, <3>3, <3>4, TransactionAssumption DEF Recorded
  <2>3. ASSUME UNCHANGED transaction PROVE \A r \in Request : Recorded(r)' <=> Recorded(r)
    BY <2>3 DEF Recorded
  <2> QED BY <2>2, <2>3 DEF MoveStep, cancelIntent, advanceSettlement, AbandonMove
<1> QED
  BY <1>2, <1>3, OthersKeep

LEMMA StepApprovalsInv == ApprovalsInv /\ [ApprovalsNext]_approvalVars => ApprovalsInv'
<1> SUFFICES ASSUME ApprovalsInv, [ApprovalsNext]_approvalVars PROVE ApprovalsInv'
  OBVIOUS
<1>1. TransactionsInv'
  BY ApprovalStepsAreSteps, StepTransactionsInv DEF ApprovalsInv
<1>2. CASE ApproveStep
  BY <1>1, <1>2, OwnStepsKeep, TransitionWithinKeeps, CommitKeeps DEF ApproveStep
<1>3. CASE ResolveStep /\ UNCHANGED txVars /\ UNCHANGED recording
  BY <1>1, <1>3, ResolveStepKeeps
<1>4. CASE MoveStep /\ UNCHANGED recording
  BY <1>1, <1>4, MoveStepKeeps
<1>5. CASE UNCHANGED approvalVars
  BY <1>1, <1>5, OthersKeep DEF approvalVars, vars, reqVars, txVars, Recorded
<1> QED
  BY <1>2, <1>3, <1>4, <1>5 DEF ApprovalsNext

THEOREM ApprovalsInvariance == ApprovalsSpec => []ApprovalsInv
BY InitApprovalsInv, StepApprovalsInv, PTL DEF ApprovalsSpec

(***************************************************************************)
(* What follows from it.                                                   *)
(***************************************************************************)

\* The call that Transactions and the routes take as one step is one to
\* everybody else: statement by statement, with attempts that fail anywhere and
\* resolve() after the same row, only whole approvals of pending requests show.
THEOREM ApprovalsImplementTransactions == ApprovalsSpec => ImplementsTransactions
<1>1. ApprovalsInit => TransactionsInit
  BY DEF ApprovalsInit
<1> QED
  BY <1>1, ApprovalsInvariance, ApprovalStepsAreSteps, PTL
     DEF ApprovalsSpec, TransactionsSpec, ImplementsTransactions

\* What a caller of approveAndRecord is given exists.
THEOREM ReturnsAreTrue == ApprovalsSpec => []ReturnedMeansRecorded
<1>1. ApprovalsInv => ReturnedMeansRecorded
  BY DEF ApprovalsInv
<1> QED
  BY <1>1, ApprovalsInvariance, PTL

\* Two approvals of one request never meet at the key of its posting.
THEOREM RowComesBeforeKey == ApprovalsSpec => []KeyRaceNeverFires
<1>1. ApprovalsInv => KeyRaceNeverFires
  BY HeldFacts DEF KeyRaceNeverFires
<1> QED
  BY <1>1, ApprovalsInvariance, PTL
=============================================================================
