---------------------------- MODULE RequestRoutes ----------------------------
(***************************************************************************)
(* The HTTP routes over requests (http/requests.ts) and who may use them   *)
(* (http/policy.ts), over the requests and transactions they share.        *)
(*                                                                         *)
(* The functions below the routes write whoever they are given into        *)
(* resolved_by: that the person asking for money does not grant it is      *)
(* stopped by the policy alone.  A route answers with the row, which it    *)
(* reads again after its own transaction has committed.                    *)
(***************************************************************************)
EXTENDS Transactions

CONSTANTS
  user_a,     \* by request: the sender of its relationship
  user_b      \* by request: the recipient; the sides never change

ASSUME RoutesAssumption ==
  /\ user_a \in [Request -> Resolver]
  /\ user_b \in [Request -> Resolver]
  /\ \A r \in Request : user_a[r] # user_b[r]

VARIABLES
  requested_by,   \* column of the request table: who asked
  reply           \* by call of a route: what it owes its caller or has told

routeVars == <<requested_by, reply>>

Reply ==
  [told : {"nothing"}]
    \cup [told : {"owed"}, id : Request, after : Nat]
    \cup [told : {"row"}, id : Request, after : Nat, row : RequestRow]

RoutesTypeOK ==
  /\ TransactionsTypeOK
  /\ requested_by \in [Request -> Resolver \cup {Null}]
  /\ reply \in [Caller -> Reply]

RoutesInit ==
  /\ TransactionsInit
  /\ requested_by = [r \in Request |-> Null]
  /\ reply = [c \in Caller |-> [told |-> "nothing"]]

(***************************************************************************)
(* The policies.                                                           *)
(***************************************************************************)

roleOf(r, p) ==
  CASE p = user_a[r] -> "sender"
    [] p = user_b[r] -> "recipient"
    [] OTHER         -> "none"

\* Bug: membership in the relationship of the request is enough.
AnyMember(r, p, role) == p \in {user_a[r], user_b[r]}

\* The relationship the request belongs to is looked up among those the person
\* is in, and their side of it compared with the role; a 404 otherwise.
authorized(r, p, role) == roleOf(r, p) = role

(***************************************************************************)
(* The routes.                                                             *)
(***************************************************************************)

\* POST /relationships/:id/requests
submitRoute(r, p) ==
  /\ authorized(r, p, "recipient")
  /\ submitRequest(r)
  /\ requested_by' = [requested_by EXCEPT ![r] = p]
  /\ UNCHANGED <<txVars, reply>>

\* POST /requests/:id/approve and decline, up to the first visit of resolve().
\* Expiry is of no route: the system's, without an actor.
resolveRoute(c, r) ==
  /\ reply[c].told # "owed"
  /\ resolve(c, r)
  /\ call'[c].actor # Null => authorized(r, call'[c].actor, "sender")
  /\ reply' = [reply EXCEPT ![c] = [told |-> "nothing"]]
  /\ UNCHANGED <<txVars, requested_by>>

\* The second visit commits; the reply must show a row as new as this.
commitRoute(c) ==
  /\ transition(c)
  /\ reply' = [reply EXCEPT ![c] = [told |-> "owed", id |-> call[c].id,
                                    after |-> Len(request_log'[call[c].id])]]
  /\ UNCHANGED <<txVars, requested_by>>

\* The route answers with an error and has changed nothing.
failRoute(c) ==
  /\ Abandon(c)
  /\ UNCHANGED <<txVars, routeVars>>

\* The row as it is now, as the caller is shown it.
view(r) == request[r]

\* Bug: the row is read for the answer before the transaction, with the status.
AnswerFromBefore(c) ==
  /\ reply[c].told = "owed"
  /\ reply' = [reply EXCEPT ![c] =
       [told |-> "row", id |-> reply[c].id, after |-> reply[c].after,
        row |-> [status |-> "pending", resolved_by |-> Null, decline_reason |-> Null]]]
  /\ UNCHANGED <<reqVars, txVars, requested_by>>

\* readRequest, after the commit, outside any transaction.
answer(c) ==
  /\ reply[c].told = "owed"
  /\ reply' = [reply EXCEPT ![c] = [told |-> "row", id |-> reply[c].id,
                                    after |-> reply[c].after,
                                    row |-> view(reply[c].id)]]
  /\ UNCHANGED <<reqVars, txVars, requested_by>>

\* The process dies before it has answered.
answerIsLost(c) ==
  /\ reply[c].told = "owed"
  /\ reply' = [reply EXCEPT ![c] = [told |-> "nothing"]]
  /\ UNCHANGED <<reqVars, txVars, requested_by>>

\* approveAndRecord is of no route yet; its callers pass the sender.
RoutesNext ==
  \/ \E r \in Request, p \in Resolver : submitRoute(r, p)
  \/ \E c \in Caller, r \in Request : resolveRoute(c, r)
  \/ \E c \in Caller : commitRoute(c) \/ failRoute(c) \/ answer(c) \/ answerIsLost(c)
  \/ \E r \in Request : approveAndRecord(r, user_a[r]) /\ UNCHANGED routeVars
  \/ \E m \in Mover, r \in Request : cancelIntent(m, r) /\ UNCHANGED routeVars
  \/ \E m \in Mover, r \in Request, to \in SettlementState :
       advanceSettlement(m, r, to) /\ UNCHANGED routeVars
  \/ \E m \in Mover :
       (CommitCancel(m) \/ CommitAdvance(m) \/ AbandonMove(m)) /\ UNCHANGED routeVars

RoutesSpec == RoutesInit /\ [][RoutesNext]_<<vars, routeVars>>

(***************************************************************************)
(* Properties.                                                             *)
(***************************************************************************)

\* Nobody grants their own request: whoever asked is the recipient, and every
\* decision in the row and in its history, a stale one that overwrote another
\* too, is the sender's.
SenderDecides ==
  \A r \in Request : Submitted(r) =>
    /\ requested_by[r] = user_b[r]
    /\ request[r].resolved_by \in {Null, user_a[r]}
    /\ \A i \in DOMAIN request_log[r] : request_log[r][i].actor \in {Null, user_a[r]}

\* The row an approval or a decline is answered with is the one its own
\* decision wrote, or one a later decision wrote over it: its status, its
\* resolver and its reason belong to one and the same audit row.
AnswersShowTheDecision ==
  \A c \in Caller : reply[c].told = "row" =>
    LET row == reply[c].row
        log == request_log[reply[c].id]
    IN  \E i \in reply[c].after .. Len(log) :
          /\ row.status = log[i].after
          /\ row.resolved_by = log[i].actor
          /\ request_decline_reason_matches_status(row)

\* What a call of a route holds is the sender's or the system's, and a reply
\* that is owed or told is about a decision that is in the log.
CallsAreTheSenders ==
  \A c \in Caller : call[c] # Idle => call[c].actor \in {Null, user_a[call[c].id]}

RepliesFollowDecisions ==
  \A c \in Caller : reply[c].told # "nothing" =>
    reply[c].after \in DOMAIN request_log[reply[c].id]

\* The inductive invariant, with the type invariant and that of Transactions.
RoutesInv ==
  /\ TransactionsInv
  /\ RoutesTypeOK
  /\ SenderDecides
  /\ AnswersShowTheDecision
  /\ CallsAreTheSenders
  /\ RepliesFollowDecisions
=============================================================================
