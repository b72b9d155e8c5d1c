------------------------------ MODULE Inbound ------------------------------
(***************************************************************************)
(* Messages from a provider that delivers at least once.                   *)
(*                                                                         *)
(* The route (webhooks/routes.ts, dedupe.ts, handler.ts, signature.ts)     *)
(* marks a message in the memory of the process and then hands it to a     *)
(* handler.  What replaces the mark (webhooks/inbound.ts,                  *)
(* db/migrations/0010_channel_inbound.sql) claims the message in a table,  *)
(* in the transaction of the work it guards; no route uses it yet.  Both   *)
(* are here, each with its own calls.                                      *)
(***************************************************************************)
EXTENDS Naturals, FiniteSets

CONSTANTS
  Message,      \* events of the provider, by provider and provider message id
  Replied,      \* those of them that are of type "inbound"
  Request,      \* deliveries to POST /webhooks/channel
  Claim         \* calls of withInboundClaim

ASSUME InboundAssumption == Replied \subseteq Message

VARIABLES
  seen,         \* InMemoryInboundDeduplicator.seen
  handedOver,   \* how often this process has handed each message to the handler
  request,      \* what each delivery to the route holds
  channel_inbound_message,   \* the messages with a row in the table
  effects,      \* how often the work of each inbound message has been committed
  claim         \* what each call of withInboundClaim holds

routeVars == <<seen, handedOver, request>>
claimVars == <<channel_inbound_message, effects, claim>>
inboundVars == <<seen, handedOver, request, channel_inbound_message, effects, claim>>

Answer == {"202", "200", "200 deduped", "400", "401", "500"}

RequestRecord == [phase : {"idle", "handling"} \cup Answer, message : Message]

\* `working` and `waiting` are inside a transaction, after its first statement;
\* a call that waits has a snapshot in which the message has no row.
ClaimRecord ==
  [phase : {"idle", "begun", "waiting", "working", "processed", "deduped", "failed"},
   message : Replied]

InboundTypeOK ==
  /\ seen \subseteq Message
  /\ handedOver \in [Message -> Nat]
  /\ request \in [Request -> RequestRecord]
  /\ channel_inbound_message \subseteq Replied
  /\ effects \in [Replied -> Nat]
  /\ claim \in [Claim -> ClaimRecord]

InboundInit ==
  /\ seen = {}
  /\ handedOver = [m \in Message |-> 0]
  /\ request \in [Request -> [phase : {"idle"}, message : Message]]
  /\ channel_inbound_message = {}
  /\ effects = [m \in Replied |-> 0]
  /\ claim \in [Claim -> [phase : {"idle"}, message : Replied]]

(***************************************************************************)
(* The route.                                                              *)
(***************************************************************************)

Settled(r) == request[r].phase \in {"idle"} \cup Answer

\* The signature does not verify, or the body is not an object: nothing else
\* is looked at.
refuse(r, m) ==
  /\ Settled(r)
  /\ \E answer \in {"401", "400"} :
       request' = [request EXCEPT ![r] = [phase |-> answer, message |-> m]]
  /\ UNCHANGED <<seen, handedOver>>
  /\ UNCHANGED claimVars

duplicate(m) == m \in Replied /\ m \in seen

\* The other events are handed over as often as they come.
seenAfter(m) == IF m \in Replied THEN seen \cup {m} ELSE seen

\* checkAndMark and the call of the handler, with nothing awaited in between.
receive(r, m) ==
  /\ Settled(r)
  /\ ~ duplicate(m)
  /\ seen' = seenAfter(m)
  /\ handedOver' = [handedOver EXCEPT ![m] = IF m \in Replied THEN @ + 1 ELSE @]
  /\ request' = [request EXCEPT ![r] = [phase |-> "handling", message |-> m]]
  /\ UNCHANGED claimVars

ignore(r, m) ==
  /\ Settled(r)
  /\ duplicate(m)
  /\ request' = [request EXCEPT ![r] = [phase |-> "200 deduped", message |-> m]]
  /\ UNCHANGED <<seen, handedOver>>
  /\ UNCHANGED claimVars

\* handleEvent returns, or throws.  The mark stays either way.
handled(r) ==
  /\ request[r].phase = "handling"
  /\ \E answer \in {IF request[r].message \in Replied THEN "202" ELSE "200", "500"} :
       request' = [request EXCEPT ![r].phase = answer]
  /\ UNCHANGED <<seen, handedOver>>
  /\ UNCHANGED claimVars

\* The process starts again with an empty set.
restart ==
  /\ seen' = {}
  /\ handedOver' = [m \in Message |-> 0]
  /\ request' = [r \in Request |-> [request[r] EXCEPT !.phase = "idle"]]
  /\ claim' = [c \in Claim |-> [claim[c] EXCEPT !.phase = "idle"]]
  /\ UNCHANGED <<channel_inbound_message, effects>>

(***************************************************************************)
(* The durable claim.                                                      *)
(***************************************************************************)

At(c, phase) == claim[c].phase = phase

\* Whoever inserted the row and has not committed yet: its index entry is what
\* the others wait for.
Held(m) == \E d \in Claim : At(d, "working") /\ claim[d].message = m

begin(c, m) ==
  /\ claim[c].phase \in {"idle", "processed", "deduped", "failed"}
  /\ claim' = [claim EXCEPT ![c] = [phase |-> "begun", message |-> m]]
  /\ UNCHANGED <<channel_inbound_message, effects>>
  /\ UNCHANGED routeVars

\* Bug: the claim is committed before the work begins.
ClaimCommitsFirst(c) ==
  LET m == claim[c].message
  IN  /\ At(c, "begun")
      /\ claim' = [claim EXCEPT
           ![c].phase = IF m \in channel_inbound_message THEN "deduped" ELSE "working"]
      /\ channel_inbound_message' = channel_inbound_message \cup {m}
      /\ UNCHANGED effects
      /\ UNCHANGED routeVars

\* insert ... on conflict do nothing, the first statement of the transaction.
claimInboundMessage(c) ==
  LET m == claim[c].message
  IN  /\ At(c, "begun")
      /\ claim' = [claim EXCEPT
           ![c].phase = CASE m \in channel_inbound_message -> "deduped"
                          [] Held(m)                       -> "waiting"
                          [] OTHER                         -> "working"]
      /\ UNCHANGED <<channel_inbound_message, effects>>
      /\ UNCHANGED routeVars

\* What is left of an error of the insert: PostgreSQL puts the row, payload and
\* all, into the detail.
withoutPayload(error) == [code |-> error.code]

isRetryable(error) == error.code \in {"40001", "40P01"}

\* A call that waited for another one.  If that has committed, its row is not
\* in the snapshot and the insert fails, and the function runs again until the
\* budget is spent; if it rolled back, the claim is this call's.
waited(c) ==
  LET m     == claim[c].message
      error == withoutPayload([code |-> "40001", detail |-> m])
  IN  /\ At(c, "waiting")
      /\ ~ Held(m)
      /\ \E phase \in CASE m \notin channel_inbound_message -> {"working"}
                        [] isRetryable(error)              -> {"begun", "failed"}
                        [] OTHER                           -> {"failed"} :
           claim' = [claim EXCEPT ![c].phase = phase]
      /\ UNCHANGED <<channel_inbound_message, effects>>
      /\ UNCHANGED routeVars

\* The work is done and the transaction commits; the acknowledgement may be
\* lost on its way to the caller.
workCommits(c) ==
  LET m == claim[c].message
  IN  /\ At(c, "working")
      /\ channel_inbound_message' = channel_inbound_message \cup {m}
      /\ effects' = [effects EXCEPT ![m] = @ + 1]
      /\ \E phase \in {"processed", "failed"} : claim' = [claim EXCEPT ![c].phase = phase]
      /\ UNCHANGED routeVars

\* The work throws, and its claim goes with it.  On 40001 the whole function
\* runs again, until the budget is spent.
workFails(c) ==
  /\ At(c, "working")
  /\ \E phase \in {"begun", "failed"} : claim' = [claim EXCEPT ![c].phase = phase]
  /\ UNCHANGED <<channel_inbound_message, effects>>
  /\ UNCHANGED routeVars

RequestStep(r) ==
  \/ \E m \in Message : refuse(r, m) \/ receive(r, m) \/ ignore(r, m)
  \/ handled(r)

ClaimStep(c) ==
  \/ \E m \in Replied : begin(c, m)
  \/ claimInboundMessage(c)
  \/ waited(c)
  \/ workCommits(c)
  \/ workFails(c)

InboundNext ==
  \/ restart
  \/ \E r \in Request : RequestStep(r)
  \/ \E c \in Claim : ClaimStep(c)

InboundSpec == InboundInit /\ [][InboundNext]_inboundVars

\* The provider delivers a message again and again until it is acknowledged,
\* the database answers between restarts, and work that is tried again and
\* again succeeds once.
Fairness ==
  \A m \in Replied :
    /\ SF_inboundVars(m \notin channel_inbound_message /\ \E c \in Claim : begin(c, m))
    /\ \A c \in Claim :
         /\ SF_inboundVars(claim[c].message = m /\ claimInboundMessage(c))
         /\ SF_inboundVars(claim[c].message = m /\ workCommits(c))
         /\ WF_inboundVars(waited(c))

InboundFairSpec == InboundSpec /\ Fairness

(***************************************************************************)
(* Properties.                                                             *)
(***************************************************************************)

\* A row of the table is a message whose work has committed, once: no claim
\* survives work that failed, no work is done without a claim, two deliveries
\* at once do it once, and whoever is told that a message was processed, or a
\* duplicate, may acknowledge it for good (0010_channel_inbound.sql).
ExactlyOnce ==
  /\ \A m \in Replied : effects[m] = IF m \in channel_inbound_message THEN 1 ELSE 0
  /\ \A c \in Claim : claim[c].phase \in {"processed", "deduped"} =>
       effects[claim[c].message] = 1

\* At most one call is at work on a message, and none on one that is done:
\* what a call that waited takes over is free.
OneAtWork ==
  \A c \in Claim : At(c, "working") =>
    /\ claim[c].message \notin channel_inbound_message
    /\ \A d \in Claim : (At(d, "working") /\ claim[d].message = claim[c].message) => d = c

\* As long as a process lives, it hands a message to the handler once, however
\* many deliveries are in the middle of their handler, and it has handed over
\* every message it tells the provider is a duplicate.
HandedOverOnce ==
  /\ \A m \in Replied : handedOver[m] = IF m \in seen THEN 1 ELSE 0
  /\ \A r \in Request : request[r].phase = "200 deduped" =>
       handedOver[request[r].message] = 1

\* A failed piece of work costs no message: what the provider redelivers is
\* processed in the end, restarts and lost acknowledgements notwithstanding.
EventuallyProcessed == \A m \in Replied : <>(effects[m] = 1)
=============================================================================
