---------------------------- MODULE Conversation ----------------------------
(***************************************************************************)
(* What a bare "si" refers to (conversation/conversation.ts, arrival.ts,   *)
(* machine.ts, db/migrations/0011_conversation.sql): a question is put to  *)
(* a person and kept as the pending context of a conversation, and an      *)
(* affirmative is consumed against whatever is pending.                    *)
(*                                                                         *)
(* Both functions are one SERIALIZABLE transaction: BEGIN, which fixes     *)
(* now(); the first statement, which fixes the snapshot; and the commit,   *)
(* which fails where somebody has written the row since.                   *)
(***************************************************************************)
EXTENDS StateMachines

CONSTANTS
  Talk,         \* a relationship and a channel: the key of a conversation
  Call,         \* calls of openPendingContext and of resolveAffirmative
  Proposal,     \* what callers ask: [state, payload]
  Null,         \* SQL null
  ttlMinutes,   \* in ticks of the clock
  maxNow        \* bound: the clock stops here

PendingState ==
  {"awaiting_disambiguation", "awaiting_confirmation", "awaiting_arrival_confirmation"}

\* A payload is the arrival check of a transaction, or something else.
ASSUME ConversationAssumption ==
  /\ ttlMinutes \in Nat
  /\ maxNow \in Nat
  /\ Null \notin Call \cup Talk \cup Nat
  /\ \A p \in Proposal :
       /\ p = [state |-> p.state, payload |-> p.payload] /\ p # Null
       /\ p.state \in PendingState
       /\ p.payload = [kind |-> p.payload.kind, about |-> p.payload.about]
       /\ p.payload.kind \in {"arrival_check", "request_draft"} /\ p.payload # Null

VARIABLES
  conversation,  \* the conversation table; Null where there is no row yet
  trail,         \* audit_log rows with entity_type 'conversation', by entity
  now,           \* the clock of the database
  call           \* what each call holds

vars == <<conversation, trail, now, call>>

\* No pending state leads to another one.
conversationMachine ==
  [idle                          |-> PendingState,
   awaiting_disambiguation       |-> {"idle"},
   awaiting_confirmation         |-> {"idle"},
   awaiting_arrival_confirmation |-> {"idle"}]

ConversationState == DOMAIN conversationMachine

\* A deadline is measured from when the question was put, which may be before
\* the call, and the clock may stop before it.
Time == 0 .. maxNow + ttlMinutes

Payload == {p.payload : p \in Proposal}

\* `question` is not a column: it names the call whose question is pending.
Row == [state : ConversationState, pending_payload : Payload \cup {Null},
        expires_at : Time \cup {Null}, question : Call \cup {Null}]

ASSUME NullIsNoRow == Null \notin Row

NothingPending ==
  [state |-> "idle", pending_payload |-> Null, expires_at |-> Null, question |-> Null]

conversation_pending_context_complete(row) ==
  /\ row.state = "idle" <=> row.pending_payload = Null
  /\ row.state = "idle" <=> row.expires_at = Null

\* `question`, `call` and `at`, the now() of the transaction, are there for
\* the properties; the action carries the name of the state in the code.
TrailRow == [action : {"open", "drop_pending", "expire_pending", "resolve_pending"},
             before : ConversationState, after : ConversationState,
             question : Call, call : Call, at : Time]

CallRecord ==
  [phase : {"idle", "ready", "begun", "read", "attached", "expired",
            "no_pending_context", "opened", "failed"},
   talk : Talk \cup {Null},
   ask : Proposal \cup {Null},           \* Null: the call is an affirmative
   expiresAt : Time \cup {Null},         \* of the question it asks
   at : Time \cup {Null},                \* now() of the transaction
   row : Row \cup {Null},                \* what readConversation returned
   seen : Nat]                           \* the version in its snapshot

Idle == [phase |-> "idle", talk |-> Null, ask |-> Null, expiresAt |-> Null,
         at |-> Null, row |-> Null, seen |-> 0]

TypeOK ==
  /\ conversation \in [Talk -> Row \cup {Null}]
  /\ trail \in [Talk -> Seq(TrailRow)]
  /\ now \in 0 .. maxNow
  /\ call \in [Call -> CallRecord]

Init ==
  /\ conversation = [k \in Talk |-> Null]
  /\ trail = [k \in Talk |-> <<>>]
  /\ now = 0
  /\ call = [c \in Call |-> Idle]

Tick ==
  /\ now < maxNow
  /\ now' = now + 1
  /\ UNCHANGED <<conversation, trail, call>>

Pending(k) == IF conversation[k] = Null THEN Null ELSE conversation[k].question

(***************************************************************************)
(* The callers.                                                            *)
(***************************************************************************)

\* openPendingContext up to its transaction: the deadline is computed from
\* `proposedAt`, the time the question was put to the person.
propose(c, k, p, proposedAt) ==
  /\ call[c].phase = "idle"
  /\ proposedAt <= now
  /\ call' = [call EXCEPT ![c] = [Idle EXCEPT !.phase = "ready", !.talk = k, !.ask = p,
                                              !.expiresAt = proposedAt + ttlMinutes]]
  /\ UNCHANGED <<conversation, trail, now>>

\* A person says yes; resolveAffirmative is called with no more than the
\* conversation, when the message gets there.
say(c, k) ==
  /\ call[c].phase = "idle"
  /\ call' = [call EXCEPT ![c] = [Idle EXCEPT !.phase = "ready", !.talk = k]]
  /\ UNCHANGED <<conversation, trail, now>>

(***************************************************************************)
(* The transaction.                                                        *)
(***************************************************************************)

begin(c) ==
  /\ call[c].phase = "ready"
  /\ call' = [call EXCEPT ![c].phase = "begun", ![c].at = now]
  /\ UNCHANGED <<conversation, trail, now>>

\* The first statement: the insert that does nothing where a row exists, or
\* the read itself.  A row is born idle.
readConversation(c) ==
  /\ call[c].phase = "begun"
  /\ LET k   == call[c].talk
         row == conversation[k]
         yes == call[c].ask = Null /\ (row = Null \/ row = NothingPending)
     IN  call' = [call EXCEPT
           ![c].phase = IF yes THEN "no_pending_context" ELSE "read",
           ![c].row = IF row = Null THEN NothingPending ELSE row,
           ![c].seen = Len(trail[k])]
  /\ UNCHANGED <<conversation, trail, now>>

\* Bug: the transaction is READ COMMITTED and updates the row by its id.
UpdatesById(c) == TRUE

\* Every write of the row adds to its trail, so that the length of the trail
\* tells one version from another.
Unmoved(c) == Len(trail[call[c].talk]) = call[c].seen

\* Bug: a reply at the very deadline is in time.
ExpiredAfter(row, at) == row.expires_at < at

\* (expires_at <= now()) as expired
expired(row, at) == row.expires_at <= at

Moved(c, action, from, to, question) ==
  [action |-> action, before |-> from, after |-> to, question |-> question,
   call |-> c, at |-> call[c].at]

\* What was pending is dropped through its own move, then the new question
\* opens through another.
opening(c) ==
  LET row  == call[c].row
      drop == Moved(c, "drop_pending", row.state, "idle", row.question)
      open == Moved(c, "open", "idle", call[c].ask.state, c)
  IN  IF row.state = "idle" THEN <<open>> ELSE <<drop, open>>

\* Each row is one transitionWithin: the move is declared, and audited.
Declared(rows) ==
  \A i \in DOMAIN rows : isDeclared(conversationMachine, rows[i].before, rows[i].after)

\* The row of a conversation in which the question of c is pending.
Asked(c) ==
  [state |-> call[c].ask.state, pending_payload |-> call[c].ask.payload,
   expires_at |-> call[c].expiresAt, question |-> c]

\* The commit; its acknowledgement may be lost, and then the call has failed
\* although the row was written.
openPendingContext(c) ==
  /\ call[c].phase = "read"
  /\ call[c].ask # Null
  /\ Unmoved(c)
  /\ LET k   == call[c].talk
         row == Asked(c)
     IN  /\ Declared(opening(c))
         /\ conversation_pending_context_complete(row)
         /\ conversation' = [conversation EXCEPT ![k] = row]
         /\ trail' = [trail EXCEPT ![k] = @ \o opening(c)]
  /\ \E phase \in {"opened", "failed"} : call' = [call EXCEPT ![c].phase = phase]
  /\ UNCHANGED now

resolveAffirmative(c) ==
  /\ call[c].phase = "read"
  /\ call[c].ask = Null
  /\ Unmoved(c)
  /\ LET k     == call[c].talk
         row   == call[c].row
         late  == expired(row, call[c].at)
         close == Moved(c, IF late THEN "expire_pending" ELSE "resolve_pending",
                        row.state, "idle", row.question)
     IN  /\ Declared(<<close>>)
         /\ conversation' = [conversation EXCEPT ![k] = NothingPending]
         /\ trail' = [trail EXCEPT ![k] = Append(@, close)]
         /\ \E phase \in {IF late THEN "expired" ELSE "attached", "failed"} :
              call' = [call EXCEPT ![c].phase = phase]
  /\ UNCHANGED now

\* 40001: withSerializableTx begins the whole function again.
retry(c) ==
  /\ call[c].phase = "read"
  /\ ~ Unmoved(c)
  /\ call' = [call EXCEPT ![c] = [@ EXCEPT !.phase = "ready", !.at = Null,
                                           !.row = Null, !.seen = 0]]
  /\ UNCHANGED <<conversation, trail, now>>

\* The connection is lost, or the budget of the retries is spent.
fail(c) ==
  /\ call[c].phase \in {"ready", "begun", "read"}
  /\ call' = [call EXCEPT ![c].phase = "failed"]
  /\ UNCHANGED <<conversation, trail, now>>

(***************************************************************************)
(* recipientArrivalEvidence, on the outcome of a call.                     *)
(***************************************************************************)

\* Bug: whatever attached is read as evidence.
EvidenceOfAnyYes(c) ==
  IF call[c].phase = "attached" THEN {call[c].row.pending_payload.about} ELSE {}

isArrivalCheck(payload) == payload.kind = "arrival_check"

\* The transaction the call is evidence for, if it is evidence.
recipientArrivalEvidence(c) ==
  IF /\ call[c].phase = "attached"
     /\ call[c].row.state = "awaiting_arrival_confirmation"
     /\ isArrivalCheck(call[c].row.pending_payload)
    THEN {call[c].row.pending_payload.about}
    ELSE {}

CallStep(c) ==
  \/ \E k \in Talk : say(c, k)
  \/ \E k \in Talk, p \in Proposal, proposedAt \in 0 .. maxNow :
       propose(c, k, p, proposedAt)
  \/ begin(c)
  \/ readConversation(c)
  \/ openPendingContext(c)
  \/ resolveAffirmative(c)
  \/ retry(c)
  \/ fail(c)

Next == Tick \/ \E c \in Call : CallStep(c)

Spec == Init /\ [][Next]_vars

(***************************************************************************)
(* Properties.                                                             *)
(***************************************************************************)

Opens(row) == row.action = "open"

\* "What happened to the thing I said yes to" has one answer in the trail:
\* each question that was put is closed by exactly one row, dropped, expired or
\* resolved, before the next one opens, unless it is the one pending; and it
\* opens once.  Two replies and a new question may be under way at once.
EachQuestionClosesOnce ==
  \A k \in Talk :
    LET t == trail[k]
    IN  /\ \A i \in DOMAIN t :
             /\ Opens(t[i]) <=> i % 2 = 1
             /\ i % 2 = 0 => t[i].question = t[i - 1].question
             /\ i > 1 => t[i].before = t[i - 1].after
        /\ \A i, j \in DOMAIN t :
             (Opens(t[i]) /\ Opens(t[j]) /\ t[i].question = t[j].question) => i = j
        /\ Pending(k) = IF Len(t) % 2 = 1 THEN Last(t).question ELSE Null

\* A "si" attaches in a transaction begun before the deadline of its question,
\* and a question is given up as expired only by one begun at it or after,
\* whatever was retried in between: the deadline is judged again each time.
ClosedByItsDeadline ==
  \A k \in Talk : \A i \in DOMAIN trail[k] :
    LET t == trail[k][i]
    IN  /\ t.action = "resolve_pending" => t.at < call[t.question].expiresAt
        /\ t.action = "expire_pending"  => t.at >= call[t.question].expiresAt

\* Evidence that money arrived is the answer to a question about just that: it
\* was asked as an arrival check of that transaction, and no other call, now
\* or later, closes the question it answered.
EvidenceAnswersAnArrivalCheck ==
  \A c \in Call : \A t \in recipientArrivalEvidence(c) :
    \E q \in Call :
      /\ call[q].ask = [state   |-> "awaiting_arrival_confirmation",
                        payload |-> [kind |-> "arrival_check", about |-> t]]
      /\ {i \in DOMAIN trail[call[c].talk] :
            trail[call[c].talk][i].question = q
              /\ trail[call[c].talk][i].action # "open"}
           = {i \in DOMAIN trail[call[c].talk] : trail[call[c].talk][i].call = c}

(***************************************************************************)
(* The inductive invariant.                                                *)
(***************************************************************************)

\* The row is what the trail says was put last and is not closed.
RowsFollowTheTrail ==
  \A k \in Talk :
    IF Len(trail[k]) % 2 = 1
      THEN conversation[k] = Asked(Last(trail[k]).question)
      ELSE conversation[k] \in {Null, NothingPending}

\* Who is named in the trail has ended: a question is one that was asked in the
\* conversation, and who opened it is who asked it.
TrailIsOfEndedCalls ==
  \A k \in Talk : \A i \in DOMAIN trail[k] :
    LET t == trail[k][i]
    IN  /\ call[t.question].ask # Null
        /\ call[t.question].phase \in {"opened", "failed"}
        /\ call[t.call].phase \in {"opened", "attached", "expired", "failed"}
        /\ call[t.call].talk = k
        /\ IF Opens(t) THEN t.after = call[t.question].ask.state /\ t.call = t.question
                       ELSE t.after = "idle"

\* What a transaction has read is the row there was at the version it has seen,
\* and an affirmative goes on only with something to answer.
ReadsAreOfTheirVersion ==
  \A c \in Call : call[c].phase = "read" =>
    LET k == call[c].talk
    IN  /\ call[c].seen <= Len(trail[k])
        /\ Unmoved(c) => call[c].row = IF conversation[k] = Null THEN NothingPending
                                       ELSE conversation[k]
        /\ call[c].ask = Null => call[c].row # NothingPending

\* Who has attached has closed the question it read, and has written nothing else.
AttachedClosedOne ==
  \A c \in Call : call[c].phase = "attached" =>
    /\ call[c].row = Asked(call[c].row.question)
    /\ call[c].row.question \in Call
    /\ call[call[c].row.question].ask # Null
    /\ \E i \in DOMAIN trail[call[c].talk] :
         /\ trail[call[c].talk][i].question = call[c].row.question
         /\ ~ Opens(trail[call[c].talk][i])
         /\ \A j \in DOMAIN trail[call[c].talk] : trail[call[c].talk][j].call = c <=> j = i

\* A call is in one conversation and, once its transaction has begun, at one time.
CallsArePlaced ==
  \A c \in Call :
    /\ call[c].phase # "idle" => call[c].talk \in Talk
    /\ call[c].ask # Null => call[c].expiresAt \in Time
    /\ call[c].phase \in {"begun", "read"} => call[c].at \in Time
    /\ call[c].phase \in {"read", "attached", "expired"} => call[c].row \in Row

ConversationInv ==
  /\ TypeOK
  /\ EachQuestionClosesOnce
  /\ ClosedByItsDeadline
  /\ RowsFollowTheTrail
  /\ TrailIsOfEndedCalls
  /\ ReadsAreOfTheirVersion
  /\ AttachedClosedOne
  /\ CallsArePlaced

=============================================================================
