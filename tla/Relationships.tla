--------------------------- MODULE Relationships ---------------------------
(***************************************************************************)
(* The relationship table, the functions that move its rows, and the HTTP  *)
(* routes over them (relationships/relationships.ts, http/relationships.ts,*)
(* db/migrations/0004_users_relationships.sql, 0009_redteam_fixes.sql).    *)
(*                                                                         *)
(* A call of one of the five actions is authorized from a read of the row, *)
(* opens a SERIALIZABLE transaction, reads the status in it, judges the    *)
(* move, writes the row and its audit row, and after the commit reads the  *)
(* row again for the answer.  Calls interleave between all of these.       *)
(***************************************************************************)
EXTENDS StateMachines, FiniteSets

CONSTANTS
  Person,       \* app_user ids
  Rel,          \* identifiers of rows of the relationship table
  Call,         \* HTTP requests to the action routes
  Null,         \* SQL null
  WINDOW,       \* relationship_invitation_window(), in ticks of the clock
  maxNow        \* bound: the clock stops here

ASSUME RelationshipsAssumption ==
  /\ WINDOW \in Nat
  /\ maxNow \in Nat
  /\ Null \notin Person \cup Rel \cup Nat

VARIABLES
  relationship,  \* the relationship table; Null where there is no row yet
  log,           \* audit_log rows with entity_type 'relationship', by entity
  now,           \* the clock of the database
  call           \* what each HTTP request holds

vars == <<relationship, log, now, call>>

Time == 0 .. maxNow

\* invite() writes the inviter as user_a, the sender, and the other person as
\* user_b, the recipient; no function changes the sides.
RelationshipRow ==
  [user_a : Person, user_b : Person, status : RelationshipStatus,
   invited_at : Time, activated_at : Time \cup {Null}]

\* `call` is not a column: it tells the properties whose row this is.
LogRow == [call : Call, actor : Person, before : RelationshipStatus,
           after : RelationshipStatus, at : Time]

\* RELATIONSHIP_ACTIONS: the status each action moves to.
target == [accept |-> "active", pause |-> "paused", resume |-> "active",
           terminate |-> "terminated", resend |-> "invited"]

\* Null is none of what it stands for the absence of.
ASSUME NullAssumption ==
  /\ Null \notin RelationshipRow
  /\ Null \notin DOMAIN target

Phase == {"idle", "authorized", "begun", "judged", "applied", "answered",
          "refused", "failed"}

CallRecord ==
  [phase : Phase, rel : Rel \cup {Null}, by : Person \cup {Null},
   action : DOMAIN target \cup {Null},
   at : Time \cup {Null},                       \* now() of the transaction
   from : RelationshipStatus \cup {Null},       \* what currentStatus returned
   seen : Nat]                                  \* the version in its snapshot

Idle == [phase |-> "idle", rel |-> Null, by |-> Null, action |-> Null, at |-> Null,
         from |-> Null, seen |-> 0]

\* A call about to open a transaction, for the first time or again.
Authorized(r, p, action) ==
  [phase |-> "authorized", rel |-> r, by |-> p, action |-> action, at |-> Null,
   from |-> Null, seen |-> 0]

TypeOK ==
  /\ relationship \in [Rel -> RelationshipRow \cup {Null}]
  /\ log \in [Rel -> Seq(LogRow)]
  /\ now \in Time
  /\ call \in [Call -> CallRecord]

Init ==
  /\ relationship = [r \in Rel |-> Null]
  /\ log = [r \in Rel |-> <<>>]
  /\ now = 0
  /\ call = [c \in Call |-> Idle]

Exists(r) == relationship[r] # Null

At(c, phase) == call[c].phase = phase

Tick ==
  /\ now < maxNow
  /\ now' = now + 1
  /\ UNCHANGED <<relationship, log, call>>

(***************************************************************************)
(* Invitations.                                                            *)
(***************************************************************************)

\* Bug: the unique index is over the raw columns.
LiveFromTo(p, q) ==
  \E r \in Rel : /\ Exists(r)
                 /\ relationship[r].status # "terminated"
                 /\ relationship[r].user_a = p
                 /\ relationship[r].user_b = q

\* relationship_one_live_per_pair: over the least and the greatest of the two
\* ids, so that either of them may have sent the invitation.
relationship_one_live_per_pair(p, q) ==
  \E r \in Rel : /\ Exists(r)
                 /\ relationship[r].status # "terminated"
                 /\ {relationship[r].user_a, relationship[r].user_b} = {p, q}

\* One INSERT.  An invitation of oneself, or of somebody a live relationship
\* already joins to the inviter, is refused and changes nothing.
invite(r, p, q) ==
  /\ ~ Exists(r)
  /\ p # q
  /\ ~ relationship_one_live_per_pair(p, q)
  /\ relationship' = [relationship EXCEPT
       ![r] = [user_a |-> p, user_b |-> q, status |-> "invited",
               invited_at |-> now, activated_at |-> Null]]
  /\ UNCHANGED <<log, now, call>>

(***************************************************************************)
(* A call of an action route.                                              *)
(***************************************************************************)

\* The role the policy of the route requires.
mayDo(row, p, action) ==
  CASE action = "accept" -> p = row.user_b
    [] action = "resend" -> p = row.user_a
    [] OTHER             -> p \in {row.user_a, row.user_b}

\* The guard before the handler: the row is read and the person's side of it
\* compared with the role.  Everybody else gets 404.
authorize(c, r, p, action) ==
  /\ At(c, "idle")
  /\ Exists(r)
  /\ mayDo(relationship[r], p, action)
  /\ call' = [call EXCEPT ![c] = Authorized(r, p, action)]
  /\ UNCHANGED <<relationship, log, now>>

\* BEGIN: now() is the start of the transaction from here on.
begin(c) ==
  /\ At(c, "authorized")
  /\ call' = [call EXCEPT ![c].phase = "begun", ![c].at = now]
  /\ UNCHANGED <<relationship, log, now>>

\* currentStatus, the first statement, which fixes the snapshot, and the
\* assertLegal of transitionWithin: an undeclared move is a 409.
judge(c) ==
  /\ At(c, "begun")
  /\ LET r    == call[c].rel
         from == relationship[r].status
     IN  call' = [call EXCEPT
           ![c].phase = IF isDeclared(relationshipMachine, from, target[call[c].action])
                          THEN "judged" ELSE "refused",
           ![c].from = from,
           ![c].seen = Len(log[r])]
  /\ UNCHANGED <<relationship, log, now>>

\* Every update of a row adds to its history, so that the length of the
\* history tells one version of the row from another.  Nothing else writes it.
Unmoved(c) == Len(log[call[c].rel]) = call[c].seen

\* Bug: only an acceptance is held to the window.
AcceptExpired(c) ==
  LET row == relationship[call[c].rel]
  IN  /\ call[c].action = "accept"
      /\ row.status = "invited"
      /\ call[c].at > row.invited_at + WINDOW

\* relationship_reject_expired_activation, on the row before the update.
relationship_reject_expired_activation(c) ==
  LET row == relationship[call[c].rel]
  IN  /\ target[call[c].action] = "active"
      /\ row.status = "invited"
      /\ call[c].at > row.invited_at + WINDOW

relationship_reject_revival(c) ==
  /\ relationship[call[c].rel].status = "terminated"
  /\ target[call[c].action] # "terminated"

Refuses(c) ==
  relationship_reject_expired_activation(c) \/ relationship_reject_revival(c)

\* The columns the action sets: activate() takes the clock of the process,
\* resendInvitation() the now() of the transaction.
Changed(c) ==
  LET k   == call[c]
      row == relationship[k.rel]
  IN  [user_a       |-> row.user_a,
       user_b       |-> row.user_b,
       status       |-> target[k.action],
       invited_at   |-> IF k.action = "resend" THEN k.at ELSE row.invited_at,
       activated_at |-> IF k.action = "accept" THEN now ELSE row.activated_at]

relationship_activated_at_absent_while_invited(row) ==
  row.status = "invited" => row.activated_at = Null

\* Bug: the UPDATE is by id alone, of a status read outside the transaction.
UpdateById(c) ==
  /\ At(c, "judged")
  /\ ~ Refuses(c)
  /\ LET k == call[c]
     IN  /\ relationship' = [relationship EXCEPT ![k.rel] = Changed(c)]
         /\ log' = [log EXCEPT ![k.rel] = Append(@,
              [call |-> c, actor |-> k.by, before |-> k.from,
               after |-> target[k.action], at |-> k.at])]
  /\ call' = [call EXCEPT ![c].phase = "applied"]
  /\ UNCHANGED <<now>>

\* The UPDATE where the status is still the one judged, the audit row, the
\* commit.  It goes through only if nobody has written the row since.
update(c) ==
  /\ At(c, "judged")
  /\ Unmoved(c)
  /\ relationship[call[c].rel].status = call[c].from
  /\ ~ Refuses(c)
  /\ relationship_activated_at_absent_while_invited(Changed(c))
  /\ LET k       == call[c]
         written == [call |-> c, actor |-> k.by, before |-> k.from,
                     after |-> target[k.action], at |-> k.at]
     IN  /\ audit_require_row(k.from, Changed(c).status, <<written>>)
         /\ relationship' = [relationship EXCEPT ![k.rel] = Changed(c)]
         /\ log' = [log EXCEPT ![k.rel] = Append(@, written)]
  /\ call' = [call EXCEPT ![c].phase = "applied"]
  /\ UNCHANGED <<now>>

\* A trigger raises RL001 or RL002, and the route answers 409.
updateRefused(c) ==
  /\ At(c, "judged")
  /\ Unmoved(c)
  /\ Refuses(c)
  /\ call' = [call EXCEPT ![c].phase = "refused"]
  /\ UNCHANGED <<relationship, log, now>>

\* Somebody wrote the row after the snapshot: 40001, and withSerializableTx
\* starts the whole function again.
retry(c) ==
  /\ At(c, "judged")
  /\ ~ Unmoved(c)
  /\ call' = [call EXCEPT ![c] = Authorized(call[c].rel, call[c].by, call[c].action)]
  /\ UNCHANGED <<relationship, log, now>>

\* After the commit: the row is read again, as it then is, and returned.
view(c) ==
  /\ At(c, "applied")
  /\ call' = [call EXCEPT ![c].phase = "answered"]
  /\ UNCHANGED <<relationship, log, now>>

\* The connection is lost or the budget of the retries is spent: a 503.  What
\* has committed stays; an open transaction rolls back.
fail(c) ==
  /\ call[c].phase \in {"authorized", "begun", "judged", "applied"}
  /\ call' = [call EXCEPT ![c].phase = "failed"]
  /\ UNCHANGED <<relationship, log, now>>

CallStep(c) ==
  \/ \E r \in Rel, p \in Person, action \in DOMAIN target : authorize(c, r, p, action)
  \/ begin(c)
  \/ judge(c)
  \/ update(c)
  \/ updateRefused(c)
  \/ retry(c)
  \/ view(c)
  \/ fail(c)

Next ==
  \/ Tick
  \/ \E r \in Rel, p, q \in Person : invite(r, p, q)
  \/ \E c \in Call : CallStep(c)

Spec == Init /\ [][Next]_vars

(***************************************************************************)
(* Properties.                                                             *)
(***************************************************************************)

\* Two people share at most one relationship that has not been terminated,
\* whichever of them sent the invitation: with two, every cap of a plan could
\* be passed by inviting twice (0004_users_relationships.sql).
OneLivePerPair ==
  \A r, s \in Rel :
    (/\ r # s /\ Exists(r) /\ Exists(s)
     /\ relationship[r].status # "terminated"
     /\ relationship[s].status # "terminated")
      => {relationship[r].user_a, relationship[r].user_b}
           # {relationship[s].user_a, relationship[s].user_b}

\* Where the first i moves of a relationship have brought it.
stateAfter(r, i) == IF i = 0 THEN "invited" ELSE log[r][i].after

\* The history of a relationship is a path through the declared machine: it
\* starts at 'invited', each move leaves the state the one before it reached,
\* and the last one is the status of the row.  This is what the read inside
\* the transaction and the compare-and-swap are for (RED-1).
HistoryIsAPath ==
  \A r \in Rel :
    /\ \A i \in DOMAIN log[r] :
         /\ log[r][i].before = stateAfter(r, i - 1)
         /\ isDeclared(relationshipMachine, log[r][i].before, log[r][i].after)
    /\ Exists(r) => relationship[r].status = stateAfter(r, Len(log[r]))

\* Nobody leaves 'invited' for 'active', by whichever action, in a transaction
\* begun more than the window after the invitation was last sent: the row is
\* frozen from the resend before to the acceptance, so expiry needs no job.
AcceptedInTime ==
  \A r \in Rel : \A i \in DOMAIN log[r] :
    (log[r][i].before = "invited" /\ log[r][i].after = "active")
      => log[r][i].at <= relationship[r].invited_at + WINDOW

\* What the table and a call in progress hold.  A row that is still 'invited'
\* has a history of resends only, so an acceptance is never undone by one.
RowsInv ==
  \A r \in Rel :
    /\ ~ Exists(r) => log[r] = <<>>
    /\ Exists(r) => /\ relationship[r].user_a # relationship[r].user_b
                    /\ relationship_activated_at_absent_while_invited(relationship[r])
                    /\ relationship[r].status = "invited"
                         => \A i \in DOMAIN log[r] : log[r][i].after = "invited"

CallsInv ==
  \A c \in Call : ~ At(c, "idle") =>
    /\ call[c].rel # Null /\ Exists(call[c].rel)
    /\ call[c].by # Null /\ call[c].action # Null
    /\ ~ At(c, "authorized") => (At(c, "failed") \/ call[c].at # Null)
    /\ At(c, "judged") =>
         /\ isDeclared(relationshipMachine, call[c].from, target[call[c].action])
         /\ call[c].seen <= Len(log[call[c].rel])
         /\ Unmoved(c) => call[c].from = relationship[call[c].rel].status

\* The type invariant and everything above, which is inductive.
RelationshipsInv ==
  /\ TypeOK
  /\ OneLivePerPair
  /\ HistoryIsAPath
  /\ AcceptedInTime
  /\ RowsInv
  /\ CallsInv
=============================================================================
