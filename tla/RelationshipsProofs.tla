------------------------ MODULE RelationshipsProofs ------------------------
(***************************************************************************)
(* What is proved of Relationships and of the invite route over it, for    *)
(* every set of people, relationships, calls and invitations and every     *)
(* length of the window.                                                   *)
(***************************************************************************)
EXTENDS Invitations, FiniteSetTheorems, TLAPS

(***************************************************************************)
(* Facts about the machine and about histories.                            *)
(***************************************************************************)

LEMMA Statuses ==
  /\ RelationshipStatus = {"invited", "active", "paused", "terminated"}
  /\ DOMAIN target = {"accept", "pause", "resume", "terminate", "resend"}
  /\ \A action \in DOMAIN target : target[action] \in RelationshipStatus
BY DEF RelationshipStatus, relationshipMachine, target

\* Only an invitation is sent again, and nothing leaves 'terminated'.
LEMMA Declared ==
  ASSUME NEW from \in RelationshipStatus, NEW to, isDeclared(relationshipMachine, from, to)
  PROVE  /\ from # "terminated"
         /\ to = "invited" => from = "invited"
BY Statuses DEF isDeclared, declaredFrom, relationshipMachine

\* A history one row longer keeps its rows and ends in the new one.
LEMMA HistoryGrows ==
  ASSUME NEW S, NEW history \in Seq(S), NEW row \in S
  PROVE  /\ history \o <<row>> \in Seq(S)
         /\ Append(history, row) = history \o <<row>>
         /\ Len(history \o <<row>>) = Len(history) + 1
         /\ \A i \in DOMAIN (history \o <<row>>) :
              \/ i \in DOMAIN history /\ (history \o <<row>>)[i] = history[i]
              \/ i = Len(history) + 1 /\ (history \o <<row>>)[i] = row
         /\ \A i \in DOMAIN history : (history \o <<row>>)[i] = history[i]
         /\ (history \o <<row>>)[Len(history) + 1] = row
OBVIOUS

(***************************************************************************)
(* The inductive invariant.                                                *)
(***************************************************************************)

LEMMA TimeIsNumbers == Time \subseteq Nat /\ Null \notin Time /\ 0 \in Time
BY RelationshipsAssumption DEF Time

LEMMA InitRelationshipsInv == Init => RelationshipsInv
<1> SUFFICES ASSUME Init PROVE RelationshipsInv
  OBVIOUS
<1>1. Idle \in CallRecord
  BY DEF Idle, CallRecord, Phase
<1>2. TypeOK
  BY <1>1, TimeIsNumbers DEF Init, TypeOK
<1>3. (\A r \in Rel : ~ Exists(r) /\ log[r] = <<>>) /\ \A c \in Call : At(c, "idle")
  BY DEF Init, Exists, At, Idle
<1> QED
  BY <1>2, <1>3 DEF RelationshipsInv, OneLivePerPair, HistoryIsAPath, AcceptedInTime, RowsInv, CallsInv

\* A step of a call that writes no row.
LEMMA QuietStepKeeps ==
  ASSUME RelationshipsInv, UNCHANGED <<relationship, log>>, now' \in Time,
         call' \in [Call -> CallRecord], CallsInv'
  PROVE  RelationshipsInv'
BY DEF RelationshipsInv, TypeOK, OneLivePerPair, HistoryIsAPath, stateAfter, AcceptedInTime, RowsInv,
       Exists

\* What such a step owes of the call it is a step of.
CallInv(c) ==
  ~ At(c, "idle") =>
    /\ call[c].rel # Null /\ Exists(call[c].rel)
    /\ call[c].by # Null /\ call[c].action # Null
    /\ ~ At(c, "authorized") => (At(c, "failed") \/ call[c].at # Null)
    /\ At(c, "judged") =>
         /\ isDeclared(relationshipMachine, call[c].from, target[call[c].action])
         /\ call[c].seen <= Len(log[call[c].rel])
         /\ Unmoved(c) => call[c].from = relationship[call[c].rel].status

LEMMA OneCallKeeps ==
  ASSUME RelationshipsInv, UNCHANGED <<relationship, log, now>>, NEW c \in Call,
         NEW k \in CallRecord, call' = [call EXCEPT ![c] = k], CallInv(c)'
  PROVE  RelationshipsInv'
<1>1. call' \in [Call -> CallRecord] /\ now' \in Time
  BY DEF RelationshipsInv, TypeOK
<1>2. \A d \in Call \ {c} : call'[d] = call[d]
  BY DEF RelationshipsInv, TypeOK
<1>3. CallsInv'
  <2> SUFFICES ASSUME NEW d \in Call PROVE CallInv(d)'
    BY DEF CallsInv, CallInv
  <2>1. CASE d = c
    BY <2>1
  <2>2. CASE d # c
    BY <1>2, <2>2 DEF RelationshipsInv, CallsInv, CallInv, At, Exists, Unmoved
  <2> QED BY <2>1, <2>2
<1> QED
  BY <1>1, <1>3, QuietStepKeeps

\* What a call holds.
LEMMA CallHolds ==
  ASSUME RelationshipsInv, NEW c \in Call, ~ At(c, "idle")
  PROVE  /\ call[c] \in CallRecord
         /\ call[c].rel \in Rel /\ call[c].by \in Person /\ call[c].action \in DOMAIN target
         /\ relationship[call[c].rel] \in RelationshipRow
         /\ log[call[c].rel] \in Seq(LogRow)
         /\ relationship[call[c].rel].status \in RelationshipStatus
<1>1. call[c] \in CallRecord /\ call[c].rel # Null /\ call[c].by # Null /\ call[c].action # Null
      /\ Exists(call[c].rel)
  BY DEF RelationshipsInv, TypeOK, CallsInv
<1>2. call[c].rel \in Rel /\ call[c].by \in Person /\ call[c].action \in DOMAIN target
  BY <1>1 DEF CallRecord
<1>3. relationship[call[c].rel] \in RelationshipRow /\ log[call[c].rel] \in Seq(LogRow)
  BY <1>1, <1>2 DEF RelationshipsInv, TypeOK, Exists
<1> QED
  BY <1>1, <1>2, <1>3 DEF RelationshipRow

LEMMA TickKeeps ==
  ASSUME RelationshipsInv, Tick
  PROVE  RelationshipsInv'
<1>1. UNCHANGED <<relationship, log, call>> /\ now' \in Time
  BY RelationshipsAssumption DEF Tick, RelationshipsInv, TypeOK, Time
<1>2. CallsInv'
  BY <1>1 DEF RelationshipsInv, CallsInv, At, Exists, Unmoved
<1> QED
  BY <1>1, <1>2, QuietStepKeeps DEF RelationshipsInv, TypeOK

LEMMA InviteKeeps ==
  ASSUME RelationshipsInv, NEW r \in Rel, NEW p \in Person, NEW q \in Person, invite(r, p, q)
  PROVE  RelationshipsInv'
<1> DEFINE row == [user_a |-> p, user_b |-> q, status |-> "invited",
                   invited_at |-> now, activated_at |-> Null]
<1>1. /\ ~ Exists(r) /\ p # q /\ ~ relationship_one_live_per_pair(p, q)
      /\ relationship' = [relationship EXCEPT ![r] = row]
      /\ log' = log /\ now' = now /\ call' = call /\ log[r] = <<>>
      /\ relationship \in [Rel -> RelationshipRow \cup {Null}]
  BY DEF invite, RelationshipsInv, RowsInv, TypeOK
<1>2. row \in RelationshipRow
  BY Statuses DEF RelationshipRow, RelationshipsInv, TypeOK
<1>3. row # Null
  BY <1>2, NullAssumption
<1> HIDE DEF row
<1>4. /\ relationship'[r] = row /\ \A s \in Rel \ {r} : relationship'[s] = relationship[s]
      /\ relationship' \in [Rel -> RelationshipRow \cup {Null}]
  BY <1>1, <1>2
<1>5. row.user_a = p /\ row.user_b = q /\ row.status = "invited" /\ row.activated_at = Null
  BY DEF row
<1>6. TypeOK'
  BY <1>1, <1>4 DEF RelationshipsInv, TypeOK
<1>7. OneLivePerPair'
  <2> SUFFICES ASSUME NEW s \in Rel, NEW t \in Rel, s # t, Exists(s)', Exists(t)',
                      relationship'[s].status # "terminated",
                      relationship'[t].status # "terminated"
               PROVE  {relationship'[s].user_a, relationship'[s].user_b}
                        # {relationship'[t].user_a, relationship'[t].user_b}
    BY DEF OneLivePerPair
  <2>1. CASE s # r /\ t # r
    BY <1>4, <2>1 DEF RelationshipsInv, OneLivePerPair, Exists
  <2>2. CASE s = r
    <3>1. {relationship[t].user_a, relationship[t].user_b} # {p, q}
      BY <1>1, <1>4, <2>2 DEF relationship_one_live_per_pair, Exists
    <3> QED BY <1>4, <1>5, <2>2, <3>1
  <2>3. CASE t = r
    <3>1. {relationship[s].user_a, relationship[s].user_b} # {p, q}
      BY <1>1, <1>4, <2>3 DEF relationship_one_live_per_pair, Exists
    <3> QED BY <1>4, <1>5, <2>3, <3>1
  <2> QED BY <2>1, <2>2, <2>3
<1>8. HistoryIsAPath'
  <2>1. stateAfter(r, Len(log[r])) = "invited"
    BY <1>1 DEF stateAfter
  <2> QED BY <1>1, <1>4, <1>5, <2>1 DEF RelationshipsInv, HistoryIsAPath, stateAfter, Exists
<1>9. AcceptedInTime'
  BY <1>1, <1>4 DEF RelationshipsInv, AcceptedInTime
<1>10. RowsInv'
  BY <1>1, <1>3, <1>4, <1>5
     DEF RelationshipsInv, RowsInv, Exists, relationship_activated_at_absent_while_invited
<1>11. CallsInv'
  <2> SUFFICES ASSUME NEW c \in Call PROVE CallInv(c)'
    BY DEF CallsInv, CallInv
  <2>1. CASE At(c, "idle")
    BY <1>1, <2>1 DEF CallInv, At
  <2>2. CASE ~ At(c, "idle")
    <3>1. call[c].rel # r /\ call[c].rel \in Rel
      BY <1>1, <2>2, CallHolds DEF RelationshipsInv, CallsInv
    <3> QED BY <1>1, <1>4, <2>2, <3>1 DEF RelationshipsInv, CallsInv, CallInv, At, Exists, Unmoved
  <2> QED BY <2>1, <2>2
<1> QED
  BY <1>6, <1>7, <1>8, <1>9, <1>10, <1>11 DEF RelationshipsInv

LEMMA AuthorizedCalls ==
  ASSUME NEW r \in Rel, NEW p \in Person, NEW action \in DOMAIN target
  PROVE  LET k == Authorized(r, p, action)
         IN  /\ k \in CallRecord /\ k.phase = "authorized"
             /\ k.rel = r /\ k.by = p /\ k.action = action
             /\ k.rel # Null /\ k.by # Null /\ k.action # Null
BY RelationshipsAssumption, NullAssumption DEF Authorized, CallRecord, Phase

\* A call that opens its transaction, for the first time or again.
LEMMA AuthorizedKeeps ==
  ASSUME RelationshipsInv, NEW c \in Call, NEW r \in Rel, NEW p \in Person,
         NEW action \in DOMAIN target, Exists(r),
         call' = [call EXCEPT ![c] = Authorized(r, p, action)],
         UNCHANGED <<relationship, log, now>>
  PROVE  RelationshipsInv'
<1> DEFINE k == Authorized(r, p, action)
<1>1. /\ k \in CallRecord /\ k.phase = "authorized" /\ k.rel = r
      /\ k.rel # Null /\ k.by # Null /\ k.action # Null
  BY AuthorizedCalls
<1> HIDE DEF k
<1>2. call' = [call EXCEPT ![c] = k]
  BY DEF k
<1>3. CallInv(c)'
  BY <1>1, <1>2 DEF CallInv, At, Exists, RelationshipsInv, TypeOK
<1> QED
  BY <1>1, <1>2, <1>3, OneCallKeeps

LEMMA BeginKeeps ==
  ASSUME RelationshipsInv, NEW c \in Call, begin(c)
  PROVE  RelationshipsInv'
<1> DEFINE k == [call[c] EXCEPT !.phase = "begun", !.at = now]
<1>1. At(c, "authorized") /\ call' = [call EXCEPT ![c] = k] /\ UNCHANGED <<relationship, log, now>>
  BY DEF begin
<1>2. call[c] \in CallRecord /\ now \in Time
  BY DEF RelationshipsInv, TypeOK
<1>3. k \in CallRecord /\ k.phase = "begun" /\ k.at = now /\ k.rel = call[c].rel
      /\ k.by = call[c].by /\ k.action = call[c].action
  BY <1>2 DEF CallRecord, Phase
<1> HIDE DEF k
<1>4. CallInv(c)'
  BY <1>1, <1>2, <1>3, TimeIsNumbers DEF CallInv, At, Exists, RelationshipsInv, TypeOK, CallsInv
<1> QED
  BY <1>1, <1>3, <1>4, OneCallKeeps

LEMMA JudgeKeeps ==
  ASSUME RelationshipsInv, NEW c \in Call, judge(c)
  PROVE  RelationshipsInv'
<1> DEFINE r     == call[c].rel
           from  == relationship[r].status
           phase == IF isDeclared(relationshipMachine, from, target[call[c].action])
                      THEN "judged" ELSE "refused"
           k     == [call[c] EXCEPT !.phase = phase, !.from = from, !.seen = Len(log[r])]
<1>1. At(c, "begun") /\ call' = [call EXCEPT ![c] = k] /\ UNCHANGED <<relationship, log, now>>
  BY DEF judge
<1>2. /\ call[c] \in CallRecord /\ log[r] \in Seq(LogRow) /\ from \in RelationshipStatus
      /\ call[c].at # Null
  BY <1>1, CallHolds DEF At, RelationshipsInv, CallsInv
<1>4. phase = "judged" => isDeclared(relationshipMachine, from, target[call[c].action])
  OBVIOUS
<1>5. phase \in {"judged", "refused"} /\ Len(log[r]) \in Nat
  BY <1>2
<1> HIDE DEF phase
<1>3. /\ k \in CallRecord /\ k.phase = phase /\ k.at = call[c].at /\ k.rel = r
      /\ k.by = call[c].by /\ k.action = call[c].action /\ k.from = from
      /\ k.seen = Len(log[r])
  BY <1>2, <1>5 DEF CallRecord, Phase
<1> HIDE DEF k
<1>6. CallInv(c)'
  BY <1>1, <1>2, <1>3, <1>4, <1>5
     DEF CallInv, At, Exists, Unmoved, RelationshipsInv, TypeOK, CallsInv
<1> QED
  BY <1>1, <1>3, <1>6, OneCallKeeps

\* The call ends, or its answer is read.
LEMMA EndKeeps ==
  ASSUME RelationshipsInv, NEW c \in Call, updateRefused(c) \/ view(c) \/ fail(c)
  PROVE  RelationshipsInv'
<1>1. PICK phase \in {"refused", "answered", "failed"} :
        /\ call' = [call EXCEPT ![c] = [call[c] EXCEPT !.phase = phase]]
        /\ call[c].phase \in {"authorized", "begun", "judged", "applied"}
        /\ phase # "failed" => call[c].phase # "authorized"
        /\ UNCHANGED <<relationship, log, now>>
  BY DEF updateRefused, view, fail, At
<1> DEFINE k == [call[c] EXCEPT !.phase = phase]
<1>2. /\ k \in CallRecord /\ k.phase = phase /\ k.at = call[c].at /\ k.rel = call[c].rel
      /\ k.by = call[c].by /\ k.action = call[c].action
  BY DEF RelationshipsInv, TypeOK, CallRecord, Phase
<1>3. call' = [call EXCEPT ![c] = k]
  BY <1>1
<1> HIDE DEF k
<1>4. CallInv(c)'
  BY <1>1, <1>2, <1>3 DEF CallInv, At, Exists, RelationshipsInv, TypeOK, CallsInv
<1> QED
  BY <1>1, <1>2, <1>3, <1>4, OneCallKeeps

LEMMA RetryKeeps ==
  ASSUME RelationshipsInv, NEW c \in Call, retry(c)
  PROVE  RelationshipsInv'
<1>1. /\ At(c, "judged") /\ UNCHANGED <<relationship, log, now>>
      /\ call' = [call EXCEPT ![c] = Authorized(call[c].rel, call[c].by, call[c].action)]
  BY DEF retry
<1>2. ~ At(c, "idle")
  BY <1>1 DEF At
<1>3. /\ call[c].rel \in Rel /\ call[c].by \in Person /\ call[c].action \in DOMAIN target
      /\ Exists(call[c].rel)
  BY <1>2, CallHolds DEF RelationshipsInv, CallsInv
<1> QED
  BY <1>1, <1>3, AuthorizedKeeps

(***************************************************************************)
(* The step that writes the row.                                           *)
(***************************************************************************)

\* What the audit row of the step says of it.
Tells(written, r, row, new) ==
  /\ log'[r] = log[r] \o <<written>>
  /\ written.before = row.status /\ written.after = new.status
  /\ (row.status = "invited" /\ new.status = "active")
        => written.at <= row.invited_at + WINDOW

\* The row and its history before and after, and the move between them.
LEMMA UpdateWrites ==
  ASSUME RelationshipsInv, NEW c \in Call, update(c),
         NEW r, r = call[c].rel, NEW row, row = relationship[r], NEW new, new = relationship'[r]
  PROVE  /\ r \in Rel /\ row \in RelationshipRow /\ Exists(r)
         /\ new \in RelationshipRow /\ Exists(r)'
         /\ \A s \in Rel \ {r} : relationship'[s] = relationship[s] /\ log'[s] = log[s]
         /\ isDeclared(relationshipMachine, row.status, new.status)
         /\ new.user_a = row.user_a /\ new.user_b = row.user_b
         /\ relationship_activated_at_absent_while_invited(new)
         /\ new.status # "invited" => new.invited_at = row.invited_at
         /\ log[r] \in Seq(LogRow) /\ call[c].at \in Time
         /\ \E written \in LogRow : Tells(written, r, row, new)
         /\ now' = now /\ call' = [call EXCEPT ![c].phase = "applied"]
         /\ relationship' \in [Rel -> RelationshipRow \cup {Null}]
         /\ log' \in [Rel -> Seq(LogRow)]
<1> DEFINE written == [call |-> c, actor |-> call[c].by, before |-> call[c].from,
                       after |-> target[call[c].action], at |-> call[c].at]
<1>1. /\ At(c, "judged") /\ Unmoved(c) /\ row.status = call[c].from /\ ~ Refuses(c)
      /\ relationship_activated_at_absent_while_invited(Changed(c))
      /\ relationship' = [relationship EXCEPT ![r] = Changed(c)]
      /\ log' = [log EXCEPT ![r] = Append(@, written)]
      /\ now' = now /\ call' = [call EXCEPT ![c].phase = "applied"]
  BY DEF update
<1>2. ~ At(c, "idle") /\ ~ At(c, "authorized") /\ ~ At(c, "failed")
  BY <1>1 DEF At
<1>3. /\ call[c] \in CallRecord /\ r \in Rel /\ call[c].by \in Person
      /\ call[c].action \in DOMAIN target /\ row \in RelationshipRow
      /\ log[r] \in Seq(LogRow) /\ row.status \in RelationshipStatus
  BY <1>2, CallHolds
<1>4. /\ Exists(r) /\ call[c].at # Null
      /\ isDeclared(relationshipMachine, row.status, target[call[c].action])
  BY <1>1, <1>2 DEF RelationshipsInv, CallsInv
<1>5. call[c].at \in Time /\ now \in Time /\ target[call[c].action] \in RelationshipStatus
  BY <1>3, <1>4, Statuses DEF CallRecord, RelationshipsInv, TypeOK
<1>6. /\ Changed(c).user_a = row.user_a /\ Changed(c).user_b = row.user_b
      /\ Changed(c).status = target[call[c].action]
      /\ call[c].action # "resend" => Changed(c).invited_at = row.invited_at
  BY DEF Changed
<1>7. Changed(c) \in RelationshipRow
  BY <1>3, <1>5 DEF Changed, RelationshipRow
<1>8. relationship \in [Rel -> RelationshipRow \cup {Null}] /\ log \in [Rel -> Seq(LogRow)]
  BY DEF RelationshipsInv, TypeOK
<1>9. /\ new = Changed(c) /\ relationship' \in [Rel -> RelationshipRow \cup {Null}]
      /\ \A s \in Rel \ {r} : relationship'[s] = relationship[s]
  BY <1>1, <1>3, <1>7, <1>8
<1>10. written \in LogRow
  BY <1>1, <1>3, <1>5 DEF LogRow
<1>11. (row.status = "invited" /\ new.status = "active")
         => call[c].at <= row.invited_at + WINDOW
  <2>1. row.invited_at \in Time
    BY <1>3 DEF RelationshipRow
  <2>2. (row.status = "invited" /\ target[call[c].action] = "active")
          => ~ (call[c].at > row.invited_at + WINDOW)
    BY <1>1 DEF Refuses, relationship_reject_expired_activation
  <2>3. call[c].at \in Nat /\ row.invited_at \in Nat /\ WINDOW \in Nat
    BY <1>5, <2>1, TimeIsNumbers, RelationshipsAssumption
  <2>4. ~ (call[c].at > row.invited_at + WINDOW) => call[c].at <= row.invited_at + WINDOW
    BY <2>3
  <2> QED
    BY <1>6, <1>9, <2>2, <2>4
<1>12. written.before = row.status /\ written.after = new.status /\ written.at = call[c].at
  BY <1>1, <1>6, <1>9
<1> HIDE DEF written
<1>13. /\ log'[r] = log[r] \o <<written>> /\ \A s \in Rel \ {r} : log'[s] = log[s]
       /\ log' \in [Rel -> Seq(LogRow)]
  <2>1. Append(log[r], written) = log[r] \o <<written>> /\ log[r] \o <<written>> \in Seq(LogRow)
    BY <1>3, <1>10, HistoryGrows
  <2> QED BY <1>1, <1>3, <1>8, <2>1
<1>14. Exists(r)'
  BY <1>7, <1>9, NullAssumption DEF Exists
<1>15. new.status # "invited" => new.invited_at = row.invited_at
  <2>1. call[c].action = "resend" => target[call[c].action] = "invited"
    BY DEF target
  <2> QED BY <1>6, <1>9, <2>1
<1>16. isDeclared(relationshipMachine, row.status, new.status)
  BY <1>4, <1>6, <1>9
<1>17. Tells(written, r, row, new)
  BY <1>11, <1>12, <1>13 DEF Tells
<1> QED
  BY <1>1, <1>3, <1>4, <1>5, <1>6, <1>7, <1>9, <1>10, <1>13, <1>14, <1>15, <1>16, <1>17

LEMMA UpdateKeeps ==
  ASSUME RelationshipsInv, NEW c \in Call, update(c)
  PROVE  RelationshipsInv'
<1>0. PICK r, row, new, n :
        r = call[c].rel /\ row = relationship[r] /\ new = relationship'[r] /\ n = Len(log[r])
  OBVIOUS
<1>1. /\ r \in Rel /\ row \in RelationshipRow /\ Exists(r)
      /\ new \in RelationshipRow /\ Exists(r)'
      /\ \A s \in Rel \ {r} : relationship'[s] = relationship[s] /\ log'[s] = log[s]
      /\ isDeclared(relationshipMachine, row.status, new.status)
      /\ new.user_a = row.user_a /\ new.user_b = row.user_b
      /\ relationship_activated_at_absent_while_invited(new)
      /\ new.status # "invited" => new.invited_at = row.invited_at
      /\ log[r] \in Seq(LogRow) /\ call[c].at \in Time
      /\ now' = now /\ call' = [call EXCEPT ![c].phase = "applied"]
      /\ relationship' \in [Rel -> RelationshipRow \cup {Null}]
      /\ log' \in [Rel -> Seq(LogRow)]
  BY <1>0, UpdateWrites
<1>12. PICK written \in LogRow : Tells(written, r, row, new)
  BY <1>0, UpdateWrites
<1>2. /\ log'[r] = log[r] \o <<written>>
      /\ written.before = row.status /\ written.after = new.status
      /\ (row.status = "invited" /\ new.status = "active")
            => written.at <= row.invited_at + WINDOW
  BY <1>12 DEF Tells
<1>3. row.status # "terminated" /\ (new.status = "invited" => row.status = "invited")
  <2>1. row.status \in RelationshipStatus
    BY <1>0, <1>1 DEF RelationshipRow
  <2> QED BY <1>0, <1>1, <2>1, Declared
<1>4. \A s \in Rel : Exists(s)' => Exists(s)
  BY <1>0, <1>1 DEF Exists
<1>5. /\ n \in Nat /\ Len(log'[r]) = n + 1
      /\ DOMAIN log[r] = 1 .. n /\ DOMAIN log'[r] = 1 .. n + 1
      /\ \A i \in DOMAIN log'[r] :
           (i \in DOMAIN log[r] /\ log'[r][i] = log[r][i])
             \/ (i = n + 1 /\ log'[r][i] = written)
      /\ \A i \in DOMAIN log[r] : log'[r][i] = log[r][i]
      /\ log'[r][n + 1] = written
  <2>1. log'[r] \in Seq(LogRow)
    BY <1>0, <1>1
  <2>2. log[r] \in Seq(LogRow) /\ n \in Nat
    BY <1>0, <1>1
  <2> DEFINE grown == log[r] \o <<written>>
  <2>3. /\ Len(grown) = Len(log[r]) + 1
        /\ \A i \in DOMAIN grown :
             \/ i \in DOMAIN log[r] /\ grown[i] = log[r][i]
             \/ i = Len(log[r]) + 1 /\ grown[i] = written
        /\ \A i \in DOMAIN log[r] : grown[i] = log[r][i]
        /\ grown[Len(log[r]) + 1] = written
    BY <2>2, HistoryGrows
  <2>4. /\ Len(log'[r]) = n + 1
        /\ DOMAIN log[r] = 1 .. n /\ DOMAIN log'[r] = 1 .. Len(log'[r])
    BY <1>0, <1>2, <2>1, <2>2, <2>3
  <2> HIDE DEF grown
  <2>5. log'[r] = grown
    BY <1>2 DEF grown
  <2> QED BY <1>0, <2>2, <2>3, <2>4, <2>5
<1>6. TypeOK'
  <2>1. call' \in [Call -> CallRecord]
    <3>1. call[c] \in CallRecord /\ call \in [Call -> CallRecord]
      BY DEF RelationshipsInv, TypeOK
    <3>2. [call[c] EXCEPT !.phase = "applied"] \in CallRecord
      BY <3>1 DEF CallRecord, Phase
    <3>3. call' = [call EXCEPT ![c] = [call[c] EXCEPT !.phase = "applied"]]
      BY <1>1
    <3> QED BY <3>1, <3>2, <3>3
  <2> QED BY <1>0, <1>1, <2>1 DEF RelationshipsInv, TypeOK
<1>7. OneLivePerPair'
  <2>1. \A s \in Rel : Exists(s)' =>
          /\ relationship'[s].user_a = relationship[s].user_a
          /\ relationship'[s].user_b = relationship[s].user_b
          /\ relationship'[s].status # "terminated" => relationship[s].status # "terminated"
    BY <1>0, <1>1, <1>3
  <2> QED BY <1>4, <2>1 DEF RelationshipsInv, OneLivePerPair
<1>8. HistoryIsAPath'
  <2> SUFFICES ASSUME NEW s \in Rel
               PROVE  /\ \A i \in DOMAIN log'[s] :
                           /\ log'[s][i].before = stateAfter(s, i - 1)'
                           /\ isDeclared(relationshipMachine, log'[s][i].before, log'[s][i].after)
                      /\ Exists(s)' => relationship'[s].status = stateAfter(s, Len(log[s]))'
    BY DEF HistoryIsAPath
  <2>1. CASE s # r
    BY <1>0, <1>1, <2>1 DEF RelationshipsInv, HistoryIsAPath, Exists, stateAfter
  <2>2. CASE s = r
    <3>1. \A m \in 0 .. n : stateAfter(r, m)' = stateAfter(r, m)
      BY <1>5 DEF stateAfter
    <3>2. row.status = stateAfter(r, n)
      BY <1>0, <1>1 DEF RelationshipsInv, HistoryIsAPath
    <3>3. stateAfter(r, n + 1)' = new.status /\ Len(log'[r]) = n + 1
      <4>1. n + 1 # 0
        BY <1>5
      <4> QED BY <1>2, <1>5, <4>1 DEF stateAfter
    <3>4. ASSUME NEW i \in DOMAIN log'[r]
          PROVE  /\ log'[r][i].before = stateAfter(r, i - 1)'
                 /\ isDeclared(relationshipMachine, log'[r][i].before, log'[r][i].after)
      <4>1. CASE i \in DOMAIN log[r] /\ log'[r][i] = log[r][i]
        <5>1. i - 1 \in 0 .. n
          BY <1>5, <4>1
        <5> QED BY <1>0, <1>1, <3>1, <4>1, <5>1 DEF RelationshipsInv, HistoryIsAPath
      <4>2. CASE i = n + 1 /\ log'[r][i] = written
        <5>1. i - 1 = n /\ i - 1 \in 0 .. n
          BY <1>5, <4>2
        <5> QED BY <1>0, <1>1, <1>2, <3>1, <3>2, <4>2, <5>1
      <4> QED BY <1>5, <3>4, <4>1, <4>2
    <3>5. relationship'[r].status = stateAfter(r, Len(log[r]))'
      BY <1>0, <1>1, <3>3
    <3> QED BY <2>2, <3>4, <3>5
  <2> QED BY <2>1, <2>2
<1>9. AcceptedInTime'
  <2> SUFFICES ASSUME NEW s \in Rel, NEW i \in DOMAIN log'[s],
                      log'[s][i].before = "invited", log'[s][i].after = "active"
               PROVE  log'[s][i].at <= relationship'[s].invited_at + WINDOW
    BY DEF AcceptedInTime
  <2>1. CASE s # r
    BY <1>0, <1>1, <2>1 DEF RelationshipsInv, AcceptedInTime
  <2>2. CASE s = r /\ i \in DOMAIN log[r] /\ log'[r][i] = log[r][i]
    <3>1. row.status # "invited"
      BY <1>0, <1>1, <2>2 DEF RelationshipsInv, RowsInv
    <3>2. new.invited_at = row.invited_at
      BY <1>0, <1>1, <1>3, <3>1
    <3> QED BY <1>0, <1>1, <2>2, <3>2 DEF RelationshipsInv, AcceptedInTime
  <2>3. CASE s = r /\ i = n + 1 /\ log'[r][i] = written
    <3>1. row.status = "invited" /\ new.status = "active"
      BY <1>2, <2>3
    <3> QED BY <1>0, <1>1, <1>2, <2>3, <3>1
  <2> QED BY <1>5, <2>1, <2>2, <2>3
<1>10. RowsInv'
  <2> SUFFICES ASSUME NEW s \in Rel
               PROVE  /\ ~ Exists(s)' => log'[s] = <<>>
                      /\ Exists(s)' =>
                           /\ relationship'[s].user_a # relationship'[s].user_b
                           /\ relationship_activated_at_absent_while_invited(relationship'[s])
                           /\ relationship'[s].status = "invited"
                                => \A i \in DOMAIN log'[s] : log'[s][i].after = "invited"
    BY DEF RowsInv, relationship_activated_at_absent_while_invited
  <2>1. CASE s # r
    BY <1>0, <1>1, <2>1 DEF RelationshipsInv, RowsInv, Exists
  <2>2. CASE s = r
    <3>1. row.user_a # row.user_b
      BY <1>0, <1>1 DEF RelationshipsInv, RowsInv
    <3>2. new.status = "invited" => \A i \in DOMAIN log[r] : log[r][i].after = "invited"
      BY <1>0, <1>1, <1>3 DEF RelationshipsInv, RowsInv
    <3>3. new.status = "invited" => \A i \in DOMAIN log'[r] : log'[r][i].after = "invited"
      BY <1>2, <1>5, <3>2
    <3> QED BY <1>0, <1>1, <2>2, <3>1, <3>3
  <2> QED BY <2>1, <2>2
<1>11. CallsInv'
  <2> SUFFICES ASSUME NEW d \in Call PROVE CallInv(d)'
    BY DEF CallsInv, CallInv
  <2>1. CASE d = c
    <3>1. call[c].rel # Null /\ call[c].by # Null /\ call[c].action # Null /\ call[c].at # Null
      BY DEF update, At, RelationshipsInv, CallsInv
    <3>2. /\ call'[c].phase = "applied" /\ call'[c].rel = call[c].rel
          /\ call'[c].by = call[c].by /\ call'[c].action = call[c].action
          /\ call'[c].at = call[c].at
      BY <1>0, <1>1 DEF RelationshipsInv, TypeOK, CallRecord
    <3> QED BY <1>0, <1>1, <2>1, <3>1, <3>2 DEF CallInv, At
  <2>2. CASE d # c
    <3>1. call'[d] = call[d]
      BY <1>0, <1>1, <2>2 DEF RelationshipsInv, TypeOK
    <3>2. ~ At(d, "idle") => call[d].rel \in Rel /\ call[d] \in CallRecord
      BY CallHolds
    <3>3. CASE call[d].rel = r
      <4>1. ASSUME At(d, "judged") PROVE call[d].seen <= n
        BY <1>0, <3>3, <4>1 DEF RelationshipsInv, CallsInv, At
      <4>2. call[d].seen \in Nat
        BY DEF RelationshipsInv, TypeOK, CallRecord
      <4>3. At(d, "judged") => /\ call[d].seen <= Len(log'[r])
                               /\ Len(log'[r]) # call[d].seen
        BY <1>5, <4>1, <4>2
      <4> QED BY <1>0, <1>1, <3>1, <3>3, <4>3 DEF CallInv, At, Unmoved, RelationshipsInv, CallsInv
    <3>4. CASE call[d].rel # r
      BY <1>0, <1>1, <3>1, <3>2, <3>4 DEF CallInv, At, Exists, Unmoved, RelationshipsInv, CallsInv
    <3> QED BY <3>3, <3>4
  <2> QED BY <2>1, <2>2
<1> QED
  BY <1>6, <1>7, <1>8, <1>9, <1>10, <1>11 DEF RelationshipsInv

(***************************************************************************)
(* Every step keeps it.                                                    *)
(***************************************************************************)

LEMMA StutterKeeps ==
  ASSUME RelationshipsInv, UNCHANGED vars
  PROVE  RelationshipsInv'
<1>1. UNCHANGED <<relationship, log, now, call>>
  BY DEF vars
<1>2. CallsInv'
  BY <1>1 DEF RelationshipsInv, CallsInv, At, Exists, Unmoved
<1> QED
  BY <1>1, <1>2, QuietStepKeeps DEF RelationshipsInv, TypeOK

LEMMA CallStepKeeps ==
  ASSUME RelationshipsInv, NEW c \in Call, CallStep(c)
  PROVE  RelationshipsInv'
<1>1. CASE \E r \in Rel, p \in Person, action \in DOMAIN target : authorize(c, r, p, action)
  BY <1>1, AuthorizedKeeps DEF authorize
<1>2. CASE begin(c)
  BY <1>2, BeginKeeps
<1>3. CASE judge(c)
  BY <1>3, JudgeKeeps
<1>4. CASE update(c)
  BY <1>4, UpdateKeeps
<1>5. CASE updateRefused(c) \/ view(c) \/ fail(c)
  BY <1>5, EndKeeps
<1>6. CASE retry(c)
  BY <1>6, RetryKeeps
<1> QED
  BY <1>1, <1>2, <1>3, <1>4, <1>5, <1>6 DEF CallStep

\* Of every behaviour of the table and its action routes: the types, one live
\* relationship of a pair, histories that are paths, acceptances in time, and
\* what ties a call between its read and its write to the row.
THEOREM RelationshipsInvariance == Spec => []RelationshipsInv
<1>1. Init => RelationshipsInv
  BY InitRelationshipsInv
<1>2. RelationshipsInv /\ [Next]_vars => RelationshipsInv'
  <2> SUFFICES ASSUME RelationshipsInv, [Next]_vars PROVE RelationshipsInv'
    OBVIOUS
  <2>1. CASE Tick
    BY <2>1, TickKeeps
  <2>2. CASE \E r \in Rel, p, q \in Person : invite(r, p, q)
    BY <2>2, InviteKeeps
  <2>3. CASE \E c \in Call : CallStep(c)
    BY <2>3, CallStepKeeps
  <2>4. CASE UNCHANGED vars
    BY <2>4, StutterKeeps
  <2> QED
    BY <2>1, <2>2, <2>3, <2>4 DEF Next
<1> QED
  BY <1>1, <1>2, PTL DEF Spec

(***************************************************************************)
(* The invite route over the table.                                        *)
(***************************************************************************)

LEMMA InitInvitationsInv == InvitationsInit => InvitationsInv
<1> SUFFICES ASSUME InvitationsInit PROVE InvitationsInv
  OBVIOUS
<1>1. RelationshipsInv /\ (\A r \in Rel : ~ Exists(r)) /\ \A i \in Invitation : Is(i, "idle")
  BY InitRelationshipsInv DEF InvitationsInit, Init, Exists, Is
<1>2. InvitationsTypeOK
  BY <1>1 DEF InvitationsInit, InvitationsTypeOK, InvitationState, RelationshipsInv
<1> QED
  BY <1>1, <1>2 DEF InvitationsInv, SidesHaveTheirRoles, InvitersAreSenders, Is

\* What a request to invite holds once it is under way.
LEMMA InvitationHolds ==
  ASSUME InvitationsTypeOK, NEW i \in Invitation, ~ Is(i, "idle")
  PROVE  /\ invitation[i].from \in Person /\ invitation[i].to \in Person
         /\ invitation[i] \in [phase : {"asked", "permitted", "found", "created", "limited",
                                       "refused", "failed"},
                               from : Person, to : Person, ip : Ip, at : Time \cup {Null}]
BY DEF InvitationsTypeOK, InvitationState, Is

\* The rows stay on the sides they were written with.
LEMMA SidesStay ==
  ASSUME RelationshipsInv, NEW c \in Call, CallStep(c)
  PROVE  \A r \in Rel : Exists(r)' =>
           /\ Exists(r)
           /\ relationship'[r].user_a = relationship[r].user_a
           /\ relationship'[r].user_b = relationship[r].user_b
<1>1. CASE update(c)
  <2>1. PICK r, row, new : r = call[c].rel /\ row = relationship[r] /\ new = relationship'[r]
    OBVIOUS
  <2>2. /\ r \in Rel /\ Exists(r) /\ new.user_a = row.user_a /\ new.user_b = row.user_b
        /\ \A s \in Rel \ {r} : relationship'[s] = relationship[s]
    BY <1>1, <2>1, UpdateWrites
  <2> QED BY <2>1, <2>2 DEF Exists
<1>2. CASE ~ update(c)
  <2>1. relationship' = relationship
    BY <1>2 DEF CallStep, authorize, begin, judge, updateRefused, retry, view, fail
  <2> QED BY <2>1 DEF Exists
<1> QED BY <1>1, <1>2

\* A step that leaves the users and the requests alone, or adds roles only.
LEMMA RolesStay ==
  ASSUME InvitationsInv, RelationshipsInv', InvitationsTypeOK', UNCHANGED invitation,
         \A p \in Person : app_user[p] \subseteq app_user'[p],
         \A r \in Rel : Exists(r)' =>
           /\ Exists(r)
           /\ relationship'[r].user_a = relationship[r].user_a
           /\ relationship'[r].user_b = relationship[r].user_b
  PROVE  InvitationsInv'
<1>1. \A r \in Rel : Exists(r) => relationship[r].user_a \in Person /\ relationship[r].user_b \in Person
  BY DEF InvitationsInv, RelationshipsInv, TypeOK, RelationshipRow, Exists
<1>2. SidesHaveTheirRoles'
  BY <1>1, InvitationHolds DEF InvitationsInv, SidesHaveTheirRoles, Is
<1>3. InvitersAreSenders'
  BY InvitationHolds DEF InvitationsInv, InvitersAreSenders, Is
<1> QED
  BY <1>2, <1>3 DEF InvitationsInv

RequestPhase == {"asked", "permitted", "found", "created", "limited", "refused", "failed"}

\* A request that goes on keeps its parameters.
LEMMA RequestGoesOn ==
  ASSUME InvitationsInv, RelationshipsInv', bucket' \in [Key -> Bucket \cup {Null}],
         NEW i \in Invitation, ~ Is(i, "idle"), NEW phase \in RequestPhase, NEW at \in Time \cup {Null},
         invitation' = [invitation EXCEPT ![i] = [invitation[i] EXCEPT !.phase = phase, !.at = at]],
         app_user' \in [Person -> SUBSET UserRole],
         \A p \in Person : app_user[p] \subseteq app_user'[p],
         phase = "found" => "recipient" \in app_user'[invitation[i].to],
         \A r \in Rel : Exists(r)' => /\ "sender" \in app_user'[relationship'[r].user_a]
                                      /\ "recipient" \in app_user'[relationship'[r].user_b]
  PROVE  InvitationsInv'
<1> DEFINE k == [invitation[i] EXCEPT !.phase = phase, !.at = at]
<1>1. /\ invitation[i] \in [phase : RequestPhase, from : Person, to : Person, ip : Ip,
                            at : Time \cup {Null}]
      /\ invitation \in [Invitation -> InvitationState]
  BY InvitationHolds DEF InvitationsInv, InvitationsTypeOK, RequestPhase
<1>2. /\ k \in [phase : RequestPhase, from : Person, to : Person, ip : Ip, at : Time \cup {Null}]
      /\ k.phase = phase /\ k.from = invitation[i].from /\ k.to = invitation[i].to
  BY <1>1
<1> HIDE DEF k
<1>3. invitation' \in [Invitation -> InvitationState]
  BY <1>1, <1>2 DEF InvitationState, RequestPhase, k
<1>4. invitation'[i] = k /\ \A j \in Invitation \ {i} : invitation'[j] = invitation[j]
  BY <1>1 DEF k
<1>5. InvitationsTypeOK'
  BY <1>3 DEF InvitationsTypeOK, RelationshipsInv
<1>6. \A j \in Invitation : ~ Is(j, "idle") =>
        invitation[j].from \in Person /\ invitation[j].to \in Person
  BY InvitationHolds DEF InvitationsInv
<1>7. SidesHaveTheirRoles'
  BY <1>2, <1>4, <1>6 DEF InvitationsInv, SidesHaveTheirRoles, Is
<1>8. InvitersAreSenders'
  BY <1>2, <1>4, <1>6 DEF InvitationsInv, InvitersAreSenders, Is
<1> QED
  BY <1>5, <1>7, <1>8 DEF InvitationsInv

\* The users and the sides are as they were.
LEMMA RolesAsTheyWere ==
  ASSUME InvitationsInv, UNCHANGED <<vars, app_user>>
  PROVE  /\ RelationshipsInv' /\ app_user' \in [Person -> SUBSET UserRole]
         /\ \A p \in Person : app_user[p] \subseteq app_user'[p]
         /\ \A r \in Rel : Exists(r)' => /\ "sender" \in app_user'[relationship'[r].user_a]
                                          /\ "recipient" \in app_user'[relationship'[r].user_b]
<1>1. RelationshipsInv'
  BY StutterKeeps DEF InvitationsInv
<1> QED
  BY <1>1 DEF InvitationsInv, InvitationsTypeOK, SidesHaveTheirRoles, Exists, vars

LEMMA SameAt ==
  ASSUME InvitationsInv, NEW i \in Invitation, ~ Is(i, "idle"), NEW phase \in RequestPhase,
         invitation' = [invitation EXCEPT ![i].phase = phase]
  PROVE  \E at \in Time \cup {Null} :
           invitation' = [invitation EXCEPT ![i] = [invitation[i] EXCEPT !.phase = phase, !.at = at]]
<1>1. invitation[i] \in [phase : RequestPhase, from : Person, to : Person, ip : Ip,
                        at : Time \cup {Null}]
  BY InvitationHolds DEF InvitationsInv, RequestPhase
<1>2. [invitation[i] EXCEPT !.phase = phase]
        = [invitation[i] EXCEPT !.phase = phase, !.at = invitation[i].at]
  BY <1>1
<1> QED
  BY <1>1, <1>2

LEMMA CheckKeeps ==
  ASSUME InvitationsInv, NEW i \in Invitation, check(i)
  PROVE  InvitationsInv'
<1>1. PICK phase \in {"permitted", "limited"} :
        invitation' = [invitation EXCEPT ![i] = [invitation[i] EXCEPT !.phase = phase, !.at = now]]
  BY DEF check
<1>2. ~ Is(i, "idle") /\ UNCHANGED <<vars, app_user>> /\ phase \in RequestPhase /\ phase # "found"
  BY DEF check, Is, RequestPhase
<1>3. now \in Time /\ bucket \in [Key -> Bucket \cup {Null}]
  BY DEF InvitationsInv, InvitationsTypeOK, TypeOK
<1>4. \A b \in Bucket \cup {Null} : hit(b) \in Bucket
  BY <1>3 DEF hit, opensWindow, Bucket
<1>5. bucket' \in [Key -> Bucket \cup {Null}]
  BY <1>3, <1>4 DEF check
<1> QED
  BY <1>1, <1>2, <1>3, <1>5, RolesAsTheyWere, RequestGoesOn

LEMMA FindRecipientKeeps ==
  ASSUME InvitationsInv, NEW i \in Invitation, findRecipient(i)
  PROVE  InvitationsInv'
<1>1. ~ Is(i, "idle") /\ UNCHANGED <<vars, bucket>> /\ "found" \in RequestPhase
  BY DEF findRecipient, Is, RequestPhase
<1>2. invitation[i].to \in Person
  BY <1>1, InvitationHolds DEF InvitationsInv
<1>3. /\ app_user' \in [Person -> SUBSET UserRole] /\ "recipient" \in app_user'[invitation[i].to]
      /\ \A p \in Person : app_user[p] \subseteq app_user'[p]
  BY <1>2 DEF findRecipient, findOrCreateUserByPhone, InvitationsInv, InvitationsTypeOK, UserRole
<1>4. RelationshipsInv'
  BY <1>1, StutterKeeps DEF InvitationsInv
<1>5. \A r \in Rel : Exists(r)' => /\ "sender" \in app_user'[relationship'[r].user_a]
                                   /\ "recipient" \in app_user'[relationship'[r].user_b]
  <2>1. \A r \in Rel : Exists(r) => relationship[r].user_a \in Person /\ relationship[r].user_b \in Person
    BY DEF InvitationsInv, RelationshipsInv, TypeOK, RelationshipRow, Exists
  <2> QED BY <1>1, <1>3, <2>1 DEF InvitationsInv, SidesHaveTheirRoles, Exists, vars
<1>6. bucket' \in [Key -> Bucket \cup {Null}]
  BY <1>1, <1>4 DEF InvitationsInv, InvitationsTypeOK, vars, Key, Bucket, Time
<1>7. invitation' = [invitation EXCEPT ![i].phase = "found"]
  BY DEF findRecipient
<1>8. PICK at \in Time \cup {Null} :
        invitation' = [invitation EXCEPT ![i] = [invitation[i] EXCEPT !.phase = "found", !.at = at]]
  BY <1>1, <1>7, SameAt
<1> QED
  BY <1>1, <1>3, <1>4, <1>5, <1>6, <1>7, <1>8, RequestGoesOn

LEMMA InviteFoundKeeps ==
  ASSUME InvitationsInv, NEW i \in Invitation, NEW r \in Rel, inviteFound(i, r)
  PROVE  InvitationsInv'
<1>1. PICK p \in Person, q \in Person : p = invitation[i].from /\ q = invitation[i].to
  BY InvitationHolds DEF InvitationsInv, inviteFound, Is
<1>2. /\ ~ Is(i, "idle") /\ invite(r, p, q) /\ UNCHANGED <<app_user, bucket>>
      /\ "created" \in RequestPhase /\ "created" # "found"
      /\ invitation' = [invitation EXCEPT ![i].phase = "created"]
  BY <1>1 DEF inviteFound, Is, RequestPhase
<1>3. RelationshipsInv'
  BY <1>2, InviteKeeps DEF InvitationsInv
<1>4. "sender" \in app_user[p] /\ "recipient" \in app_user[q]
  BY <1>1, <1>2 DEF inviteFound, InvitationsInv, SidesHaveTheirRoles, InvitersAreSenders
<1>5. \A s \in Rel : Exists(s)' => /\ "sender" \in app_user'[relationship'[s].user_a]
                                   /\ "recipient" \in app_user'[relationship'[s].user_b]
  <2>1. /\ relationship'[r].user_a = p /\ relationship'[r].user_b = q
        /\ \A s \in Rel \ {r} : relationship'[s] = relationship[s]
    BY <1>2 DEF invite, InvitationsInv, RelationshipsInv, TypeOK
  <2> QED BY <1>2, <1>4, <2>1 DEF InvitationsInv, SidesHaveTheirRoles, Exists
<1>6. /\ app_user' \in [Person -> SUBSET UserRole] /\ bucket' \in [Key -> Bucket \cup {Null}]
      /\ \A s \in Person : app_user[s] \subseteq app_user'[s]
  BY <1>2 DEF InvitationsInv, InvitationsTypeOK, Key, Bucket, Time
<1>8. PICK at \in Time \cup {Null} :
        invitation' = [invitation EXCEPT ![i] = [invitation[i] EXCEPT !.phase = "created", !.at = at]]
  BY <1>2, SameAt
<1> QED
  BY <1>2, <1>3, <1>5, <1>6, <1>8, RequestGoesOn

LEMMA InvitationEndKeeps ==
  ASSUME InvitationsInv, NEW i \in Invitation, alreadyExists(i) \/ inviteFails(i)
  PROVE  InvitationsInv'
<1>1. PICK phase \in {"refused", "failed"} : invitation' = [invitation EXCEPT ![i].phase = phase]
  BY DEF alreadyExists, inviteFails
<1>2. /\ ~ Is(i, "idle") /\ UNCHANGED <<vars, app_user, bucket>>
      /\ phase \in RequestPhase /\ phase # "found"
  BY DEF alreadyExists, inviteFails, Is, RequestPhase
<1>3. bucket' \in [Key -> Bucket \cup {Null}]
  BY <1>2 DEF InvitationsInv, InvitationsTypeOK
<1>8. PICK at \in Time \cup {Null} :
        invitation' = [invitation EXCEPT ![i] = [invitation[i] EXCEPT !.phase = phase, !.at = at]]
  BY <1>1, <1>2, SameAt
<1> QED
  BY <1>1, <1>2, <1>3, RolesAsTheyWere, <1>8, RequestGoesOn

LEMMA InviteRouteKeeps ==
  ASSUME InvitationsInv, NEW i \in Invitation, NEW p \in Person, NEW q \in Person, NEW ip \in Ip,
         inviteRoute(i, p, q, ip)
  PROVE  InvitationsInv'
<1> DEFINE k == [phase |-> "asked", from |-> p, to |-> q, ip |-> ip, at |-> Null]
<1>1. /\ Is(i, "idle") /\ "sender" \in app_user[p] /\ UNCHANGED <<vars, app_user, bucket>>
      /\ invitation' = [invitation EXCEPT ![i] = k]
  BY DEF inviteRoute
<1>2. k \in InvitationState /\ k.phase = "asked" /\ k.from = p
  BY DEF InvitationState
<1> HIDE DEF k
<1>3. /\ invitation'[i] = k /\ \A j \in Invitation \ {i} : invitation'[j] = invitation[j]
      /\ invitation' \in [Invitation -> InvitationState]
  BY <1>1, <1>2 DEF InvitationsInv, InvitationsTypeOK
<1>4. InvitationsTypeOK'
  BY <1>1, <1>3, RolesAsTheyWere DEF InvitationsInv, InvitationsTypeOK, RelationshipsInv
<1>5. SidesHaveTheirRoles'
  BY <1>1, <1>2, <1>3, RolesAsTheyWere DEF InvitationsInv, SidesHaveTheirRoles, Is
<1>6. InvitersAreSenders'
  BY <1>1, <1>2, <1>3 DEF InvitationsInv, InvitersAreSenders, Is
<1> QED
  BY <1>1, <1>4, <1>5, <1>6, RolesAsTheyWere DEF InvitationsInv

LEMMA OthersKeep ==
  ASSUME InvitationsInv, UNCHANGED invitationVars,
         Tick \/ (\E c \in Call : CallStep(c)) \/ UNCHANGED vars
  PROVE  InvitationsInv'
<1>1. RelationshipsInv'
  BY TickKeeps, CallStepKeeps, StutterKeeps DEF InvitationsInv
<1>2. UNCHANGED <<app_user, bucket, invitation>>
  BY DEF invitationVars
<1>3. InvitationsTypeOK'
  BY <1>1, <1>2 DEF InvitationsInv, InvitationsTypeOK, RelationshipsInv
<1>4. CASE \E c \in Call : CallStep(c)
  <2>1. PICK c \in Call : CallStep(c)
    BY <1>4
  <2>2. \A r \in Rel : Exists(r)' =>
           /\ Exists(r)
           /\ relationship'[r].user_a = relationship[r].user_a
           /\ relationship'[r].user_b = relationship[r].user_b
    BY <2>1, SidesStay DEF InvitationsInv
  <2> QED BY <1>1, <1>2, <1>3, <2>2, RolesStay
<1>5. CASE Tick \/ UNCHANGED vars
  <2>1. relationship' = relationship
    BY <1>5 DEF Tick, vars
  <2> QED BY <1>1, <1>2, <1>3, <2>1, RolesStay DEF Exists
<1> QED
  BY <1>4, <1>5

LEMMA SignUpKeeps ==
  ASSUME InvitationsInv, NEW p \in Person, signUp(p)
  PROVE  InvitationsInv'
<1>1. /\ app_user' = [app_user EXCEPT ![p] = @ \cup {"sender"}]
      /\ UNCHANGED <<vars, bucket, invitation>> /\ app_user \in [Person -> SUBSET UserRole]
  BY DEF signUp, findOrCreateUserByPhone, InvitationsInv, InvitationsTypeOK
<1>2. /\ app_user' \in [Person -> SUBSET UserRole]
      /\ \A q \in Person : app_user[q] \subseteq app_user'[q]
  BY <1>1 DEF UserRole
<1>3. RelationshipsInv'
  BY <1>1, StutterKeeps DEF InvitationsInv
<1>4. InvitationsTypeOK'
  BY <1>1, <1>2, <1>3 DEF InvitationsInv, InvitationsTypeOK, RelationshipsInv
<1>5. relationship' = relationship
  BY <1>1 DEF vars
<1> QED
  BY <1>1, <1>2, <1>3, <1>4, <1>5, RolesStay DEF Exists

LEMMA InvitationsStep ==
  InvitationsInv /\ [InvitationsNext]_<<vars, invitationVars>> => InvitationsInv'
<1> SUFFICES ASSUME InvitationsInv, [InvitationsNext]_<<vars, invitationVars>>
             PROVE  InvitationsInv'
  OBVIOUS
<1>1. CASE UNCHANGED invitationVars /\ (Tick \/ (\E c \in Call : CallStep(c)) \/ UNCHANGED vars)
  BY <1>1, OthersKeep
<1>2. CASE \E p \in Person : signUp(p)
  BY <1>2, SignUpKeeps
<1>3. ASSUME NEW i \in Invitation, InvitationStep(i) PROVE InvitationsInv'
  <2>1. CASE \E p, q \in Person, ip \in Ip : inviteRoute(i, p, q, ip)
    BY <2>1, InviteRouteKeeps
  <2>2. CASE \E r \in Rel : inviteFound(i, r)
    BY <2>2, InviteFoundKeeps
  <2> QED
    BY <1>3, <2>1, <2>2, CheckKeeps, FindRecipientKeeps, InvitationEndKeeps DEF InvitationStep
<1> QED
  BY <1>1, <1>2, <1>3 DEF InvitationsNext

\* Of every behaviour of the table, its action routes and the invite route: all
\* of that, and that both sides of a relationship have a user with the role of
\* that side.
THEOREM InvitationsInvariance == InvitationsSpec => []InvitationsInv
BY InitInvitationsInv, InvitationsStep, PTL DEF InvitationsSpec

\* Two people never share two relationships that are not terminated, whichever
\* of them sent the invitations and however the requests overlap.
THEOREM NoSecondLiveRelationship == InvitationsSpec => []OneLivePerPair
<1>1. InvitationsInv => OneLivePerPair
  BY DEF InvitationsInv, RelationshipsInv
<1> QED BY <1>1, InvitationsInvariance, PTL

\* The audit rows of a relationship are a path of declared moves to its status.
THEOREM RelationshipHistories == InvitationsSpec => []HistoryIsAPath
<1>1. InvitationsInv => HistoryIsAPath
  BY DEF InvitationsInv, RelationshipsInv
<1> QED BY <1>1, InvitationsInvariance, PTL

\* Nobody activates an invitation whose window is over, by any action.
THEOREM NoLateAcceptance == InvitationsSpec => []AcceptedInTime
<1>1. InvitationsInv => AcceptedInTime
  BY DEF InvitationsInv, RelationshipsInv
<1> QED BY <1>1, InvitationsInvariance, PTL

\* Whoever is on a side of a relationship has a user with the role of it.
THEOREM SidesAreUsers == InvitationsSpec => []SidesHaveTheirRoles
<1>1. InvitationsInv => SidesHaveTheirRoles
  BY DEF InvitationsInv
<1> QED BY <1>1, InvitationsInvariance, PTL

(***************************************************************************)
(* The limiter.                                                            *)
(***************************************************************************)

\* A request that has passed the limiter.
Passed(i) == invitation[i].phase \notin {"idle", "asked", "limited"} /\ invitation[i].at # Null

LEMMA LimiterTypes ==
  ASSUME InvitationsInv
  PROVE  /\ now \in Nat /\ windowMs \in Nat \ {0} /\ Null \notin Nat
         /\ \A k \in Key : k[1] \in {"user", "ip"} /\ max[k[1]] \in Nat \ {0}
         /\ \A k \in Key : bucket[k] # Null => bucket[k] \in Bucket
         /\ \A k \in Key : bucket[k] # Null => bucket[k].window_start \in Nat /\ bucket[k].hits \in Nat
         /\ \A i \in Invitation : Passed(i) => invitation[i].at \in Nat
<1>1. now \in Nat /\ windowMs \in Nat \ {0} /\ Null \notin Nat
  BY TimeIsNumbers, RelationshipsAssumption, InvitationsAssumption
     DEF InvitationsInv, RelationshipsInv, TypeOK
<1>2. \A k \in Key : k[1] \in {"user", "ip"} /\ max[k[1]] \in Nat \ {0}
  BY InvitationsAssumption DEF Key
<1>3. \A k \in Key : bucket[k] # Null => bucket[k] \in Bucket
  BY DEF InvitationsInv, InvitationsTypeOK
<1>4. \A b \in Bucket : b.window_start \in Nat /\ b.hits \in Nat
  BY TimeIsNumbers DEF Bucket
<1>5. ASSUME NEW i \in Invitation, Passed(i) PROVE invitation[i].at \in Nat
  <2>1. invitation[i].at \in Time \cup {Null}
    BY <1>5, InvitationHolds DEF InvitationsInv, Passed, Is
  <2> QED BY <1>5, <2>1, TimeIsNumbers DEF Passed
<1> QED
  BY <1>1, <1>2, <1>3, <1>4, <1>5

\* A step that nobody passes the limiter in.
LEMMA NobodyPasses ==
  ASSUME LimitsInv, bucket' = bucket,
         \A i \in Invitation :
           /\ Passed(i)' <=> Passed(i)
           /\ Passed(i) => /\ invitation'[i].at = invitation[i].at
                          /\ invitation'[i].from = invitation[i].from
                          /\ invitation'[i].ip = invitation[i].ip
           /\ Is(i, "asked")' => invitation'[i].at = Null
  PROVE  PermittedAreCounted' /\ LimitsHold'
<1>1. ASSUME NEW k \in Key
      PROVE  permittedOf(k)' = permittedOf(k) /\ permittedSince(k)' = permittedSince(k)
  <2>1. permittedOf(k) = {i \in Invitation : Passed(i) /\ k \in keysOf(i)}
    BY DEF permittedOf, Passed
  <2>2. permittedOf(k)' = {i \in Invitation : Passed(i)' /\ k \in keysOf(i)'}
    BY DEF permittedOf, Passed
  <2>3. \A i \in Invitation : Passed(i) => keysOf(i)' = keysOf(i)
    BY DEF keysOf
  <2>4. permittedOf(k)' = permittedOf(k)
    BY <2>1, <2>2, <2>3
  <2>5. \A i \in permittedOf(k) : invitation'[i].at = invitation[i].at
    BY <2>1
  <2> QED BY <2>4, <2>5 DEF permittedSince
<1>2. PermittedAreCounted'
  <2>1. ASSUME NEW k \in Key, NEW i \in permittedOf(k)
        PROVE  invitation'[i].at = invitation[i].at
    BY DEF permittedOf, Passed
  <2> QED BY <1>1, <2>1 DEF LimitsInv, PermittedAreCounted
<1>3. LimitsHold'
  BY <1>1 DEF LimitsInv, LimitsHold
<1> QED BY <1>2, <1>3

LEMMA CheckCounts ==
  ASSUME LimitsInv, NEW i \in Invitation, check(i)
  PROVE  PermittedAreCounted' /\ LimitsHold'
<1>1. InvitationsInv /\ InvitationsInv'
  BY CheckKeeps DEF LimitsInv
<1> DEFINE ok == \A k \in keysOf(i) : allowed(k)
           phase == IF ok THEN "permitted" ELSE "limited"
<1>2. /\ ~ Is(i, "idle") /\ Is(i, "asked")
      /\ invitation' = [invitation EXCEPT ![i].phase = phase, ![i].at = now]
      /\ bucket' = [k \in Key |-> IF k \in keysOf(i) THEN hit(bucket[k]) ELSE bucket[k]]
      /\ now' = now
  BY DEF check, Is, vars
<1>3. invitation[i] \in [phase : RequestPhase, from : Person, to : Person, ip : Ip,
                        at : Time \cup {Null}]
  BY <1>1, <1>2, InvitationHolds DEF InvitationsInv, RequestPhase
<1>16. phase \in {"permitted", "limited"} /\ (phase = "permitted" <=> ok)
  OBVIOUS
<1> HIDE DEF ok
<1>4. /\ invitation'[i].phase = phase /\ invitation'[i].at = now
      /\ invitation'[i].from = invitation[i].from /\ invitation'[i].ip = invitation[i].ip
      /\ \A j \in Invitation : j # i => invitation'[j] = invitation[j]
  <2>1. invitation \in [Invitation -> InvitationState]
    BY <1>1 DEF InvitationsInv, InvitationsTypeOK
  <2>2. invitation' = [invitation EXCEPT ![i] = [invitation[i] EXCEPT !.phase = phase, !.at = now]]
    BY <1>2
  <2> HIDE DEF phase
  <2>3. /\ invitation'[i] = [invitation[i] EXCEPT !.phase = phase, !.at = now]
        /\ \A j \in Invitation : j # i => invitation'[j] = invitation[j]
    BY <2>1, <2>2
  <2> QED BY <1>3, <2>3
<1>5. /\ now \in Nat /\ windowMs \in Nat \ {0} /\ Null \notin Nat
      /\ \A k \in Key : max[k[1]] \in Nat \ {0}
      /\ \A k \in Key : bucket[k] # Null => bucket[k].window_start \in Nat /\ bucket[k].hits \in Nat
                                         /\ bucket[k] \in Bucket
      /\ \A j \in Invitation : Passed(j) => invitation[j].at \in Nat
  BY <1>1, LimiterTypes
<1>6. ~ Passed(i) /\ (Passed(i)' <=> ok) /\ \A j \in Invitation : j # i => (Passed(j)' <=> Passed(j))
  <2>1. ~ Passed(i)
    BY <1>2 DEF Passed, Is
  <2>2. Passed(i)' <=> ok
    <3>1. now # Null
      BY <1>5
    <3> HIDE DEF phase
    <3> QED BY <1>4, <1>16, <3>1 DEF Passed
  <2>3. \A j \in Invitation : j # i => (Passed(j)' <=> Passed(j))
    BY <1>4 DEF Passed
  <2> QED BY <2>1, <2>2, <2>3
<1>7. \A j \in Invitation : keysOf(j)' = keysOf(j)
  BY <1>4 DEF keysOf
<1>8. ASSUME NEW k \in Key
      PROVE  permittedOf(k)' = IF ok /\ k \in keysOf(i) THEN permittedOf(k) \cup {i}
                               ELSE permittedOf(k)
  <2>1. permittedOf(k) = {j \in Invitation : Passed(j) /\ k \in keysOf(j)}
    BY DEF permittedOf, Passed
  <2>2. permittedOf(k)' = {j \in Invitation : Passed(j)' /\ k \in keysOf(j)'}
    BY DEF permittedOf, Passed
  <2> QED BY <1>6, <1>7, <2>1, <2>2
<1>9. \A k \in Key : \A j \in permittedOf(k) : j # i /\ j \in Invitation /\ Passed(j)
                                             /\ invitation'[j].at = invitation[j].at
  BY <1>4, <1>6 DEF permittedOf, Passed
<1> DEFINE Counted(k) ==
      /\ IsFiniteSet(permittedOf(k)')
      /\ \A j \in permittedOf(k)' :
           bucket'[k] # Null /\ invitation'[j].at < bucket'[k].window_start + windowMs
      /\ bucket'[k] # Null => /\ Cardinality(permittedSince(k)') <= bucket'[k].hits
                             /\ Cardinality(permittedSince(k)') <= max[k[1]]
<1>10. ASSUME NEW k \in Key
       PROVE  /\ IsFiniteSet(permittedOf(k))
              /\ \A j \in permittedOf(k) :
                   bucket[k] # Null /\ invitation[j].at < bucket[k].window_start + windowMs
              /\ bucket[k] # Null => /\ Cardinality(permittedSince(k)) <= bucket[k].hits
                                    /\ Cardinality(permittedSince(k)) <= max[k[1]]
              /\ IsFiniteSet(permittedSince(k)) /\ Cardinality(permittedSince(k)) \in Nat
  <2>1. IsFiniteSet(permittedOf(k))
    BY DEF LimitsInv, PermittedAreCounted
  <2>2. IsFiniteSet(permittedSince(k))
    BY <2>1, FS_Subset DEF permittedSince
  <2> QED BY <2>1, <2>2, FS_CardinalityType DEF LimitsInv, PermittedAreCounted, LimitsHold
<1>11. ASSUME NEW k \in Key, k \notin keysOf(i) PROVE Counted(k)
  <2>1. bucket'[k] = bucket[k] /\ permittedOf(k)' = permittedOf(k)
    BY <1>2, <1>8, <1>11
  <2>2. permittedSince(k)' = permittedSince(k)
    BY <1>9, <2>1 DEF permittedSince
  <2> QED BY <1>9, <1>10, <2>1, <2>2
<1>12. ASSUME NEW k \in Key, k \in keysOf(i) PROVE Counted(k)
  <2>1. bucket'[k] = hit(bucket[k])
    BY <1>2, <1>12
  <2>2. /\ IsFiniteSet(permittedOf(k)')
        /\ permittedOf(k)' \subseteq permittedOf(k) \cup {i}
    BY <1>8, <1>10, FS_AddElement
  <2>3. ok => hit(bucket[k]).hits <= max[k[1]]
    BY <1>12 DEF ok, allowed
  <2>4. CASE opensWindow(bucket[k])
    <3>1. bucket'[k].window_start = now /\ bucket'[k].hits = 1 /\ bucket'[k] # Null
      <4>1. bucket'[k] = [window_start |-> now, hits |-> 1]
        BY <2>1, <2>4 DEF hit
      <4>2. now \in Time /\ 1 \in Nat
        BY <1>1 DEF InvitationsInv, RelationshipsInv, TypeOK
      <4>4. Null \notin Bucket
        BY NullIsNoBucket
      <4> QED BY <4>1, <4>2, <4>4 DEF Bucket
    <3>2. \A j \in permittedOf(k) : invitation[j].at \in Nat /\ invitation[j].at < now
      <4> TAKE j \in permittedOf(k)
      <4>1. bucket[k] # Null /\ invitation[j].at < bucket[k].window_start + windowMs
        BY <1>10
      <4>2. bucket[k].window_start <= now - windowMs
        BY <2>4, <4>1 DEF opensWindow
      <4>3. bucket[k].window_start \in Nat /\ invitation[j].at \in Nat
        BY <1>5, <1>9, <4>1
      <4> QED BY <1>5, <4>1, <4>2, <4>3
    <3>3. permittedSince(k)' \subseteq {i}
      <4>1. \A j \in permittedSince(k)' : j \in permittedOf(k)' /\ invitation'[j].at >= now
        BY <3>1 DEF permittedSince
      <4>2. \A j \in permittedOf(k) : ~ (invitation'[j].at >= now)
        BY <1>5, <1>9, <3>2
      <4> QED BY <2>2, <4>1, <4>2
    <3>4. Cardinality(permittedSince(k)') \in Nat /\ Cardinality(permittedSince(k)') <= 1
      <4>1. IsFiniteSet({i}) /\ Cardinality({i}) = 1
        BY FS_Singleton
      <4> QED BY <3>3, <4>1, FS_Subset, FS_CardinalityType
    <3>5. \A j \in permittedOf(k)' : invitation'[j].at < now + windowMs
      BY <1>4, <1>5, <1>9, <2>2, <3>2
    <3> QED BY <1>5, <2>2, <3>1, <3>4, <3>5
  <2>5. CASE ~ opensWindow(bucket[k])
    <3>1. bucket[k] # Null /\ ~ (bucket[k].window_start <= now - windowMs)
      BY <2>5 DEF opensWindow
    <3>2. PICK b \in Bucket : b = bucket[k] /\ b.window_start \in Nat /\ b.hits \in Nat
      BY <1>5, <3>1
    <3>3. bucket'[k].window_start = b.window_start /\ bucket'[k].hits = b.hits + 1
      BY <2>1, <2>5, <3>2 DEF hit, Bucket
    <3>4. bucket'[k] # Null
      <4>1. bucket'[k] = [b EXCEPT !.hits = b.hits + 1]
        BY <2>1, <2>5, <3>2 DEF hit
      <4>2. bucket'[k] \in Bucket
        BY <3>2, <4>1 DEF Bucket
      <4> QED BY <4>2, NullIsNoBucket
    <3>5. \A j \in permittedOf(k)' : invitation'[j].at < b.window_start + windowMs
      <4>1. now < b.window_start + windowMs
        BY <1>5, <3>1, <3>2
      <4> QED BY <1>4, <1>9, <1>10, <2>2, <3>2, <4>1
    <3>6. CASE ok
      <4>1. permittedSince(k)' \subseteq permittedSince(k) \cup {i}
        BY <1>9, <2>2, <3>2, <3>3 DEF permittedSince
      <4>2. /\ IsFiniteSet(permittedSince(k) \cup {i})
            /\ Cardinality(permittedSince(k) \cup {i}) \in Nat
            /\ Cardinality(permittedSince(k) \cup {i}) <= Cardinality(permittedSince(k)) + 1
        BY <1>10, FS_AddElement, FS_CardinalityType
      <4>3. /\ Cardinality(permittedSince(k)') \in Nat
            /\ Cardinality(permittedSince(k)') <= Cardinality(permittedSince(k) \cup {i})
        BY <4>1, <4>2, FS_Subset, FS_CardinalityType
      <4>4. Cardinality(permittedSince(k)') <= bucket'[k].hits
        BY <1>10, <3>1, <3>2, <3>3, <4>2, <4>3
      <4>5. bucket'[k].hits <= max[k[1]] /\ bucket'[k].hits \in Nat
        BY <2>1, <2>3, <3>2, <3>3, <3>6
      <4>6. Cardinality(permittedSince(k)') <= max[k[1]]
        BY <1>5, <4>3, <4>4, <4>5
      <4> QED BY <2>2, <3>3, <3>4, <3>5, <4>4, <4>6
    <3>7. CASE ~ ok
      <4>1. permittedOf(k)' = permittedOf(k)
        BY <1>8, <3>7
      <4>2. permittedSince(k)' = permittedSince(k)
        BY <1>9, <3>2, <3>3, <4>1 DEF permittedSince
      <4>3. Cardinality(permittedSince(k)') <= bucket'[k].hits
        BY <1>10, <3>1, <3>2, <3>3, <4>2
      <4> QED BY <1>10, <2>2, <3>1, <3>3, <3>4, <3>5, <4>2, <4>3
    <3> QED BY <3>6, <3>7
  <2> QED BY <2>4, <2>5
<1>13. \A j \in Invitation : Is(j, "asked")' => invitation'[j].at = Null
  BY <1>4 DEF LimitsInv, PermittedAreCounted, Is
<1>14. \A k \in Key : Counted(k)
  BY <1>11, <1>12
<1>15. windowMs' = windowMs /\ max' = max
  OBVIOUS
<1> QED
  BY <1>13, <1>14 DEF PermittedAreCounted, LimitsHold

LEMMA InitLimitsInv == InvitationsInit => LimitsInv
<1> SUFFICES ASSUME InvitationsInit PROVE LimitsInv
  OBVIOUS
<1>1. \A i \in Invitation : Is(i, "idle")
  BY DEF InvitationsInit, Is
<1>2. \A k \in Key : permittedOf(k) = {} /\ bucket[k] = Null
  BY <1>1 DEF InvitationsInit, permittedOf, Is
<1>3. PermittedAreCounted /\ LimitsHold
  BY <1>1, <1>2, FS_EmptySet DEF PermittedAreCounted, LimitsHold, Is
<1> QED
  BY <1>3, InitInvitationsInv DEF LimitsInv

LEMMA RequestCounts ==
  ASSUME LimitsInv, NEW i \in Invitation, InvitationStep(i)
  PROVE  PermittedAreCounted' /\ LimitsHold'
<1>1. invitation \in [Invitation -> InvitationState]
  BY DEF LimitsInv, InvitationsInv, InvitationsTypeOK
<1>2. \A j \in Invitation : Is(j, "asked") => invitation[j].at = Null
  BY DEF LimitsInv, PermittedAreCounted
<1>3. ASSUME NEW p \in Person, NEW q \in Person, NEW ip \in Ip, inviteRoute(i, p, q, ip)
      PROVE  PermittedAreCounted' /\ LimitsHold'
  <2> DEFINE k == [phase |-> "asked", from |-> p, to |-> q, ip |-> ip, at |-> Null]
  <2>1. /\ Is(i, "idle") /\ bucket' = bucket /\ invitation' = [invitation EXCEPT ![i] = k]
    BY <1>3 DEF inviteRoute
  <2>2. /\ invitation'[i].phase = "asked" /\ invitation'[i].at = Null
        /\ \A j \in Invitation : j # i => invitation'[j] = invitation[j]
    BY <1>1, <2>1
  <2>3. ~ Passed(i) /\ ~ Passed(i)'
    BY <2>1, <2>2 DEF Passed, Is
  <2> QED BY <1>2, <2>1, <2>2, <2>3, NobodyPasses DEF Passed, Is
<1>4. ASSUME NEW phase \in {"found", "created", "refused", "failed"},
             ~ Is(i, "idle"), ~ Is(i, "limited"), Is(i, "asked") => phase = "failed",
             invitation' = [invitation EXCEPT ![i].phase = phase], bucket' = bucket
      PROVE  PermittedAreCounted' /\ LimitsHold'
  <2>1. invitation[i] \in [phase : RequestPhase, from : Person, to : Person, ip : Ip,
                          at : Time \cup {Null}]
    BY <1>4, InvitationHolds DEF LimitsInv, InvitationsInv, RequestPhase
  <2>2. invitation'[i] = [invitation[i] EXCEPT !.phase = phase]
    BY <1>1, <1>4
  <2>3. /\ invitation'[i].phase = phase /\ invitation'[i].at = invitation[i].at
        /\ invitation'[i].from = invitation[i].from /\ invitation'[i].ip = invitation[i].ip
        /\ \A j \in Invitation : j # i => invitation'[j] = invitation[j]
    BY <1>1, <1>4, <2>1, <2>2
  <2>4. Passed(i)' <=> Passed(i)
    BY <1>2, <1>4, <2>3 DEF Passed, Is
  <2> QED BY <1>2, <1>4, <2>3, <2>4, NobodyPasses DEF Passed, Is
<1>5. CASE findRecipient(i) \/ alreadyExists(i) \/ inviteFails(i) \/ \E r \in Rel : inviteFound(i, r)
  <2>1. PICK phase \in {"found", "created", "refused", "failed"} :
          invitation' = [invitation EXCEPT ![i].phase = phase]
          /\ (Is(i, "asked") => phase = "failed")
    BY <1>5 DEF findRecipient, alreadyExists, inviteFails, inviteFound, Is
  <2>2. ~ Is(i, "idle") /\ ~ Is(i, "limited") /\ bucket' = bucket
    BY <1>5 DEF findRecipient, alreadyExists, inviteFails, inviteFound, Is
  <2> QED BY <1>4, <2>1, <2>2
<1> QED
  BY <1>3, <1>5, CheckCounts DEF InvitationStep

LEMMA OtherStepsCount ==
  ASSUME LimitsInv, UNCHANGED <<bucket, invitation>>
  PROVE  PermittedAreCounted' /\ LimitsHold'
BY DEF LimitsInv, PermittedAreCounted, LimitsHold, permittedOf, permittedSince, keysOf, Is

\* http/invite-limit.ts: whatever the invitations overlap with, no more of one user
\* and no more from one address pass the limiter in a window than its limit, since
\* both buckets are hit in one transaction, also by a request that is refused.
THEOREM LimitsAreKept == InvitationsSpec => []LimitsHold
<1>1. LimitsInv /\ [InvitationsNext]_<<vars, invitationVars>> => LimitsInv'
  <2> SUFFICES ASSUME LimitsInv, [InvitationsNext]_<<vars, invitationVars>> PROVE LimitsInv'
    OBVIOUS
  <2>1. InvitationsInv'
    BY InvitationsStep DEF LimitsInv
  <2>2. CASE UNCHANGED <<bucket, invitation>>
    BY <2>1, <2>2, OtherStepsCount DEF LimitsInv
  <2>3. CASE \E i \in Invitation : InvitationStep(i)
    BY <2>1, <2>3, RequestCounts DEF LimitsInv
  <2> QED
    BY <2>2, <2>3 DEF InvitationsNext, signUp, invitationVars
<1>2. LimitsInv => LimitsHold
  BY DEF LimitsInv
<1> QED
  BY <1>1, <1>2, InitLimitsInv, PTL DEF InvitationsSpec
=============================================================================
