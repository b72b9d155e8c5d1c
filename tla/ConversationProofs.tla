------------------------- MODULE ConversationProofs -------------------------
(***************************************************************************)
(* What is proved of Conversation, for every set of conversations, calls   *)
(* and proposals, every time to live and every length of the clock.        *)
(***************************************************************************)
EXTENDS Conversation, TLAPS

Ended == {"opened", "attached", "expired", "failed"}

(***************************************************************************)
(* Trails.  What the invariant says of the trail t of one conversation k   *)
(* depends on the calls through what they asked and whether they ended.    *)
(***************************************************************************)

\* The rows alternate, each question opens once.
Alternates(t) ==
  /\ \A i \in DOMAIN t :
       /\ Opens(t[i]) <=> i % 2 = 1
       /\ i % 2 = 0 => t[i].question = t[i - 1].question
       /\ i > 1 => t[i].before = t[i - 1].after
  /\ \A i, j \in DOMAIN t :
       (Opens(t[i]) /\ Opens(t[j]) /\ t[i].question = t[j].question) => i = j

\* One row, of calls cl.
RowFits(t, k, cl) ==
  /\ cl[t.question].ask # Null
  /\ cl[t.question].phase \in {"opened", "failed"}
  /\ cl[t.call].phase \in Ended
  /\ cl[t.call].talk = k
  /\ IF Opens(t) THEN t.after = cl[t.question].ask.state /\ t.call = t.question
                 ELSE t.after = "idle"
  /\ t.action = "resolve_pending" => t.at < cl[t.question].expiresAt
  /\ t.action = "expire_pending"  => t.at >= cl[t.question].expiresAt

TrailFits(t, k, cl) ==
  /\ t \in Seq(TrailRow)
  /\ Alternates(t)
  /\ \A i \in DOMAIN t : RowFits(t[i], k, cl)

LEMMA TrailsFit ==
  ConversationInv => \A k \in Talk : TrailFits(trail[k], k, call)
BY DEF ConversationInv, TypeOK, TrailFits, Alternates, RowFits, EachQuestionClosesOnce,
       ClosedByItsDeadline, TrailIsOfEndedCalls, Ended

\* Calls that go on, or end, without a change of what they asked.
LEMMA TrailKeeps ==
  ASSUME NEW t, NEW k, NEW cl, NEW new, TrailFits(t, k, cl),
         \A i \in DOMAIN t : \A c \in {t[i].question, t[i].call} :
           /\ new[c].ask = cl[c].ask
           /\ new[c].talk = cl[c].talk
           /\ new[c].expiresAt = cl[c].expiresAt
           /\ new[c].phase = cl[c].phase
  PROVE  TrailFits(t, k, new)
<1> SUFFICES ASSUME NEW i \in DOMAIN t PROVE RowFits(t[i], k, new)
  BY DEF TrailFits
<1> RowFits(t[i], k, cl)
  BY DEF TrailFits
<1> QED BY DEF RowFits

\* An empty trail, or one whose last question is closed, goes on with a question
\* that is not in it.
LEMMA OpensNext ==
  ASSUME NEW t, NEW k, NEW cl, TrailFits(t, k, cl), Len(t) % 2 = 0,
         NEW e \in TrailRow, Opens(e), RowFits(e, k, cl), e.before = "idle",
         \A i \in DOMAIN t : t[i].question # e.question
  PROVE  TrailFits(Append(t, e), k, cl)
<1> DEFINE n == Len(t)
           s == Append(t, e)
<1>1. /\ t \in Seq(TrailRow) /\ n \in Nat /\ DOMAIN t = 1 .. n
      /\ s \in Seq(TrailRow) /\ Len(s) = n + 1 /\ DOMAIN s = 1 .. n + 1
      /\ s[n + 1] = e /\ \A i \in 1 .. n : s[i] = t[i]
  BY DEF TrailFits
<1> HIDE DEF n, s
<1>2. (n + 1) % 2 = 1
  BY <1>1 DEF n
<1>3. \A i \in 1 .. n : /\ Opens(t[i]) <=> i % 2 = 1
                        /\ i % 2 = 0 => t[i].question = t[i - 1].question
                        /\ i > 1 => t[i].before = t[i - 1].after
                        /\ RowFits(t[i], k, cl)
  BY <1>1 DEF TrailFits, Alternates
<1>4. n > 0 => t[n].after = "idle"
  BY <1>1, <1>3 DEF RowFits, n
<1>5. \A i \in 1 .. n + 1 : /\ Opens(s[i]) <=> i % 2 = 1
                            /\ i % 2 = 0 => s[i].question = s[i - 1].question
                            /\ i > 1 => s[i].before = s[i - 1].after
                            /\ RowFits(s[i], k, cl)
  <2> TAKE i \in 1 .. n + 1
  <2>1. CASE i = n + 1
    BY <1>1, <1>2, <1>4, <2>1
  <2>2. CASE i \in 1 .. n
    <3>1. i > 1 => i - 1 \in 1 .. n
      BY <1>1, <2>2
    <3>2. i % 2 = 0 => i > 1
      BY <2>2, <1>1
    <3> QED BY <1>1, <1>3, <2>2, <3>1, <3>2
  <2> QED BY <1>1, <2>1, <2>2
<1>6. \A i, j \in 1 .. n + 1 :
        (Opens(s[i]) /\ Opens(s[j]) /\ s[i].question = s[j].question) => i = j
  <2>1. \A i, j \in 1 .. n :
          (Opens(t[i]) /\ Opens(t[j]) /\ t[i].question = t[j].question) => i = j
    BY <1>1 DEF TrailFits, Alternates
  <2>2. \A i \in 1 .. n : t[i].question # e.question
    BY <1>1
  <2> QED BY <1>1, <2>1, <2>2
<1> QED BY <1>1, <1>5, <1>6 DEF TrailFits, Alternates, s

\* A trail whose last question is open goes on with the row that closes it.
LEMMA ClosesNext ==
  ASSUME NEW t, NEW k, NEW cl, TrailFits(t, k, cl), Len(t) % 2 = 1,
         NEW e \in TrailRow, ~ Opens(e), RowFits(e, k, cl),
         e.question = t[Len(t)].question, e.before = t[Len(t)].after
  PROVE  TrailFits(Append(t, e), k, cl)
<1> DEFINE n == Len(t)
           s == Append(t, e)
<1>1. /\ t \in Seq(TrailRow) /\ n \in Nat /\ DOMAIN t = 1 .. n
      /\ s \in Seq(TrailRow) /\ Len(s) = n + 1 /\ DOMAIN s = 1 .. n + 1
      /\ s[n + 1] = e /\ \A i \in 1 .. n : s[i] = t[i]
      /\ e.question = t[n].question /\ e.before = t[n].after
  BY DEF TrailFits
<1>2. (n + 1) % 2 = 0 /\ n >= 1
  BY <1>1
<1> HIDE DEF n, s
<1>3. \A i \in 1 .. n : /\ Opens(t[i]) <=> i % 2 = 1
                        /\ i % 2 = 0 => t[i].question = t[i - 1].question
                        /\ i > 1 => t[i].before = t[i - 1].after
                        /\ RowFits(t[i], k, cl)
  BY <1>1 DEF TrailFits, Alternates
<1>4. \A i \in 1 .. n + 1 : /\ Opens(s[i]) <=> i % 2 = 1
                            /\ i % 2 = 0 => s[i].question = s[i - 1].question
                            /\ i > 1 => s[i].before = s[i - 1].after
                            /\ RowFits(s[i], k, cl)
  <2> TAKE i \in 1 .. n + 1
  <2>1. CASE i = n + 1
    <3>1. i - 1 = n /\ n \in 1 .. n /\ s[i - 1] = t[n] /\ s[i] = e
      BY <1>1, <1>2, <2>1
    <3> QED BY <1>1, <1>2, <2>1, <3>1
  <2>2. CASE i \in 1 .. n
    <3>1. i > 1 => i - 1 \in 1 .. n
      BY <1>1, <2>2
    <3>2. i % 2 = 0 => i > 1
      BY <2>2, <1>1
    <3> QED BY <1>1, <1>3, <2>2, <3>1, <3>2
  <2> QED BY <1>1, <2>1, <2>2
<1>5. \A i, j \in 1 .. n + 1 :
        (Opens(s[i]) /\ Opens(s[j]) /\ s[i].question = s[j].question) => i = j
  <2>1. \A i, j \in 1 .. n :
          (Opens(t[i]) /\ Opens(t[j]) /\ t[i].question = t[j].question) => i = j
    BY <1>1 DEF TrailFits, Alternates
  <2> QED BY <1>1, <2>1
<1> QED BY <1>1, <1>4, <1>5 DEF TrailFits, Alternates, s
(***************************************************************************)
(* The parts of the invariant, one call and one conversation at a time.    *)
(***************************************************************************)

RowFollows(k) ==
  IF Len(trail[k]) % 2 = 1
    THEN conversation[k] = Asked(trail[k][Len(trail[k])].question)
    ELSE conversation[k] \in {Null, NothingPending}

ReadFits(r) ==
  /\ r.seen <= Len(trail[r.talk])
  /\ Len(trail[r.talk]) = r.seen =>
       r.row = IF conversation[r.talk] = Null THEN NothingPending ELSE conversation[r.talk]
  /\ r.ask = Null => r.row # NothingPending

Closed(r, c, t) ==
  \E i \in DOMAIN t : /\ t[i].question = r.row.question
                      /\ ~ Opens(t[i])
                      /\ \A j \in DOMAIN t : t[j].call = c <=> j = i

Placed(r) ==
  /\ r.phase # "idle" => r.talk \in Talk
  /\ r.ask # Null => r.expiresAt \in Time
  /\ r.phase \in {"begun", "read"} => r.at \in Time
  /\ r.phase \in {"read", "attached", "expired"} => r.row \in Row

LEMMA AskedIsARow ==
  ASSUME TypeOK, CallsArePlaced, NEW q \in Call, call[q].ask # Null
  PROVE  /\ Asked(q) \in Row /\ Asked(q) # Null
         /\ Asked(q).question = q /\ Asked(q).state = call[q].ask.state
         /\ Asked(q).state # "idle" /\ call[q].ask.state \in PendingState
         /\ Asked(q).expires_at = call[q].expiresAt
         /\ call[q].ask \in Proposal
<1>1. call[q].ask \in Proposal /\ call[q].expiresAt \in Time
  BY DEF TypeOK, CallRecord, CallsArePlaced
<1>2. /\ call[q].ask.state \in PendingState /\ call[q].ask.state # "idle"
      /\ call[q].ask.state \in ConversationState /\ call[q].ask.payload \in Payload
  BY <1>1, ConversationAssumption DEF PendingState, ConversationState, conversationMachine, Payload
<1>3. Asked(q) \in Row
  BY <1>1, <1>2 DEF Asked, Row
<1> QED BY <1>1, <1>2, <1>3, NullIsNoRow DEF Asked

AttachedFits(c) ==
  /\ call[c].row = Asked(call[c].row.question)
  /\ call[c].row.question \in Call
  /\ call[call[c].row.question].ask # Null
  /\ Closed(call[c], c, trail[call[c].talk])

Parts ==
  /\ TypeOK
  /\ \A c \in Call : Placed(call[c])
  /\ \A k \in Talk : TrailFits(trail[k], k, call) /\ RowFollows(k)
  /\ \A c \in Call : call[c].phase = "read" => ReadFits(call[c])
  /\ \A c \in Call : call[c].phase = "attached" => AttachedFits(c)

LEMMA TwoMore ==
  ASSUME NEW S, NEW t \in Seq(S), NEW d \in S, NEW o \in S
  PROVE  t \o <<d, o>> = Append(Append(t, d), o)
OBVIOUS

LEMMA Parity ==
  ASSUME NEW n \in Nat
  PROVE  /\ n % 2 = 0 <=> n % 2 # 1
         /\ n % 2 = 1 <=> (n + 1) % 2 = 0
         /\ n % 2 = 0 <=> (n + 1) % 2 = 1
         /\ n % 2 = 1 <=> (n + 2) % 2 = 1
OBVIOUS

LEMMA TimesAreNumbers == Time \subseteq Int
BY ConversationAssumption DEF Time

LEMMA LastRow ==
  ASSUME NEW S, NEW t \in Seq(S), Len(t) % 2 = 1
  PROVE  Len(t) \in DOMAIN t /\ Last(t) = t[Len(t)]
BY DEF Last

LEMMA PartsMakeTheInvariant == Parts => ConversationInv
<1> SUFFICES ASSUME Parts PROVE ConversationInv
  OBVIOUS
<1> USE DEF Parts
<1>1. CallsArePlaced
  BY DEF CallsArePlaced, Placed
<1>2. \A k \in Talk : Len(trail[k]) % 2 = 1 =>
        Len(trail[k]) \in DOMAIN trail[k] /\ Last(trail[k]) = trail[k][Len(trail[k])]
  BY LastRow DEF TypeOK
<1>3. RowsFollowTheTrail
  BY <1>2 DEF RowsFollowTheTrail, RowFollows
<1>4. ReadsAreOfTheirVersion
  BY DEF ReadsAreOfTheirVersion, ReadFits, Unmoved
<1>5. AttachedClosedOne
  BY DEF AttachedClosedOne, AttachedFits, Closed
<1>6. TrailIsOfEndedCalls /\ ClosedByItsDeadline
  BY DEF TrailIsOfEndedCalls, ClosedByItsDeadline, TrailFits, RowFits, Ended
<1>7. ASSUME NEW k \in Talk
      PROVE  Pending(k) = IF Len(trail[k]) % 2 = 1 THEN Last(trail[k]).question ELSE Null
  <2> RowFollows(k) /\ TrailFits(trail[k], k, call)
    OBVIOUS
  <2>1. CASE Len(trail[k]) % 2 = 1
    <3> DEFINE q == trail[k][Len(trail[k])].question
    <3>1. Len(trail[k]) \in DOMAIN trail[k]
      BY <1>2, <2>1
    <3>2. trail[k][Len(trail[k])] \in TrailRow /\ RowFits(trail[k][Len(trail[k])], k, call)
      BY <3>1 DEF TrailFits
    <3>3. q \in Call /\ call[q].ask # Null
      BY <3>2 DEF RowFits, TrailRow
    <3>4. conversation[k] = Asked(q) /\ Last(trail[k]).question = q
      BY <1>2, <2>1 DEF RowFollows
    <3> QED BY <1>1, <2>1, <3>3, <3>4, AskedIsARow DEF Pending
  <2>2. CASE Len(trail[k]) % 2 # 1
    <3>1. conversation[k] = Null \/ conversation[k] = NothingPending
      BY <2>2 DEF RowFollows
    <3> QED BY <2>2, <3>1 DEF Pending, NothingPending
  <2> QED BY <2>1, <2>2
<1>8. EachQuestionClosesOnce
  BY <1>7 DEF EachQuestionClosesOnce, TrailFits, Alternates
<1> QED BY <1>1, <1>3, <1>4, <1>5, <1>6, <1>8 DEF ConversationInv

LEMMA PartsOfTheInvariant == ConversationInv => Parts
<1> SUFFICES ASSUME ConversationInv PROVE Parts
  OBVIOUS
<1> USE DEF ConversationInv
<1>1. \A k \in Talk : RowFollows(k)
  <2> TAKE k \in Talk
  <2>1. Len(trail[k]) % 2 = 1 => Last(trail[k]) = trail[k][Len(trail[k])]
    BY LastRow DEF TypeOK
  <2> QED BY <2>1 DEF RowsFollowTheTrail, RowFollows
<1>2. \A c \in Call : call[c].phase = "read" => ReadFits(call[c])
  BY DEF ReadsAreOfTheirVersion, ReadFits, Unmoved
<1>3. \A c \in Call : Placed(call[c])
  BY DEF CallsArePlaced, Placed
<1>4. \A c \in Call : call[c].phase = "attached" => AttachedFits(c)
  BY DEF AttachedClosedOne, AttachedFits, Closed
<1> QED BY <1>1, <1>2, <1>3, <1>4, TrailsFit DEF Parts

\* Who is named in a trail has ended.
LEMMA NamedHaveEnded ==
  ASSUME Parts, NEW k \in Talk, NEW i \in DOMAIN trail[k]
  PROVE  /\ trail[k][i].question \in Call /\ call[trail[k][i].question].phase \in Ended
         /\ trail[k][i].call \in Call /\ call[trail[k][i].call].phase \in Ended
<1>1. trail[k][i] \in TrailRow /\ RowFits(trail[k][i], k, call)
  BY DEF Parts, TrailFits
<1> QED BY <1>1 DEF TrailRow, RowFits, Ended

\* A step of a call that has not ended leaves what is written true.
LEMMA TrailsKeep ==
  ASSUME Parts, NEW c \in Call, call[c].phase \notin Ended,
         \A d \in Call \ {c} : call'[d] = call[d]
  PROVE  \A k \in Talk : TrailFits(trail[k], k, call')
<1> TAKE k \in Talk
<1>1. TrailFits(trail[k], k, call)
  BY DEF Parts
<1>2. \A i \in DOMAIN trail[k] : \A d \in {trail[k][i].question, trail[k][i].call} :
        call'[d] = call[d]
  BY NamedHaveEnded
<1> QED BY <1>1, <1>2, TrailKeeps

(***************************************************************************)
(* Steps of a call that write nothing.                                     *)
(***************************************************************************)

LEMMA QuietKeeps ==
  ASSUME Parts, UNCHANGED <<conversation, trail>>, now' \in 0 .. maxNow,
         NEW c \in Call, call[c].phase \notin Ended,
         NEW r \in CallRecord, call' = [call EXCEPT ![c] = r],
         r.phase # "attached", Placed(r), r.phase = "read" => ReadFits(r)
  PROVE  Parts'
<1> USE DEF Parts
<1>1. /\ call \in [Call -> CallRecord] /\ call' \in [Call -> CallRecord] /\ call'[c] = r
      /\ \A d \in Call \ {c} : call'[d] = call[d]
  BY DEF TypeOK
<1>2. TypeOK'
  BY <1>1 DEF TypeOK
<1>3. \A d \in Call : Placed(call'[d])
  BY <1>1
<1>4. \A k \in Talk : TrailFits(trail[k], k, call')
  BY <1>1, TrailsKeep
<1>5. ASSUME NEW k \in Talk PROVE RowFollows(k)'
  <2>1. CASE Len(trail[k]) % 2 = 1
    <3>1. Len(trail[k]) \in DOMAIN trail[k]
      BY <2>1, LastRow DEF TypeOK
    <3>2. /\ trail[k][Len(trail[k])].question \in Call
          /\ call[trail[k][Len(trail[k])].question].phase \in Ended
      BY <3>1, NamedHaveEnded
    <3> QED BY <1>1, <2>1, <3>2 DEF RowFollows, Asked
  <2>2. CASE Len(trail[k]) % 2 # 1
    BY <2>2 DEF RowFollows
  <2> QED BY <2>1, <2>2
<1>6. ASSUME NEW d \in Call, call'[d].phase = "read" PROVE ReadFits(call[d])'
  BY <1>1, <1>6 DEF ReadFits
<1>7. ASSUME NEW d \in Call, call'[d].phase = "attached"
      PROVE  AttachedFits(d)'
  <2>1. d # c /\ call'[d] = call[d] /\ call[d].phase = "attached"
    BY <1>1, <1>7
  <2> DEFINE q == call[d].row.question
  <2>2. /\ Closed(call[d], d, trail[call[d].talk]) /\ call[d].talk \in Talk /\ q \in Call
        /\ call[d].row = Asked(q) /\ call[q].ask # Null
    BY <2>1 DEF Placed, AttachedFits
  <2>3. q # c /\ call'[q] = call[q]
    BY <1>1, <2>2, NamedHaveEnded DEF Closed
  <2> HIDE DEF q
  <2>4. call'[d].row.question = q
    BY <2>1 DEF q
  <2> QED BY <2>1, <2>2, <2>3, <2>4 DEF Asked, Closed, AttachedFits
<1> QED BY <1>2, <1>3, <1>4, <1>5, <1>6, <1>7
LEMMA InitParts == Init => Parts
<1> SUFFICES ASSUME Init PROVE Parts
  OBVIOUS
<1>1. TypeOK
  BY ConversationAssumption DEF Init, TypeOK, Idle, CallRecord
<1>2. \A k \in Talk : TrailFits(trail[k], k, call) /\ RowFollows(k)
  BY DEF Init, TrailFits, Alternates, RowFollows
<1>3. \A c \in Call : call[c].phase = "idle" /\ call[c].ask = Null
  BY DEF Init, Idle
<1> QED BY <1>1, <1>2, <1>3 DEF Parts, Placed

LEMMA TickKeeps == ASSUME Parts, Tick PROVE Parts'
<1>1. UNCHANGED <<conversation, trail, call>> /\ now' \in 0 .. maxNow
  BY ConversationAssumption DEF Tick, Parts, TypeOK
<1>2. TypeOK'
  BY <1>1 DEF Parts, TypeOK
<1> QED
  BY <1>1, <1>2 DEF Parts, RowFollows, Asked, ReadFits, AttachedFits

LEMMA ProposeKeeps ==
  ASSUME Parts, NEW c \in Call, NEW k \in Talk, NEW p \in Proposal,
         NEW proposedAt \in 0 .. maxNow, propose(c, k, p, proposedAt)
  PROVE  Parts'
<1> DEFINE r == [Idle EXCEPT !.phase = "ready", !.talk = k, !.ask = p,
                             !.expiresAt = proposedAt + ttlMinutes]
<1>1. r \in CallRecord /\ r.phase = "ready" /\ r.talk = k /\ r.expiresAt \in Time
  <2>1. proposedAt + ttlMinutes \in Time
    BY ConversationAssumption DEF Time
  <2>2. Idle \in CallRecord
    BY ConversationAssumption DEF Idle, CallRecord
  <2> QED BY <2>1, <2>2 DEF CallRecord
<1>2. /\ call' = [call EXCEPT ![c] = r] /\ call[c].phase = "idle"
      /\ UNCHANGED <<conversation, trail, now>>
  BY DEF propose
<1> HIDE DEF r
<1> QED BY <1>1, <1>2, QuietKeeps DEF Placed, Ended, Parts, TypeOK

LEMMA SayKeeps ==
  ASSUME Parts, NEW c \in Call, NEW k \in Talk, say(c, k)
  PROVE  Parts'
<1> DEFINE r == [Idle EXCEPT !.phase = "ready", !.talk = k]
<1>1. r \in CallRecord /\ r.phase = "ready" /\ r.talk = k /\ r.ask = Null
  BY ConversationAssumption DEF Idle, CallRecord
<1>2. /\ call' = [call EXCEPT ![c] = r] /\ call[c].phase = "idle"
      /\ UNCHANGED <<conversation, trail, now>>
  BY DEF say
<1> HIDE DEF r
<1> QED BY <1>1, <1>2, QuietKeeps DEF Placed, Ended, Parts, TypeOK

LEMMA BeginKeeps ==
  ASSUME Parts, NEW c \in Call, begin(c)
  PROVE  Parts'
<1> DEFINE r == [call[c] EXCEPT !.phase = "begun", !.at = now]
<1>1. /\ call[c] \in CallRecord /\ Placed(call[c]) /\ now \in 0 .. maxNow /\ now \in Time
      /\ call[c].phase = "ready" /\ UNCHANGED <<conversation, trail, now>>
  BY ConversationAssumption DEF Parts, TypeOK, Time, begin
<1>2. /\ r \in CallRecord /\ r.phase = "begun" /\ r.at = now /\ r.talk = call[c].talk
      /\ r.ask = call[c].ask /\ r.expiresAt = call[c].expiresAt
  BY <1>1 DEF CallRecord
<1>3. call' = [call EXCEPT ![c] = r]
  BY DEF begin, Parts, TypeOK
<1> HIDE DEF r
<1> QED BY <1>1, <1>2, <1>3, QuietKeeps DEF Placed, Ended

LEMMA RetryKeeps ==
  ASSUME Parts, NEW c \in Call, retry(c)
  PROVE  Parts'
<1> DEFINE r == [call[c] EXCEPT !.phase = "ready", !.at = Null, !.row = Null, !.seen = 0]
<1>1. /\ call[c] \in CallRecord /\ Placed(call[c]) /\ now \in 0 .. maxNow
      /\ call[c].phase = "read" /\ UNCHANGED <<conversation, trail, now>>
  BY DEF Parts, TypeOK, retry
<1>2. /\ r \in CallRecord /\ r.phase = "ready" /\ r.talk = call[c].talk
      /\ r.ask = call[c].ask /\ r.expiresAt = call[c].expiresAt
  BY <1>1 DEF CallRecord
<1>3. call' = [call EXCEPT ![c] = r]
  BY DEF retry
<1> HIDE DEF r
<1> QED BY <1>1, <1>2, <1>3, QuietKeeps DEF Placed, Ended

LEMMA FailKeeps ==
  ASSUME Parts, NEW c \in Call, fail(c)
  PROVE  Parts'
<1> DEFINE r == [call[c] EXCEPT !.phase = "failed"]
<1>1. /\ call[c] \in CallRecord /\ Placed(call[c]) /\ now \in 0 .. maxNow
      /\ call[c].phase \in {"ready", "begun", "read"} /\ UNCHANGED <<conversation, trail, now>>
  BY DEF Parts, TypeOK, fail
<1>2. /\ r \in CallRecord /\ r.phase = "failed" /\ r.talk = call[c].talk
      /\ r.ask = call[c].ask /\ r.expiresAt = call[c].expiresAt
  BY <1>1 DEF CallRecord
<1>3. call' = [call EXCEPT ![c] = r]
  BY DEF fail, Parts, TypeOK
<1> HIDE DEF r
<1> QED BY <1>1, <1>2, <1>3, QuietKeeps DEF Placed, Ended

LEMMA ReadKeeps ==
  ASSUME Parts, NEW c \in Call, readConversation(c)
  PROVE  Parts'
<1> DEFINE k   == call[c].talk
           row == conversation[k]
           yes == call[c].ask = Null /\ (row = Null \/ row = NothingPending)
           r == [call[c] EXCEPT !.phase = IF yes THEN "no_pending_context" ELSE "read",
                                !.row = IF row = Null THEN NothingPending ELSE row,
                                !.seen = Len(trail[k])]
<1>1. /\ call[c] \in CallRecord /\ Placed(call[c]) /\ now \in 0 .. maxNow
      /\ call[c].phase = "begun" /\ UNCHANGED <<conversation, trail, now>>
  BY DEF Parts, TypeOK, readConversation
<1>2. k \in Talk /\ row \in Row \cup {Null} /\ Len(trail[k]) \in Nat
  BY <1>1 DEF Placed, Parts, TypeOK
<1>3. NothingPending \in Row
  BY ConversationAssumption DEF NothingPending, Row, ConversationState, conversationMachine
<1>4. /\ r \in CallRecord /\ r.talk = k /\ r.at = call[c].at
      /\ r.ask = call[c].ask /\ r.expiresAt = call[c].expiresAt
      /\ r.phase \in {"no_pending_context", "read"} /\ r.seen = Len(trail[k])
      /\ r.row = (IF row = Null THEN NothingPending ELSE row) /\ r.row \in Row
      /\ r.phase = "read" => ~ yes
  BY <1>1, <1>2, <1>3 DEF CallRecord
<1>5. call' = [call EXCEPT ![c] = r]
  BY DEF readConversation, Parts, TypeOK
<1>6. Placed(r)
  BY <1>1, <1>2, <1>4 DEF Placed
<1>7. r.phase = "read" => ReadFits(r)
  BY <1>2, <1>4, NullIsNoRow DEF ReadFits
<1> HIDE DEF r
<1> QED BY <1>1, <1>4, <1>5, <1>6, <1>7, QuietKeeps DEF Ended
(***************************************************************************)
(* The two commits.                                                        *)
(***************************************************************************)

\* What is known of a call that commits.
LEMMA Committing ==
  ASSUME Parts, NEW c \in Call, call[c].phase = "read", Unmoved(c), NEW k, k = call[c].talk
  PROVE  /\ k \in Talk /\ call[c] \in CallRecord /\ call[c].at \in Time
         /\ call[c].seen = Len(trail[k]) /\ trail[k] \in Seq(TrailRow)
         /\ call[c].ask = Null => call[c].row # NothingPending
         /\ IF Len(trail[k]) % 2 = 1
              THEN /\ call[c].row = Asked(trail[k][Len(trail[k])].question)
                   /\ call[c].row \in Row
                   /\ call[c].row.question = trail[k][Len(trail[k])].question
                   /\ call[c].row.state = trail[k][Len(trail[k])].after
                   /\ call[c].row.state # "idle"
                   /\ call[c].row.question \in Call
                   /\ call[call[c].row.question].ask # Null
                   /\ call[call[c].row.question].phase \in {"opened", "failed"}
                   /\ call[c].row.expires_at = call[call[c].row.question].expiresAt
                   /\ call[c].row.expires_at \in Time
              ELSE call[c].row = NothingPending
<1>1. /\ k \in Talk /\ call[c] \in CallRecord /\ call[c].at \in Time /\ ReadFits(call[c])
      /\ call[c].seen = Len(trail[k]) /\ trail[k] \in Seq(TrailRow)
      /\ RowFollows(k) /\ TrailFits(trail[k], k, call)
  BY DEF Parts, Placed, TypeOK, Unmoved
<1>2. /\ call[c].row = IF conversation[k] = Null THEN NothingPending ELSE conversation[k]
      /\ call[c].ask = Null => call[c].row # NothingPending
  BY <1>1 DEF ReadFits
<1>3. CASE Len(trail[k]) % 2 = 1
  <2> DEFINE n == Len(trail[k])
             q == trail[k][n].question
  <2>1. n \in DOMAIN trail[k]
    BY <1>1, <1>3, LastRow
  <2>2. trail[k][n] \in TrailRow /\ RowFits(trail[k][n], k, call) /\ Opens(trail[k][n])
    <3>1. trail[k][n] \in TrailRow
      BY <1>1, <2>1
    <3>2. RowFits(trail[k][n], k, call)
      BY <1>1, <2>1 DEF TrailFits
    <3>3. Opens(trail[k][n]) <=> n % 2 = 1
      BY <1>1, <2>1 DEF TrailFits, Alternates
    <3> QED BY <1>3, <3>1, <3>2, <3>3
  <2>3. /\ q \in Call /\ call[q].ask # Null /\ call[q].phase \in {"opened", "failed"}
        /\ trail[k][n].after = call[q].ask.state
    BY <2>2 DEF TrailRow, RowFits
  <2>4. CallsArePlaced /\ TypeOK
    BY DEF Parts, CallsArePlaced, Placed
  <2>5. /\ Asked(q) \in Row /\ Asked(q) # Null /\ Asked(q).question = q
        /\ Asked(q).state = call[q].ask.state /\ Asked(q).state # "idle"
        /\ Asked(q).expires_at = call[q].expiresAt /\ call[q].expiresAt \in Time
    BY <2>3, <2>4, AskedIsARow DEF CallsArePlaced
  <2>6. conversation[k] = Asked(q)
    BY <1>1, <1>3 DEF RowFollows
  <2> QED BY <1>1, <1>2, <1>3, <2>3, <2>5, <2>6
<1>4. CASE Len(trail[k]) % 2 # 1
  BY <1>1, <1>2, <1>4 DEF RowFollows
<1> QED BY <1>1, <1>2, <1>3, <1>4

\* A commit adds rows of its call to the trail of its conversation.
LEMMA CommitKeeps ==
  ASSUME Parts, NEW c \in Call, call[c].phase = "read", NEW k \in Talk, k = call[c].talk,
         NEW phase \in {"opened", "attached", "expired", "failed"},
         call' = [call EXCEPT ![c].phase = phase], UNCHANGED now,
         NEW s, trail' = [trail EXCEPT ![k] = s], TrailFits(s, k, call'),
         Len(s) > Len(trail[k]),
         \A i \in DOMAIN s : IF i \in DOMAIN trail[k] THEN s[i] = trail[k][i] ELSE s[i].call = c,
         NEW row \in Row, conversation' = [conversation EXCEPT ![k] = row], RowFollows(k)',
         phase = "attached" => AttachedFits(c)'
  PROVE  Parts'
<1> DEFINE r == [call[c] EXCEPT !.phase = phase]
<1>1. call[c] \in CallRecord /\ Placed(call[c]) /\ call \in [Call -> CallRecord]
      /\ trail \in [Talk -> Seq(TrailRow)] /\ s \in Seq(TrailRow)
      /\ conversation \in [Talk -> Row \cup {Null}] /\ now \in 0 .. maxNow
  BY DEF Parts, TypeOK, TrailFits
<1>2. /\ r \in CallRecord /\ r.phase = phase /\ r.talk = call[c].talk /\ r.row = call[c].row
      /\ r.ask = call[c].ask /\ r.expiresAt = call[c].expiresAt
  BY <1>1 DEF CallRecord
<1>3. call' = [call EXCEPT ![c] = r]
  BY <1>1
<1> HIDE DEF r
<1>4. /\ call' \in [Call -> CallRecord] /\ call'[c] = r
      /\ \A d \in Call \ {c} : call'[d] = call[d]
      /\ trail' \in [Talk -> Seq(TrailRow)] /\ trail'[k] = s
      /\ \A j \in Talk \ {k} : trail'[j] = trail[j]
      /\ conversation' \in [Talk -> Row \cup {Null}] /\ conversation'[k] = row
      /\ \A j \in Talk \ {k} : conversation'[j] = conversation[j]
  BY <1>1, <1>2, <1>3
<1>5. TypeOK'
  BY <1>1, <1>4 DEF TypeOK
<1>6. \A d \in Call : Placed(call'[d])
  BY <1>1, <1>2, <1>4 DEF Placed, Parts
<1>7. \A q \in Call : /\ call'[q].ask = call[q].ask /\ call'[q].expiresAt = call[q].expiresAt
                      /\ call'[q].talk = call[q].talk /\ call'[q].row = call[q].row
  BY <1>2, <1>4
<1>8. ASSUME NEW j \in Talk PROVE TrailFits(trail'[j], j, call') /\ RowFollows(j)'
  <2>1. CASE j = k
    BY <1>4, <2>1
  <2>2. CASE j # k
    <3>1. trail'[j] = trail[j] /\ conversation'[j] = conversation[j]
      BY <1>4, <2>2
    <3>2. TrailFits(trail[j], j, call') /\ RowFollows(j)
      BY <1>4, TrailsKeep DEF Parts, Ended
    <3>3. CASE Len(trail[j]) % 2 = 1
      <4>1. Len(trail[j]) \in DOMAIN trail[j]
        BY <1>1, <3>3, LastRow
      <4>2. trail[j][Len(trail[j])].question \in Call
        BY <4>1, NamedHaveEnded
      <4> QED BY <1>7, <3>1, <3>2, <3>3, <4>2 DEF RowFollows, Asked
    <3>4. CASE Len(trail[j]) % 2 # 1
      BY <3>1, <3>2, <3>4 DEF RowFollows
    <3> QED BY <3>1, <3>2, <3>3, <3>4
  <2> QED BY <2>1, <2>2
<1>9. ASSUME NEW d \in Call, call'[d].phase = "read" PROVE ReadFits(call[d])'
  <2>1. d # c /\ call'[d] = call[d] /\ call[d].phase = "read"
    BY <1>2, <1>4, <1>9
  <2>2. ReadFits(call[d]) /\ call[d].talk \in Talk /\ call[d].seen \in Nat
    BY <1>1, <2>1 DEF Parts, Placed, CallRecord
  <2>3. CASE call[d].talk = k
    <3>1. call[d].seen <= Len(trail[k]) /\ call[d].seen < Len(s)
          /\ Len(trail[k]) \in Nat /\ Len(s) \in Nat
      BY <1>1, <2>2, <2>3 DEF ReadFits
    <3> QED BY <1>4, <2>1, <2>2, <2>3, <3>1 DEF ReadFits
  <2>4. CASE call[d].talk # k
    BY <1>4, <2>1, <2>2, <2>4 DEF ReadFits
  <2> QED BY <2>3, <2>4
<1>10. ASSUME NEW d \in Call, call'[d].phase = "attached" PROVE AttachedFits(d)'
  <2>1. CASE d = c
    BY <1>2, <1>4, <1>10, <2>1
  <2>2. CASE d # c
    <3>1. call'[d] = call[d] /\ AttachedFits(d) /\ call[d].talk \in Talk
      BY <1>4, <1>10, <2>2 DEF Parts, Placed
    <3> DEFINE t == trail[call[d].talk]
               u == trail'[call[d].talk]
    <3>2. PICK i \in DOMAIN t : /\ t[i].question = call[d].row.question
                                /\ ~ Opens(t[i])
                                /\ \A j \in DOMAIN t : t[j].call = d <=> j = i
      BY <3>1 DEF AttachedFits, Closed
    <3>3. DOMAIN t \subseteq DOMAIN u
      <4>1. t \in Seq(TrailRow) /\ u \in Seq(TrailRow) /\ Len(t) <= Len(u)
        BY <1>1, <1>4, <3>1
      <4> QED BY <4>1
    <3>4. \A j \in DOMAIN u : IF j \in DOMAIN t THEN u[j] = t[j] ELSE u[j].call = c
      BY <1>4, <3>1
    <3>5. Closed(call[d], d, u)
      <4> HIDE DEF t, u
      <4> QED BY <2>2, <3>2, <3>3, <3>4 DEF Closed
    <3>6. call[d].row = Asked(call[d].row.question) /\ call[d].row.question \in Call
          /\ call[call[d].row.question].ask # Null
      BY <3>1 DEF AttachedFits
    <3>7. Asked(call[d].row.question) = Asked(call[d].row.question)'
      BY <1>7, <3>1, <3>6 DEF Asked
    <3> QED BY <1>7, <3>1, <3>5, <3>6, <3>7 DEF AttachedFits
  <2> QED BY <2>1, <2>2
<1> QED BY <1>5, <1>6, <1>8, <1>9, <1>10 DEF Parts
\* A row that a call writes as it commits.
LEMMA MovedIsARow ==
  ASSUME NEW c \in Call, call[c].at \in Time, NEW q \in Call,
         NEW action \in {"open", "drop_pending", "expire_pending", "resolve_pending"},
         NEW from \in ConversationState, NEW to \in ConversationState
  PROVE  LET e == Moved(c, action, from, to, q)
         IN  /\ e \in TrailRow /\ e.action = action /\ e.before = from /\ e.after = to
             /\ e.question = q /\ e.call = c /\ e.at = call[c].at
BY DEF Moved, TrailRow

\* A question that is dropped is closed without more ado.
LEMMA OpenKeeps ==
  ASSUME Parts, NEW c \in Call, openPendingContext(c)
  PROVE  Parts'
<1> PICK k : k = call[c].talk
  OBVIOUS
<1> DEFINE t    == trail[k]
           row  == call[c].row
           drop == Moved(c, "drop_pending", row.state, "idle", row.question)
           open == Moved(c, "open", "idle", call[c].ask.state, c)
           s    == t \o opening(c)
<1>1. /\ call[c].phase = "read" /\ call[c].ask # Null /\ Unmoved(c) /\ UNCHANGED now
      /\ conversation' = [conversation EXCEPT ![k] = Asked(c)]
      /\ trail' = [trail EXCEPT ![k] = s]
  BY DEF openPendingContext
<1>2. PICK phase \in {"opened", "failed"} : call' = [call EXCEPT ![c].phase = phase]
  BY DEF openPendingContext
<1>3. /\ k \in Talk /\ call[c] \in CallRecord /\ call[c].at \in Time /\ t \in Seq(TrailRow)
      /\ IF Len(t) % 2 = 1
           THEN /\ row.question = t[Len(t)].question /\ row.state = t[Len(t)].after
                /\ row.state # "idle" /\ row.question \in Call /\ row \in Row
                /\ call[row.question].ask # Null
                /\ call[row.question].phase \in {"opened", "failed"}
           ELSE row = NothingPending
  BY <1>1, Committing
<1>4. CallsArePlaced /\ TypeOK /\ call \in [Call -> CallRecord] /\ Len(t) \in Nat
  BY <1>3 DEF Parts, CallsArePlaced, Placed, TypeOK
<1>5. /\ Asked(c) \in Row /\ Asked(c).question = c
      /\ call[c].ask.state \in PendingState
  BY <1>1, <1>4, AskedIsARow
<1>6. call[c].ask.state \in ConversationState /\ "idle" \in ConversationState
      /\ call[c].ask.state # "idle"
  BY <1>5 DEF PendingState, ConversationState, conversationMachine
<1>7. /\ open \in TrailRow /\ open.action = "open" /\ open.before = "idle"
      /\ open.after = call[c].ask.state /\ open.question = c /\ open.call = c
  BY <1>3, <1>6, MovedIsARow
<1>8. /\ call'[c].phase = phase /\ call'[c].ask = call[c].ask /\ call'[c].talk = k
      /\ call'[c].expiresAt = call[c].expiresAt
      /\ \A d \in Call \ {c} : call'[d] = call[d]
  BY <1>2, <1>3, <1>4 DEF CallRecord
<1>9. TrailFits(t, k, call')
  BY <1>1, <1>3, <1>8, TrailsKeep DEF Ended
<1> HIDE DEF open
<1>10. RowFits(open, k, call') /\ Opens(open)
  BY <1>1, <1>7, <1>8 DEF RowFits, Opens, Ended
<1>11. \A i \in DOMAIN t : t[i].question # c
  BY <1>1, <1>3, NamedHaveEnded DEF Ended
<1>12. CASE Len(t) % 2 = 1
  <2>1. /\ drop \in TrailRow /\ drop.action = "drop_pending" /\ drop.before = row.state
        /\ drop.after = "idle" /\ drop.question = row.question /\ drop.call = c
    BY <1>3, <1>6, <1>12, MovedIsARow DEF Row
  <2>2. opening(c) = <<drop, open>>
    BY <1>3, <1>12 DEF opening, open
  <2> HIDE DEF drop
  <2>3. row.question # c /\ call'[row.question] = call[row.question]
    BY <1>1, <1>3, <1>8, <1>12
  <2>4. RowFits(drop, k, call') /\ ~ Opens(drop)
    BY <1>3, <1>8, <1>12, <2>1, <2>3 DEF RowFits, Opens, Ended
  <2> DEFINE u == Append(t, drop)
  <2>5. TrailFits(u, k, call')
    BY <1>3, <1>9, <1>12, <2>1, <2>4, ClosesNext
  <2>6. /\ u \in Seq(TrailRow) /\ Len(u) = Len(t) + 1 /\ u[Len(t) + 1] = drop
        /\ \A i \in 1 .. Len(t) : u[i] = t[i]
    BY <1>3, <2>1
  <2>7. Len(u) % 2 = 0
    BY <1>4, <1>12, <2>6, Parity
  <2>8. \A i \in DOMAIN u : u[i].question # open.question
    <3> TAKE i \in DOMAIN u
    <3>1. i \in 1 .. Len(t) \/ i = Len(t) + 1
      BY <1>4, <2>6
    <3> QED BY <1>3, <1>7, <1>11, <2>1, <2>3, <2>6, <3>1
  <2>9. TrailFits(Append(u, open), k, call')
    BY <1>7, <1>10, <2>5, <2>7, <2>8, OpensNext
  <2>10. s = Append(u, open)
    <3>1. t \in Seq(TrailRow) /\ drop \in TrailRow /\ open \in TrailRow
      BY <1>3, <1>7, <2>1
    <3>2. t \o <<drop, open>> = Append(Append(t, drop), open)
      <4> HIDE DEF t
      <4> QED BY <3>1, TwoMore
    <3> QED BY <2>2, <3>2
  <2>11. /\ TrailFits(s, k, call') /\ Len(s) = Len(t) + 2 /\ s[Len(s)] = open
         /\ \A i \in DOMAIN s : IF i \in DOMAIN t THEN s[i] = t[i] ELSE s[i].call = c
    <3>1. Len(s) = Len(t) + 2 /\ s[Len(t) + 2] = open /\ s[Len(t) + 1] = drop
          /\ \A i \in 1 .. Len(t) : s[i] = t[i]
      BY <1>3, <1>7, <2>1, <2>6, <2>10
    <3>2. \A i \in DOMAIN s : i \in 1 .. Len(t) \/ i = Len(t) + 1 \/ i = Len(t) + 2
      <4>1. DOMAIN s = 1 .. Len(s)
        BY <1>7, <2>6, <2>10
      <4> HIDE DEF s, t
      <4> QED BY <1>4, <3>1, <4>1
    <3> QED BY <1>3, <1>4, <1>7, <2>1, <2>9, <2>10, <3>1, <3>2
  <2>12. RowFollows(k)'
    <3>1. trail'[k] = s /\ conversation'[k] = Asked(c) /\ Asked(c)' = Asked(c)
      BY <1>1, <1>3, <1>4, <1>8 DEF TypeOK, Asked
    <3>2. Len(s) % 2 = 1
      BY <1>4, <1>12, <2>11, Parity
    <3> HIDE DEF s
    <3> QED BY <1>7, <2>11, <3>1, <3>2 DEF RowFollows
  <2>13. Len(s) > Len(t)
    BY <1>4, <2>11
  <2> HIDE DEF s
  <2> QED
    BY <1>1, <1>2, <1>3, <1>5, <2>11, <2>12, <2>13, CommitKeeps
<1>13. CASE Len(t) % 2 # 1
  <2>1. opening(c) = <<open>>
    BY <1>3, <1>13 DEF opening, open, NothingPending
  <2>2. s = Append(t, open)
    BY <1>3, <1>7, <2>1
  <2>3. Len(t) % 2 = 0
    BY <1>4, <1>13, Parity
  <2>4. TrailFits(s, k, call')
    BY <1>7, <1>9, <1>10, <1>11, <2>2, <2>3, OpensNext
  <2>5. /\ Len(s) = Len(t) + 1 /\ s[Len(s)] = open
        /\ \A i \in DOMAIN s : IF i \in DOMAIN t THEN s[i] = t[i] ELSE s[i].call = c
    BY <1>3, <1>7, <2>2
  <2>6. RowFollows(k)'
    <3>1. trail'[k] = s /\ conversation'[k] = Asked(c) /\ Asked(c)' = Asked(c)
      BY <1>1, <1>3, <1>4, <1>8 DEF TypeOK, Asked
    <3>2. Len(s) % 2 = 1
      BY <1>4, <2>3, <2>5, Parity
    <3> HIDE DEF s
    <3> QED BY <1>7, <2>5, <3>1, <3>2 DEF RowFollows
  <2>7. Len(s) > Len(t)
    BY <1>4, <2>5
  <2> HIDE DEF s
  <2> QED
    BY <1>1, <1>2, <1>3, <1>5, <2>4, <2>5, <2>6, <2>7, CommitKeeps
<1> QED BY <1>12, <1>13

LEMMA ResolveKeeps ==
  ASSUME Parts, NEW c \in Call, resolveAffirmative(c)
  PROVE  Parts'
<1> PICK k : k = call[c].talk
  OBVIOUS
<1> DEFINE t     == trail[k]
           row   == call[c].row
           late  == expired(row, call[c].at)
           close == Moved(c, IF late THEN "expire_pending" ELSE "resolve_pending",
                          row.state, "idle", row.question)
           s     == Append(t, close)
<1>1. /\ call[c].phase = "read" /\ call[c].ask = Null /\ Unmoved(c) /\ UNCHANGED now
      /\ conversation' = [conversation EXCEPT ![k] = NothingPending]
      /\ trail' = [trail EXCEPT ![k] = s]
  BY DEF resolveAffirmative
<1>2. PICK phase \in {IF late THEN "expired" ELSE "attached", "failed"} :
        call' = [call EXCEPT ![c].phase = phase]
  BY DEF resolveAffirmative
<1>3. /\ k \in Talk /\ call[c] \in CallRecord /\ call[c].at \in Time /\ t \in Seq(TrailRow)
      /\ Len(t) % 2 = 1
      /\ row.question = t[Len(t)].question /\ row.state = t[Len(t)].after
      /\ row.question \in Call /\ row \in Row /\ row = Asked(row.question)
      /\ row.expires_at = call[row.question].expiresAt /\ row.expires_at \in Time
      /\ call[row.question].ask # Null
      /\ call[row.question].phase \in {"opened", "failed"}
  BY <1>1, Committing
<1>4. TypeOK /\ call \in [Call -> CallRecord] /\ Len(t) \in Nat
  BY <1>3 DEF Parts, TypeOK
<1>5. NothingPending \in Row /\ "idle" \in ConversationState /\ row.state \in ConversationState
  BY <1>3, ConversationAssumption DEF NothingPending, Row, ConversationState, conversationMachine
<1>6. /\ close \in TrailRow
      /\ close.action = (IF late THEN "expire_pending" ELSE "resolve_pending")
      /\ close.before = row.state /\ close.after = "idle" /\ close.question = row.question
      /\ close.call = c /\ close.at = call[c].at
  <2>1. (IF late THEN "expire_pending" ELSE "resolve_pending")
          \in {"open", "drop_pending", "expire_pending", "resolve_pending"}
    OBVIOUS
  <2>2. \A a \in {"open", "drop_pending", "expire_pending", "resolve_pending"} :
          LET e == Moved(c, a, row.state, "idle", row.question)
          IN  /\ e \in TrailRow /\ e.action = a /\ e.before = row.state /\ e.after = "idle"
              /\ e.question = row.question /\ e.call = c /\ e.at = call[c].at
    <3>1. call[c].at \in Time /\ row.question \in Call
      BY <1>3
    <3>2. row.state \in ConversationState /\ "idle" \in ConversationState
      BY <1>5
    <3> HIDE DEF row
    <3> QED BY <3>1, <3>2, MovedIsARow
  <2> QED BY <2>1, <2>2
<1>7. /\ call'[c].phase = phase /\ call'[c].ask = call[c].ask /\ call'[c].talk = k
      /\ call'[c].row = row /\ \A d \in Call \ {c} : call'[d] = call[d]
      /\ phase \in {"attached", "expired", "failed"}
  BY <1>2, <1>3, <1>4 DEF CallRecord
<1>8. TrailFits(t, k, call')
  BY <1>1, <1>3, <1>7, TrailsKeep DEF Ended
<1>9. late <=> row.expires_at <= call[c].at
  BY DEF expired
<1> HIDE DEF close, late
<1>10. row.question # c /\ call'[row.question] = call[row.question]
  BY <1>1, <1>3, <1>7
<1>11. RowFits(close, k, call') /\ ~ Opens(close)
  <2>1. row.expires_at \in Int /\ call[c].at \in Int
    BY <1>3, TimesAreNumbers
  <2>2. /\ call'[row.question].ask # Null /\ call'[row.question].phase \in {"opened", "failed"}
        /\ call'[row.question].expiresAt = row.expires_at
    BY <1>3, <1>10
  <2>3. close.action = "resolve_pending" => close.at < row.expires_at
    BY <1>6, <1>9, <2>1
  <2>4. close.action = "expire_pending" => close.at >= row.expires_at
    BY <1>6, <1>9, <2>1
  <2>5. close.action # "open"
    BY <1>6
  <2> QED BY <1>6, <1>7, <2>2, <2>3, <2>4, <2>5 DEF RowFits, Opens, Ended
<1>12. TrailFits(s, k, call')
  BY <1>3, <1>6, <1>8, <1>11, ClosesNext
<1>13. /\ s \in Seq(TrailRow) /\ Len(s) = Len(t) + 1 /\ s[Len(t) + 1] = close
       /\ \A i \in 1 .. Len(t) : s[i] = t[i] /\ DOMAIN s = 1 .. Len(t) + 1
       /\ DOMAIN t = 1 .. Len(t)
  BY <1>3, <1>6
<1>14. \A i \in DOMAIN s : IF i \in DOMAIN t THEN s[i] = t[i] ELSE s[i].call = c
  BY <1>4, <1>6, <1>13
<1>15. trail'[k] = s /\ conversation'[k] = NothingPending
  BY <1>1, <1>3, <1>4 DEF TypeOK
<1> HIDE DEF s
<1>16. RowFollows(k)'
  <2>1. Len(s) % 2 # 1
    BY <1>3, <1>4, <1>13, Parity
  <2> QED BY <1>7, <1>15, <2>1 DEF RowFollows
<1>17. AttachedFits(c)'
  <2>1. \A i \in DOMAIN t : t[i].call # c
    BY <1>1, <1>3, NamedHaveEnded DEF Ended
  <2>2. Len(t) + 1 \in DOMAIN s
    BY <1>4, <1>13
  <2>3. \A j \in DOMAIN s : s[j].call = c <=> j = Len(t) + 1
    BY <1>4, <1>6, <1>13, <2>1
  <2>4. Closed(call'[c], c, s)
    BY <1>6, <1>7, <1>11, <1>13, <2>2, <2>3 DEF Closed
  <2>5. Asked(row.question)' = Asked(row.question)
    BY <1>7, <1>10 DEF Asked
  <2> QED BY <1>3, <1>7, <1>10, <1>15, <2>4, <2>5 DEF AttachedFits, Asked
<1> QED
  <2>1. Len(s) > Len(t)
    BY <1>4, <1>13
  <2>2. phase \in {"opened", "attached", "expired", "failed"}
    BY <1>7
  <2>3. k \in Talk /\ call[c].phase = "read" /\ NothingPending \in Row /\ UNCHANGED now
    BY <1>1, <1>3, <1>5
  <2>4. /\ conversation' = [conversation EXCEPT ![k] = NothingPending]
        /\ trail' = [trail EXCEPT ![k] = s]
    BY <1>1
  <2>5. call' = [call EXCEPT ![c].phase = phase]
    BY <1>2
  <2> QED BY <1>12, <1>14, <1>16, <1>17, <2>1, <2>2, <2>3, <2>4, <2>5, CommitKeeps

(***************************************************************************)
(* The theorems.                                                           *)
(***************************************************************************)

LEMMA NextKeepsParts == Parts /\ [Next]_vars => Parts'
<1> SUFFICES ASSUME Parts, [Next]_vars PROVE Parts'
  OBVIOUS
<1>1. CASE UNCHANGED vars
  BY <1>1 DEF vars, Parts, TypeOK, RowFollows, Asked, ReadFits, AttachedFits
<1>2. CASE Tick
  BY <1>2, TickKeeps
<1>3. ASSUME NEW c \in Call, CallStep(c) PROVE Parts'
  <2>1. CASE \E k \in Talk : say(c, k)
    BY <2>1, SayKeeps
  <2>2. CASE \E k \in Talk, p \in Proposal, proposedAt \in 0 .. maxNow : propose(c, k, p, proposedAt)
    BY <2>2, ProposeKeeps
  <2> QED
    BY <1>3, <2>1, <2>2, BeginKeeps, ReadKeeps, OpenKeeps, ResolveKeeps, RetryKeeps, FailKeeps
    DEF CallStep
<1> QED BY <1>1, <1>2, <1>3 DEF Next

\* The invariant holds of every conversation, whatever calls overlap and
\* whatever is retried or lost.
THEOREM ConversationInvariance == Spec => []ConversationInv
<1>1. Spec => []Parts
  BY InitParts, NextKeepsParts, PTL DEF Spec
<1> QED BY <1>1, PartsMakeTheInvariant, PTL

\* Each question is closed by one row of the trail, before the next one opens.
THEOREM QuestionsCloseOnce == Spec => []EachQuestionClosesOnce
<1>1. ConversationInv => EachQuestionClosesOnce
  BY DEF ConversationInv
<1> QED BY <1>1, ConversationInvariance, PTL

\* An answer is in time and what is given up is late, by the transaction's own
\* clock, however often it was retried.
THEOREM DeadlinesDecide == Spec => []ClosedByItsDeadline
<1>1. ConversationInv => ClosedByItsDeadline
  BY DEF ConversationInv
<1> QED BY <1>1, ConversationInvariance, PTL

\* Evidence of an arrival is the one answer to an arrival check of it.
THEOREM EvidenceIsAnAnswer == Spec => []EvidenceAnswersAnArrivalCheck
<1>1. ConversationInv => EvidenceAnswersAnArrivalCheck
  <2> SUFFICES ASSUME ConversationInv, NEW c \in Call, NEW x \in recipientArrivalEvidence(c)
               PROVE  \E q \in Call :
                 /\ call[q].ask = [state   |-> "awaiting_arrival_confirmation",
                                   payload |-> [kind |-> "arrival_check", about |-> x]]
                 /\ {i \in DOMAIN trail[call[c].talk] :
                       trail[call[c].talk][i].question = q
                         /\ trail[call[c].talk][i].action # "open"}
                      = {i \in DOMAIN trail[call[c].talk] : trail[call[c].talk][i].call = c}
    BY DEF EvidenceAnswersAnArrivalCheck
  <2>1. /\ call[c].phase = "attached" /\ call[c].row.state = "awaiting_arrival_confirmation"
        /\ call[c].row.pending_payload.kind = "arrival_check"
        /\ x = call[c].row.pending_payload.about
    BY DEF recipientArrivalEvidence, isArrivalCheck
  <2> DEFINE q == call[c].row.question
             k == call[c].talk
             t == trail[k]
  <2>2. Parts /\ CallsArePlaced /\ TypeOK
    BY PartsOfTheInvariant DEF ConversationInv
  <2>3. /\ q \in Call /\ call[q].ask # Null /\ call[c].row = Asked(q) /\ Closed(call[c], c, t)
        /\ k \in Talk
    BY <2>1, <2>2 DEF Parts, AttachedFits, Placed
  <2>4. call[q].ask \in Proposal
    BY <2>2, <2>3, AskedIsARow
  <2>5. call[q].ask = [state   |-> "awaiting_arrival_confirmation",
                       payload |-> [kind |-> "arrival_check", about |-> x]]
    <3>1. call[c].row.state = call[q].ask.state
          /\ call[c].row.pending_payload = call[q].ask.payload
      BY <2>3 DEF Asked
    <3>2. /\ call[q].ask = [state |-> call[q].ask.state, payload |-> call[q].ask.payload]
          /\ call[q].ask.payload = [kind  |-> call[q].ask.payload.kind,
                                    about |-> call[q].ask.payload.about]
      BY <2>4, ConversationAssumption
    <3> QED BY <2>1, <3>1, <3>2
  <2>6. PICK i \in DOMAIN t : /\ t[i].question = q /\ ~ Opens(t[i])
                              /\ \A j \in DOMAIN t : t[j].call = c <=> j = i
    BY <2>3 DEF Closed
  <2>7. ASSUME NEW j \in DOMAIN t, t[j].question = q, t[j].action # "open" PROVE j = i
    <3>1. Alternates(t) /\ t \in Seq(TrailRow)
      BY <2>2, <2>3 DEF Parts, TrailFits
    <3>2. \A n \in DOMAIN t : n \in Nat /\ n >= 1 /\ n <= Len(t)
      BY <3>1
    <3>3. ASSUME NEW n \in DOMAIN t, ~ Opens(t[n]), t[n].question = q
          PROVE  n - 1 \in DOMAIN t /\ Opens(t[n - 1]) /\ t[n - 1].question = q
      <4>1. n % 2 = 0 /\ t[n - 1].question = q
        BY <3>1, <3>2, <3>3 DEF Alternates
      <4>2. n - 1 \in DOMAIN t /\ (n - 1) % 2 = 1
        <5> DEFINE m == n - 1
        <5>1. m \in Nat /\ n = m + 1
          BY <3>2
        <5>2. m % 2 = 1
          BY <4>1, <5>1, Parity
        <5>3. m >= 1 /\ m = n - 1
          BY <5>1, <5>2
        <5> QED BY <3>1, <3>2, <5>1, <5>2, <5>3
      <4> QED BY <3>1, <4>1, <4>2 DEF Alternates
    <3>4. i - 1 = j - 1
      BY <2>6, <2>7, <3>1, <3>3 DEF Alternates, Opens
    <3> QED BY <3>2, <3>4
  <2>8. {j \in DOMAIN t : t[j].question = q /\ t[j].action # "open"}
          = {j \in DOMAIN t : t[j].call = c}
    BY <2>6, <2>7 DEF Opens
  <2> QED BY <2>3, <2>5, <2>8
<1> QED BY <1>1, ConversationInvariance, PTL
=============================================================================
