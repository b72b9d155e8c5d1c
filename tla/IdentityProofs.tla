--------------------------- MODULE IdentityProofs ---------------------------
(***************************************************************************)
(* What is proved of Identity, for every set of phones, challenges and     *)
(* calls, and every policy.                                                *)
(***************************************************************************)
EXTENDS Identity, FiniteSetTheorems, TLAPS

LEMMA Policy ==
  /\ {MaxAttempts, maxFailures, codeTtl, sessionTtl, lockout, window} \subseteq Nat \ {0}
  /\ Null \notin Phone /\ Null \notin Challenge /\ Null \notin Ip
  /\ Null \notin ChallengeRow /\ Null \notin SessionRow /\ Null \notin Reading
BY IdentityAssumption, NullAssumption

\* A call that is under way holds a verification.
LEMMA UnderWay ==
  ASSUME TypeOK, NEW v \in Verifier,
         verifying[v].phase \in {"limiting", "looking", "judged", "stale"}
  PROVE  verifying[v] \in Verification
<1>1. verifying[v] \in Verification \cup Ended \cup {Idle}
  BY DEF TypeOK
<1>2. verifying[v] \notin Ended
  BY DEF Ended
<1>3. verifying[v] # Idle
  BY DEF Idle
<1> QED
  BY <1>1, <1>2, <1>3

\* A challenge ends used exactly by a success.
LEMMA UsedBySuccess ==
  ASSUME NEW k \in Verification, k.candidate \in Reading
  PROVE  /\ To(k) \in ChallengeState
         /\ To(k) = "used" <=> Success(k)
         /\ Action(To(k)) \in Verdict
BY DEF To, Success, Action, ChallengeState, Verdict, Verification, Reading, Guarded

\* What is read has the type of a reading.
LEMMA Readings ==
  ASSUME TypeOK
  PROVE  /\ \A id \in Challenge : Requested(id) => challengeRead(id) \in Reading
         /\ challengeRead(Null) = Null
         /\ \A p \in Phone : guardRead(p) \in Guarded
<1>1. ASSUME NEW id \in Challenge, Requested(id) PROVE challengeRead(id) \in Reading
  <2>1. identity_challenge[id] \in ChallengeRow /\ id # Null
    BY <1>1, Policy DEF TypeOK, Requested
  <2> QED BY <2>1 DEF challengeRead, Reading, ChallengeRow, Valid
<1>2. ASSUME NEW p \in Phone PROVE guardRead(p) \in Guarded
  BY DEF TypeOK, guardRead, Guarded, GuardRow, Locked
<1> QED
  BY <1>1, <1>2 DEF challengeRead

\* What commits is a verification of an active challenge with true readings.
LEMMA Decided ==
  ASSUME IdentityInv, NEW v \in Verifier, verifying[v].phase = "judged", Unmoved(verifying[v])
  PROVE  LET k == verifying[v]
         IN  /\ k \in Verification /\ k.id \in Challenge /\ k.candidate \in Reading
             /\ identity_challenge[k.id] \in ChallengeRow
             /\ identity_challenge[k.id].phone \in Phone
             /\ identity_challenge[k.id].state = "active"
             /\ Success(k) => /\ Valid(k.id)
                              /\ ~ Locked(identity_challenge[k.id].phone)
<1> DEFINE k == verifying[v]
<1>1. k \in Verification
  BY UnderWay DEF IdentityInv
<1>2. k.id \in Challenge /\ k.candidate \in Reading
  BY <1>1 DEF IdentityInv, CallsHold, Verification
<1>3. identity_challenge[k.id] \in ChallengeRow /\ k.id # Null
  BY <1>2, Policy DEF IdentityInv, TypeOK, CallsHold, Requested
<1>4. /\ k.candidate.state = identity_challenge[k.id].state
      /\ k.candidate.state = "active"
      /\ k.candidate.valid = Valid(k.id)
      /\ k.guard.locked = Locked(identity_challenge[k.id].phone)
  BY <1>3 DEF Unmoved, challengeRead, guardRead
<1> QED
  BY <1>1, <1>2, <1>3, <1>4 DEF Success, ChallengeRow

(***************************************************************************)
(* Type correctness of one step.                                           *)
(***************************************************************************)

LEMMA LimitTyped ==
  ASSUME TypeOK, NEW kind, NEW who, NEW ip, limit(kind, who, ip)
  PROVE  (identity_rate_bucket \in [Bucket -> [hits : Nat, window_start : Time]])'
<1>1. ASSUME NEW b \in Bucket PROVE Hit(b) \in [hits : Nat, window_start : Time]
  <2>1. /\ identity_rate_bucket[b] \in [hits : Nat, window_start : Time]
        /\ now \in Time
    BY DEF TypeOK
  <2> QED BY <2>1 DEF Hit, Time
<1> QED
  BY <1>1 DEF limit, TypeOK

\* A verification ends, or goes on as one.
LEMMA VerifyingTyped ==
  ASSUME TypeOK, NEW v \in Verifier, NEW k \in Verification \cup Ended \cup {Idle},
         verifying' = [verifying EXCEPT ![v] = k]
  PROVE  (verifying \in [Verifier -> Verification \cup Ended \cup {Idle}])'
BY DEF TypeOK

LEMMA Answers ==
  \A answer \in {"issued", "denied", "limited", "unavailable"} :
    /\ End(answer) \in Ended
    /\ End(answer).phase \notin {"limiting", "looking", "judged", "stale"}
BY DEF End, Ended

\* Looking at a candidate ends the call, or lets it go on with an active one.
LEMMA Looks ==
  ASSUME NEW k \in Verification
  PROVE  \/ Look(k) = End("denied")
         \/ /\ k.candidate # Null
            /\ Look(k) = [k EXCEPT !.phase = "looking"]
            /\ Look(k) \in Verification
            /\ Look(k).phase = "looking" /\ Look(k).id = k.id /\ Look(k).candidate = k.candidate
BY DEF Look, Verification

\* The calls hold what they held, but for one verification.
LEMMA CallsHoldStill ==
  ASSUME IdentityInv, NEW v \in Verifier, NEW k \in Verification \cup Ended \cup {Idle},
         verifying' = [verifying EXCEPT ![v] = k],
         UNCHANGED <<delivering, revoking>>,
         \A id \in Challenge : Requested(id) => Requested(id)',
         \A id \in Challenge : Opened(id) => Opened(id)',
         k.phase \in {"limiting", "looking", "judged", "stale"} =>
           /\ k.id = Null <=> k.candidate = Null
           /\ k.id = Null => k.phase = "limiting"
           /\ k.id # Null => k.id \in Challenge /\ Requested(k.id)
  PROVE  CallsHold'
<1>1. \A id \in delivering' : Requested(id)'
  BY DEF IdentityInv, CallsHold, TypeOK
<1>2. \A w \in Revoker : revoking'[w] # Null => Opened(revoking[w])'
  <2>1. ASSUME NEW w \in Revoker, revoking[w] # Null PROVE Opened(revoking[w])'
    <3>1. revoking[w] \in Challenge /\ Opened(revoking[w])
      BY <2>1 DEF IdentityInv, CallsHold, TypeOK
    <3> QED BY <3>1 DEF Opened
  <2> QED BY <2>1
<1>3. ASSUME NEW u \in Verifier,
             verifying'[u].phase \in {"limiting", "looking", "judged", "stale"}
      PROVE  /\ verifying'[u].id = Null <=> verifying'[u].candidate = Null
             /\ verifying'[u].id = Null => verifying'[u].phase = "limiting"
             /\ verifying'[u].id # Null => Requested(verifying[u].id)'
  <2>1. CASE u = v
    <3>1. verifying'[u] = k
      BY <2>1 DEF IdentityInv, TypeOK
    <3> QED BY <1>3, <3>1 DEF Requested
  <2>2. CASE u # v
    <3>1. verifying'[u] = verifying[u]
      BY <2>2 DEF IdentityInv, TypeOK
    <3>2. verifying[u] \in Verification
      BY <1>3, <3>1, UnderWay DEF IdentityInv
    <3>3. verifying[u].id \in Challenge \cup {Null}
      BY <3>2 DEF Verification
    <3> QED BY <1>3, <3>1, <3>3 DEF IdentityInv, CallsHold, Requested
  <2> QED BY <2>1, <2>2
<1> QED
  BY <1>1, <1>2, <1>3 DEF CallsHold

\* A step that leaves the challenges, their sessions and the generations
\* leaves what fits.
LEMMA FitStill ==
  ASSUME SessionsFit, UNCHANGED <<identity_challenge, identity_session, generation>>
  PROVE  SessionsFit'
BY DEF SessionsFit, Opened, Requested

(***************************************************************************)
(* Every step keeps the inductive invariant: requestCode and the delivery. *)
(***************************************************************************)

LEMMA InitInv == Init => IdentityInv
<1> SUFFICES ASSUME Init PROVE IdentityInv
  OBVIOUS
<1>1. TypeOK
  BY DEF Init, TypeOK, GuardRow, Time, Verdict
<1>2. SessionsFit
  BY DEF Init, SessionsFit, Opened, Requested
<1>3. CallsHold
  BY DEF Init, CallsHold, Idle
<1> QED
  BY <1>1, <1>2, <1>3 DEF IdentityInv

LEMMA TickKeeps ==
  ASSUME IdentityInv, Tick PROVE IdentityInv'
<1>1. TypeOK'
  BY DEF IdentityInv, TypeOK, Tick, tables, Time
<1>2. SessionsFit'
  BY FitStill DEF IdentityInv, Tick, tables
<1>3. CallsHold'
  BY DEF IdentityInv, CallsHold, Tick, tables, Requested, Opened
<1> QED
  BY <1>1, <1>2, <1>3 DEF IdentityInv

LEMMA RequestKeeps ==
  ASSUME IdentityInv, NEW id \in Challenge, NEW p \in Phone, NEW ip \in Ip, requestCode(id, p, ip)
  PROVE  IdentityInv'
<1> DEFINE row == [phone |-> p, state |-> "active", failures |-> 0, expires_at |-> now + codeTtl]
<1>1. row \in ChallengeRow /\ row # Null
  <2>1. codeTtl \in Nat /\ now \in Nat
    BY Policy DEF IdentityInv, TypeOK, Time
  <2>2. row \in ChallengeRow
    BY <2>1 DEF ChallengeRow, ChallengeState, Time
  <2> QED BY <2>2, Policy
<1>2. \/ UNCHANGED <<identity_challenge, delivering>>
      \/ /\ identity_challenge' = [identity_challenge EXCEPT ![id] = row]
         /\ delivering' = delivering \cup {id}
  BY DEF requestCode
<1>3. UNCHANGED <<identity_phone_guard, generation, identity_session, log, now, verifying, revoking>>
  BY DEF requestCode
<1> HIDE DEF row
<1>4. TypeOK'
  <2>1. limit("request", p, ip)
    BY DEF requestCode
  <2>2. (identity_rate_bucket \in [Bucket -> [hits : Nat, window_start : Time]])'
    BY <2>1, LimitTyped DEF IdentityInv
  <2> QED BY <1>1, <1>2, <1>3, <2>2 DEF IdentityInv, TypeOK
<1>5. SessionsFit'
  <2>1. ~ Opened(id)
    BY DEF requestCode, IdentityInv, SessionsFit
  <2>2. row.state # "used"
    BY DEF row
  <2>3. \A c \in Challenge : c # id => identity_challenge'[c] = identity_challenge[c]
    BY <1>2 DEF IdentityInv, TypeOK
  <2>4. ~ Requested(id)
    BY DEF requestCode
  <2>5. identity_challenge'[id] \in {identity_challenge[id], row}
    BY <1>2 DEF IdentityInv, TypeOK
  <2> QED BY <1>3, <2>1, <2>2, <2>3, <2>4, <2>5 DEF IdentityInv, SessionsFit, Opened, Requested
<1>6. CallsHold'
  <2>1. \A c \in Challenge : Requested(c) => Requested(c)'
    BY <1>1, <1>2 DEF IdentityInv, TypeOK, Requested
  <2>2. \A c \in delivering' : Requested(c)'
    BY <1>1, <1>2, <2>1 DEF IdentityInv, TypeOK, CallsHold, Requested
  <2>3. ASSUME NEW v \in Verifier,
               verifying[v].phase \in {"limiting", "looking", "judged", "stale"},
               verifying[v].id # Null
        PROVE  Requested(verifying[v].id)'
    <3>1. verifying[v].id \in Challenge
      BY <2>3, UnderWay DEF IdentityInv, Verification
    <3>2. Requested(verifying[v].id)
      BY <2>3 DEF IdentityInv, CallsHold
    <3> QED BY <1>3, <2>1, <3>1, <3>2 DEF Requested
  <2> QED BY <1>3, <2>2, <2>3 DEF IdentityInv, CallsHold, Opened, Requested
<1> QED
  BY <1>4, <1>5, <1>6 DEF IdentityInv

LEMMA DeliveryKeeps ==
  ASSUME IdentityInv, NEW id \in Challenge, delivered(id) \/ deliveryFails(id)
  PROVE  IdentityInv'
<1> DEFINE row  == identity_challenge[id]
           left == [row EXCEPT !.state = IF @ = "active" THEN "delivery_failed" ELSE @]
<1>1. /\ delivering' = delivering \ {id}
      /\ \/ UNCHANGED identity_challenge
         \/ identity_challenge' = [identity_challenge EXCEPT ![id] = left]
      /\ UNCHANGED <<identity_phone_guard, identity_rate_bucket, generation, identity_session, log,
                     now, verifying, revoking>>
  BY DEF delivered, deliveryFails, tables
<1>2. row \in ChallengeRow
  BY Policy DEF delivered, deliveryFails, IdentityInv, CallsHold, TypeOK, Requested
<1>3. left \in ChallengeRow /\ left # Null /\ left.phone = row.phone
  <2>1. left \in ChallengeRow /\ left.phone = row.phone
    BY <1>2 DEF ChallengeRow, ChallengeState
  <2> QED BY <2>1, Policy
<1>4. left.state = "used" <=> row.state = "used"
  BY <1>2 DEF ChallengeRow
<1>5. row # Null
  BY <1>2, Policy
<1> HIDE DEF left
<1>6. TypeOK'
  BY <1>1, <1>3 DEF IdentityInv, TypeOK
<1>7. SessionsFit'
  <2>1. /\ \A c \in Challenge : c # id => identity_challenge'[c] = identity_challenge[c]
        /\ identity_challenge'[id] \in {identity_challenge[id], left}
    BY <1>1 DEF IdentityInv, TypeOK
  <2> QED BY <1>1, <1>3, <1>4, <1>5, <2>1 DEF IdentityInv, SessionsFit, Opened, Requested
<1>8. CallsHold'
  <2>1. \A c \in Challenge : Requested(c) => Requested(c)'
    BY <1>1, <1>3 DEF IdentityInv, TypeOK, Requested
  <2>2. \A c \in delivering' : Requested(c)'
    BY <1>1, <2>1 DEF IdentityInv, TypeOK, CallsHold, Requested
  <2>3. ASSUME NEW v \in Verifier,
               verifying[v].phase \in {"limiting", "looking", "judged", "stale"},
               verifying[v].id # Null
        PROVE  Requested(verifying[v].id)'
    <3>1. verifying[v].id \in Challenge
      BY <2>3, UnderWay DEF IdentityInv, Verification
    <3>2. Requested(verifying[v].id)
      BY <2>3 DEF IdentityInv, CallsHold
    <3> QED BY <1>1, <2>1, <3>1, <3>2 DEF Requested
  <2> QED BY <1>1, <2>2, <2>3 DEF IdentityInv, CallsHold, Opened, Requested
<1> QED
  BY <1>6, <1>7, <1>8 DEF IdentityInv

(***************************************************************************)
(* verifyCode                                                              *)
(***************************************************************************)

LEMMA VerifyKeeps ==
  ASSUME IdentityInv, NEW v \in Verifier,
         NEW id \in {c \in Challenge : Requested(c)} \cup {Null}, NEW matches \in BOOLEAN,
         verifyCode(v, id, matches)
  PROVE  IdentityInv'
<1> DEFINE k == [phase |-> "limiting", id |-> id, matches |-> matches,
                 candidate |-> challengeRead(id), guard |-> Unread, attempt |-> 1]
<1>1. verifying' = [verifying EXCEPT ![v] = k] /\ UNCHANGED <<tables, delivering, now, revoking>>
  BY DEF verifyCode
<1>2. challengeRead(id) \in Reading \cup {Null} /\ (id = Null <=> challengeRead(id) = Null)
  BY Readings, Policy DEF IdentityInv
<1>3. k \in Verification
  <2>1. Unread \in Guarded
    BY DEF Unread, Guarded
  <2>2. 1 \in 1 .. MaxAttempts
    BY Policy
  <2> QED BY <1>2, <2>1, <2>2 DEF Verification
<1>4. /\ k.id = Null <=> k.candidate = Null
      /\ k.phase = "limiting"
      /\ k.id # Null => k.id \in Challenge /\ Requested(k.id)
  BY <1>2
<1> HIDE DEF k
<1>5. TypeOK'
  BY <1>1, <1>3, VerifyingTyped DEF IdentityInv, TypeOK, tables
<1>6. SessionsFit'
  BY <1>1, FitStill DEF IdentityInv, tables
<1>7. CallsHold'
  <2>1. \A c \in Challenge : (Requested(c) => Requested(c)') /\ (Opened(c) => Opened(c)')
    BY <1>1 DEF tables, Requested, Opened
  <2> QED BY <1>1, <1>3, <1>4, <2>1, CallsHoldStill
<1> QED
  BY <1>5, <1>6, <1>7 DEF IdentityInv

\* The steps that only move a verification, or hit its buckets.
LEMMA MoveKeeps ==
  ASSUME IdentityInv, NEW v \in Verifier, NEW k \in Verification \cup Ended,
         verifying' = [verifying EXCEPT ![v] = k],
         UNCHANGED <<identity_challenge, identity_phone_guard, generation, identity_session, log,
                     delivering, now, revoking>>,
         (identity_rate_bucket \in [Bucket -> [hits : Nat, window_start : Time]])',
         k \in Verification =>
           /\ k.id = verifying[v].id
           /\ k.id = Null <=> k.candidate = Null
           /\ k.id = Null => k.phase = "limiting"
           /\ verifying[v].phase \in {"limiting", "looking", "judged", "stale"}
  PROVE  IdentityInv'
<1>1. TypeOK'
  BY VerifyingTyped DEF IdentityInv, TypeOK
<1>2. SessionsFit'
  BY FitStill DEF IdentityInv
<1>3. CallsHold'
  <2>1. \A c \in Challenge : (Requested(c) => Requested(c)') /\ (Opened(c) => Opened(c)')
    BY DEF Requested, Opened
  <2>2. k.phase \in {"limiting", "looking", "judged", "stale"} => k \in Verification
    BY DEF Ended
  <2>3. ASSUME k \in Verification, k.id # Null PROVE k.id \in Challenge /\ Requested(k.id)
    BY <2>3 DEF Verification, IdentityInv, CallsHold
  <2> QED BY <2>1, <2>2, <2>3, CallsHoldStill
<1> QED
  BY <1>1, <1>2, <1>3 DEF IdentityInv

LEMMA LimitKeeps ==
  ASSUME IdentityInv, NEW v \in Verifier, NEW ip \in Ip, limitVerify(v, ip)
  PROVE  IdentityInv'
<1> DEFINE who == IF verifying[v].candidate = Null THEN verifying[v].id
                    ELSE identity_challenge[verifying[v].id].phone
<1>1. /\ verifying[v].phase = "limiting"
      /\ limit("verify", who, ip)
      /\ \/ verifying' = [verifying EXCEPT ![v] = Look(verifying[v])]
         \/ verifying' = [verifying EXCEPT ![v] = End("limited")]
      /\ UNCHANGED <<identity_challenge, identity_phone_guard, generation, identity_session, log,
                     delivering, now, revoking>>
  BY DEF limitVerify
<1>2. verifying[v] \in Verification
  BY <1>1, UnderWay DEF IdentityInv
<1>3. (identity_rate_bucket \in [Bucket -> [hits : Nat, window_start : Time]])'
  BY <1>1, LimitTyped DEF IdentityInv
<1>4. verifying[v].id = Null <=> verifying[v].candidate = Null
  BY <1>1 DEF IdentityInv, CallsHold
<1>5. CASE verifying' = [verifying EXCEPT ![v] = Look(verifying[v])]
  <2>1. CASE Look(verifying[v]) = End("denied")
    <3>1. End("denied") \in Ended /\ End("denied") \notin Verification
      BY Answers DEF Verification
    <3> QED BY <1>1, <1>3, <1>5, <2>1, <3>1, MoveKeeps
  <2>2. CASE Look(verifying[v]) # End("denied")
    <3>1. /\ Look(verifying[v]) \in Verification
          /\ Look(verifying[v]).id = verifying[v].id
          /\ Look(verifying[v]).candidate = verifying[v].candidate
          /\ verifying[v].candidate # Null
      BY <1>2, <2>2, Looks
    <3> QED BY <1>1, <1>3, <1>4, <1>5, <3>1, MoveKeeps
  <2> QED BY <2>1, <2>2
<1>6. CASE verifying' = [verifying EXCEPT ![v] = End("limited")]
  <2>1. End("limited") \in Ended /\ End("limited") \notin Verification
    BY Answers DEF Verification
  <2> QED BY <1>1, <1>3, <1>6, <2>1, MoveKeeps
<1> QED
  BY <1>1, <1>5, <1>6

LEMMA GuardKeeps ==
  ASSUME IdentityInv, NEW v \in Verifier, readGuard(v)
  PROVE  IdentityInv'
<1> DEFINE k == [verifying[v] EXCEPT
                   !.phase = "judged",
                   !.guard = guardRead(identity_challenge[verifying[v].id].phone)]
<1>1. /\ verifying[v].phase = "looking"
      /\ UNCHANGED <<tables, delivering, now, revoking>>
  BY DEF readGuard
<1>2. verifying[v] \in Verification
  BY <1>1, UnderWay DEF IdentityInv
<1>3. verifying' = [verifying EXCEPT ![v] = k]
  BY <1>2 DEF readGuard, IdentityInv, TypeOK
<1>4. verifying[v].id \in Challenge /\ verifying[v].candidate # Null
  BY <1>1, <1>2 DEF IdentityInv, CallsHold, Verification
<1>5. identity_challenge[verifying[v].id].phone \in Phone
  <2>1. identity_challenge[verifying[v].id] \in ChallengeRow
    BY <1>1, <1>4, Policy DEF IdentityInv, TypeOK, CallsHold, Requested
  <2> QED BY <2>1 DEF ChallengeRow
<1>6. guardRead(identity_challenge[verifying[v].id].phone) \in Guarded
  BY <1>5, Readings DEF IdentityInv
<1>7. k \in Verification /\ k.id = verifying[v].id /\ k.candidate = verifying[v].candidate
  BY <1>2, <1>6 DEF Verification
<1> HIDE DEF k
<1>8. (identity_rate_bucket \in [Bucket -> [hits : Nat, window_start : Time]])'
  BY <1>1 DEF IdentityInv, TypeOK, tables
<1> QED
  BY <1>1, <1>3, <1>4, <1>7, <1>8, Policy, MoveKeeps DEF tables

LEMMA AgainKeeps ==
  ASSUME IdentityInv, NEW v \in Verifier, again(v)
  PROVE  IdentityInv'
<1> DEFINE k == [verifying[v] EXCEPT !.phase = "stale", !.attempt = verifying[v].attempt + 1]
<1>1. verifying[v].phase = "judged" /\ UNCHANGED <<tables, delivering, now, revoking>>
  BY DEF again
<1>2. verifying[v] \in Verification
  BY <1>1, UnderWay DEF IdentityInv
<1>3. (identity_rate_bucket \in [Bucket -> [hits : Nat, window_start : Time]])'
  BY <1>1 DEF IdentityInv, TypeOK, tables
<1>4. CASE verifying[v].attempt = MaxAttempts
  <2>1. verifying' = [verifying EXCEPT ![v] = End("unavailable")]
    BY <1>4 DEF again, IdentityInv, TypeOK
  <2>2. End("unavailable") \in Ended /\ End("unavailable") \notin Verification
    BY Answers DEF Verification
  <2> QED BY <1>1, <1>3, <2>1, <2>2, MoveKeeps DEF tables
<1>5. CASE verifying[v].attempt # MaxAttempts
  <2>1. verifying' = [verifying EXCEPT ![v] = k]
    BY <1>5 DEF again
  <2>2. verifying[v].attempt + 1 \in 1 .. MaxAttempts
    BY <1>2, <1>5, Policy DEF Verification
  <2>3. k \in Verification /\ k.id = verifying[v].id /\ k.candidate = verifying[v].candidate
    BY <1>2, <2>2 DEF Verification
  <2>4. verifying[v].id # Null /\ verifying[v].candidate # Null
    BY <1>1 DEF IdentityInv, CallsHold
  <2> HIDE DEF k
  <2> QED BY <1>1, <1>3, <2>1, <2>3, <2>4, MoveKeeps DEF tables
<1> QED
  BY <1>4, <1>5

LEMMA ReadAgainKeeps ==
  ASSUME IdentityInv, NEW v \in Verifier, readAgain(v)
  PROVE  IdentityInv'
<1> DEFINE k == [verifying[v] EXCEPT !.candidate = challengeRead(verifying[v].id), !.guard = Unread]
<1>1. verifying[v].phase = "stale" /\ UNCHANGED <<tables, delivering, now, revoking>>
  BY DEF readAgain
<1>2. verifying[v] \in Verification
  BY <1>1, UnderWay DEF IdentityInv
<1>3. (identity_rate_bucket \in [Bucket -> [hits : Nat, window_start : Time]])'
  BY <1>1 DEF IdentityInv, TypeOK, tables
<1>4. verifying' = [verifying EXCEPT ![v] = Look(k)]
  BY DEF readAgain, IdentityInv, TypeOK
<1>5. verifying[v].id \in Challenge /\ Requested(verifying[v].id)
  BY <1>1, <1>2 DEF IdentityInv, CallsHold, Verification
<1>6. challengeRead(verifying[v].id) \in Reading /\ verifying[v].id # Null
  BY <1>5, Policy, Readings DEF IdentityInv
<1>7. k \in Verification /\ k.id = verifying[v].id
  <2>1. Unread \in Guarded
    BY DEF Unread, Guarded
  <2> QED BY <1>2, <1>6, <2>1 DEF Verification
<1> HIDE DEF k
<1>8. CASE Look(k) = End("denied")
  <2>1. End("denied") \in Ended /\ End("denied") \notin Verification
    BY Answers DEF Verification
  <2> QED BY <1>1, <1>3, <1>4, <1>8, <2>1, MoveKeeps DEF tables
<1>9. CASE Look(k) # End("denied")
  <2>1. /\ Look(k) \in Verification /\ Look(k).id = k.id
        /\ Look(k).candidate = k.candidate /\ k.candidate # Null
    BY <1>7, <1>9, Looks
  <2> QED BY <1>1, <1>3, <1>4, <1>6, <1>7, <2>1, MoveKeeps DEF tables
<1> QED
  BY <1>8, <1>9

LEMMA FailsKeeps ==
  ASSUME IdentityInv, NEW v \in Verifier, verifyFails(v)
  PROVE  IdentityInv'
<1>1. /\ verifying' = [verifying EXCEPT ![v] = End("unavailable")]
      /\ UNCHANGED <<tables, delivering, now, revoking>>
  BY DEF verifyFails
<1>2. End("unavailable") \in Ended /\ End("unavailable") \notin Verification
  BY Answers DEF Verification
<1>3. (identity_rate_bucket \in [Bucket -> [hits : Nat, window_start : Time]])'
  BY <1>1 DEF IdentityInv, TypeOK, tables
<1> QED
  BY <1>1, <1>2, <1>3, MoveKeeps DEF tables

\* The commit: a success opens a session of the challenge it uses, with a
\* generation above every earlier one of the phone.
LEMMA DecideKeeps ==
  ASSUME IdentityInv, NEW v \in Verifier, decide(v)
  PROVE  IdentityInv'
<1>a. PICK k : k = verifying[v]
  OBVIOUS
<1>b. PICK p : p = identity_challenge[k.id].phone
  OBVIOUS
<1> DEFINE to      == To(k)
           guesses == identity_challenge[k.id].failures
           row     == [identity_challenge[k.id] EXCEPT
                         !.state = to, !.failures = IF Success(k) THEN guesses ELSE guesses + 1]
           counted == IF Success(k) THEN NoFailures ELSE Failure(identity_phone_guard[p], to)
           session == [phone |-> p, generation |-> nextGeneration(p), state |-> "active",
                       expires_at |-> now + sessionTtl]
           answer  == End(IF Success(k) THEN "issued" ELSE "denied")
<1>1. k.phase = "judged" /\ Unmoved(k)
  BY <1>a DEF decide
<1>2. /\ k \in Verification /\ k.id \in Challenge /\ k.candidate \in Reading
      /\ identity_challenge[k.id] \in ChallengeRow
      /\ p \in Phone
      /\ identity_challenge[k.id].state = "active"
  BY <1>1, <1>a, <1>b, Decided
<1>3. to \in ChallengeState /\ (to = "used" <=> Success(k)) /\ Action(to) \in Verdict
  BY <1>2, UsedBySuccess
<1>4. now \in Nat /\ sessionTtl \in Nat /\ lockout \in Nat
  BY Policy DEF IdentityInv, TypeOK, Time
<1>5. /\ identity_challenge' = [identity_challenge EXCEPT ![k.id] = row]
      /\ log' = [log EXCEPT ![p] = Append(log[p], Action(to))]
      /\ identity_phone_guard' = [identity_phone_guard EXCEPT ![p] = counted]
      /\ verifying' = [verifying EXCEPT ![v] = answer]
      /\ UNCHANGED <<identity_rate_bucket, delivering, now, revoking>>
  BY <1>2, <1>a, <1>b DEF decide, IdentityInv, TypeOK
<1>6. \/ /\ Success(k)
         /\ generation' = [generation EXCEPT ![p] = nextGeneration(p)]
         /\ identity_session' = [identity_session EXCEPT ![k.id] = session]
      \/ /\ ~ Success(k)
         /\ UNCHANGED <<generation, identity_session>>
  BY <1>a, <1>b DEF decide
<1>7. /\ row \in ChallengeRow /\ row # Null
      /\ row.phone = p /\ row.state = to
  <2>1. row \in ChallengeRow /\ row.phone = p /\ row.state = to
    <3> DEFINE n == IF Success(k) THEN guesses ELSE guesses + 1
    <3>1. n \in Nat
      BY <1>2 DEF ChallengeRow
    <3>2. row = [identity_challenge[k.id] EXCEPT !.state = to, !.failures = n]
      OBVIOUS
    <3> HIDE DEF n, row, to
    <3> QED BY <1>2, <1>3, <1>b, <3>1, <3>2 DEF ChallengeRow
  <2> QED BY <2>1, Policy
<1>8. counted \in GuardRow
  <2>1. identity_phone_guard[p] \in GuardRow
    BY <1>2 DEF IdentityInv, TypeOK
  <2> QED BY <1>4, <2>1 DEF NoFailures, Failure, GuardRow, Time
<1>9. generation[p] \in Nat /\ nextGeneration(p) = generation[p] + 1
  BY <1>2 DEF IdentityInv, TypeOK, nextGeneration
<1>10. session \in SessionRow /\ session # Null
  <2>1. session \in SessionRow
    BY <1>2, <1>4, <1>9 DEF SessionRow, Time
  <2> QED BY <2>1, Policy
<1>11. answer \in Ended /\ answer.phase \notin {"limiting", "looking", "judged", "stale"}
  BY Answers
<1>12. session.phone = p /\ session.generation = generation[p] + 1
  BY <1>9
<1> HIDE DEF row, counted, session, answer, to
<1>13. TypeOK'
  <2>1. (identity_challenge \in [Challenge -> ChallengeRow \cup {Null}])'
    BY <1>5, <1>7 DEF IdentityInv, TypeOK
  <2>2. (identity_phone_guard \in [Phone -> GuardRow])'
    BY <1>5, <1>8 DEF IdentityInv, TypeOK
  <2>3. (generation \in [Phone -> Nat])'
    <3>1. nextGeneration(p) \in Nat
      BY <1>9
    <3> QED BY <1>6, <3>1 DEF IdentityInv, TypeOK
  <2>4. (identity_session \in [Challenge -> SessionRow \cup {Null}])'
    BY <1>6, <1>10 DEF IdentityInv, TypeOK
  <2>5. (log \in [Phone -> Seq(Verdict)])'
    <3>1. Append(log[p], Action(to)) \in Seq(Verdict)
      BY <1>2, <1>3 DEF IdentityInv, TypeOK
    <3> QED BY <1>5, <3>1 DEF IdentityInv, TypeOK
  <2>6. (verifying \in [Verifier -> Verification \cup Ended \cup {Idle}])'
    BY <1>5, <1>11, VerifyingTyped DEF IdentityInv
  <2> QED BY <1>5, <2>1, <2>2, <2>3, <2>4, <2>5, <2>6 DEF IdentityInv, TypeOK
<1>14. /\ \A c \in Challenge : c # k.id => /\ identity_challenge'[c] = identity_challenge[c]
                                          /\ identity_session'[c] = identity_session[c]
       /\ identity_challenge'[k.id] = row
       /\ identity_session'[k.id] = IF Success(k) THEN session ELSE identity_session[k.id]
  BY <1>2, <1>5, <1>6 DEF IdentityInv, TypeOK
<1>15. ~ Opened(k.id) /\ identity_session[k.id] = Null
  BY <1>2 DEF IdentityInv, SessionsFit, Opened
<1>16. /\ \A q \in Phone : /\ generation[q] \in Nat /\ generation'[q] \in Nat
                            /\ generation[q] <= generation'[q]
       /\ Success(k) => generation'[p] = generation[p] + 1
  <2>1. generation \in [Phone -> Nat] /\ generation' \in [Phone -> Nat]
    BY <1>13 DEF IdentityInv, TypeOK
  <2>2. \/ generation' = [generation EXCEPT ![p] = generation[p] + 1]
        \/ ~ Success(k) /\ generation' = generation
    BY <1>6, <1>9
  <2>3. \A q \in Phone : generation'[q] \in {generation[q], generation[q] + 1}
    BY <2>1, <2>2
  <2>4. Success(k) => generation'[p] = generation[p] + 1
    BY <1>2, <2>1, <2>2
  <2>5. \A q \in Phone : generation[q] \in Nat /\ generation'[q] \in Nat
    BY <2>1
  <2> QED BY <2>3, <2>4, <2>5
<1>17. SessionsFit'
  <2>1. ASSUME NEW c \in Challenge
        PROVE  Opened(c)' <=> Requested(c)' /\ identity_challenge'[c].state = "used"
    <3>1. CASE c = k.id
      BY <1>3, <1>7, <1>10, <1>14, <1>15, <3>1 DEF Opened, Requested
    <3>2. CASE c # k.id
      BY <1>14, <3>2 DEF IdentityInv, SessionsFit, Opened, Requested
    <3> QED BY <3>1, <3>2
  <2>2. ASSUME NEW c \in Challenge, Opened(c)'
        PROVE  /\ identity_session'[c].phone = identity_challenge'[c].phone
               /\ identity_session'[c].generation <= generation'[identity_session'[c].phone]
    <3>1. CASE c = k.id
      <4>1. Success(k) /\ identity_session'[c] = session
        BY <1>14, <1>15, <2>2, <3>1 DEF Opened
      <4>2. identity_session'[c].phone = p /\ identity_challenge'[c].phone = p
        BY <1>7, <1>12, <1>14, <3>1, <4>1
      <4>3. identity_session'[c].generation = generation[p] + 1 /\ generation'[p] = generation[p] + 1
        BY <1>2, <1>12, <1>16, <4>1
      <4>4. identity_session'[c].generation <= generation'[p]
        BY <1>9, <4>3
      <4> QED BY <4>2, <4>4
    <3>2. CASE c # k.id
      <4>1. /\ identity_session'[c] = identity_session[c]
            /\ identity_challenge'[c] = identity_challenge[c]
            /\ Opened(c)
        BY <1>14, <2>2, <3>2 DEF Opened
      <4>2. /\ identity_session[c].phone \in Phone
            /\ identity_session[c].generation \in Nat
        BY <4>1 DEF IdentityInv, TypeOK, Opened, SessionRow
      <4>3. /\ identity_session[c].phone = identity_challenge[c].phone
            /\ identity_session[c].generation <= generation[identity_session[c].phone]
        BY <4>1 DEF IdentityInv, SessionsFit
      <4>4. PICK q \in Phone : q = identity_session[c].phone
        BY <4>2
      <4>5. generation[q] \in Nat /\ generation'[q] \in Nat /\ generation[q] <= generation'[q]
        BY <1>16
      <4>6. identity_session[c].generation <= generation'[q]
        BY <4>2, <4>3, <4>4, <4>5
      <4> QED BY <4>1, <4>3, <4>4, <4>6
    <3> QED BY <3>1, <3>2
  <2>3. ASSUME NEW c \in Challenge, c # k.id, Opened(c)', Success(k), identity_session'[c].phone = p
        PROVE  identity_session'[c].generation < session.generation
    <3>1. identity_session'[c] = identity_session[c] /\ Opened(c)
      BY <1>14, <2>3 DEF Opened
    <3>2. /\ identity_session[c].generation \in Nat
          /\ identity_session[c].generation <= generation[p]
      BY <2>3, <3>1 DEF IdentityInv, TypeOK, SessionsFit, Opened, SessionRow
    <3> QED BY <1>9, <1>12, <3>1, <3>2
  <2>4. ASSUME NEW i \in Challenge, NEW j \in Challenge, Opened(i)', Opened(j)', i # j,
               identity_session'[i].phone = identity_session'[j].phone
        PROVE  identity_session'[i].generation # identity_session'[j].generation
    <3>1. \A c \in Challenge :
            Opened(c)' /\ c # k.id => Opened(c) /\ identity_session'[c] = identity_session[c]
      BY <1>14 DEF Opened
    <3>2. CASE i # k.id /\ j # k.id
      BY <2>4, <3>1, <3>2 DEF IdentityInv, SessionsFit
    <3>3. ASSUME NEW c \in Challenge, Opened(c)', c # k.id, Opened(k.id)',
                 identity_session'[c].phone = identity_session'[k.id].phone
          PROVE  identity_session'[c].generation # identity_session'[k.id].generation
      <4>1. Success(k) /\ identity_session'[k.id] = session
        BY <1>14, <1>15, <3>3 DEF Opened
      <4>2. /\ identity_session'[c].generation \in Nat
            /\ session.generation \in Nat
        BY <1>9, <1>12, <1>13, <3>3 DEF TypeOK, Opened, SessionRow
      <4> QED BY <1>12, <2>3, <3>3, <4>1, <4>2
    <3> QED BY <2>4, <3>2, <3>3
  <2> QED BY <2>1, <2>2, <2>4 DEF SessionsFit
<1>18. CallsHold'
  <2>1. \A c \in Challenge : (Requested(c) => Requested(c)') /\ (Opened(c) => Opened(c)')
    BY <1>7, <1>10, <1>14 DEF Requested, Opened
  <2> QED BY <1>5, <1>11, <2>1, CallsHoldStill
<1> QED
  BY <1>13, <1>17, <1>18 DEF IdentityInv

(***************************************************************************)
(* revoke                                                                  *)
(***************************************************************************)

LEMMA RevokeKeeps ==
  ASSUME IdentityInv, NEW w \in Revoker, NEW id \in Challenge, revoke(w, id)
  PROVE  IdentityInv'
<1>1. /\ revoking' = [revoking EXCEPT ![w] = id] /\ Opened(id)
      /\ UNCHANGED <<tables, delivering, now, verifying>>
  BY DEF revoke, authenticate
<1>2. TypeOK'
  BY <1>1 DEF IdentityInv, TypeOK, tables
<1>3. SessionsFit'
  BY <1>1, FitStill DEF IdentityInv, tables
<1>4. CallsHold'
  BY <1>1 DEF IdentityInv, CallsHold, TypeOK, tables, Requested, Opened
<1> QED
  BY <1>2, <1>3, <1>4 DEF IdentityInv

LEMMA RevokedKeeps ==
  ASSUME IdentityInv, NEW w \in Revoker, revoked(w)
  PROVE  IdentityInv'
<1> DEFINE id  == revoking[w]
           row == [identity_session[id] EXCEPT !.state = "revoked"]
<1>1. id # Null /\ id \in Challenge /\ Opened(id)
  BY DEF revoked, IdentityInv, CallsHold, TypeOK
<1>2. identity_session[id] \in SessionRow
  BY <1>1 DEF IdentityInv, TypeOK, Opened
<1>3. /\ row \in SessionRow /\ row # Null
      /\ row.phone = identity_session[id].phone
      /\ row.generation = identity_session[id].generation
  <2>1. /\ row \in SessionRow /\ row.phone = identity_session[id].phone
        /\ row.generation = identity_session[id].generation
    BY <1>2 DEF SessionRow
  <2> QED BY <2>1, Policy
<1>4. /\ identity_session' \in {identity_session, [identity_session EXCEPT ![id] = row]}
      /\ revoking' = [revoking EXCEPT ![w] = Null]
      /\ UNCHANGED <<identity_challenge, identity_phone_guard, identity_rate_bucket, generation, log,
                     delivering, now, verifying>>
  BY <1>1 DEF revoked, IdentityInv, TypeOK
<1> HIDE DEF row
<1>5. TypeOK'
  BY <1>3, <1>4 DEF IdentityInv, TypeOK
<1>6. \A c \in Challenge : /\ Opened(c)' <=> Opened(c)
                           /\ identity_session'[c].phone = identity_session[c].phone
                           /\ identity_session'[c].generation = identity_session[c].generation
  <2>1. \A c \in Challenge : \/ identity_session'[c] = identity_session[c]
                             \/ c = id /\ identity_session'[c] = row
    BY <1>1, <1>4 DEF IdentityInv, TypeOK
  <2> QED BY <1>1, <1>3, <2>1 DEF Opened
<1>7. SessionsFit'
  <2>1. \A c \in Challenge : Requested(c)' <=> Requested(c)
    BY <1>4 DEF Requested
  <2> QED BY <1>4, <1>6, <2>1 DEF IdentityInv, SessionsFit
<1>8. CallsHold'
  <2>1. \A u \in Revoker : revoking'[u] # Null => revoking[u] \in Challenge /\ revoking'[u] = revoking[u]
    BY <1>4 DEF IdentityInv, TypeOK
  <2>2. \A u \in Revoker : revoking'[u] # Null => Opened(revoking[u])'
    BY <1>6, <2>1 DEF IdentityInv, CallsHold, Opened
  <2> QED BY <1>4, <2>2 DEF IdentityInv, CallsHold, Requested, Opened
<1> QED
  BY <1>5, <1>7, <1>8 DEF IdentityInv

LEMMA StutterKeeps ==
  ASSUME IdentityInv, UNCHANGED vars PROVE IdentityInv'
BY DEF IdentityInv, TypeOK, SessionsFit, CallsHold, vars, tables, Requested, Opened

LEMMA StepKeeps == IdentityInv /\ [Next]_vars => IdentityInv'
<1> SUFFICES ASSUME IdentityInv, [Next]_vars PROVE IdentityInv'
  OBVIOUS
<1>1. CASE Tick
  BY <1>1, TickKeeps
<1>2. CASE \E id \in Challenge, p \in Phone, ip \in Ip : requestCode(id, p, ip)
  BY <1>2, RequestKeeps
<1>3. CASE \E id \in Challenge : delivered(id) \/ deliveryFails(id)
  BY <1>3, DeliveryKeeps
<1>4. CASE \E v \in Verifier, id \in {c \in Challenge : Requested(c)} \cup {Null},
              matches \in BOOLEAN : verifyCode(v, id, matches)
  BY <1>4, VerifyKeeps
<1>5. CASE \E v \in Verifier, ip \in Ip : limitVerify(v, ip)
  BY <1>5, LimitKeeps
<1>6. CASE \E v \in Verifier : readGuard(v) \/ again(v) \/ readAgain(v) \/ verifyFails(v)
  BY <1>6, GuardKeeps, AgainKeeps, ReadAgainKeeps, FailsKeeps
<1>7. CASE \E v \in Verifier : decide(v)
  BY <1>7, DecideKeeps
<1>8. CASE \E w \in Revoker, id \in Challenge : revoke(w, id)
  BY <1>8, RevokeKeeps
<1>9. CASE \E w \in Revoker : revoked(w)
  BY <1>9, RevokedKeeps
<1>10. CASE UNCHANGED vars
  BY <1>10, StutterKeeps
<1> QED
  BY <1>1, <1>2, <1>3, <1>4, <1>5, <1>6, <1>7, <1>8, <1>9, <1>10 DEF Next

(***************************************************************************)
(* The theorems                                                            *)
(***************************************************************************)

\* The tables of identity and what its calls hold agree, in every state.
THEOREM IdentityInvariant == Spec => []IdentityInv
BY InitInv, StepKeeps, PTL DEF Spec

\* A user has one live session: two of one phone differ in generation, and
\* authenticate accepts the current one only.
THEOREM OneLive == Spec => []OneLiveSession
<1>1. IdentityInv => OneLiveSession
  BY DEF IdentityInv, SessionsFit, OneLiveSession, authenticate
<1> QED
  BY <1>1, IdentityInvariant, PTL

\* A session opens only for an active, unexpired challenge of a phone that is
\* not locked then: the commit looks again at all that was read.
THEOREM OpensLive == Spec => OpensOnlyLive
<1>1. ASSUME IdentityInv, [Next]_vars, NEW id \in Challenge, ~ Opened(id), Opened(id)'
      PROVE  /\ identity_challenge[id].state = "active"
             /\ Valid(id)
             /\ ~ Locked(identity_challenge[id].phone)
  <2>1. ASSUME NEW v \in Verifier, decide(v) PROVE id = verifying[v].id /\ Success(verifying[v])
    BY <1>1, <2>1 DEF decide, Opened, IdentityInv, TypeOK
  <2>2. CASE \E v \in Verifier : decide(v)
    <3>1. PICK v \in Verifier : decide(v)
      BY <2>2
    <3>2. verifying[v].phase = "judged" /\ Unmoved(verifying[v])
      BY <3>1 DEF decide
    <3> QED BY <1>1, <2>1, <3>1, <3>2, Decided
  <2>3. ASSUME UNCHANGED identity_session PROVE FALSE
    BY <1>1, <2>3 DEF Opened
  <2>4. ASSUME NEW w \in Revoker, revoked(w) PROVE FALSE
    <3>1. revoking[w] \in Challenge /\ Opened(revoking[w]) /\ revoking[w] # Null
      BY <1>1, <2>4 DEF revoked, IdentityInv, CallsHold, TypeOK
    <3>2. id # revoking[w]
      BY <1>1, <3>1
    <3> QED BY <1>1, <2>4, <3>1, <3>2 DEF revoked, Opened, IdentityInv, TypeOK
  <2> QED
    BY <1>1, <2>2, <2>3, <2>4
    DEF Next, Tick, requestCode, delivered, deliveryFails, verifyCode, limitVerify, readGuard, again,
        readAgain, verifyFails, revoke, tables, vars
<1>2. IdentityInv /\ [Next]_vars =>
        [\A id \in Challenge :
           ~ Opened(id) /\ Opened(id)'
             => /\ identity_challenge[id].state = "active"
                /\ Valid(id)
                /\ ~ Locked(identity_challenge[id].phone)]_vars
  BY <1>1
<1> QED
  BY <1>2, IdentityInvariant, PTL DEF Spec, OpensOnlyLive

\* A session row only ever goes from active to revoked, the clock and the
\* generation only forward, so a token that has died stays dead.
THEOREM TokensDie == Spec => TokensStayDead
<1>1. ASSUME IdentityInv, [Next]_vars, NEW id \in Challenge, Opened(id)
      PROVE  /\ identity_session'[id].phone = identity_session[id].phone
             /\ identity_session'[id].generation = identity_session[id].generation
             /\ identity_session'[id].expires_at = identity_session[id].expires_at
             /\ identity_session[id].state = "revoked" => identity_session'[id].state = "revoked"
  <2>1. identity_session[id] \in SessionRow
    BY <1>1 DEF IdentityInv, TypeOK, Opened
  <2>2. CASE UNCHANGED identity_session
    BY <2>2
  <2>3. ASSUME NEW v \in Verifier, decide(v), ~ UNCHANGED identity_session
        PROVE  identity_session'[id] = identity_session[id]
    <3>1. identity_challenge[verifying[v].id].state = "active" /\ verifying[v].id \in Challenge
      BY <1>1, <2>3, Decided DEF decide
    <3>2. id # verifying[v].id
      BY <1>1, <3>1 DEF IdentityInv, SessionsFit
    <3> QED BY <1>1, <2>3, <3>2 DEF decide, IdentityInv, TypeOK
  <2>4. ASSUME NEW w \in Revoker, revoked(w)
        PROVE  identity_session'[id] \in
                 {identity_session[id], [identity_session[id] EXCEPT !.state = "revoked"]}
    BY <1>1, <2>4 DEF revoked, IdentityInv, TypeOK
  <2>5. CASE \E v \in Verifier : decide(v)
    BY <2>2, <2>3, <2>5
  <2>6. CASE \E w \in Revoker : revoked(w)
    BY <2>1, <2>4, <2>6 DEF SessionRow
  <2> QED
    BY <1>1, <2>2, <2>5, <2>6
    DEF Next, Tick, requestCode, delivered, deliveryFails, verifyCode, limitVerify, readGuard, again,
        readAgain, verifyFails, revoke, tables, vars
<1>2. ASSUME IdentityInv, [Next]_vars
      PROVE  now <= now' /\ \A p \in Phone : generation[p] <= generation'[p]
  <2>1. now \in Nat /\ generation \in [Phone -> Nat]
    BY <1>2 DEF IdentityInv, TypeOK, Time
  <2>2. CASE Tick
    BY <2>1, <2>2 DEF Tick, tables
  <2>3. ASSUME NEW v \in Verifier, decide(v)
        PROVE  UNCHANGED now /\ \A p \in Phone : generation[p] <= generation'[p]
    <3>1. PICK p : p = identity_challenge[verifying[v].id].phone
      OBVIOUS
    <3>2. p \in Phone
      BY <1>2, <2>3, <3>1, Decided DEF decide
    <3>3. \/ generation' = [generation EXCEPT ![p] = generation[p] + 1]
          \/ generation' = generation
      BY <2>3, <3>1 DEF decide, nextGeneration
    <3>4. UNCHANGED now
      BY <2>3 DEF decide
    <3>5. \A q \in Phone : generation'[q] \in {generation[q], generation[q] + 1}
      BY <2>1, <3>2, <3>3
    <3> QED BY <2>1, <3>4, <3>5
  <2>4. CASE \E v \in Verifier : decide(v)
    BY <2>1, <2>3, <2>4
  <2>5. CASE UNCHANGED <<now, generation>>
    BY <2>1, <2>5
  <2> QED
    BY <1>2, <2>2, <2>4, <2>5
    DEF Next, requestCode, delivered, deliveryFails, verifyCode, limitVerify, readGuard, again,
        readAgain, verifyFails, revoke, revoked, tables, vars
<1>3. ASSUME IdentityInv, IdentityInv', [Next]_vars, NEW id \in Challenge, Opened(id), ~ authenticate(id)
      PROVE  ~ authenticate(id)'
  <2>1. PICK p \in Phone, g \in Nat, t \in Nat :
          /\ p = identity_session[id].phone /\ g = identity_session[id].generation
          /\ t = identity_session[id].expires_at /\ identity_session[id].state \in {"active", "revoked"}
    BY <1>3 DEF IdentityInv, TypeOK, Opened, SessionRow, Time
  <2>2. /\ p = identity_session'[id].phone /\ g = identity_session'[id].generation
        /\ t = identity_session'[id].expires_at
        /\ identity_session[id].state = "revoked" => identity_session'[id].state = "revoked"
    BY <1>1, <1>3, <2>1
  <2>3. /\ now \in Nat /\ now' \in Nat /\ generation[p] \in Nat /\ generation'[p] \in Nat
        /\ now <= now' /\ generation[p] <= generation'[p] /\ g <= generation[p]
    BY <1>2, <1>3, <2>1 DEF IdentityInv, TypeOK, SessionsFit, Time
  <2>4. \/ identity_session[id].state = "revoked" \/ g < generation[p] \/ t <= now
    BY <1>3, <2>1, <2>3 DEF authenticate
  <2>5. \/ identity_session'[id].state = "revoked" \/ g < generation'[p] \/ t <= now'
    BY <2>2, <2>3, <2>4
  <2> QED BY <2>2, <2>3, <2>5 DEF authenticate
<1>4. IdentityInv /\ IdentityInv' /\ [Next]_vars =>
        [\A id \in Challenge : Opened(id) /\ ~ authenticate(id) => ~ authenticate(id)']_vars
  BY <1>3
<1> QED
  BY <1>4, IdentityInvariant, PTL DEF Spec, TokensStayDead

(***************************************************************************)
(* How many wrong codes there can be.                                      *)
(***************************************************************************)

\* A set of naturals that is bounded and not empty has a greatest element.
LEMMA Greatest ==
  ASSUME NEW T, T \subseteq Nat, T # {}, NEW n \in Nat, \A m \in T : m <= n
  PROVE  \E k \in T : \A m \in T : k >= m
<1> DEFINE U == {n - m : m \in T}
<1>1. IsWellFoundedOn(OpToRel(<, Nat), Nat)
  BY NatLessThanWellFounded
<1>2. U \subseteq Nat /\ U # {}
  <2>1. ASSUME NEW m \in T PROVE n - m \in Nat
    <3>1. m \in Nat /\ m <= n
      OBVIOUS
    <3> QED BY <3>1
  <2>2. PICK m \in T : TRUE
    OBVIOUS
  <2>3. n - m \in U
    OBVIOUS
  <2> QED BY <2>1, <2>3
<1>3. PICK u \in U : \A w \in U : ~ (<<w, u>> \in OpToRel(<, Nat))
  <2> HIDE DEF U
  <2> QED BY <1>1, <1>2, WFMin, Zenon
<1>4. PICK k \in T : u = n - k
  OBVIOUS
<1>5. ASSUME NEW m \in T PROVE k >= m
  <2>1. n - m \in U /\ n - m \in Nat /\ u \in Nat
    BY <1>2
  <2>2. ~ (n - m < u)
    BY <1>3, <2>1 DEF OpToRel
  <2> QED BY <1>4, <2>1, <2>2
<1> QED
  BY <1>5

LastSuccess(l) ==
  LET successes == {i \in DOMAIN l : l[i] = "verified"}
  IN  IF successes = {} THEN 0 ELSE Max(successes)

LEMMA LastSuccessIsInTheLog ==
  ASSUME NEW l \in Seq(Verdict)
  PROVE  /\ LastSuccess(l) \in 0 .. Len(l)
         /\ SinceSuccess(l) = SubSeq(l, LastSuccess(l) + 1, Len(l))
<1> DEFINE successes == {i \in DOMAIN l : l[i] = "verified"}
<1>1. DOMAIN l = 1 .. Len(l) /\ Len(l) \in Nat
  OBVIOUS
<1>2. successes # {} => Max(successes) \in successes
  <2> SUFFICES ASSUME successes # {} PROVE Max(successes) \in successes
    OBVIOUS
  <2>1. successes \subseteq Nat /\ \A m \in successes : m <= Len(l)
    BY <1>1
  <2> HIDE DEF successes
  <2>2. \E k \in successes : \A m \in successes : k >= m
    BY <1>1, <2>1, Greatest
  <2> QED BY <2>2 DEF Max
<1>3. LastSuccess(l) \in 0 .. Len(l)
  BY <1>1, <1>2 DEF LastSuccess
<1> QED
  BY <1>3 DEF SinceSuccess, LastSuccess

\* After a success nothing has been said.
LEMMA SuccessIsLast ==
  ASSUME NEW l \in Seq(Verdict)
  PROVE  Guesses(Append(l, "verified")) = 0
<1> DEFINE m == Append(l, "verified")
           successes == {i \in DOMAIN m : m[i] = "verified"}
<1>1. /\ m \in Seq(Verdict) /\ Len(m) = Len(l) + 1 /\ m[Len(m)] = "verified"
      /\ DOMAIN m = 1 .. Len(m) /\ Len(m) \in Nat
  BY DEF Verdict
<1> HIDE DEF m
<1>2. Len(m) \in successes /\ \A i \in successes : i \in Nat /\ Len(m) >= i
  BY <1>1
<1>3. Max(successes) = Len(m)
  <2> HIDE DEF successes
  <2> QED BY <1>1, <1>2 DEF Max
<1>4. LastSuccess(m) = Len(m)
  BY <1>2, <1>3 DEF LastSuccess
<1>5. SinceSuccess(m) = SubSeq(m, Len(m) + 1, Len(m))
  BY <1>1, <1>4, LastSuccessIsInTheLog
<1>6. Len(SinceSuccess(m)) = 0 /\ DOMAIN SinceSuccess(m) = {}
  BY <1>1, <1>5
<1>7. {i \in DOMAIN SinceSuccess(m) : SinceSuccess(m)[i] = "verification_failed"} = {}
  BY <1>6
<1> QED
  BY <1>7, FS_EmptySet DEF Guesses, m

\* Anything else is one more word since the last success.
LEMMA OneMoreWord ==
  ASSUME NEW l \in Seq(Verdict), NEW word \in Verdict, word # "verified"
  PROVE  /\ SinceSuccess(l) \in Seq(Verdict)
         /\ SinceSuccess(Append(l, word)) = Append(SinceSuccess(l), word)
<1> DEFINE m == Append(l, word)
<1>1. /\ m \in Seq(Verdict) /\ Len(m) = Len(l) + 1 /\ m[Len(m)] = word
      /\ DOMAIN m = DOMAIN l \cup {Len(m)} /\ Len(l) \in Nat
      /\ \A i \in DOMAIN l : m[i] = l[i]
      /\ DOMAIN l = 1 .. Len(l)
  OBVIOUS
<1> HIDE DEF m
<1>2. {i \in DOMAIN m : m[i] = "verified"} = {i \in DOMAIN l : l[i] = "verified"}
  BY <1>1
<1>3. LastSuccess(m) = LastSuccess(l)
  BY <1>2 DEF LastSuccess
<1>4. PICK n \in 0 .. Len(l) : n = LastSuccess(l)
  BY LastSuccessIsInTheLog
<1>5. SinceSuccess(l) = SubSeq(l, n + 1, Len(l)) /\ SinceSuccess(m) = SubSeq(m, n + 1, Len(l) + 1)
  BY <1>1, <1>3, <1>4, LastSuccessIsInTheLog
<1>6. SubSeq(l, n + 1, Len(l)) \in Seq(Verdict)
  BY <1>1, <1>4
<1>7. SubSeq(m, n + 1, Len(l) + 1) = Append(SubSeq(l, n + 1, Len(l)), word)
  BY <1>1, <1>4
<1> QED
  BY <1>5, <1>6, <1>7 DEF m

LEMMA GuessesGrow ==
  ASSUME NEW l \in Seq(Verdict), NEW word \in Verdict, word # "verified"
  PROVE  /\ Guesses(l) \in Nat
         /\ Guesses(Append(l, word)) = IF word = "verification_failed" THEN Guesses(l) + 1
                                       ELSE Guesses(l)
<1> DEFINE s == SinceSuccess(l)
           t == Append(s, word)
           wrong(u) == {i \in DOMAIN u : u[i] = "verification_failed"}
<1>1. s \in Seq(Verdict) /\ SinceSuccess(Append(l, word)) = t
  BY OneMoreWord
<1> HIDE DEF s
<1>2. /\ DOMAIN s = 1 .. Len(s) /\ Len(s) \in Nat
      /\ DOMAIN t = DOMAIN s \cup {Len(s) + 1} /\ t[Len(s) + 1] = word
      /\ \A i \in DOMAIN s : t[i] = s[i]
  BY <1>1
<1>3. IsFiniteSet(wrong(s))
  <2>1. IsFiniteSet(1 .. Len(s))
    BY <1>2, FS_Interval
  <2> QED BY <1>2, <2>1, FS_Subset
<1>4. Cardinality(wrong(s)) \in Nat
  BY <1>3, FS_CardinalityType
<1>5. Len(s) + 1 \notin wrong(s)
  BY <1>2
<1>6. wrong(t) = IF word = "verification_failed" THEN wrong(s) \cup {Len(s) + 1} ELSE wrong(s)
  <2> HIDE DEF t
  <2> QED BY <1>2
<1>7. Guesses(l) = Cardinality(wrong(s)) /\ Guesses(Append(l, word)) = Cardinality(wrong(t))
  BY <1>1 DEF Guesses, s
<1> HIDE DEF t, wrong
<1>8. Cardinality(wrong(s) \cup {Len(s) + 1}) = Cardinality(wrong(s)) + 1
  BY <1>3, <1>5, FS_AddElement
<1> QED
  BY <1>4, <1>6, <1>7, <1>8

\* No other table changes with the logs and the guards, and only decide touches
\* them: a wrong code is counted before it can leave a challenge open.
LEMMA DecideCounts ==
  ASSUME GuessesInv, NEW v \in Verifier, decide(v)
  PROVE  GuardCounts' /\ GuessesAreBounded'
<1>a. PICK k : k = verifying[v]
  OBVIOUS
<1>b. PICK p : p = identity_challenge[k.id].phone
  OBVIOUS
<1>1. /\ IdentityInv /\ k.phase = "judged" /\ Unmoved(k)
      /\ maxFailures \in Nat \ {0}
  BY <1>a, Policy DEF decide, GuessesInv
<1>2. /\ k \in Verification /\ k.candidate \in Reading /\ p \in Phone
  BY <1>1, <1>a, <1>b, Decided
<1>3. /\ log' = [log EXCEPT ![p] = Append(log[p], Action(To(k)))]
      /\ identity_phone_guard' = [identity_phone_guard EXCEPT
           ![p] = IF Success(k) THEN NoFailures ELSE Failure(identity_phone_guard[p], To(k))]
  BY <1>2, <1>a, <1>b DEF decide, IdentityInv, TypeOK
<1>4. /\ log \in [Phone -> Seq(Verdict)] /\ identity_phone_guard \in [Phone -> GuardRow]
  BY <1>1 DEF IdentityInv, TypeOK
<1>5. PICK n \in Nat : n = identity_phone_guard[p].failures
  BY <1>2, <1>4 DEF GuardRow
<1>6. n = k.guard.failures
  BY <1>1, <1>b, <1>5 DEF Unmoved, guardRead
<1>7. Guesses(log[p]) <= n
  BY <1>2, <1>5 DEF GuessesInv, GuardCounts
<1>8. Guesses(log[p]) < maxFailures
  BY <1>2 DEF GuessesInv, GuessesAreBounded
<1>9. \A q \in Phone : q # p => log'[q] = log[q] /\ identity_phone_guard'[q] = identity_phone_guard[q]
  BY <1>2, <1>3, <1>4
<1>10. CASE Success(k)
  <2>1. Action(To(k)) = "verified"
    BY <1>2, <1>10, UsedBySuccess DEF Action
  <2>2. log'[p] = Append(log[p], "verified") /\ identity_phone_guard'[p].failures = 0
    BY <1>2, <1>3, <1>4, <1>10, <2>1 DEF NoFailures
  <2>3. Guesses(log'[p]) = 0
    BY <1>2, <1>4, <2>2, SuccessIsLast
  <2>4. Guesses(log'[p]) <= identity_phone_guard'[p].failures /\ Guesses(log'[p]) < maxFailures
    BY <1>1, <2>2, <2>3
  <2> QED BY <1>1, <1>9, <2>4 DEF GuessesInv, GuardCounts, GuessesAreBounded
<1>11. CASE ~ Success(k)
  <2>1. PICK word : word = Action(To(k))
    OBVIOUS
  <2>2. word \in Verdict /\ word # "verified"
    <3>1. To(k) # "used" /\ To(k) \in ChallengeState /\ Action(To(k)) \in Verdict
      BY <1>2, <1>11, UsedBySuccess
    <3> QED BY <3>1, <2>1 DEF Action, ChallengeState
  <2>3. log'[p] = Append(log[p], word) /\ identity_phone_guard'[p].failures = n + 1
    BY <1>2, <1>3, <1>4, <1>5, <1>11, <2>1 DEF Failure
  <2>4. /\ Guesses(log[p]) \in Nat
        /\ Guesses(log'[p]) = IF word = "verification_failed" THEN Guesses(log[p]) + 1
                              ELSE Guesses(log[p])
    BY <1>2, <1>4, <2>2, <2>3, GuessesGrow
  <2>5. word = "verification_failed" => n + 1 < maxFailures
    <3> SUFFICES ASSUME word = "verification_failed" PROVE n + 1 < maxFailures
      OBVIOUS
    <3>1. To(k) = "active"
      <4>1. To(k) \in {"expired", "locked", "used", "active"}
        BY DEF To
      <4> QED BY <4>1, <2>1 DEF Action
    <3>2. ~ (k.guard.failures + 1 >= maxFailures)
      BY <1>11, <3>1 DEF To
    <3> QED BY <1>1, <1>5, <1>6, <3>2
  <2>6. Guesses(log'[p]) <= identity_phone_guard'[p].failures /\ Guesses(log'[p]) < maxFailures
    BY <1>1, <1>5, <1>7, <1>8, <2>3, <2>4, <2>5
  <2> QED BY <1>1, <1>9, <2>6 DEF GuessesInv, GuardCounts, GuessesAreBounded
<1> QED BY <1>10, <1>11

LEMMA InitGuesses == Init => GuessesInv
<1> SUFFICES ASSUME Init PROVE GuessesInv
  OBVIOUS
<1>1. Guesses(<<>>) = 0
  <2> DEFINE l == <<>>
  <2>1. l \in Seq(Verdict) /\ Len(l) = 0 /\ l = <<>>
    OBVIOUS
  <2> HIDE DEF l
  <2>5. /\ LastSuccess(l) \in 0 .. Len(l)
        /\ SinceSuccess(l) = SubSeq(l, LastSuccess(l) + 1, Len(l))
    BY <2>1, LastSuccessIsInTheLog
  <2>2. PICK n \in Nat : n = LastSuccess(l) /\ SinceSuccess(l) = SubSeq(l, n + 1, Len(l))
    BY <2>1, <2>5
  <2>3. Len(SinceSuccess(l)) = 0 /\ SinceSuccess(l) \in Seq(Verdict)
    BY <2>1, <2>2
  <2>4. DOMAIN SinceSuccess(<<>>) = {}
    BY <2>1, <2>3
  <2>6. {i \in DOMAIN SinceSuccess(<<>>) : SinceSuccess(<<>>)[i] = "verification_failed"} = {}
    BY <2>4
  <2> QED BY <2>6, FS_EmptySet DEF Guesses
<1>2. \A p \in Phone : Guesses(log[p]) = 0 /\ identity_phone_guard[p].failures = 0
  BY <1>1 DEF Init
<1>3. maxFailures \in Nat \ {0}
  BY Policy
<1> QED
  BY <1>2, <1>3, InitInv DEF GuessesInv, GuardCounts, GuessesAreBounded

LEMMA StepKeepsGuesses == GuessesInv /\ [Next]_vars => GuessesInv'
<1> SUFFICES ASSUME GuessesInv, [Next]_vars PROVE GuessesInv'
  OBVIOUS
<1>1. IdentityInv'
  BY StepKeeps DEF GuessesInv
<1>2. CASE \E v \in Verifier : decide(v)
  BY <1>1, <1>2, DecideCounts DEF GuessesInv
<1>3. CASE UNCHANGED <<log, identity_phone_guard>>
  BY <1>1, <1>3 DEF GuessesInv, GuardCounts, GuessesAreBounded
<1>4. (\E v \in Verifier : decide(v)) \/ UNCHANGED <<log, identity_phone_guard>>
  BY DEF Next, vars, tables, Tick, requestCode, delivered, deliveryFails, verifyCode, limitVerify,
         readGuard, again, readAgain, verifyFails, revoke, revoked
<1> QED
  BY <1>2, <1>3, <1>4

\* However many calls of verifyCode guess at once, at however many challenges of a
\* phone, fewer than maxFailures wrong codes since the last success leave a
\* challenge open: each was counted by the guard, in the transaction that checked
\* that the guard had not moved.
THEOREM GuessesBounded == Spec => []GuessesAreBounded
<1>1. GuessesInv => GuessesAreBounded
  BY DEF GuessesInv
<1> QED
  BY <1>1, InitGuesses, StepKeepsGuesses, PTL DEF Spec
=============================================================================
