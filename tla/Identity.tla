------------------------------ MODULE Identity ------------------------------
(***************************************************************************)
(* Sign-in by a code sent to a phone (identity/service.ts,                 *)
(* db/migrations/0008_identity.sql): requestCode, verifyCode, authenticate *)
(* and revoke.                                                             *)
(*                                                                         *)
(* verifyCode reads the challenge and then, up to MaxAttempts times, the   *)
(* guard of the phone, both with the pool.  It decides from these readings *)
(* how the challenge ends, and in a SERIALIZABLE transaction checks that   *)
(* they still hold and writes the challenge, the guard, and on success the *)
(* generation of the user and a session.  When they do not hold any more   *)
(* it reads again.  Several verifications, of one challenge or of several  *)
(* challenges of one phone, go on at once.                                 *)
(*                                                                         *)
(* A phone stands for its user, whom findOrCreateUserByPhone makes once.   *)
(* The rows of identity_security_event, which nothing reads, and the       *)
(* audit rows of requestCode and revoke are left out.                      *)
(***************************************************************************)
EXTENDS SequencesExt, FiniteSetsExt, Naturals

CONSTANTS
  Phone, Ip,
  Challenge,     \* challenge ids
  Verifier,      \* calls of verifyCode
  Revoker,       \* calls of revoke
  Null,          \* no row, SQL null, an id that was never given out
  MaxAttempts,   \* attempts of one verifyCode to find its readings unmoved
  maxFailures, codeTtl, sessionTtl, lockout, window,         \* IdentityPolicy
  requestPerPhone, requestPerIp, verifyPerPhone, verifyPerIp,
  maxHits,       \* bound: requests that count in one window
  maxNow         \* bound: the clock stops here

ASSUME IdentityAssumption ==
  /\ {MaxAttempts, maxFailures, codeTtl, sessionTtl, lockout, window, requestPerPhone,
      requestPerIp, verifyPerPhone, verifyPerIp} \subseteq Nat \ {0}
  /\ {maxHits, maxNow} \subseteq Nat
  /\ Null \notin Phone \cup Challenge \cup Ip

VARIABLES
  identity_challenge,     \* by id
  identity_phone_guard,   \* by phone; a phone without a row has no failures
  identity_rate_bucket,   \* by kind of call and by phone, unknown id or IP
  generation,             \* identity_principal, 0 without a row
  identity_session,       \* by challenge_id, which is unique
  log,                    \* by phone, the actions of the audit rows verifyCode writes
  delivering,             \* challenges whose code is with the provider
  now,                    \* the clock of the database
  verifying, revoking     \* what each call holds

tables == <<identity_challenge, identity_phone_guard, identity_rate_bucket, generation,
            identity_session, log>>
vars   == <<tables, delivering, now, verifying, revoking>>

Time == Nat

ChallengeState == {"active", "used", "locked", "expired", "delivery_failed"}
ChallengeRow   == [phone : Phone, state : ChallengeState, failures : Nat, expires_at : Time]
GuardRow       == [failures : Nat, locked_until : Time]    \* 0 for null
SessionRow     == [phone : Phone, generation : Nat \ {0}, state : {"active", "revoked"},
                   expires_at : Time]
Verdict        == {"verified", "locked", "expired", "verification_failed"}

Bucket == ({"request"} \X (Phone \cup Ip)) \cup ({"verify"} \X (Phone \cup {Null} \cup Ip))

Valid(id)  == now < identity_challenge[id].expires_at
Locked(p)  == now < identity_phone_guard[p].locked_until

\* What a verification has read of its challenge, and of the guard.
Reading == [state : ChallengeState, failures : Nat, valid : BOOLEAN]
Guarded == [locked : BOOLEAN, failures : Nat]

challengeRead(id) ==
  IF id = Null THEN Null
  ELSE [state    |-> identity_challenge[id].state,
        failures |-> identity_challenge[id].failures,
        valid    |-> Valid(id)]
guardRead(p)      == [locked |-> Locked(p), failures |-> identity_phone_guard[p].failures]

ASSUME NullAssumption == Null \notin ChallengeRow \cup SessionRow \cup Reading

Unread == [locked |-> FALSE, failures |-> 0]

Verification ==
  [phase : {"limiting", "looking", "judged", "stale"}, id : Challenge \cup {Null},
   matches : BOOLEAN, candidate : Reading \cup {Null}, guard : Guarded, attempt : 1 .. MaxAttempts]
Ended == [phase : {"issued", "denied", "limited", "unavailable"}]
Idle  == [phase |-> "idle"]
End(answer) == [phase |-> answer]

TypeOK ==
  /\ identity_challenge \in [Challenge -> ChallengeRow \cup {Null}]
  /\ identity_phone_guard \in [Phone -> GuardRow]
  /\ identity_rate_bucket \in [Bucket -> [hits : Nat, window_start : Time]]
  /\ generation \in [Phone -> Nat]
  /\ identity_session \in [Challenge -> SessionRow \cup {Null}]
  /\ log \in [Phone -> Seq(Verdict)]
  /\ delivering \subseteq Challenge
  /\ now \in Time
  /\ verifying \in [Verifier -> Verification \cup Ended \cup {Idle}]
  /\ revoking \in [Revoker -> Challenge \cup {Null}]

Init ==
  /\ identity_challenge = [id \in Challenge |-> Null]
  /\ identity_phone_guard = [p \in Phone |-> [failures |-> 0, locked_until |-> 0]]
  /\ identity_rate_bucket = [b \in Bucket |-> [hits |-> 0, window_start |-> 0]]
  /\ generation = [p \in Phone |-> 0]
  /\ identity_session = [id \in Challenge |-> Null]
  /\ log = [p \in Phone |-> <<>>]
  /\ delivering = {}
  /\ now = 0
  /\ verifying = [v \in Verifier |-> Idle]
  /\ revoking = [w \in Revoker |-> Null]

Requested(id) == identity_challenge[id] # Null
Opened(id)    == identity_session[id] # Null

Tick ==
  /\ now < maxNow
  /\ now' = now + 1
  /\ UNCHANGED <<tables, delivering, verifying, revoking>>

(***************************************************************************)
(* Buckets and codes.                                                      *)
(***************************************************************************)

\* A hit on a bucket: in a window that has run out it starts a new one.
Hit(b) ==
  LET old == identity_rate_bucket[b]
  IN  IF old.hits = 0 \/ old.window_start + window <= now
        THEN [hits |-> 1, window_start |-> now]
        ELSE [old EXCEPT !.hits = @ + 1]

\* One transaction that hits both buckets of a call, whatever it decides.
limit(kind, who, ip) ==
  identity_rate_bucket' = [b \in Bucket |-> IF b \in {<<kind, who>>, <<kind, ip>>}
                                              THEN Hit(b) ELSE identity_rate_bucket[b]]

allowed(kind, who, ip, whoMax, ipMax) ==
  /\ identity_rate_bucket'[<<kind, who>>].hits <= whoMax
  /\ identity_rate_bucket'[<<kind, ip>>].hits <= ipMax

\* The limit, and when it allows the insert of the challenge, whose code then
\* goes to the provider.  The two transactions touch different tables, and
\* are one step of one moment; a process that dies between them leaves the
\* hits.
requestCode(id, p, ip) ==
  /\ ~ Requested(id)
  /\ Hit(<<"request", p>>).hits <= maxHits
  /\ limit("request", p, ip)
  /\ \/ UNCHANGED <<identity_challenge, delivering>>
     \/ /\ allowed("request", p, ip, requestPerPhone, requestPerIp)
        /\ identity_challenge' = [identity_challenge EXCEPT
             ![id] = [phone |-> p, state |-> "active", failures |-> 0,
                      expires_at |-> now + codeTtl]]
        /\ delivering' = delivering \cup {id}
  /\ UNCHANGED <<identity_phone_guard, generation, identity_session, log, now, verifying,
                 revoking>>

delivered(id) ==
  /\ id \in delivering
  /\ delivering' = delivering \ {id}
  /\ UNCHANGED <<tables, now, verifying, revoking>>

\* The provider reports a failure, which does not mean that the code has not
\* arrived.
deliveryFails(id) ==
  /\ id \in delivering
  /\ delivering' = delivering \ {id}
  /\ identity_challenge' = [identity_challenge EXCEPT
       ![id].state = IF @ = "active" THEN "delivery_failed" ELSE @]
  /\ UNCHANGED <<identity_phone_guard, identity_rate_bucket, generation, identity_session, log,
                 now, verifying, revoking>>

(***************************************************************************)
(* verifyCode                                                              *)
(***************************************************************************)

\* The first reading.
verifyCode(v, id, matches) ==
  /\ verifying[v] = Idle
  /\ verifying' = [verifying EXCEPT
       ![v] = [phase |-> "limiting", id |-> id, matches |-> matches,
               candidate |-> challengeRead(id), guard |-> Unread, attempt |-> 1]]
  /\ UNCHANGED <<tables, delivering, now, revoking>>

\* A candidate that is missing or no longer active is denied.
Look(k) ==
  IF k.candidate = Null THEN End("denied")
  ELSE IF k.candidate.state # "active" THEN End("denied")
  ELSE [k EXCEPT !.phase = "looking"]

\* The limit.  An id that was never given out has a bucket of its own.
limitVerify(v, ip) ==
  /\ verifying[v].phase = "limiting"
  /\ LET k   == verifying[v]
         who == IF k.candidate = Null THEN k.id ELSE identity_challenge[k.id].phone
     IN  /\ limit("verify", who, ip)
         /\ verifying' = [verifying EXCEPT ![v] =
              IF allowed("verify", who, ip, verifyPerPhone, verifyPerIp)
                THEN Look(k) ELSE End("limited")]
  /\ UNCHANGED <<identity_challenge, identity_phone_guard, generation, identity_session, log,
                 delivering, now, revoking>>

\* The guard is read with the pool.
readGuard(v) ==
  /\ verifying[v].phase = "looking"
  /\ verifying' = [verifying EXCEPT
       ![v].phase = "judged",
       ![v].guard = guardRead(identity_challenge[verifying[v].id].phone)]
  /\ UNCHANGED <<tables, delivering, now, revoking>>

Success(k) == k.matches /\ k.candidate.valid /\ ~ k.guard.locked

\* How the challenge ends, or stays active after a wrong code.
To(k) ==
  IF ~ k.candidate.valid THEN "expired"
  ELSE IF k.guard.locked \/ (~ Success(k) /\ k.guard.failures + 1 >= maxFailures) THEN "locked"
  ELSE IF Success(k) THEN "used"
  ELSE "active"

Action(to) ==
  CASE to = "used"    -> "verified"
    [] to = "active"  -> "verification_failed"
    [] OTHER          -> to

\* Bug: only the challenge is looked at again in the transaction.
ChallengeUnmoved(k) == challengeRead(k.id) = k.candidate /\ k.candidate.state = "active"

\* Both readings still hold: the guard's row is locked and compared, and the
\* UPDATE of the challenge names its state, its failures and whether it is valid.
Unmoved(k) ==
  /\ guardRead(identity_challenge[k.id].phone) = k.guard
  /\ challengeRead(k.id) = k.candidate
  /\ k.candidate.state = "active"

\* The guard after a failure, and after a success.
Failure(guard, to) ==
  [failures     |-> guard.failures + 1,
   locked_until |-> IF to = "locked" THEN now + lockout ELSE guard.locked_until]

NoFailures == [failures |-> 0, locked_until |-> 0]

\* Bug: a user keeps the generation of the first session.
FirstGeneration(p) == 1

\* insert ... on conflict do update set generation = generation + 1.
nextGeneration(p) == generation[p] + 1

\* The transaction commits: the challenge, its audit row, the guard, and on
\* success the generation and the session.
decide(v) ==
  /\ verifying[v].phase = "judged"
  /\ Unmoved(verifying[v])
  /\ LET k  == verifying[v]
         p  == identity_challenge[k.id].phone
         to == To(k)
     IN  /\ identity_challenge' = [identity_challenge EXCEPT
              ![k.id].state = to, ![k.id].failures = IF Success(k) THEN @ ELSE @ + 1]
         /\ log' = [log EXCEPT ![p] = Append(@, Action(to))]
         /\ identity_phone_guard' = [identity_phone_guard EXCEPT
              ![p] = IF Success(k) THEN NoFailures ELSE Failure(@, to)]
         /\ IF Success(k)
              THEN /\ generation' = [generation EXCEPT ![p] = nextGeneration(p)]
                   /\ identity_session' = [identity_session EXCEPT
                        ![k.id] = [phone |-> p, generation |-> nextGeneration(p),
                                   state |-> "active", expires_at |-> now + sessionTtl]]
              ELSE UNCHANGED <<generation, identity_session>>
         /\ verifying' = [verifying EXCEPT
              ![v] = End(IF Success(k) THEN "issued" ELSE "denied")]
  /\ UNCHANGED <<identity_rate_bucket, delivering, now, revoking>>

\* StaleChallenge: nothing is written, and the loop goes round again.
again(v) ==
  /\ verifying[v].phase = "judged"
  /\ ~ Unmoved(verifying[v])
  /\ LET k == verifying[v]
     IN  verifying' = [verifying EXCEPT ![v] =
           IF k.attempt = MaxAttempts THEN End("unavailable")
           ELSE [k EXCEPT !.phase = "stale", !.attempt = k.attempt + 1]]
  /\ UNCHANGED <<tables, delivering, now, revoking>>

readAgain(v) ==
  /\ verifying[v].phase = "stale"
  /\ LET k == verifying[v]
     IN  verifying' = [verifying EXCEPT ![v] =
           Look([k EXCEPT !.candidate = challengeRead(k.id), !.guard = Unread])]
  /\ UNCHANGED <<tables, delivering, now, revoking>>

\* A connection is lost, or the budget of the retries is spent.
verifyFails(v) ==
  /\ verifying[v].phase \in {"limiting", "looking", "judged", "stale"}
  /\ verifying' = [verifying EXCEPT ![v] = End("unavailable")]
  /\ UNCHANGED <<tables, delivering, now, revoking>>

(***************************************************************************)
(* authenticate and revoke                                                 *)
(***************************************************************************)

\* The token of the session is accepted.
authenticate(id) ==
  /\ Opened(id)
  /\ identity_session[id].state = "active"
  /\ identity_session[id].generation = generation[identity_session[id].phone]
  /\ now < identity_session[id].expires_at

\* The token is checked, and the session it names is to be revoked.
revoke(w, id) ==
  /\ revoking[w] = Null
  /\ authenticate(id)
  /\ revoking' = [revoking EXCEPT ![w] = id]
  /\ UNCHANGED <<tables, delivering, now, verifying>>

\* Bug: signing out gives the generation back.
RevokeStepsBack(w) ==
  /\ revoking[w] # Null
  /\ LET id == revoking[w]
         p  == identity_session[id].phone
     IN  IF identity_session[id].state = "active"
           THEN /\ identity_session' = [identity_session EXCEPT ![id].state = "revoked"]
                /\ generation' = [generation EXCEPT ![p] = @ - 1]
           ELSE UNCHANGED <<identity_session, generation>>
  /\ revoking' = [revoking EXCEPT ![w] = Null]
  /\ UNCHANGED <<identity_challenge, identity_phone_guard, identity_rate_bucket, log, delivering,
                 now, verifying>>

\* The UPDATE of an active session, or 401 when another call was first.
revoked(w) ==
  /\ revoking[w] # Null
  /\ LET id == revoking[w]
     IN  IF identity_session[id].state = "active"
           THEN identity_session' = [identity_session EXCEPT ![id].state = "revoked"]
           ELSE UNCHANGED identity_session
  /\ revoking' = [revoking EXCEPT ![w] = Null]
  /\ UNCHANGED <<identity_challenge, identity_phone_guard, identity_rate_bucket, generation, log,
                 delivering, now, verifying>>

Next ==
  \/ Tick
  \/ \E id \in Challenge, p \in Phone, ip \in Ip : requestCode(id, p, ip)
  \/ \E id \in Challenge : delivered(id)
  \/ \E id \in Challenge : deliveryFails(id)
  \/ \E v \in Verifier, id \in {c \in Challenge : Requested(c)} \cup {Null}, matches \in BOOLEAN :
       verifyCode(v, id, matches)
  \/ \E v \in Verifier, ip \in Ip : limitVerify(v, ip)
  \/ \E v \in Verifier : readGuard(v)
  \/ \E v \in Verifier : decide(v)
  \/ \E v \in Verifier : again(v)
  \/ \E v \in Verifier : readAgain(v)
  \/ \E v \in Verifier : verifyFails(v)
  \/ \E w \in Revoker, id \in Challenge : revoke(w, id)
  \/ \E w \in Revoker : revoked(w)

Spec == Init /\ [][Next]_vars

(***************************************************************************)
(* Properties                                                              *)
(***************************************************************************)

\* What a log says after its last success.
SinceSuccess(l) ==
  LET successes == {i \in DOMAIN l : l[i] = "verified"}
      last      == IF successes = {} THEN 0 ELSE Max(successes)
  IN  SubSeq(l, last + 1, Len(l))

\* How often it says since then that a wrong code left a challenge open.
Guesses(l) ==
  Cardinality({i \in DOMAIN SinceSuccess(l) : SinceSuccess(l)[i] = "verification_failed"})

\* A session is opened by a used challenge, for its phone, with a generation
\* of its own that the user has reached.
SessionsFit ==
  /\ \A id \in Challenge : Opened(id) <=> Requested(id) /\ identity_challenge[id].state = "used"
  /\ \A id \in Challenge : Opened(id) =>
       /\ identity_session[id].phone = identity_challenge[id].phone
       /\ identity_session[id].generation <= generation[identity_session[id].phone]
  /\ \A i, j \in Challenge :
       Opened(i) /\ Opened(j) /\ i # j /\ identity_session[i].phone = identity_session[j].phone
         => identity_session[i].generation # identity_session[j].generation

\* What a call holds is of a challenge, or a session, that is there.
CallsHold ==
  /\ \A id \in delivering : Requested(id)
  /\ \A v \in Verifier :
       verifying[v].phase \in {"limiting", "looking", "judged", "stale"} =>
         /\ verifying[v].id = Null <=> verifying[v].candidate = Null
         /\ verifying[v].id = Null => verifying[v].phase = "limiting"
         /\ verifying[v].id # Null => Requested(verifying[v].id)
  /\ \A w \in Revoker : revoking[w] # Null => Opened(revoking[w])

\* The tables agree, and the calls with them: the inductive invariant.
IdentityInv == TypeOK /\ SessionsFit /\ CallsHold

\* However many calls guess at once, at however many challenges of a phone,
\* fewer than maxFailures wrong codes leave a challenge open to another guess.
GuessesAreBounded == \A p \in Phone : Guesses(log[p]) < maxFailures

\* What makes it inductive: the guard of a phone has counted each of them.
GuardCounts == \A p \in Phone : Guesses(log[p]) <= identity_phone_guard[p].failures

GuessesInv == IdentityInv /\ GuardCounts /\ GuessesAreBounded

\* A user has one session at a time: opening a session ends the others.
OneLiveSession ==
  \A i, j \in Challenge :
    authenticate(i) /\ authenticate(j) /\ identity_session[i].phone = identity_session[j].phone
      => i = j

\* When a session opens, its challenge is active and not expired, and its
\* phone is not locked at that moment, whatever was read before.
OpensOnlyLive ==
  [][\A id \in Challenge :
       ~ Opened(id) /\ Opened(id)'
         => /\ identity_challenge[id].state = "active"
            /\ Valid(id)
            /\ ~ Locked(identity_challenge[id].phone)]_vars

\* A token that is no longer accepted, because it expired, was revoked or was
\* superseded by a later session, is never accepted again.
TokensStayDead ==
  [][\A id \in Challenge : Opened(id) /\ ~ authenticate(id) => ~ authenticate(id)']_vars
=============================================================================
