----------------------------- MODULE Invitations -----------------------------
(***************************************************************************)
(* POST /relationships/invite (http/relationships.ts:158-191) over the     *)
(* relationships: the limiter of invitations (http/invite-limit.ts), the   *)
(* user a phone number stands for (relationships/users.ts), the insert.    *)
(*                                                                         *)
(* The three are three transactions, and other calls commit between them:  *)
(* an invitation that is refused in the end has spent its hits, and may    *)
(* leave a user behind whom nobody has invited.                            *)
(***************************************************************************)
EXTENDS Relationships

CONSTANTS
  Invitation,   \* HTTP requests to the invite route
  Ip,           \* addresses they come from
  max,          \* [user |-> maxPerUser, ip |-> maxPerIp]
  windowMs      \* in ticks of the clock

ASSUME InvitationsAssumption ==
  /\ max \in [user : Nat \ {0}, ip : Nat \ {0}]
  /\ windowMs \in Nat \ {0}

VARIABLES
  app_user,     \* by person: the roles of the row; none where there is no row
  bucket,       \* identity_rate_bucket rows of invitations, by what they count
  invitation    \* how far each request has come

invitationVars == <<app_user, bucket, invitation>>

UserRole == {"sender", "recipient"}
Key      == ({"user"} \X Person) \cup ({"ip"} \X Ip)
Bucket   == [window_start : Time, hits : Nat]

ASSUME NullIsNoBucket == Null \notin Bucket

InvitationState ==
  [phase : {"idle"}]
    \cup [phase : {"asked", "permitted", "found", "created", "limited", "refused", "failed"},
          from : Person, to : Person, ip : Ip, at : Time \cup {Null}]

InvitationsTypeOK ==
  /\ TypeOK
  /\ app_user \in [Person -> SUBSET UserRole]
  /\ bucket \in [Key -> Bucket \cup {Null}]
  /\ invitation \in [Invitation -> InvitationState]

InvitationsInit ==
  /\ Init
  /\ app_user = [p \in Person |-> {}]
  /\ bucket = [k \in Key |-> Null]
  /\ invitation = [i \in Invitation |-> [phase |-> "idle"]]

Is(i, phase) == invitation[i].phase = phase

(***************************************************************************)
(* Users.  A person is a phone number, which is unique in app_user.        *)
(***************************************************************************)

\* Bug: the role asked for replaces those there were.
RolesReplaced(p, role) == app_user' = [app_user EXCEPT ![p] = {role}]

\* The row of the number, made or given the role; one transaction, insert
\* first, so that of two first sightings one makes the row and both find it.
findOrCreateUserByPhone(p, role) ==
  app_user' = [app_user EXCEPT ![p] = @ \cup {role}]

\* verifyCode, before it opens a session: whoever proves a number is a sender.
signUp(p) ==
  /\ findOrCreateUserByPhone(p, "sender")
  /\ UNCHANGED <<vars, bucket, invitation>>

(***************************************************************************)
(* The limiter.                                                            *)
(***************************************************************************)

keysOf(i) == {<<"user", invitation[i].from>>, <<"ip", invitation[i].ip>>}

\* No bucket yet, or one whose window is over: the hit opens a new window.
opensWindow(b) == b = Null \/ b.window_start <= now - windowMs

\* Bug: a new window starts with no hits, and the one that opens it is free.
HitFromZero(b) ==
  IF opensWindow(b) THEN [window_start |-> now, hits |-> 0]
  ELSE [b EXCEPT !.hits = @ + 1]

hit(b) ==
  IF opensWindow(b) THEN [window_start |-> now, hits |-> 1]
  ELSE [b EXCEPT !.hits = @ + 1]

allowed(k) == hit(bucket[k]).hits <= max[k[1]]

(***************************************************************************)
(* The request.                                                            *)
(***************************************************************************)

\* Policy "sender": whoever has a session has a user.  To invite one's own
\* number is a 400, before anything is counted.
inviteRoute(i, p, q, ip) ==
  /\ Is(i, "idle")
  /\ "sender" \in app_user[p]
  /\ p # q
  /\ invitation' = [invitation EXCEPT ![i] =
       [phase |-> "asked", from |-> p, to |-> q, ip |-> ip, at |-> Null]]
  /\ UNCHANGED <<vars, app_user, bucket>>

\* Both buckets are hit, also when the first is over its limit, and the hits
\* of a request that is refused are committed.
check(i) ==
  /\ Is(i, "asked")
  /\ bucket' = [k \in Key |-> IF k \in keysOf(i) THEN hit(bucket[k]) ELSE bucket[k]]
  /\ invitation' = [invitation EXCEPT
       ![i].phase = IF \A k \in keysOf(i) : allowed(k) THEN "permitted" ELSE "limited",
       ![i].at = now]
  /\ UNCHANGED <<vars, app_user>>

findRecipient(i) ==
  /\ Is(i, "permitted")
  /\ findOrCreateUserByPhone(invitation[i].to, "recipient")
  /\ invitation' = [invitation EXCEPT ![i].phase = "found"]
  /\ UNCHANGED <<vars, bucket>>

inviteFound(i, r) ==
  /\ Is(i, "found")
  /\ invite(r, invitation[i].from, invitation[i].to)
  /\ invitation' = [invitation EXCEPT ![i].phase = "created"]
  /\ UNCHANGED <<app_user, bucket>>

\* RelationshipAlreadyExistsError, a 409.
alreadyExists(i) ==
  /\ Is(i, "found")
  /\ relationship_one_live_per_pair(invitation[i].from, invitation[i].to)
  /\ invitation' = [invitation EXCEPT ![i].phase = "refused"]
  /\ UNCHANGED <<vars, app_user, bucket>>

\* The database or the process is lost between two transactions.
inviteFails(i) ==
  /\ invitation[i].phase \in {"asked", "permitted", "found"}
  /\ invitation' = [invitation EXCEPT ![i].phase = "failed"]
  /\ UNCHANGED <<vars, app_user, bucket>>

InvitationStep(i) ==
  \/ \E p, q \in Person, ip \in Ip : inviteRoute(i, p, q, ip)
  \/ check(i)
  \/ findRecipient(i)
  \/ \E r \in Rel : inviteFound(i, r)
  \/ alreadyExists(i)
  \/ inviteFails(i)

InvitationsNext ==
  \/ Tick /\ UNCHANGED invitationVars
  \/ \E c \in Call : CallStep(c) /\ UNCHANGED invitationVars
  \/ \E p \in Person : signUp(p)
  \/ \E i \in Invitation : InvitationStep(i)

InvitationsSpec == InvitationsInit /\ [][InvitationsNext]_<<vars, invitationVars>>

(***************************************************************************)
(* Properties.                                                             *)
(***************************************************************************)

\* One number is one user with both roles: whoever is on a side of a
\* relationship, or about to be, has a user with the role of that side, also
\* where each of two people invites the other while they sign up.
SidesHaveTheirRoles ==
  /\ \A r \in Rel : Exists(r) => /\ "sender" \in app_user[relationship[r].user_a]
                                 /\ "recipient" \in app_user[relationship[r].user_b]
  /\ \A i \in Invitation : Is(i, "found") => "recipient" \in app_user[invitation[i].to]

\* Between its steps a request to invite is by somebody who is a sender.
InvitersAreSenders ==
  \A i \in Invitation : ~ Is(i, "idle") => "sender" \in app_user[invitation[i].from]

\* The inductive invariant, with the type invariant and that of Relationships.
InvitationsInv ==
  /\ RelationshipsInv
  /\ InvitationsTypeOK
  /\ SidesHaveTheirRoles
  /\ InvitersAreSenders

\* Whatever the invitations overlap with, no more of one user, and no more from
\* one address, have passed the limiter since the window began than its limit.
permittedOf(k) ==
  {i \in Invitation : /\ invitation[i].phase \notin {"idle", "asked", "limited"}
                      /\ invitation[i].at # Null
                      /\ k \in keysOf(i)}

permittedSince(k) ==
  {i \in permittedOf(k) : invitation[i].at >= bucket[k].window_start}

LimitsHold ==
  \A k \in Key : bucket[k] # Null => Cardinality(permittedSince(k)) <= max[k[1]]

\* What makes it inductive: the hits of a bucket have counted them, and none of
\* them came after its window was over, so that a new window starts with none.
PermittedAreCounted ==
  /\ \A i \in Invitation : Is(i, "asked") => invitation[i].at = Null
  /\ \A k \in Key :
       /\ IsFiniteSet(permittedOf(k))
       /\ \A i \in permittedOf(k) :
            bucket[k] # Null /\ invitation[i].at < bucket[k].window_start + windowMs
       /\ bucket[k] # Null => Cardinality(permittedSince(k)) <= bucket[k].hits

LimitsInv == InvitationsInv /\ PermittedAreCounted /\ LimitsHold
=============================================================================
