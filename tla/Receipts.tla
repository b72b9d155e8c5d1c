------------------------------ MODULE Receipts ------------------------------
(***************************************************************************)
(* How a write route of the HTTP API treats a repeated Idempotency-Key.    *)
(* Two layers stand in front of the domain operation:                      *)
(*                                                                         *)
(*   http/idempotency-http.ts  a map in the memory of each API process,    *)
(*       from the principal's key to the outcome of the response; lost at  *)
(*       a restart, forgotten fifteen minutes after completion;            *)
(*   http/idempotency.ts       a row of http_request_receipt, claimed in a *)
(*       SERIALIZABLE transaction before the operation and completed by an *)
(*       UPDATE after it.  The operation has its own transaction, so three *)
(*       commits make one write and a failure may fall between them.       *)
(*                                                                         *)
(* Key stands for the pair of the principal and its key, Body for the      *)
(* method, route, parameters and body of a write.                          *)
(***************************************************************************)
EXTENDS Sequences, FiniteSets, Naturals

CONSTANTS
  Key, Body,
  Session,     \* values of the Authorization header of one principal
  Process,     \* API processes that share the database
  Call,        \* HTTP requests in flight
  maxEntries,  \* capacity of the map of one process
  None         \* no entry, no receipt, no call

\* 2xx; a 4xx of the operation; a 4xx given without it (the key conflict, a body
\* that does not parse, a role that is missing); 503; 500.
Reply       == {"ok", "refused", "rejected", "unavailable", "failed"}
Fingerprint == [body : Body, session : Session]
Entry       == [fingerprint : Fingerprint, outcome : {"pending"} \cup Reply]
Receipt     == [request_hash : Body, outcome : {"started", "ok", "refused"}]
Phase       == {"idle", "waiting", "admit", "operation", "complete", "answered"}
\* What an operation committed for a body: all that was asked, or part of it.
Write       == [body : Body, whole : BOOLEAN]
Ask         == [process : Process, key : Key, body : Body, session : Session]

ASSUME ReceiptsAssumption ==
  /\ maxEntries \in Nat \ {0}
  /\ None \notin Entry \cup Receipt \cup Ask

VARIABLES
  entries,  \* the map of each process
  receipt,  \* the table http_request_receipt
  applied,  \* for each key, what each run of an operation committed under it
  phase,    \* where each HTTP request is
  ask,      \* what it asks, of which process
  result    \* its answer, and before it the one its operation has given

call == <<phase, ask, result>>
vars == <<entries, receipt, applied, call>>

TypeOK ==
  /\ entries \in [Process -> [Key -> Entry \cup {None}]]
  /\ receipt \in [Key -> Receipt \cup {None}]
  /\ applied \in [Key -> Seq(Write)]
  /\ phase \in [Call -> Phase]
  /\ ask \in [Call -> Ask \cup {None}]
  /\ result \in [Call -> {"none"} \cup Reply]

Init ==
  /\ entries = [p \in Process |-> [k \in Key |-> None]]
  /\ receipt = [k \in Key |-> None]
  /\ applied = [k \in Key |-> <<>>]
  /\ phase = [c \in Call |-> "idle"]
  /\ ask = [c \in Call |-> None]
  /\ result = [c \in Call |-> "none"]

\* The digest of what a call sent.
fingerprintOf(c) == [body |-> ask[c].body, session |-> ask[c].session]

\* The keys the map of a process holds.
Slots(p)   == {k \in Key : entries[p][k] # None}
hasRoom(p) == Cardinality(Slots(p)) < maxEntries

answer(c, reply) ==
  /\ phase' = [phase EXCEPT ![c] = "answered"]
  /\ result' = [result EXCEPT ![c] = reply]
  /\ UNCHANGED ask

\* The response of the owner of an entry leaves: the onSend hook completes it.
respond(c, reply) ==
  /\ answer(c, reply)
  /\ entries' = [entries EXCEPT ![ask[c].process][ask[c].key] =
                   [fingerprint |-> fingerprintOf(c), outcome |-> reply]]

(***************************************************************************)
(* The map of one process.                                                 *)
(***************************************************************************)

\* A request arrives and claims its key in the map: it becomes the owner, or
\* is answered from the map, or waits for the owner.
claim(c, p, k, b, s) ==
  /\ phase[c] = "idle"
  /\ ask' = [ask EXCEPT ![c] = [process |-> p, key |-> k, body |-> b, session |-> s]]
  /\ LET entry == entries[p][k]
         print == [body |-> b, session |-> s]
         Goes(next, reply) == /\ phase' = [phase EXCEPT ![c] = next]
                              /\ result' = [result EXCEPT ![c] = reply]
     IN  \/ /\ entry = None /\ hasRoom(p)
            /\ entries' = [entries EXCEPT ![p][k] = [fingerprint |-> print,
                                                     outcome |-> "pending"]]
            /\ Goes("admit", "none")
         \/ /\ entry = None /\ ~ hasRoom(p)
            /\ Goes("answered", "unavailable")
            /\ UNCHANGED entries
         \/ /\ entry # None /\ entry.fingerprint # print
            /\ Goes("answered", "rejected")
            /\ UNCHANGED entries
         \/ /\ entry # None /\ entry.fingerprint = print /\ entry.outcome = "pending"
            /\ Goes("waiting", "none")
            /\ UNCHANGED entries
         \/ /\ entry # None /\ entry.fingerprint = print /\ entry.outcome # "pending"
            /\ Goes("answered", entry.outcome)
            /\ UNCHANGED entries
  /\ UNCHANGED <<receipt, applied>>

\* A waiter gets the outcome of the owner, or after two seconds a 503.
awaitOwner(c) ==
  /\ phase[c] = "waiting"
  /\ LET entry == entries[ask[c].process][ask[c].key]
     IN  \/ entry.outcome # "pending" /\ answer(c, entry.outcome)
         \/ answer(c, "unavailable")
  /\ UNCHANGED <<entries, receipt, applied>>

\* Fifteen minutes after its completion an entry is forgotten; no request has
\* waited that long for it.
forget(p, k) ==
  /\ entries[p][k] # None
  /\ entries[p][k].outcome # "pending"
  /\ \A c \in Call : ~ (phase[c] = "waiting" /\ ask[c].process = p /\ ask[c].key = k)
  /\ entries' = [entries EXCEPT ![p][k] = None]
  /\ UNCHANGED <<receipt, applied, call>>

(***************************************************************************)
(* The receipt and the operation.                                          *)
(***************************************************************************)

\* Bug: a receipt that is still started is taken for one to carry on with.
AdmitStarted(c) ==
  /\ phase[c] = "admit"
  /\ LET k == ask[c].key
         b == ask[c].body
     IN  \/ /\ receipt[k] # None => receipt[k].outcome = "started"
            /\ receipt' = [receipt EXCEPT ![k] = [request_hash |-> b, outcome |-> "started"]]
            /\ phase' = [phase EXCEPT ![c] = "operation"]
            /\ UNCHANGED <<entries, ask, result>>
         \/ /\ receipt[k] # None /\ receipt[k].outcome # "started"
            /\ respond(c, IF receipt[k].request_hash # b THEN "rejected"
                          ELSE receipt[k].outcome)
            /\ UNCHANGED receipt
  /\ UNCHANGED applied

\* Bug: the hash of the request is not compared.
AdmitAnyBody(c) ==
  /\ phase[c] = "admit"
  /\ LET k == ask[c].key
         b == ask[c].body
     IN  \/ /\ receipt[k] = None
            /\ receipt' = [receipt EXCEPT ![k] = [request_hash |-> b, outcome |-> "started"]]
            /\ phase' = [phase EXCEPT ![c] = "operation"]
            /\ UNCHANGED <<entries, ask, result>>
         \/ /\ receipt[k] # None
            /\ respond(c, IF receipt[k].outcome = "started" THEN "unavailable"
                          ELSE receipt[k].outcome)
            /\ UNCHANGED receipt
  /\ UNCHANGED applied

\* The admission: insert ... on conflict do nothing, and for a key that has a
\* receipt the answer that receipt holds.
admit(c) ==
  /\ phase[c] = "admit"
  /\ LET k == ask[c].key
         b == ask[c].body
     IN  \/ /\ receipt[k] = None
            /\ receipt' = [receipt EXCEPT ![k] = [request_hash |-> b, outcome |-> "started"]]
            /\ phase' = [phase EXCEPT ![c] = "operation"]
            /\ UNCHANGED <<entries, ask, result>>
         \/ /\ receipt[k] # None
            /\ respond(c, IF receipt[k].request_hash # b THEN "rejected"
                          ELSE IF receipt[k].outcome = "started" THEN "unavailable"
                          ELSE receipt[k].outcome)
            /\ UNCHANGED receipt
  /\ UNCHANGED applied

\* The handler refuses before the admission.
reject(c) ==
  /\ phase[c] = "admit"
  /\ respond(c, "rejected")
  /\ UNCHANGED <<receipt, applied>>

\* Bug: an error of the admission is answered past the onSend hook.
AdmissionFailsUnseen(c) ==
  /\ phase[c] = "admit"
  /\ answer(c, "unavailable")
  /\ UNCHANGED <<entries, receipt, applied>>

\* The admission throws: out of retries (503) or a lost connection (500),
\* whose commit may have reached the table.
admissionFails(c) ==
  /\ phase[c] = "admit"
  /\ \/ respond(c, "unavailable") /\ UNCHANGED receipt
     \/ respond(c, "failed") /\ UNCHANGED receipt
     \/ /\ receipt[ask[c].key] = None
        /\ respond(c, "failed")
        /\ receipt' = [receipt EXCEPT ![ask[c].key] =
                         [request_hash |-> ask[c].body, outcome |-> "started"]]
  /\ UNCHANGED applied

\* What an operation commits and how it ends.  Most are one transaction: it
\* commits and returns, refuses with a 4xx, throws with nothing committed (out of
\* retries, no connection), or commits and throws (the read of the result after
\* it, the commit's reply).  An invitation is three: the hits of the limiter and
\* the recipient are committed before the relationship, so what ends in a 429, a
\* 409 or an error may have committed a part.
OperationEnds ==
  {[commits |-> "whole", throws |-> "none"]}
    \cup [commits : {"nothing", "part"}, throws : {"refused"}]
    \cup [commits : {"nothing", "part", "whole"}, throws : {"unavailable"}]

Committed(c, end) ==
  IF end.commits = "nothing" THEN applied
  ELSE [applied EXCEPT ![ask[c].key] =
          Append(@, [body |-> ask[c].body, whole |-> end.commits = "whole"])]

\* Bug: every error of the operation is taken for a definite refusal.
OperationAlwaysDefinite(c) ==
  /\ phase[c] = "operation"
  /\ \E end \in OperationEnds :
       /\ applied' = Committed(c, end)
       /\ phase' = [phase EXCEPT ![c] = "complete"]
       /\ result' = [result EXCEPT ![c] = IF end.throws = "none" THEN "ok" ELSE "refused"]
       /\ UNCHANGED <<entries, receipt, ask>>

\* The operation runs; what is not a definite answer becomes a 503 at once, and
\* the receipt stays started.
operation(c) ==
  /\ phase[c] = "operation"
  /\ \E end \in OperationEnds :
       /\ applied' = Committed(c, end)
       /\ \/ /\ end.throws # "unavailable"
             /\ phase' = [phase EXCEPT ![c] = "complete"]
             /\ result' = [result EXCEPT ![c] = IF end.throws = "none" THEN "ok" ELSE "refused"]
             /\ UNCHANGED <<entries, ask>>
          \/ end.throws = "unavailable" /\ respond(c, "unavailable")
  /\ UNCHANGED receipt

\* update http_request_receipt ... where scope_hash and state = 'started'.
Completed(c) ==
  LET k == ask[c].key
  IN  IF receipt[k] # None /\ receipt[k].outcome = "started"
      THEN [receipt EXCEPT ![k] = [request_hash |-> @.request_hash, outcome |-> result[c]]]
      ELSE receipt

\* The receipt is completed and the answer sent.
complete(c) ==
  /\ phase[c] = "complete"
  /\ receipt' = Completed(c)
  /\ respond(c, result[c])
  /\ UNCHANGED applied

\* The UPDATE throws: a 500, with the row written or not.
completionFails(c) ==
  /\ phase[c] = "complete"
  /\ receipt' \in {receipt, Completed(c)}
  /\ respond(c, "failed")
  /\ UNCHANGED applied

(***************************************************************************)
(* The environment.                                                        *)
(***************************************************************************)

\* The client has its answer.
leave(c) ==
  /\ phase[c] = "answered"
  /\ phase' = [phase EXCEPT ![c] = "idle"]
  /\ ask' = [ask EXCEPT ![c] = None]
  /\ result' = [result EXCEPT ![c] = "none"]
  /\ UNCHANGED <<entries, receipt, applied>>

\* A process restarts: its map is empty and its requests get no answer.
restart(p) ==
  /\ entries' = [entries EXCEPT ![p] = [k \in Key |-> None]]
  /\ LET Cut(c) == phase[c] # "idle" /\ ask[c].process = p
     IN  /\ phase' = [c \in Call |-> IF Cut(c) THEN "idle" ELSE phase[c]]
         /\ ask' = [c \in Call |-> IF Cut(c) THEN None ELSE ask[c]]
         /\ result' = [c \in Call |-> IF Cut(c) THEN "none" ELSE result[c]]
  /\ UNCHANGED <<receipt, applied>>

CallStep(c) ==
  \/ \E p \in Process, k \in Key, b \in Body, s \in Session : claim(c, p, k, b, s)
  \/ awaitOwner(c)
  \/ reject(c)
  \/ admit(c)
  \/ admissionFails(c)
  \/ operation(c)
  \/ complete(c)
  \/ completionFails(c)
  \/ leave(c)

Next ==
  \/ \E c \in Call : CallStep(c)
  \/ \E p \in Process, k \in Key : forget(p, k)
  \/ \E p \in Process : restart(p)

Spec == Init /\ [][Next]_vars

(***************************************************************************)
(* Properties.                                                             *)
(***************************************************************************)

Answered(c, replies) == phase[c] = "answered" /\ result[c] \in replies

Works(c)  == phase[c] \in {"admit", "operation", "complete"}
Inside(c) == phase[c] \in {"operation", "complete"}

\* Durable at-most-once: whatever is retried, by whichever process, across
\* restarts, forgotten entries and failed completions, one run of the operation
\* at most commits anything, whole or part, under a key.
AppliedAtMostOnce == \A k \in Key : Len(applied[k]) <= 1

\* A 2xx, first or replayed, is about the very write that was asked for, and
\* that write was committed, whole and once.
SuccessMeansApplied ==
  \A c \in Call : Answered(c, {"ok"}) =>
    applied[ask[c].key] = <<[body |-> ask[c].body, whole |-> TRUE]>>

\* A 4xx of the operation, first or replayed by any process, is true of the key:
\* what was asked under it has not been done.  It may have left a part behind.
RefusalMeansNotDone ==
  \A c \in Call : Answered(c, {"refused"}) =>
    \A i \in DOMAIN applied[ask[c].key] : ~ applied[ask[c].key][i].whole

\* The map of a process stays within its capacity, and a slot that cannot be
\* forgotten yet is one a request is still at work for: no request that ends, in
\* whichever way, leaves the map fuller for good.
SlotsComeBack ==
  \A p \in Process :
    /\ Cardinality(Slots(p)) <= maxEntries
    /\ \A k \in Key : entries[p][k] # None /\ entries[p][k].outcome = "pending" =>
         \E c \in Call : Works(c) /\ ask[c].process = p /\ ask[c].key = k

\* The owner of an entry works on its key alone in its process, and the entry
\* waits for it; a waiter has an entry to wait for.
OwnerInv ==
  /\ \A c \in Call : phase[c] # "idle" => ask[c] # None
  /\ \A c \in Call : Works(c) =>
       entries[ask[c].process][ask[c].key] = [fingerprint |-> fingerprintOf(c), outcome |-> "pending"]
  /\ \A c, d \in Call :
       Works(c) /\ Works(d) /\ ask[c].process = ask[d].process /\ ask[c].key = ask[d].key
         => c = d
  /\ \A c \in Call : phase[c] = "waiting" =>
       LET entry == entries[ask[c].process][ask[c].key]
       IN  entry # None /\ entry.fingerprint = fingerprintOf(c)

\* Among all processes one call is past the admission of a key, and it holds
\* the started receipt.
InsideInv ==
  /\ \A c \in Call : Inside(c) =>
       receipt[ask[c].key] = [request_hash |-> ask[c].body, outcome |-> "started"]
  /\ \A c, d \in Call : Inside(c) /\ Inside(d) /\ ask[c].key = ask[d].key => c = d
  /\ \A c \in Call : phase[c] = "operation" => applied[ask[c].key] = <<>>
  /\ \A k \in Key : receipt[k] = None => applied[k] = <<>>

\* What an outcome, wherever it is kept, says of the writes under its key, now
\* and for good: an operation that could change it is not and will not be under
\* way.
Tells(outcome, k, body) ==
  /\ outcome = "ok" => applied[k] = <<[body |-> body, whole |-> TRUE]>> /\ receipt[k] # None
  /\ outcome = "refused" =>
       /\ \A i \in DOMAIN applied[k] : ~ applied[k][i].whole
       /\ receipt[k] # None
       /\ \A c \in Call : phase[c] = "operation" => ask[c].key # k

OutcomesInv ==
  /\ \A k \in Key : receipt[k] # None =>
       Tells(receipt[k].outcome, k, receipt[k].request_hash)
  /\ \A p \in Process, k \in Key : entries[p][k] # None =>
       Tells(entries[p][k].outcome, k, entries[p][k].fingerprint.body)
  /\ \A c \in Call : phase[c] = "complete" =>
       /\ result[c] \in {"ok", "refused"}
       /\ Tells(result[c], ask[c].key, ask[c].body)
  /\ \A c \in Call : phase[c] = "answered" => Tells(result[c], ask[c].key, ask[c].body)

ReceiptsInv ==
  /\ TypeOK
  /\ OwnerInv
  /\ InsideInv
  /\ OutcomesInv
  /\ AppliedAtMostOnce

\* A receipt is never deleted, never goes to another request, and once it holds
\* an outcome keeps it (0012: a receipt that can be deleted is a replay that can be
\* re-executed).
ReceiptsAreFinal ==
  [][\A k \in Key : receipt[k] # None =>
       /\ receipt'[k] # None
       /\ receipt'[k].request_hash = receipt[k].request_hash
       /\ receipt[k].outcome # "started" => receipt'[k].outcome = receipt[k].outcome]_vars

=============================================================================
