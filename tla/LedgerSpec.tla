----------------------------- MODULE LedgerSpec -----------------------------
(***************************************************************************)
(* What the ledger promises to whoever posts to it: a key is posted at     *)
(* most once, for good; a call with a posted key is answered by what was   *)
(* posted, or refused when it asked for something else; and an answer is   *)
(* given only for a decision that has been taken.                          *)
(***************************************************************************)
CONSTANTS
  Caller,   \* concurrent calls of post()
  Key,      \* idempotency keys
  Hash,     \* what a posting says, up to the order of its legs
  None      \* nothing posted, nothing asked

VARIABLES
  posted,   \* what was posted under each key
  ask       \* what each caller waits for, and the answer it got

specVars == <<posted, ask>>

Answer  == {"posted", "replayed", "conflict", "failed"}
Waiting == [key : Key, hash : Hash, answer : {"none"}]
Decided == [key : Key, hash : Hash, answer : Answer]

Init ==
  /\ posted = [k \in Key |-> None]
  /\ ask = [c \in Caller |-> None]

Ask(c, k, h) ==
  /\ ask[c] = None
  /\ ask' = [ask EXCEPT ![c] = [key |-> k, hash |-> h, answer |-> "none"]]
  /\ UNCHANGED posted

Decide(c, answer) ==
  /\ ask[c] \in Waiting
  /\ ask' = [ask EXCEPT ![c].answer = answer]

Post(c) ==
  /\ Decide(c, "posted")
  /\ posted[ask[c].key] = None
  /\ posted' = [posted EXCEPT ![ask[c].key] = ask[c].hash]

Replay(c) ==
  /\ Decide(c, "replayed")
  /\ posted[ask[c].key] = ask[c].hash
  /\ UNCHANGED posted

Conflict(c) ==
  /\ Decide(c, "conflict")
  /\ posted[ask[c].key] \notin {None, ask[c].hash}
  /\ UNCHANGED posted

\* The caller is told that nothing was written on its behalf.
Fail(c) ==
  /\ Decide(c, "failed")
  /\ UNCHANGED posted

\* The answer is delivered, or the caller is gone before or after its decision.
Leave(c) ==
  /\ ask[c] # None
  /\ ask' = [ask EXCEPT ![c] = None]
  /\ UNCHANGED posted

Next ==
  \E c \in Caller :
    \/ \E k \in Key, h \in Hash : Ask(c, k, h)
    \/ Post(c)
    \/ Replay(c)
    \/ Conflict(c)
    \/ Fail(c)
    \/ Leave(c)

Spec == Init /\ [][Next]_specVars
=============================================================================
