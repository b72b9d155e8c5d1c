------------------------------- MODULE Ledger -------------------------------
(***************************************************************************)
(* Posting to the ledger (ledger/post.ts, db/serializable.ts,              *)
(* db/migrations/0001_ledger.sql and 0009_redteam_fixes.sql), at the grain *)
(* of the statements PostgreSQL runs for it.                               *)
(*                                                                         *)
(* A call of post() opens a SERIALIZABLE transaction, which fixes its      *)
(* snapshot; inserts the key with ON CONFLICT DO NOTHING, which waits for  *)
(* an uncommitted insert of the same key; inserts its entries, each with a *)
(* seq drawn from a sequence that no rollback gives back; and commits.     *)
(* Another caller may act between any two of these.  A serialization       *)
(* failure or a lost race for the key starts the whole transaction again;  *)
(* the process may die at any point, and the transaction dies with it.     *)
(***************************************************************************)
EXTENDS SequencesExt, Integers, FiniteSets

CONSTANTS
  Caller,           \* concurrent calls of post()
  Key,              \* idempotency keys
  Account,          \* ledger accounts
  AccountCurrency,  \* the currency each account holds
  Request,          \* the postings callers ask for: sequences of legs
  MAX_COLLISION_ATTEMPTS,
  MaxRetries,       \* bound: retries one retry budget has room for
  MaxSeq,           \* bound: values the entry sequence hands out
  None              \* no row, no request

AccountCurrencies == {AccountCurrency[a] : a \in Account}
Leg      == [account : Account, direction : {"debit", "credit"},
             amount : Nat \ {0}, currency : AccountCurrencies]
Entry    == [leg : Leg, seq : Nat]

(***************************************************************************)
(* What a posting says.                                                    *)
(***************************************************************************)

\* canonicalize sorts the legs before hashing, so two requests hash alike when
\* they are the same legs in any order: a bag of legs.
requestHashOf(legs) == ToBag(legs)

\* The hash of each request, computed once.
hashOf == [q \in Request |-> requestHashOf(q)]

Legs(entries) == [i \in DOMAIN entries |-> entries[i].leg]

SumOfLegs(legs, currency, direction) ==
  LET counted == {i \in DOMAIN legs : legs[i].currency = currency
                                        /\ legs[i].direction = direction}
  IN  SumFunction([i \in counted |-> legs[i].amount])

\* Debits equal credits within each currency, never across currencies.
assertBalanced(legs) ==
  \A currency \in AccountCurrencies :
    SumOfLegs(legs, currency, "debit") = SumOfLegs(legs, currency, "credit")

\* The triggers LG002 and LG003, deferred to commit.
ledger_assert_transaction_balanced(entries) ==
  /\ Len(entries) >= 2
  /\ assertBalanced(Legs(entries))

\* The foreign key (account_id, currency).
ledger_entry_account_currency_fkey(leg) == leg.currency = AccountCurrency[leg.account]

Row == [request_hash : {hashOf[q] : q \in Request}, entries : Seq(Entry)]

Ask == [key : Key, request : Request]

\* What LedgerSpec keeps of an ask and its answer.
AbstractAsk == [key : Key, hash : {hashOf[q] : q \in Request},
                answer : {"none", "posted", "replayed", "conflict", "failed"}]

ASSUME LedgerAssumption ==
  /\ Request \subseteq Seq(Leg)
  /\ MAX_COLLISION_ATTEMPTS \in Nat \ {0}
  /\ MaxRetries \in Nat
  /\ MaxSeq \in Nat
  /\ None \notin Row \cup Ask \cup AbstractAsk \cup {hashOf[q] : q \in Request}

VARIABLES
  ledger_transaction,  \* committed postings by idempotency_key, with their entries
  next_seq,            \* ledger_entry_seq_seq
  pc,                  \* where each call of post() is
  asked,               \* the key and the request of each call
  snapshot,            \* the keys whose rows its transaction sees
  written,             \* the entries it has inserted, uncommitted
  attempt,             \* of the loop in post()
  retries,             \* of the loop in withSerializableTx
  outcome              \* what the call answers

callVars == <<pc, asked, snapshot, written, attempt, retries, outcome>>
vars == <<ledger_transaction, next_seq, callVars>>

Outcome == {"none", "posted", "replayed", "IdempotencyConflict", "unresolved",
            "SerializationRetryExhausted", "refused"}

TypeOK ==
  /\ ledger_transaction \in [Key -> Row \cup {None}]
  /\ next_seq \in Nat
  /\ pc \in [Caller -> {"idle", "begin", "insert", "entries", "commit", "done"}]
  /\ asked \in [Caller -> Ask \cup {None}]
  /\ snapshot \in [Caller -> SUBSET Key]
  /\ written \in [Caller -> Seq(Entry)]
  /\ attempt \in [Caller -> Nat]
  /\ retries \in [Caller -> Nat]
  /\ outcome \in [Caller -> Outcome]

Init ==
  /\ ledger_transaction = [k \in Key |-> None]
  /\ next_seq = 1
  /\ pc = [c \in Caller |-> "idle"]
  /\ asked = [c \in Caller |-> None]
  /\ snapshot = [c \in Caller |-> {}]
  /\ written = [c \in Caller |-> <<>>]
  /\ attempt = [c \in Caller |-> 0]
  /\ retries = [c \in Caller |-> 0]
  /\ outcome = [c \in Caller |-> "none"]

Committed(k) == ledger_transaction[k] # None
InTransaction(c) == pc[c] \in {"insert", "entries", "commit"}

\* The index holds an uncommitted entry for the key.
InsertInProgress(k) ==
  \E c \in Caller : pc[c] \in {"entries", "commit"} /\ asked[c].key = k

(***************************************************************************)
(* One call of post().                                                     *)
(***************************************************************************)

\* The request is parsed (two legs at least) and must balance; an unbalanced
\* one is refused before anything is opened.
post(c, k, q) ==
  /\ pc[c] = "idle"
  /\ Len(q) >= 2
  /\ assertBalanced(q)
  /\ pc' = [pc EXCEPT ![c] = "begin"]
  /\ asked' = [asked EXCEPT ![c] = [key |-> k, request |-> q]]
  /\ attempt' = [attempt EXCEPT ![c] = 1]
  /\ retries' = [retries EXCEPT ![c] = 0]
  /\ UNCHANGED <<ledger_transaction, next_seq, snapshot, written, outcome>>

\* The rows the first statement of a transaction sees.
visibleKeys(c) == {k \in Key : Committed(k)}

\* BEGIN ISOLATION LEVEL SERIALIZABLE, and the snapshot of its first statement.
Begin(c) ==
  /\ pc[c] = "begin"
  /\ pc' = [pc EXCEPT ![c] = "insert"]
  /\ snapshot' = [snapshot EXCEPT ![c] = visibleKeys(c)]
  /\ UNCHANGED <<ledger_transaction, next_seq, asked, written, attempt, retries, outcome>>

\* The transaction is over, committed or rolled back, and its connection with
\* nothing in hand.
EndTransaction(c, next) ==
  /\ pc' = [pc EXCEPT ![c] = next]
  /\ snapshot' = [snapshot EXCEPT ![c] = {}]
  /\ written' = [written EXCEPT ![c] = <<>>]

\* The call is over; its answer is on its way to the caller.
Answer(c, result) ==
  /\ EndTransaction(c, "done")
  /\ outcome' = [outcome EXCEPT ![c] = result]

\* INSERT ... ON CONFLICT DO NOTHING inserts: the key is free.
InsertKey(c) ==
  /\ pc[c] = "insert"
  /\ ~ Committed(asked[c].key)
  /\ ~ InsertInProgress(asked[c].key)
  /\ pc' = [pc EXCEPT ![c] = "entries"]
  /\ UNCHANGED <<ledger_transaction, next_seq, asked, snapshot, written, attempt, retries,
                 outcome>>

\* Bug: whatever is under the key is replayed.
AnyRequest(c) == TRUE

\* replayOf: the posting under the key is the one this call asks for.
sameRequest(c) ==
  ledger_transaction[asked[c].key].request_hash = hashOf[asked[c].request]

\* It does nothing, and the row that was in the way is in the snapshot:
\* findByKey and replayOf.
FindByKey(c) ==
  /\ pc[c] = "insert"
  /\ Committed(asked[c].key)
  /\ asked[c].key \in snapshot[c]
  /\ IF sameRequest(c)
       THEN Answer(c, "replayed")
       ELSE Answer(c, "IdempotencyConflict")
  /\ UNCHANGED <<ledger_transaction, next_seq, asked, attempt, retries>>

\* Bug: the loop of post() tries again in the same transaction.
RetryInSameTransaction(c) ==
  /\ pc[c] = "insert"
  /\ Committed(asked[c].key)
  /\ asked[c].key \notin snapshot[c]
  /\ IF attempt[c] < MAX_COLLISION_ATTEMPTS
       THEN /\ attempt' = [attempt EXCEPT ![c] = @ + 1]
            /\ UNCHANGED <<pc, snapshot, written, outcome>>
       ELSE /\ Answer(c, "unresolved")
            /\ UNCHANGED attempt
  /\ UNCHANGED <<ledger_transaction, next_seq, asked, retries>>

\* It does nothing, and the row in the way is not in the snapshot:
\* ConcurrentKeyInsert.  The loop of post() opens a fresh transaction.
ConcurrentKeyInsert(c) ==
  /\ pc[c] = "insert"
  /\ Committed(asked[c].key)
  /\ asked[c].key \notin snapshot[c]
  /\ IF attempt[c] < MAX_COLLISION_ATTEMPTS
       THEN /\ EndTransaction(c, "begin")
            /\ attempt' = [attempt EXCEPT ![c] = @ + 1]
            /\ retries' = [retries EXCEPT ![c] = 0]
            /\ UNCHANGED outcome
       ELSE /\ Answer(c, "unresolved")
            /\ UNCHANGED <<attempt, retries>>
  /\ UNCHANGED <<ledger_transaction, next_seq, asked>>

\* nextval: drawn whether or not the transaction commits.
nextval == next_seq

\* One row of the multi-row insert of entries.
InsertEntry(c) ==
  /\ pc[c] = "entries"
  /\ next_seq <= MaxSeq
  /\ LET q   == asked[c].request
         leg == q[Len(written[c]) + 1]
     IN  IF ledger_entry_account_currency_fkey(leg)
           THEN /\ written' = [written EXCEPT ![c] = Append(@, [leg |-> leg, seq |-> nextval])]
                /\ next_seq' = next_seq + 1
                /\ pc' = [pc EXCEPT ![c] = IF Len(written[c]) + 1 = Len(q)
                                             THEN "commit" ELSE "entries"]
                /\ UNCHANGED <<snapshot, outcome>>
           ELSE /\ Answer(c, "refused")
                /\ UNCHANGED next_seq
  /\ UNCHANGED <<ledger_transaction, asked, attempt, retries>>

\* COMMIT, with the deferred triggers.
Commit(c) ==
  /\ pc[c] = "commit"
  /\ ledger_assert_transaction_balanced(written[c])
  /\ ledger_transaction' = [ledger_transaction EXCEPT
                              ![asked[c].key] = [request_hash |-> hashOf[asked[c].request],
                                                 entries |-> written[c]]]
  /\ Answer(c, "posted")
  /\ UNCHANGED <<next_seq, asked, attempt, retries>>

\* SQLSTATE 40001 or 40P01, at any statement of the transaction: PostgreSQL
\* decides.  withSerializableTx runs the whole function again until its budget
\* is spent.
SerializationFailure(c) ==
  /\ InTransaction(c)
  /\ IF retries[c] < MaxRetries
       THEN /\ EndTransaction(c, "begin")
            /\ retries' = [retries EXCEPT ![c] = @ + 1]
            /\ UNCHANGED outcome
       ELSE /\ Answer(c, "SerializationRetryExhausted")
            /\ UNCHANGED retries
  /\ UNCHANGED <<ledger_transaction, next_seq, asked, attempt>>

\* The answer reaches the caller, who may call again; or the process dies,
\* before or after its commit, and the caller learns nothing.
Leave(c) ==
  /\ pc[c] # "idle"
  /\ EndTransaction(c, "idle")
  /\ asked' = [asked EXCEPT ![c] = None]
  /\ attempt' = [attempt EXCEPT ![c] = 0]
  /\ retries' = [retries EXCEPT ![c] = 0]
  /\ outcome' = [outcome EXCEPT ![c] = "none"]
  /\ UNCHANGED <<ledger_transaction, next_seq>>

CallStep(c) ==
  \/ \E k \in Key, q \in Request : post(c, k, q)
  \/ Begin(c)
  \/ InsertKey(c)
  \/ FindByKey(c)
  \/ ConcurrentKeyInsert(c)
  \/ InsertEntry(c)
  \/ Commit(c)
  \/ SerializationFailure(c)
  \/ Leave(c)

Next == \E c \in Caller : CallStep(c)

Spec == Init /\ [][Next]_vars

(***************************************************************************)
(* The inductive invariant, checked by TLC and proved in MoneyProofs.      *)
(***************************************************************************)

Writing(c) == pc[c] \in {"entries", "commit"}

\* What the program counter of a call says about the rest of its state.
PhaseInv ==
  \A c \in Caller :
    /\ pc[c] = "idle" <=> asked[c] = None
    /\ pc[c] = "done" <=> outcome[c] # "none"
    /\ ~ Writing(c) => written[c] = <<>>
    /\ pc[c] = "entries" => Len(written[c]) < Len(asked[c].request)
    /\ pc[c] = "commit" => Len(written[c]) = Len(asked[c].request)
    /\ asked[c] # None => assertBalanced(asked[c].request) /\ Len(asked[c].request) >= 2

\* The entries written so far are the first legs of the request.
WrittenInv ==
  \A c \in Caller : Writing(c) =>
    \A i \in DOMAIN written[c] : written[c][i].leg = asked[c].request[i]

\* A key being written is free, and is being written by one caller.
KeyInv ==
  \A c \in Caller : Writing(c) =>
    /\ ~ Committed(asked[c].key)
    /\ \A d \in Caller : Writing(d) /\ asked[d].key = asked[c].key => d = c

\* The hash of a committed row is the hash of its entries, which balance.
RowInv ==
  \A k \in Key : Committed(k) =>
    /\ ledger_transaction[k].request_hash = requestHashOf(Legs(ledger_transaction[k].entries))
    /\ assertBalanced(Legs(ledger_transaction[k].entries))

\* A favourable answer is backed by a row with the hash of the request.
AnswerInv ==
  \A c \in Caller : outcome[c] \in {"posted", "replayed"} =>
    /\ Committed(asked[c].key)
    /\ ledger_transaction[asked[c].key].request_hash = hashOf[asked[c].request]

\* A call that lost the race for its key sees the winner from then on.
CollisionInv ==
  \A c \in Caller : attempt[c] > 1 =>
    /\ asked[c] # None
    /\ Committed(asked[c].key)
    /\ pc[c] = "insert" => asked[c].key \in snapshot[c]

\* Every seq was drawn before next_seq, and drawn once.
SeqsDistinct(entries) ==
  \A i, j \in DOMAIN entries : entries[i].seq = entries[j].seq => i = j
SeqsApart(these, those) ==
  \A i \in DOMAIN these, j \in DOMAIN those : these[i].seq # those[j].seq
SeqsDrawn(entries) == \A i \in DOMAIN entries : entries[i].seq < next_seq

EntriesOf(k) == ledger_transaction[k].entries

SeqInv ==
  /\ \A c \in Caller : SeqsDistinct(written[c]) /\ SeqsDrawn(written[c])
  /\ \A c, d \in Caller : c # d => SeqsApart(written[c], written[d])
  /\ \A k \in Key : Committed(k) => /\ SeqsDistinct(EntriesOf(k))
                                   /\ SeqsDrawn(EntriesOf(k))
                                   /\ \A c \in Caller : SeqsApart(EntriesOf(k), written[c])
  /\ \A j, k \in Key : Committed(j) /\ Committed(k) /\ j # k
                         => SeqsApart(EntriesOf(j), EntriesOf(k))

IInv == /\ TypeOK /\ PhaseInv /\ WrittenInv /\ KeyInv /\ RowInv /\ AnswerInv
        /\ CollisionInv /\ SeqInv

(***************************************************************************)
(* Properties.                                                             *)
(***************************************************************************)

\* A caller told that its posting is in the ledger finds exactly the legs it
\* asked for under its key, in some order: no key answers for another request
\* and no retry leaves legs of an earlier attempt behind.
AnswersWhatWasAsked ==
  \A c \in Caller : outcome[c] \in {"posted", "replayed"} =>
    /\ Committed(asked[c].key)
    /\ ToBag(Legs(ledger_transaction[asked[c].key].entries)) = ToBag(asked[c].request)

\* "The winner has committed by the time this surfaces, so the next attempt
\* ... finds their row and replays": no caller runs out of attempts on a key.
LosersReplay == \A c \in Caller : outcome[c] # "unresolved"

\* No two postings share an entry seq, and each was drawn from the sequence:
\* the order balance.ts cuts the books by is total.
SeqsAreUnique ==
  \A j, k \in Key : Committed(j) /\ Committed(k) =>
    \A x \in DOMAIN ledger_transaction[j].entries, y \in DOMAIN ledger_transaction[k].entries :
      ledger_transaction[j].entries[x].seq = ledger_transaction[k].entries[y].seq
        => j = k /\ x = y

\* A posting is for good: whatever is retried, replayed or refused afterwards,
\* its row and its entries are never written again.
PostingsAreForGood ==
  [][\A k \in Key : Committed(k) => ledger_transaction'[k] = ledger_transaction[k]]_vars

\* The abstract state of a call: it waits until it has an outcome.
AbstractAnswer(o) ==
  CASE o = "none"                -> "none"
    [] o = "posted"              -> "posted"
    [] o = "replayed"            -> "replayed"
    [] o = "IdempotencyConflict" -> "conflict"
    [] OTHER                     -> "failed"

postedHash == [k \in Key |-> IF Committed(k) THEN ledger_transaction[k].request_hash ELSE None]
abstractAsk ==
  [c \in Caller |-> IF asked[c] = None THEN None
                    ELSE [key |-> asked[c].key, hash |-> hashOf[asked[c].request],
                          answer |-> AbstractAnswer(outcome[c])]]

\* post() implements the ledger that LedgerSpec promises.
Abstract == INSTANCE LedgerSpec
              WITH Hash <- {hashOf[q] : q \in Request},
                   posted <- postedHash,
                   ask <- abstractAsk

ImplementsLedgerSpec == Abstract!Spec
=============================================================================
