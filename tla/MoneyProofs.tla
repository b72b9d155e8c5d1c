----------------------------- MODULE MoneyProofs -----------------------------
(***************************************************************************)
(* What is proved of the ledger and of the balances read from it, for      *)
(* every set of callers, keys, accounts and postings, every retry budget   *)
(* and every length of the sequence; of the plans and their versions, for  *)
(* every set of calls, caps and submissions; and of the arithmetic of      *)
(* amounts, for every amount, ratio, list of weights and decimal text.     *)
(***************************************************************************)
EXTENDS Balances, Submissions, MoneyCalls, SumProofs, TLAPS

(***************************************************************************)
(* PART ONE.  The ledger.                                                  *)
(***************************************************************************)

(***************************************************************************)
(* Facts about the definitions.                                            *)
(***************************************************************************)

\* The legs of what a caller has written when it comes to commit are the
\* request itself.
LEMMA WrittenIsRequest ==
  ASSUME TypeOK, PhaseInv, WrittenInv, NEW c \in Caller, pc[c] = "commit"
  PROVE  Legs(written[c]) = asked[c].request
<1>1. asked[c] \in Ask
  BY DEF TypeOK, PhaseInv
<1>2. asked[c].request \in Seq(Leg) /\ written[c] \in Seq(Entry)
  BY <1>1, LedgerAssumption DEF TypeOK, Ask
<1>3. Len(written[c]) = Len(asked[c].request)
  BY DEF PhaseInv
<1>4. \A i \in 1 .. Len(written[c]) : written[c][i].leg = asked[c].request[i]
  BY DEF WrittenInv, Writing
<1> QED
  BY <1>2, <1>3, <1>4 DEF Legs

\* A caller that has asked has a key and a request.
LEMMA AskedIsAsk ==
  ASSUME TypeOK, PhaseInv, NEW c \in Caller, pc[c] # "idle"
  PROVE  /\ asked[c] \in Ask
         /\ asked[c].key \in Key
         /\ asked[c].request \in Request
         /\ asked[c].request \in Seq(Leg)
BY LedgerAssumption DEF TypeOK, PhaseInv, Ask

(***************************************************************************)
(* Type correctness.                                                       *)
(***************************************************************************)

LEMMA InitTypeOK == Init => TypeOK
BY LedgerAssumption DEF Init, TypeOK, Outcome

\* Ending a transaction leaves the caller's three variables well typed.
LEMMA EndTransactionTypeOK ==
  ASSUME TypeOK, NEW c \in Caller, NEW next \in {"idle", "begin", "done"},
         EndTransaction(c, next)
  PROVE  /\ pc' \in [Caller -> {"idle", "begin", "insert", "entries", "commit", "done"}]
         /\ snapshot' \in [Caller -> SUBSET Key]
         /\ written' \in [Caller -> Seq(Entry)]
<1>1. <<>> \in Seq(Entry)
  OBVIOUS
<1> QED
  BY <1>1 DEF EndTransaction, TypeOK

LEMMA AnswerTypeOK ==
  ASSUME TypeOK, NEW c \in Caller, NEW result \in Outcome, Answer(c, result)
  PROVE  /\ pc' \in [Caller -> {"idle", "begin", "insert", "entries", "commit", "done"}]
         /\ snapshot' \in [Caller -> SUBSET Key]
         /\ written' \in [Caller -> Seq(Entry)]
         /\ outcome' \in [Caller -> Outcome]
<1>1. EndTransaction(c, "done")
  BY DEF Answer
<1>2. outcome' \in [Caller -> Outcome]
  BY DEF Answer, TypeOK
<1> QED
  BY <1>1, <1>2, EndTransactionTypeOK

LEMMA StepTypeOK ==
  ASSUME TypeOK, PhaseInv, NEW c \in Caller, CallStep(c)
  PROVE  TypeOK'
<1>1. ASSUME NEW k \in Key, NEW q \in Request, post(c, k, q) PROVE TypeOK'
  BY <1>1 DEF post, Ask, TypeOK
<1>2. CASE Begin(c)
  BY <1>2 DEF Begin, visibleKeys, TypeOK
<1>3. CASE InsertKey(c)
  BY <1>3 DEF InsertKey, TypeOK
<1>4. CASE FindByKey(c)
  <2>1. Answer(c, "replayed") \/ Answer(c, "IdempotencyConflict")
    BY <1>4 DEF FindByKey
  <2> QED BY <1>4, <2>1, AnswerTypeOK DEF FindByKey, TypeOK, Outcome
<1>5. CASE ConcurrentKeyInsert(c)
  <2>1. CASE attempt[c] < MAX_COLLISION_ATTEMPTS
    <3>1. EndTransaction(c, "begin")
      BY <1>5, <2>1 DEF ConcurrentKeyInsert
    <3>2. /\ attempt' = [attempt EXCEPT ![c] = @ + 1]
          /\ retries' = [retries EXCEPT ![c] = 0]
          /\ UNCHANGED <<ledger_transaction, next_seq, asked, outcome>>
      BY <1>5, <2>1 DEF ConcurrentKeyInsert
    <3>3. attempt' \in [Caller -> Nat] /\ retries' \in [Caller -> Nat]
      BY <3>2 DEF TypeOK
    <3> QED BY <3>1, <3>2, <3>3, EndTransactionTypeOK DEF TypeOK
  <2>2. CASE ~ (attempt[c] < MAX_COLLISION_ATTEMPTS)
    <3>1. Answer(c, "unresolved")
      BY <1>5, <2>2 DEF ConcurrentKeyInsert
    <3> QED BY <1>5, <2>2, <3>1, AnswerTypeOK DEF ConcurrentKeyInsert, TypeOK, Outcome
  <2> QED BY <2>1, <2>2
<1>6. CASE InsertEntry(c)
  <2> DEFINE leg == asked[c].request[Len(written[c]) + 1]
             entry == [leg |-> leg, seq |-> nextval]
  <2>1. /\ asked[c].request \in Seq(Leg)
        /\ written[c] \in Seq(Entry)
        /\ Len(written[c]) < Len(asked[c].request)
    BY <1>6, AskedIsAsk DEF InsertEntry, PhaseInv, TypeOK
  <2>2. leg \in Leg
    BY <2>1
  <2>3. entry \in Entry
    BY <2>2 DEF Entry, nextval, TypeOK
  <2>4. CASE ledger_entry_account_currency_fkey(leg)
    <3>1. Append(written[c], entry) \in Seq(Entry)
      BY <2>1, <2>3
    <3>2. /\ written' = [written EXCEPT ![c] = Append(written[c], entry)]
          /\ next_seq' = next_seq + 1
          /\ pc' \in [Caller -> {"idle", "begin", "insert", "entries", "commit", "done"}]
          /\ UNCHANGED <<ledger_transaction, asked, snapshot, attempt, retries, outcome>>
      BY <1>6, <2>4 DEF InsertEntry, TypeOK
    <3> QED BY <3>1, <3>2 DEF TypeOK
  <2>5. CASE ~ ledger_entry_account_currency_fkey(leg)
    <3>1. Answer(c, "refused")
      BY <1>6, <2>5 DEF InsertEntry
    <3> QED BY <1>6, <2>5, <3>1, AnswerTypeOK DEF InsertEntry, TypeOK, Outcome
  <2> QED BY <2>4, <2>5
<1>7. CASE Commit(c)
  <2>1. asked[c].request \in Request /\ asked[c].key \in Key /\ written[c] \in Seq(Entry)
    BY <1>7, AskedIsAsk DEF Commit, TypeOK
  <2>2. [request_hash |-> hashOf[asked[c].request], entries |-> written[c]] \in Row
    BY <2>1 DEF Row
  <2>3. Answer(c, "posted")
    BY <1>7 DEF Commit
  <2>4. ledger_transaction' \in [Key -> Row \cup {None}]
    BY <1>7, <2>2 DEF Commit, TypeOK
  <2> QED BY <1>7, <2>3, <2>4, AnswerTypeOK DEF Commit, TypeOK, Outcome
<1>8. CASE SerializationFailure(c)
  <2>1. CASE retries[c] < MaxRetries
    <3>1. EndTransaction(c, "begin")
      BY <1>8, <2>1 DEF SerializationFailure
    <3>2. /\ retries' = [retries EXCEPT ![c] = @ + 1]
          /\ UNCHANGED <<ledger_transaction, next_seq, asked, attempt, outcome>>
      BY <1>8, <2>1 DEF SerializationFailure
    <3>3. retries' \in [Caller -> Nat]
      BY <3>2 DEF TypeOK
    <3> QED BY <3>1, <3>2, <3>3, EndTransactionTypeOK DEF TypeOK
  <2>2. CASE ~ (retries[c] < MaxRetries)
    <3>1. Answer(c, "SerializationRetryExhausted")
      BY <1>8, <2>2 DEF SerializationFailure
    <3> QED BY <1>8, <2>2, <3>1, AnswerTypeOK DEF SerializationFailure, TypeOK, Outcome
  <2> QED BY <2>1, <2>2
<1>9. CASE Leave(c)
  <2>1. EndTransaction(c, "idle")
    BY <1>9 DEF Leave
  <2> QED BY <1>9, <2>1, EndTransactionTypeOK DEF Leave, TypeOK, Outcome
<1> QED
  BY <1>1, <1>2, <1>3, <1>4, <1>5, <1>6, <1>7, <1>8, <1>9 DEF CallStep

(***************************************************************************)
(* The inductive invariant.                                                *)
(***************************************************************************)

LEMMA InitIInv == Init => IInv
<1> SUFFICES ASSUME Init PROVE IInv
  OBVIOUS
<1>1. TypeOK
  BY InitTypeOK
<1>2. PhaseInv /\ WrittenInv /\ KeyInv
  BY DEF Init, PhaseInv, WrittenInv, KeyInv, Writing
<1>3. RowInv /\ AnswerInv /\ CollisionInv
  BY DEF Init, RowInv, AnswerInv, CollisionInv, Committed
<1>4. SeqInv
  BY DEF Init, SeqInv, Committed, SeqsDistinct, SeqsApart, SeqsDrawn
<1> QED
  BY <1>1, <1>2, <1>3, <1>4 DEF IInv

\* A step that hands nothing to anybody: a call's transaction ends with nothing
\* committed, or the call has none yet.
Released(c) ==
  /\ pc'[c] \notin {"entries", "commit"}
  /\ written'[c] = <<>>
  /\ \A d \in Caller \ {c} : /\ pc'[d] = pc[d]
                            /\ written'[d] = written[d]
                            /\ asked'[d] = asked[d]
  /\ UNCHANGED <<ledger_transaction, next_seq>>

LEMMA EndTransactionReleases ==
  ASSUME TypeOK, NEW c \in Caller, NEW next \in {"idle", "begin", "done"},
         EndTransaction(c, next), UNCHANGED <<ledger_transaction, next_seq>>,
         \A d \in Caller \ {c} : asked'[d] = asked[d]
  PROVE  Released(c)
BY DEF TypeOK, EndTransaction, Released

LEMMA ReleaseKeeps ==
  ASSUME IInv, NEW c \in Caller, Released(c)
  PROVE  WrittenInv' /\ KeyInv' /\ RowInv' /\ SeqInv'
<1>1. WrittenInv'
  BY DEF IInv, WrittenInv, Writing, Released
<1>2. KeyInv'
  BY DEF IInv, KeyInv, Writing, Released, Committed
<1>3. RowInv'
  BY DEF IInv, RowInv, Released, Committed
<1>4. SeqInv'
  <2>1. \A d \in Caller : written'[d] = written[d] \/ written'[d] = <<>>
    BY DEF Released
  <2> QED
    BY <2>1 DEF IInv, SeqInv, SeqsDistinct, SeqsApart, SeqsDrawn, EntriesOf, Committed, Released
<1> QED
  BY <1>1, <1>2, <1>3, <1>4

\* The steps of c that end a transaction with nothing committed, or start one.
LEMMA ReleasingSteps ==
  ASSUME IInv, NEW c \in Caller,
         \/ \E k \in Key, q \in Request : post(c, k, q)
         \/ Begin(c) \/ FindByKey(c) \/ ConcurrentKeyInsert(c)
         \/ SerializationFailure(c) \/ Leave(c)
  PROVE  Released(c)
<1> USE DEF IInv
<1>1. ASSUME NEW k \in Key, NEW q \in Request, post(c, k, q) PROVE Released(c)
  BY <1>1 DEF post, Released, TypeOK, PhaseInv, Writing
<1>2. CASE Begin(c)
  BY <1>2 DEF Begin, Released, TypeOK, PhaseInv, Writing
<1>3. CASE FindByKey(c)
  <2>1. EndTransaction(c, "done") /\ UNCHANGED <<ledger_transaction, next_seq, asked>>
    BY <1>3 DEF FindByKey, Answer
  <2> QED BY <2>1, EndTransactionReleases
<1>4. CASE ConcurrentKeyInsert(c)
  <2>1. EndTransaction(c, "begin") \/ EndTransaction(c, "done")
    BY <1>4 DEF ConcurrentKeyInsert, Answer
  <2>2. UNCHANGED <<ledger_transaction, next_seq, asked>>
    BY <1>4 DEF ConcurrentKeyInsert
  <2> QED BY <2>1, <2>2, EndTransactionReleases
<1>5. CASE SerializationFailure(c)
  <2>1. EndTransaction(c, "begin") \/ EndTransaction(c, "done")
    BY <1>5 DEF SerializationFailure, Answer
  <2>2. UNCHANGED <<ledger_transaction, next_seq, asked>>
    BY <1>5 DEF SerializationFailure
  <2> QED BY <2>1, <2>2, EndTransactionReleases
<1>6. CASE Leave(c)
  <2>1. /\ EndTransaction(c, "idle") /\ UNCHANGED <<ledger_transaction, next_seq>>
        /\ \A d \in Caller \ {c} : asked'[d] = asked[d]
    BY <1>6 DEF Leave, TypeOK
  <2> QED BY <2>1, EndTransactionReleases
<1> QED
  BY <1>1, <1>2, <1>3, <1>4, <1>5, <1>6

\* PhaseInv, AnswerInv and CollisionInv speak of one call at a time; the others
\* keep theirs because nothing of them changes and no row disappears.
OthersKeep(c) ==
  /\ \A d \in Caller \ {c} :
       /\ pc'[d] = pc[d] /\ asked'[d] = asked[d] /\ snapshot'[d] = snapshot[d]
       /\ written'[d] = written[d] /\ attempt'[d] = attempt[d] /\ outcome'[d] = outcome[d]
  /\ \A k \in Key : Committed(k) => ledger_transaction'[k] = ledger_transaction[k]

LEMMA StepOthersKeep ==
  ASSUME IInv, NEW c \in Caller, CallStep(c)
  PROVE  OthersKeep(c)
<1> USE DEF IInv, OthersKeep
<1>1. ASSUME NEW k \in Key, NEW q \in Request, post(c, k, q) PROVE OthersKeep(c)
  BY <1>1 DEF post, TypeOK
<1>2. CASE Begin(c)
  BY <1>2 DEF Begin, TypeOK
<1>3. CASE InsertKey(c)
  BY <1>3 DEF InsertKey, TypeOK
<1>4. CASE FindByKey(c)
  BY <1>4 DEF FindByKey, Answer, EndTransaction, TypeOK
<1>5. CASE ConcurrentKeyInsert(c)
  BY <1>5 DEF ConcurrentKeyInsert, Answer, EndTransaction, TypeOK
<1>6. CASE InsertEntry(c)
  BY <1>6 DEF InsertEntry, Answer, EndTransaction, TypeOK
<1>7. CASE Commit(c)
  <2>1. ~ Committed(asked[c].key)
    BY <1>7 DEF Commit, KeyInv, Writing
  <2>2. \A k \in Key : Committed(k) => ledger_transaction'[k] = ledger_transaction[k]
    BY <1>7, <2>1 DEF Commit, TypeOK
  <2> QED
    BY <1>7, <2>2 DEF Commit, Answer, EndTransaction, TypeOK
<1>8. CASE SerializationFailure(c)
  BY <1>8 DEF SerializationFailure, Answer, EndTransaction, TypeOK
<1>9. CASE Leave(c)
  BY <1>9 DEF Leave, EndTransaction, TypeOK
<1> QED
  BY <1>1, <1>2, <1>3, <1>4, <1>5, <1>6, <1>7, <1>8, <1>9 DEF CallStep

\* The invariants that speak of one call, for the call that moves.
PhaseOf(c) ==
  /\ pc[c] = "idle" <=> asked[c] = None
  /\ pc[c] = "done" <=> outcome[c] # "none"
  /\ ~ Writing(c) => written[c] = <<>>
  /\ pc[c] = "entries" => Len(written[c]) < Len(asked[c].request)
  /\ pc[c] = "commit" => Len(written[c]) = Len(asked[c].request)
  /\ asked[c] # None => assertBalanced(asked[c].request) /\ Len(asked[c].request) >= 2

AnswerOf(c) ==
  outcome[c] \in {"posted", "replayed"} =>
    /\ Committed(asked[c].key)
    /\ ledger_transaction[asked[c].key].request_hash = hashOf[asked[c].request]

CollisionOf(c) ==
  attempt[c] > 1 => /\ asked[c] # None
                    /\ Committed(asked[c].key)
                    /\ pc[c] = "insert" => asked[c].key \in snapshot[c]

CallInv(c) == PhaseOf(c) /\ AnswerOf(c) /\ CollisionOf(c)

LEMMA StepCallInv ==
  ASSUME IInv, NEW c \in Caller, CallStep(c)
  PROVE  CallInv(c)'
<1> USE DEF IInv, CallInv
<1> DEFINE before == /\ pc[c] # "idle" => asked[c] \in Ask
                     /\ CallInv(c)
<1>0. before
  BY DEF TypeOK, PhaseInv, AnswerInv, CollisionInv, PhaseOf, AnswerOf, CollisionOf
<1>1. ASSUME NEW k \in Key, NEW q \in Request, post(c, k, q) PROVE CallInv(c)'
  <2>1. [key |-> k, request |-> q] # None
    BY LedgerAssumption DEF Ask
  <2> QED
    BY <1>0, <1>1, <2>1 DEF post, TypeOK, PhaseOf, AnswerOf, CollisionOf, Writing
<1>2. CASE Begin(c)
  <2>1. PhaseOf(c)' /\ AnswerOf(c)'
    BY <1>0, <1>2 DEF Begin, TypeOK, PhaseOf, AnswerOf, Writing
  <2>2. CollisionOf(c)'
    BY <1>0, <1>2 DEF Begin, visibleKeys, TypeOK, CollisionOf, Committed, Ask
  <2> QED BY <2>1, <2>2
<1>3. CASE InsertKey(c)
  <2>1. Len(asked[c].request) >= 2 /\ written[c] = <<>>
    BY <1>0, <1>3 DEF InsertKey, PhaseOf, Writing
  <2> QED
    BY <1>0, <1>3, <2>1 DEF InsertKey, TypeOK, PhaseOf, AnswerOf, CollisionOf, Committed, Writing
<1>4. CASE FindByKey(c)
  <2>1. ledger_transaction' = ledger_transaction /\ asked' = asked /\ attempt' = attempt
    BY <1>4 DEF FindByKey
  <2>2. PhaseOf(c)' /\ CollisionOf(c)'
    BY <1>0, <1>4, <2>1 DEF FindByKey, Answer, EndTransaction, TypeOK, PhaseOf, CollisionOf,
                            Committed, Writing
  <2>3. AnswerOf(c)'
    BY <1>0, <1>4, <2>1 DEF FindByKey, Answer, EndTransaction, TypeOK, AnswerOf, Committed,
                            sameRequest
  <2> QED BY <2>2, <2>3
<1>5. CASE ConcurrentKeyInsert(c)
  <2>1. /\ ledger_transaction' = ledger_transaction /\ asked' = asked
        /\ Committed(asked[c].key)
    BY <1>5 DEF ConcurrentKeyInsert
  <2>2. PhaseOf(c)' /\ AnswerOf(c)'
    BY <1>0, <1>5, <2>1 DEF ConcurrentKeyInsert, Answer, EndTransaction, TypeOK, PhaseOf, AnswerOf,
                            Committed, Writing
  <2>3. CollisionOf(c)'
    BY <1>0, <1>5, <2>1 DEF ConcurrentKeyInsert, Answer, EndTransaction, TypeOK, CollisionOf,
                            PhaseOf, Committed
  <2> QED BY <2>2, <2>3
<1>6. CASE InsertEntry(c)
  <2>1. /\ ledger_transaction' = ledger_transaction /\ asked' = asked /\ attempt' = attempt
        /\ asked[c].request \in Seq(Leg) /\ written[c] \in Seq(Entry)
        /\ Len(written[c]) < Len(asked[c].request)
    BY <1>0, <1>6, AskedIsAsk DEF InsertEntry, TypeOK, PhaseOf
  <2>2. PhaseOf(c)'
    BY <1>0, <1>6, <2>1 DEF InsertEntry, Answer, EndTransaction, TypeOK, PhaseOf, Writing
  <2>3. AnswerOf(c)' /\ CollisionOf(c)'
    BY <1>0, <1>6, <2>1 DEF InsertEntry, Answer, EndTransaction, TypeOK, PhaseOf, AnswerOf,
                            CollisionOf, Committed
  <2> QED BY <2>2, <2>3
<1>7. CASE Commit(c)
  <2>1. /\ asked' = asked /\ attempt' = attempt
        /\ ~ Committed(asked[c].key) /\ asked[c].key \in Key
    BY <1>7, AskedIsAsk DEF Commit, KeyInv, Writing
  <2>2. PhaseOf(c)'
    BY <1>0, <1>7, <2>1 DEF Commit, Answer, EndTransaction, TypeOK, PhaseOf, Writing
  <2>3. CollisionOf(c)'
    BY <1>0, <1>7, <2>1 DEF Commit, CollisionOf
  <2>4. AnswerOf(c)'
    <3>1. [request_hash |-> hashOf[asked[c].request], entries |-> written[c]] # None
      BY <1>7, AskedIsAsk, LedgerAssumption DEF Commit, TypeOK, Row
    <3> QED
      BY <1>7, <2>1, <3>1 DEF Commit, Answer, TypeOK, AnswerOf, Committed
  <2> QED BY <2>2, <2>3, <2>4
<1>8. CASE SerializationFailure(c)
  <2>1. ledger_transaction' = ledger_transaction /\ asked' = asked /\ attempt' = attempt
    BY <1>8 DEF SerializationFailure
  <2>2. PhaseOf(c)' /\ AnswerOf(c)' /\ CollisionOf(c)'
    BY <1>0, <1>8, <2>1 DEF SerializationFailure, Answer, EndTransaction, InTransaction, TypeOK,
                            PhaseOf, AnswerOf, CollisionOf, Committed, Writing
  <2> QED BY <2>2
<1>9. CASE Leave(c)
  BY <1>0, <1>9 DEF Leave, EndTransaction, TypeOK, PhaseOf, AnswerOf, CollisionOf, Writing
<1> QED
  BY <1>1, <1>2, <1>3, <1>4, <1>5, <1>6, <1>7, <1>8, <1>9 DEF CallStep

LEMMA StepCallsInv ==
  ASSUME IInv, NEW c \in Caller, CallStep(c)
  PROVE  PhaseInv' /\ AnswerInv' /\ CollisionInv'
<1>1. OthersKeep(c) /\ CallInv(c)'
  BY StepOthersKeep, StepCallInv
<1>2. PhaseInv'
  <2> SUFFICES ASSUME NEW d \in Caller PROVE PhaseOf(d)'
    BY DEF PhaseInv, PhaseOf
  <2>1. PhaseOf(d)
    BY DEF IInv, PhaseInv, PhaseOf
  <2> QED BY <1>1, <2>1 DEF OthersKeep, CallInv, PhaseOf, Writing
<1>3. AnswerInv'
  <2> SUFFICES ASSUME NEW d \in Caller PROVE AnswerOf(d)'
    BY DEF AnswerInv, AnswerOf
  <2>1. AnswerOf(d) /\ (outcome[d] # "none" => asked[d] \in Ask)
    BY DEF IInv, AnswerInv, AnswerOf, TypeOK, PhaseInv
  <2> QED BY <1>1, <2>1 DEF OthersKeep, CallInv, AnswerOf, Committed, Ask
<1>4. CollisionInv'
  <2> SUFFICES ASSUME NEW d \in Caller PROVE CollisionOf(d)'
    BY DEF CollisionInv, CollisionOf
  <2>1. CollisionOf(d) /\ (asked[d] # None => asked[d] \in Ask)
    BY DEF IInv, CollisionInv, CollisionOf, TypeOK
  <2> QED BY <1>1, <2>1 DEF OthersKeep, CallInv, CollisionOf, Committed, Ask
<1> QED
  BY <1>2, <1>3, <1>4

\* The three steps that write.
LEMMA InsertKeyKeeps ==
  ASSUME IInv, NEW c \in Caller, InsertKey(c)
  PROVE  WrittenInv' /\ KeyInv' /\ RowInv' /\ SeqInv'
<1>1. written[c] = <<>>
  BY DEF IInv, PhaseInv, Writing, InsertKey
<1>2. WrittenInv'
  BY <1>1 DEF IInv, WrittenInv, Writing, InsertKey, TypeOK
<1>3. KeyInv'
  BY DEF IInv, KeyInv, Writing, InsertKey, InsertInProgress, TypeOK, Committed
<1>4. RowInv'
  BY DEF IInv, RowInv, InsertKey, Committed
<1>5. SeqInv'
  BY DEF IInv, SeqInv, InsertKey, SeqsDistinct, SeqsApart, SeqsDrawn, EntriesOf, Committed
<1> QED
  BY <1>2, <1>3, <1>4, <1>5

LEMMA InsertEntryKeeps ==
  ASSUME IInv, NEW c \in Caller, InsertEntry(c)
  PROVE  WrittenInv' /\ KeyInv' /\ RowInv' /\ SeqInv'
<1> DEFINE leg   == asked[c].request[Len(written[c]) + 1]
           entry == [leg |-> leg, seq |-> next_seq]
<1>1. CASE ledger_entry_account_currency_fkey(leg)
  <2>1. /\ written' = [written EXCEPT ![c] = Append(written[c], entry)]
        /\ next_seq' = next_seq + 1
        /\ pc' = [pc EXCEPT ![c] = IF Len(written[c]) + 1 = Len(asked[c].request)
                                     THEN "commit" ELSE "entries"]
        /\ UNCHANGED <<ledger_transaction, asked>>
    BY <1>1 DEF InsertEntry, nextval
  <2>2. written[c] \in Seq(Entry) /\ Writing(c)
    BY DEF IInv, TypeOK, InsertEntry, Writing
  <2> DEFINE n == Len(written[c]) + 1
  <2>3. /\ \A i : i \in DOMAIN written'[c] <=> i \in DOMAIN written[c] \/ i = n
        /\ n \notin DOMAIN written[c]
        /\ \A i \in DOMAIN written[c] : written'[c][i] = written[c][i]
        /\ written'[c][n] = entry
    BY <2>1, <2>2 DEF IInv, TypeOK
  <2>4. \A d \in Caller \ {c} : written'[d] = written[d]
    BY <2>1 DEF IInv, TypeOK
  <2>5. WrittenInv'
    BY <2>1, <2>2, <2>3, <2>4 DEF IInv, WrittenInv, Writing, TypeOK
  <2>6. KeyInv'
    BY <2>1, <2>2 DEF IInv, KeyInv, Writing, Committed, TypeOK
  <2>7. RowInv'
    BY <2>1 DEF IInv, RowInv, Committed
  <2>8. SeqInv'
    <3>1. next_seq \in Nat /\ entry.seq = next_seq /\ next_seq' = next_seq + 1
      BY <2>1 DEF IInv, TypeOK
    <3>2. ASSUME NEW s \in Seq(Entry), NEW i \in DOMAIN s PROVE s[i].seq \in Nat
      <4>1. s[i] \in Entry
        OBVIOUS
      <4> QED BY <4>1 DEF Entry
    <3>3. \A d \in Caller : written[d] \in Seq(Entry)
      BY DEF IInv, TypeOK
    <3>4. \A d \in Caller : \A i \in DOMAIN written[d] : written[d][i].seq \in Nat
      BY <3>2, <3>3
    <3>5. \A k \in Key : Committed(k) => \A i \in DOMAIN EntriesOf(k) : EntriesOf(k)[i].seq \in Nat
      <4> SUFFICES ASSUME NEW k \in Key, Committed(k) PROVE EntriesOf(k) \in Seq(Entry)
        BY <3>2
      <4> QED BY DEF IInv, TypeOK, Committed, EntriesOf, Row
    <3>6. \A d \in Caller : SeqsDistinct(written[d])' /\ SeqsDrawn(written[d])'
      <4> SUFFICES ASSUME NEW d \in Caller PROVE SeqsDistinct(written'[d]) /\ SeqsDrawn(written[d])'
        BY DEF SeqsDistinct
      <4>1. SeqsDistinct(written[d]) /\ SeqsDrawn(written[d])
        BY DEF IInv, SeqInv
      <4>2. CASE d = c
        BY <2>3, <3>1, <3>4, <4>1, <4>2 DEF SeqsDistinct, SeqsDrawn
      <4>3. CASE d # c
        BY <2>4, <3>1, <3>4, <4>1, <4>3 DEF SeqsDistinct, SeqsDrawn
      <4> QED BY <4>2, <4>3
    <3>7. ASSUME NEW d \in Caller, d # c
          PROVE  SeqsApart(written'[c], written'[d]) /\ SeqsApart(written'[d], written'[c])
      <4>1. SeqsApart(written[c], written[d]) /\ SeqsApart(written[d], written[c])
            /\ SeqsDrawn(written[d])
        BY <3>7 DEF IInv, SeqInv
      <4> QED BY <2>3, <2>4, <3>1, <3>4, <3>7, <4>1 DEF SeqsApart, SeqsDrawn
    <3>8. ASSUME NEW d \in Caller, NEW e \in Caller, d # e
          PROVE  SeqsApart(written'[d], written'[e])
      <4>1. CASE d = c \/ e = c
        BY <3>7, <3>8, <4>1
      <4>2. CASE d # c /\ e # c
        BY <2>4, <3>8, <4>2 DEF IInv, SeqInv
      <4> QED BY <4>1, <4>2
    <3>9. ASSUME NEW k \in Key, Committed(k)
          PROVE  /\ SeqsDistinct(EntriesOf(k)) /\ SeqsDrawn(EntriesOf(k))'
                 /\ \A d \in Caller : SeqsApart(EntriesOf(k), written'[d])
      <4>1. /\ SeqsDistinct(EntriesOf(k)) /\ SeqsDrawn(EntriesOf(k))
            /\ \A d \in Caller : SeqsApart(EntriesOf(k), written[d])
        BY <3>9 DEF IInv, SeqInv
      <4>2. SeqsDrawn(EntriesOf(k))'
        BY <2>1, <3>1, <3>5, <3>9, <4>1 DEF SeqsDrawn, EntriesOf
      <4>3. SeqsApart(EntriesOf(k), written'[c])
        BY <2>3, <3>1, <3>5, <3>9, <4>1 DEF SeqsDrawn, SeqsApart
      <4> QED BY <2>4, <4>1, <4>2, <4>3
    <3>10. /\ \A k \in Key : Committed(k)' <=> Committed(k)
           /\ \A k \in Key : EntriesOf(k)' = EntriesOf(k)
      BY <2>1 DEF Committed, EntriesOf
    <3> QED BY <3>6, <3>8, <3>9, <3>10 DEF IInv, SeqInv, SeqsDistinct, SeqsApart
  <2> QED BY <2>5, <2>6, <2>7, <2>8
<1>2. CASE ~ ledger_entry_account_currency_fkey(leg)
  <2>1. EndTransaction(c, "done") /\ UNCHANGED <<ledger_transaction, next_seq, asked>>
    BY <1>2 DEF InsertEntry, Answer
  <2> QED BY <2>1, EndTransactionReleases, ReleaseKeeps DEF IInv
<1> QED
  BY <1>1, <1>2

LEMMA CommitKeeps ==
  ASSUME IInv, NEW c \in Caller, Commit(c)
  PROVE  WrittenInv' /\ KeyInv' /\ RowInv' /\ SeqInv'
<1> DEFINE key == asked[c].key
           row == [request_hash |-> hashOf[asked[c].request], entries |-> written[c]]
<1>1. /\ ledger_transaction' = [ledger_transaction EXCEPT ![key] = row]
      /\ EndTransaction(c, "done")
      /\ UNCHANGED <<next_seq, asked>>
  BY DEF Commit, Answer
<1>2. /\ key \in Key /\ Writing(c) /\ ~ Committed(key)
      /\ Legs(written[c]) = asked[c].request
      /\ assertBalanced(asked[c].request)
  BY AskedIsAsk, WrittenIsRequest DEF IInv, Commit, Writing, KeyInv, PhaseInv
<1>3. /\ pc'[c] = "done" /\ written'[c] = <<>>
      /\ \A d \in Caller \ {c} : pc'[d] = pc[d] /\ written'[d] = written[d]
  BY <1>1 DEF EndTransaction, IInv, TypeOK
<1>4. /\ ledger_transaction'[key] = row
      /\ \A k \in Key \ {key} : ledger_transaction'[k] = ledger_transaction[k]
  BY <1>1, <1>2 DEF IInv, TypeOK
<1>5. WrittenInv'
  BY <1>1, <1>3 DEF IInv, WrittenInv, Writing
<1>6. KeyInv'
  <2> SUFFICES ASSUME NEW d \in Caller, Writing(d)'
               PROVE  /\ ~ Committed(asked[d].key)'
                      /\ \A e \in Caller : Writing(e)' /\ asked'[e].key = asked'[d].key => e = d
    BY DEF KeyInv
  <2>1. d # c /\ Writing(d) /\ pc[d] # "idle"
    BY <1>3 DEF Writing
  <2>2. asked[d].key # key /\ ~ Committed(asked[d].key) /\ asked[d].key \in Key
    BY <1>2, <2>1, AskedIsAsk DEF IInv, KeyInv
  <2> QED
    BY <1>1, <1>3, <1>4, <2>1, <2>2 DEF IInv, KeyInv, Committed, Writing
<1>7. RowInv'
  <2>1. asked[c].request \in Request
    BY <1>2, AskedIsAsk DEF Writing, IInv, PhaseInv
  <2>2. hashOf[asked[c].request] = requestHashOf(Legs(written[c]))
    BY <1>2, <2>1 DEF hashOf
  <2> QED
    BY <1>2, <1>4, <2>2 DEF IInv, RowInv, Committed
<1>8. SeqInv'
  <2>1. /\ SeqsDistinct(written[c]) /\ SeqsDrawn(written[c])
        /\ \A d \in Caller \ {c} : SeqsApart(written[c], written[d])
    BY DEF IInv, SeqInv
  <2>2. \A k \in Key : Committed(k) => /\ SeqsApart(EntriesOf(k), written[c])
                                      /\ SeqsApart(written[c], EntriesOf(k))
    BY DEF IInv, SeqInv, SeqsApart
  <2>3. /\ ledger_transaction'[key].entries = written[c]
        /\ \A k \in Key \ {key} : ledger_transaction'[k].entries = EntriesOf(k)
    BY <1>4 DEF EntriesOf
  <2>4. \A d \in Caller : written'[d] = <<>> \/ (d # c /\ written'[d] = written[d])
    BY <1>3
  <2>5. \A s : SeqsDistinct(<<>>) /\ SeqsDrawn(<<>>) /\ SeqsApart(s, <<>>) /\ SeqsApart(<<>>, s)
    BY DEF SeqsDistinct, SeqsDrawn, SeqsApart
  <2>6. \A d \in Caller : SeqsDistinct(written'[d]) /\ SeqsDrawn(written'[d])
    BY <2>4, <2>5 DEF IInv, SeqInv
  <2>7. \A d, e \in Caller : d # e => SeqsApart(written'[d], written'[e])
    BY <2>4, <2>5 DEF IInv, SeqInv
  <2>8. ASSUME NEW k \in Key, ledger_transaction'[k] # None
        PROVE  /\ SeqsDistinct(ledger_transaction'[k].entries)
               /\ SeqsDrawn(ledger_transaction'[k].entries)
               /\ \A d \in Caller : SeqsApart(ledger_transaction'[k].entries, written'[d])
    <3>1. CASE k = key
      BY <2>1, <2>3, <2>4, <2>5, <3>1
    <3>2. CASE k # key
      <4>1. Committed(k) /\ ledger_transaction'[k].entries = EntriesOf(k)
        BY <1>4, <2>3, <2>8, <3>2 DEF Committed
      <4> QED BY <2>4, <2>5, <4>1 DEF IInv, SeqInv
    <3> QED BY <3>1, <3>2
  <2>9. ASSUME NEW j \in Key, NEW k \in Key, j # k,
               ledger_transaction'[j] # None, ledger_transaction'[k] # None
        PROVE  SeqsApart(ledger_transaction'[j].entries, ledger_transaction'[k].entries)
    <3>1. CASE j = key
      BY <1>4, <2>2, <2>3, <2>9, <3>1 DEF Committed
    <3>2. CASE k = key
      BY <1>4, <2>2, <2>3, <2>9, <3>2 DEF Committed
    <3>3. CASE j # key /\ k # key
      BY <1>4, <2>3, <2>9, <3>3 DEF IInv, SeqInv, Committed
    <3> QED BY <3>1, <3>2, <3>3
  <2> QED
    BY <1>1, <2>6, <2>7, <2>8, <2>9
       DEF SeqInv, SeqsDistinct, SeqsDrawn, SeqsApart, EntriesOf, Committed
<1> QED
  BY <1>5, <1>6, <1>7, <1>8

LEMMA StepIInv ==
  ASSUME IInv, [Next]_vars
  PROVE  IInv'
<1>1. ASSUME NEW c \in Caller, CallStep(c) PROVE IInv'
  <2>1. TypeOK'
    BY <1>1, StepTypeOK DEF IInv
  <2>2. PhaseInv' /\ AnswerInv' /\ CollisionInv'
    BY <1>1, StepCallsInv
  <2>3. WrittenInv' /\ KeyInv' /\ RowInv' /\ SeqInv'
    BY <1>1, ReleasingSteps, ReleaseKeeps, InsertKeyKeeps, InsertEntryKeeps, CommitKeeps
       DEF CallStep
  <2> QED BY <2>1, <2>2, <2>3 DEF IInv
<1>2. CASE UNCHANGED vars
  BY <1>2 DEF IInv, TypeOK, PhaseInv, WrittenInv, KeyInv, RowInv, AnswerInv, CollisionInv, SeqInv,
              SeqsDistinct, SeqsApart, SeqsDrawn, EntriesOf, Committed, Writing, vars, callVars
<1> QED
  BY <1>1, <1>2 DEF Next

\* The inductive invariant holds in every reachable state.
THEOREM Invariance == Spec => []IInv
<1>1. Init => IInv
  BY InitIInv
<1>2. IInv /\ [Next]_vars => IInv'
  BY StepIInv
<1> QED
  BY <1>1, <1>2, PTL DEF Spec

(***************************************************************************)
(* What follows from it.                                                   *)
(***************************************************************************)

\* Every variable keeps its type, for every number of callers and keys.
THEOREM TypeCorrect == Spec => []TypeOK
<1>1. IInv => TypeOK
  BY DEF IInv
<1> QED
  BY <1>1, Invariance, PTL

\* post() never answers for legs other than the caller's: the row under the key
\* of a call answered "posted" or "replayed" holds the legs of its request.
THEOREM AnswersAreBacked == Spec => []AnswersWhatWasAsked
<1>1. IInv => AnswersWhatWasAsked
  <2> SUFFICES ASSUME IInv, NEW c \in Caller, outcome[c] \in {"posted", "replayed"}
               PROVE  /\ Committed(asked[c].key)
                      /\ requestHashOf(Legs(ledger_transaction[asked[c].key].entries))
                           = hashOf[asked[c].request]
    BY AskedIsAsk DEF AnswersWhatWasAsked, IInv, PhaseInv, hashOf, requestHashOf
  <2>1. asked[c].key \in Key
    BY AskedIsAsk DEF IInv, PhaseInv
  <2> QED
    BY <2>1 DEF IInv, AnswerInv, RowInv
<1> QED
  BY <1>1, Invariance, PTL

\* With two attempts or more in the loop of post(), no call ends without an
\* answer about its key: the loser of a race sees the winner the second time.
LEMMA StepLosersReplay ==
  ASSUME MAX_COLLISION_ATTEMPTS > 1, IInv, LosersReplay, [Next]_vars
  PROVE  LosersReplay'
<1>1. ASSUME NEW c \in Caller, CallStep(c) PROVE LosersReplay'
  <2>1. \A d \in Caller \ {c} : outcome'[d] = outcome[d]
    BY <1>1, StepOthersKeep DEF OthersKeep
  <2>2. outcome'[c] # "unresolved"
    <3>1. CASE ConcurrentKeyInsert(c)
      <4>1. attempt[c] \in Nat /\ ~ (attempt[c] > 1)
        BY <3>1 DEF ConcurrentKeyInsert, IInv, TypeOK, CollisionInv
      <4>2. attempt[c] < MAX_COLLISION_ATTEMPTS
        BY <4>1, LedgerAssumption
      <4> QED BY <3>1, <4>2 DEF ConcurrentKeyInsert, LosersReplay
    <3>2. CASE ~ ConcurrentKeyInsert(c)
      BY <1>1, <3>2 DEF CallStep, post, Begin, InsertKey, FindByKey, InsertEntry, Commit, Leave,
            SerializationFailure, Answer, IInv, TypeOK, LosersReplay
    <3> QED BY <3>1, <3>2
  <2> QED BY <2>1, <2>2 DEF LosersReplay
<1>2. CASE UNCHANGED vars
  BY <1>2 DEF vars, callVars, LosersReplay
<1> QED
  BY <1>1, <1>2 DEF Next

THEOREM RacesAreDecided ==
  ASSUME MAX_COLLISION_ATTEMPTS > 1
  PROVE  Spec => []LosersReplay
<1>1. Init => LosersReplay
  BY DEF Init, LosersReplay
<1>2. IInv /\ LosersReplay /\ [Next]_vars => LosersReplay'
  BY StepLosersReplay
<1> QED
  BY <1>1, <1>2, Invariance, PTL DEF Spec

\* Entry seqs are unique over all postings, though they are drawn outside any
\* transaction and rollbacks leave gaps.
THEOREM SeqsUnique == Spec => []SeqsAreUnique
<1>1. IInv => SeqsAreUnique
  <2> SUFFICES ASSUME IInv, NEW j \in Key, NEW k \in Key, Committed(j), Committed(k),
                      NEW x \in DOMAIN EntriesOf(j), NEW y \in DOMAIN EntriesOf(k),
                      EntriesOf(j)[x].seq = EntriesOf(k)[y].seq
               PROVE  j = k /\ x = y
    BY DEF SeqsAreUnique, EntriesOf
  <2>1. j = k
    BY DEF IInv, SeqInv, SeqsApart
  <2> QED
    BY <2>1 DEF IInv, SeqInv, SeqsDistinct
<1> QED
  BY <1>1, Invariance, PTL

\* No step writes a committed posting again.
THEOREM PostingsFinal == Spec => PostingsAreForGood
<1> DEFINE Kept == \A k \in Key : Committed(k) => ledger_transaction'[k] = ledger_transaction[k]
<1>1. IInv /\ [Next]_vars => [Kept]_vars
  BY StepOthersKeep DEF OthersKeep, Next
<1> QED
  BY <1>1, Invariance, PTL DEF Spec, PostingsAreForGood

(***************************************************************************)
(* The detailed ledger implements the abstract one.                        *)
(***************************************************************************)

HashOf(k) == IF Committed(k) THEN ledger_transaction[k].request_hash ELSE None
AskOf(c) == IF asked[c] = None THEN None
            ELSE [key |-> asked[c].key, hash |-> hashOf[asked[c].request],
                  answer |-> AbstractAnswer(outcome[c])]

LEMMA InitRefines == Init => Abstract!Init
BY DEF Init, Abstract!Init, postedHash, abstractAsk, Committed

\* A step of c leaves what the others ask, and what they were answered.
LEMMA OthersAskTheSame ==
  ASSUME IInv, NEW c \in Caller, CallStep(c), NEW v, AskOf(c)' = v
  PROVE  abstractAsk' = [abstractAsk EXCEPT ![c] = v]
<1>1. \A d \in Caller \ {c} : asked'[d] = asked[d] /\ outcome'[d] = outcome[d]
  BY StepOthersKeep DEF OthersKeep
<1> QED
  BY <1>1 DEF abstractAsk, AskOf

\* A step that changes neither the rows nor what c asks and is answered stutters.
LEMMA Stutters ==
  ASSUME IInv, NEW c \in Caller, CallStep(c),
         ledger_transaction' = ledger_transaction,
         asked'[c] = asked[c], outcome'[c] = outcome[c]
  PROVE  UNCHANGED <<postedHash, abstractAsk>>
<1>1. \A d \in Caller : asked'[d] = asked[d] /\ outcome'[d] = outcome[d]
  BY StepOthersKeep DEF OthersKeep
<1> QED
  BY <1>1 DEF postedHash, abstractAsk, Committed

\* An answer with nothing written changes the abstract ask alone.
LEMMA AnswerRefines ==
  ASSUME IInv, NEW c \in Caller, CallStep(c), NEW result \in Outcome \ {"none", "posted"},
         Answer(c, result), UNCHANGED <<ledger_transaction, asked>>, pc[c] # "idle",
         pc[c] # "done"
  PROVE  /\ Abstract!Decide(c, AbstractAnswer(result))
         /\ UNCHANGED postedHash
         /\ abstractAsk[c].key = asked[c].key
         /\ abstractAsk[c].hash = hashOf[asked[c].request]
<1> DEFINE before == [key |-> asked[c].key, hash |-> hashOf[asked[c].request],
                      answer |-> "none"]
<1>1. asked[c] # None /\ asked[c].key \in Key /\ asked[c].request \in Request
      /\ outcome[c] = "none"
  BY AskedIsAsk DEF IInv, PhaseInv
<1>2. abstractAsk[c] = before
  BY <1>1 DEF abstractAsk, AbstractAnswer
<1>3. abstractAsk[c] \in Abstract!Waiting
  BY <1>1, <1>2 DEF Abstract!Waiting
<1>4. outcome'[c] = result /\ asked'[c] = asked[c]
  BY DEF Answer, IInv, TypeOK
<1>5. AskOf(c)' = [before EXCEPT !.answer = AbstractAnswer(result)]
  BY <1>1, <1>4 DEF AskOf
<1>6. abstractAsk' = [abstractAsk EXCEPT ![c].answer = AbstractAnswer(result)]
  BY <1>2, <1>5, OthersAskTheSame
<1>7. UNCHANGED postedHash
  BY DEF postedHash, Committed
<1> QED
  BY <1>2, <1>3, <1>6, <1>7 DEF Abstract!Decide

LEMMA PostRefines ==
  ASSUME IInv, NEW c \in Caller, NEW k \in Key, NEW q \in Request, post(c, k, q)
  PROVE  Abstract!Ask(c, k, hashOf[q])
<1>1. CallStep(c)
  BY DEF CallStep
<1>2. [key |-> k, request |-> q] # None /\ asked'[c] = [key |-> k, request |-> q]
  BY LedgerAssumption DEF post, Ask, IInv, TypeOK
<1>3. outcome[c] = "none" /\ outcome'[c] = "none" /\ asked[c] = None
  BY DEF post, IInv, PhaseInv
<1>4. AskOf(c)' = [key |-> k, hash |-> hashOf[q], answer |-> "none"]
  BY <1>2, <1>3 DEF AskOf, AbstractAnswer
<1>5. abstractAsk' = [abstractAsk EXCEPT
                        ![c] = [key |-> k, hash |-> hashOf[q], answer |-> "none"]]
  BY <1>1, <1>4, OthersAskTheSame
<1>6. abstractAsk[c] = None
  BY <1>3 DEF abstractAsk
<1>7. UNCHANGED postedHash
  BY DEF post, postedHash, Committed
<1> QED
  BY <1>5, <1>6, <1>7 DEF Abstract!Ask

LEMMA CommitRefines ==
  ASSUME IInv, NEW c \in Caller, Commit(c)
  PROVE  Abstract!Post(c)
<1> DEFINE key    == asked[c].key
           hash   == hashOf[asked[c].request]
           before == [key |-> key, hash |-> hash, answer |-> "none"]
<1>1. CallStep(c)
  BY DEF CallStep
<1>2. /\ asked[c] # None /\ key \in Key /\ asked[c].request \in Request
      /\ outcome[c] = "none" /\ ~ Committed(key)
      /\ written[c] \in Seq(Entry)
  BY AskedIsAsk DEF IInv, TypeOK, PhaseInv, KeyInv, Writing, Commit
<1>3. abstractAsk[c] = before
  BY <1>2 DEF abstractAsk, AbstractAnswer
<1>4. abstractAsk[c] \in Abstract!Waiting
  BY <1>2, <1>3 DEF Abstract!Waiting
<1>5. outcome'[c] = "posted" /\ asked'[c] = asked[c]
  BY DEF Commit, Answer, IInv, TypeOK
<1>6. AskOf(c)' = [before EXCEPT !.answer = "posted"]
  BY <1>2, <1>5 DEF AskOf, AbstractAnswer
<1>7. abstractAsk' = [abstractAsk EXCEPT ![c].answer = "posted"]
  BY <1>1, <1>3, <1>6, OthersAskTheSame
<1>8. postedHash[key] = None
  BY <1>2 DEF postedHash
<1>9. postedHash' = [postedHash EXCEPT ![key] = hash]
  <2>1. ledger_transaction' =
          [ledger_transaction EXCEPT ![key] = [request_hash |-> hash, entries |-> written[c]]]
    BY DEF Commit
  <2>2. [request_hash |-> hash, entries |-> written[c]] # None
    BY <1>2, LedgerAssumption DEF Row
  <2> QED
    BY <1>2, <2>1, <2>2 DEF postedHash, Committed, IInv, TypeOK
<1> QED
  BY <1>3, <1>4, <1>7, <1>8, <1>9 DEF Abstract!Post, Abstract!Decide

LEMMA FindByKeyRefines ==
  ASSUME IInv, NEW c \in Caller, FindByKey(c)
  PROVE  Abstract!Replay(c) \/ Abstract!Conflict(c)
<1>1. /\ CallStep(c) /\ pc[c] # "idle" /\ pc[c] # "done"
      /\ UNCHANGED <<ledger_transaction, asked>>
  BY DEF CallStep, FindByKey
<1>2. asked[c].key \in Key /\ asked[c].request \in Request /\ Committed(asked[c].key)
  BY AskedIsAsk DEF IInv, FindByKey
<1>3. postedHash[asked[c].key] = ledger_transaction[asked[c].key].request_hash
  BY <1>2 DEF postedHash
<1>4. CASE sameRequest(c)
  <2>1. Answer(c, "replayed")
    BY <1>4 DEF FindByKey
  <2>2. "replayed" \in Outcome \ {"none", "posted"} /\ AbstractAnswer("replayed") = "replayed"
    BY DEF Outcome, AbstractAnswer
  <2>3. /\ Abstract!Decide(c, "replayed") /\ UNCHANGED postedHash
        /\ abstractAsk[c].key = asked[c].key
        /\ abstractAsk[c].hash = hashOf[asked[c].request]
    BY <1>1, <2>1, <2>2, AnswerRefines
  <2> QED BY <1>3, <1>4, <2>3 DEF sameRequest, Abstract!Replay
<1>5. CASE ~ sameRequest(c)
  <2>1. Answer(c, "IdempotencyConflict")
    BY <1>5 DEF FindByKey
  <2>2. /\ "IdempotencyConflict" \in Outcome \ {"none", "posted"}
        /\ AbstractAnswer("IdempotencyConflict") = "conflict"
    BY DEF Outcome, AbstractAnswer
  <2>3. /\ Abstract!Decide(c, "conflict") /\ UNCHANGED postedHash
        /\ abstractAsk[c].key = asked[c].key
        /\ abstractAsk[c].hash = hashOf[asked[c].request]
    BY <1>1, <2>1, <2>2, AnswerRefines
  <2>4. postedHash[asked[c].key] # None
    <3>1. ledger_transaction[asked[c].key].request_hash \in {hashOf[q] : q \in Request}
      BY <1>2 DEF IInv, TypeOK, Row, Committed
    <3> QED BY <1>3, <3>1, LedgerAssumption
  <2> QED BY <1>3, <1>5, <2>3, <2>4 DEF sameRequest, Abstract!Conflict
<1> QED
  BY <1>4, <1>5

\* The three ways a call fails look alike from outside.
LEMMA FailureRefines ==
  ASSUME IInv, NEW c \in Caller, CallStep(c),
         NEW result \in {"unresolved", "SerializationRetryExhausted", "refused"},
         Answer(c, result), UNCHANGED <<ledger_transaction, asked>>, pc[c] # "idle",
         pc[c] # "done"
  PROVE  Abstract!Fail(c)
<1>1. result \in Outcome \ {"none", "posted"} /\ AbstractAnswer(result) = "failed"
  BY DEF Outcome, AbstractAnswer
<1> QED
  BY <1>1, AnswerRefines DEF Abstract!Fail

\* What is asked in LedgerSpec is never mistaken for nothing asked.
LEMMA AskedSomething ==
  ASSUME IInv, NEW c \in Caller, asked[c] # None
  PROVE  AskOf(c) # None
<1>1. asked[c] \in Ask
  BY DEF IInv, TypeOK
<1>2. AskOf(c) \in AbstractAsk
  BY <1>1 DEF AskOf, AbstractAsk, AbstractAnswer, Ask
<1> QED
  BY <1>2, LedgerAssumption

LEMMA LeaveRefines ==
  ASSUME IInv, NEW c \in Caller, Leave(c)
  PROVE  Abstract!Leave(c)
<1>1. CallStep(c) /\ asked'[c] = None
  BY DEF CallStep, Leave, IInv, TypeOK
<1>2. abstractAsk' = [abstractAsk EXCEPT ![c] = None]
  BY <1>1, OthersAskTheSame DEF AskOf
<1>3. abstractAsk[c] # None
  <2>1. asked[c] # None
    BY DEF Leave, IInv, PhaseInv
  <2>2. abstractAsk[c] = AskOf(c)
    BY DEF abstractAsk, AskOf
  <2> QED BY <2>1, <2>2, AskedSomething
<1>4. UNCHANGED postedHash
  BY DEF Leave, postedHash, Committed
<1> QED
  BY <1>2, <1>3, <1>4 DEF Abstract!Leave

LEMMA StepRefines ==
  ASSUME IInv, [Next]_vars
  PROVE  [Abstract!Next]_Abstract!specVars
<1> USE DEF Abstract!specVars
<1>1. ASSUME NEW c \in Caller, CallStep(c)
      PROVE  Abstract!Next \/ UNCHANGED <<postedHash, abstractAsk>>
  <2>1. ASSUME NEW k \in Key, NEW q \in Request, post(c, k, q) PROVE Abstract!Next
    BY <2>1, PostRefines DEF Abstract!Next
  <2>2. CASE Begin(c)
    BY <1>1, <2>2, Stutters DEF Begin
  <2>3. CASE InsertKey(c)
    BY <1>1, <2>3, Stutters DEF InsertKey
  <2>4. CASE FindByKey(c)
    BY <2>4, FindByKeyRefines DEF Abstract!Next
  <2>5. CASE ConcurrentKeyInsert(c)
    <3>1. /\ pc[c] # "idle" /\ pc[c] # "done" /\ UNCHANGED <<ledger_transaction, asked>>
          /\ Answer(c, "unresolved") \/ UNCHANGED outcome
      BY <2>5 DEF ConcurrentKeyInsert
    <3> QED BY <1>1, <3>1, FailureRefines, Stutters DEF Abstract!Next
  <2>6. CASE InsertEntry(c)
    <3>1. /\ pc[c] # "idle" /\ pc[c] # "done" /\ UNCHANGED <<ledger_transaction, asked>>
          /\ Answer(c, "refused") \/ UNCHANGED outcome
      BY <2>6 DEF InsertEntry
    <3> QED BY <1>1, <3>1, FailureRefines, Stutters DEF Abstract!Next
  <2>7. CASE Commit(c)
    BY <2>7, CommitRefines DEF Abstract!Next
  <2>8. CASE SerializationFailure(c)
    <3>1. /\ pc[c] # "idle" /\ pc[c] # "done" /\ UNCHANGED <<ledger_transaction, asked>>
          /\ Answer(c, "SerializationRetryExhausted") \/ UNCHANGED outcome
      BY <2>8 DEF SerializationFailure, InTransaction
    <3> QED BY <1>1, <3>1, FailureRefines, Stutters DEF Abstract!Next
  <2>9. CASE Leave(c)
    BY <2>9, LeaveRefines DEF Abstract!Next
  <2> QED
    BY <1>1, <2>1, <2>2, <2>3, <2>4, <2>5, <2>6, <2>7, <2>8, <2>9 DEF CallStep
<1>2. CASE UNCHANGED vars
  BY <1>2 DEF vars, callVars, postedHash, abstractAsk, Committed
<1> QED
  BY <1>1, <1>2 DEF Next

\* post() under concurrency, retries and crashes implements the ledger that
\* posts a key at most once and answers for what was posted.
THEOREM Refinement == Spec => ImplementsLedgerSpec
<1>1. Init => Abstract!Init
  BY InitRefines
<1>2. IInv /\ [Next]_vars => [Abstract!Next]_Abstract!specVars
  BY StepRefines
<1> QED
  BY <1>1, <1>2, Invariance, PTL DEF Spec, ImplementsLedgerSpec, Abstract!Spec

(***************************************************************************)
(* PART TWO.  The balances.                                                *)
(***************************************************************************)

(***************************************************************************)
(* Every entry is in the currency of its account, and there are finitely   *)
(* many postings.                                                          *)
(***************************************************************************)

LEMMA InitBooksInv == Init => BooksInv
<1> SUFFICES ASSUME Init PROVE BooksInv
  OBVIOUS
<1>1. AccountsHoldTheirCurrency
  BY DEF Init, AccountsHoldTheirCurrency, Committed
<1>2. {k \in Key : Committed(k)} = {}
  BY DEF Init, Committed
<1>3. FinitelyManyRows
  BY <1>2, FS_EmptySet DEF FinitelyManyRows
<1> QED
  BY <1>1, <1>3, InitIInv DEF BooksInv

LEMMA StepFinitelyManyRows ==
  ASSUME FinitelyManyRows, IInv, NEW c \in Caller, CallStep(c)
  PROVE  FinitelyManyRows'
<1> DEFINE Rows0 == {k \in Key : Committed(k)}
<1>1. ledger_transaction' = ledger_transaction \/ Commit(c)
  BY DEF CallStep, post, Begin, InsertKey, FindByKey, ConcurrentKeyInsert, InsertEntry,
         SerializationFailure, Leave
<1>2. {k \in Key : Committed(k)}' \subseteq Rows0 \cup {asked[c].key}
  <2>1. CASE ledger_transaction' = ledger_transaction
    BY <2>1 DEF Committed
  <2>2. CASE Commit(c)
    <3>1. \A k \in Key \ {asked[c].key} : ledger_transaction'[k] = ledger_transaction[k]
      BY <2>2 DEF Commit, IInv, TypeOK
    <3> QED BY <3>1 DEF Committed
  <2> QED BY <1>1, <2>1, <2>2
<1>3. IsFiniteSet(Rows0 \cup {asked[c].key})
  BY FS_AddElement DEF FinitelyManyRows
<1> QED
  BY <1>2, <1>3, FS_Subset DEF FinitelyManyRows

LEMMA StepAccountsHoldTheirCurrency ==
  ASSUME AccountsHoldTheirCurrency, IInv, NEW c \in Caller, CallStep(c)
  PROVE  AccountsHoldTheirCurrency'
<1>1. CASE Released(c)
  BY <1>1 DEF Released, AccountsHoldTheirCurrency, Committed, EntriesOf
<1>2. CASE InsertKey(c)
  BY <1>2 DEF InsertKey, AccountsHoldTheirCurrency, Committed, EntriesOf
<1>3. CASE InsertEntry(c)
  <2> DEFINE leg == asked[c].request[Len(written[c]) + 1]
             entry == [leg |-> leg, seq |-> nextval]
  <2>1. ledger_transaction' = ledger_transaction /\ asked' = asked
    BY <1>3 DEF InsertEntry
  <2>2. CASE ledger_entry_account_currency_fkey(leg)
    <3>1. written' = [written EXCEPT ![c] = Append(written[c], entry)]
      BY <1>3, <2>2 DEF InsertEntry
    <3>2. written[c] \in Seq(Entry) /\ written \in [Caller -> Seq(Entry)]
      BY DEF IInv, TypeOK
    <3>3. ASSUME NEW i \in DOMAIN Append(written[c], entry)
          PROVE  ledger_entry_account_currency_fkey(Append(written[c], entry)[i].leg)
      <4>1. CASE i \in DOMAIN written[c]
        <5>1. Append(written[c], entry)[i] = written[c][i]
          BY <3>2, <4>1
        <5> QED BY <4>1, <5>1 DEF AccountsHoldTheirCurrency
      <4>2. CASE i \notin DOMAIN written[c]
        <5>1. Append(written[c], entry)[i] = entry
          BY <3>2, <4>2
        <5> QED BY <2>2, <5>1
      <4> QED BY <4>1, <4>2
    <3> HIDE DEF entry, leg
    <3> QED
      BY <2>1, <3>1, <3>2, <3>3 DEF AccountsHoldTheirCurrency, Committed, EntriesOf
  <2>3. CASE ~ ledger_entry_account_currency_fkey(leg)
    <3>1. EndTransaction(c, "done") /\ UNCHANGED <<ledger_transaction, next_seq, asked>>
      BY <1>3, <2>3 DEF InsertEntry, Answer
    <3>2. Released(c)
      BY <3>1, EndTransactionReleases DEF IInv
    <3> QED BY <3>2, <1>1
  <2> QED BY <2>2, <2>3
<1>4. CASE Commit(c)
  <2> DEFINE key == asked[c].key
  <2>1. /\ ledger_transaction'[key].entries = written[c]
        /\ \A k \in Key \ {key} : ledger_transaction'[k] = ledger_transaction[k]
    <3>1. key \in Key
      BY <1>4, AskedIsAsk DEF Commit, IInv
    <3> QED BY <1>4, <3>1 DEF Commit, IInv, TypeOK
  <2>2. \A d \in Caller : written'[d] = written[d] \/ written'[d] = <<>>
    BY <1>4 DEF Commit, Answer, EndTransaction, IInv, TypeOK
  <2> HIDE DEF key
  <2> QED
    BY <2>1, <2>2 DEF AccountsHoldTheirCurrency, Committed, EntriesOf
<1> QED
  BY <1>1, <1>2, <1>3, <1>4, ReleasingSteps DEF CallStep

\* The invariant of the books holds in every reachable state.
THEOREM BooksInvariance == Spec => []BooksInv
<1>1. Init => BooksInv
  BY InitBooksInv
<1>2. BooksInv /\ [Next]_vars => BooksInv'
  <2> SUFFICES ASSUME BooksInv, [Next]_vars PROVE BooksInv'
    OBVIOUS
  <2>1. ASSUME NEW c \in Caller, CallStep(c) PROVE BooksInv'
    BY <2>1, StepIInv, StepAccountsHoldTheirCurrency, StepFinitelyManyRows DEF BooksInv
  <2>2. CASE UNCHANGED vars
    BY <2>2, StepIInv DEF BooksInv, AccountsHoldTheirCurrency, FinitelyManyRows, EntriesOf,
                          Committed, vars, callVars
  <2> QED BY <2>1, <2>2 DEF Next
<1> QED
  BY <1>1, <1>2, PTL DEF Spec

(***************************************************************************)
(* The sums.                                                               *)
(***************************************************************************)

LEMMA SignedIsAnInteger ==
  ASSUME NEW e \in Entry
  PROVE  signed(e) \in Int /\ e.leg \in Leg /\ e.leg.amount \in Int /\ e.seq \in Nat
BY DEF Entry, Leg, signed

\* One posting: in each currency, its debits less its credits are zero.
LEMMA BalancedRow ==
  ASSUME NEW entries \in Seq(Entry), SeqsDistinct(entries), assertBalanced(Legs(entries)),
         NEW currency \in AccountCurrencies,
         NEW f, \A e \in ToSet(entries) : f[e] = signed(e)
  PROVE  SumFunctionOnSet(f, {e \in ToSet(entries) : e.leg.currency = currency}) = 0
<1> DEFINE D == {i \in DOMAIN entries : /\ entries[i].leg.currency = currency
                                        /\ entries[i].leg.direction = "debit"}
           C == {i \in DOMAIN entries : /\ entries[i].leg.currency = currency
                                        /\ entries[i].leg.direction = "credit"}
           k == [i \in DOMAIN entries |-> f[entries[i]]]
           amount == [i \in DOMAIN entries |-> entries[i].leg.amount]
<1>1. IsFiniteSet(D) /\ IsFiniteSet(C) /\ IsFiniteSet(D \cup C) /\ D \cap C = {}
  <2>1. IsFiniteSet(DOMAIN entries)
    BY FS_Interval
  <2> QED BY <2>1, FS_Subset
<1>2. \A i \in DOMAIN entries : /\ entries[i] \in Entry /\ entries[i] \in ToSet(entries)
                                /\ f[entries[i]] = signed(entries[i])
  BY DEF ToSet
<1>3. {e \in ToSet(entries) : e.leg.currency = currency} = {entries[i] : i \in D \cup C}
  <2>1. \A i \in DOMAIN entries : entries[i].leg.direction \in {"debit", "credit"}
    BY <1>2 DEF Entry, Leg
  <2> QED BY <2>1 DEF ToSet
<1>4. SumFunctionOnSet(f, {entries[i] : i \in D \cup C}) = SumFunctionOnSet(k, D \cup C)
  <2>1. \A i, j \in D \cup C : entries[i] = entries[j] => i = j
    BY DEF SeqsDistinct
  <2>2. \A i \in D \cup C : f[entries[i]] \in Int /\ k[i] = f[entries[i]]
    BY <1>2, SignedIsAnInteger
  <2> HIDE DEF D, C, k
  <2> QED BY <1>1, <2>1, <2>2, SumImage
<1>5. SumFunctionOnSet(k, D \cup C) = SumFunctionOnSet(k, D) + SumFunctionOnSet(k, C)
  <2>1. \A i \in D \cup C : k[i] \in Int
    BY <1>2, SignedIsAnInteger
  <2> HIDE DEF D, C, k
  <2> QED BY <1>1, <2>1, SumUnion
<1>6. SumFunctionOnSet(k, D) = SumFunctionOnSet(amount, D)
  <2>1. \A i \in D : k[i] = amount[i]
    BY <1>2 DEF signed
  <2> HIDE DEF D, k, amount
  <2> QED BY <1>1, <2>1, SumAgrees
<1>7. SumFunctionOnSet(k, C) = - SumFunctionOnSet(amount, C)
  <2>1. \A i \in C : amount[i] \in Int /\ k[i] = - amount[i]
    BY <1>2, SignedIsAnInteger DEF signed
  <2> HIDE DEF C, k, amount
  <2> QED BY <1>1, <2>1, SumNegates
<1>8. SumFunctionOnSet(amount, C) \in Int
  <2>1. \A i \in C : amount[i] \in Int
    BY <1>2, SignedIsAnInteger
  <2> HIDE DEF C, amount
  <2> QED BY <1>1, <2>1, SumInt
<1>9. SumOfLegs(Legs(entries), currency, "debit") = SumFunctionOnSet(amount, D)
  <2> DEFINE counted0 == {i \in DOMAIN Legs(entries) : /\ Legs(entries)[i].currency = currency
                                                      /\ Legs(entries)[i].direction = "debit"}
             g == [i \in counted0 |-> Legs(entries)[i].amount]
  <2>1. counted0 = D /\ DOMAIN g = D
    BY DEF Legs
  <2>2. \A i \in D : g[i] = amount[i]
    BY DEF Legs
  <2>3. SumOfLegs(Legs(entries), currency, "debit") = SumFunctionOnSet(g, DOMAIN g)
    BY DEF SumOfLegs, SumFunction
  <2> HIDE DEF D, g, amount
  <2> QED BY <1>1, <2>1, <2>2, <2>3, SumAgrees
<1>10. SumOfLegs(Legs(entries), currency, "credit") = SumFunctionOnSet(amount, C)
  <2> DEFINE counted0 == {i \in DOMAIN Legs(entries) : /\ Legs(entries)[i].currency = currency
                                                      /\ Legs(entries)[i].direction = "credit"}
             g == [i \in counted0 |-> Legs(entries)[i].amount]
  <2>1. counted0 = C /\ DOMAIN g = C
    BY DEF Legs
  <2>2. \A i \in C : g[i] = amount[i]
    BY DEF Legs
  <2>3. SumOfLegs(Legs(entries), currency, "credit") = SumFunctionOnSet(g, DOMAIN g)
    BY DEF SumOfLegs, SumFunction
  <2> HIDE DEF C, g, amount
  <2> QED BY <1>1, <2>1, <2>2, <2>3, SumAgrees
<1>11. SumFunctionOnSet(amount, D) = SumFunctionOnSet(amount, C)
  BY <1>9, <1>10 DEF assertBalanced
<1>12. SumFunctionOnSet(f, {entries[i] : i \in D \cup C}) = 0
  <2> HIDE DEF D, C, k, amount
  <2> QED BY <1>4, <1>5, <1>6, <1>7, <1>8, <1>11
<1> HIDE DEF D, C
<1> QED
  BY <1>3, <1>12, Zenon

\* The entries of the books: finitely many, each of one posting.
LEMMA EntriesOfTheBooks ==
  ASSUME BooksInv
  PROVE  /\ IsFiniteSet(CommittedEntries)
         /\ \A k \in Key : Committed(k) => /\ EntriesOf(k) \in Seq(Entry)
                                          /\ ToSet(EntriesOf(k)) \subseteq CommittedEntries
         /\ \A e \in CommittedEntries : \E k \in Key : Committed(k) /\ e \in ToSet(EntriesOf(k))
         /\ \A e \in CommittedEntries :
              /\ e \in Entry /\ e.seq <= Now
              /\ e.leg.currency = AccountCurrency[e.leg.account]
         /\ \A j, k \in Key : Committed(j) /\ Committed(k) =>
              \A e \in ToSet(EntriesOf(j)) \cap ToSet(EntriesOf(k)) : j = k
<1> DEFINE keys == {k \in Key : Committed(k)}
           g == [k \in keys |-> ToSet(EntriesOf(k))]
<1>1. \A k \in keys : EntriesOf(k) \in Seq(Entry)
  BY DEF BooksInv, IInv, TypeOK, Row, EntriesOf, Committed
<1>2. CommittedEntries = UNION {g[k] : k \in keys}
  BY DEF CommittedEntries, EntriesOf
<1>3. \A k \in keys : IsFiniteSet(g[k])
  <2> SUFFICES ASSUME NEW k \in keys PROVE IsFiniteSet(g[k])
    OBVIOUS
  <2> DEFINE entries == EntriesOf(k)
  <2>1. g[k] = {entries[i] : i \in DOMAIN entries}
    BY DEF ToSet
  <2>2. IsFiniteSet(DOMAIN entries)
    BY <1>1, FS_Interval
  <2> HIDE DEF entries
  <2> QED BY <2>1, <2>2, FiniteImage
<1>4. IsFiniteSet(keys)
  BY DEF BooksInv, FinitelyManyRows
<1>5. IsFiniteSet({g[k] : k \in keys})
  <2> HIDE DEF keys, g
  <2> QED BY <1>4, FiniteImage
<1>6. IsFiniteSet(CommittedEntries)
  <2> HIDE DEF keys, g
  <2> QED BY <1>2, <1>3, <1>5, FS_UNION
<1>7. \A k \in keys : ToSet(EntriesOf(k)) \subseteq CommittedEntries
  BY <1>2
<1>8. \A e \in CommittedEntries : \E k \in keys : e \in ToSet(EntriesOf(k))
  BY <1>2
<1>9. \A e \in CommittedEntries : /\ e \in Entry /\ e.seq <= Now
                                  /\ e.leg.currency = AccountCurrency[e.leg.account]
  <2> SUFFICES ASSUME NEW e \in CommittedEntries
               PROVE  /\ e \in Entry /\ e.seq <= Now
                      /\ e.leg.currency = AccountCurrency[e.leg.account]
    OBVIOUS
  <2>1. PICK k \in keys : e \in ToSet(EntriesOf(k))
    BY <1>8
  <2>2. PICK i \in DOMAIN EntriesOf(k) : e = EntriesOf(k)[i]
    BY <2>1 DEF ToSet
  <2>3. e \in Entry
    BY <1>1, <2>2
  <2>4. e.seq < next_seq
    BY <2>2 DEF BooksInv, IInv, SeqInv, SeqsDrawn
  <2>5. e.leg.currency = AccountCurrency[e.leg.account]
    BY <2>2 DEF BooksInv, AccountsHoldTheirCurrency, ledger_entry_account_currency_fkey
  <2> QED
    BY <2>3, <2>4, <2>5, SignedIsAnInteger DEF Now, BooksInv, IInv, TypeOK
<1>10. ASSUME NEW j \in Key, NEW k \in Key, NEW e, Committed(j), e \in ToSet(EntriesOf(j)),
              Committed(k), e \in ToSet(EntriesOf(k))
       PROVE  j = k
  <2>1. PICK x \in DOMAIN EntriesOf(j) : e = EntriesOf(j)[x]
    BY <1>10 DEF ToSet
  <2>2. PICK y \in DOMAIN EntriesOf(k) : e = EntriesOf(k)[y]
    BY <1>10 DEF ToSet
  <2> QED
    BY <1>10, <2>1, <2>2 DEF BooksInv, IInv, SeqInv, SeqsApart
<1>11. \A k \in Key : Committed(k) => /\ EntriesOf(k) \in Seq(Entry)
                                   /\ ToSet(EntriesOf(k)) \subseteq CommittedEntries
  BY <1>1, <1>7, Zenon
<1>12. \A e \in CommittedEntries : \E k \in Key : Committed(k) /\ e \in ToSet(EntriesOf(k))
  BY <1>8, Zenon
<1>13. \A j, k \in Key : Committed(j) /\ Committed(k) =>
         \A e \in ToSet(EntriesOf(j)) \cap ToSet(EntriesOf(k)) : j = k
  BY <1>10, Zenon
<1> QED
  BY <1>6, <1>9, <1>11, <1>12, <1>13, Zenon

\* Over all the postings, the debits of a currency less its credits are zero.
LEMMA CurrencyCloses ==
  ASSUME BooksInv, NEW currency \in AccountCurrencies,
         NEW f, \A e \in CommittedEntries : f[e] = signed(e)
  PROVE  SumFunctionOnSet(f, {e \in CommittedEntries : e.leg.currency = currency}) = 0
<1> DEFINE keys == {k \in Key : Committed(k)}
           E == {e \in CommittedEntries : e.leg.currency = currency}
           b == [e \in E |-> CHOOSE k \in keys : e \in ToSet(EntriesOf(k))]
           sums == [k \in keys |-> SumFunctionOnSet(f, {e \in E : b[e] = k})]
<1>1. IsFiniteSet(E) /\ IsFiniteSet(keys)
  BY EntriesOfTheBooks, FS_Subset DEF BooksInv, FinitelyManyRows
<1>2. \A e \in E : f[e] \in Int
  BY EntriesOfTheBooks, SignedIsAnInteger
<1>3. \A e \in E : b[e] \in keys /\ e \in ToSet(EntriesOf(b[e]))
  BY EntriesOfTheBooks
<1>4. \A k \in keys : sums[k] = 0
  <2> SUFFICES ASSUME NEW k \in keys PROVE sums[k] = 0
    OBVIOUS
  <2> DEFINE entries == EntriesOf(k)
  <2>1. {e \in E : b[e] = k} = {e \in ToSet(entries) : e.leg.currency = currency}
    <3>1. ASSUME NEW e \in E, b[e] = k PROVE e \in ToSet(entries) /\ e.leg.currency = currency
      BY <1>3, <3>1
    <3>2. ASSUME NEW e \in ToSet(entries), e.leg.currency = currency PROVE e \in E /\ b[e] = k
      <4>1. e \in E
        BY <3>2, EntriesOfTheBooks
      <4>2. b[e] \in keys /\ e \in ToSet(EntriesOf(b[e]))
        BY <1>3, <4>1
      <4> HIDE DEF b
      <4> QED BY <4>1, <4>2, EntriesOfTheBooks
    <3> HIDE DEF E, b, entries
    <3> QED BY <3>1, <3>2
  <2>2. /\ entries \in Seq(Entry) /\ SeqsDistinct(entries) /\ assertBalanced(Legs(entries))
        /\ \A e \in ToSet(entries) : f[e] = signed(e)
    BY EntriesOfTheBooks DEF BooksInv, IInv, SeqInv, RowInv, EntriesOf
  <2>3. SumFunctionOnSet(f, {e \in ToSet(entries) : e.leg.currency = currency}) = 0
    <3> HIDE DEF entries
    <3> QED BY <2>2, BalancedRow
  <2>4. sums[k] = SumFunctionOnSet(f, {e \in E : b[e] = k})
    OBVIOUS
  <2> QED BY <2>1, <2>3, <2>4
<1>5. SumFunctionOnSet(sums, keys) = SumFunctionOnSet(f, E)
  <2> HIDE DEF E, keys, b
  <2> QED BY <1>1, <1>2, <1>3, SumBlocks
<1>6. SumFunctionOnSet(sums, keys) = 0
  <2> HIDE DEF sums, keys
  <2> QED BY <1>1, <1>4, SumZero
<1> QED
  BY <1>5, <1>6

(***************************************************************************)
(* The books close.                                                        *)
(***************************************************************************)

\* What an account holds is the sum over its entries.
LEMMA NetOfAccount ==
  ASSUME BooksInv, NEW f, \A e \in CommittedEntries : f[e] = signed(e), NEW a
  PROVE  debitMinusCredit(a, Now)
           = SumFunctionOnSet(f, {e \in CommittedEntries : e.leg.account = a})
<1> DEFINE mine == {e \in CommittedEntries : e.leg.account = a}
           cut == {e \in CommittedEntries : e.leg.account = a /\ e.seq <= Now}
           g == [e \in cut |-> signed(e)]
<1>1. cut = mine
  BY EntriesOfTheBooks
<1>2. IsFiniteSet(mine)
  BY EntriesOfTheBooks, FS_Subset
<1>3. \A e \in mine : g[e] = f[e]
  BY <1>1
<1>4. debitMinusCredit(a, Now) = SumFunctionOnSet(g, mine)
  <2>1. DOMAIN g = mine
    BY <1>1
  <2>2. debitMinusCredit(a, Now) = SumFunctionOnSet(g, DOMAIN g)
    BY DEF debitMinusCredit, SumFunction
  <2> HIDE DEF g, mine
  <2> QED BY <2>1, <2>2
<1> HIDE DEF g, mine, cut
<1> QED
  BY <1>2, <1>3, <1>4, SumAgrees DEF mine

LEMMA NetIsAnInteger ==
  ASSUME BooksInv, NEW a
  PROVE  debitMinusCredit(a, Now) \in Int
<1> DEFINE f == [e \in CommittedEntries |-> signed(e)]
           mine == {e \in CommittedEntries : e.leg.account = a}
<1>1. IsFiniteSet(mine) /\ \A e \in mine : f[e] \in Int
  BY EntriesOfTheBooks, SignedIsAnInteger, FS_Subset
<1>2. debitMinusCredit(a, Now) = SumFunctionOnSet(f, mine)
  <2>1. \A e \in CommittedEntries : f[e] = signed(e)
    OBVIOUS
  <2> HIDE DEF f
  <2> QED BY <2>1, NetOfAccount
<1> HIDE DEF f, mine
<1> QED
  BY <1>1, <1>2, SumInt

\* The trial balance of a currency is zero.
LEMMA TrialBalanceIsZero ==
  ASSUME BooksInv, NEW currency \in AccountCurrencies
  PROVE  netByCurrency(currency, Now) = 0
<1> DEFINE f == [e \in CommittedEntries |-> signed(e)]
           E == {e \in CommittedEntries : e.leg.currency = currency}
           A == {a \in Account : AccountCurrency[a] = currency}
           b == [e \in E |-> e.leg.account]
           sums == [a \in A |-> SumFunctionOnSet(f, {e \in E : b[e] = a})]
           nets == [a \in A |-> debitMinusCredit(a, Now)]
<1>1. IsFiniteSet(E) /\ IsFiniteSet(A)
  BY EntriesOfTheBooks, FS_Subset, AccountsAreFinite
<1>2. \A e \in CommittedEntries : f[e] = signed(e)
  OBVIOUS
<1>3. \A e \in E : f[e] \in Int
  BY EntriesOfTheBooks, SignedIsAnInteger
<1>4. \A e \in E : b[e] \in A
  BY EntriesOfTheBooks DEF Entry, Leg
<1>5. \A a \in A : nets[a] = sums[a]
  <2> SUFFICES ASSUME NEW a \in A PROVE nets[a] = sums[a]
    OBVIOUS
  <2>1. {e \in E : b[e] = a} = {e \in CommittedEntries : e.leg.account = a}
    BY EntriesOfTheBooks
  <2>2. debitMinusCredit(a, Now)
          = SumFunctionOnSet(f, {e \in CommittedEntries : e.leg.account = a})
    <3> HIDE DEF f
    <3> QED BY <1>2, NetOfAccount
  <2>3. nets[a] = debitMinusCredit(a, Now)
        /\ sums[a] = SumFunctionOnSet(f, {e \in E : b[e] = a})
    OBVIOUS
  <2> HIDE DEF f, E, b, nets, sums
  <2> QED BY <2>1, <2>2, <2>3
<1>6. SumFunctionOnSet(sums, A) = SumFunctionOnSet(f, E)
  <2> HIDE DEF f, E, A, b
  <2> QED BY <1>1, <1>3, <1>4, SumBlocks
<1>7. SumFunctionOnSet(f, E) = 0
  <2> HIDE DEF f
  <2> QED BY <1>2, CurrencyCloses
<1>8. SumFunctionOnSet(nets, A) = SumFunctionOnSet(sums, A)
  <2> HIDE DEF nets, sums, A
  <2> QED BY <1>1, <1>5, SumAgrees
<1>9. netByCurrency(currency, Now) = SumFunctionOnSet(nets, A)
  BY DEF netByCurrency, SumFunction
<1> HIDE DEF f, E, A, b, sums, nets
<1> QED
  BY <1>6, <1>7, <1>8, <1>9

\* The books close in every currency, whatever is half written elsewhere: the
\* trial balance is zero and the two sides of the balance sheet are equal.
THEOREM BooksClose == Spec => []BooksBalance
<1>1. BooksInv => BooksBalance
  <2> SUFFICES ASSUME BooksInv, NEW currency \in AccountCurrencies
               PROVE  /\ netByCurrency(currency, Now) = 0
                      /\ SumFunction([a \in {x \in {y \in Account : isDebitNormal(y)} :
                                              AccountCurrency[x] = currency} |-> balance(a, Now)])
                          = SumFunction([a \in {x \in {y \in Account : ~ isDebitNormal(y)} :
                                                AccountCurrency[x] = currency} |->
                                           balance(a, Now)])
    BY DEF BooksBalance
  <2> DEFINE A == {a \in Account : AccountCurrency[a] = currency}
             D == {x \in {y \in Account : isDebitNormal(y)} : AccountCurrency[x] = currency}
             C == {x \in {y \in Account : ~ isDebitNormal(y)} : AccountCurrency[x] = currency}
             nets == [a \in A |-> debitMinusCredit(a, Now)]
             onD == [a \in D |-> balance(a, Now)]
             onC == [a \in C |-> balance(a, Now)]
  <2>1. IsFiniteSet(D) /\ IsFiniteSet(C) /\ D \cap C = {} /\ A = D \cup C
    BY AccountsAreFinite, FS_Subset
  <2>2. \A a \in A : nets[a] \in Int
    BY NetIsAnInteger
  <2>3. SumFunctionOnSet(nets, A) = SumFunctionOnSet(nets, D) + SumFunctionOnSet(nets, C)
    <3> HIDE DEF A, C, D, nets
    <3> QED BY <2>1, <2>2, SumUnion
  <2>4. SumFunctionOnSet(nets, D) = SumFunctionOnSet(onD, D)
    <3>1. \A a \in D : nets[a] = onD[a]
      BY DEF balance, onNormalSide
    <3> HIDE DEF A, D, nets, onD
    <3> QED BY <2>1, <3>1, SumAgrees
  <2>5. SumFunctionOnSet(onC, C) = - SumFunctionOnSet(nets, C)
    <3>1. \A a \in C : nets[a] \in Int /\ onC[a] = - nets[a]
      BY <2>2 DEF balance, onNormalSide
    <3> HIDE DEF A, C, nets, onC
    <3> QED BY <2>1, <3>1, SumNegates
  <2>6. SumFunctionOnSet(nets, C) \in Int /\ SumFunctionOnSet(nets, D) \in Int
    <3> HIDE DEF A, C, D, nets
    <3> QED BY <2>1, <2>2, SumInt
  <2>7. SumFunctionOnSet(nets, A) = 0
    BY TrialBalanceIsZero DEF netByCurrency, SumFunction
  <2>8. SumFunctionOnSet(onD, D) = SumFunctionOnSet(onC, C)
    <3> HIDE DEF A, C, D, nets, onD, onC
    <3> QED BY <2>3, <2>4, <2>5, <2>6, <2>7
  <2>9. SumFunction(onD) = SumFunction(onC)
    <3>1. DOMAIN onD = D /\ DOMAIN onC = C
      OBVIOUS
    <3> HIDE DEF C, D, onD, onC
    <3> QED BY <2>8, <3>1 DEF SumFunction
  <2> QED
    BY <2>9, TrialBalanceIsZero
<1> QED
  BY <1>1, BooksInvariance, PTL

(***************************************************************************)
(* PART THREE.  The plans and their versions.                              *)
(***************************************************************************)

(***************************************************************************)
(* Facts about the definitions.                                            *)
(***************************************************************************)

LEMMA CallShapes ==
  ASSUME PlansTypeOK, NEW c \in Call
  PROVE  /\ call[c] \in CallState
         /\ call[c].phase \in {"idle", "returned", "threw", "created", "insert"}
         /\ call[c].phase = "created" => call[c].zone \in Zone
         /\ call[c].phase = "insert" => /\ call[c].plan \in Call
                                        /\ call[c].terms \in Terms
                                        /\ call[c].number \in Nat \ {0}
         /\ call[c] = Idle => call[c].phase = "idle"
BY DEF PlansTypeOK, CallState, Idle

\* A version row that is there is of its type, and so is a plan.
LEMMA PlanShapes ==
  ASSUME PlansTypeOK, NEW c \in Call
  PROVE  /\ plan_version[c] # Null => plan_version[c] \in VersionRow
         /\ money_plan[c] # Null => money_plan[c] \in PlanRow
BY DEF PlansTypeOK

\* The numbers of a plan are 1 to its last, and the last is that of its current
\* version.
LEMMA NumbersOfPlan ==
  ASSUME PlansInv, NEW p \in PlanIds
  PROVE  lastNumber(p) \in Nat /\ NumbersOf(p) = 1 .. lastNumber(p)
<1>1. CASE money_plan[p].current = Null
  <2>1. VersionsOf(p) = {} /\ lastNumber(p) = 0
    BY <1>1 DEF PlansInv, VersionsAreGapless, lastNumber
  <2>2. NumbersOf(p) = {}
    BY <2>1 DEF NumbersOf
  <2> QED BY <2>1, <2>2
<1>2. CASE money_plan[p].current # Null
  <2> DEFINE current == money_plan[p].current
  <2>1. /\ current \in VersionsOf(p) /\ lastNumber(p) = plan_version[current].number
        /\ NumbersOf(p) = 1 .. plan_version[current].number
    BY <1>2 DEF PlansInv, VersionsAreGapless, lastNumber
  <2>2. plan_version[current] \in VersionRow
    BY <2>1, PlanShapes DEF VersionsOf, PlansInv
  <2> QED BY <2>1, <2>2 DEF VersionRow
<1> QED
  BY <1>1, <1>2

LEMMA NextNumber ==
  ASSUME PlansInv, NEW p \in PlanIds
  PROVE  nextNumber(p) = lastNumber(p) + 1 /\ nextNumber(p) \in Nat \ {0}
<1> DEFINE top == lastNumber(p)
           IsTop(n) == \A m \in NumbersOf(p) : m <= n
           chosen == CHOOSE n \in NumbersOf(p) \cup {0} : IsTop(n)
<1>1. top \in Nat /\ NumbersOf(p) = 1 .. top
  BY NumbersOfPlan
<1>2. top \in NumbersOf(p) \cup {0} /\ IsTop(top)
  BY <1>1
<1>3. chosen \in NumbersOf(p) \cup {0} /\ IsTop(chosen)
  <2> HIDE DEF IsTop
  <2> QED BY <1>2
<1>4. chosen = top
  <2> HIDE DEF chosen
  <2> QED BY <1>1, <1>2, <1>3
<1>5. nextNumber(p) = 1 + chosen
  BY DEF nextNumber
<1> HIDE DEF chosen, top
<1> QED
  BY <1>1, <1>4, <1>5 DEF top

(***************************************************************************)
(* The inductive invariant of the plans.                                   *)
(***************************************************************************)

LEMMA InitPlansInv == PlansInit => PlansInv
<1> SUFFICES ASSUME PlansInit PROVE PlansInv
  OBVIOUS
<1>1. PlansTypeOK
  BY PlansAssumption DEF PlansInit, PlansTypeOK, CallState
<1>2. PlanIds = {} /\ VersionsHaveAPlan
  BY DEF PlansInit, PlanIds, VersionsHaveAPlan
<1>3. CallsAreInOrder
  BY <1>2 DEF PlansInit, CallsAreInOrder, Idle
<1> QED
  BY <1>1, <1>2, <1>3 DEF PlansInv, VersionsAreGapless

\* A call that goes on, or gives up, and writes nothing.
GoesOn(c, state) ==
  /\ call' = [call EXCEPT ![c] = state]
  /\ UNCHANGED <<money_plan, plan_version, now>>

LEMMA GoingOnKeeps ==
  ASSUME PlansInv, NEW c \in Call, NEW state \in CallState, GoesOn(c, state),
         call[c].phase # "returned", state.phase # "returned",
         c \in PlanIds => state.phase # "idle",
         state.phase = "created" => c \in PlanIds,
         state.phase = "insert" => /\ state.plan \in PlanIds
                                   /\ state.number <= lastNumber(state.plan) + 1
                                   /\ c \in PlanIds => state.plan = c
  PROVE  PlansInv'
<1> USE DEF PlansInv
<1>1. /\ call'[c] = state /\ \A d \in Call \ {c} : call'[d] = call[d]
      /\ UNCHANGED <<money_plan, plan_version, now>>
      /\ call' \in [Call -> CallState]
  BY DEF GoesOn, PlansTypeOK
<1>2. PlansTypeOK'
  BY <1>1 DEF PlansTypeOK
<1>3. PlanIds' = PlanIds /\ \A p : /\ VersionsOf(p)' = VersionsOf(p)
                                   /\ NumbersOf(p)' = NumbersOf(p)
                                   /\ lastNumber(p)' = lastNumber(p)
  BY <1>1 DEF PlanIds, VersionsOf, NumbersOf, lastNumber
<1>4. VersionsHaveAPlan'
  BY <1>1, <1>3 DEF VersionsHaveAPlan
<1>5. CallsAreInOrder'
  BY <1>1, <1>3 DEF CallsAreInOrder
<1>6. VersionsAreGapless'
  <2>1. \A p \in PlanIds : call[p].phase # "returned" => call'[p].phase # "returned"
    BY <1>1 DEF PlanIds
  <2>2. \A p : VersionsOf(p)' = VersionsOf(p) /\ NumbersOf(p)' = NumbersOf(p)
    BY <1>3
  <2> QED
    BY <1>1, <1>3, <2>1, <2>2, SMTT(30) DEF VersionsAreGapless
<1> QED
  BY <1>2, <1>4, <1>5, <1>6

LEMMA InsertingIsAState ==
  ASSUME PlansInv, NEW p \in PlanIds, NEW terms \in Terms
  PROVE  /\ Inserting(p, terms) \in CallState
         /\ Inserting(p, terms).phase = "insert"
         /\ Inserting(p, terms).plan = p
         /\ Inserting(p, terms).number = lastNumber(p) + 1
<1>1. p \in Call /\ nextNumber(p) \in Nat \ {0} /\ nextNumber(p) = lastNumber(p) + 1
  BY NextNumber DEF PlanIds
<1> QED
  BY <1>1 DEF Inserting, CallState

LEMMA CreatePlanKeeps ==
  ASSUME PlansInv, NEW c \in Call, NEW zone \in Zone, createPlan(c, zone)
  PROVE  PlansInv'
<1> USE DEF PlansInv
<1> DEFINE row == [created_at |-> now, current |-> Null]
<1>1. call[c].phase = "idle" /\ c \notin PlanIds /\ plan_version[c] = Null
  BY CallShapes DEF createPlan, CallsAreInOrder, VersionsHaveAPlan
<1>2. row \in PlanRow /\ row # Null /\ row.current = Null
  BY NullIsNoPlan DEF PlanRow, PlansTypeOK
<1>3. /\ money_plan'[c] = row /\ \A d \in Call \ {c} : money_plan'[d] = money_plan[d]
      /\ money_plan' \in [Call -> PlanRow \cup {Null}]
      /\ plan_version' = plan_version /\ now' = now
  BY <1>2 DEF createPlan, PlansTypeOK
<1>4. /\ call'[c] = [phase |-> "created", zone |-> zone]
      /\ \A d \in Call \ {c} : call'[d] = call[d]
      /\ call' \in [Call -> CallState]
  BY DEF createPlan, PlansTypeOK, CallState
<1>5. call'[c].phase = "created"
  BY <1>4
<1> HIDE DEF row
<1>6. PlansTypeOK'
  BY <1>3, <1>4 DEF PlansTypeOK
<1>7. PlanIds' = PlanIds \cup {c}
  BY <1>2, <1>3 DEF PlanIds
<1>8. \A p : VersionsOf(p)' = VersionsOf(p) /\ NumbersOf(p)' = NumbersOf(p)
  BY <1>3 DEF VersionsOf, NumbersOf
<1>9. VersionsOf(c) = {}
  BY <1>1 DEF VersionsOf, VersionsHaveAPlan
<1>10. \A p \in PlanIds : lastNumber(p)' = lastNumber(p) /\ money_plan'[p] = money_plan[p]
  BY <1>1, <1>3 DEF lastNumber, PlanIds
<1>11. VersionsHaveAPlan'
  BY <1>1, <1>3, <1>4, <1>7 DEF VersionsHaveAPlan
<1>12. CallsAreInOrder'
  BY <1>4, <1>5, <1>7, <1>10 DEF CallsAreInOrder
<1>13. VersionsAreGapless'
  <2>1. ASSUME NEW p \in PlanIds PROVE p # c /\ call'[p] = call[p]
    BY <1>1, <1>4 DEF PlanIds
  <2> QED
    BY <1>2, <1>3, <1>5, <1>7, <1>8, <1>9, <1>10, <2>1 DEF VersionsAreGapless
<1> QED
  BY <1>6, <1>11, <1>12, <1>13

LEMMA AppendVersionKeeps ==
  ASSUME PlansInv, NEW c \in Call, appendVersion(c),
         NEW plan, plan = call[c].plan,
         NEW number, number = call[c].number,
         NEW version, version = [plan |-> plan, number |-> number,
                                 zone |-> call[c].terms.zone, cap |-> call[c].terms.cap]
  PROVE  PlansInv'
<1> USE DEF PlansInv
<1>1. /\ call[c].phase = "insert" /\ plan \in Call /\ number \in Nat \ {0}
      /\ call[c].terms \in Terms
  BY CallShapes DEF appendVersion
<1>2. plan \in PlanIds /\ plan_version[c] = Null /\ (c \in PlanIds => plan = c)
  BY <1>1 DEF CallsAreInOrder, VersionsHaveAPlan
<1>3. number = lastNumber(plan) + 1
  <2>1. number \notin 1 .. lastNumber(plan) /\ lastNumber(plan) \in Nat
    BY <1>2, NumbersOfPlan DEF appendVersion, plan_version_number_unique
  <2>2. number <= lastNumber(plan) + 1
    BY <1>1 DEF CallsAreInOrder
  <2> QED BY <1>1, <2>1, <2>2
<1>4. version \in VersionRow /\ version # Null /\ version.plan = plan /\ version.number = number
  BY <1>1, NullIsNoPlan DEF VersionRow, Terms
<1>5. /\ plan_version'[c] = version
      /\ \A d \in Call \ {c} : plan_version'[d] = plan_version[d]
      /\ plan_version' \in [Call -> VersionRow \cup {Null}]
  BY <1>4 DEF appendVersion, PlansTypeOK
<1>6. /\ money_plan'[plan] = [money_plan[plan] EXCEPT !.current = c]
      /\ \A d \in Call \ {plan} : money_plan'[d] = money_plan[d]
      /\ DOMAIN money_plan' = Call
      /\ money_plan' = [money_plan EXCEPT ![plan] = [money_plan[plan] EXCEPT !.current = c]]
  BY <1>1 DEF appendVersion, PlansTypeOK
<1>7. /\ money_plan[plan] \in PlanRow
      /\ [money_plan[plan] EXCEPT !.current = c] \in PlanRow
      /\ [money_plan[plan] EXCEPT !.current = c] # Null
      /\ money_plan'[plan].current = c
  <2>1. money_plan[plan] \in PlanRow
    BY <1>2, PlanShapes DEF PlanIds
  <2>2. [money_plan[plan] EXCEPT !.current = c] \in PlanRow
    BY <2>1 DEF PlanRow
  <2> QED BY <1>6, <2>1, <2>2, NullIsNoPlan DEF PlanRow
<1>8. /\ call'[c].phase = "returned" /\ \A d \in Call \ {c} : call'[d] = call[d]
      /\ call' \in [Call -> CallState] /\ now' = now
  BY DEF appendVersion, PlansTypeOK, CallState
<1>9. plan_version[c] = Null /\ c # Null
  BY <1>2, PlansAssumption
<1>10. PlansTypeOK'
  <2>1. money_plan' \in [Call -> PlanRow \cup {Null}]
    BY <1>6, <1>7 DEF PlansTypeOK
  <2> QED BY <1>5, <1>8, <2>1 DEF PlansTypeOK
<1>11. PlanIds' = PlanIds
  BY <1>2, <1>6, <1>7 DEF PlanIds
<1>12. /\ VersionsOf(plan)' = VersionsOf(plan) \cup {c}
       /\ \A p \in Call \ {plan} : VersionsOf(p)' = VersionsOf(p)
       /\ \A p \in Call : c \notin VersionsOf(p)
  BY <1>4, <1>5, <1>9 DEF VersionsOf
<1>13. \A p \in Call : \A v \in VersionsOf(p) : plan_version'[v] = plan_version[v] /\ v # c
  BY <1>5, <1>12 DEF VersionsOf
<1>14. \A p \in Call \ {plan} : NumbersOf(p)' = NumbersOf(p)
  BY <1>12, <1>13 DEF NumbersOf
<1>15. NumbersOf(plan)' = NumbersOf(plan) \cup {number}
  <2>1. NumbersOf(plan)' = {plan_version'[v].number : v \in VersionsOf(plan) \cup {c}}
    BY <1>12 DEF NumbersOf
  <2>2. \A v \in VersionsOf(plan) : plan_version'[v] = plan_version[v]
    BY <1>1, <1>13
  <2>3. plan_version'[c].number = number
    BY <1>4, <1>5
  <2> QED BY <2>1, <2>2, <2>3 DEF NumbersOf
<1>16. lastNumber(plan)' = number
  BY <1>4, <1>5, <1>7, <1>9 DEF lastNumber
<1>17. \A p \in PlanIds \ {plan} : lastNumber(p)' = lastNumber(p)
  <2> SUFFICES ASSUME NEW p \in PlanIds \ {plan} PROVE lastNumber(p)' = lastNumber(p)
    OBVIOUS
  <2>1. p \in Call /\ money_plan'[p] = money_plan[p]
    BY <1>6 DEF PlanIds
  <2>2. CASE money_plan[p].current = Null
    BY <2>1, <2>2 DEF lastNumber
  <2>3. CASE money_plan[p].current # Null
    <3>1. money_plan[p].current \in VersionsOf(p)
      BY <2>3 DEF VersionsAreGapless
    <3>2. plan_version'[money_plan[p].current] = plan_version[money_plan[p].current]
      BY <1>13, <2>1, <3>1
    <3> QED BY <2>1, <2>3, <3>2 DEF lastNumber
  <2> QED BY <2>2, <2>3
<1>18. VersionsHaveAPlan'
  BY <1>2, <1>4, <1>5, <1>8, <1>11 DEF VersionsHaveAPlan
<1>19. CallsAreInOrder'
  <2>1. ASSUME NEW d \in Call \ {c}, call[d].phase = "insert", NEW p, p = call[d].plan
        PROVE  call[d].number <= lastNumber(p)' + 1
    <3>1. /\ p \in PlanIds /\ call[d].number <= lastNumber(p) + 1
          /\ call[d].number \in Nat
      BY <2>1, CallShapes DEF CallsAreInOrder
    <3>2. CASE p = plan
      <4>1. lastNumber(plan) \in Nat
        BY <1>2, NumbersOfPlan
      <4> QED BY <1>3, <1>16, <3>1, <3>2, <4>1
    <3>3. CASE p # plan
      BY <1>17, <3>1, <3>3
    <3> QED BY <3>2, <3>3
  <2>2. ASSUME NEW d \in Call \ {c}, call[d].phase = "insert"
        PROVE  call'[d].number <= lastNumber(call[d].plan)' + 1
    <3>1. call'[d] = call[d]
      BY <1>8
    <3> QED BY <2>1, <2>2, <3>1
  <2> QED
    BY <1>8, <1>11, <2>2 DEF CallsAreInOrder
<1>20. VersionsAreGapless'
  <2> DEFINE Gapless(p) ==
        LET current == money_plan[p].current
            num(v) == plan_version[v].number
        IN  IF current = Null
              THEN VersionsOf(p) = {} /\ call[p].phase # "returned"
              ELSE /\ current \in VersionsOf(p)
                   /\ NumbersOf(p) = 1 .. num(current)
                   /\ \A v, w \in VersionsOf(p) : num(v) = num(w) => v = w
  <2>1. Gapless(plan)'
    <3>1. money_plan'[plan].current = c /\ c # Null
      BY <1>7, <1>9
    <3>2. plan_version'[c].number = number
      BY <1>4, <1>5
    <3>3. NumbersOf(plan)' = 1 .. number
      <4>1. NumbersOf(plan) = 1 .. lastNumber(plan) /\ lastNumber(plan) \in Nat
        BY <1>2, NumbersOfPlan
      <4> QED BY <1>3, <1>15, <4>1
    <3>4. \A v \in VersionsOf(plan) : plan_version[v].number # number
      <4>1. number \notin NumbersOf(plan)
        BY DEF appendVersion, plan_version_number_unique
      <4> QED BY <4>1 DEF NumbersOf
    <3>5. \A v, w \in VersionsOf(plan) :
            plan_version[v].number = plan_version[w].number => v = w
      <4>1. CASE money_plan[plan].current = Null
        BY <1>2, <4>1 DEF VersionsAreGapless
      <4>2. CASE money_plan[plan].current # Null
        BY <1>2, <4>2 DEF VersionsAreGapless
      <4> QED BY <4>1, <4>2
    <3>6. \A v, w \in VersionsOf(plan)' :
            plan_version'[v].number = plan_version'[w].number => v = w
      BY <1>1, <1>12, <1>13, <3>2, <3>4, <3>5
    <3> QED
      BY <1>12, <3>1, <3>2, <3>3, <3>6
  <2>2. ASSUME NEW p \in PlanIds \ {plan} PROVE Gapless(p)'
    <3>1. p \in Call /\ money_plan'[p] = money_plan[p]
      BY <1>6 DEF PlanIds
    <3>2. VersionsOf(p)' = VersionsOf(p) /\ NumbersOf(p)' = NumbersOf(p)
      BY <1>12, <1>14, <3>1
    <3>3. p # c /\ call'[p] = call[p]
      BY <1>2, <1>8, <3>1
    <3>4. Gapless(p)
      BY DEF VersionsAreGapless
    <3>5. CASE money_plan[p].current = Null
      BY <3>1, <3>2, <3>3, <3>4, <3>5
    <3>6. CASE money_plan[p].current # Null
      <4>1. money_plan[p].current \in VersionsOf(p)
        BY <3>4, <3>6
      <4>2. \A v \in VersionsOf(p) : plan_version'[v] = plan_version[v]
        BY <1>13, <3>1
      <4> QED BY <3>1, <3>2, <3>4, <3>6, <4>1, <4>2
    <3> QED BY <3>5, <3>6
  <2>3. VersionsAreGapless' <=> \A p \in PlanIds' : Gapless(p)'
    BY DEF VersionsAreGapless
  <2> HIDE DEF Gapless
  <2> QED
    BY <1>11, <2>1, <2>2, <2>3
<1> QED
  BY <1>10, <1>18, <1>19, <1>20

LEMMA StepPlansInv ==
  ASSUME PlansInv, PlanStep
  PROVE  PlansInv'
<1> USE DEF PlansInv
<1> SUFFICES ASSUME NEW c \in Call,
                    \/ c \in Creation /\ \E zone \in Zone : createPlan(c, zone)
                    \/ c \in Edit /\ \E p \in PlanIds, zone \in Zone, cap \in [Name -> Cap] :
                         editPlan(c, p, [zone |-> zone, cap |-> cap])
                    \/ firstVersion(c) \/ appendVersion(c) \/ again(c) \/ throws(c)
             PROVE  PlansInv'
  BY DEF PlanStep
<1>1. ASSUME NEW zone \in Zone, createPlan(c, zone) PROVE PlansInv'
  BY <1>1, CreatePlanKeeps
<1>2. ASSUME NEW p \in PlanIds, NEW zone \in Zone, NEW cap \in [Name -> Cap],
             editPlan(c, p, [zone |-> zone, cap |-> cap])
      PROVE  PlansInv'
  <2> DEFINE terms == [zone |-> zone, cap |-> cap]
  <2>1. terms \in Terms
    BY DEF Terms
  <2>2. GoesOn(c, Inserting(p, terms)) /\ call[c].phase = "idle"
    BY <1>2, CallShapes DEF editPlan, GoesOn
  <2>3. c \notin PlanIds
    BY <2>2 DEF CallsAreInOrder
  <2>4. lastNumber(p) + 1 <= lastNumber(p) + 1
    BY NumbersOfPlan
  <2> HIDE DEF terms
  <2> QED BY <2>1, <2>2, <2>3, <2>4, InsertingIsAState, GoingOnKeeps
<1>3. CASE firstVersion(c)
  <2> DEFINE terms == [zone |-> call[c].zone, cap |-> [n \in Name |-> NoCap]]
  <2>1. GoesOn(c, Inserting(c, terms)) /\ call[c].phase = "created"
    BY <1>3 DEF firstVersion, GoesOn
  <2>2. terms \in Terms
    BY <2>1, CallShapes DEF Terms
  <2>3. c \in PlanIds
    BY <2>1 DEF CallsAreInOrder
  <2>4. lastNumber(c) + 1 <= lastNumber(c) + 1
    BY <2>3, NumbersOfPlan
  <2> HIDE DEF terms
  <2> QED BY <2>1, <2>2, <2>3, <2>4, InsertingIsAState, GoingOnKeeps
<1>4. CASE appendVersion(c)
  BY <1>4, AppendVersionKeeps
<1>5. CASE again(c)
  <2> DEFINE p == call[c].plan
             terms == call[c].terms
  <2>1. GoesOn(c, Inserting(p, terms)) /\ call[c].phase = "insert"
    BY <1>5 DEF again, GoesOn
  <2>2. terms \in Terms /\ p \in PlanIds /\ (c \in PlanIds => p = c)
    BY <2>1, CallShapes DEF CallsAreInOrder
  <2>3. lastNumber(p) + 1 <= lastNumber(p) + 1
    BY <2>2, NumbersOfPlan
  <2> HIDE DEF terms, p
  <2> QED BY <2>1, <2>2, <2>3, InsertingIsAState, GoingOnKeeps
<1>6. CASE throws(c)
  <2> DEFINE state == [phase |-> "threw"]
  <2>1. GoesOn(c, state) /\ call[c].phase # "returned"
    BY <1>6 DEF throws, GoesOn
  <2>2. state \in CallState /\ state.phase = "threw"
    BY DEF CallState
  <2> HIDE DEF state
  <2> QED BY <2>1, <2>2, GoingOnKeeps
<1> QED
  BY <1>1, <1>2, <1>3, <1>4, <1>5, <1>6

LEMMA UnchangedPlans ==
  ASSUME PlansInv, UNCHANGED <<money_plan, plan_version, call>>, now' \in 0 .. MaxNow
  PROVE  PlansInv'
BY DEF PlansInv, PlansTypeOK, VersionsHaveAPlan, CallsAreInOrder, VersionsAreGapless,
       PlanIds, VersionsOf, NumbersOf, lastNumber

LEMMA StepKeepsPlans ==
  ASSUME PlansInv, [SubmissionsNext]_submissionsVars
  PROVE  PlansInv'
<1>1. CASE PlanStep
  BY <1>1, StepPlansInv
<1>2. CASE UNCHANGED <<money_plan, plan_version, call>> /\ now' \in 0 .. MaxNow
  BY <1>2, UnchangedPlans
<1>3. now \in 0 .. MaxNow
  BY DEF PlansInv, PlansTypeOK
<1>4. CASE Tick
  <2>1. now + 1 \in 0 .. MaxNow
    BY <1>3, <1>4, PlansAssumption DEF Tick
  <2> QED BY <1>2, <1>4, <2>1 DEF Tick
<1>5. ASSUME NEW s \in Submission,
             \/ \E ask \in Asks, began \in 0 .. now : submitRequest(s, ask, began)
             \/ insert(s) \/ insertFails(s) \/ approveRequest(s)
      PROVE  UNCHANGED planVars
  BY <1>5 DEF submitRequest, insert, insertFails, approveRequest
<1>6. CASE UNCHANGED planVars
  BY <1>2, <1>3, <1>6 DEF planVars
<1>7. CASE UNCHANGED submissionsVars
  BY <1>6, <1>7 DEF submissionsVars
<1> QED
  BY <1>1, <1>4, <1>5, <1>6, <1>7 DEF SubmissionsNext

\* The invariant of the plans holds in every reachable state.
THEOREM PlansInvariance == SubmissionsSpec => []PlansInv
<1>1. SubmissionsInit => PlansInv
  BY InitPlansInv DEF SubmissionsInit
<1>2. PlansInv /\ [SubmissionsNext]_submissionsVars => PlansInv'
  BY StepKeepsPlans
<1> QED
  BY <1>1, <1>2, PTL DEF SubmissionsSpec

\* Whoever raced to append a version, a plan's numbers run without a gap or a
\* repetition and its pointer never moves back.
THEOREM VersionsRunOn == SubmissionsSpec => []VersionsAreGapless
<1>1. PlansInv => VersionsAreGapless
  BY DEF PlansInv
<1> QED
  BY <1>1, PlansInvariance, PTL

(***************************************************************************)
(* PART FOUR.  Submissions against the caps.                               *)
(***************************************************************************)

(***************************************************************************)
(* Facts about the definitions.                                            *)
(***************************************************************************)

\* Two multiples of one number with the same number between them and the next.
LEMMA SameQuotient ==
  ASSUME NEW m \in Nat \ {0}, NEW i \in Int, NEW j \in Int, NEW n \in Int,
         i * m <= n, n < (i + 1) * m, j * m <= n, n < (j + 1) * m
  PROVE  i = j
<1>1. ASSUME NEW x \in Int, NEW y \in Int, x < y, y * m <= n, n < (x + 1) * m PROVE FALSE
  <2>1. y - (x + 1) \in Nat
    BY <1>1
  <2>2. (y - (x + 1)) * m \in Nat
    BY <2>1
  <2>3. y * m = (x + 1) * m + (y - (x + 1)) * m
    OBVIOUS
  <2>4. y * m \in Int /\ (x + 1) * m \in Int
    OBVIOUS
  <2> QED BY <1>1, <2>2, <2>3, <2>4
<1> QED
  BY <1>1

LEMMA Quotient ==
  ASSUME NEW m \in Nat \ {0}, NEW n \in Int
  PROVE  n \div m \in Int /\ (n \div m) * m <= n /\ n < (n \div m + 1) * m
OBVIOUS

\* The window of a cap at t is the month of t, by the clock of the zone.
LEMMA WindowIsTheMonth ==
  ASSUME NEW zone \in Zone, NEW t \in Int, NEW x \in Int
  PROVE  (x >= startOfMonth(zone, t) /\ x < endOfMonth(zone, t))
           <=> localMonth(zone, x) = localMonth(zone, t)
<1>0. MonthLength \in Nat \ {0} /\ offset[zone] \in Int
  BY SubmissionsAssumption
<1> DEFINE i == (t + offset[zone]) \div MonthLength
           j == (x + offset[zone]) \div MonthLength
           n == x + offset[zone]
<1>1. i \in Int /\ j \in Int /\ n \in Int /\ i * MonthLength \in Int
  BY <1>0
<1>2. j * MonthLength <= n /\ n < (j + 1) * MonthLength
  BY <1>0, <1>1, Quotient
<1>3. (i + 1) * MonthLength = i * MonthLength + MonthLength
  BY <1>0, <1>1
<1>4. (x >= startOfMonth(zone, t) /\ x < endOfMonth(zone, t))
        <=> (i * MonthLength <= n /\ n < (i + 1) * MonthLength)
  <2>1. startOfMonth(zone, t) = i * MonthLength - offset[zone]
    BY DEF startOfMonth
  <2>2. endOfMonth(zone, t) = i * MonthLength - offset[zone] + MonthLength
    BY DEF startOfMonth, endOfMonth
  <2> HIDE DEF i
  <2> QED BY <1>0, <1>1, <1>3, <2>1, <2>2
<1>5. localMonth(zone, x) = j /\ localMonth(zone, t) = i
  BY DEF localMonth
<1> HIDE DEF i, j, n
<1> QED
  BY <1>0, <1>1, <1>2, <1>4, <1>5, SameQuotient

\* Of finitely many plans one is the newest.
LEMMA NewestPlanExists ==
  ASSUME PlansTypeOK, IsFiniteSet(PlanIds), PlanIds # {}
  PROVE  newestPlan \in PlanIds
<1> DEFINE Before(q, p) == \/ money_plan[q].created_at < money_plan[p].created_at
                           \/ money_plan[q].created_at = money_plan[p].created_at /\ q <= p
           Newest(p, R) == p \in R /\ \A q \in R : Before(q, p)
           T == {R \in SUBSET PlanIds : R # {} /\ ~ \E p \in R : Newest(p, R)}
<1>1. \A p \in PlanIds : p \in Int /\ money_plan[p].created_at \in Int
  <2>1. \A p \in PlanIds : p \in Call /\ money_plan[p] \in PlanRow
    BY DEF PlansTypeOK, PlanIds
  <2>2. MaxNow \in Nat /\ \A p \in Call : p \in Int
    BY PlansAssumption
  <2>3. \A p \in PlanIds : money_plan[p].created_at \in 0 .. MaxNow
    BY <2>1 DEF PlanRow
  <2>4. \A t \in 0 .. MaxNow : t \in Int
    BY <2>2
  <2> QED BY <2>1, <2>2, <2>3, <2>4
<1>2. \A p, q \in PlanIds : Before(p, q) \/ Before(q, p)
  BY <1>1
<1>3. \A p, q, r \in PlanIds : Before(p, q) /\ Before(q, r) => Before(p, r)
  BY <1>1
<1>4. \A p \in PlanIds : Before(p, p)
  BY <1>1
<1> HIDE DEF Before
<1>5. ASSUME T # {} PROVE FALSE
  <2>1. PICK R \in T : \A y \in R : R \ {y} \notin T
    <3>1. T \subseteq SUBSET PlanIds
      OBVIOUS
    <3> HIDE DEF T
    <3> QED BY <1>5, <3>1, Minimal
  <2>2. R \subseteq PlanIds /\ R # {} /\ ~ \E p \in R : Newest(p, R)
    OBVIOUS
  <2>3. PICK y \in R : TRUE
    BY <2>2
  <2>4. CASE R \ {y} = {}
    <3>1. \A q \in R : q = y
      BY <2>4
    <3> QED BY <1>4, <2>2, <2>3, <3>1
  <2>5. CASE R \ {y} # {}
    <3>1. R \ {y} \notin T
      BY <2>1, <2>3
    <3>2. R \ {y} \in SUBSET PlanIds
      BY <2>2
    <3>3. PICK p \in R \ {y} : Newest(p, R \ {y})
      BY <2>5, <3>1, <3>2
    <3>4. CASE Before(y, p)
      <4>1. Newest(p, R)
        BY <3>3, <3>4
      <4> QED BY <2>2, <3>3, <4>1
    <3>5. CASE ~ Before(y, p)
      <4>1. Before(p, y)
        BY <1>2, <2>2, <2>3, <3>3, <3>5
      <4>2. Newest(y, R)
        BY <1>3, <1>4, <2>2, <2>3, <3>3, <4>1
      <4> QED BY <2>2, <2>3, <4>2
    <3> QED BY <3>4, <3>5
  <2> QED BY <2>4, <2>5
<1>6. \E p \in PlanIds : \A q \in PlanIds : Before(q, p)
  <2>1. PlanIds \in SUBSET PlanIds
    OBVIOUS
  <2> QED BY <1>5, <2>1
<1> QED
  BY <1>6 DEF newestPlan, Before

\* The version in force is one that has been appended.
LEMMA InForceIsAVersion ==
  ASSUME PlansInv, IsFiniteSet(PlanIds), planVersionInForce # Null
  PROVE  planVersionInForce \in Call /\ plan_version[planVersionInForce] # Null
<1>1. PlanIds # {} /\ planVersionInForce = money_plan[newestPlan].current
  BY DEF planVersionInForce
<1>2. newestPlan \in PlanIds
  BY <1>1, NewestPlanExists DEF PlansInv
<1>3. money_plan[newestPlan].current \in VersionsOf(newestPlan)
  BY <1>1, <1>2 DEF PlansInv, VersionsAreGapless
<1> QED
  BY <1>1, <1>3 DEF VersionsOf

LEMMA CategoryShapes ==
  ASSUME PlansTypeOK, NEW category \in Categories
  PROVE  /\ category \in Category /\ category[1] \in Call /\ plan_version[category[1]] # Null
         /\ zoneOf(category) \in Zone /\ monthlyCap(category) \in Cap \cup {NoCap}
<1>1. /\ category[1] \in Call /\ plan_version[category[1]] # Null /\ category[2] \in Name
      /\ category \in Category
  BY DEF Categories, Category
<1>2. plan_version[category[1]] \in VersionRow
  BY <1>1, PlanShapes
<1> QED
  BY <1>1, <1>2 DEF VersionRow, zoneOf, monthlyCap

LEMMA RequestShapes ==
  ASSUME SubmissionsTypeOK, NEW s \in Rows
  PROVE  /\ s \in Submission /\ request[s] \in RequestRow
         /\ request[s].amount \in Asked /\ request[s].amount.amount \in Int
         /\ request[s].created_at \in Int /\ request[s].judged_at \in Int
<1>1. s \in Submission /\ request[s] \in RequestRow
  BY DEF SubmissionsTypeOK, Rows
<1>2. MaxNow \in Nat
  BY PlansAssumption
<1>3. /\ request[s].amount \in Asked /\ request[s].created_at \in 0 .. MaxNow
      /\ request[s].judged_at \in 0 .. MaxNow
  BY <1>1 DEF RequestRow
<1> QED
  BY <1>1, <1>2, <1>3, SubmissionsAssumption

\* A total is the sum of the amounts of the rows.
LEMMA TotalIsASum ==
  ASSUME SubmissionsTypeOK, IsFiniteSet(Rows), NEW set, set \subseteq Rows, NEW currency
  PROVE  /\ total(set, currency).amount \in Int
         /\ \A f : (\A s \in set : f[s] = request[s].amount.amount)
                    => total(set, currency).amount = SumFunctionOnSet(f, set)
<1> DEFINE g == [s \in set |-> request[s].amount.amount]
<1>1. IsFiniteSet(set) /\ \A s \in set : g[s] \in Int
  BY RequestShapes, FS_Subset
<1>2. total(set, currency).amount = SumFunctionOnSet(g, set)
  <2>1. DOMAIN g = set
    OBVIOUS
  <2>2. total(set, currency).amount = SumFunctionOnSet(g, DOMAIN g)
    BY DEF total, money, SumFunction
  <2> HIDE DEF g
  <2> QED BY <2>1, <2>2
<1>3. ASSUME NEW f, \A s \in set : f[s] = request[s].amount.amount
      PROVE  SumFunctionOnSet(g, set) = SumFunctionOnSet(f, set)
  <2>1. \A s \in set : g[s] = f[s]
    BY <1>3
  <2> HIDE DEF g
  <2> QED BY <1>1, <2>1, SumAgrees
<1>4. SumFunctionOnSet(g, set) \in Int
  <2> HIDE DEF g
  <2> QED BY <1>1, SumInt
<1> HIDE DEF g
<1> QED
  BY <1>2, <1>3, <1>4

(***************************************************************************)
(* What the tier "recurring" says.                                         *)
(***************************************************************************)

LEMMA TierIsATier ==
  ASSUME NEW input, classify(input) # "throws"
  PROVE  classify(input) \in Tiers
BY DEF classify, Tiers

LEMMA RecurringIsWithinCap ==
  ASSUME NEW input, classify(input) = "recurring"
  PROVE  /\ assertComparable(input) /\ Names(input)
         /\ withinCap(input)
<1>1. assertComparable(input) /\ isPreApprovedSchedule(input)
  BY DEF classify
<1> QED
  BY <1>1 DEF isPreApprovedSchedule

\* A request judged "recurring" names a category of a version that has been
\* appended, and what counts in its window and the request are within the cap.
LEMMA JudgedRecurring ==
  ASSUME PlansInv, SubmissionsTypeOK, FinitelyManyRecords, NEW ask \in Asks,
         tierOf(ask, now) = "recurring",
         NEW category, category = ask.request.categoryId,
         NEW amount, amount = ask.request.amount
  PROVE  /\ category \in Categories
         /\ monthlyCap(category) # NoCap =>
              /\ \A s \in counted(category, now) :
                   request[s].amount.currency = monthlyCap(category).currency
              /\ amount.currency = monthlyCap(category).currency
              /\ total(counted(category, now), monthlyCap(category).currency).amount
                   + amount.amount <= monthlyCap(category).amount
<1> DEFINE spend == monthToDateSpend(category, amount.currency, now)
           caps  == capsInForce
           input == TierInput(ask.request, caps, spend, ask.recurringRule)
<1>1. oneCurrency(category, amount.currency, now) /\ classify(input) = "recurring"
  BY DEF tierOf
<1>2. /\ input.request = ask.request /\ input.planVersion = caps
      /\ input.spendToDate = spend
  BY DEF TierInput
<1> HIDE DEF input
<1>3. assertComparable(input) /\ Names(input) /\ withinCap(input)
  BY <1>1, RecurringIsWithinCap
<1>4. caps # Null /\ category \in DOMAIN caps
  BY <1>2, <1>3 DEF Names
<1>5. /\ planVersionInForce # Null /\ category \in {planVersionInForce} \X Name
      /\ caps[category] = monthlyCap(category)
  BY <1>4 DEF capsInForce
<1>6. category \in Categories
  BY <1>5, InForceIsAVersion DEF FinitelyManyRecords, Categories
<1>7. ASSUME monthlyCap(category) # NoCap
      PROVE  /\ \A s \in counted(category, now) :
                   request[s].amount.currency = monthlyCap(category).currency
             /\ amount.currency = monthlyCap(category).currency
             /\ total(counted(category, now), monthlyCap(category).currency).amount
                  + amount.amount <= monthlyCap(category).amount
  <2> DEFINE cap == monthlyCap(category)
  <2>1. capOf(input) = cap
    BY <1>2, <1>5 DEF capOf
  <2>2. cap.currency = amount.currency
    BY <1>2, <1>3, <1>7, <2>1 DEF assertComparable, sameCurrency
  <2>3. category # Null
    <3>1. category \in Category
      BY <1>6, CategoryShapes DEF PlansInv
    <3> QED BY <3>1, NullIsNoRequest
  <2>4. spend = total(counted(category, now), amount.currency)
    BY <2>3 DEF monthToDateSpend
  <2>5. \A s \in counted(category, now) : request[s].amount.currency = amount.currency
    BY <1>1, <2>3 DEF oneCurrency
  <2>6. compare(add(spend, amount), cap) <= 0
    BY <1>2, <1>3, <1>7, <2>1 DEF withinCap
  <2>7. add(spend, amount).amount = spend.amount + amount.amount
    BY DEF add, money
  <2>8. spend.amount \in Int /\ amount.amount \in Int /\ cap.amount \in Int
    <3>1. cap \in Cap
      BY <1>6, <1>7, CategoryShapes DEF PlansInv
    <3>2. amount \in Asked
      BY DEF Asks, TierRequest
    <3>3. spend.amount \in Int
      <4>1. counted(category, now) \subseteq Rows
        BY DEF counted, Approved
      <4> QED BY <2>4, <4>1, TotalIsASum DEF FinitelyManyRecords
    <3> QED BY <3>1, <3>2, <3>3, SubmissionsAssumption
  <2>9. spend.amount + amount.amount <= cap.amount
    BY <2>6, <2>7, <2>8 DEF compare
  <2> QED BY <2>2, <2>4, <2>5, <2>9
<1> QED
  BY <1>6, <1>7

(***************************************************************************)
(* The inductive invariant.                                                *)
(***************************************************************************)

LEMMA SubmissionShapes ==
  ASSUME SubmissionsTypeOK, NEW s \in Submission
  PROVE  /\ submission[s] \in SubmissionState
         /\ submission[s].phase \in {"idle", "stored", "judged"}
         /\ submission[s].phase = "judged" => submission[s].row \in RequestRow
BY DEF SubmissionsTypeOK, SubmissionState

LEMMA InitSubmissionsInv == SubmissionsInit => SubmissionsInv
<1> SUFFICES ASSUME SubmissionsInit PROVE SubmissionsInv
  OBVIOUS
<1>1. PlansInv /\ PlanIds = {}
  BY InitPlansInv DEF SubmissionsInit, PlansInit, PlanIds
<1>2. SubmissionsTypeOK
  BY <1>1 DEF SubmissionsInit, PlansInv, SubmissionsTypeOK, SubmissionState
<1>3. Rows = {}
  BY DEF SubmissionsInit, Rows
<1>4. FinitelyManyRecords
  BY <1>1, <1>3, FS_EmptySet DEF FinitelyManyRecords
<1>5. RowsAreJudged
  BY <1>3 DEF SubmissionsInit, RowsAreJudged
<1> QED
  BY <1>1, <1>2, <1>4, <1>5 DEF SubmissionsInv

\* Nothing that a judgement rests on is ever changed.
Kept ==
  /\ \A s \in Rows : /\ s \in Rows'
                     /\ request'[s].amount = request[s].amount
                     /\ request'[s].category = request[s].category
                     /\ request'[s].created_at = request[s].created_at
  /\ \A v \in Call : plan_version[v] # Null => plan_version'[v] = plan_version[v]

LEMMA JudgementsKeep ==
  ASSUME SubmissionsInv, SubmissionsTypeOK', IsFiniteSet(Rows)', Kept,
         NEW row, JudgedWithinCap(row)
  PROVE  JudgedWithinCap(row)'
<1> DEFINE cap == monthlyCap(row.category)
<1>1. row.approvedThen \subseteq Rows' /\ row.approvedThen \subseteq Rows
  BY DEF JudgedWithinCap, Kept
<1>2. SUFFICES ASSUME row.tier = "recurring"
               PROVE  /\ row.category \in Categories'
                      /\ cap' # NoCap =>
                           /\ \A s \in spentThen(row)' :
                                request'[s].amount.currency = cap'.currency
                           /\ row.amount.currency = cap'.currency
                           /\ total(spentThen(row), cap.currency)'.amount + row.amount.amount
                                <= cap'.amount
  BY <1>1 DEF JudgedWithinCap
<1>3. row.category \in Categories
  BY <1>2 DEF JudgedWithinCap
<1>4. row.category[1] \in Call /\ plan_version[row.category[1]] # Null
  BY <1>3, CategoryShapes DEF SubmissionsInv, PlansInv
<1>5. plan_version'[row.category[1]] = plan_version[row.category[1]]
  BY <1>4 DEF Kept
<1>6. row.category \in Categories'
  BY <1>3, <1>4, <1>5 DEF Categories
<1>7. cap' = cap /\ zoneOf(row.category)' = zoneOf(row.category)
  BY <1>5 DEF monthlyCap, zoneOf
<1>8. spentThen(row)' = spentThen(row) /\ spentThen(row) \subseteq Rows
      /\ spentThen(row) \subseteq Rows'
  BY <1>1, <1>7 DEF spentThen, Kept, localMonth
<1>9. ASSUME cap # NoCap
      PROVE  /\ \A s \in spentThen(row)' : request'[s].amount.currency = cap'.currency
             /\ row.amount.currency = cap'.currency
             /\ total(spentThen(row), cap.currency)'.amount + row.amount.amount <= cap'.amount
  <2>1. /\ \A s \in spentThen(row) : request[s].amount.currency = cap.currency
        /\ row.amount.currency = cap.currency
        /\ total(spentThen(row), cap.currency).amount + row.amount.amount <= cap.amount
    BY <1>2, <1>9 DEF JudgedWithinCap
  <2>2. \A s \in spentThen(row) : request'[s].amount = request[s].amount
    BY <1>8 DEF Kept
  <2>3. total(spentThen(row), cap.currency)' = total(spentThen(row), cap.currency)
    BY <1>7, <1>8, <2>2 DEF total
  <2> QED
    BY <1>7, <1>8, <2>1, <2>2, <2>3
<1> HIDE DEF cap
<1> QED
  BY <1>6, <1>7, <1>9

\* What RowsAreJudged says of one submission.
RowIsJudged(s) ==
  /\ s \in Rows <=> submission[s].phase = "stored"
  /\ submission[s].phase = "judged" => JudgedWithinCap(submission[s].row)
  /\ s \in Rows => s \notin request[s].approvedThen /\ JudgedWithinCap(request[s])

LEMMA RowsStayJudged ==
  ASSUME SubmissionsInv, SubmissionsTypeOK', IsFiniteSet(Rows)', Kept, NEW t \in Submission,
         submission'[t] = submission[t], request'[t] = request[t]
  PROVE  RowIsJudged(t)'
<1>1. PICK held, row : held = submission[t].row /\ row = request[t]
  OBVIOUS
<1>2. /\ t \in Rows <=> submission[t].phase = "stored"
      /\ submission[t].phase = "judged" => JudgedWithinCap(held)
      /\ t \in Rows => t \notin row.approvedThen /\ JudgedWithinCap(row)
  BY <1>1 DEF SubmissionsInv, RowsAreJudged
<1>3. /\ submission[t].phase = "judged" => JudgedWithinCap(held)'
      /\ t \in Rows => JudgedWithinCap(row)'
  BY <1>2, JudgementsKeep
<1>4. t \in Rows' <=> t \in Rows
  BY DEF Rows
<1>5. (submission[t].row)' = held /\ (request[t])' = row
  BY <1>1
<1> QED
  BY <1>2, <1>3, <1>4, <1>5 DEF RowIsJudged

LEMMA SubmitRequestKeeps ==
  ASSUME SubmissionsInv, NEW s \in Submission, NEW ask \in Asks, NEW began,
         submitRequest(s, ask, began)
  PROVE  SubmissionsInv'
<1> DEFINE row == [amount |-> ask.request.amount, category |-> ask.request.categoryId,
                   tier |-> tierOf(ask, now), created_at |-> began, judged_at |-> now,
                   approvedThen |-> Approved, status |-> "pending"]
<1>1. row \in RequestRow
  <2>1. ask.request.amount \in Asked /\ ask.request.categoryId \in Categories \cup {Null}
    BY DEF Asks, TierRequest
  <2>2. ask.request.categoryId \in Category \cup {Null}
    BY <2>1, CategoryShapes DEF SubmissionsInv, PlansInv
  <2>3. tierOf(ask, now) \in Tiers
    BY TierIsATier DEF submitRequest, tierOf
  <2>4. now \in 0 .. MaxNow /\ began \in 0 .. MaxNow
    BY PlansAssumption DEF submitRequest, SubmissionsInv, PlansInv, PlansTypeOK
  <2>5. Approved \in SUBSET Submission
    BY DEF Approved, Rows
  <2> QED
    BY <2>1, <2>2, <2>3, <2>4, <2>5 DEF RequestRow
<1>2. PICK held : held = row
  OBVIOUS
<1>3. /\ held \in RequestRow /\ held.approvedThen = Approved /\ held.judged_at = now
      /\ held.category = ask.request.categoryId /\ held.amount = ask.request.amount
      /\ held.tier = tierOf(ask, now)
  BY <1>1, <1>2
<1>4. /\ submission'[s] = [phase |-> "judged", row |-> held]
      /\ \A t \in Submission \ {s} : submission'[t] = submission[t]
      /\ submission' = [submission EXCEPT ![s] = [phase |-> "judged", row |-> held]]
      /\ submission[s].phase = "idle" /\ UNCHANGED <<planVars, request>>
  BY <1>2 DEF submitRequest, SubmissionsInv, SubmissionsTypeOK
<1> HIDE DEF row
<1>5. PlansInv'
  <2>1. UNCHANGED <<money_plan, plan_version, call>> /\ now' \in 0 .. MaxNow
    BY <1>4 DEF planVars, SubmissionsInv, PlansInv, PlansTypeOK
  <2> QED BY <2>1, UnchangedPlans DEF SubmissionsInv
<1>6. SubmissionsTypeOK'
  <2>1. [phase |-> "judged", row |-> held] \in SubmissionState
    BY <1>3 DEF SubmissionState
  <2> QED BY <1>4, <1>5, <2>1 DEF SubmissionsInv, PlansInv, SubmissionsTypeOK
<1>7. Rows' = Rows /\ PlanIds' = PlanIds /\ FinitelyManyRecords'
  BY <1>4 DEF Rows, PlanIds, FinitelyManyRecords, SubmissionsInv, planVars
<1>8. Kept
  BY <1>4, <1>7 DEF Kept, planVars
<1>9. JudgedWithinCap(held)
  <2>1. held.approvedThen \subseteq Rows
    BY <1>3 DEF Approved
  <2>2. CASE held.tier # "recurring"
    BY <2>1, <2>2 DEF JudgedWithinCap
  <2>3. CASE held.tier = "recurring"
    <3> DEFINE cap == monthlyCap(held.category)
    <3>1. /\ held.category \in Categories
          /\ cap # NoCap =>
              /\ \A t \in counted(held.category, now) : request[t].amount.currency = cap.currency
              /\ held.amount.currency = cap.currency
              /\ total(counted(held.category, now), cap.currency).amount + held.amount.amount
                   <= cap.amount
      BY <1>3, <2>3, JudgedRecurring DEF SubmissionsInv
    <3>2. spentThen(held) = counted(held.category, now)
      <4>1. zoneOf(held.category) \in Zone /\ now \in Int
        BY <3>1, CategoryShapes DEF SubmissionsInv, PlansInv, PlansTypeOK
      <4>2. ASSUME NEW t \in Approved
            PROVE  (/\ request[t].created_at >= startOfMonth(zoneOf(held.category), now)
                    /\ request[t].created_at < endOfMonth(zoneOf(held.category), now))
                      <=> localMonth(zoneOf(held.category), request[t].created_at)
                            = localMonth(zoneOf(held.category), now)
        <5>1. request[t].created_at \in Int
          BY RequestShapes DEF Approved, SubmissionsInv
        <5> QED BY <4>1, <5>1, WindowIsTheMonth
      <4> QED BY <1>3, <4>2 DEF spentThen, counted
    <3> QED
      BY <2>1, <3>1, <3>2 DEF JudgedWithinCap
  <2> QED BY <2>2, <2>3
<1>10. JudgedWithinCap(held)'
  BY <1>6, <1>7, <1>8, <1>9, JudgementsKeep DEF FinitelyManyRecords
<1>11. RowIsJudged(s)'
  <2>1. s \notin Rows
    BY <1>4 DEF SubmissionsInv, RowsAreJudged
  <2>2. submission'[s].phase = "judged" /\ (submission[s].row)' = held
    BY <1>4
  <2> QED
    BY <1>7, <1>10, <2>1, <2>2 DEF RowIsJudged
<1>12. \A t \in Submission \ {s} : RowIsJudged(t)'
  BY <1>4, <1>6, <1>7, <1>8, RowsStayJudged DEF FinitelyManyRecords
<1> QED
  BY <1>5, <1>6, <1>7, <1>11, <1>12 DEF SubmissionsInv, RowsAreJudged, RowIsJudged

\* A step that leaves the requests, and changes one submission into one that
\* holds nothing, or none.
LEMMA LeavingRequestsKeeps ==
  ASSUME SubmissionsInv, PlansInv', IsFiniteSet(PlanIds)', UNCHANGED request,
         \A v \in Call : plan_version[v] # Null => plan_version'[v] = plan_version[v],
         submission' \in [Submission -> SubmissionState],
         \A t \in Submission : \/ submission'[t] = submission[t]
                               \/ submission[t].phase = "judged" /\ submission'[t].phase = "idle"
  PROVE  SubmissionsInv'
<1>1. SubmissionsTypeOK'
  BY DEF SubmissionsInv, PlansInv, SubmissionsTypeOK
<1>2. Rows' = Rows /\ FinitelyManyRecords'
  BY DEF Rows, FinitelyManyRecords, SubmissionsInv
<1>3. Kept
  BY <1>2 DEF Kept
<1>4. ASSUME NEW t \in Submission PROVE RowIsJudged(t)'
  <2>1. CASE submission'[t] = submission[t]
    BY <1>1, <1>2, <1>3, <2>1, RowsStayJudged DEF FinitelyManyRecords
  <2>2. CASE submission[t].phase = "judged" /\ submission'[t].phase = "idle"
    <3>1. t \notin Rows
      BY <2>2 DEF SubmissionsInv, RowsAreJudged
    <3> QED BY <1>2, <2>2, <3>1 DEF RowIsJudged
  <2> QED BY <1>4, <2>1, <2>2
<1> QED
  BY <1>1, <1>2, <1>4 DEF SubmissionsInv, RowsAreJudged, RowIsJudged

LEMMA PlanStepKeeps ==
  ASSUME SubmissionsInv, PlanStep, UNCHANGED <<request, submission>>
  PROVE  SubmissionsInv'
<1>1. PlansInv'
  BY StepPlansInv DEF SubmissionsInv
<1>2. PICK c \in Call :
        \/ c \in Creation /\ \E zone \in Zone : createPlan(c, zone)
        \/ c \in Edit /\ \E p \in PlanIds, zone \in Zone, cap \in [Name -> Cap] :
             editPlan(c, p, [zone |-> zone, cap |-> cap])
        \/ firstVersion(c) \/ appendVersion(c) \/ again(c) \/ throws(c)
  BY DEF PlanStep
<1>3. PlanIds' \subseteq PlanIds \cup {c}
  <2>1. CASE money_plan' = money_plan
    BY <2>1 DEF PlanIds
  <2>2. CASE \E zone \in Zone : createPlan(c, zone)
    BY <2>2 DEF createPlan, PlanIds, SubmissionsInv, PlansInv, PlansTypeOK
  <2>3. CASE appendVersion(c)
    <3>1. call[c].plan \in PlanIds
      BY <2>3 DEF appendVersion, SubmissionsInv, PlansInv, CallsAreInOrder
    <3>2. \A p \in Call \ {call[c].plan} : money_plan'[p] = money_plan[p]
      BY <2>3 DEF appendVersion, SubmissionsInv, PlansInv, PlansTypeOK
    <3> QED BY <3>1, <3>2 DEF PlanIds
  <2> QED
    BY <1>2, <2>1, <2>2, <2>3 DEF editPlan, firstVersion, again, throws
<1>4. IsFiniteSet(PlanIds)'
  <2>1. IsFiniteSet(PlanIds \cup {c})
    BY FS_AddElement DEF SubmissionsInv, FinitelyManyRecords
  <2> QED BY <1>3, <2>1, FS_Subset
<1>5. \A v \in Call : plan_version[v] # Null => plan_version'[v] = plan_version[v]
  <2>1. CASE plan_version' = plan_version
    BY <2>1
  <2>2. CASE appendVersion(c)
    <3>1. plan_version[c] = Null
      BY <2>2 DEF appendVersion, SubmissionsInv, PlansInv, VersionsHaveAPlan
    <3> QED BY <2>2, <3>1 DEF appendVersion, SubmissionsInv, PlansInv, PlansTypeOK
  <2> QED
    BY <1>2, <2>1, <2>2 DEF createPlan, editPlan, firstVersion, again, throws
<1> QED
  BY <1>1, <1>4, <1>5, LeavingRequestsKeeps DEF SubmissionsInv, SubmissionsTypeOK

\* Storing a row, or approving it: the rows of the others stay as they are.
LEMMA StoringKeeps ==
  ASSUME SubmissionsInv, NEW s \in Submission, UNCHANGED planVars,
         NEW row \in RequestRow, request' = [request EXCEPT ![s] = row],
         submission'[s].phase = "stored",
         submission' \in [Submission -> SubmissionState],
         \A t \in Submission \ {s} : submission'[t] = submission[t],
         s \in Rows => /\ row.amount = request[s].amount
                       /\ row.category = request[s].category
                       /\ row.created_at = request[s].created_at,
         JudgedWithinCap(row), s \notin row.approvedThen
  PROVE  SubmissionsInv'
<1>1. /\ request'[s] = row /\ \A t \in Submission \ {s} : request'[t] = request[t]
      /\ request' \in [Submission -> RequestRow \cup {Null}]
  BY DEF SubmissionsInv, SubmissionsTypeOK
<1>2. row # Null
  BY NullIsNoRequest
<1>3. PlansInv'
  <2>1. UNCHANGED <<money_plan, plan_version, call>> /\ now' \in 0 .. MaxNow
    BY DEF planVars, SubmissionsInv, PlansInv, PlansTypeOK
  <2> QED BY <2>1, UnchangedPlans DEF SubmissionsInv
<1>4. SubmissionsTypeOK'
  BY <1>1, <1>3 DEF PlansInv, SubmissionsTypeOK
<1>5. Rows' = Rows \cup {s}
  BY <1>1, <1>2 DEF Rows
<1>6. FinitelyManyRecords'
  <2>1. IsFiniteSet(Rows \cup {s}) /\ IsFiniteSet(PlanIds)
    BY FS_AddElement DEF SubmissionsInv, FinitelyManyRecords
  <2>2. PlanIds' = PlanIds
    BY DEF PlanIds, planVars
  <2> QED BY <1>5, <2>1, <2>2 DEF FinitelyManyRecords
<1>7. Kept
  <2>1. \A t \in Rows : /\ t \in Rows'
                        /\ request'[t].amount = request[t].amount
                        /\ request'[t].category = request[t].category
                        /\ request'[t].created_at = request[t].created_at
    BY <1>1, <1>5 DEF Rows
  <2> QED BY <2>1 DEF Kept, planVars
<1>8. JudgedWithinCap(row)'
  BY <1>4, <1>6, <1>7, JudgementsKeep DEF FinitelyManyRecords
<1>9. RowIsJudged(s)'
  <2>1. (request[s])' = row
    BY <1>1
  <2> QED BY <1>5, <1>8, <2>1 DEF RowIsJudged
<1>10. \A t \in Submission \ {s} : RowIsJudged(t)'
  BY <1>1, <1>4, <1>6, <1>7, RowsStayJudged DEF FinitelyManyRecords
<1> QED
  BY <1>3, <1>4, <1>6, <1>9, <1>10 DEF SubmissionsInv, RowsAreJudged, RowIsJudged

LEMMA InsertKeeps ==
  ASSUME SubmissionsInv, NEW s \in Submission, insert(s)
  PROVE  SubmissionsInv'
<1>1. PICK row : row = submission[s].row
  OBVIOUS
<1>2. /\ submission[s].phase = "judged" /\ row \in RequestRow
      /\ request' = [request EXCEPT ![s] = row] /\ UNCHANGED planVars
  BY <1>1, SubmissionShapes DEF insert, SubmissionsInv
<1>3. /\ submission'[s].phase = "stored"
      /\ submission' \in [Submission -> SubmissionState]
      /\ \A t \in Submission \ {s} : submission'[t] = submission[t]
  <2>1. [phase |-> "stored"] \in SubmissionState
    BY DEF SubmissionState
  <2> QED BY <2>1 DEF insert, SubmissionsInv, SubmissionsTypeOK
<1>4. s \notin Rows /\ JudgedWithinCap(row)
  BY <1>1, <1>2 DEF SubmissionsInv, RowsAreJudged
<1>5. s \notin row.approvedThen
  BY <1>4 DEF JudgedWithinCap
<1> QED
  BY <1>2, <1>3, <1>4, <1>5, StoringKeeps

LEMMA ApproveRequestKeeps ==
  ASSUME SubmissionsInv, NEW s \in Submission, approveRequest(s)
  PROVE  SubmissionsInv'
<1>1. PICK was, row : was = request[s] /\ row = [was EXCEPT !.status = "approved"]
  OBVIOUS
<1>2. /\ s \in Rows /\ was \in RequestRow
      /\ request' = [request EXCEPT ![s] = row] /\ UNCHANGED <<planVars, submission>>
  BY <1>1, RequestShapes DEF approveRequest, SubmissionsInv
<1>3. /\ row \in RequestRow
      /\ row.amount = was.amount /\ row.category = was.category /\ row.tier = was.tier
      /\ row.created_at = was.created_at /\ row.judged_at = was.judged_at
      /\ row.approvedThen = was.approvedThen
  BY <1>1, <1>2 DEF RequestRow
<1>4. JudgedWithinCap(was) /\ s \notin was.approvedThen /\ submission[s].phase = "stored"
  BY <1>1, <1>2 DEF SubmissionsInv, RowsAreJudged
<1>5. spentThen(row) = spentThen(was)
  BY <1>3 DEF spentThen
<1>6. JudgedWithinCap(row)
  BY <1>3, <1>4, <1>5 DEF JudgedWithinCap
<1> QED
  BY <1>1, <1>2, <1>3, <1>4, <1>6, StoringKeeps DEF SubmissionsInv, SubmissionsTypeOK

LEMMA StepSubmissionsInv ==
  ASSUME SubmissionsInv, [SubmissionsNext]_submissionsVars
  PROVE  SubmissionsInv'
<1>1. CASE PlanStep /\ UNCHANGED <<request, submission>>
  BY <1>1, PlanStepKeeps
<1>2. ASSUME NEW s \in Submission, NEW ask \in Asks, NEW began \in 0 .. now,
             submitRequest(s, ask, began)
      PROVE  SubmissionsInv'
  BY <1>2, SubmitRequestKeeps
<1>3. ASSUME NEW s \in Submission, insert(s) PROVE SubmissionsInv'
  BY <1>3, InsertKeeps
<1>4. ASSUME NEW s \in Submission, approveRequest(s) PROVE SubmissionsInv'
  BY <1>4, ApproveRequestKeeps
<1>5. PlansInv'
  BY StepKeepsPlans DEF SubmissionsInv
<1>6. ASSUME UNCHANGED <<money_plan, plan_version, request>>,
             submission' \in [Submission -> SubmissionState],
             \A t \in Submission :
               \/ submission'[t] = submission[t]
               \/ submission[t].phase = "judged" /\ submission'[t].phase = "idle"
      PROVE  SubmissionsInv'
  <2>1. PlanIds' = PlanIds
    BY <1>6 DEF PlanIds
  <2> QED
    BY <1>5, <1>6, <2>1, LeavingRequestsKeeps DEF SubmissionsInv, FinitelyManyRecords
<1>7. ASSUME NEW s \in Submission, insertFails(s) PROVE SubmissionsInv'
  <2>1. [phase |-> "idle"] \in SubmissionState
    BY DEF SubmissionState
  <2>2. /\ UNCHANGED <<money_plan, plan_version, request>>
        /\ submission' \in [Submission -> SubmissionState]
        /\ submission[s].phase = "judged" /\ submission'[s].phase = "idle"
        /\ \A t \in Submission \ {s} : submission'[t] = submission[t]
    BY <1>7, <2>1 DEF insertFails, planVars, SubmissionsInv, SubmissionsTypeOK
  <2> QED BY <1>6, <2>2
<1>8. CASE Tick \/ UNCHANGED submissionsVars
  <2>1. UNCHANGED <<money_plan, plan_version, request, submission>>
    BY <1>8 DEF Tick, submissionsVars, planVars
  <2> QED BY <1>6, <2>1 DEF SubmissionsInv, SubmissionsTypeOK
<1> QED
  BY <1>1, <1>2, <1>3, <1>4, <1>7, <1>8 DEF SubmissionsNext

\* The invariant of the submissions holds in every reachable state.
THEOREM SubmissionsInvariance == SubmissionsSpec => []SubmissionsInv
<1>1. SubmissionsInit => SubmissionsInv
  BY InitSubmissionsInv
<1>2. SubmissionsInv /\ [SubmissionsNext]_submissionsVars => SubmissionsInv'
  BY StepSubmissionsInv
<1> QED
  BY <1>1, <1>2, PTL DEF SubmissionsSpec

\* A request nobody is asked to look at stayed within the cap of its category,
\* with all that had been approved of its month: whatever was submitted,
\* approved or replanned between its judgement and its insertion.
THEOREM RecurringStaysWithinCap == SubmissionsSpec => []RecurringKeepsTheCap
<1>1. SubmissionsInv => RecurringKeepsTheCap
  <2> SUFFICES ASSUME SubmissionsInv, NEW r \in Rows,
                      NEW row, row = request[r], NEW cap, cap = monthlyCap(row.category),
                      row.tier = "recurring", cap # NoCap
               PROVE  /\ \A s \in spentThen(row) \cup {r} :
                           request[s].amount.currency = cap.currency
                      /\ total(spentThen(row) \cup {r}, row.amount.currency).amount
                           <= cap.amount
    BY DEF RecurringKeepsTheCap, spentThen
  <2> DEFINE f == [s \in Rows |-> request[s].amount.amount]
             spent == spentThen(row)
  <2>1. /\ SubmissionsTypeOK /\ IsFiniteSet(Rows)
        /\ JudgedWithinCap(row) /\ r \notin row.approvedThen
    BY DEF SubmissionsInv, FinitelyManyRecords, RowsAreJudged, Rows
  <2>2. /\ spent \subseteq Rows /\ r \notin spent
        /\ \A s \in spent : request[s].amount.currency = cap.currency
        /\ row.amount.currency = cap.currency
        /\ total(spent, cap.currency).amount + row.amount.amount <= cap.amount
    BY <2>1 DEF JudgedWithinCap, spentThen
  <2>3. IsFiniteSet(spent) /\ spent \cup {r} \subseteq Rows
    BY <2>1, <2>2, FS_Subset
  <2>4. /\ \A s \in Rows : f[s] = request[s].amount.amount /\ f[s] \in Int
        /\ f[r] = row.amount.amount
    BY <2>1, RequestShapes
  <2> HIDE DEF f, spent
  <2>5. total(spent, cap.currency).amount = SumFunctionOnSet(f, spent)
    BY <2>1, <2>2, <2>4, TotalIsASum
  <2>6. total(spent \cup {r}, row.amount.currency).amount = SumFunctionOnSet(f, spent \cup {r})
    BY <2>1, <2>3, <2>4, TotalIsASum
  <2>7. SumFunctionOnSet(f, spent \cup {r}) = f[r] + SumFunctionOnSet(f, spent)
    BY <2>2, <2>3, <2>4, SumPut
  <2>8. SumFunctionOnSet(f, spent) \in Int /\ f[r] \in Int
    BY <2>2, <2>3, <2>4, SumInt
  <2>9. total(spent \cup {r}, row.amount.currency).amount <= cap.amount
    BY <2>2, <2>4, <2>5, <2>6, <2>7, <2>8
  <2> QED
    BY <2>2, <2>9 DEF spent
<1> QED
  BY <1>1, SubmissionsInvariance, PTL

(***************************************************************************)
(* PART FIVE.  Amounts.                                                    *)
(***************************************************************************)

LEMMA OperationShapes ==
  ASSUME operation \in Calls
  PROVE  /\ operation.op = "multiply" =>
              /\ operation.value.amount \in Int
              /\ operation.ratio.num \in Int /\ operation.ratio.den \in Int
              /\ operation.rounding \in RoundingMode
         /\ operation.op = "allocate" =>
              operation.value.amount \in Int /\ operation.weights \in Seq(Int)
<1>1. \A v \in Values : v.amount \in Int
  BY MoneyCallsAssumption DEF Values, money
<1> QED
  BY <1>1, MoneyCallsAssumption DEF Calls

LEMMA InitAnswersAreComputed == MoneyInit => AnswersAreComputed
BY DEF MoneyInit, AnswersAreComputed, Answered

LEMMA StepAnswersAreComputed ==
  AnswersAreComputed /\ [MoneyNext]_moneyVars => AnswersAreComputed'
<1> SUFFICES ASSUME AnswersAreComputed, [MoneyNext]_moneyVars PROVE AnswersAreComputed'
  OBVIOUS
<1> USE DEF AnswersAreComputed, Answered
<1>1. CASE Multiply BY <1>1 DEF Multiply, Return
<1>2. CASE Allocate BY <1>2 DEF Allocate, Return
<1>3. CASE Parse BY <1>3 DEF Parse, Return
<1>4. CASE Render BY <1>4 DEF Render, Return
<1>5. CASE UNCHANGED moneyVars BY <1>5 DEF moneyVars
<1> QED
  BY <1>1, <1>2, <1>3, <1>4, <1>5 DEF MoneyNext

\* What is answered is what the function called returns.
THEOREM AmountsInvariance == MoneySpec => []AnswersAreComputed
BY InitAnswersAreComputed, StepAnswersAreComputed, PTL DEF MoneySpec

\* Division of whole numbers, as the SMT solver does not find it by itself.
LEMMA Division ==
  ASSUME NEW n \in Nat, NEW d \in Nat \ {0}
  PROVE  /\ n \div d \in Nat /\ n % d \in Nat /\ n % d < d
         /\ n = (n \div d) * d + (n % d)
OBVIOUS

LEMMA Product ==
  ASSUME NEW y \in Int, NEW d \in Nat \ {0}
  PROVE  /\ y * d \in Int
         /\ y >= 1 => y * d >= d
         /\ y <= -1 => y * d <= -d
         /\ y <= -2 => y * d <= -(2 * d)
OBVIOUS

\* The whole numbers y less than 1 away from q + r / d.
LEMMA AroundAQuotient ==
  ASSUME NEW q \in Nat, NEW r \in Nat, NEW d \in Nat \ {0}, r < d, NEW y \in Int
  PROVE  magnitude(q * d + r - y * d) < d <=> y = q \/ (y = q + 1 /\ r # 0)
<1>1. q * d + r - y * d = (q - y) * d + r
  OBVIOUS
<1>2. /\ (q - y) * d \in Int
      /\ q - y >= 1 => (q - y) * d >= d
      /\ q - y <= -2 => (q - y) * d <= -(2 * d)
  BY Product
<1>3. (y = q => (q - y) * d = 0) /\ (y = q + 1 => (q - y) * d = -d)
  OBVIOUS
<1> DEFINE z == (q - y) * d
<1> HIDE DEF z
<1>4. /\ z \in Int /\ (q - y >= 1 => z >= d) /\ (q - y <= -2 => z <= -(2 * d))
      /\ (y = q => z = 0) /\ (y = q + 1 => z = -d)
      /\ magnitude(q * d + r - y * d) = magnitude(z + r)
  BY <1>1, <1>2, <1>3 DEF z
<1>5. y = q \/ y = q + 1 \/ q - y >= 1 \/ q - y <= -2
  OBVIOUS
<1> QED
  BY <1>4, <1>5 DEF magnitude

\* The sign of a quotient, as divideRounded takes it.
signOf(num, den) == IF (num < 0) # (den < 0) THEN -1 ELSE 1

LEMMA Magnitudes ==
  ASSUME NEW num \in Int, NEW den \in Int, den # 0, NEW x \in Int
  PROVE  /\ magnitude(num) \in Nat /\ magnitude(den) \in Nat \ {0}
         /\ signOf(num, den) \in {-1, 1}
         /\ signOf(num, den) * x \in Int
         /\ magnitude(signOf(num, den) * x) = magnitude(x)
         /\ magnitude(num - x * den)
              = magnitude(magnitude(num) - (signOf(num, den) * x) * magnitude(den))
<1>1. /\ magnitude(num) \in Nat /\ magnitude(den) \in Nat \ {0}
      /\ signOf(num, den) \in {-1, 1}
  BY DEF magnitude, signOf
<1>2. /\ signOf(num, den) * x \in Int
      /\ magnitude(signOf(num, den) * x) = magnitude(x)
  BY DEF magnitude, signOf
<1> DEFINE z == x * den
<1>3. /\ z \in Int /\ x * (-den) = -z /\ (-x) * den = -z /\ (-x) * (-den) = z
  OBVIOUS
<1>4. (signOf(num, den) * x) * magnitude(den) = IF num < 0 THEN -z ELSE z
  <2>1. CASE num < 0 /\ den < 0 BY <2>1, <1>3 DEF signOf, magnitude
  <2>2. CASE num < 0 /\ den > 0 BY <2>2, <1>3 DEF signOf, magnitude
  <2>3. CASE num >= 0 /\ den < 0 BY <2>3, <1>3 DEF signOf, magnitude
  <2>4. CASE num >= 0 /\ den > 0 BY <2>4, <1>3 DEF signOf, magnitude
  <2> QED BY <2>1, <2>2, <2>3, <2>4
<1> HIDE DEF z
<1>5. magnitude(num - z) = magnitude(magnitude(num) - (IF num < 0 THEN -z ELSE z))
  BY <1>3 DEF magnitude
<1> QED
  BY <1>1, <1>2, <1>4, <1>5 DEF z

LEMMA AroundIs ==
  ASSUME NEW num \in Int, NEW den \in Int, den # 0
  PROVE  LET s == signOf(num, den)
             d == magnitude(den)
             q == magnitude(num) \div d
             r == magnitude(num) % d
         IN  /\ q \in Nat /\ r \in Nat /\ r < d /\ s \in {-1, 1} /\ d \in Nat
             /\ Around(num, den) = IF r = 0 THEN {s * q} ELSE {s * q, s * (q + 1)}
             /\ distance(s * q, num, den) = r
             /\ distance(s * (q + 1), num, den) = d - r
<1> DEFINE s == signOf(num, den)
           d == magnitude(den)
           n == magnitude(num)
           q == n \div d
           r == n % d
<1>1. n \in Nat /\ d \in Nat \ {0} /\ s \in {-1, 1}
  BY Magnitudes
<1>2. q \in Nat /\ r \in Nat /\ r < d /\ n = q * d + r
  <2> HIDE DEF n, d
  <2> QED BY <1>1, Division
<1>3. \A x \in Int : s * x \in Int /\ distance(x, num, den) = magnitude(q * d + r - (s * x) * d)
  <2> TAKE x \in Int
  <2>1. s * x \in Int /\ magnitude(num - x * den) = magnitude(n - (s * x) * d)
    BY Magnitudes
  <2>2. distance(x, num, den) = magnitude(num - x * den)
    BY DEF distance
  <2> HIDE DEF n, d, q, r, s
  <2> DEFINE w == (s * x) * d
             m == q * d
  <2>3. n = m + r /\ m \in Int /\ r \in Int /\ w \in Int
    BY <1>1, <1>2, <2>1
  <2>4. distance(x, num, den) = magnitude(n - w)
    BY <2>1, <2>2
  <2> HIDE DEF w, m
  <2>5. distance(x, num, den) = magnitude(m + r - w)
    BY <2>3, <2>4
  <2> QED BY <2>1, <2>5 DEF m, w
<1>4. \A x \in Int : distance(x, num, den) < d <=> s * x = q \/ (s * x = q + 1 /\ r # 0)
  <2> HIDE DEF n, d, q, r, s
  <2> TAKE x \in Int
  <2>1. s * x \in Int
    BY <1>3
  <2>2. magnitude(q * d + r - (s * x) * d) < d <=> s * x = q \/ (s * x = q + 1 /\ r # 0)
    <3> DEFINE y == s * x
    <3>1. y \in Int
      BY <2>1
    <3> HIDE DEF y
    <3>2. magnitude(q * d + r - y * d) < d <=> y = q \/ (y = q + 1 /\ r # 0)
      BY <1>1, <1>2, <3>1, AroundAQuotient
    <3> QED BY <3>2 DEF y
  <2> QED BY <1>3, <2>2
<1>5. Around(num, den) = {x \in -(q + 1) .. q + 1 : distance(x, num, den) < d}
  BY DEF Around
<1> HIDE DEF n, d, q, r, s
<1>6. Around(num, den) = IF r = 0 THEN {s * q} ELSE {s * q, s * (q + 1)}
  <2>1. CASE s = 1 BY <1>2, <1>4, <1>5, <2>1
  <2>2. CASE s = -1 BY <1>2, <1>4, <1>5, <2>2
  <2> QED BY <1>1, <2>1, <2>2
<1>7. s * (s * q) = q /\ s * (s * (q + 1)) = q + 1 /\ s * q \in Int /\ s * (q + 1) \in Int
  BY <1>1, <1>2
<1>8. q * d + r - q * d = r /\ q * d + r - (q + 1) * d = r - d
  BY <1>1, <1>2
<1>9. distance(s * q, num, den) = r /\ distance(s * (q + 1), num, den) = d - r
  <2>1. /\ distance(s * q, num, den) = magnitude(q * d + r - (s * (s * q)) * d)
        /\ distance(s * (q + 1), num, den) = magnitude(q * d + r - (s * (s * (q + 1))) * d)
    BY <1>3, <1>7
  <2>2. /\ distance(s * q, num, den) = magnitude(r)
        /\ distance(s * (q + 1), num, den) = magnitude(r - d)
    BY <1>7, <1>8, <2>1
  <2> QED BY <1>1, <1>2, <2>2 DEF magnitude
<1> QED
  BY <1>1, <1>2, <1>6, <1>9 DEF n, d, q, r, s

LEMMA Parity ==
  ASSUME NEW q \in Nat
  PROVE  (-q) % 2 = q % 2 /\ q % 2 \in {0, 1} /\ (q + 1) % 2 = 1 - (q % 2)
OBVIOUS

\* What lies around a quotient determines each of the four roundings.
LEMMA RoundedIs ==
  ASSUME NEW num \in Int, NEW den \in Int, den # 0, NEW rounding \in RoundingMode
  PROVE  divideRounded(num, den, rounding) = rounded(num, den, rounding)
<1> DEFINE s == signOf(num, den)
           d == magnitude(den)
           q == magnitude(num) \div d
           r == magnitude(num) % d
           near == s * q
           far  == s * (q + 1)
<1>1. /\ q \in Nat /\ r \in Nat /\ r < d /\ s \in {-1, 1} /\ d \in Nat
      /\ Around(num, den) = IF r = 0 THEN {near} ELSE {near, far}
      /\ distance(near, num, den) = r
      /\ distance(far, num, den) = d - r
  BY AroundIs
<1>2. divideRounded(num, den, rounding) = IF roundAway(q, r, d, rounding) THEN far ELSE near
  BY <1>1 DEF divideRounded, signOf
<1> HIDE DEF s, d, q, r
<1>3. /\ near \in Int /\ far \in Int /\ near # far
      /\ magnitude(near) = q /\ magnitude(far) = q + 1
  BY <1>1 DEF magnitude
<1>4. near % 2 = q % 2 /\ q % 2 \in {0, 1} /\ far % 2 = 1 - (q % 2)
  <2>1. (-q) % 2 = q % 2 /\ q % 2 \in {0, 1} /\ (q + 1) % 2 = 1 - (q % 2)
        /\ (-(q + 1)) % 2 = (q + 1) % 2
    BY <1>1, Parity
  <2>2. CASE s = 1 BY <1>1, <2>1, <2>2
  <2>3. CASE s = -1 BY <1>1, <2>1, <2>3
  <2> QED BY <1>1, <2>2, <2>3
<1> DEFINE around == Around(num, den)
           nearest == Nearest(num, den)
<1>5. nearest = CASE r = 0 \/ 2 * r < d -> {near}
                  [] r # 0 /\ 2 * r = d -> {near, far}
                  [] r # 0 /\ 2 * r > d -> {far}
  <2>1. nearest = {x \in around : \A p \in around : distance(x, num, den) <= distance(p, num, den)}
    BY DEF Nearest
  <2> HIDE DEF near, far, around, nearest
  <2>2. CASE r = 0 BY <1>1, <1>3, <2>1, <2>2 DEF around
  <2>3. CASE r # 0 /\ 2 * r < d BY <1>1, <1>3, <2>1, <2>3 DEF around
  <2>4. CASE r # 0 /\ 2 * r = d BY <1>1, <1>3, <2>1, <2>4 DEF around
  <2>5. CASE r # 0 /\ 2 * r > d BY <1>1, <1>3, <2>1, <2>5 DEF around
  <2> QED BY <1>1, <2>2, <2>3, <2>4, <2>5
<1> HIDE DEF near, far, around, nearest
<1>6. /\ Smallest({near}) = near /\ Largest({near}) = near /\ Smallest({far}) = far
      /\ Largest({far}) = far
  BY <1>3 DEF Smallest, Largest
<1>7. /\ Smallest({near, far}) = near /\ Largest({near, far}) = far
  BY <1>1, <1>3 DEF Smallest, Largest
<1>8. CASE rounding = "DOWN"
  BY <1>1, <1>2, <1>6, <1>7, <1>8 DEF rounded, roundAway, around
<1>9. CASE rounding = "UP"
  BY <1>1, <1>2, <1>6, <1>7, <1>9 DEF rounded, roundAway, around
<1>10. CASE rounding = "HALF_UP"
  <2>1. rounded(num, den, rounding) = Largest(nearest)
    BY <1>10 DEF rounded, nearest
  <2>2. roundAway(q, r, d, rounding) <=> r # 0 /\ 2 * r >= d
    BY <1>10 DEF roundAway
  <2> QED BY <1>1, <1>2, <1>5, <1>6, <1>7, <2>1, <2>2
<1>11. CASE rounding = "HALF_EVEN"
  <2> DEFINE even(S) == CHOOSE x \in S : x % 2 = 0
  <2>1. rounded(num, den, rounding) =
          IF Cardinality(nearest) = 1 THEN Smallest(nearest) ELSE even(nearest)
    BY <1>11 DEF rounded, nearest
  <2>2. roundAway(q, r, d, rounding) <=> r # 0 /\ (2 * r > d \/ (2 * r = d /\ q % 2 # 0))
    BY <1>11 DEF roundAway
  <2>3. Cardinality({near}) = 1 /\ Cardinality({far}) = 1 /\ Cardinality({near, far}) = 2
    <3>1. {near, far} = {near} \cup {far}
      OBVIOUS
    <3>2. /\ IsFiniteSet({near}) /\ Cardinality({near}) = 1 /\ Cardinality({far}) = 1
      BY FS_Singleton
    <3>3. Cardinality({near} \cup {far}) = Cardinality({near}) + 1
      BY <1>3, <3>2, FS_AddElement
    <3> QED BY <3>1, <3>2, <3>3
  <2>4. even({near, far}) = IF q % 2 = 0 THEN near ELSE far
    BY <1>3, <1>4
  <2> HIDE DEF even
  <2>5. CASE r = 0 \/ 2 * r < d
    <3>1. nearest = {near} /\ ~ roundAway(q, r, d, rounding)
      BY <1>1, <1>5, <2>2, <2>5
    <3> QED BY <1>2, <1>6, <2>1, <2>3, <3>1
  <2>6. CASE r # 0 /\ 2 * r > d
    <3>1. nearest = {far} /\ roundAway(q, r, d, rounding)
      BY <1>1, <1>5, <2>2, <2>6
    <3> QED BY <1>2, <1>6, <2>1, <2>3, <3>1
  <2>7. CASE r # 0 /\ 2 * r = d
    <3>1. nearest = {near, far} /\ (roundAway(q, r, d, rounding) <=> q % 2 # 0)
      BY <1>1, <1>5, <2>2, <2>7
    <3> QED BY <1>2, <2>1, <2>3, <2>4, <3>1
  <2> QED BY <1>1, <2>5, <2>6, <2>7
<1> QED
  BY <1>8, <1>9, <1>10, <1>11 DEF RoundingMode

\* Scaling rounds as its mode says, for every amount and every ratio, of either
\* sign, and throws when the denominator is zero.
THEOREM EachModeRoundsAsNamed == MoneySpec => []RoundsAsAsked
<1>1. AnswersAreComputed => RoundsAsAsked
  <2> SUFFICES ASSUME AnswersAreComputed, Answered("multiply") PROVE RoundsAsAsked
    BY DEF RoundsAsAsked
  <2>1. /\ operation.value.amount \in Int
        /\ operation.ratio.num \in Int /\ operation.ratio.den \in Int
        /\ operation.rounding \in RoundingMode
    BY OperationShapes DEF AnswersAreComputed, Answered
  <2>2. answer[1] = multiply(operation.value, operation.ratio, operation.rounding)
    BY DEF AnswersAreComputed
  <2>3. CASE operation.ratio.den = 0
    BY <2>2, <2>3 DEF RoundsAsAsked, multiply, assertRatio
  <2>4. CASE operation.ratio.den # 0
    <3>1. answer[1].amount
            = divideRounded(operation.value.amount * operation.ratio.num, operation.ratio.den,
                            operation.rounding)
      BY <2>2, <2>4 DEF multiply, assertRatio, money
    <3>2. operation.value.amount * operation.ratio.num \in Int
      BY <2>1
    <3> QED BY <2>1, <2>4, <3>1, <3>2, RoundedIs DEF RoundsAsAsked
  <2> QED BY <2>3, <2>4
<1> QED
  BY <1>1, AmountsInvariance, PTL

(***************************************************************************)
(* Splitting an amount.                                                    *)
(***************************************************************************)

\* The order of the remainders is total and strict.
LEMMA OrderOfRemainders ==
  ASSUME NEW D, D \subseteq Nat, NEW rem, \A i \in D : rem[i] \in Nat
  PROVE  /\ \A i \in D : ~ goesBefore(rem, i, i)
         /\ \A i, j \in D : i # j => goesBefore(rem, i, j) \/ goesBefore(rem, j, i)
         /\ \A i, j, k \in D :
              goesBefore(rem, i, j) /\ goesBefore(rem, j, k) => goesBefore(rem, i, k)
BY DEF goesBefore

\* How many parts go before part i.
ahead(D, rem, i) == {j \in D : goesBefore(rem, j, i)}

LEMMA RanksFollowTheOrder ==
  ASSUME NEW n \in Nat, NEW rem, \A i \in 1 .. n : rem[i] \in Nat
  PROVE  /\ \A i \in 1 .. n : Cardinality(ahead(1 .. n, rem, i)) \in 0 .. n - 1
         /\ \A i, j \in 1 .. n : goesBefore(rem, i, j) =>
              Cardinality(ahead(1 .. n, rem, i)) < Cardinality(ahead(1 .. n, rem, j))
<1> DEFINE D == 1 .. n
<1>1. D \subseteq Nat /\ IsFiniteSet(D) /\ Cardinality(D) = n
  BY FS_Interval
<1> HIDE DEF D
<1>2. ASSUME NEW i \in D, NEW S, IsFiniteSet(S), ahead(D, rem, i) \cup {i} \subseteq S
      PROVE  Cardinality(ahead(D, rem, i)) < Cardinality(S) /\ Cardinality(ahead(D, rem, i)) \in Nat
  <2>1. i \notin ahead(D, rem, i)
    BY <1>1, OrderOfRemainders DEF ahead, D
  <2>2. IsFiniteSet(ahead(D, rem, i)) /\ IsFiniteSet(S \ {i}) /\ ahead(D, rem, i) \subseteq S \ {i}
    BY <1>2, <2>1, FS_Subset
  <2>3. Cardinality(ahead(D, rem, i)) <= Cardinality(S \ {i})
    BY <2>2, FS_Subset
  <2>4. Cardinality(S \ {i}) < Cardinality(S)
    BY <1>2, OneLess
  <2>5. /\ Cardinality(ahead(D, rem, i)) \in Nat /\ Cardinality(S) \in Nat
        /\ Cardinality(S \ {i}) \in Nat
    BY <1>2, <2>2, FS_CardinalityType
  <2> QED BY <2>3, <2>4, <2>5
<1>3. ASSUME NEW i \in D PROVE Cardinality(ahead(D, rem, i)) \in 0 .. n - 1
  <2>1. ahead(D, rem, i) \cup {i} \subseteq D
    BY DEF ahead
  <2> QED BY <1>1, <1>2, <2>1
<1>4. ASSUME NEW i \in D, NEW j \in D, goesBefore(rem, i, j)
      PROVE  Cardinality(ahead(D, rem, i)) < Cardinality(ahead(D, rem, j))
  <2>1. ahead(D, rem, i) \cup {i} \subseteq ahead(D, rem, j)
    <3>1. \A k \in D : rem[k] \in Nat
      BY DEF D
    <3> QED BY <1>1, <1>4, <3>1, OrderOfRemainders DEF ahead
  <2>2. IsFiniteSet(ahead(D, rem, j))
    BY <1>1, FS_Subset DEF ahead
  <2> QED BY <1>2, <2>1, <2>2
<1> QED
  BY <1>3, <1>4 DEF D

\* Of n parts, as many are among the first L as there are places: L.
LEMMA FirstOnes ==
  ASSUME NEW n \in Nat, NEW L \in 0 .. n, NEW rem, \A i \in 1 .. n : rem[i] \in Nat
  PROVE  Cardinality({i \in 1 .. n : Cardinality(ahead(1 .. n, rem, i)) < L}) = L
<1> DEFINE rank == [i \in 1 .. n |-> Cardinality(ahead(1 .. n, rem, i))]
           G == {i \in 1 .. n : rank[i] < L}
<1>1. \A i \in 1 .. n : rank[i] \in 0 .. n - 1
  BY RanksFollowTheOrder
<1>2. \A i, j \in 1 .. n : i # j => rank[i] # rank[j]
  <2>1. \A i, j \in 1 .. n : goesBefore(rem, i, j) => rank[i] < rank[j]
    BY RanksFollowTheOrder
  <2>2. \A i, j \in 1 .. n : i # j => goesBefore(rem, i, j) \/ goesBefore(rem, j, i)
    <3>1. 1 .. n \subseteq Nat
      OBVIOUS
    <3> QED BY <3>1, OrderOfRemainders
  <2> HIDE DEF rank
  <2> QED BY <1>1, <2>1, <2>2
<1>3. rank \in Injection(1 .. n, 0 .. n - 1)
  <2>1. rank \in [1 .. n -> 0 .. n - 1]
    BY <1>1
  <2> HIDE DEF rank
  <2> QED BY <1>2, <2>1 DEF Injection, IsInjective
<1> HIDE DEF rank
<1>4. /\ IsFiniteSet(1 .. n) /\ IsFiniteSet(0 .. n - 1)
      /\ Cardinality(1 .. n) = n /\ Cardinality(0 .. n - 1) = n
  BY FS_Interval
<1>5. rank \in Surjection(1 .. n, 0 .. n - 1)
  BY <1>3, <1>4, FS_Injection
<1> DEFINE low == [i \in G |-> rank[i]]
<1>6. low \in Surjection(G, 0 .. L - 1)
  <2>1. low \in [G -> 0 .. L - 1]
    BY <1>1
  <2>2. \A r \in 0 .. L - 1 : \E i \in G : low[i] = r
    <3> TAKE r \in 0 .. L - 1
    <3>1. r \in 0 .. n - 1 /\ r < L
      OBVIOUS
    <3>2. PICK i \in 1 .. n : rank[i] = r
      BY <1>5, <3>1 DEF Surjection
    <3>3. i \in G /\ low[i] = r
      BY <3>1, <3>2
    <3> QED BY <3>3
  <2> QED BY <2>1, <2>2 DEF Surjection
<1>7. low \in Injection(G, 0 .. L - 1)
  <2>1. low \in [G -> 0 .. L - 1]
    BY <1>1
  <2> QED BY <1>2, <2>1 DEF Injection, IsInjective
<1>8. IsFiniteSet(0 .. L - 1) /\ Cardinality(0 .. L - 1) = L
  BY FS_Interval
<1>9. Cardinality(G) = L
  <2> HIDE DEF G, low
  <2> QED BY <1>6, <1>7, <1>8, FS_Injection
<1> QED
  BY <1>9 DEF rank

LEMMA SumOfIsASum ==
  ASSUME NEW f
  PROVE  SumOf(f) = SumFunctionOnSet(f, DOMAIN f)
BY DEF SumOf, FoldFunction, SumFunctionOnSet

\* The weights are taken unless one is negative or none is positive.
LEMMA WeightsAreTaken ==
  ASSUME NEW weights \in Seq(Int)
  PROVE  assertWeights(weights) <=>
           ~ \/ {i \in DOMAIN weights : weights[i] > 0} = {}
             \/ \E i \in DOMAIN weights : weights[i] < 0
<1>1. IsFiniteSet(DOMAIN weights) /\ \A i \in DOMAIN weights : weights[i] \in Int
  BY FS_Interval
<1>2. SumOf(weights) = SumFunctionOnSet(weights, DOMAIN weights)
  BY SumOfIsASum
<1>3. CASE \E i \in DOMAIN weights : weights[i] < 0
  BY <1>1, <1>3 DEF assertWeights
<1>4. CASE \A i \in DOMAIN weights : weights[i] >= 0
  <2>1. \A i \in DOMAIN weights : weights[i] \in Nat
    BY <1>1, <1>4
  <2>2. /\ SumOf(weights) \in Nat
        /\ \A i \in DOMAIN weights : weights[i] <= SumOf(weights)
    BY <1>1, <1>2, <2>1, SumNat
  <2>3. (\A i \in DOMAIN weights : weights[i] = 0) => SumOf(weights) = 0
    BY <1>1, <1>2, SumZero
  <2> QED BY <1>4, <2>1, <2>2, <2>3 DEF assertWeights
<1> QED
  BY <1>1, <1>3, <1>4

\* The shares of v by the weights w, W in total, are cut to whole ones.
CutShares(D, w, v, W, whole, rem) ==
  /\ v \in Nat /\ W \in Nat \ {0} /\ W = SumFunctionOnSet(w, D)
  /\ \A i \in D : /\ w[i] \in Nat /\ whole[i] \in Nat /\ rem[i] \in Nat /\ rem[i] < W
                  /\ v * w[i] = whole[i] * W + rem[i]

\* What is left over when every share is cut is less than one unit for each
\* share that was cut.
LEMMA LeftoverFits ==
  ASSUME NEW D, IsFiniteSet(D), NEW w, NEW v, NEW W, NEW whole, NEW rem,
         CutShares(D, w, v, W, whole, rem)
  PROVE  /\ SumFunctionOnSet(whole, D) \in Int
         /\ v - SumFunctionOnSet(whole, D) \in Nat
         /\ v - SumFunctionOnSet(whole, D) <= Cardinality({i \in D : rem[i] # 0})
<1> DEFINE P == {i \in D : rem[i] # 0}
           product == [i \in D |-> v * w[i]]
           ones    == [i \in D |-> IF i \in P THEN 1 ELSE 0]
           slack   == [i \in D |-> W * ones[i] + (-1) * rem[i]]
           S(f)    == SumFunctionOnSet(f, D)
<1> USE DEF CutShares
<1>1. \A i \in D : /\ product[i] \in Nat /\ whole[i] \in Nat /\ rem[i] \in Nat /\ rem[i] < W
                   /\ product[i] = W * whole[i] + 1 * rem[i]
  <2> TAKE i \in D
  <2>1. v * w[i] \in Nat /\ whole[i] * W = W * whole[i] /\ W * whole[i] \in Nat
    OBVIOUS
  <2> QED BY <2>1
<1>2. S(product) = v * W
  <2>1. \A i \in D : w[i] \in Int /\ product[i] = v * w[i] + 0 * w[i]
    OBVIOUS
  <2>2. S(product) = v * S(w) + 0 * S(w)
    <3>1. v \in Int /\ 0 \in Int
      OBVIOUS
    <3> HIDE DEF product
    <3> QED BY <2>1, <3>1, SumLinear
  <2> QED BY <2>2
<1>3. S(product) = W * S(whole) + 1 * S(rem) /\ S(whole) \in Int /\ S(rem) \in Nat
  <2> HIDE DEF product
  <2>1. \A i \in D : whole[i] \in Int /\ rem[i] \in Int
    BY <1>1
  <2> QED BY <1>1, <2>1, SumLinear, SumInt, SumNat
<1>4. S(ones) = Cardinality(P) /\ Cardinality(P) \in Nat
  BY SumCountsSome, FS_Subset, FS_CardinalityType
<1>5. S(slack) = W * Cardinality(P) + (-1) * S(rem) /\ S(slack) \in Nat
  <2>1. \A i \in D : ones[i] \in Int /\ rem[i] \in Int /\ slack[i] = W * ones[i] + (-1) * rem[i]
    BY <1>1
  <2>2. \A i \in D : slack[i] \in Nat
    BY <1>1
  <2> HIDE DEF slack, ones
  <2>3. S(slack) = W * S(ones) + (-1) * S(rem)
    BY <2>1, SumLinear
  <2> QED BY <1>4, <2>2, <2>3, SumNat
<1> HIDE DEF P, product, ones, slack, S
<1> DEFINE L == v - S(whole)
           K == Cardinality(P)
<1>6. /\ L \in Int /\ K \in Nat /\ S(rem) \in Nat
      /\ L * W = S(rem) /\ S(rem) <= K * W
  <2>1. S(rem) <= K * W
    BY <1>3, <1>4, <1>5
  <2>2. L * W = v * W - W * S(whole)
    BY <1>3
  <2> QED BY <1>2, <1>3, <1>4, <2>1, <2>2
<1> HIDE DEF L, K
<1>7. L >= 0
  BY <1>6, Product
<1>8. L <= K
  <2>1. (L - K) * W = L * W - K * W /\ L - K \in Int /\ K * W \in Int
    BY <1>6
  <2>2. (L - K) * W <= 0
    BY <1>6, <2>1
  <2> QED BY <1>6, <2>1, <2>2, Product
<1> QED
  BY <1>3, <1>6, <1>7, <1>8 DEF L, K, S, P

LEMMA SharesHold ==
  ASSUME NEW value, value.amount \in Int, NEW weights \in Seq(Int), assertWeights(weights)
  PROVE  Fair(value, weights, [i \in DOMAIN weights |-> shares(value, weights)[i].amount])
<1> DEFINE n == Len(weights)
           D == 1 .. n
           v == magnitude(value.amount)
           W == SumOf(weights)
           product == [i \in D |-> v * weights[i]]
           whole   == [i \in D |-> product[i] \div W]
           rem     == [i \in D |-> product[i] % W]
           L == v - SumOf(whole)
           G == {i \in D : Cardinality(ahead(D, rem, i)) < L}
           P == {i \in D : rem[i] # 0}
           p == [i \in D |-> IF i \in G THEN whole[i] + 1 ELSE whole[i]]
           part == [i \in D |-> shares(value, weights)[i].amount]
<1>1. /\ n \in Nat /\ D = DOMAIN weights /\ IsFiniteSet(D) /\ Cardinality(D) = n
      /\ v \in Nat
  <2>1. n \in Nat /\ D = DOMAIN weights
    OBVIOUS
  <2>2. v \in Nat
    BY DEF magnitude
  <2> HIDE DEF n
  <2> QED BY <2>1, <2>2, FS_Interval
<1>2. \A i \in D : weights[i] \in Nat
  BY <1>1 DEF assertWeights
<1>3. /\ W = SumFunctionOnSet(weights, D) /\ W \in Nat \ {0}
  <2>1. W = SumFunctionOnSet(weights, D)
    BY <1>1, SumOfIsASum
  <2>2. W > 0
    BY DEF assertWeights
  <2> HIDE DEF W, D
  <2> QED BY <1>1, <1>2, <2>1, <2>2, SumNat
<1>4. part = [i \in D |-> IF value.amount < 0 THEN - p[i] ELSE p[i]]
  <2> DEFINE before(i) == Cardinality({j \in D : goesBefore(rem, j, i)})
             q(i) == IF before(i) < L THEN whole[i] + 1 ELSE whole[i]
  <2>1. shares(value, weights)
          = [i \in D |-> money(IF value.amount < 0 THEN -q(i) ELSE q(i), value.currency)]
    BY <1>1 DEF shares
  <2>2. \A i \in D : q(i) = p[i]
    BY DEF ahead
  <2> HIDE DEF q, p, before
  <2> QED BY <2>1, <2>2 DEF money
<1> HIDE DEF W, v, n
<1>5. \A i \in D : /\ product[i] \in Nat /\ whole[i] \in Nat /\ rem[i] \in Nat /\ rem[i] < W
                   /\ product[i] = whole[i] * W + rem[i]
  <2> TAKE i \in D
  <2>1. v * weights[i] \in Nat
    BY <1>1, <1>2
  <2>2. PICK x \in Nat : x = product[i]
    BY <2>1
  <2>3. whole[i] = x \div W /\ rem[i] = x % W
    BY <2>2
  <2> HIDE DEF product, whole, rem
  <2> QED BY <1>3, <2>2, <2>3, Division
<1>6. /\ SumOf(whole) = SumFunctionOnSet(whole, D) /\ SumOf(whole) \in Int
      /\ L \in Nat /\ L <= Cardinality(P)
  <2>1. SumOf(whole) = SumFunctionOnSet(whole, D)
    <3>1. DOMAIN whole = D
      OBVIOUS
    <3> HIDE DEF whole
    <3> QED BY <3>1, SumOfIsASum
  <2>2. CutShares(D, weights, v, W, whole, rem)
    <3>1. \A i \in D : product[i] = v * weights[i]
      OBVIOUS
    <3> HIDE DEF product, whole, rem, D
    <3> QED BY <1>1, <1>2, <1>3, <1>5, <3>1 DEF CutShares
  <2> HIDE DEF whole, rem, D, L, P, G, p, part
  <2>3. /\ SumFunctionOnSet(whole, D) \in Int
        /\ v - SumFunctionOnSet(whole, D) \in Nat
        /\ v - SumFunctionOnSet(whole, D) <= Cardinality({i \in D : rem[i] # 0})
    BY <1>1, <2>2, LeftoverFits
  <2> QED BY <2>1, <2>3 DEF L, P
<1> HIDE DEF product, whole, rem
<1>7. IsFiniteSet(P) /\ Cardinality(P) \in Nat /\ L <= n
  <2>1. IsFiniteSet(P) /\ Cardinality(P) <= n
    BY <1>1, FS_Subset
  <2>2. Cardinality(P) \in Nat
    BY <2>1, FS_CardinalityType
  <2> HIDE DEF L, P
  <2> QED BY <1>1, <1>6, <2>1, <2>2
<1>8. Cardinality(G) = L
  <2> HIDE DEF L
  <2>1. L \in 0 .. n
    BY <1>1, <1>6, <1>7
  <2>2. \A i \in 1 .. n : rem[i] \in Nat
    BY <1>5
  <2> QED BY <1>1, <2>1, <2>2, FirstOnes
<1>9. \A i \in D : i \in G => rem[i] # 0
  <2> HIDE DEF L
  <2> SUFFICES ASSUME NEW i \in D, i \in G, rem[i] = 0 PROVE FALSE
    OBVIOUS
  <2>1. P \subseteq ahead(D, rem, i)
    BY <1>5 DEF ahead, goesBefore
  <2>2. IsFiniteSet(ahead(D, rem, i)) /\ Cardinality(P) <= Cardinality(ahead(D, rem, i))
        /\ Cardinality(ahead(D, rem, i)) \in Nat
    <3>1. IsFiniteSet(ahead(D, rem, i))
      BY <1>1, FS_Subset DEF ahead
    <3> HIDE DEF P
    <3> QED BY <2>1, <3>1, FS_Subset, FS_CardinalityType
  <2>3. Cardinality(ahead(D, rem, i)) < L
    OBVIOUS
  <2> HIDE DEF P
  <2> QED BY <1>6, <1>7, <2>2, <2>3
<1>10. SumFunctionOnSet(p, D) = v
  <2> DEFINE ones == [i \in D |-> IF i \in G THEN 1 ELSE 0]
  <2>1. SumFunctionOnSet(ones, D) = L
    <3>1. G \subseteq D
      OBVIOUS
    <3> HIDE DEF G, L
    <3> QED BY <1>1, <1>8, <3>1, SumCountsSome
  <2>2. \A i \in D : /\ whole[i] \in Int /\ ones[i] \in Int
                     /\ p[i] = 1 * whole[i] + 1 * ones[i]
    BY <1>5
  <2> HIDE DEF ones, p
  <2>3. SumFunctionOnSet(p, D)
          = 1 * SumFunctionOnSet(whole, D) + 1 * SumFunctionOnSet(ones, D)
    BY <1>1, <2>2, SumLinear
  <2> QED BY <1>1, <1>6, <2>1, <2>3
<1>11. \A i \in D : /\ p[i] \in Nat
                    /\ p[i] = IF i \in G THEN whole[i] + 1 ELSE whole[i]
                    /\ part[i] = IF value.amount < 0 THEN - p[i] ELSE p[i]
                    /\ magnitude(part[i]) = p[i]
  <2>1. \A i \in D : /\ p[i] \in Nat
                     /\ p[i] = IF i \in G THEN whole[i] + 1 ELSE whole[i]
    BY <1>5
  <2> HIDE DEF p
  <2>2. \A i \in D : part[i] = IF value.amount < 0 THEN - p[i] ELSE p[i]
    BY <1>4
  <2> HIDE DEF part
  <2> QED BY <2>1, <2>2 DEF magnitude
<1>12. SumOf(part) = value.amount
  <2>1. SumOf(part) = SumFunctionOnSet(part, D)
    <3>1. DOMAIN part = D
      OBVIOUS
    <3> HIDE DEF part
    <3> QED BY <3>1, SumOfIsASum
  <2> HIDE DEF part, p
  <2>2. CASE value.amount < 0
    <3>1. \A i \in D : p[i] \in Int /\ part[i] = - p[i]
      BY <1>11, <2>2
    <3>2. SumFunctionOnSet(part, D) = - v
      BY <1>1, <1>10, <3>1, SumNegates
    <3> QED BY <2>1, <2>2, <3>2 DEF v, magnitude
  <2>3. CASE ~ (value.amount < 0)
    <3>1. \A i \in D : part[i] = p[i]
      BY <1>11, <2>3
    <3>2. SumFunctionOnSet(part, D) = v
      BY <1>1, <1>10, <3>1, SumAgrees
    <3> QED BY <2>1, <2>3, <3>2 DEF v, magnitude
  <2> QED BY <2>2, <2>3
<1> DEFINE cut(i)  == magnitude(value.amount * weights[i]) % W
           over(i) == magnitude(part[i]) * W - magnitude(value.amount * weights[i])
<1>13. \A i \in D : /\ cut(i) = rem[i]
                    /\ over(i) = IF i \in G THEN W - rem[i] ELSE - rem[i]
  <2> TAKE i \in D
  <2>1. magnitude(value.amount * weights[i]) = v * weights[i]
    <3>1. PICK a \in Int, w \in Nat : a = value.amount /\ w = weights[i]
      BY <1>2
    <3>2. a * w \in Int /\ (a < 0 => a * w <= 0 /\ (-a) * w = -(a * w)) /\ (a >= 0 => a * w >= 0)
      OBVIOUS
    <3>3. v = IF a < 0 THEN -a ELSE a
      BY <3>1 DEF v, magnitude
    <3>4. magnitude(a * w) = v * w
      <4> DEFINE z == a * w
      <4>1. v * w = IF a < 0 THEN -z ELSE z
        BY <3>2, <3>3
      <4>2. z \in Int /\ (a < 0 => z <= 0) /\ (a >= 0 => z >= 0)
        BY <3>2
      <4> HIDE DEF z
      <4>3. magnitude(z) = IF a < 0 THEN -z ELSE z
        BY <4>2 DEF magnitude
      <4> QED BY <4>1, <4>3 DEF z
    <3> QED BY <3>1, <3>4
  <2>2. product[i] = v * weights[i]
    BY DEF product
  <2>3. rem[i] = product[i] % W
    BY DEF rem
  <2>4. magnitude(part[i]) * W = IF i \in G THEN whole[i] * W + W ELSE whole[i] * W
    <3> HIDE DEF part, p
    <3>1. (whole[i] + 1) * W = whole[i] * W + W
      BY <1>3, <1>5
    <3> QED BY <1>11, <3>1
  <2>5. whole[i] * W \in Nat
    BY <1>3, <1>5
  <2>6. rem[i] \in Nat /\ product[i] = whole[i] * W + rem[i]
    BY <1>5
  <2> DEFINE x == whole[i] * W
  <2> HIDE DEF part, p, G, x
  <2>7. /\ magnitude(value.amount * weights[i]) = x + rem[i]
        /\ magnitude(value.amount * weights[i]) % W = rem[i]
        /\ magnitude(part[i]) * W = IF i \in G THEN x + W ELSE x
        /\ x \in Nat
    BY <2>1, <2>2, <2>3, <2>4, <2>5, <2>6 DEF x
  <2> QED BY <1>3, <2>6, <2>7
<1> HIDE DEF cut, over, part, p
<1>14. ASSUME NEW i \in D
       PROVE  /\ over(i) > -W /\ over(i) < W
              /\ part[i] * value.amount >= 0
              /\ weights[i] = 0 => part[i] = 0
  <2>1. over(i) > -W /\ over(i) < W
    <3> HIDE DEF G
    <3> QED BY <1>3, <1>5, <1>9, <1>13
  <2>2. part[i] * value.amount >= 0
    <3>1. PICK x \in Nat, a \in Int : x = p[i] /\ a = value.amount
      BY <1>11
    <3>2. (a < 0 => (-x) * a >= 0) /\ (a >= 0 => x * a >= 0)
      OBVIOUS
    <3> QED BY <1>11, <3>1, <3>2
  <2>3. ASSUME weights[i] = 0 PROVE part[i] = 0
    <3>1. product[i] = 0
      BY <1>1, <2>3 DEF product
    <3>2. whole[i] = 0 /\ rem[i] = 0
      BY <1>3, <3>1 DEF whole, rem
    <3>3. i \notin G
      BY <1>9, <3>2
    <3> QED BY <1>11, <3>2, <3>3
  <2> QED BY <2>1, <2>2, <2>3
<1>15. ASSUME NEW i \in D, NEW j \in D, over(i) > 0, over(j) < 0
       PROVE  cut(i) > cut(j) \/ (cut(i) = cut(j) /\ i < j)
  <2>1. i \in G /\ j \notin G
    <3> HIDE DEF G
    <3> QED BY <1>3, <1>5, <1>13, <1>15
  <2>2. Cardinality(ahead(D, rem, i)) < L /\ ~ (Cardinality(ahead(D, rem, j)) < L)
    BY <2>1
  <2>3. /\ Cardinality(ahead(D, rem, i)) \in Int /\ Cardinality(ahead(D, rem, j)) \in Int
        /\ goesBefore(rem, j, i) =>
             Cardinality(ahead(D, rem, j)) < Cardinality(ahead(D, rem, i))
    <3>1. \A k \in 1 .. n : rem[k] \in Nat
      BY <1>5
    <3>2. /\ \A k \in D : Cardinality(ahead(D, rem, k)) \in 0 .. n - 1
          /\ \A k, l \in D : goesBefore(rem, k, l) =>
               Cardinality(ahead(D, rem, k)) < Cardinality(ahead(D, rem, l))
      BY <1>1, <3>1, RanksFollowTheOrder
    <3> HIDE DEF D
    <3> QED BY <3>2
  <2>4. i # j /\ ~ goesBefore(rem, j, i)
    <3> HIDE DEF L
    <3> QED BY <1>6, <2>1, <2>2, <2>3
  <2>5. goesBefore(rem, i, j)
    <3>1. D \subseteq Nat
      OBVIOUS
    <3> HIDE DEF D
    <3> QED BY <1>5, <2>4, <3>1, OrderOfRemainders
  <2> QED BY <1>13, <2>5 DEF goesBefore
<1>16. DOMAIN part = D
  BY DEF part
<1> QED
  <2> HIDE DEF D
  <2>1. Fair(value, weights, part)
    BY <1>12, <1>14, <1>15, <1>16 DEF Fair, W, cut, over
  <2> QED BY <1>1, <2>1 DEF part

\* For every amount and all weights: what allocate returns adds up to the
\* amount, is rounded by less than a unit, and gives the leftover units to those
\* who were cut the most; and it throws when it should.
THEOREM PartsAreFair == MoneySpec => []SharesAreFair
<1>1. AnswersAreComputed => SharesAreFair
  <2> SUFFICES ASSUME AnswersAreComputed, Answered("allocate") PROVE SharesAreFair
    BY DEF SharesAreFair
  <2>1. operation.value.amount \in Int /\ operation.weights \in Seq(Int)
    BY OperationShapes DEF AnswersAreComputed, Answered
  <2>2. answer[1] = allocate(operation.value, operation.weights)
    BY DEF AnswersAreComputed
  <2>3. CASE ~ assertWeights(operation.weights)
    BY <2>1, <2>2, <2>3, WeightsAreTaken DEF SharesAreFair, allocate
  <2>4. CASE assertWeights(operation.weights)
    <3>1. answer[1] = shares(operation.value, operation.weights)
      BY <2>2, <2>4 DEF allocate
    <3>2. Fair(operation.value, operation.weights,
               [i \in DOMAIN operation.weights |-> answer[1][i].amount])
      BY <2>1, <2>4, <3>1, SharesHold
    <3> QED BY <2>1, <2>4, <3>2, WeightsAreTaken DEF SharesAreFair
  <2> QED BY <2>3, <2>4
<1> QED
  BY <1>1, AmountsInvariance, PTL

(***************************************************************************)
(* PART SIX.  The exact text of an amount.  Powers of ten and numerals are *)
(* recursive functions; induction over their arguments is Climb, in which  *)
(* the set S is what the property holds of.                                *)
(***************************************************************************)

LEMMA Least ==
  ASSUME NEW T, T \subseteq Nat, T # {}
  PROVE  \E n \in T : \A m \in T : n <= m
<1>1. IsWellFoundedOn(OpToRel(<, Nat), Nat)
  BY NatLessThanWellFounded
<1>2. PICK n \in T : \A m \in T : ~ (<<m, n>> \in OpToRel(<, Nat))
  BY <1>1, WFMin, Zenon
<1>3. ASSUME NEW m \in T PROVE n <= m
  <2>1. m \in Nat /\ n \in Nat /\ ~ (m < n)
    BY <1>2 DEF OpToRel
  <2> QED BY <2>1
<1> QED
  BY <1>2, <1>3

LEMMA Climb ==
  ASSUME NEW n \in Nat, NEW S, 0 \in S,
         \A j \in 1 .. n : j - 1 \in S => j \in S
  PROVE  \A j \in 0 .. n : j \in S
<1> DEFINE T == {j \in 0 .. n : j \notin S}
<1>1. SUFFICES ASSUME T # {} PROVE FALSE
  OBVIOUS
<1>2. T \subseteq Nat
  OBVIOUS
<1>3. PICK j \in T : \A i \in T : j <= i
  <2> HIDE DEF T
  <2> QED BY <1>1, <1>2, Least
<1>4. j \in 0 .. n /\ j \notin S /\ j # 0
  BY <1>3
<1>5. j \in 1 .. n /\ j - 1 \in 0 .. n /\ ~ (j <= j - 1)
  BY <1>4
<1>6. j - 1 \in S
  BY <1>3, <1>5
<1> QED
  BY <1>4, <1>5, <1>6

\* h follows the digits d[1], ..., d[n] from a number already read.
IsNumeral(h, base, d, n) ==
  h = [j \in 0 .. n |-> IF j = 0 THEN base ELSE 10 * h[j - 1] + d[j]]

LEMMA NumeralLonger ==
  ASSUME NEW n \in Nat, n # 0, NEW d, NEW base, NEW g, IsNumeral(g, base, d, n - 1)
  PROVE  \E h : IsNumeral(h, base, d, n)
<1> DEFINE h == [j \in 0 .. n |-> IF j = 0 THEN base ELSE 10 * g[j - 1] + d[j]]
<1>1. \A j \in 0 .. n - 1 : g[j] = IF j = 0 THEN base ELSE 10 * g[j - 1] + d[j]
  BY DEF IsNumeral
<1>2. \A j \in 0 .. n - 1 : h[j] = g[j]
  BY <1>1
<1>3. \A j \in 0 .. n : h[j] = IF j = 0 THEN base ELSE 10 * h[j - 1] + d[j]
  <2>1. ASSUME NEW j \in 0 .. n, j # 0 PROVE h[j - 1] = g[j - 1]
    <3>1. j - 1 \in 0 .. n - 1
      BY <2>1
    <3> HIDE DEF h
    <3> QED BY <1>2, <3>1
  <2> QED BY <2>1
<1>4. h = [j \in 0 .. n |-> h[j]]
  OBVIOUS
<1> HIDE DEF h
<1> QED
  BY <1>3, <1>4 DEF IsNumeral

LEMMA NumeralExists ==
  ASSUME NEW n \in Nat, NEW d, NEW base
  PROVE  \E h : IsNumeral(h, base, d, n)
<1> DEFINE S == {m \in Nat : \E h : IsNumeral(h, base, d, m)}
<1>1. 0 \in S
  <2> DEFINE h == [j \in 0 .. 0 |-> base]
  <2>1. IsNumeral(h, base, d, 0)
    BY DEF IsNumeral
  <2> QED BY <2>1
<1>2. ASSUME NEW j \in 1 .. n, j - 1 \in S PROVE j \in S
  BY <1>2, NumeralLonger
<1> HIDE DEF S
<1>3. n \in S
  BY <1>1, <1>2, Climb
<1> QED
  BY <1>3 DEF S

LEMMA NumeralSteps ==
  ASSUME NEW n \in Nat, NEW d, NEW base \in Nat, NEW h, IsNumeral(h, base, d, n),
         \A j \in 1 .. n : d[j] \in Nat
  PROVE  /\ h[0] = base
         /\ \A j \in 1 .. n : h[j] = 10 * h[j - 1] + d[j]
         /\ \A j \in 0 .. n : h[j] \in Nat
<1>1. h[0] = base /\ \A j \in 1 .. n : h[j] = 10 * h[j - 1] + d[j]
  BY DEF IsNumeral
<1> DEFINE S == {j \in 0 .. n : h[j] \in Nat}
<1>2. 0 \in S
  BY <1>1
<1>3. ASSUME NEW j \in 1 .. n, j - 1 \in S PROVE j \in S
  BY <1>1, <1>3
<1>4. \A j \in 0 .. n : j \in S
  <2> HIDE DEF S
  <2> QED BY <1>2, <1>3, Climb
<1> QED
  BY <1>1, <1>4

\* Two numerals agree as far as their digits do.
LEMMA NumeralsAgree ==
  ASSUME NEW n \in Nat, NEW m \in Nat, NEW d, NEW e, NEW base, NEW g, NEW h,
         IsNumeral(g, base, d, n), IsNumeral(h, base, e, m),
         NEW k \in Nat, k <= n, k <= m, \A j \in 1 .. k : d[j] = e[j]
  PROVE  g[k] = h[k]
<1> DEFINE S == {j \in 0 .. k : g[j] = h[j]}
<1>1. /\ g[0] = base /\ \A j \in 1 .. k : g[j] = 10 * g[j - 1] + d[j]
      /\ h[0] = base /\ \A j \in 1 .. k : h[j] = 10 * h[j - 1] + e[j]
  BY DEF IsNumeral
<1>2. 0 \in S
  BY <1>1
<1>3. ASSUME NEW j \in 1 .. k, j - 1 \in S PROVE j \in S
  BY <1>1, <1>3
<1>4. \A j \in 0 .. k : j \in S
  <2> HIDE DEF S
  <2> QED BY <1>2, <1>3, Climb
<1> QED
  BY <1>4

LEMMA ValueIs ==
  ASSUME NEW digits \in Seq(Nat)
  PROVE  \E h : /\ IsNumeral(h, 0, digits, Len(digits))
                /\ valueOf(digits) = h[Len(digits)]
                /\ valueOf(digits) \in Nat
<1> DEFINE h == CHOOSE g : IsNumeral(g, 0, digits, Len(digits))
<1>1. Len(digits) \in Nat /\ \A j \in 1 .. Len(digits) : digits[j] \in Nat
  OBVIOUS
<1>2. IsNumeral(h, 0, digits, Len(digits))
  BY <1>1, NumeralExists
<1>3. valueOf(digits) = h[Len(digits)]
  BY DEF valueOf, IsNumeral
<1> HIDE DEF h
<1>4. h[Len(digits)] \in Nat
  BY <1>1, <1>2, NumeralSteps
<1> QED
  BY <1>2, <1>3, <1>4

(***************************************************************************)
(* Powers of ten.                                                          *)
(***************************************************************************)

nothing == [j \in Nat |-> 0]

LEMMA TenToIs ==
  ASSUME NEW k \in Nat
  PROVE  \E h : IsNumeral(h, 1, nothing, k) /\ tenTo(k) = h[k]
<1> DEFINE Is(g) == g = [j \in 0 .. k |-> IF j = 0 THEN 1 ELSE 10 * g[j - 1]]
           p == CHOOSE g : Is(g)
<1>1. PICK h : IsNumeral(h, 1, nothing, k)
  BY NumeralExists
<1>2. /\ h[0] = 1 /\ \A j \in 1 .. k : h[j] = 10 * h[j - 1] + nothing[j]
      /\ \A j \in 0 .. k : h[j] \in Nat
  BY <1>1, NumeralSteps DEF nothing
<1>3. Is(h)
  <2>1. \A j \in 1 .. k : h[j] = 10 * h[j - 1]
    BY <1>2 DEF nothing
  <2>2. h = [j \in 0 .. k |-> h[j]]
    BY <1>1 DEF IsNumeral
  <2>3. \A j \in 0 .. k : h[j] = IF j = 0 THEN 1 ELSE 10 * h[j - 1]
    BY <1>2, <2>1
  <2> QED BY <2>2, <2>3
<1>4. Is(p)
  BY <1>3
<1>5. tenTo(k) = p[k]
  BY DEF tenTo
<1>6. p[0] = 1 /\ \A j \in 1 .. k : p[j] = 10 * p[j - 1]
  <2> HIDE DEF p
  <2> QED BY <1>4
<1> DEFINE S == {j \in 0 .. k : p[j] = h[j]}
<1> HIDE DEF p, Is
<1>7. 0 \in S
  BY <1>2, <1>6
<1>8. ASSUME NEW j \in 1 .. k, j - 1 \in S PROVE j \in S
  BY <1>2, <1>6, <1>8 DEF nothing
<1>9. k \in S
  <2> HIDE DEF S
  <2> QED BY <1>7, <1>8, Climb
<1> QED
  BY <1>1, <1>5, <1>9

LEMMA TenTo ==
  /\ tenTo(0) = 1
  /\ \A k \in Nat : tenTo(k) \in Nat /\ tenTo(k + 1) = 10 * tenTo(k)
<1>1. \A j \in Nat : nothing[j] = 0 /\ nothing[j] \in Nat
  BY DEF nothing
<1>2. tenTo(0) = 1
  <2>1. PICK h : IsNumeral(h, 1, nothing, 0) /\ tenTo(0) = h[0]
    BY TenToIs
  <2> QED BY <1>1, <2>1, NumeralSteps
<1>3. ASSUME NEW k \in Nat PROVE tenTo(k) \in Nat /\ tenTo(k + 1) = 10 * tenTo(k)
  <2>1. PICK g : IsNumeral(g, 1, nothing, k) /\ tenTo(k) = g[k]
    BY TenToIs
  <2>2. PICK h : IsNumeral(h, 1, nothing, k + 1) /\ tenTo(k + 1) = h[k + 1]
    BY TenToIs
  <2>3. g[k] = h[k]
    BY <2>1, <2>2, NumeralsAgree
  <2>4. h[k + 1] = 10 * h[k] + nothing[k + 1] /\ h[k] \in Nat
    <3>1. /\ \A j \in 1 .. k + 1 : h[j] = 10 * h[j - 1] + nothing[j]
          /\ \A j \in 0 .. k + 1 : h[j] \in Nat
      BY <1>1, <2>2, NumeralSteps
    <3>2. k + 1 \in 1 .. k + 1 /\ k \in 0 .. k + 1 /\ k + 1 - 1 = k
      OBVIOUS
    <3> QED BY <3>1, <3>2
  <2> QED BY <1>1, <2>1, <2>2, <2>3, <2>4
<1> QED
  BY <1>2, <1>3

LEMMA TenToGrows ==
  ASSUME NEW k \in Nat
  PROVE  tenTo(k) > k
<1> DEFINE S == {j \in 0 .. k : tenTo(j) > j}
<1>1. 0 \in S
  BY TenTo
<1>2. ASSUME NEW j \in 1 .. k, j - 1 \in S PROVE j \in S
  <2>1. j - 1 \in Nat /\ tenTo(j - 1) \in Nat /\ tenTo(j) = 10 * tenTo(j - 1) /\ tenTo(j - 1) > j - 1
    <3>1. j - 1 \in Nat /\ j - 1 + 1 = j
      OBVIOUS
    <3> QED BY <1>2, <3>1, TenTo
  <2> QED BY <2>1
<1>3. \A j \in 0 .. k : j \in S
  <2> HIDE DEF S
  <2> QED BY <1>1, <1>2, Climb
<1> QED
  BY <1>3

\* Reading on from n to N, through zeros only, multiplies by a power of ten.
LEMMA ZerosMultiply ==
  ASSUME NEW N \in Nat, NEW n \in 0 .. N, NEW d, NEW base \in Nat, NEW h,
         IsNumeral(h, base, d, N), \A j \in 1 .. N : d[j] \in Nat,
         \A j \in n + 1 .. N : d[j] = 0
  PROVE  h[n] \in Nat /\ h[N] = h[n] * tenTo(N - n)
<1>1. /\ \A j \in 1 .. N : h[j] = 10 * h[j - 1] + d[j]
      /\ \A j \in 0 .. N : h[j] \in Nat
  BY NumeralSteps
<1> DEFINE S == {i \in 0 .. N - n : h[n + i] = h[n] * tenTo(i)}
<1>2. h[n] \in Nat
  BY <1>1
<1>3. 0 \in S
  BY <1>2, TenTo
<1>4. ASSUME NEW i \in 1 .. N - n, i - 1 \in S PROVE i \in S
  <2>1. i - 1 \in Nat /\ i - 1 + 1 = i /\ n + i \in n + 1 .. N /\ n + i \in 1 .. N
        /\ n + i - 1 = n + (i - 1)
    OBVIOUS
  <2>2. h[n + i] = 10 * h[n + (i - 1)]
    <3>1. h[n + i] = 10 * h[n + (i - 1)] + 0 /\ n + (i - 1) \in 0 .. N
      BY <1>1, <2>1
    <3>2. h[n + (i - 1)] \in Nat
      BY <1>1, <3>1
    <3> QED BY <3>1, <3>2
  <2>3. h[n + (i - 1)] = h[n] * tenTo(i - 1)
    BY <1>4
  <2>4. tenTo(i - 1) \in Nat /\ tenTo(i) = 10 * tenTo(i - 1)
    BY <2>1, TenTo
  <2>5. \A a, b \in Nat : 10 * (a * b) = a * (10 * b)
    OBVIOUS
  <2> QED BY <1>2, <2>2, <2>3, <2>4, <2>5
<1>5. N - n \in Nat /\ N - n \in 0 .. N - n /\ n + (N - n) = N
  OBVIOUS
<1>6. N - n \in S
  <2> HIDE DEF S
  <2> QED BY <1>3, <1>4, <1>5, Climb
<1> QED
  BY <1>2, <1>5, <1>6

LEMMA TenToSum ==
  ASSUME NEW a \in Nat, NEW b \in Nat
  PROVE  tenTo(a + b) = tenTo(a) * tenTo(b)
<1>1. PICK g : IsNumeral(g, 1, nothing, a) /\ tenTo(a) = g[a]
  BY TenToIs
<1>2. PICK h : IsNumeral(h, 1, nothing, a + b) /\ tenTo(a + b) = h[a + b]
  BY TenToIs
<1>3. g[a] = h[a]
  BY <1>1, <1>2, NumeralsAgree
<1>4. h[a + b] = h[a] * tenTo((a + b) - a)
  <2>1. \A j \in Nat : nothing[j] = 0 /\ nothing[j] \in Nat
    BY DEF nothing
  <2>2. /\ \A j \in 1 .. a + b : nothing[j] \in Nat
        /\ \A j \in a + 1 .. a + b : nothing[j] = 0
    BY <2>1
  <2>3. IsNumeral(h, 1, nothing, a + b) /\ 1 \in Nat /\ a + b \in Nat /\ a \in 0 .. a + b
    BY <1>2
  <2> QED BY <2>2, <2>3, ZerosMultiply
<1>5. (a + b) - a = b
  OBVIOUS
<1> QED
  BY <1>1, <1>2, <1>3, <1>4, <1>5

(***************************************************************************)
(* Texts.                                                                  *)
(***************************************************************************)

LEMMA PaddedValue ==
  ASSUME NEW s \in Seq(Nat), NEW t \in Seq(Nat), \A j \in DOMAIN t : t[j] = 0
  PROVE  valueOf(s \o t) = valueOf(s) * tenTo(Len(t))
<1> DEFINE n == Len(s)
           m == Len(t)
<1>1. n \in Nat /\ m \in Nat /\ s \o t \in Seq(Nat) /\ Len(s \o t) = n + m
  OBVIOUS
<1>2. /\ \A j \in 1 .. n : s[j] = (s \o t)[j]
      /\ \A j \in n + 1 .. n + m : (s \o t)[j] = 0
      /\ \A j \in 1 .. n + m : (s \o t)[j] \in Nat
  <2>1. \A j \in 1 .. n : s[j] = (s \o t)[j]
    OBVIOUS
  <2>2. \A j \in n + 1 .. n + m : (s \o t)[j] = t[j - n] /\ j - n \in DOMAIN t
    OBVIOUS
  <2>3. \A j \in 1 .. n + m : (s \o t)[j] \in Nat
    BY <1>1
  <2> QED BY <2>1, <2>2, <2>3
<1>3. PICK g : IsNumeral(g, 0, s, n) /\ valueOf(s) = g[n]
  BY ValueIs
<1>4. PICK h : IsNumeral(h, 0, s \o t, n + m) /\ valueOf(s \o t) = h[n + m]
  BY <1>1, ValueIs
<1> HIDE DEF n, m
<1>5. g[n] = h[n]
  <2>1. n <= n /\ n <= n + m /\ n + m \in Nat
    BY <1>1
  <2> DEFINE u == s \o t
  <2>2. /\ IsNumeral(g, 0, s, n) /\ IsNumeral(h, 0, u, n + m)
        /\ \A j \in 1 .. n : s[j] = u[j]
    BY <1>2, <1>3, <1>4
  <2> HIDE DEF u
  <2> QED BY <1>1, <2>1, <2>2, NumeralsAgree
<1>6. h[n + m] = h[n] * tenTo((n + m) - n)
  <2> DEFINE u == s \o t
             N == n + m
  <2>1. /\ IsNumeral(h, 0, u, N) /\ 0 \in Nat /\ N \in Nat /\ n \in 0 .. N
        /\ \A j \in n + 1 .. N : u[j] = 0
        /\ \A j \in 1 .. N : u[j] \in Nat
    BY <1>1, <1>2, <1>4
  <2>2. N = n + m
    OBVIOUS
  <2> HIDE DEF u, N
  <2>3. h[N] = h[n] * tenTo(N - n)
    BY <2>1, ZerosMultiply
  <2> QED BY <2>2, <2>3, Zenon
<1>7. (n + m) - n = m
  BY <1>1
<1> QED
  BY <1>3, <1>4, <1>5, <1>6, <1>7 DEF m

\* With the padding taken back out, the number read is the number written.
LEMMA PaddingIsExact ==
  ASSUME NEW whole \in Seq(Nat), NEW part \in Seq(Nat), NEW e \in Nat, Len(part) <= e
  PROVE  /\ valueOf(whole \o padEnd(part, e)) \in Nat
         /\ valueOf(whole \o part) \in Nat
         /\ valueOf(whole \o padEnd(part, e)) * tenTo(Len(part))
              = valueOf(whole \o part) * tenTo(e)
<1> DEFINE p == Len(part)
           zeros == [i \in 1 .. e - p |-> 0]
           v == valueOf(whole \o part)
<1>1. p \in Nat /\ e - p \in Nat /\ p <= e
  OBVIOUS
<1>2. zeros \in Seq(Nat) /\ Len(zeros) = e - p /\ \A j \in DOMAIN zeros : zeros[j] = 0
  BY <1>1
<1>3. padEnd(part, e) = part \o zeros
  BY DEF padEnd
<1> HIDE DEF zeros
<1>4. whole \o padEnd(part, e) = (whole \o part) \o zeros
  BY <1>2, <1>3
<1>5. whole \o part \in Seq(Nat) /\ (whole \o part) \o zeros \in Seq(Nat)
  BY <1>2
<1>6. v \in Nat /\ valueOf(whole \o padEnd(part, e)) \in Nat
  BY <1>4, <1>5, ValueIs
<1>7. valueOf(whole \o padEnd(part, e)) = v * tenTo(e - p)
  BY <1>2, <1>4, <1>5, PaddedValue
<1> HIDE DEF v, p
<1>8. tenTo(e) = tenTo(e - p) * tenTo(p)
  <2>1. (e - p) + p = e
    BY <1>1
  <2> QED BY <1>1, <2>1, TenToSum
<1>9. tenTo(e - p) \in Nat /\ tenTo(p) \in Nat
  BY <1>1, TenTo
<1>10. \A a, b, c \in Nat : (a * b) * c = a * (b * c)
  OBVIOUS
<1> QED
  BY <1>6, <1>7, <1>8, <1>9, <1>10 DEF v, p

\* Ten times what is left of n without its last digits, and the digit before
\* them.
LEMMA NextDigit ==
  ASSUME NEW n \in Nat, NEW q \in Nat \ {0}
  PROVE  /\ n \div q \in Nat /\ (n \div q) % 10 \in 0 .. 9
         /\ n \div q = 10 * (n \div (10 * q)) + ((n \div q) % 10)
<1> DEFINE a == n \div q
           r == n % q
           b == a \div 10
           c == a % 10
<1>1. a \in Nat /\ r \in Nat /\ r < q /\ n = a * q + r
  BY Division
<1> HIDE DEF a, r
<1>2. b \in Nat /\ c \in 0 .. 9 /\ a = b * 10 + c
  BY <1>1
<1> HIDE DEF b, c
<1>3. 10 * q \in Nat \ {0}
  OBVIOUS
<1>4. n = b * (10 * q) + (c * q + r)
  BY <1>1, <1>2
<1>5. c * q + r \in Nat /\ c * q + r < 10 * q
  <2>1. c * q \in Nat /\ (9 - c) * q \in Nat
    BY <1>2
  <2>2. 9 * q = c * q + (9 - c) * q
    BY <1>2
  <2> QED BY <1>1, <2>1, <2>2
<1>6. b * (10 * q) <= n /\ n < (b + 1) * (10 * q)
  <2> DEFINE Q == 10 * q
  <2>1. b * Q \in Nat /\ (b + 1) * Q = b * Q + Q
    BY <1>2, <1>3
  <2> HIDE DEF Q
  <2>2. n = b * Q + (c * q + r) /\ c * q + r < Q
    BY <1>4, <1>5 DEF Q
  <2>3. b * Q <= n /\ n < (b + 1) * Q
    BY <1>3, <1>5, <2>1, <2>2 DEF Q
  <2> QED BY <2>3 DEF Q
<1>7. n \div (10 * q) = b
  <2> DEFINE Q == 10 * q
  <2>1. Q \in Nat \ {0} /\ b * Q <= n /\ n < (b + 1) * Q
    BY <1>3, <1>6
  <2> HIDE DEF Q
  <2>2. n \div Q \in Int /\ (n \div Q) * Q <= n /\ n < (n \div Q + 1) * Q
    BY <2>1, Quotient
  <2>3. n \div Q = b
    BY <1>2, <2>1, <2>2, SameQuotient
  <2> QED BY <2>3 DEF Q
<1>8. a = n \div q /\ c = (n \div q) % 10
  BY DEF a, c
<1>9. a = 10 * b + c
  BY <1>1, <1>2
<1> QED
  BY <1>1, <1>2, <1>7, <1>8, <1>9

\* The digits of a number are its digits.
LEMMA DigitsAreExact ==
  ASSUME NEW n \in Nat, NEW length \in Nat
  PROVE  /\ digitsOf(n, length) \in Seq(0 .. 9)
         /\ Len(digitsOf(n, length)) >= length
         /\ valueOf(digitsOf(n, length)) = n
<1> DEFINE Fits(k) == n < tenTo(k) /\ \A j \in length .. k - 1 : n >= tenTo(j)
           needed == CHOOSE k \in length .. n + length + 1 : Fits(k)
           d == [i \in 1 .. needed |-> (n \div tenTo(needed - i)) % 10]
<1>1. digitsOf(n, length) = d
  BY DEF digitsOf
<1>2. needed \in length .. n + length + 1 /\ Fits(needed)
  <2> DEFINE T == {k \in Nat : length <= k /\ n < tenTo(k)}
  <2>1. n + length + 1 \in T
    <3>1. n + length + 1 \in Nat /\ tenTo(n + length + 1) > n + length + 1
      BY TenToGrows
    <3>2. tenTo(n + length + 1) \in Nat
      BY <3>1, TenTo
    <3> QED BY <3>1, <3>2
  <2>2. PICK k \in T : \A m \in T : k <= m
    <3>1. T \subseteq Nat
      OBVIOUS
    <3> HIDE DEF T
    <3> QED BY <2>1, <3>1, Least
  <2>3. k \in length .. n + length + 1 /\ n < tenTo(k)
    BY <2>1, <2>2
  <2>4. ASSUME NEW j \in length .. k - 1 PROVE n >= tenTo(j)
    <3>1. j \in Nat /\ length <= j /\ ~ (k <= j)
      BY <2>3
    <3>2. j \notin T
      BY <2>2, <3>1
    <3> QED BY <3>1, <3>2, TenTo
  <2>5. Fits(k)
    BY <2>3, <2>4
  <2> HIDE DEF Fits, T
  <2> QED BY <2>3, <2>5
<1> HIDE DEF needed
<1>3. needed \in Nat /\ needed >= length /\ n < tenTo(needed)
  BY <1>2
<1>4. \A k \in Nat : tenTo(k) \in Nat \ {0}
  <2>1. ASSUME NEW k \in Nat PROVE tenTo(k) \in Nat \ {0}
    BY TenTo, TenToGrows
  <2> QED BY <2>1
<1>5. \A i \in 1 .. needed : d[i] = (n \div tenTo(needed - i)) % 10 /\ d[i] \in 0 .. 9
  <2>1. ASSUME NEW i \in 1 .. needed PROVE (n \div tenTo(needed - i)) % 10 \in 0 .. 9
    <3>1. needed - i \in Nat
      BY <1>3
    <3> QED BY <1>4, <3>1, NextDigit
  <2> QED BY <2>1
<1>6. d \in Seq(0 .. 9) /\ d \in Seq(Nat) /\ Len(d) = needed
  <2>1. d \in [1 .. needed -> 0 .. 9] /\ d \in [1 .. needed -> Nat]
    BY <1>5
  <2> HIDE DEF d
  <2> QED BY <1>3, <2>1
<1> HIDE DEF d
<1>7. PICK h : IsNumeral(h, 0, d, needed) /\ valueOf(d) = h[needed]
  BY <1>6, ValueIs
<1>8. h[0] = 0 /\ \A j \in 1 .. needed : h[j] = 10 * h[j - 1] + d[j]
  <2>1. \A j \in 1 .. needed : d[j] \in Nat
    BY <1>5
  <2> QED BY <1>3, <1>7, <2>1, NumeralSteps
<1> DEFINE S == {j \in 0 .. needed : h[j] = n \div tenTo(needed - j)}
<1>9. 0 \in S
  <2>1. n \div tenTo(needed) = 0
    <3> DEFINE q == tenTo(needed)
    <3>1. q \in Nat \ {0} /\ n < q
      BY <1>3, <1>4
    <3> HIDE DEF q
    <3>2. n \div q = 0
      BY <3>1
    <3> QED BY <3>2 DEF q
  <2>2. needed - 0 = needed
    BY <1>3
  <2> QED BY <1>3, <1>8, <2>1, <2>2
<1>10. ASSUME NEW j \in 1 .. needed, j - 1 \in S PROVE j \in S
  <2> DEFINE q == tenTo(needed - j)
  <2>1. needed - j \in Nat /\ needed - (j - 1) = needed - j + 1
    BY <1>3
  <2>2. q \in Nat \ {0} /\ tenTo(needed - (j - 1)) = 10 * q
    BY <1>4, <2>1, TenTo
  <2>3. h[j - 1] = n \div tenTo(needed - (j - 1)) /\ d[j] = (n \div q) % 10
    BY <1>5, <1>10
  <2> HIDE DEF q
  <2>4. h[j] = 10 * (n \div (10 * q)) + ((n \div q) % 10)
    <3>1. h[j - 1] = n \div (10 * q)
      BY <2>2, <2>3
    <3>2. h[j] = 10 * h[j - 1] + d[j]
      BY <1>8
    <3> QED BY <2>3, <3>1, <3>2
  <2>5. h[j] = n \div q
    BY <2>2, <2>4, NextDigit
  <2> QED BY <1>3, <2>5 DEF q
<1>11. needed \in S
  <2> HIDE DEF S
  <2> QED BY <1>3, <1>9, <1>10, Climb
<1>12. h[needed] = n
  <2>1. needed - needed = 0 /\ n \div 1 = n
    BY <1>3
  <2> QED BY <1>11, <2>1, TenTo
<1> QED
  BY <1>1, <1>3, <1>6, <1>7, <1>12

(***************************************************************************)
(* What the two functions promise.                                         *)
(***************************************************************************)

LEMMA RenderedIsRead ==
  ASSUME NEW value \in Values
  PROVE  fromMajorString(toMajorString(value), value.currency) = value
<1> DEFINE e == minorUnitExponent[value.currency]
           n == magnitude(value.amount)
           d == digitsOf(n, e + 1)
           b == Len(d) - e
           whole == SubSeq(d, 1, b)
           part == SubSeq(d, b + 1, Len(d))
<1>1. /\ value = money(value.amount, value.currency)
      /\ value.amount \in Int /\ value.currency \in Currency
  BY MoneyCallsAssumption DEF Values, money
<1>2. e \in Nat /\ n \in Nat
  BY <1>1, MoneyAssumption DEF magnitude
<1>3. toMajorString(value) = Decimal(value.amount < 0, whole, part)
  BY DEF toMajorString
<1> HIDE DEF e, n
<1>4. d \in Seq(0 .. 9) /\ Len(d) \in Nat /\ Len(d) >= e + 1 /\ valueOf(d) = n
  <2>1. e + 1 \in Nat
    BY <1>2
  <2>2. d \in Seq(0 .. 9) /\ Len(d) >= e + 1 /\ valueOf(d) = n
    BY <1>2, <2>1, DigitsAreExact
  <2> HIDE DEF d
  <2> QED BY <2>2
<1> HIDE DEF d
<1>5. b \in 1 .. Len(d) /\ b + 1 \in Nat
  BY <1>2, <1>4
<1>6. whole \o part = d /\ Len(part) = e
  BY <1>2, <1>4, <1>5
<1>7. whole \o padEnd(part, e) = d
  <2>1. padEnd(part, e) = part
    <3>1. part \in Seq(0 .. 9)
      BY <1>4, <1>5
    <3> HIDE DEF part
    <3>2. [i \in 1 .. e - Len(part) |-> 0] = << >>
      BY <1>2, <1>6
    <3>3. padEnd(part, e) = part \o [i \in 1 .. e - Len(part) |-> 0]
      BY DEF padEnd
    <3>4. part \o << >> = part
      BY <3>1
    <3> QED BY <3>2, <3>3, <3>4, Zenon
  <2> QED BY <1>6, <2>1
<1> HIDE DEF whole, part, b
<1>8. fromMajorString(Decimal(value.amount < 0, whole, part), value.currency)
        = money(IF value.amount < 0 THEN -n ELSE n, value.currency)
  <2> DEFINE text == Decimal(value.amount < 0, whole, part)
  <2>1. text.negative = (value.amount < 0) /\ text.integer = whole /\ text.fraction = part
    BY DEF Decimal
  <2> HIDE DEF text
  <2>2. ~ (Len(text.fraction) > e)
    BY <1>2, <1>6, <2>1
  <2>3. fromMajorString(text, value.currency)
          = money(IF text.negative THEN -valueOf(text.integer \o padEnd(text.fraction, e))
                  ELSE valueOf(text.integer \o padEnd(text.fraction, e)), value.currency)
    BY <2>2 DEF fromMajorString, e
  <2>4. valueOf(text.integer \o padEnd(text.fraction, e)) = n
    BY <1>4, <1>7, <2>1, Zenon
  <2> QED BY <2>1, <2>3, <2>4 DEF text
<1>9. (IF value.amount < 0 THEN -n ELSE n) = value.amount
  BY <1>1 DEF n, magnitude
<1> QED
  BY <1>1, <1>3, <1>8, <1>9

LEMMA ReadIsExact ==
  ASSUME NEW text \in Texts, NEW currency \in Currency
  PROVE  LET places == Len(text.fraction)
             digits == valueOf(text.integer \o text.fraction)
             exact  == (IF text.negative THEN -digits ELSE digits)
                          * tenTo(minorUnitExponent[currency])
             read   == fromMajorString(text, currency)
         IN  IF places > minorUnitExponent[currency]
               THEN read = "InvalidDecimalStringError"
               ELSE read \in [amount : Int, currency : {currency}]
                      /\ read.amount * tenTo(places) = exact
<1> DEFINE e == minorUnitExponent[currency]
           places == Len(text.fraction)
           digits == valueOf(text.integer \o text.fraction)
           units == valueOf(text.integer \o padEnd(text.fraction, e))
<1>1. /\ text.integer \in Seq(Nat) /\ text.fraction \in Seq(Nat)
      /\ text.negative \in BOOLEAN
  <2>1. BoundedSeq(Digits, MaxPlaces) \subseteq Seq(Nat)
    <3>1. ASSUME NEW s \in BoundedSeq(Digits, MaxPlaces) PROVE s \in Seq(Nat)
      <4>1. PICK k \in 0 .. MaxPlaces : s \in [1 .. k -> Digits]
        BY DEF BoundedSeq, SeqOf
      <4>2. Digits \subseteq Nat /\ k \in Nat
        BY MoneyCallsAssumption
      <4>3. s \in [1 .. k -> Nat]
        BY <4>1, <4>2
      <4> QED BY <4>2, <4>3
    <3> QED BY <3>1
  <2> QED BY <2>1 DEF Texts, Decimal
<1>2. e \in Nat /\ places \in Nat
  BY <1>1, MoneyAssumption
<1>3. CASE places > e
  BY <1>3 DEF fromMajorString
<1>4. CASE ~ (places > e)
  <2>1. fromMajorString(text, currency)
          = money(IF text.negative THEN -units ELSE units, currency)
    BY <1>4 DEF fromMajorString
  <2>2. places <= e
    BY <1>2, <1>4
  <2>3. /\ units \in Nat /\ digits \in Nat
        /\ units * tenTo(places) = digits * tenTo(e)
    BY <1>1, <1>2, <2>2, PaddingIsExact
  <2>4. tenTo(places) \in Nat /\ tenTo(e) \in Nat
    BY <1>2, TenTo
  <2>5. (-units) * tenTo(places) = (-digits) * tenTo(e)
    <3>1. \A x, y \in Nat : (-x) * y = -(x * y)
      OBVIOUS
    <3> HIDE DEF units, digits, places, e
    <3> QED BY <2>3, <2>4, <3>1
  <2> HIDE DEF units, digits
  <2> QED BY <1>1, <1>4, <2>1, <2>3, <2>5 DEF money, digits
<1> QED
  BY <1>3, <1>4

\* For all texts and amounts, and any number of decimal places of a currency:
\* what is read is exactly what is written, or refused for its length, and what
\* is shown is read back as it was.
THEOREM ReadsWhatItWrites == MoneySpec => []TextIsExact
<1>1. AnswersAreComputed => TextIsExact
  <2> SUFFICES ASSUME AnswersAreComputed PROVE TextIsExact
    OBVIOUS
  <2>1. ASSUME Answered("fromMajorString")
        PROVE  /\ operation.text \in Texts /\ operation.currency \in Currency
               /\ answer[1] = fromMajorString(operation.text, operation.currency)
    BY <2>1 DEF AnswersAreComputed, Answered, Calls
  <2>2. ASSUME Answered("toMajorString")
        PROVE  /\ operation.value \in Values
               /\ answer[1] = toMajorString(operation.value)
    BY <2>2 DEF AnswersAreComputed, Answered, Calls
  <2> QED BY <2>1, <2>2, ReadIsExact, RenderedIsRead DEF TextIsExact
<1> QED
  BY <1>1, AmountsInvariance, PTL
=============================================================================
