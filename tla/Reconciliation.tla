--------------------------- MODULE Reconciliation ---------------------------
(***************************************************************************)
(* reconcile() over one provider and one of its statements                 *)
(* (reconciliation/reconcile.ts, db/migrations/0002_reconciliation.sql).   *)
(*                                                                         *)
(* The expectations, the lines and an earlier run are read by separate     *)
(* statements, outside any transaction; then one READ COMMITTED            *)
(* transaction inserts the run, whose hash of the input is unique, and its *)
(* findings.  Expectations and lines are append-only and are named by      *)
(* their sequence numbers, drawn before they commit, so that they appear   *)
(* in any order.  An input is the sets of rows that were read: the hash is *)
(* of their ids and of contents that never change.                         *)
(***************************************************************************)
EXTENDS Integers, SequencesExt

CONSTANTS
  Expectation,   \* sequence numbers of expected_settlement rows
  Line,          \* sequence numbers of provider_statement_line rows
  Ref,           \* provider_ref
  Terms,         \* what may be expected: amount, currency, state, by
  Report,        \* what a line may say: amount, currency, state, settled_at or Null
  Caller,        \* concurrent calls of reconcile
  Null

ASSUME ReconciliationAssumption ==
  /\ Expectation \subseteq Nat /\ Line \subseteq Nat
  /\ Null \notin Expectation \cup Line \cup Caller
  /\ \A terms \in Terms : terms.amount \in Int /\ terms.by \in Int
  /\ \A report \in Report :
       report.amount \in Int /\ (report.settled_at = Null \/ report.settled_at \in Int)

VARIABLES
  expected_settlement,
  provider_statement_line,
  reconciliation_run,          \* by the call that wrote it, uncommitted ones too
  reconciliation_discrepancy,  \* the findings of each run
  call

reconciliationVars == << expected_settlement, provider_statement_line, reconciliation_run,
           reconciliation_discrepancy, call >>

Input    == [expected : SUBSET Expectation, lines : SUBSET Line]
Kinds    == {"missing", "unexpected", "amount_mismatch", "state_mismatch", "timing"}
Finding  == [kind : Kinds, expected : Expectation \cup {Null}, line : Line \cup {Null}]
Expected == [ref : Ref, terms : Terms, supersedes : Expectation \cup {Null}]
Reported == [ref : Ref, report : Report]
Run      == [input : Input, committed : BOOLEAN]

Idle      == [phase |-> "idle"]
CallState ==
  {Idle, [phase |-> "vanished"]}
    \cup [phase : {"expectations"}, expected : SUBSET Expectation]
    \cup [phase : {"read", "compared", "inserted", "lost"}, input : Input]
    \cup [phase : {"returned"}, input : Input, run : Caller, replayed : BOOLEAN]

ASSUME NullIsNoRow == Null \notin Expected \cup Reported \cup Run

RunsTypeOK ==
  /\ reconciliation_run \in [Caller -> Run \cup {Null}]
  /\ call \in [Caller -> CallState]

ReconciliationTypeOK ==
  /\ expected_settlement \in [Expectation -> Expected \cup {Null}]
  /\ provider_statement_line \in [Line -> Reported \cup {Null}]
  /\ reconciliation_discrepancy \in [Caller -> SUBSET Finding]
  /\ RunsTypeOK

ReconciliationInit ==
  /\ expected_settlement = [e \in Expectation |-> Null]
  /\ provider_statement_line = [l \in Line |-> Null]
  /\ reconciliation_run = [c \in Caller |-> Null]
  /\ reconciliation_discrepancy = [c \in Caller |-> {}]
  /\ call = [c \in Caller |-> Idle]

tables == << expected_settlement, provider_statement_line >>
runs   == << reconciliation_run, reconciliation_discrepancy >>

(***************************************************************************)
(* The two sides fill up.                                                  *)
(***************************************************************************)

Recorded == {e \in Expectation : expected_settlement[e] # Null}
Imported == {l \in Line : provider_statement_line[l] # Null}

\* A revision is a new row that points at the one it replaces; no two replace the
\* same one (expected_settlement_supersedes_unique_idx).  Nothing holds it to the
\* ref of that one.
expect(e, ref, terms, supersedes) ==
  /\ e \notin Recorded
  /\ supersedes # Null =>
       \A f \in Recorded : expected_settlement[f].supersedes # supersedes
  /\ expected_settlement' = [expected_settlement EXCEPT ![e] =
       [ref |-> ref, terms |-> terms, supersedes |-> supersedes]]
  /\ UNCHANGED << provider_statement_line, runs, call >>

import(l, ref, report) ==
  /\ l \notin Imported
  /\ provider_statement_line' = [provider_statement_line EXCEPT ![l] =
       [ref |-> ref, report |-> report]]
  /\ UNCHANGED << expected_settlement, runs, call >>

currentExpectations ==
  {e \in Recorded : \A f \in Recorded : expected_settlement[f].supersedes # e}

(***************************************************************************)
(* The comparison.                                                         *)
(***************************************************************************)

found(kind, e, l) == [kind |-> kind, expected |-> e, line |-> l]

expectedFor(input, ref) == {e \in input.expected : expected_settlement[e].ref = ref}
linesFor(input, ref)    == {l \in input.lines : provider_statement_line[l].ref = ref}

\* The rows of a set as the queries return them, ORDER BY seq.
inSeqOrder(set) ==
  CHOOSE q \in [1 .. Cardinality(set) -> set] : \A i, j \in DOMAIN q : i < j => q[i] < q[j]

\* What of a matched pair differs.  A line that has not settled is never late.
differs(kind, terms, report) ==
  \/ kind = "amount_mismatch"
       /\ (terms.amount # report.amount \/ terms.currency # report.currency)
  \/ kind = "state_mismatch" /\ terms.state # report.state
  \/ kind = "timing" /\ report.settled_at # Null /\ report.settled_at > terms.by

\* Every kind that applies is reported, not just the first.
comparePair(e, l) ==
  {found(kind, e, l) : kind \in {k \in Kinds :
     differs(k, expected_settlement[e].terms, provider_statement_line[l].report)}}

\* Bug: the refs are those of the expectations.
ExpectedRefs(input) == {expected_settlement[e].ref : e \in input.expected}

refsOf(input) ==
  {expected_settlement[e].ref : e \in input.expected}
    \cup {provider_statement_line[l].ref : l \in input.lines}

\* The two sides of a ref are paired in seq order; the rest of the longer one
\* is missing, or unexpected.
compareRef(input, ref) ==
  LET expectations == inSeqOrder(expectedFor(input, ref))
      lines        == inSeqOrder(linesFor(input, ref))
      paired       == DOMAIN expectations \cap DOMAIN lines
  IN  {found("missing", expectations[i], Null) : i \in DOMAIN expectations \ paired}
        \cup {found("unexpected", Null, lines[i]) : i \in DOMAIN lines \ paired}
        \cup UNION {comparePair(expectations[i], lines[i]) : i \in paired}

compare(input) == UNION {compareRef(input, ref) : ref \in refsOf(input)}

(***************************************************************************)
(* A call.                                                                 *)
(***************************************************************************)

RunsOf(input)   == {d \in Caller : reconciliation_run[d] # Null
                                     /\ reconciliation_run[d].input = input}
Committed(d)    == reconciliation_run[d] # Null /\ reconciliation_run[d].committed
existingRun(input) == {d \in RunsOf(input) : Committed(d)}

reconcile(c) ==
  /\ call[c] = Idle
  /\ call' = [call EXCEPT ![c] = [phase |-> "expectations", expected |-> currentExpectations]]
  /\ UNCHANGED << tables, runs >>

statementLines(c) ==
  /\ call[c].phase = "expectations"
  /\ call' = [call EXCEPT ![c] =
       [phase |-> "read", input |-> [expected |-> call[c].expected, lines |-> Imported]]]
  /\ UNCHANGED << tables, runs >>

Return(c, run, replayed) ==
  call' = [call EXCEPT ![c] =
    [phase |-> "returned", input |-> call[c].input, run |-> run, replayed |-> replayed]]

\* The fast path, or on to the transaction.
already(c) ==
  /\ call[c].phase = "read"
  /\ \/ \E d \in existingRun(call[c].input) : Return(c, d, TRUE)
     \/ /\ existingRun(call[c].input) = {}
        /\ call' = [call EXCEPT ![c].phase = "compared"]
  /\ UNCHANGED << tables, runs >>

\* Bug: only committed runs stand in the way.
CommittedOnly(input) == existingRun(input)

\* The runs an insert of this hash meets in the unique index.
inTheWay(input) == RunsOf(input)

\* INSERT ... ON CONFLICT (input_hash) DO NOTHING, which waits for a
\* transaction that has inserted the same hash and not ended.
insertRun(c) ==
  /\ call[c].phase = "compared"
  /\ \A d \in inTheWay(call[c].input) : Committed(d)
  /\ IF inTheWay(call[c].input) = {}
       THEN /\ reconciliation_run' = [reconciliation_run EXCEPT ![c] =
                 [input |-> call[c].input, committed |-> FALSE]]
            /\ call' = [call EXCEPT ![c].phase = "inserted"]
       ELSE /\ call' = [call EXCEPT ![c].phase = "lost"]
            /\ UNCHANGED reconciliation_run
  /\ UNCHANGED << tables, reconciliation_discrepancy >>

\* The findings, finished_at and COMMIT.
finish(c) ==
  /\ call[c].phase = "inserted"
  /\ reconciliation_run' = [reconciliation_run EXCEPT ![c].committed = TRUE]
  /\ reconciliation_discrepancy' =
       [reconciliation_discrepancy EXCEPT ![c] = compare(call[c].input)]
  /\ Return(c, c, FALSE)
  /\ UNCHANGED tables

\* Bug: the loser looks for the run of what the tables hold by now.
ReadWinnerOfNow(c) ==
  LET now == [expected |-> currentExpectations, lines |-> Imported]
  IN  /\ call[c].phase = "lost"
      /\ \/ \E d \in existingRun(now) : Return(c, d, TRUE)
         \/ /\ existingRun(now) = {}
            /\ call' = [call EXCEPT ![c] = [phase |-> "vanished"]]
      /\ UNCHANGED << tables, runs >>

\* "vanished after a write conflict" if there is no winner.
readWinner(c) ==
  /\ call[c].phase = "lost"
  /\ \/ \E d \in existingRun(call[c].input) : Return(c, d, TRUE)
     \/ /\ existingRun(call[c].input) = {}
        /\ call' = [call EXCEPT ![c] = [phase |-> "vanished"]]
  /\ UNCHANGED << tables, runs >>

\* The connection or the process dies, and the transaction with it; the call
\* may be made again.
abort(c) ==
  /\ call[c].phase \in {"compared", "inserted"}
  /\ reconciliation_run' = [reconciliation_run EXCEPT ![c] = Null]
  /\ call' = [call EXCEPT ![c] = Idle]
  /\ UNCHANGED << tables, reconciliation_discrepancy >>

CallStep(c) ==
  \/ reconcile(c) \/ statementLines(c) \/ already(c)
  \/ insertRun(c) \/ finish(c) \/ readWinner(c) \/ abort(c)

ReconciliationNext ==
  \/ \E e \in Expectation, ref \in Ref, terms \in Terms, s \in Recorded \cup {Null} :
       expect(e, ref, terms, s)
  \/ \E l \in Line, ref \in Ref, report \in Report : import(l, ref, report)
  \/ \E c \in Caller : CallStep(c)

ReconciliationSpec == ReconciliationInit /\ [][ReconciliationNext]_reconciliationVars

(***************************************************************************)
(* Properties.                                                             *)
(***************************************************************************)

\* Calls that looked at the same rows share one run, however they raced, and a
\* caller is given the run of what it looked at: findings are not duplicated
\* by a retry.  At most one of them is told that it wrote the run.
OneRunPerInput ==
  /\ \A c, d \in Caller :
       Committed(c) /\ Committed(d)
         /\ reconciliation_run[c].input = reconciliation_run[d].input => c = d
  /\ \A c \in Caller : call[c].phase = "returned" =>
       /\ Committed(call[c].run)
       /\ reconciliation_run[call[c].run].input = call[c].input
       /\ ~ call[c].replayed => call[c].run = c

\* A call that lost the race for a run finds it: it waited for the winner, and
\* a winner that failed leaves the way free.
LosersFindTheWinner == \A c \in Caller : call[c].phase # "vanished"

\* What makes the two inductive.  Two runs of one input there never are, one of
\* them uncommitted or not: that is what the wait in the index is for.
RunsAreUnique ==
  \A c, d \in Caller :
    reconciliation_run[c] # Null /\ reconciliation_run[d] # Null
      /\ reconciliation_run[c].input = reconciliation_run[d].input => c = d

\* The run of a call is in the table while its transaction is open, and for
\* good once it has committed.
RunsAreOfTheirCalls ==
  \A c \in Caller :
    LET mine == call[c].phase = "returned" /\ ~ call[c].replayed
    IN  /\ (reconciliation_run[c] # Null) <=> (call[c].phase = "inserted" \/ mine)
        /\ Committed(c) <=> mine
        /\ call[c].phase = "inserted" => reconciliation_run[c].input = call[c].input

\* Whoever lost waited until a run of its input had committed.
LosersHaveAWinner ==
  \A c \in Caller : call[c].phase = "lost" => existingRun(call[c].input) # {}

ReconciliationInv ==
  /\ RunsTypeOK
  /\ RunsAreUnique
  /\ RunsAreOfTheirCalls
  /\ LosersHaveAWinner
  /\ OneRunPerInput
  /\ LosersFindTheWinner

\* A line says what was expected, and in time.
Alike(e, l) ==
  LET terms  == expected_settlement[e].terms
      report == provider_statement_line[l].report
  IN  /\ report.amount = terms.amount
      /\ report.currency = terms.currency
      /\ report.state = terms.state
      /\ report.settled_at # Null => report.settled_at <= terms.by

ExpectedIn(expected, currency) ==
  SumFunction([e \in {e \in expected : expected_settlement[e].terms.currency = currency} |->
                 expected_settlement[e].terms.amount])

ReportedIn(lines, currency) ==
  SumFunction([l \in {l \in lines : provider_statement_line[l].report.currency = currency} |->
                 provider_statement_line[l].report.amount])

OfKind(kind, findings) == {f \in findings : f.kind = kind}

PairsOf(findings) ==
  {<< f.expected, f.line >> : f \in
     findings \ (OfKind("missing", findings) \cup OfKind("unexpected", findings))}

\* What the findings about the two sides of a ref say of its rows.
Account(findings, expected, lines) ==
  LET missing    == OfKind("missing", findings)
      unexpected == OfKind("unexpected", findings)
      pairs      == PairsOf(findings)
      excess     == Cardinality(expected) - Cardinality(lines)
  IN  /\ Cardinality(missing) = (IF excess > 0 THEN excess ELSE 0)
      /\ Cardinality(unexpected) = (IF excess < 0 THEN -excess ELSE 0)
      /\ pairs \subseteq expected \X lines
      /\ \A p, q \in pairs : p[1] < q[1] <=> p[2] < q[2]
      /\ \A p \in pairs : /\ \A f \in missing : p[1] < f.expected
                         /\ \A f \in unexpected : p[2] < f.line
      /\ findings = {} =>
           /\ \A e \in expected :
                LET currency == expected_settlement[e].terms.currency
                IN  ExpectedIn(expected, currency) = ReportedIn(lines, currency)
           /\ \A l \in lines : \E e \in expected : Alike(e, l)

\* Nothing is silently dropped.  In every committed run, the rows of a ref
\* that have no counterpart are reported, those and only those, and they are
\* the latest; every other finding is of two rows of one ref that are in no other
\* pair, and the pairs of a ref do not cross in seq order; and a ref of which the
\* run says nothing has as many lines as expectations, for the same amounts in
\* total of each currency, none of them late.
EveryRowIsAccountedFor ==
  \A c \in Caller : Committed(c) =>
    \A ref \in Ref :
      LET expected == expectedFor(reconciliation_run[c].input, ref)
          lines    == linesFor(reconciliation_run[c].input, ref)
      IN  Account({f \in reconciliation_discrepancy[c] :
                     f.expected \in expected \/ f.line \in lines}, expected, lines)

\* What makes it an invariant.  There are finitely many rows.
TablesAreFinite == IsFiniteSet(Recorded) /\ IsFiniteSet(Imported)

InTables(input) == input.expected \subseteq Recorded /\ input.lines \subseteq Imported

\* What a call has read is there, and stays.
InputsAreInTables ==
  \A c \in Caller :
    /\ call[c].phase = "expectations" => call[c].expected \subseteq Recorded
    /\ call[c].phase \in {"read", "compared", "inserted", "lost"} => InTables(call[c].input)
    /\ reconciliation_run[c] # Null => InTables(reconciliation_run[c].input)

\* The findings of a run are what a comparison of its input finds at any time.
FindingsAreOfTheInput ==
  \A c \in Caller : Committed(c) =>
    reconciliation_discrepancy[c] = compare(reconciliation_run[c].input)

FindingsInv ==
  /\ ReconciliationInv
  /\ ReconciliationTypeOK
  /\ TablesAreFinite
  /\ InputsAreInTables
  /\ FindingsAreOfTheInput
=============================================================================
