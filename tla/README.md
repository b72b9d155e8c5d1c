# Raíces in TLA+

Raíces is a remittance service: a sender abroad and a recipient at home share a
relationship, agree on a plan, and the recipient asks for money that the sender
approves or declines. The code is a TypeScript API over PostgreSQL
(`apps/api/src`, `db/migrations`) and a mobile application (`apps/mobile`).
This directory holds TLA+ modules of its core logic, the TLC runs that check
them on small instances, and proofs, checked by TLAPS, of what matters most for
instances of every size.

## 1. Inventory

| Component | Code | State it keeps | Operations | What is hard | What makes it correct |
|---|---|---|---|---|---|
| State machines, audit | `audit/transition.ts`, `0003_audit.sql` | `audit_log` | `assertLegal`, `transition`, `transitionWithin`, the deferred trigger | the state a move is judged on may be read outside the transaction that writes | every change of a status has its audit row; the log tells the state |
| Serializable transactions | `db/serializable.ts` | none | `withSerializableTx` | the whole function runs again after 40001/40P01, until a budget is spent | nothing of a failed attempt remains |
| Ledger | `ledger/post.ts`, `0001_ledger.sql`, `0009_redteam_fixes.sql` | postings, entries, an entry sequence | `post`, `postWithin` | two callers with one key; a posting of several statements; sequence numbers of rolled-back attempts | one posting per key, for good, balanced in each currency; a caller is told the truth about it |
| Balances | `ledger/balance.ts` | none | `balance`, `trialBalance` | a cut at a sequence number | the books close in every currency |
| Requests | `requests/*.ts`, `http/requests.ts`, `http/policy.ts`, `0006_requests.sql` | `request` | submit, approve, decline, expire, and their routes | status read by the pool, row written by id; the answer read after the commit; the role checked in one place | a decline is final; row and log agree; only the sender decides; a month's cap holds |
| Transactions | `transactions/*.ts`, `0007_transactions.sql` | `transaction` with an intent and a settlement state | `approveAndRecord`, `cancelIntent`, `advanceSettlement` | an approval of several statements that may fail at any; stale cancels, advances and declines in one another's way | approval, record and posting together; no money moves after a withdrawal; what failed stays failed |
| HTTP idempotency | `http/idempotency*.ts`, `0012_http_request_receipt.sql` | a map per process, `http_request_receipt` | claim, wait, admit, run, complete, forget | three commits make one write, and an operation may be several; restarts; time-outs; a full map | at most one write per key; a 2xx and a 4xx are true; the map empties again |
| Relationships | `relationships/*.ts`, `http/relationships.ts`, `http/policy.ts`, `0004_users_relationships.sql` | `relationship` | invite, accept, pause, resume, terminate, resend | the window of an invitation against the clock; two invitations at once; overlapping actions | one live relationship per pair; a history that is a path; acceptance in time |
| Mobile outbox | `apps/mobile/src/outbox` | entries in memory and on disk | load, enqueue, drain | awaits between computing an array and assigning it; storage that throws; the app killed | nothing composed is lost; everything is sent in the end |
| Inbound webhooks | `webhooks/*.ts`, `0010_channel_inbound.sql` | a set in memory (wired), `channel_inbound_message` (not wired) | verify, dedupe, hand off; claim with work | a handler that fails after the mark; a restart; redelivery | a message is processed once |
| Conversation | `conversation/*.ts`, `0011_conversation.sql` | `conversation` | open a pending context, resolve an affirmative, read evidence of an arrival | expiry against the answer; a second question over the first; retries | a question closes once, by its deadline; evidence answers an arrival check |
| Plans, tiers, caps | `plans/*.ts`, `requests/tier`, `0005_plans.sql`, `0008_plan_cap_timezone.sql` | plans, immutable versions, rules | create, append a version, version in force, month-to-date spend, classify | a plan before its first version; spend read before the insert; months in a time zone | a request is judged by the version in force; caps hold |
| Identity | `identity/service.ts`, `http/identity.ts`, `0008_identity.sql` | challenges, phone guards, sessions, principals, buckets | request a code, verify, authenticate, revoke | two verifications of one code; lock-out across challenges; compare-and-swap with eight attempts | a code opens one session; a new session ends the old; failures lock |
| Users and invitation limit | `http/relationships.ts`, `http/invite-limit.ts`, `relationships/users.ts` | `app_user`, buckets of invitations | find or create a user by number, hit both windows, invite | three transactions of one route; one number in two roles at once; the hit that opens a window | both sides have the role of their side; no more invitations pass than the limits |
| Reconciliation | `reconciliation/reconcile.ts`, `0002_reconciliation.sql` | expectations, statement lines, runs, discrepancies | `reconcile` | rows that arrive meanwhile; several reads, each its own snapshot; two runs of one input; references that repeat | a run per input; nothing dropped silently |
| Money | `packages/money` | none | add, compare, multiply, `allocate`, decimal text | negative quotients, ties, remainders, digits past the exponent | each mode rounds as named; parts add up; text is exact |
| Settlement provider | `packages/settlement` | replay map of the mock | create, get, set behavior | replay of a method and key | a replay answers alike |
| Migrations runner | `scripts/migrate.ts` | applied versions | migrate | two runners at once | each file once, in order |
| Channels, templates, screens, server shell | `packages/channels`, `packages/templates`, `apps/mobile/app`, `app.ts`, `hardening.ts` | little | wiring, wording, headers, user interface | nothing that other parts depend on | left out |

How they meet: an HTTP write passes `Receipts` and then calls one function of a
domain component; `Requests`, `Transactions`, `Relationships` and the
conversation all move rows through the audit component; a submission is judged
by the plan in force and the month's approved requests; `approveAndRecord` posts
to the ledger in its own transaction with the request's id as key; balances read
what the ledger holds. Reconciliation compares expectations with statement
lines and touches neither. The outbox is meant to send, with the key it made,
what the receipts then apply once.

`PROJECT.json` lists under `hazards` each place in the code where one of the
hard behaviours bites, with the properties that would show it going wrong.

## 2. Modules

| Module | Models | State | Grain of a step |
|---|---|---|---|
| `StateMachines` | the declared machines; `assertLegal`; what the audit trigger demands | none | operators |
| `Requests` | `requests.ts` | `request`, `request_log`, `call` | one database visit: the read of the status, then the transaction |
| `Transactions` | `transactions.ts`, extends `Requests` | `transaction`, `ledger`, two logs, `move` | one database visit; all of `approveAndRecord`, which reads inside its transaction |
| `Approvals` | `approveAndRecord`, extends `Transactions` and shown to implement it | that of `Transactions`, and `recording`, the attempts under way | one statement: the first read with its snapshot, the update that holds the row, the posting, the commit |
| `LedgerSpec` | what posting promises | `posted`, `ask` | one decision |
| `Ledger` | `post.ts` over `serializable.ts` and `0001` | `ledger_transaction`, `next_seq`, and for each call its statement, snapshot, uncommitted entries, attempts, retries, answer | one SQL statement |
| `Balances` | `balance.ts`, extends `Ledger` | none of its own | operators on the committed entries |
| `Receipts` | `idempotency-http.ts` and `idempotency.ts` | the map of each process, the receipts, what the domain applied, each call | one commit, or one synchronous block between awaits |
| `RequestRoutes` | `http/requests.ts`, `http/policy.ts`, extends `Transactions` | `requested_by`, `reply` | that of `Transactions`, and the read for the answer |
| `Money`, `Tier` | `packages/money`; `requests/tier` | none | operators |
| `MoneyCalls` | one call of `Money` on bounded arguments, and the reference definitions | `operation`, `answer` | one call |
| `Plans` | `plans.ts` and `0005`, extends `Tier` | `money_plan`, `plan_version`, `call`, `now` | one transaction; an append, its snapshot and its commit apart |
| `Submissions` | `submitRequest` and `cap-window.ts`, extends `Plans` | `request`, `submission` | BEGIN with the reads, then the insert |
| `Relationships` | the action routes, their policy, `relationships.ts`, the triggers of `0004` and `0009` | `relationship`, `log`, `now`, `call` | one of: policy read, BEGIN, status read, commit, read for the answer |
| `Invitations` | the invite route, its limiter, `users.ts`, extends `Relationships` | `app_user`, `bucket`, `invitation` | one transaction |
| `Identity` | `identity/service.ts` | the tables of `0008`, the verdicts in the audit log, `now`, the calls of `verifyCode` and `revoke` | one reading with the pool, or one transaction |
| `Inbound` | `webhooks/routes.ts`, `dedupe.ts`, `inbound.ts`, `0010` | the set in memory, the deliveries; the table, the effects, the claims | one synchronous block of the route; of a claim its insert, its wait, its commit |
| `Conversation` | `conversation.ts`, `arrival.ts`, `machine.ts` | `conversation`, `trail`, `now`, `call` | BEGIN, the first statement, the commit |
| `Reconciliation` | `reconcile.ts`, `0002` | the two tables it compares, runs, findings, calls | one statement outside a transaction; the insert of the run, with its wait; the commit |
| `Outbox` | `outbox.ts` | `entries`, `disk`, the writes under way, what was promised and acknowledged | one synchronous block between awaits |

`*Proofs` modules hold the theorems: `ReceiptsProofs`, `IdentityProofs` and
`ConversationProofs` about the module they are named after;
`RelationshipsProofs` about `Relationships` and `Invitations`;
`TransactionsProofs` about `Requests`, `Transactions`, `RequestRoutes` and
`Approvals`;
`MoneyProofs` about `Ledger`, `Balances`, `Plans`, `Submissions` and
`MoneyCalls`; `OnceProofs` about `Outbox`, `Inbound` and `Reconciliation`; both
use the lemmas about sums of `SumProofs`. `MC*` modules give the instances of the runs.

Names follow the source: `resolve`, `transition`, `postWithin`,
`transaction_check_state_pair`, `relationship_reject_expired_activation` are the
functions, triggers and constraints of those names. `PROJECT.json` `map` gives
the lines behind each definition. A definition whose comment starts with "Bug:"
is a plausible mistake; it is used nowhere, and each property is shown to notice
one of them when it takes the place of the definition that follows it.

What a SERIALIZABLE transaction is in a module depends on what its code does
around it. Where everything is read inside, PostgreSQL commits transactions as
if one after another, and one step stands for the successful attempt
(`approveAndRecord` in `Transactions`, `findOrCreateUserByPhone`); for
`approveAndRecord`, which posts to the ledger under a key of its own,
`Approvals` shows that this is so. Where a value is read before it
opens, the read is a step of its own (`Requests`, `Transactions`). Where the
code reacts to conflicts itself, the statements are steps (`Ledger`, `Inbound`,
`Plans`), and where a clock or a version of the row decides, so are BEGIN, the
first read and the commit (`Relationships`, `Conversation`, `Submissions`).

## 3. Runs

Every run that passes explores its whole state space. The properties are the
INVARIANTs and PROPERTYs of its cfg; the type invariants (`TypeOK`,
`RoutesTypeOK`, `InvitationsTypeOK`, ...) and the inductive invariants hold on
the same instances and are proved where section 4 says so. The runs check the
properties that say something of the code.

| Run | Instance | Shows |
|---|---|---|
| `transactions` (765,000 states) | one request, its routes for two people, two overlapping calls that resolve it, two of `cancelIntent`/`advanceSettlement` | a cancelled intent never moved money; a settlement passes every stage; only the sender decides, also in decisions that were overwritten; an answer is of one decision; a declined request stays declined |
| `approvals` (67,000) | one request, two calls of `approveAndRecord`, two of `resolve()`, one of `cancelIntent`/`advanceSettlement` | two approvals never meet at the key of the posting; the statements implement the one step of `Transactions`, so that approval, record and posting come together wherever an attempt fails |
| `ledger` | two callers, two keys, five requests (two of one hash, one in a second currency, one unbalanced per currency, one against the foreign key), one retry, four sequence numbers | exactly-once posting as refinement of `LedgerSpec`; a race for a key is always decided; the books close |
| `receipts` | two keys, two bodies, two processes with room for one entry, two requests in flight that come back | at most one run that commits anything per key; truth of every 2xx and 4xx, over operations that leave a part behind; no request that ends keeps its slot |
| `relationships` (363,000) | two people who may each sign up and invite the other from one address, two rows, two invitations, two calls of any action; a window of zero ticks, a clock of one, limits of one per user and two per address | one live relationship; a history that is a path; acceptance only in time; both sides have users with their roles; the limits hold |
| `outbox` (150,000) | three entries, two kills, two failures of storage, every kind of app | a careful app loses nothing, never sends again what was taken off, and has everything sent in the end; order is kept under every app |
| `identity` | one phone, two challenges, three verifications with right or wrong codes, one sign-out; two attempts of a call, two failures to a lock-out, every duration one tick of a clock of one | fewer wrong codes than the limit leave a challenge open; one live session; no session from a stale reading; a dead token stays dead |
| `inbound` (71,000) | a reply and an event of another type, two deliveries to the route, three calls of the durable claim, restarts without limit | a row of the table is work committed once; every reply is processed in the end |
| `conversation` (1,050,000) | one conversation, three calls, three kinds of question, a deadline of one tick and a clock of two, questions put before they are recorded | a question closes once, before the next opens; by its own deadline; evidence of an arrival is the answer to a question about it |
| `plans` (524,000) | two creations and two edits in three calls, two submissions, two instants on the two sides of the month's end in the plan's zone though of one month in UTC; or one call on amounts of both signs, ratios of numbers up to six, up to four weights, three digits on each side of the point | versions are numbered 1 to n and the plan points at n; what passes as recurring is within the cap of its month; each rounding mode is what its name says; shares add up and are fair; text is exact |
| `reconciliation` (394,000) | two expectations, one of which may revise the other, under another reference too, two lines, two references, two calls that may be made again | one run per input; the loser finds the winner; findings account for every row, in seq order |
| `declined_after_record` | that of `transactions` | ends in a violation, see below |

Why the bounds are enough. Rows of different requests share nothing but the
calls, so one request is enough for `transactions`; two calls of each kind give
the stale one and the one that overtakes it, and a call that has ended starts
again, so histories are longer than the number of calls. In `approvals` an attempt fails, or is
overtaken by an approval or a decline, after each of its statements. In `ledger`
one caller wins a key and the other loses it, is replayed, conflicts or finds it free
again; a posting has two entries, so four sequence numbers are two full postings
or one and the leavings of a rolled-back attempt. In `receipts` the map of a
process fills with one entry. In `relationships` each of two people may invite
the other while they sign up, and two calls are between their reads and their
commits; the window of zero ticks and the clock of one distinguish in time from
late, and with a limit of one per user the second invitation of a user is
refused until the window of the limiter ends. In `identity` two verifications of
two challenges reach the lock-out while a third holds readings from before it,
and a call may be overtaken at both of its attempts; the third call would be the
first that a limit of the verification buckets refuses, so those limits are
above what the instance does (`maxHits` bounds the requests that count in one
window). Three entries put one before and one after the entry a drain is
sending. In `inbound` one claim works while a second waits and a third comes
late; in `conversation` the question that is pending, the one that replaces it
and the answer are three calls, and a tick passes between any two of their
steps. In `plans` the third call appends while the other two hold one number,
and two requests are the one that is counted and the one that is judged. In
`reconciliation` two rows on a side are the pair and the rest, or the revision
and what it replaces. The rounding modes differ at ties and between signs, all
of which denominators up to six have.

The constants that exist only for TLC (`MaxRetries`, `MaxSeq`, `maxNow`,
`MaxNow`, `maxHits`, `MaxPlaces`, and of `Outbox` `maxEntries`, `maxKills`,
`maxFailures`) are marked as bounds where they are declared; histories in
`transactions` and `relationships` are finite because the machines are. Deadlock
is not checked where calls or bounds are used up and everything rightly stops;
it is in `approvals`, `ledger`, `receipts` and `inbound`.

Symmetry is declared of sets whose members nothing tells apart (not of the two
people of `transactions`, who have their sides), and in no run that checks
liveness.

Fairness is assumed in two places. `FairSpec` of `Outbox` says what the owner of
an outbox owes it: it boots again after a kill, storage answers (weak fairness
of `load`, `loaded`, `enqueued`, `marked`, `settled`), a drain is started again
and again while something is pending, and the connection comes back again and
again (strong fairness of `drain` and `accepted`, which a kill or a refusal
disables in between). `types.ts` promises delivery "when connectivity returns",
and that is what strong fairness of `accepted` says. Kills and failures of
storage are bounded; with a failure nothing is promised, see below. `InboundFairSpec`
of `Inbound` says that the provider delivers a message again and again until it
is acknowledged, as providers that deliver at least once do, and that work that
is tried again and again succeeds once: strong fairness of `begin`,
`claimInboundMessage` and `workCommits`, since restarts, which are not bounded,
disable all three. A call that waits goes on when the other has ended, as
PostgreSQL sees to it.

### Where code and text disagree

One run ends in a violation: the property says what a comment says, and the
counterexample is a behavior of the code.

- `declined_after_record`: `resolve` reads `pending` with the pool;
  `approveAndRecord` commits; the decline that read first overwrites the status
  by id. The request is declined and its transaction and posting stay, though
  `requests.ts:373` says of a declined request that "it never becomes a
  transaction". No later approval can undo it, and the transaction cannot move
  any more.

Other observations, made while modelling and without a run of their own. Of
requests and transactions:

- Two advances read `in_flight` with the pool; one commits `failed`, the other
  then `settled` (`transactions.ts:412`, `:437`). Of a payout that failed
  `transactions/machine.ts:24` says that it is terminal, so that it "stays true
  afterwards rather than being overwritten". Each move has its audit row with the
  `before_state` it read, which is what the deferred trigger asks for. The model
  does this too: `ArrivesThroughEveryStage` is of the log and holds of both.
- `requests.ts:275` says the status is read "inside the caller's transaction";
  it is read with the pool, and the audit log records that reading as
  `before_state`. For the same reason an expiry that read `pending` early
  overwrites an approval, although `requests/machine.ts:7` says "Every resolution
  is terminal", and an approver may be answered 200 with the row a later, stale
  decision wrote.
- The approval route calls `approveRequest`, which moves the status alone; no
  route calls `approveAndRecord`.
- `relationships/machine.ts` says a terminated relationship permits no new
  requests; neither `submitRequest`, nor its route, nor the table looks.
- The route accepts amounts of nineteen digits and descriptions of 2,000
  characters (`http/requests.ts:35`, `:43`); the table holds amounts up to
  2^63 - 1 and not blank descriptions of up to 200. What the first lets through and
  the second refuses is a 503 the caller is asked to repeat.

Of receipts and the ledger:

- An invitation that ends in a 429 or a 409 has committed hits of the limiter,
  and perhaps a user or a role, and the refusal is kept as the outcome of its key
  (`http/relationships.ts:171-184`). `RefusalMeansNotDone` therefore says of a 4xx
  that what was asked is not done, and not that nothing is.
- An operation that commits and then throws is answered with the 503 of which
  `errors.ts:90` says "The request was not applied" (`idempotency.ts:79`).
- A receipt left `started` by an operation that was never applied answers 503
  for good, although `serializable.ts:38` says the same call can be made again.
- The fingerprint of the in-memory layer contains the Authorization header, so
  a repetition under a new session gets 409, "used for another request", from
  that layer while the receipt would replay.
- Sequence numbers are drawn per entry, so those of two postings interleave, and
  a cut at the last entry of one holds a part of the other: the net of a trial
  balance as of a cut need not be zero (`balance.ts:169`).
  `docs/redteam-ledger-findings.md:27` calls that legitimate, so no property is
  stated of a cut but of the latest.

Of relationships and invitations:

- `resume` leads to `active` from every state that declares it, `invited` too,
  and is open to both sides: the sender activates an invitation nobody accepted,
  though `http/relationships.ts:50` says of accepting that "it is their consent".
- `resendInvitation` writes the `now()` of its transaction, which may be
  earlier than the `invited_at` of a resend that committed in between, so the
  invitation can lose time by being sent again. `AcceptedInTime` holds with it.
- The invite route is three transactions: an invitation that is refused in the
  end has spent its hits and may leave a user nobody has invited.
- At the very end of the window the mobile application calls an invitation
  expired (`>=`) and the server does not (`>`).

Of plans:

- `0005_plans.sql:20` says a plan is without a version "inside one transaction";
  `createPlan` is two. A plan whose second one fails stays without a version, is
  the newest, and hides an older plan with one: nothing is in force.
- An edit gives its categories new ids, so the spending of the month starts
  again at zero.
- Two submissions under one cap are judged on approved requests only, so both
  may be `recurring` and together above it, until one is approved.
- No route passes a recurring rule to `submitRequest`, so no request that comes
  over HTTP is `recurring`.
- `created_at` is the start of the transaction, the month is that of the
  application's clock; at a month's end they differ.
- Approved requests in two currencies in one category make every later
  submission to it in that month throw.

Of inbound messages and conversations:

- The mark of the route is set before its handler runs and is kept when the
  handler fails, so the provider's repetition is answered `deduped` and the
  message is lost; after a restart it is handed over again. `routes.ts:72` calls
  that store durable, `dedupe.ts:11` says it is not, and calls that a
  conscious tradeoff while the handler does nothing. The model has the loss and
  the repetition, so nothing is stated of the route but that one process hands a
  reply over once in its life (`HandsOverOnce`, proved).
- `inbound.ts:123` says an insert that waited "sees the outcome"; under
  SERIALIZABLE it gets 40001 when the other committed, and the whole function
  runs again, which comes to the same.
- `resolveAffirmative` takes a connection pool and opens its own transaction, so
  it cannot be the work inside `withInboundClaim`.
- A "sí" attaches to whatever is pending when it is resolved: an answer overtaken
  by a new question is taken for the answer to that one.

Of reconciliation:

- `reconcile` reads expectations and lines at two moments, so a row that arrives
  between them may be compared with a side read before it came. Nothing is
  promised of that; `EveryRowIsAccountedFor` is about the rows that were read.

Of the outbox and identity:

- An enqueue and a drain each write the array they computed before their await,
  and the later write drops what the earlier one stored (`outbox.ts:168`), after
  `enqueue` has returned the key. `outbox.ts:70` says "The request is never
  silently dropped"; enqueues are serialized against one another, and drains, but
  not the one against the other.
- `load` sets `loaded` before its awaits (`outbox.ts:55`). When storage throws,
  an app that goes on has an empty memory, a second `load` does nothing, and the
  next enqueue writes one entry over all that was on disk (`outbox.ts:62`).
- These two are about apps that take a liberty (`Apps` of `Outbox`); nothing in
  the class keeps them from it, and the model has what comes of it:
  `KeptByCarefulApp` says that an app that takes neither loses nothing, and is
  violated when that condition is dropped. A third liberty, to compose before
  `load` is done, is left out: `outbox.ts:51` asks for one `load` at boot.
- Storage that throws after a send leaves the entry `sending`, which no drain
  picks up until a restart. `EventuallySent` therefore promises nothing once
  storage has failed.
- A right code sent while its phone is locked counts as a failure and renews the
  lock-out, and so does the failure of a code that came too late, without
  renewing it. After a lock-out the failures are still at the limit, so the next
  wrong code locks again at once.
- `deliver` may fail after the code was used; the audit log then gets a row
  from `active` to `delivery_failed` of a challenge that stays `used`
  (`identity/service.ts:187-203`).

Of what is not modelled:

- `mock.ts:96` says terminal transfers keep their status; after `setBehavior`
  a `getStatus` with a new key resolves the status again (`mock.ts:161`).
- Of two runners of migrations that start together one fails, and a file added
  later under a lower name is applied out of order (`scripts/migrate.ts`).

## 4. Proofs

TLAPS proves the following for all values of the constants that satisfy the
named assumptions, from nothing but those assumptions and the library's theorems.
The assumptions keep the sentinels apart from data (`Null` is no row, no plan, no
bucket, no run), say what is a number (limits, durations, sequence numbers,
amounts in whole minor units), and of accounts that there are finitely many, over which the books sum.
Every one is evaluated by TLC in the runs.

Each component has one inductive invariant, a conjunction of named parts, which
TLC has checked on the instance of its run; the properties of the run follow
from it, or from it and one step.

**Transactions** (`TransactionsProofs`)

- `RequestsInv`: a call between its visits holds a move out of `pending`, and
  that with the constraint on `decline_reason` gives `DeclinesAreFinal`, which is
  not a consequence of the log.
- `TransactionsInv`: a stale advance was declared from a state whose past is in
  the log, and the log only grows, which is why `NoStageIsSkipped` survives states
  that change under the call. `DeclinesStayFinal` and `ApprovedWhileItMoves` are
  about single steps.
- `RoutesInv`: every step of a route is a step of `TransactionsSpec` or none of
  its variables' (`RoutesImplementTransactions`), so everything proved of the
  functions holds of the routes. A call in progress carries the sender or nobody,
  which a commit copies into row and log (`OnlyTheSenderDecides`), and the row is
  always that of an audit row at or after the decision a reply is owed for
  (`AnswersAreOfDecisions`).

- `ApprovalsInv`: whoever has updated the row of a request holds it alone and it
  is as their snapshot has it (`HoldersAreAlone`), so that what they commit is
  what `Transactions` does from that row: `ApprovalsImplementTransactions`. From
  there `RowComesBeforeKey` follows
  because a request whose row may still be approved has no record, and
  `ReturnsAreTrue` because nothing takes a record away.

**Ledger and balances** (`MoneyProofs`, parts one and two)

- `IInv`: the phase of each call says what it has written; what it has written
  is a prefix of its request; a key that is being written is free and has one
  writer; the hash of a row is the hash of its entries; every answer is backed by
  a row; a call past its first attempt sees the winner; every sequence number in
  memory or in the books was drawn once. The properties alone are not inductive:
  that an answer is true needs the hash of rows, that needs the prefix, and
  uniqueness of committed numbers needs that of uncommitted ones. From it
  `AnswersAreBacked`, `RacesAreDecided`, `SeqsUnique`, `PostingsFinal`, and
  `Refinement`: the initial state maps to the initial state of `LedgerSpec` and
  every statement to one of its steps or to none.
- `BooksInv` adds that every entry, uncommitted ones too, has the currency of its
  account, and that finitely many rows are committed. `BooksClose` then counts
  one set of entries twice: by postings, where each block is balanced because its
  request was (`assertBalanced`) and its entries are the request's; and by
  accounts, where the blocks are the balances. Sequence numbers are unique, so
  two postings share no entry. The two sides of the books agree because the
  accounts that are not debit-normal enter with the other sign.
- `SumProofs` has what that takes: `SumFunction` of the community modules exists
  for every finite set, adds up over a partition into blocks, over an image, and
  term by term. The fold it is made of is recursive in the cardinality; as the
  induction theorems cannot be instantiated, each lemma takes a smallest
  counterexample (`Minimal`) and removes an element from it.

**Plans and submissions** (`MoneyProofs`, parts three and four)

- `PlansInv`: a call about to append holds a number no later than the one after
  the last, and the constraint of `0005` refuses a number that is taken, so what
  is stored is exactly the next (`VersionsRunOn`). A creation appends to its own
  plan, which cannot have a version before.
- `SubmissionsInv`: a row holds which requests were approved when it was judged,
  and each row was within its cap by them. That stays true because nothing a
  judgement rests on changes: versions, the categories and the zones of plans,
  the amounts and times of requests that are stored (`JudgementsKeep`). That the
  window the code computes is the month of the property is `WindowIsTheMonth`, by
  quotients. `RecurringStaysWithinCap` adds the judged amount to the sum.

**Amounts** (`MoneyProofs`, part five)

- `AnswersAreComputed`: an answer is what the operation computes of its
  arguments; the theorems are then about `Money`'s operators, for every integer.
- `EachModeRoundsAsNamed`: the code divides magnitudes and repairs the sign
  (`divideRounded`); the property speaks of the whole numbers around the exact
  quotient and of their distances. `AroundAQuotient` and `AroundIs` say that these
  are the truncated quotient and the next one away from zero, for either sign of
  both sides, and `RoundedIs` picks the one each mode picks.
- `PartsAreFair`: each part is cut down, so what is left over, times the total
  weight, is the sum of the remainders, hence less than the total weight times the
  number of parts that were cut (`LeftoverFits`). The order of the parts by
  remainder and place is a bijection onto 1 to n (`RanksFollowTheOrder`), so
  exactly as many parts get a unit as units are left (`FirstOnes`), and each of
  them had been cut.
- `ReadsWhatItWrites`: digits are read from the left, by a recursion, and a power
  of ten is a 1 read on through zeros. `Climb` is the induction both need, on a
  set instead of a predicate. Reading through the padding multiplies by a power
  of ten (`ZerosMultiply`), so what was padded is exact. Of a number rendered, j
  digits read give the number without its other digits (`DigitsAreExact`), and
  all of them the number.

**Receipts** (`ReceiptsProofs`)

- `ReceiptsInv`: an entry that is pending has one owner in its process, a key has
  one call past admission among all processes, and every outcome kept anywhere
  (map, receipt, call) tells what was committed (`Tells`), whole or part. At most
  once, and the truth of 2xx and 4xx, follow. A 4xx given before the admission
  (a key conflict, a body that does not parse) tells nothing and is a value of
  its own, `"rejected"`.
- `SlotsReturn` takes from it that a pending entry has an owner, and counts the
  slots of a process (`ClaimFits`, `SlotsShrink`).

**Outbox, inbound, reconciliation** (`OnceProofs`)

- `OutboxInv` relates memory, disk and the writes on their way: every array there
  is, is in compose order under every app; in a careful app memory is the disk
  once the load is over, only one of enqueue and drain is under way, and what it
  is about to write changes the keys on disk by the one it composed, or by one
  that was acknowledged. `QueueInComposeOrder`, `NothingIsDropped` and
  `SentIsRemovedForGood` follow. `filter`, a recursion over positions, is handled
  by proving that its function exists (`UpToExists`) and what it selects.
- `InboundInv` with `OneAtWork`: of the calls on a message one at most is at
  work, and none when there is a row, so that a commit finds no effects and
  leaves one (`ProcessedOnce`). `HandsOverOnce` is of the route's set in memory.
- `ReconciliationInv`: a run belongs to a call that is between its insert and its
  commit or has committed it, and a call that lost has a committed run of its
  input to find (`RunsAreShared`, `WinnersAreFound`).
- `FindingsInv` adds that rows stay: what a call has read is in the tables, of
  which each only grows and has finitely many rows, so a comparison of it finds at
  any later time what the run found (`CompareStays`). `NothingIsDroppedSilently`
  is then about one comparison: seq order enumerates each side of a reference
  (`SeqOrder`, by how many rows come before each), which gives the number of rows
  left over and that they are the latest, pairs that share no row and do not
  cross, and, when nothing is found, equal sums in each currency over the common
  index.

**Conversation** (`ConversationProofs`)

- `ConversationInv`: the trail of a conversation alternates openings and
  closings, the row is what the last of them left, a reading is of the row at its
  version, and whoever is named in the trail has ended. `QuestionsCloseOnce`,
  `DeadlinesDecide` and `EvidenceIsAnAnswer` follow. A commit of a call whose
  version is stale does not happen, so the row it read is the row it replaces.

**Identity** (`IdentityProofs`)

- `IdentityInv`: a challenge has a session exactly when it is used, the
  generations of the sessions of a phone differ and none is above that of the
  user, and what a call holds is there. The commit compares both of its readings
  with the tables, so what was decided on them is true at that moment: `OneLive`,
  `OpensLive` and `TokensDie`.
- `GuessesInv` adds that the guard of a phone counts at least the wrong codes
  since the last success in its log (`GuardCounts`), and that those are fewer than
  the limit. `GuessesBounded` is about the log, which no code reads; it takes
  that a log has a last success and that one more word adds   one to the count
  or clears it.

**Relationships and invitations** (`RelationshipsProofs`)

- `RelationshipsInv`: `AcceptedInTime` is not inductive by itself, since a resend
  moves `invited_at` under acceptances that are in the history. It takes
  `RowsInv`, that an invitation has a history of resends alone, which holds
  because no declared move leads back to `invited`. `HistoryIsAPath` takes
  `CallsInv`: a call whose row has not been written since its read holds the
  row's status. `InvitationsInv` adds the roles of both sides, for which a request
  between its transactions must already have given the recipient theirs.
- `LimitsInv`: the permitted requests of a window are no more than the hits of
  its bucket (`PermittedAreCounted`), for every kind of bucket and every window,
  so no more pass than the limits (`LimitsAreKept`).

Model-checked only: `EventuallySent` and `EventuallyProcessed`, as every liveness
property. Every invariant and every action property of the passing runs is a
theorem; what the run that ends in a violation denies is not. Three theorems are
about steps that no run checks by themselves: `ApprovedWhileItMoves` (money moves
only while the request is approved), `ReturnsAreTrue` (what `approveAndRecord`
returns is recorded) and `HandsOverOnce`. That the rows of an approval, its
posting and its log agree is a part of `TransactionsInv`.

## 5. Plan

What would add most, in this order:

1. Composition of `Outbox` with `Receipts`: a request composed once is applied
   at most once, and once if it is acknowledged; with a proof that it implements
   both.
2. `SettlementMock`, once a part of the program uses it.

## 6. Not modelled

- The settlement provider is a mock nothing calls yet, and `routeInbound` of the
  conversation a table nothing calls; there is no behavior to compose them with.
- The migrations runner is a script that is run by hand, one pass over a
  directory; the schema it leaves is in the modules of the tables.
- Channels, templates and the server shell hold wiring, wording, headers and
  logs. What `errors.ts` promises of a 503 is discussed with the receipts.
- The screens of the mobile application show sample data and change nothing
  that another part reads.
- Of modelled parts: the delays between retries, the texts of errors, the
  cryptography of codes, tokens and signatures (a value is right or wrong), the
  listing routes, which only read, and `subtract`, `negate` and `equals` of money.
