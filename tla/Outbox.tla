------------------------------- MODULE Outbox -------------------------------
(***************************************************************************)
(* The durable queue of outbound requests of the mobile app                *)
(* (apps/mobile/src/outbox/outbox.ts).  One Outbox object lives in one     *)
(* JavaScript thread; every change of its entries is a new array, computed *)
(* from the one in memory, given to setItem and, when setItem resolves,    *)
(* put in memory.  Between the two, other code runs.                       *)
(*                                                                         *)
(* Enqueues wait for each other and so do drains, but an enqueue and a     *)
(* drain do not.  The app can be killed at any point; an interrupted       *)
(* setItem has written or has not.                                         *)
(*                                                                         *)
(* An entry is its idempotency key, numbered in compose order, and its     *)
(* status: what else it carries is never changed, but for the number of    *)
(* attempts, which nothing reads.                                          *)
(***************************************************************************)
EXTENDS SequencesExt, Naturals

CONSTANTS
  maxEntries,       \* bound: entries composed in a behavior
  maxKills,         \* bound: times the app is killed
  maxFailures,      \* bound: times setItem throws
  Apps              \* the apps considered, each the set of the liberties it takes

ASSUME OutboxAssumption ==
  /\ maxEntries \in Nat
  /\ maxKills \in Nat
  /\ maxFailures \in Nat
  /\ Apps \subseteq SUBSET {"overlaps", "goes on"}

VARIABLES
  app,       \* what uses the outbox: see Overlap and Usable
  entries,   \* this.entries
  disk,      \* the item under storageKey; no item is the empty array
  boot,      \* "off", "loading", "ready", or "failed" when load() threw
  enqueuing, \* the doEnqueue under way: none, or the array it gave to setItem
  draining,  \* the drain under way: its phase, the keys still to send, its array
  promised,  \* keys returned by enqueue
  acked,     \* keys whose send came back ok
  composed,  \* how many keys were generated
  kills, failures

count == <<composed, kills, failures>>
vars  == <<app, entries, disk, boot, enqueuing, draining, promised, acked, count>>

Id     == 1 .. maxEntries
Queued == [id : Id, status : {"pending", "sending"}]
Ids(q) == {q[i].id : i \in DOMAIN q}

\* A random UUID: a key that no request has had.
newIdempotencyKey == composed + 1

NoWrite  == [busy |-> FALSE]
NotDraining == [phase |-> "idle", todo |-> <<>>, next |-> <<>>]
DrainPhase  == {"marking", "sending", "removing", "returning"}

TypeOK ==
  /\ app \in Apps
  /\ entries \in Seq(Queued) /\ disk \in Seq(Queued)
  /\ boot \in {"off", "loading", "ready", "failed"}
  /\ enqueuing \in {NoWrite} \cup [busy : {TRUE}, id : Id, next : Seq(Queued)]
  /\ draining \in {NotDraining}
       \cup [phase : DrainPhase, todo : Seq(Id), next : Seq(Queued)]
  /\ promised \subseteq Id /\ acked \subseteq Id
  /\ composed \in 0 .. maxEntries /\ kills \in 0 .. maxKills /\ failures \in 0 .. maxFailures

Init ==
  /\ app \in Apps
  /\ entries = <<>> /\ disk = <<>> /\ boot = "off"
  /\ enqueuing = NoWrite /\ draining = NotDraining
  /\ promised = {} /\ acked = {}
  /\ composed = 0 /\ kills = 0 /\ failures = 0

\* Storage is full.
setItemThrows ==
  /\ failures < maxFailures
  /\ failures' = failures + 1

\* The class leaves both to its caller: an enqueue while a drain runs, and the
\* reverse; and use of the outbox after load() threw.
Overlap == "overlaps" \in app
Usable  == boot = "ready" \/ (boot = "failed" /\ "goes on" \in app)

(***************************************************************************)
(* load                                                                    *)
(***************************************************************************)

withStatus(q, id, status) ==
  [i \in DOMAIN q |-> IF q[i].id = id THEN [q[i] EXCEPT !.status = status] ELSE q[i]]

\* Array.filter: what q holds at the positions of keep, in its order.
filter(q, keep) ==
  LET upTo[n \in 0 .. Len(q)] ==
        IF n = 0 THEN <<>>
        ELSE IF n \in keep THEN Append(upTo[n - 1], q[n]) ELSE upTo[n - 1]
  IN  upTo[Len(q)]

without(q, id) == filter(q, {i \in DOMAIN q : q[i].id # id})

\* Bug: a restart leaves the entries as the last run left them.
AsLeft(q) == q

\* load() resets what a kill has interrupted.
resetSending(q) == [i \in DOMAIN q |-> [q[i] EXCEPT !.status = "pending"]]

\* The item is read; without one there is nothing to write back.
load ==
  /\ boot = "off"
  /\ boot' = IF disk = <<>> THEN "ready" ELSE "loading"
  /\ UNCHANGED <<app, entries, disk, enqueuing, draining, promised, acked, count>>

loaded ==
  /\ boot = "loading"
  /\ boot' = "ready"
  /\ disk' = resetSending(disk)
  /\ entries' = disk'
  /\ UNCHANGED <<app, enqueuing, draining, promised, acked, count>>

\* setItem throws: this.loaded is already true and the memory still empty.
loadFails ==
  /\ setItemThrows
  /\ boot = "loading"
  /\ boot' = "failed"
  /\ UNCHANGED <<app, entries, disk, enqueuing, draining, promised, acked, composed, kills>>

(***************************************************************************)
(* enqueue                                                                 *)
(***************************************************************************)

\* Bug: the newest request goes first.
EnqueueInFront ==
  /\ Usable /\ enqueuing = NoWrite
  /\ Overlap \/ draining = NotDraining
  /\ composed < maxEntries
  /\ composed' = newIdempotencyKey
  /\ enqueuing' = [busy |-> TRUE, id |-> composed',
                   next |-> <<[id |-> composed', status |-> "pending"]>> \o entries]
  /\ UNCHANGED <<app, entries, disk, boot, draining, promised, acked, kills, failures>>

\* A key is generated and the array with the entry given to setItem.
enqueue ==
  /\ Usable /\ enqueuing = NoWrite
  /\ Overlap \/ draining = NotDraining
  /\ composed < maxEntries
  /\ composed' = newIdempotencyKey
  /\ enqueuing' = [busy |-> TRUE, id |-> composed',
                   next |-> Append(entries, [id |-> composed', status |-> "pending"])]
  /\ UNCHANGED <<app, entries, disk, boot, draining, promised, acked, kills, failures>>

\* setItem resolves; the caller gets the key.
enqueued ==
  /\ enqueuing # NoWrite
  /\ disk' = enqueuing.next /\ entries' = enqueuing.next
  /\ promised' = promised \cup {enqueuing.id}
  /\ enqueuing' = NoWrite
  /\ UNCHANGED <<app, boot, draining, acked, count>>

\* setItem throws: the caller gets the error.
enqueueFails ==
  /\ setItemThrows
  /\ enqueuing # NoWrite
  /\ enqueuing' = NoWrite
  /\ UNCHANGED <<app, entries, disk, boot, draining, promised, acked, composed, kills>>

(***************************************************************************)
(* drain                                                                   *)
(***************************************************************************)

\* The state of a drain that turns to the keys of todo.
Turn(todo, q) ==
  IF todo = <<>> THEN NotDraining
  ELSE [phase |-> "marking", todo |-> todo, next |-> withStatus(q, Head(todo), "sending")]

\* The pending entries are taken down once, and the first one is marked.
drain ==
  /\ Usable /\ draining = NotDraining
  /\ Overlap \/ enqueuing = NoWrite
  /\ LET pending == filter(entries, {i \in DOMAIN entries : entries[i].status = "pending"})
     IN  /\ pending # <<>>
         /\ draining' = Turn([i \in DOMAIN pending |-> pending[i].id], entries)
  /\ UNCHANGED <<app, entries, disk, boot, enqueuing, promised, acked, count>>

\* The entry is on disk as sending: the network call is made.
marked ==
  /\ draining.phase = "marking"
  /\ disk' = draining.next /\ entries' = draining.next
  /\ draining' = [draining EXCEPT !.phase = "sending", !.next = <<>>]
  /\ UNCHANGED <<app, boot, enqueuing, promised, acked, count>>

\* The sender returns ok: the entry is to be removed.
accepted ==
  /\ draining.phase = "sending"
  /\ LET id == Head(draining.todo)
     IN  /\ acked' = acked \cup {id}
         /\ draining' = [draining EXCEPT !.phase = "removing", !.next = without(entries, id)]
  /\ UNCHANGED <<app, entries, disk, boot, enqueuing, promised, count>>

\* Bug: what could not be sent is taken out of the queue.
RefusedIsDropped ==
  /\ draining.phase = "sending"
  /\ draining' = [draining EXCEPT !.phase = "returning",
                                  !.next = without(entries, Head(draining.todo))]
  /\ UNCHANGED <<app, entries, disk, boot, enqueuing, promised, acked, count>>

\* It returns anything else: the entry is to return to pending.
refused ==
  /\ draining.phase = "sending"
  /\ draining' = [draining EXCEPT !.phase = "returning",
                                  !.next = withStatus(entries, Head(draining.todo), "pending")]
  /\ UNCHANGED <<app, entries, disk, boot, enqueuing, promised, acked, count>>

\* Bug: the next entry is marked in the array the drain started from.
SettledFromSnapshot ==
  /\ draining.phase \in {"removing", "returning"}
  /\ disk' = draining.next /\ entries' = draining.next
  /\ draining' = Turn(Tail(draining.todo), entries)
  /\ UNCHANGED <<app, boot, enqueuing, promised, acked, count>>

\* The array is written and the drain turns to the next key.
settled ==
  /\ draining.phase \in {"removing", "returning"}
  /\ disk' = draining.next /\ entries' = draining.next
  /\ draining' = Turn(Tail(draining.todo), entries')
  /\ UNCHANGED <<app, boot, enqueuing, promised, acked, count>>

\* setItem throws: the drain ends with the error.
drainFails ==
  /\ setItemThrows
  /\ draining.phase \in {"marking", "removing", "returning"}
  /\ draining' = NotDraining
  /\ UNCHANGED <<app, entries, disk, boot, enqueuing, promised, acked, composed, kills>>

(***************************************************************************)
(* The environment.                                                        *)
(***************************************************************************)

\* Arrays that are on their way to the disk.
InFlight ==
  (IF enqueuing = NoWrite THEN {} ELSE {enqueuing.next})
    \cup (IF draining.phase \in {"marking", "removing", "returning"} THEN {draining.next} ELSE {})
    \cup (IF boot = "loading" THEN {resetSending(disk)} ELSE {})

\* The app dies; what was on its way to the disk has arrived or has not.
kill ==
  /\ kills < maxKills
  /\ boot # "off"
  /\ kills' = kills + 1
  /\ disk' \in {disk} \cup InFlight
  /\ entries' = <<>> /\ boot' = "off" /\ enqueuing' = NoWrite /\ draining' = NotDraining
  /\ UNCHANGED <<app, promised, acked, composed, failures>>

Next ==
  \/ load \/ loaded \/ loadFails
  \/ enqueue \/ enqueued \/ enqueueFails
  \/ drain \/ marked \/ accepted \/ refused \/ settled \/ drainFails
  \/ kill

Spec == Init /\ [][Next]_vars

\* What an app that uses the outbox owes it: it boots again after a kill, storage
\* answers, a drain is started again and again while entries are pending, and the
\* connection comes back again and again.
FairSpec ==
  /\ Spec
  /\ WF_vars(load) /\ WF_vars(loaded) /\ WF_vars(enqueued)
  /\ SF_vars(drain) /\ WF_vars(marked) /\ SF_vars(accepted) /\ WF_vars(settled)

(***************************************************************************)
(* Properties.                                                             *)
(***************************************************************************)

InOrder(q) == \A i, j \in DOMAIN q : i < j => q[i].id < q[j].id

\* outbox.ts: "The request is never silently dropped, and memory never diverges
\* from disk."  A key that enqueue has returned is on the disk until its send came
\* back ok.
NeverSilentlyDropped == promised \subseteq acked \cup Ids(disk)

\* So it is for an app that neither composes during a drain nor goes on after a
\* load that threw, whatever storage and the operating system do.
KeptByCarefulApp == app = {} => NeverSilentlyDropped

\* The queue keeps compose order and holds a key once, in memory and on disk,
\* whatever overlaps whatever.
InComposeOrder ==
  /\ TypeOK
  /\ InOrder(entries) /\ InOrder(disk)

\* A key that was acknowledged and taken off the disk does not come back, to be
\* sent again.
RemovedForGood ==
  [][app = {} => \A id \in acked : id \notin Ids(disk) => id \notin Ids(disk')]_vars

\* types.ts: "A request composed offline must survive app restart and send when
\* connectivity returns."  Every key that enqueue has returned is acknowledged in
\* the end, whatever kills fall between, if storage has not thrown.
EventuallySent ==
  \A id \in Id : app = {} /\ id \in promised ~> id \in acked \/ failures > 0

(***************************************************************************)
(* The inductive invariant behind the safety properties.                   *)
(***************************************************************************)

\* Every array there is, in memory, on disk or on its way there, is in compose
\* order and holds keys that were generated.
OrderedUpTo(q, n) == InOrder(q) /\ \A id \in Ids(q) : id <= n

ArraysInOrder ==
  /\ OrderedUpTo(entries, composed) /\ OrderedUpTo(disk, composed)
  /\ OrderedUpTo(draining.next, composed)
  /\ enqueuing # NoWrite => OrderedUpTo(enqueuing.next, composed)

\* So are the keys a drain has still to send and those it has sent; only a drain
\* that is under way has keys to send.
KeysAreComposed ==
  /\ \A id \in acked : id <= composed
  /\ \A i \in DOMAIN draining.todo : draining.todo[i] <= composed
  /\ draining # NotDraining => draining.todo # <<>>

\* In a careful app, memory is empty until load() is done and then what is on
\* disk; only then is anything on its way there, of an enqueue or of a drain.
MemoryIsTheDisk ==
  /\ entries = IF boot = "ready" THEN disk ELSE <<>>
  /\ boot # "ready" => enqueuing = NoWrite /\ draining = NotDraining
  /\ enqueuing = NoWrite \/ draining = NotDraining

\* What is on its way changes the keys on disk by the new one, or by one that was
\* acknowledged, or not at all.
InFlightChangesOneKey ==
  /\ enqueuing # NoWrite =>
       /\ Ids(enqueuing.next) = Ids(disk) \cup {enqueuing.id}
       /\ enqueuing.id \notin acked
  /\ draining.phase \in {"marking", "returning"} => Ids(draining.next) = Ids(disk)
  /\ draining.phase = "removing" =>
       /\ Ids(draining.next) = Ids(disk) \ {Head(draining.todo)}
       /\ Head(draining.todo) \in acked

OutboxInv ==
  /\ TypeOK
  /\ ArraysInOrder
  /\ KeysAreComposed
  /\ app = {} => MemoryIsTheDisk /\ InFlightChangesOneKey /\ NeverSilentlyDropped
=============================================================================
