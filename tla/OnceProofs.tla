----------------------------- MODULE OnceProofs -----------------------------
(***************************************************************************)
(* What is proved of the three parts in which something that is said again *)
(* must be done once: the mobile outbox, which repeats a request until it  *)
(* is answered (Outbox), the messages of a provider that repeats them      *)
(* until they are acknowledged (Inbound), and reconciliations of one input *)
(* (Reconciliation).  For every number of entries, kills and failures,     *)
(* every set of apps, messages, deliveries and calls.                      *)
(***************************************************************************)
EXTENDS Outbox, Inbound, Reconciliation, SumProofs, WellFoundedInduction, TLAPS

(***************************************************************************)
(* PART ONE.  OUTBOX                                                       *)
(***************************************************************************)

(***************************************************************************)
(* Array.filter.  Its definition is recursive: what holds of every prefix  *)
(* is proved by looking at the shortest prefix it would not hold of.       *)
(***************************************************************************)

\* A set of naturals that is not empty has a least element.
LEMMA Least ==
  ASSUME NEW T, T \subseteq Nat, T # {}
  PROVE  \E n \in T : \A m \in T : n <= m
<1>1. IsWellFoundedOn(OpToRel(<, Nat), Nat)
  BY NatLessThanWellFounded
<1>2. PICK n \in T : \A m \in T : ~ (<<m, n>> \in OpToRel(<, Nat))
  BY <1>1, WFMin, Zenon
<1>3. \A m \in T : ~ (m < n)
  BY <1>2 DEF OpToRel
<1> QED
  BY <1>3

\* f is what upTo is, as far as n.
IsUpTo(f, q, keep, n) ==
  f = [m \in 0 .. n |->
         IF m = 0 THEN <<>>
         ELSE IF m \in keep THEN Append(f[m - 1], q[m]) ELSE f[m - 1]]

LEMMA UpToExists ==
  ASSUME NEW q, NEW keep
  PROVE  \A n \in Nat : \E f : IsUpTo(f, q, keep, n)
<1> DEFINE T == {n \in Nat : ~ \E f : IsUpTo(f, q, keep, n)}
<1> SUFFICES ASSUME T # {} PROVE FALSE
  OBVIOUS
<1>1. PICK n \in T : \A m \in T : n <= m
  BY Least
<1>2. ASSUME n = 0 PROVE FALSE
  <2> DEFINE f == [m \in 0 .. 0 |-> <<>>]
  <2>1. IsUpTo(f, q, keep, 0)
    BY DEF IsUpTo
  <2> QED BY <2>1, <1>2
<1>3. n \in Nat /\ n - 1 \in Nat /\ n - 1 \notin T
  BY <1>1, <1>2
<1>4. PICK f : IsUpTo(f, q, keep, n - 1)
  BY <1>3
<1> DEFINE last == IF n \in keep THEN Append(f[n - 1], q[n]) ELSE f[n - 1]
           g == [m \in 0 .. n |-> IF m = n THEN last ELSE f[m]]
<1>5. \A m \in 0 .. (n - 1) : g[m] = f[m] /\ m \in 0 .. n
  BY <1>3
<1>6. g[n] = last
  BY <1>3
<1>7. \A m \in 0 .. (n - 1) :
        f[m] = IF m = 0 THEN <<>>
               ELSE IF m \in keep THEN Append(f[m - 1], q[m]) ELSE f[m - 1]
  BY <1>4 DEF IsUpTo
<1> HIDE DEF g
<1>8. ASSUME NEW m \in 0 .. n
      PROVE  g[m] = IF m = 0 THEN <<>>
                    ELSE IF m \in keep THEN Append(g[m - 1], q[m]) ELSE g[m - 1]
  <2>1. CASE m = n
    <3>1. m # 0 /\ g[m - 1] = f[m - 1]
      BY <2>1, <1>2, <1>3, <1>5
    <3> QED BY <2>1, <3>1, <1>6
  <2>2. CASE m # n /\ m = 0
    BY <2>2, <1>3, <1>5, <1>7
  <2>3. CASE m # n /\ m # 0
    <3>1. m \in 0 .. (n - 1) /\ m - 1 \in 0 .. (n - 1)
      BY <2>3, <1>3
    <3> QED BY <2>3, <3>1, <1>5, <1>7
  <2> QED BY <2>1, <2>2, <2>3
<1>9. IsUpTo(g, q, keep, n)
  BY <1>8 DEF IsUpTo, g
<1> QED
  BY <1>1, <1>9

\* r holds what the first n elements of q hold at the positions of keep: at names
\* the position in q of every element of r.
Selects(at, r, q, keep, n) ==
  /\ at \in [DOMAIN r -> keep \cap (1 .. n)]
  /\ \A i \in DOMAIN r : r[i] = q[at[i]]
  /\ \A i, j \in DOMAIN r : i < j => at[i] < at[j]
  /\ \A k \in keep \cap (1 .. n) : \E i \in DOMAIN r : at[i] = k

LEMMA SelectsOneMore ==
  ASSUME NEW S, NEW q \in Seq(S), NEW keep, NEW n \in 1 .. Len(q), NEW r \in Seq(S),
         NEW at, Selects(at, r, q, keep, n - 1), n \in keep
  PROVE  \E b : Selects(b, Append(r, q[n]), q, keep, n)
<1> DEFINE s == Append(r, q[n])
           b == [i \in DOMAIN s |-> IF i = Len(s) THEN n ELSE at[i]]
<1>1. /\ s \in Seq(S) /\ Len(s) = Len(r) + 1 /\ s[Len(s)] = q[n]
      /\ \A i \in DOMAIN r : s[i] = r[i] /\ i \in DOMAIN s /\ i < Len(s)
      /\ \A i \in DOMAIN s : i # Len(s) => i \in DOMAIN r
      /\ Len(s) \in DOMAIN s
  OBVIOUS
<1>2. /\ DOMAIN b = DOMAIN s /\ b[Len(s)] = n
      /\ \A i \in DOMAIN r : b[i] = at[i] /\ at[i] \in keep \cap (1 .. (n - 1))
  BY <1>1 DEF Selects
<1> HIDE DEF s, b
<1>3. b \in [DOMAIN s -> keep \cap (1 .. n)]
  <2>1. \A i \in DOMAIN s : b[i] \in keep \cap (1 .. n)
    BY <1>1, <1>2
  <2>2. b = [i \in DOMAIN s |-> b[i]]
    BY <1>2 DEF b
  <2> QED BY <2>1, <2>2
<1>4. \A i \in DOMAIN s : s[i] = q[b[i]]
  BY <1>1, <1>2 DEF Selects
<1>5. ASSUME NEW i \in DOMAIN s, NEW j \in DOMAIN s, i < j PROVE b[i] < b[j]
  <2>1. i \in DOMAIN r /\ i \in Nat /\ j \in Nat
    BY <1>1, <1>5
  <2>2. CASE j = Len(s)
    BY <2>1, <2>2, <1>2
  <2>3. CASE j # Len(s)
    BY <2>1, <2>3, <1>1, <1>2, <1>5 DEF Selects
  <2> QED BY <2>2, <2>3
<1>6. ASSUME NEW k \in keep \cap (1 .. n) PROVE \E i \in DOMAIN s : b[i] = k
  <2>1. CASE k = n
    BY <2>1, <1>1, <1>2
  <2>2. CASE k # n
    <3>1. k \in keep \cap (1 .. (n - 1))
      BY <2>2
    <3>2. PICK i \in DOMAIN r : at[i] = k
      BY <3>1 DEF Selects
    <3> QED BY <3>2, <1>1, <1>2
  <2> QED BY <2>1, <2>2
<1>7. Selects(b, s, q, keep, n)
  BY <1>3, <1>4, <1>5, <1>6 DEF Selects
<1> QED
  BY <1>7 DEF s

\* What filter keeps is what q holds at those positions, each once, in its order.
LEMMA FilterSelects ==
  ASSUME NEW S, NEW q \in Seq(S), NEW keep
  PROVE  /\ filter(q, keep) \in Seq(S)
         /\ \E at : Selects(at, filter(q, keep), q, keep, Len(q))
<1> DEFINE upTo == CHOOSE f : IsUpTo(f, q, keep, Len(q))
<1>1. IsUpTo(upTo, q, keep, Len(q))
  BY UpToExists
<1>2. filter(q, keep) = upTo[Len(q)]
  BY DEF filter, IsUpTo
<1> HIDE DEF upTo
<1>3. \A m \in 0 .. Len(q) :
        upTo[m] = IF m = 0 THEN <<>>
                  ELSE IF m \in keep THEN Append(upTo[m - 1], q[m]) ELSE upTo[m - 1]
  BY <1>1 DEF IsUpTo
<1> DEFINE OK(n) == upTo[n] \in Seq(S) /\ \E at : Selects(at, upTo[n], q, keep, n)
           T == {n \in 0 .. Len(q) : ~ OK(n)}
<1>4. T = {}
  <2> SUFFICES ASSUME T # {} PROVE FALSE
    OBVIOUS
  <2>1. PICK n \in T : \A m \in T : n <= m
    <3>1. T \subseteq Nat
      OBVIOUS
    <3> QED BY <3>1, Least
  <2>7. OK(0)
    <3>1. upTo[0] = <<>> /\ <<>> \in Seq(S)
      BY <1>3
    <3>2. Selects(<<>>, <<>>, q, keep, 0)
      <4>1. <<>> \in [DOMAIN <<>> -> keep \cap (1 .. 0)]
        OBVIOUS
      <4> QED BY <4>1 DEF Selects
    <3> QED BY <3>1, <3>2
  <2>2. n \in 0 .. Len(q) /\ ~ OK(n)
    BY <2>1
  <2>8. n # 0
    BY <2>2, <2>7
  <2>9. n \in 1 .. Len(q) /\ n - 1 \in 0 .. Len(q) /\ ~ (n <= n - 1)
    BY <2>2, <2>8
  <2>3. n \in 1 .. Len(q) /\ n \in 0 .. Len(q) /\ n # 0 /\ OK(n - 1)
    <3> HIDE DEF OK
    <3> QED BY <2>1, <2>9, <2>8, <2>2
  <2>4. PICK at : upTo[n - 1] \in Seq(S) /\ Selects(at, upTo[n - 1], q, keep, n - 1)
    BY <2>3
  <2>5. CASE n \in keep
    <3>1. upTo[n] = Append(upTo[n - 1], q[n])
      BY <2>3, <2>5, <1>3
    <3>2. \E b : Selects(b, Append(upTo[n - 1], q[n]), q, keep, n)
      BY <2>3, <2>4, <2>5, SelectsOneMore
    <3>3. upTo[n] \in Seq(S)
      BY <3>1, <2>3, <2>4
    <3> QED BY <3>1, <3>2, <3>3, <2>2
  <2>6. CASE n \notin keep
    <3>1. upTo[n] = upTo[n - 1]
      BY <2>3, <2>6, <1>3
    <3>2. keep \cap (1 .. n) = keep \cap (1 .. (n - 1))
      BY <2>3, <2>6
    <3>3. Selects(at, upTo[n], q, keep, n)
      BY <3>1, <3>2, <2>4 DEF Selects
    <3> QED BY <3>1, <3>3, <2>4, <2>2
  <2> QED BY <2>5, <2>6
<1>5. Len(q) \in 0 .. Len(q)
  OBVIOUS
<1> QED
  BY <1>2, <1>4, <1>5

(***************************************************************************)
(* What the operations on arrays do to keys and to their order.            *)
(***************************************************************************)

LEMMA KeysAreNumbers == Id \subseteq Nat \ {0} /\ \A n \in Nat : n < maxEntries => n + 1 \in Id
<1>1. maxEntries \in Nat
  BY OutboxAssumption, Zenon
<1> QED
  BY <1>1 DEF Id

LEMMA SameKeys ==
  ASSUME NEW q \in Seq(Queued), NEW s \in Seq(Queued), DOMAIN s = DOMAIN q,
         \A i \in DOMAIN q : s[i].id = q[i].id
  PROVE  /\ Ids(s) = Ids(q)
         /\ \A n : OrderedUpTo(q, n) => OrderedUpTo(s, n)
<1>1. Ids(s) = Ids(q)
  BY DEF Ids
<1>2. InOrder(q) => InOrder(s)
  BY DEF InOrder
<1> QED
  BY <1>1, <1>2 DEF OrderedUpTo

LEMMA Remapped ==
  ASSUME NEW S, NEW q \in Seq(S), NEW s, s = [i \in DOMAIN q |-> s[i]],
         NEW R, \A i \in DOMAIN q : s[i] \in R
  PROVE  s \in Seq(R) /\ DOMAIN s = DOMAIN q
<1>1. DOMAIN q = 1 .. Len(q) /\ Len(q) \in Nat
  OBVIOUS
<1> QED
  BY <1>1

LEMMA WithStatusKeepsKeys ==
  ASSUME NEW q \in Seq(Queued), NEW key, NEW st \in {"pending", "sending"}
  PROVE  /\ withStatus(q, key, st) \in Seq(Queued)
         /\ Ids(withStatus(q, key, st)) = Ids(q)
         /\ \A n : OrderedUpTo(q, n) => OrderedUpTo(withStatus(q, key, st), n)
<1> DEFINE s == withStatus(q, key, st)
<1>1. s = [i \in DOMAIN q |-> s[i]]
  BY DEF withStatus
<1>2. \A i \in DOMAIN q : s[i] \in Queued /\ s[i].id = q[i].id
  <2> TAKE i \in DOMAIN q
  <2>1. q[i] \in Queued
    OBVIOUS
  <2>2. s[i] = IF q[i].id = key THEN [q[i] EXCEPT !.status = st] ELSE q[i]
    BY DEF withStatus
  <2> QED BY <2>1, <2>2 DEF Queued
<1>3. s \in Seq(Queued) /\ DOMAIN s = DOMAIN q
  <2> HIDE DEF s
  <2> QED BY <1>1, <1>2, Remapped
<1> HIDE DEF s
<1>4. Ids(s) = Ids(q) /\ \A n : OrderedUpTo(q, n) => OrderedUpTo(s, n)
  BY <1>2, <1>3, SameKeys
<1> QED
  BY <1>3, <1>4 DEF s

LEMMA ResetKeepsKeys ==
  ASSUME NEW q \in Seq(Queued)
  PROVE  /\ resetSending(q) \in Seq(Queued)
         /\ Ids(resetSending(q)) = Ids(q)
         /\ \A n : OrderedUpTo(q, n) => OrderedUpTo(resetSending(q), n)
<1> DEFINE s == resetSending(q)
<1>1. s = [i \in DOMAIN q |-> s[i]]
  BY DEF resetSending
<1>2. \A i \in DOMAIN q : s[i] \in Queued /\ s[i].id = q[i].id
  <2> TAKE i \in DOMAIN q
  <2>1. q[i] \in Queued
    OBVIOUS
  <2>2. s[i] = [q[i] EXCEPT !.status = "pending"]
    BY DEF resetSending
  <2> QED BY <2>1, <2>2 DEF Queued
<1>3. s \in Seq(Queued) /\ DOMAIN s = DOMAIN q
  <2> HIDE DEF s
  <2> QED BY <1>1, <1>2, Remapped
<1> HIDE DEF s
<1>4. Ids(s) = Ids(q) /\ \A n : OrderedUpTo(q, n) => OrderedUpTo(s, n)
  BY <1>2, <1>3, SameKeys
<1> QED
  BY <1>3, <1>4 DEF s

LEMMA FilterKeepsOrder ==
  ASSUME NEW q \in Seq(Queued), NEW keep
  PROVE  /\ filter(q, keep) \in Seq(Queued)
         /\ Ids(filter(q, keep)) = {q[i].id : i \in keep \cap DOMAIN q}
         /\ \A n : OrderedUpTo(q, n) => OrderedUpTo(filter(q, keep), n)
<1> DEFINE r == filter(q, keep)
<1>1. r \in Seq(Queued) /\ \E at : Selects(at, r, q, keep, Len(q))
  BY FilterSelects
<1>2. PICK at : Selects(at, r, q, keep, Len(q))
  BY <1>1
<1>3. DOMAIN q = 1 .. Len(q)
  OBVIOUS
<1> HIDE DEF r
<1>4. Ids(r) = {q[i].id : i \in keep \cap DOMAIN q}
  BY <1>2, <1>3 DEF Selects, Ids
<1>5. InOrder(q) => InOrder(r)
  BY <1>2, <1>3 DEF Selects, InOrder
<1>6. Ids(r) \subseteq Ids(q)
  BY <1>4 DEF Ids
<1>7. \A n : OrderedUpTo(q, n) => OrderedUpTo(r, n)
  BY <1>5, <1>6 DEF OrderedUpTo
<1> QED
  BY <1>1, <1>4, <1>7 DEF r

LEMMA WithoutDropsTheKey ==
  ASSUME NEW q \in Seq(Queued), NEW key
  PROVE  /\ without(q, key) \in Seq(Queued)
         /\ Ids(without(q, key)) = Ids(q) \ {key}
         /\ \A n : OrderedUpTo(q, n) => OrderedUpTo(without(q, key), n)
<1> DEFINE keep == {i \in DOMAIN q : q[i].id # key}
<1>1. without(q, key) = filter(q, keep)
  BY DEF without
<1>2. {q[i].id : i \in keep \cap DOMAIN q} = Ids(q) \ {key}
  BY DEF Ids
<1> HIDE DEF keep
<1> QED
  BY <1>1, <1>2, FilterKeepsOrder

LEMMA AppendComposes ==
  ASSUME NEW q \in Seq(Queued), NEW n \in Nat, OrderedUpTo(q, n), n + 1 \in Id
  PROVE  LET s == Append(q, [id |-> n + 1, status |-> "pending"])
         IN  s \in Seq(Queued) /\ Ids(s) = Ids(q) \cup {n + 1} /\ OrderedUpTo(s, n + 1)
<1> DEFINE e == [id |-> n + 1, status |-> "pending"]
           s == Append(q, e)
<1>1. e \in Queued /\ e.id = n + 1
  BY DEF Queued
<1> HIDE DEF e
<1>2. /\ s \in Seq(Queued) /\ Len(s) = Len(q) + 1 /\ s[Len(q) + 1] = e
      /\ DOMAIN q = 1 .. Len(q) /\ DOMAIN s = DOMAIN q \cup {Len(q) + 1} /\ Len(q) \in Nat
      /\ \A i \in DOMAIN q : s[i] = q[i] /\ i < Len(q) + 1
  BY <1>1
<1> HIDE DEF s
<1>3. Ids(s) = Ids(q) \cup {n + 1}
  BY <1>1, <1>2 DEF Ids
<1>4. \A i \in DOMAIN q : q[i].id \in Nat /\ q[i].id <= n
  <2> TAKE i \in DOMAIN q
  <2>1. q[i] \in Queued
    OBVIOUS
  <2>2. q[i].id \in Ids(q)
    BY DEF Ids
  <2>3. q[i].id \in Id
    BY <2>1 DEF Queued
  <2>4. q[i].id \in Nat
    BY <2>3, KeysAreNumbers
  <2> QED BY <2>2, <2>4 DEF OrderedUpTo
<1>5. ASSUME NEW i \in DOMAIN s, NEW j \in DOMAIN s, i < j PROVE s[i].id < s[j].id
  <2>1. i \in DOMAIN q
    BY <1>2, <1>5
  <2>2. CASE j = Len(q) + 1
    BY <2>1, <2>2, <1>1, <1>2, <1>4
  <2>3. CASE j \in DOMAIN q
    BY <2>1, <2>3, <1>2, <1>5 DEF OrderedUpTo, InOrder
  <2> QED BY <2>2, <2>3, <1>2
<1>6. \A id \in Ids(s) : id <= n + 1
  <2>1. \A id \in Ids(q) : id \in Nat /\ id <= n
    BY <1>4 DEF Ids
  <2> QED BY <1>3, <2>1
<1>7. OrderedUpTo(s, n + 1)
  BY <1>5, <1>6 DEF OrderedUpTo, InOrder
<1> QED
  BY <1>2, <1>3, <1>7 DEF s, e

(***************************************************************************)
(* The inductive invariant.                                                *)
(***************************************************************************)

LEMMA Bounds == maxEntries \in Nat /\ maxKills \in Nat /\ maxFailures \in Nat
BY OutboxAssumption, Zenon

Drain == {NotDraining} \cup [phase : DrainPhase, todo : Seq(Id), next : Seq(Queued)]

LEMMA EmptyInOrder ==
  /\ \A n : OrderedUpTo(<<>>, n)
  /\ Ids(<<>>) = {}
  /\ <<>> \in Seq(Queued) /\ <<>> \in Seq(Id)
BY DEF OrderedUpTo, InOrder, Ids

LEMMA IdleDrain ==
  /\ NotDraining \in Drain
  /\ NotDraining.phase = "idle" /\ NotDraining.todo = <<>> /\ NotDraining.next = <<>>
BY DEF NotDraining, Drain

LEMMA BusyDrain ==
  ASSUME NEW d \in Drain, d.phase # "idle"
  PROVE  /\ d \in [phase : DrainPhase, todo : Seq(Id), next : Seq(Queued)]
         /\ d # NotDraining /\ d.todo \in Seq(Id) /\ d.next \in Seq(Queued)
BY IdleDrain DEF Drain

LEMMA DrainParts ==
  ASSUME NEW d \in Drain
  PROVE  /\ d.todo \in Seq(Id) /\ d.next \in Seq(Queued)
         /\ d = NotDraining \/ d.phase \in DrainPhase
BY IdleDrain, EmptyInOrder DEF Drain

LEMMA TurnMarks ==
  ASSUME NEW todo \in Seq(Id), NEW q \in Seq(Queued)
  PROVE  /\ Turn(todo, q) \in Drain
         /\ Turn(todo, q) = NotDraining
            \/ /\ Turn(todo, q).phase = "marking"
               /\ Turn(todo, q).todo = todo /\ todo # <<>>
               /\ Ids(Turn(todo, q).next) = Ids(q)
         /\ \A n : OrderedUpTo(q, n) => OrderedUpTo(Turn(todo, q).next, n)
<1>1. CASE todo = <<>>
  BY <1>1, IdleDrain, EmptyInOrder DEF Turn
<1>2. CASE todo # <<>>
  <2> DEFINE s == withStatus(q, Head(todo), "sending")
  <2>1. /\ s \in Seq(Queued) /\ Ids(s) = Ids(q)
        /\ \A n : OrderedUpTo(q, n) => OrderedUpTo(s, n)
    BY WithStatusKeepsKeys
  <2>2. Turn(todo, q) = [phase |-> "marking", todo |-> todo, next |-> s]
    BY <1>2 DEF Turn
  <2> HIDE DEF s
  <2> QED BY <2>1, <2>2, <1>2 DEF Drain, DrainPhase
<1> QED BY <1>1, <1>2

LEMMA InitOutboxInv == Init => OutboxInv
<1> SUFFICES ASSUME Init PROVE OutboxInv
  OBVIOUS
<1>1. TypeOK
  BY Bounds, EmptyInOrder, IdleDrain DEF Init, TypeOK, NoWrite
<1>2. ArraysInOrder
  BY EmptyInOrder, IdleDrain DEF Init, ArraysInOrder
<1>3. KeysAreComposed
  BY IdleDrain DEF Init, KeysAreComposed
<1>4. MemoryIsTheDisk /\ InFlightChangesOneKey /\ NeverSilentlyDropped
  BY IdleDrain DEF Init, MemoryIsTheDisk, InFlightChangesOneKey, NeverSilentlyDropped
<1> QED BY <1>1, <1>2, <1>3, <1>4 DEF OutboxInv

\* What the actions need of the invariant, one part at a time.
LEMMA Typed ==
  ASSUME TypeOK
  PROVE  /\ entries \in Seq(Queued) /\ disk \in Seq(Queued)
         /\ draining \in Drain
         /\ draining.todo \in Seq(Id) /\ draining.next \in Seq(Queued)
         /\ draining = NotDraining \/ draining.phase \in DrainPhase
         /\ enqueuing # NoWrite => enqueuing \in [busy : {TRUE}, id : Id, next : Seq(Queued)]
         /\ composed \in Nat /\ composed \in 0 .. maxEntries
         /\ promised \subseteq Id /\ acked \subseteq Id
         /\ app \in Apps /\ kills \in 0 .. maxKills /\ failures \in 0 .. maxFailures
<1>1. draining \in Drain
  BY DEF TypeOK, Drain
<1>2. /\ draining.todo \in Seq(Id) /\ draining.next \in Seq(Queued)
      /\ draining = NotDraining \/ draining.phase \in DrainPhase
  BY <1>1, DrainParts
<1>3. composed \in 0 .. maxEntries /\ kills \in 0 .. maxKills /\ failures \in 0 .. maxFailures
  BY DEF TypeOK
<1>4. composed \in Nat
  BY <1>3, Bounds
<1>5. enqueuing # NoWrite => enqueuing \in [busy : {TRUE}, id : Id, next : Seq(Queued)]
  BY DEF TypeOK
<1>6. /\ entries \in Seq(Queued) /\ disk \in Seq(Queued) /\ app \in Apps
      /\ promised \subseteq Id /\ acked \subseteq Id
  BY DEF TypeOK
<1> QED
  BY <1>1, <1>2, <1>3, <1>4, <1>5, <1>6

LEMMA LoadKeeps ==
  ASSUME OutboxInv, load \/ loaded \/ loadFails
  PROVE  OutboxInv'
<1>1. TypeOK
  BY DEF OutboxInv
<1>2. disk \in Seq(Queued)
  BY <1>1, Typed
<1> DEFINE fresh == resetSending(disk)
<1>3. /\ fresh \in Seq(Queued) /\ Ids(fresh) = Ids(disk)
      /\ OrderedUpTo(disk, composed) => OrderedUpTo(fresh, composed)
  BY <1>2, ResetKeepsKeys
<1>4. CASE load
  <2>1. TypeOK'
    BY <1>1, <1>4 DEF load, TypeOK, count
  <2>2. ArraysInOrder' /\ KeysAreComposed'
    BY <1>4 DEF load, count, OutboxInv, ArraysInOrder, KeysAreComposed
  <2>3. app = {} => MemoryIsTheDisk' /\ InFlightChangesOneKey' /\ NeverSilentlyDropped'
    BY <1>4 DEF load, count, OutboxInv, MemoryIsTheDisk, InFlightChangesOneKey, NeverSilentlyDropped
  <2> QED BY <2>1, <2>2, <2>3, <1>4 DEF OutboxInv, load
<1>5. CASE loaded
  <2>1. disk' = fresh /\ entries' = fresh /\ boot = "loading" /\ boot' = "ready"
    BY <1>5 DEF loaded
  <2>2. /\ UNCHANGED <<app, enqueuing, draining, promised, acked, composed, kills, failures>>
    BY <1>5 DEF loaded, count
  <2> HIDE DEF fresh
  <2>3. TypeOK'
    BY <1>1, <1>3, <2>1, <2>2 DEF TypeOK
  <2>4. ArraysInOrder' /\ KeysAreComposed'
    BY <1>3, <2>1, <2>2 DEF OutboxInv, ArraysInOrder, KeysAreComposed
  <2>5. app = {} => MemoryIsTheDisk' /\ InFlightChangesOneKey' /\ NeverSilentlyDropped'
    BY <1>3, <2>1, <2>2, IdleDrain DEF OutboxInv, MemoryIsTheDisk, InFlightChangesOneKey, NeverSilentlyDropped
  <2> QED BY <2>2, <2>3, <2>4, <2>5 DEF OutboxInv
<1>6. CASE loadFails
  <2>1. failures' \in 0 .. maxFailures
    BY <1>1, <1>6, Typed, Bounds DEF loadFails, setItemThrows
  <2>2. /\ boot = "loading" /\ boot' = "failed"
        /\ UNCHANGED <<app, entries, disk, enqueuing, draining, promised, acked, composed, kills>>
    BY <1>6 DEF loadFails
  <2>3. TypeOK'
    BY <1>1, <2>1, <2>2 DEF TypeOK
  <2>4. ArraysInOrder' /\ KeysAreComposed'
    BY <2>2 DEF OutboxInv, ArraysInOrder, KeysAreComposed
  <2>5. app = {} => MemoryIsTheDisk' /\ InFlightChangesOneKey' /\ NeverSilentlyDropped'
    BY <2>2 DEF OutboxInv, MemoryIsTheDisk, InFlightChangesOneKey, NeverSilentlyDropped
  <2> QED BY <2>2, <2>3, <2>4, <2>5 DEF OutboxInv
<1> QED BY <1>4, <1>5, <1>6

LEMMA EnqueueKeeps ==
  ASSUME OutboxInv, enqueue
  PROVE  OutboxInv'
<1>1. TypeOK /\ composed \in Nat /\ entries \in Seq(Queued) /\ acked \subseteq Id
      /\ OrderedUpTo(entries, composed)
  BY Typed DEF OutboxInv, ArraysInOrder
<1> DEFINE id == composed + 1
           next == Append(entries, [id |-> id, status |-> "pending"])
<1>2. composed < maxEntries /\ composed' = id /\ enqueuing' = [busy |-> TRUE, id |-> id, next |-> next]
      /\ enqueuing = NoWrite
  BY DEF enqueue, newIdempotencyKey
<1>3. UNCHANGED <<app, entries, disk, boot, draining, promised, acked, kills, failures>>
  BY DEF enqueue
<1>4. id \in Id /\ id \in 0 .. maxEntries
  BY <1>1, <1>2, KeysAreNumbers, Bounds
<1>5. next \in Seq(Queued) /\ Ids(next) = Ids(entries) \cup {id} /\ OrderedUpTo(next, id)
  BY <1>1, <1>4, AppendComposes
<1>6. \A q : OrderedUpTo(q, composed) /\ Ids(q) \subseteq Id => OrderedUpTo(q, id)
  <2>1. \A k \in Id : k <= composed => k <= id
    BY <1>1, KeysAreNumbers
  <2> HIDE DEF id
  <2> QED BY <2>1 DEF OrderedUpTo
<1>7. \A q \in Seq(Queued) : Ids(q) \subseteq Id
  <2> SUFFICES ASSUME NEW q \in Seq(Queued), NEW i \in DOMAIN q PROVE q[i].id \in Id
    BY DEF Ids
  <2>1. q[i] \in Queued
    OBVIOUS
  <2> QED BY <2>1 DEF Queued
<1> HIDE DEF id, next
<1>8. enqueuing' \in [busy : {TRUE}, id : Id, next : Seq(Queued)] /\ enqueuing' # NoWrite
      /\ enqueuing'.id = id /\ enqueuing'.next = next
  BY <1>2, <1>4, <1>5 DEF NoWrite
<1>9. TypeOK'
  BY <1>1, <1>2, <1>3, <1>4, <1>8 DEF TypeOK
<1>10. ArraysInOrder'
  <2>1. draining.next \in Seq(Queued) /\ disk \in Seq(Queued)
    BY <1>1, Typed
  <2> QED BY <2>1, <1>1, <1>2, <1>3, <1>5, <1>6, <1>7, <1>8 DEF OutboxInv, ArraysInOrder
<1>11. KeysAreComposed'
  <2>1. \A k \in Id : k <= composed => k <= composed'
    BY <1>1, <1>2, KeysAreNumbers DEF id
  <2>2. draining.todo \in Seq(Id)
    BY <1>1, Typed
  <2>3. \A i \in DOMAIN draining.todo : draining.todo[i] \in Id
    BY <2>2
  <2> QED BY <2>1, <2>3, <1>1, <1>3 DEF OutboxInv, KeysAreComposed
<1>12. ASSUME app = {} PROVE MemoryIsTheDisk' /\ InFlightChangesOneKey' /\ NeverSilentlyDropped'
  <2>1. boot = "ready" /\ draining = NotDraining
    BY <1>12 DEF enqueue, Usable, Overlap
  <2>2. entries = disk
    BY <1>12, <2>1 DEF OutboxInv, MemoryIsTheDisk
  <2>3. id \notin acked
    <3>1. \A k \in acked : k \in Nat /\ k <= composed
      BY <1>1, KeysAreNumbers DEF OutboxInv, KeysAreComposed
    <3> QED BY <3>1, <1>1 DEF id
  <2>4. MemoryIsTheDisk'
    BY <2>1, <2>2, <1>3 DEF MemoryIsTheDisk
  <2>5. InFlightChangesOneKey'
    BY <2>1, <2>2, <2>3, <1>3, <1>5, <1>8, IdleDrain DEF InFlightChangesOneKey
  <2>6. NeverSilentlyDropped'
    BY <1>12, <1>3 DEF OutboxInv, NeverSilentlyDropped
  <2> QED BY <2>4, <2>5, <2>6
<1> QED BY <1>3, <1>9, <1>10, <1>11, <1>12 DEF OutboxInv

LEMMA EnqueueEnds ==
  ASSUME OutboxInv, enqueued \/ enqueueFails
  PROVE  OutboxInv'
<1>1. TypeOK /\ enqueuing # NoWrite
  BY DEF OutboxInv, enqueued, enqueueFails
<1>2. enqueuing.id \in Id /\ enqueuing.next \in Seq(Queued)
  BY <1>1, Typed
<1>3. CASE enqueued
  <2>1. /\ disk' = enqueuing.next /\ entries' = enqueuing.next
        /\ promised' = promised \cup {enqueuing.id} /\ enqueuing' = NoWrite
        /\ UNCHANGED <<app, boot, draining, acked, composed, kills, failures>>
    BY <1>3 DEF enqueued, count
  <2>2. TypeOK'
    BY <1>1, <1>2, <2>1 DEF TypeOK
  <2>3. ArraysInOrder' /\ KeysAreComposed'
    BY <1>1, <2>1 DEF OutboxInv, ArraysInOrder, KeysAreComposed
  <2>4. ASSUME app = {} PROVE MemoryIsTheDisk' /\ InFlightChangesOneKey' /\ NeverSilentlyDropped'
    <3>1. boot = "ready" /\ draining = NotDraining
      BY <1>1, <2>4 DEF OutboxInv, MemoryIsTheDisk
    <3>2. Ids(enqueuing.next) = Ids(disk) \cup {enqueuing.id}
      BY <1>1, <2>4 DEF OutboxInv, InFlightChangesOneKey
    <3> QED BY <2>1, <2>4, <3>1, <3>2, IdleDrain
            DEF OutboxInv, MemoryIsTheDisk, InFlightChangesOneKey, NeverSilentlyDropped
  <2> QED BY <2>1, <2>2, <2>3, <2>4 DEF OutboxInv
<1>4. CASE enqueueFails
  <2>1. /\ enqueuing' = NoWrite
        /\ UNCHANGED <<app, entries, disk, boot, draining, promised, acked, composed, kills>>
    BY <1>4 DEF enqueueFails
  <2>2. failures' \in 0 .. maxFailures
    BY <1>1, <1>4, Typed, Bounds DEF enqueueFails, setItemThrows
  <2>3. TypeOK'
    BY <1>1, <2>1, <2>2 DEF TypeOK
  <2>4. ArraysInOrder' /\ KeysAreComposed'
    BY <2>1 DEF OutboxInv, ArraysInOrder, KeysAreComposed
  <2>5. app = {} => MemoryIsTheDisk' /\ InFlightChangesOneKey' /\ NeverSilentlyDropped'
    BY <2>1 DEF OutboxInv, MemoryIsTheDisk, InFlightChangesOneKey, NeverSilentlyDropped
  <2> QED BY <2>1, <2>3, <2>4, <2>5 DEF OutboxInv
<1> QED BY <1>3, <1>4

LEMMA DrainKeeps ==
  ASSUME OutboxInv, drain
  PROVE  OutboxInv'
<1>1. TypeOK /\ entries \in Seq(Queued)
  BY Typed DEF OutboxInv
<1> DEFINE pending == filter(entries, {i \in DOMAIN entries : entries[i].status = "pending"})
           todo == [i \in DOMAIN pending |-> pending[i].id]
<1>2. /\ draining' = Turn(todo, entries) /\ draining = NotDraining
      /\ UNCHANGED <<app, entries, disk, boot, enqueuing, promised, acked, composed, kills, failures>>
  BY DEF drain, count
<1>3. /\ pending \in Seq(Queued) /\ OrderedUpTo(pending, composed)
  BY <1>1, FilterKeepsOrder DEF OutboxInv, ArraysInOrder
<1> HIDE DEF pending
<1>4. todo \in Seq(Id)
  <2>1. \A i \in DOMAIN pending : todo[i] \in Id
    <3> TAKE i \in DOMAIN pending
    <3>1. pending[i] \in Queued
      BY <1>3
    <3> QED BY <3>1 DEF Queued
  <2>2. todo = [i \in DOMAIN pending |-> todo[i]]
    OBVIOUS
  <2> HIDE DEF todo
  <2> QED BY <1>3, <2>1, <2>2, Remapped
<1>5. \A i \in DOMAIN todo : todo[i] <= composed
  BY <1>3 DEF OrderedUpTo, Ids
<1> HIDE DEF todo
<1>6. /\ draining' \in Drain
      /\ draining' = NotDraining
         \/ /\ draining'.phase = "marking"
            /\ draining'.todo = todo /\ todo # <<>>
            /\ Ids(draining'.next) = Ids(entries)
      /\ OrderedUpTo(entries, composed) => OrderedUpTo(draining'.next, composed)
  BY <1>1, <1>2, <1>4, TurnMarks
<1>7. TypeOK'
  BY <1>1, <1>2, <1>6 DEF TypeOK, Drain
<1>8. ArraysInOrder'
  BY <1>2, <1>6 DEF OutboxInv, ArraysInOrder
<1>9. KeysAreComposed'
  BY <1>2, <1>5, <1>6, IdleDrain DEF OutboxInv, KeysAreComposed
<1>10. ASSUME app = {} PROVE MemoryIsTheDisk' /\ InFlightChangesOneKey' /\ NeverSilentlyDropped'
  <2>1. boot = "ready" /\ enqueuing = NoWrite
    BY <1>10 DEF drain, Usable, Overlap
  <2>2. entries = disk
    BY <1>10, <2>1 DEF OutboxInv, MemoryIsTheDisk
  <2> QED BY <1>2, <1>6, <1>10, <2>1, <2>2, IdleDrain
          DEF OutboxInv, MemoryIsTheDisk, InFlightChangesOneKey, NeverSilentlyDropped
<1> QED BY <1>2, <1>7, <1>8, <1>9, <1>10 DEF OutboxInv

LEMMA MarkedKeeps ==
  ASSUME OutboxInv, marked
  PROVE  OutboxInv'
<1>1. TypeOK /\ draining \in Drain /\ draining.phase = "marking"
  BY Typed DEF OutboxInv, marked
<1>2. /\ draining \in [phase : DrainPhase, todo : Seq(Id), next : Seq(Queued)]
      /\ draining # NotDraining /\ draining.todo \in Seq(Id) /\ draining.next \in Seq(Queued)
  BY <1>1, BusyDrain
<1>3. /\ disk' = draining.next /\ entries' = draining.next
      /\ UNCHANGED <<app, boot, enqueuing, promised, acked, composed, kills, failures>>
      /\ draining' = [draining EXCEPT !.phase = "sending", !.next = <<>>]
  BY DEF marked, count
<1>4. /\ draining' \in Drain
      /\ draining'.phase = "sending" /\ draining'.todo = draining.todo /\ draining'.next = <<>>
  BY <1>2, <1>3, EmptyInOrder DEF Drain, DrainPhase
<1>5. TypeOK'
  BY <1>1, <1>2, <1>3, <1>4 DEF TypeOK, Drain
<1>6. ArraysInOrder'
  BY <1>3, <1>4, EmptyInOrder DEF OutboxInv, ArraysInOrder
<1>7. KeysAreComposed'
  BY <1>2, <1>3, <1>4 DEF OutboxInv, KeysAreComposed
<1>8. ASSUME app = {} PROVE MemoryIsTheDisk' /\ InFlightChangesOneKey' /\ NeverSilentlyDropped'
  <2>1. boot = "ready" /\ enqueuing = NoWrite
    BY <1>2, <1>8 DEF OutboxInv, MemoryIsTheDisk
  <2>2. Ids(draining.next) = Ids(disk)
    BY <1>1, <1>8 DEF OutboxInv, InFlightChangesOneKey
  <2> QED BY <1>3, <1>4, <1>8, <2>1, <2>2
          DEF OutboxInv, MemoryIsTheDisk, InFlightChangesOneKey, NeverSilentlyDropped
<1> QED BY <1>3, <1>5, <1>6, <1>7, <1>8 DEF OutboxInv

LEMMA AnswerKeeps ==
  ASSUME OutboxInv, accepted \/ refused
  PROVE  OutboxInv'
<1>1. TypeOK /\ draining \in Drain /\ draining.phase = "sending" /\ entries \in Seq(Queued)
      /\ acked \subseteq Id
  BY Typed DEF OutboxInv, accepted, refused
<1>2. /\ draining \in [phase : DrainPhase, todo : Seq(Id), next : Seq(Queued)]
      /\ draining # NotDraining /\ draining.todo \in Seq(Id) /\ draining.next \in Seq(Queued)
  BY <1>1, BusyDrain
<1> DEFINE id == Head(draining.todo)
<1>3. draining.todo # <<>> /\ id \in Id /\ id <= composed
  <2>1. draining.todo # <<>>
    BY <1>2 DEF OutboxInv, KeysAreComposed
  <2>2. 1 \in DOMAIN draining.todo /\ id = draining.todo[1] /\ id \in Id
    BY <1>2, <2>1
  <2> QED BY <2>1, <2>2 DEF OutboxInv, KeysAreComposed
<1>4. UNCHANGED <<app, entries, disk, boot, enqueuing, promised, composed, kills, failures>>
  BY DEF accepted, refused, count
<1>5. ASSUME app = {} PROVE entries = disk /\ boot = "ready" /\ enqueuing = NoWrite
  BY <1>2, <1>5 DEF OutboxInv, MemoryIsTheDisk
<1>6. CASE accepted
  <2> DEFINE next == without(entries, id)
  <2>1. /\ acked' = acked \cup {id}
        /\ draining' = [draining EXCEPT !.phase = "removing", !.next = next]
    BY <1>6 DEF accepted
  <2>2. /\ next \in Seq(Queued) /\ Ids(next) = Ids(entries) \ {id}
        /\ OrderedUpTo(entries, composed) => OrderedUpTo(next, composed)
    BY <1>1, WithoutDropsTheKey
  <2> HIDE DEF id, next
  <2>3. /\ draining' \in Drain
        /\ draining'.phase = "removing" /\ draining'.todo = draining.todo /\ draining'.next = next
    BY <1>2, <2>1, <2>2 DEF Drain, DrainPhase
  <2>4. TypeOK'
    BY <1>1, <1>3, <1>4, <2>1, <2>3 DEF TypeOK, Drain
  <2>5. ArraysInOrder'
    BY <1>4, <2>2, <2>3 DEF OutboxInv, ArraysInOrder
  <2>6. KeysAreComposed'
    BY <1>3, <1>4, <2>1, <2>3 DEF OutboxInv, KeysAreComposed
  <2>7. ASSUME app = {} PROVE MemoryIsTheDisk' /\ InFlightChangesOneKey' /\ NeverSilentlyDropped'
    <3>1. InFlightChangesOneKey'
      BY <1>4, <1>5, <2>1, <2>2, <2>3, <2>7 DEF InFlightChangesOneKey, id
    <3> QED BY <1>4, <1>5, <2>1, <2>7, <3>1 DEF OutboxInv, MemoryIsTheDisk, NeverSilentlyDropped
  <2> QED BY <1>4, <2>4, <2>5, <2>6, <2>7 DEF OutboxInv
<1>7. CASE refused
  <2> DEFINE next == withStatus(entries, id, "pending")
  <2>1. /\ acked' = acked
        /\ draining' = [draining EXCEPT !.phase = "returning", !.next = next]
    BY <1>7 DEF refused, count
  <2>2. /\ next \in Seq(Queued) /\ Ids(next) = Ids(entries)
        /\ OrderedUpTo(entries, composed) => OrderedUpTo(next, composed)
    BY <1>1, WithStatusKeepsKeys
  <2> HIDE DEF id, next
  <2>3. /\ draining' \in Drain
        /\ draining'.phase = "returning" /\ draining'.todo = draining.todo /\ draining'.next = next
    BY <1>2, <2>1, <2>2 DEF Drain, DrainPhase
  <2>4. TypeOK'
    BY <1>1, <1>4, <2>1, <2>3 DEF TypeOK, Drain
  <2>5. ArraysInOrder'
    BY <1>4, <2>2, <2>3 DEF OutboxInv, ArraysInOrder
  <2>6. KeysAreComposed'
    BY <1>3, <1>4, <2>1, <2>3 DEF OutboxInv, KeysAreComposed
  <2>7. ASSUME app = {} PROVE MemoryIsTheDisk' /\ InFlightChangesOneKey' /\ NeverSilentlyDropped'
    <3>1. InFlightChangesOneKey'
      BY <1>4, <1>5, <2>1, <2>2, <2>3, <2>7 DEF InFlightChangesOneKey
    <3> QED BY <1>4, <1>5, <2>1, <2>7, <3>1 DEF OutboxInv, MemoryIsTheDisk, NeverSilentlyDropped
  <2> QED BY <1>4, <2>4, <2>5, <2>6, <2>7 DEF OutboxInv
<1> QED BY <1>6, <1>7

LEMMA SettledKeeps ==
  ASSUME OutboxInv, settled
  PROVE  OutboxInv'
<1>1. TypeOK /\ draining \in Drain /\ draining.phase \in {"removing", "returning"}
  BY Typed DEF OutboxInv, settled
<1>2. /\ draining \in [phase : DrainPhase, todo : Seq(Id), next : Seq(Queued)]
      /\ draining # NotDraining /\ draining.todo \in Seq(Id) /\ draining.next \in Seq(Queued)
  BY <1>1, BusyDrain
<1> DEFINE rest == Tail(draining.todo)
<1>3. /\ disk' = draining.next /\ entries' = draining.next
      /\ draining' = Turn(rest, draining.next)
      /\ UNCHANGED <<app, boot, enqueuing, promised, acked, composed, kills, failures>>
  BY DEF settled, count
<1>4. rest \in Seq(Id) /\ \A i \in DOMAIN rest : rest[i] <= composed
  <2>1. draining.todo # <<>>
    BY <1>2 DEF OutboxInv, KeysAreComposed
  <2>2. rest \in Seq(Id) /\ \A i \in DOMAIN rest : i + 1 \in DOMAIN draining.todo
                                               /\ rest[i] = draining.todo[i + 1]
    BY <1>2, <2>1
  <2> QED BY <2>2 DEF OutboxInv, KeysAreComposed
<1> HIDE DEF rest
<1>5. /\ draining' \in Drain
      /\ draining' = NotDraining
         \/ /\ draining'.phase = "marking"
            /\ draining'.todo = rest /\ rest # <<>>
            /\ Ids(draining'.next) = Ids(draining.next)
      /\ OrderedUpTo(draining.next, composed) => OrderedUpTo(draining'.next, composed)
  BY <1>2, <1>3, <1>4, TurnMarks
<1>6. TypeOK'
  BY <1>1, <1>2, <1>3, <1>5 DEF TypeOK, Drain
<1>7. ArraysInOrder'
  BY <1>3, <1>5 DEF OutboxInv, ArraysInOrder
<1>8. KeysAreComposed'
  BY <1>3, <1>4, <1>5, IdleDrain DEF OutboxInv, KeysAreComposed
<1>9. ASSUME app = {} PROVE MemoryIsTheDisk' /\ InFlightChangesOneKey' /\ NeverSilentlyDropped'
  <2>1. boot = "ready" /\ enqueuing = NoWrite
    BY <1>2, <1>9 DEF OutboxInv, MemoryIsTheDisk
  <2>2. MemoryIsTheDisk' /\ InFlightChangesOneKey'
    BY <1>3, <1>5, <2>1, IdleDrain DEF MemoryIsTheDisk, InFlightChangesOneKey
  <2>3. Ids(disk) \subseteq Ids(draining.next) \cup acked
    BY <1>1, <1>9 DEF OutboxInv, InFlightChangesOneKey
  <2> QED BY <1>3, <1>9, <2>2, <2>3 DEF OutboxInv, NeverSilentlyDropped
<1> QED BY <1>3, <1>6, <1>7, <1>8, <1>9 DEF OutboxInv

LEMMA DrainFailsKeeps ==
  ASSUME OutboxInv, drainFails
  PROVE  OutboxInv'
<1>1. TypeOK
  BY DEF OutboxInv
<1>2. /\ draining' = NotDraining
      /\ UNCHANGED <<app, entries, disk, boot, enqueuing, promised, acked, composed, kills>>
  BY DEF drainFails
<1>3. failures' \in 0 .. maxFailures
  BY <1>1, Typed, Bounds DEF drainFails, setItemThrows
<1>4. TypeOK'
  BY <1>1, <1>2, <1>3 DEF TypeOK
<1>5. ArraysInOrder' /\ KeysAreComposed'
  BY <1>2, IdleDrain, EmptyInOrder DEF OutboxInv, ArraysInOrder, KeysAreComposed
<1>6. app = {} => MemoryIsTheDisk' /\ InFlightChangesOneKey' /\ NeverSilentlyDropped'
  BY <1>2, IdleDrain DEF OutboxInv, MemoryIsTheDisk, InFlightChangesOneKey, NeverSilentlyDropped
<1> QED BY <1>2, <1>4, <1>5, <1>6 DEF OutboxInv

LEMMA KillKeeps ==
  ASSUME OutboxInv, kill
  PROVE  OutboxInv'
<1>1. TypeOK /\ disk \in Seq(Queued) /\ draining.next \in Seq(Queued)
      /\ (enqueuing # NoWrite => enqueuing.next \in Seq(Queued))
  BY Typed DEF OutboxInv
<1>2. /\ entries' = <<>> /\ boot' = "off" /\ enqueuing' = NoWrite /\ draining' = NotDraining
      /\ UNCHANGED <<app, promised, acked, composed, failures>>
  BY DEF kill
<1>3. kills' \in 0 .. maxKills
  BY <1>1, Typed, Bounds DEF kill
<1>4. \/ disk' = disk
      \/ disk' = resetSending(disk)
      \/ enqueuing # NoWrite /\ disk' = enqueuing.next
      \/ draining.phase \in {"marking", "removing", "returning"} /\ disk' = draining.next
  BY DEF kill, InFlight
<1>5. /\ resetSending(disk) \in Seq(Queued) /\ Ids(resetSending(disk)) = Ids(disk)
      /\ OrderedUpTo(disk, composed) => OrderedUpTo(resetSending(disk), composed)
  BY <1>1, ResetKeepsKeys
<1>6. TypeOK'
  <2>1. disk' \in Seq(Queued)
    BY <1>1, <1>4, <1>5
  <2> QED BY <1>1, <1>2, <1>3, <2>1, EmptyInOrder DEF TypeOK
<1>7. ArraysInOrder' /\ KeysAreComposed'
  BY <1>2, <1>4, <1>5, IdleDrain, EmptyInOrder DEF OutboxInv, ArraysInOrder, KeysAreComposed
<1>8. ASSUME app = {} PROVE MemoryIsTheDisk' /\ InFlightChangesOneKey' /\ NeverSilentlyDropped'
  <2>1. MemoryIsTheDisk' /\ InFlightChangesOneKey'
    BY <1>2, IdleDrain DEF MemoryIsTheDisk, InFlightChangesOneKey
  <2>2. Ids(disk) \subseteq Ids(disk') \cup acked
    BY <1>4, <1>5, <1>8 DEF OutboxInv, InFlightChangesOneKey
  <2> QED BY <1>2, <1>8, <2>1, <2>2 DEF OutboxInv, NeverSilentlyDropped
<1> QED BY <1>2, <1>6, <1>7, <1>8 DEF OutboxInv

LEMMA StepKeepsOutboxInv == OutboxInv /\ [Next]_vars => OutboxInv'
<1> SUFFICES ASSUME OutboxInv, [Next]_vars PROVE OutboxInv'
  OBVIOUS
<1>1. CASE load \/ loaded \/ loadFails
  BY <1>1, LoadKeeps
<1>2. CASE enqueue
  BY <1>2, EnqueueKeeps
<1>3. CASE enqueued \/ enqueueFails
  BY <1>3, EnqueueEnds
<1>4. CASE drain
  BY <1>4, DrainKeeps
<1>5. CASE marked
  BY <1>5, MarkedKeeps
<1>6. CASE accepted \/ refused
  BY <1>6, AnswerKeeps
<1>7. CASE settled
  BY <1>7, SettledKeeps
<1>8. CASE drainFails
  BY <1>8, DrainFailsKeeps
<1>9. CASE kill
  BY <1>9, KillKeeps
<1>10. CASE UNCHANGED vars
  <2>1. TypeOK'
    BY <1>10 DEF OutboxInv, TypeOK, vars, count
  <2>2. ArraysInOrder' /\ KeysAreComposed'
    BY <1>10 DEF OutboxInv, ArraysInOrder, KeysAreComposed, vars, count
  <2>3. app = {} => MemoryIsTheDisk' /\ InFlightChangesOneKey' /\ NeverSilentlyDropped'
    BY <1>10 DEF OutboxInv, MemoryIsTheDisk, InFlightChangesOneKey, NeverSilentlyDropped, vars, count
  <2> QED BY <1>10, <2>1, <2>2, <2>3 DEF OutboxInv, vars
<1> QED
  BY <1>1, <1>2, <1>3, <1>4, <1>5, <1>6, <1>7, <1>8, <1>9, <1>10 DEF Next

\* The inductive invariant, whatever the app does: every array in memory, on disk
\* or on its way there is in compose order; and in a careful app memory agrees with
\* the disk and what is in flight changes one key.
THEOREM OutboxInvariance == Spec => []OutboxInv
BY InitOutboxInv, StepKeepsOutboxInv, PTL DEF Spec

(***************************************************************************)
(* What follows.                                                           *)
(***************************************************************************)

\* The queue keeps compose order and holds a key once, in memory and on disk, even
\* when enqueues and drains overwrite each other's arrays (outbox.ts doEnqueue,
\* drain, updateEntry, removeEntry).
THEOREM QueueInComposeOrder == Spec => []InComposeOrder
<1>1. OutboxInv => InComposeOrder
  BY DEF OutboxInv, InComposeOrder, ArraysInOrder, OrderedUpTo
<1> QED
  BY <1>1, OutboxInvariance, PTL

\* outbox.ts "The request is never silently dropped": with an app that neither
\* composes during a drain nor goes on after a load that threw, whatever kills and
\* failures of the storage there are.
THEOREM NothingIsDropped == Spec => []KeptByCarefulApp
<1>1. OutboxInv => KeptByCarefulApp
  BY DEF OutboxInv, KeptByCarefulApp
<1> QED
  BY <1>1, OutboxInvariance, PTL

LEMMA StepRemovesForGood ==
  ASSUME OutboxInv, [Next]_vars, app = {}, NEW id \in acked, id \notin Ids(disk)
  PROVE  id \notin Ids(disk')
<1>1. TypeOK /\ disk \in Seq(Queued) /\ MemoryIsTheDisk /\ InFlightChangesOneKey
      /\ (draining = NotDraining \/ draining.phase \in DrainPhase)
  BY Typed DEF OutboxInv
<1>2. Ids(resetSending(disk)) = Ids(disk)
  BY <1>1, ResetKeepsKeys
<1>3. CASE loaded
  BY <1>2, <1>3 DEF loaded
<1>4. CASE enqueued
  BY <1>1, <1>4 DEF enqueued, InFlightChangesOneKey
<1>5. CASE marked
  BY <1>1, <1>5 DEF marked, InFlightChangesOneKey
<1>6. CASE settled
  BY <1>1, <1>6 DEF settled, InFlightChangesOneKey
<1>7. CASE kill
  BY <1>1, <1>2, <1>7 DEF kill, InFlight, InFlightChangesOneKey
<1>8. CASE \/ load \/ loadFails \/ enqueue \/ enqueueFails
           \/ drain \/ accepted \/ refused \/ drainFails \/ UNCHANGED vars
  BY <1>8 DEF load, loadFails, enqueue, enqueueFails, drain, accepted, refused, drainFails, vars
<1> QED
  BY <1>3, <1>4, <1>5, <1>6, <1>7, <1>8 DEF Next

\* A request that was sent and taken off the disk does not come back to be sent
\* again, not even by the array of an enqueue that a kill cut short.
THEOREM SentIsRemovedForGood == Spec => RemovedForGood
<1>1. OutboxInv /\ [Next]_vars
      => [app = {} => \A id \in acked : id \notin Ids(disk) => id \notin Ids(disk')]_vars
  BY StepRemovesForGood
<1> QED
  BY <1>1, OutboxInvariance, PTL DEF Spec, RemovedForGood

(***************************************************************************)
(* PART TWO.  INBOUND                                                      *)
(*                                                                         *)
(* The safety of the mark in memory and of the durable claim.  That every  *)
(* message is processed in the end is left to TLC.                         *)
(***************************************************************************)

\* Inductive: with it, who is at work on a message is the only one who will
\* add to its effects.
InboundInv ==
  /\ InboundTypeOK
  /\ ExactlyOnce
  /\ OneAtWork
  /\ HandedOverOnce

LEMMA InitInboundInv == InboundInit => InboundInv
<1> SUFFICES ASSUME InboundInit PROVE InboundInv
  OBVIOUS
<1>1. /\ request \in [Request -> RequestRecord] /\ \A r \in Request : request[r].phase = "idle"
      /\ claim \in [Claim -> ClaimRecord] /\ \A c \in Claim : claim[c].phase = "idle"
  BY DEF InboundInit, RequestRecord, ClaimRecord
<1>2. InboundTypeOK
  BY <1>1 DEF InboundInit, InboundTypeOK
<1>3. ExactlyOnce /\ OneAtWork /\ HandedOverOnce
  BY <1>1, InboundAssumption DEF InboundInit, ExactlyOnce, OneAtWork, HandedOverOnce, At
<1> QED
  BY <1>2, <1>3 DEF InboundInv

(***************************************************************************)
(* The route.                                                              *)
(***************************************************************************)

\* A step of the route owes nothing to the claims.
LEMMA RouteStepKeeps ==
  ASSUME InboundInv, UNCHANGED claimVars, seen' \subseteq Message,
         handedOver' \in [Message -> Nat], request' \in [Request -> RequestRecord],
         HandedOverOnce'
  PROVE  InboundInv'
BY DEF InboundInv, claimVars, InboundTypeOK, ExactlyOnce, OneAtWork, At

\* A delivery that is answered: what it is told of a duplicate is true.
LEMMA RouteAnswers ==
  ASSUME InboundInv, UNCHANGED <<seen, handedOver>>, UNCHANGED claimVars,
         NEW r \in Request, NEW k \in RequestRecord, request' = [request EXCEPT ![r] = k],
         k.phase = "200 deduped" => handedOver[k.message] = 1
  PROVE  InboundInv'
<1>1. request' \in [Request -> RequestRecord] /\ seen' \subseteq Message
      /\ handedOver' \in [Message -> Nat]
  BY DEF InboundInv, InboundTypeOK
<1>2. request'[r] = k /\ \A d \in Request \ {r} : request'[d] = request[d]
  BY DEF InboundInv, InboundTypeOK
<1>3. HandedOverOnce'
  BY <1>2 DEF InboundInv, HandedOverOnce
<1> QED
  BY <1>1, <1>3, RouteStepKeeps

LEMMA RefuseKeeps ==
  ASSUME InboundInv, NEW r \in Request, NEW m \in Message, refuse(r, m)
  PROVE  InboundInv'
<1>1. PICK answer \in {"401", "400"} :
        request' = [request EXCEPT ![r] = [phase |-> answer, message |-> m]]
  BY DEF refuse
<1>2. [phase |-> answer, message |-> m] \in RequestRecord /\ answer # "200 deduped"
  BY DEF RequestRecord, Answer
<1> QED
  BY <1>1, <1>2, RouteAnswers DEF refuse

LEMMA IgnoreKeeps ==
  ASSUME InboundInv, NEW r \in Request, NEW m \in Message, ignore(r, m)
  PROVE  InboundInv'
<1>1. [phase |-> "200 deduped", message |-> m] \in RequestRecord
  BY DEF RequestRecord, Answer
<1>2. handedOver[m] = 1
  BY DEF ignore, duplicate, InboundInv, HandedOverOnce
<1> QED
  BY <1>1, <1>2, RouteAnswers DEF ignore

LEMMA HandledKeeps ==
  ASSUME InboundInv, NEW r \in Request, handled(r)
  PROVE  InboundInv'
<1>1. PICK answer \in {"202", "200", "500"} : request' = [request EXCEPT ![r].phase = answer]
  BY DEF handled
<1>2. request[r] \in RequestRecord
  BY DEF InboundInv, InboundTypeOK
<1>3. PICK k : k = [request[r] EXCEPT !.phase = answer]
  OBVIOUS
<1>4. k \in RequestRecord /\ k.phase # "200 deduped" /\ request' = [request EXCEPT ![r] = k]
  BY <1>1, <1>2, <1>3 DEF RequestRecord, Answer
<1> QED
  BY <1>4, RouteAnswers DEF handled

\* The one step that hands a message over finds it unmarked, and marks it.
LEMMA ReceiveKeeps ==
  ASSUME InboundInv, NEW r \in Request, NEW m \in Message, receive(r, m)
  PROVE  InboundInv'
<1> DEFINE k == [phase |-> "handling", message |-> m]
<1>1. /\ seen' = seenAfter(m) /\ ~ duplicate(m) /\ UNCHANGED claimVars
      /\ handedOver' = [handedOver EXCEPT ![m] = IF m \in Replied THEN @ + 1 ELSE @]
      /\ request' = [request EXCEPT ![r] = k]
  BY DEF receive
<1>2. k \in RequestRecord /\ k.phase = "handling"
  BY DEF RequestRecord
<1> HIDE DEF k
<1>3. /\ request' \in [Request -> RequestRecord] /\ seen' \subseteq Message
      /\ handedOver' \in [Message -> Nat]
      /\ \A x \in Message \ {m} : handedOver'[x] = handedOver[x]
      /\ handedOver'[m] = IF m \in Replied THEN handedOver[m] + 1 ELSE handedOver[m]
      /\ request'[r] = k /\ \A d \in Request \ {r} : request'[d] = request[d]
  BY <1>1, <1>2, InboundAssumption DEF InboundInv, InboundTypeOK, seenAfter
<1>4. \A x \in Replied : handedOver'[x] = IF x \in seen' THEN 1 ELSE 0
  <2>1. \A x \in Replied : handedOver[x] = IF x \in seen THEN 1 ELSE 0
    BY DEF InboundInv, HandedOverOnce
  <2>2. m \in Replied => m \notin seen /\ seen' = seen \cup {m}
    BY <1>1 DEF seenAfter, duplicate
  <2>3. m \notin Replied => seen' = seen
    BY <1>1 DEF seenAfter
  <2>4. \A x \in Replied : x # m => (x \in seen' <=> x \in seen) /\ handedOver'[x] = handedOver[x]
    BY <1>3, <2>2, <2>3, InboundAssumption
  <2>5. m \in Replied => m \in seen' /\ handedOver'[m] = 1
    BY <1>3, <2>1, <2>2
  <2> QED BY <2>1, <2>4, <2>5
<1>5. ASSUME NEW d \in Request, request'[d].phase = "200 deduped"
      PROVE  handedOver'[request'[d].message] = 1
  <2>1. d # r /\ request'[d] = request[d] /\ handedOver[request[d].message] = 1
    BY <1>2, <1>3, <1>5 DEF InboundInv, HandedOverOnce
  <2>2. request[d].message \in Message
    BY DEF InboundInv, InboundTypeOK, RequestRecord
  <2>3. CASE request[d].message # m
    BY <1>3, <2>1, <2>2, <2>3
  <2>4. CASE request[d].message = m
    <3>1. m \notin Replied
      <4>1. m \in Replied => handedOver[m] = 0
        BY <1>1 DEF duplicate, InboundInv, HandedOverOnce
      <4> QED BY <2>1, <2>4, <4>1
    <3> QED BY <1>3, <2>1, <2>4, <3>1
  <2> QED BY <2>3, <2>4
<1> QED
  BY <1>1, <1>3, <1>4, <1>5, RouteStepKeeps DEF HandedOverOnce

LEMMA RestartKeeps ==
  ASSUME InboundInv, restart
  PROVE  InboundInv'
<1>1. /\ request' \in [Request -> RequestRecord]
      /\ \A r \in Request : request'[r].phase = "idle"
  BY DEF restart, InboundInv, InboundTypeOK, RequestRecord
<1>2. /\ claim' \in [Claim -> ClaimRecord]
      /\ \A c \in Claim : claim'[c].phase = "idle"
  BY DEF restart, InboundInv, InboundTypeOK, ClaimRecord
<1>3. InboundTypeOK'
  BY <1>1, <1>2 DEF restart, InboundInv, InboundTypeOK
<1>4. ExactlyOnce' /\ OneAtWork' /\ HandedOverOnce'
  BY <1>1, <1>2, InboundAssumption
     DEF restart, InboundInv, ExactlyOnce, OneAtWork, HandedOverOnce, At
<1> QED
  BY <1>3, <1>4 DEF InboundInv

(***************************************************************************)
(* The claim.                                                              *)
(***************************************************************************)

\* A step of a call that commits nothing: it is told of a duplicate only where
\* there is a row, and starts to work only where nobody else does.
LEMMA ClaimMoves ==
  ASSUME InboundInv, UNCHANGED <<channel_inbound_message, effects>>, UNCHANGED routeVars,
         NEW c \in Claim, NEW k \in ClaimRecord, claim' = [claim EXCEPT ![c] = k],
         k.phase \in {"processed", "deduped"} => k.message \in channel_inbound_message,
         k.phase = "working" =>
           /\ k.message \notin channel_inbound_message
           /\ \A d \in Claim \ {c} : ~ (At(d, "working") /\ claim[d].message = k.message)
  PROVE  InboundInv'
<1>1. /\ claim' \in [Claim -> ClaimRecord] /\ claim'[c] = k
      /\ \A d \in Claim \ {c} : claim'[d] = claim[d]
  BY DEF InboundInv, InboundTypeOK
<1>2. InboundTypeOK'
  BY <1>1 DEF InboundInv, InboundTypeOK, routeVars
<1>3. k.message \in Replied
  BY DEF ClaimRecord
<1>4. ExactlyOnce'
  BY <1>1, <1>3 DEF InboundInv, ExactlyOnce
<1>5. OneAtWork'
  BY <1>1 DEF InboundInv, OneAtWork, At
<1>6. HandedOverOnce'
  BY DEF InboundInv, HandedOverOnce, routeVars
<1> QED
  BY <1>2, <1>4, <1>5, <1>6 DEF InboundInv

\* A call that changes its phase alone.
LEMMA PhaseMoves ==
  ASSUME InboundInv, UNCHANGED <<channel_inbound_message, effects>>, UNCHANGED routeVars,
         NEW c \in Claim, NEW phase \in {"begun", "waiting", "working", "deduped", "failed"},
         claim' = [claim EXCEPT ![c].phase = phase],
         phase = "deduped" => claim[c].message \in channel_inbound_message,
         phase = "working" => /\ claim[c].message \notin channel_inbound_message
                              /\ ~ Held(claim[c].message)
  PROVE  InboundInv'
<1>1. claim[c] \in ClaimRecord
  BY DEF InboundInv, InboundTypeOK
<1>2. PICK k : k = [claim[c] EXCEPT !.phase = phase]
  OBVIOUS
<1>3. k \in ClaimRecord /\ k.phase = phase /\ k.message = claim[c].message
  BY <1>1, <1>2 DEF ClaimRecord
<1>4. claim' = [claim EXCEPT ![c] = k]
  BY <1>2
<1> QED
  <2>1. k.phase = "deduped" => k.message \in channel_inbound_message
    BY <1>3
  <2>2. k.phase # "processed"
    BY <1>3
  <2>3. k.phase = "working" =>
          /\ k.message \notin channel_inbound_message
          /\ \A d \in Claim \ {c} : ~ (At(d, "working") /\ claim[d].message = k.message)
    BY <1>3 DEF Held
  <2> QED BY <1>3, <1>4, <2>1, <2>2, <2>3, ClaimMoves

LEMMA BeginKeeps ==
  ASSUME InboundInv, NEW c \in Claim, NEW m \in Replied, begin(c, m)
  PROVE  InboundInv'
<1>1. [phase |-> "begun", message |-> m] \in ClaimRecord
  BY DEF ClaimRecord
<1> QED
  BY <1>1, ClaimMoves DEF begin

LEMMA ClaimKeeps ==
  ASSUME InboundInv, NEW c \in Claim, claimInboundMessage(c)
  PROVE  InboundInv'
<1> DEFINE m == claim[c].message
           next == CASE m \in channel_inbound_message -> "deduped"
                     [] Held(m)                       -> "waiting"
                     [] OTHER                         -> "working"
<1>1. PICK phase : phase = next
  OBVIOUS
<1>2. /\ phase \in {"deduped", "waiting", "working"}
      /\ phase = "deduped" => m \in channel_inbound_message
      /\ phase = "working" => m \notin channel_inbound_message /\ ~ Held(m)
  BY <1>1
<1>3. claim' = [claim EXCEPT ![c].phase = phase]
  BY <1>1 DEF claimInboundMessage
<1> QED
  BY <1>2, <1>3, PhaseMoves DEF claimInboundMessage

LEMMA WaitedKeeps ==
  ASSUME InboundInv, NEW c \in Claim, waited(c)
  PROVE  InboundInv'
<1>1. PICK phase \in {"begun", "working", "failed"} :
        /\ claim' = [claim EXCEPT ![c].phase = phase]
        /\ phase = "working" => claim[c].message \notin channel_inbound_message
  BY DEF waited
<1> QED
  BY <1>1, PhaseMoves DEF waited

LEMMA WorkFailsKeeps ==
  ASSUME InboundInv, NEW c \in Claim, workFails(c)
  PROVE  InboundInv'
BY PhaseMoves DEF workFails

LEMMA WorkCommitsKeeps ==
  ASSUME InboundInv, NEW c \in Claim, workCommits(c)
  PROVE  InboundInv'
<1>0. PICK phase \in {"processed", "failed"} : claim' = [claim EXCEPT ![c].phase = phase]
  BY DEF workCommits
<1>1. PICK m, k :
        /\ claim' = [claim EXCEPT ![c] = k] /\ k = [claim[c] EXCEPT !.phase = phase]
        /\ m = claim[c].message
  BY <1>0
<1>2. /\ At(c, "working") /\ channel_inbound_message' = channel_inbound_message \cup {m}
      /\ effects' = [effects EXCEPT ![m] = @ + 1] /\ UNCHANGED routeVars
  BY <1>1 DEF workCommits
<1>3. claim[c] \in ClaimRecord /\ m \in Replied
  BY <1>1 DEF InboundInv, InboundTypeOK, ClaimRecord
<1>4. k \in ClaimRecord /\ k.phase = phase /\ k.message = m
  BY <1>1, <1>3 DEF ClaimRecord
<1>5. /\ claim' \in [Claim -> ClaimRecord] /\ claim'[c] = k
      /\ \A d \in Claim \ {c} : claim'[d] = claim[d]
  BY <1>1, <1>4 DEF InboundInv, InboundTypeOK
<1>6. m \notin channel_inbound_message
  BY <1>1, <1>2 DEF InboundInv, OneAtWork
<1>7. /\ effects[m] = 0 /\ effects' \in [Replied -> Nat] /\ effects'[m] = 1
      /\ \A x \in Replied \ {m} : effects'[x] = effects[x]
  BY <1>2, <1>3, <1>6 DEF InboundInv, InboundTypeOK, ExactlyOnce
<1>8. InboundTypeOK'
  BY <1>2, <1>3, <1>5, <1>7 DEF InboundInv, InboundTypeOK, routeVars
<1>9. ExactlyOnce'
  <2>1. \A x \in Replied : effects'[x] = IF x \in channel_inbound_message' THEN 1 ELSE 0
    BY <1>2, <1>7 DEF InboundInv, ExactlyOnce
  <2>2. \A d \in Claim : claim[d].message \in Replied
    BY DEF InboundInv, InboundTypeOK, ClaimRecord
  <2>3. ASSUME NEW d \in Claim, claim'[d].phase \in {"processed", "deduped"}
        PROVE  effects'[claim'[d].message] = 1
    <3>1. CASE d = c
      BY <1>4, <1>5, <1>7, <3>1
    <3>2. CASE d # c
      BY <1>5, <1>7, <2>2, <2>3, <3>2 DEF InboundInv, ExactlyOnce
    <3> QED BY <3>1, <3>2
  <2> QED BY <2>1, <2>3 DEF ExactlyOnce
<1>10. OneAtWork'
  BY <1>1, <1>2, <1>4, <1>5 DEF InboundInv, OneAtWork, At
<1>11. HandedOverOnce'
  BY <1>2 DEF InboundInv, HandedOverOnce, routeVars
<1> QED
  BY <1>8, <1>9, <1>10, <1>11 DEF InboundInv

(***************************************************************************)
(* The theorems.                                                           *)
(***************************************************************************)

\* Of every behaviour of the route and of the claim: the types, the two
\* promises, and that one call at most is at work on a message.
THEOREM InboundInvariance == InboundSpec => []InboundInv
<1>1. InboundInit => InboundInv
  BY InitInboundInv
<1>2. InboundInv /\ [InboundNext]_inboundVars => InboundInv'
  <2> SUFFICES ASSUME InboundInv, [InboundNext]_inboundVars PROVE InboundInv'
    OBVIOUS
  <2>1. CASE restart
    BY <2>1, RestartKeeps
  <2>2. ASSUME NEW r \in Request, RequestStep(r) PROVE InboundInv'
    BY <2>2, RefuseKeeps, ReceiveKeeps, IgnoreKeeps, HandledKeeps DEF RequestStep
  <2>3. ASSUME NEW c \in Claim, ClaimStep(c) PROVE InboundInv'
    BY <2>3, BeginKeeps, ClaimKeeps, WaitedKeeps, WorkCommitsKeeps, WorkFailsKeeps DEF ClaimStep
  <2>4. CASE UNCHANGED inboundVars
    BY <2>4 DEF inboundVars, InboundInv, InboundTypeOK, ExactlyOnce, OneAtWork, HandedOverOnce, At
  <2> QED
    BY <2>1, <2>2, <2>3, <2>4 DEF InboundNext
<1> QED
  BY <1>1, <1>2, PTL DEF InboundSpec

\* The durable claim: a row is a message whose work has committed once.
THEOREM ProcessedOnce == InboundSpec => []ExactlyOnce
<1>1. InboundInv => ExactlyOnce
  BY DEF InboundInv
<1> QED BY <1>1, InboundInvariance, PTL

\* The mark in memory: one process hands a message to the handler once.
THEOREM HandsOverOnce == InboundSpec => []HandedOverOnce
<1>1. InboundInv => HandedOverOnce
  BY DEF InboundInv
<1> QED BY <1>1, InboundInvariance, PTL

(***************************************************************************)
(* PART THREE.  RECONCILIATION                                             *)
(*                                                                         *)
(* Which calls write a run, and whose run a call is given; then, what a    *)
(* run finds.                                                              *)
(***************************************************************************)

\* The call wrote the run it was given.
Wrote(k) == k.phase = "returned" /\ ~ k.replayed

\* What a call k of d, which has returned, was told of the run of e.
Told(e, run, k, d) ==
  /\ e \in Caller /\ run # Null /\ run.committed /\ run.input = k.input
  /\ ~ k.replayed => e = d

LEMMA InitReconciliationInv == ReconciliationInit => ReconciliationInv
<1> SUFFICES ASSUME ReconciliationInit PROVE ReconciliationInv
  OBVIOUS
<1>1. Idle \in CallState
  BY DEF CallState
<1>2. /\ reconciliation_run \in [Caller -> Run \cup {Null}] /\ call \in [Caller -> CallState]
      /\ \A c \in Caller : reconciliation_run[c] = Null /\ call[c].phase = "idle"
  BY <1>1 DEF ReconciliationInit, Idle
<1> QED
  BY <1>2 DEF ReconciliationInv, RunsTypeOK, RunsAreUnique, RunsAreOfTheirCalls,
              LosersHaveAWinner, OneRunPerInput, LosersFindTheWinner, Committed

\* What each phase of a call holds.
LEMMA CallForms ==
  ASSUME NEW k \in CallState
  PROVE  /\ k.phase \in {"idle", "expectations", "read", "compared", "inserted", "lost",
                         "returned", "vanished"}
         /\ k.phase = "expectations" => k.expected \in SUBSET Expectation
         /\ k.phase \in {"read", "compared", "inserted", "lost"} =>
              k \in [phase : {"read", "compared", "inserted", "lost"}, input : Input]
         /\ k.phase = "returned" =>
              k \in [phase : {"returned"}, input : Input, run : Caller, replayed : BOOLEAN]
BY DEF CallState, Idle

\* A step of a call that leaves the runs alone.
LEMMA RunsStay ==
  ASSUME ReconciliationInv, UNCHANGED reconciliation_run, NEW c \in Caller,
         NEW k \in CallState, call' = [call EXCEPT ![c] = k],
         call[c].phase \notin {"inserted", "returned"},
         k.phase \notin {"inserted", "vanished"}, ~ Wrote(k),
         k.phase = "lost" => existingRun(k.input) # {},
         k.phase = "returned" => /\ Committed(k.run)
                                 /\ reconciliation_run[k.run].input = k.input
  PROVE  ReconciliationInv'
<1>1. call' \in [Caller -> CallState] /\ call'[c] = k
      /\ \A d \in Caller \ {c} : call'[d] = call[d]
  BY DEF ReconciliationInv, RunsTypeOK
<1>2. RunsTypeOK' /\ RunsAreUnique'
  BY <1>1 DEF ReconciliationInv, RunsTypeOK, RunsAreUnique
<1>3. RunsAreOfTheirCalls'
  BY <1>1 DEF ReconciliationInv, RunsAreOfTheirCalls, Committed, Wrote
<1>4. LosersHaveAWinner'
  BY <1>1 DEF ReconciliationInv, LosersHaveAWinner, existingRun, RunsOf, Committed
<1>5. OneRunPerInput'
  BY <1>1 DEF ReconciliationInv, OneRunPerInput, Committed, Wrote
<1>6. LosersFindTheWinner'
  BY <1>1 DEF ReconciliationInv, LosersFindTheWinner
<1> QED
  BY <1>2, <1>3, <1>4, <1>5, <1>6 DEF ReconciliationInv

LEMMA ReconcileKeeps ==
  ASSUME ReconciliationInv, NEW c \in Caller, reconcile(c)
  PROVE  ReconciliationInv'
<1>1. PICK k : k = [phase |-> "expectations", expected |-> currentExpectations]
  OBVIOUS
<1>2. k \in CallState /\ k.phase = "expectations"
  BY <1>1 DEF CallState, currentExpectations, Recorded
<1>3. call[c].phase = "idle"
  BY DEF reconcile, Idle
<1> QED
  BY <1>1, <1>2, <1>3, RunsStay DEF reconcile, runs, Wrote

LEMMA StatementLinesKeeps ==
  ASSUME ReconciliationInv, NEW c \in Caller, statementLines(c)
  PROVE  ReconciliationInv'
<1>1. PICK k : k = [phase |-> "read",
                    input |-> [expected |-> call[c].expected, lines |-> Imported]]
  OBVIOUS
<1>2. call[c].phase = "expectations" /\ call' = [call EXCEPT ![c] = k]
  BY <1>1 DEF statementLines
<1>3. call[c].expected \in SUBSET Expectation
  BY <1>2, CallForms DEF ReconciliationInv, RunsTypeOK
<1>4. k \in CallState /\ k.phase = "read"
  BY <1>1, <1>3 DEF CallState, Input, Imported
<1> QED
  BY <1>2, <1>4, RunsStay DEF statementLines, runs, Wrote

\* The two ways in which a call is given a run that another one wrote.
LEMMA ReplayKeeps ==
  ASSUME ReconciliationInv, NEW c \in Caller, call[c].phase \in {"read", "lost"},
         NEW d \in existingRun(call[c].input), Return(c, d, TRUE),
         UNCHANGED reconciliation_run
  PROVE  ReconciliationInv'
<1>1. PICK k : k = [phase |-> "returned", input |-> call[c].input, run |-> d, replayed |-> TRUE]
  OBVIOUS
<1>2. call[c].input \in Input
  BY CallForms DEF ReconciliationInv, RunsTypeOK
<1>3. d \in Caller /\ Committed(d) /\ reconciliation_run[d].input = call[c].input
  BY DEF existingRun, RunsOf
<1>4. k \in CallState /\ k.phase = "returned" /\ k.replayed = TRUE
  BY <1>1, <1>2, <1>3 DEF CallState
<1> QED
  BY <1>1, <1>3, <1>4, RunsStay DEF Return, Wrote

LEMMA AlreadyKeeps ==
  ASSUME ReconciliationInv, NEW c \in Caller, already(c)
  PROVE  ReconciliationInv'
<1>1. call[c].phase = "read" /\ UNCHANGED reconciliation_run
  BY DEF already, runs
<1>2. CASE \E d \in existingRun(call[c].input) : Return(c, d, TRUE)
  BY <1>1, <1>2, ReplayKeeps
<1>3. CASE call' = [call EXCEPT ![c].phase = "compared"]
  <2>1. PICK k : k = [call[c] EXCEPT !.phase = "compared"]
    OBVIOUS
  <2>2. call[c] \in [phase : {"read", "compared", "inserted", "lost"}, input : Input]
    BY <1>1, CallForms DEF ReconciliationInv, RunsTypeOK
  <2>3. k \in CallState /\ k.phase = "compared"
    BY <2>1, <2>2 DEF CallState
  <2> QED
    BY <1>1, <1>3, <2>1, <2>3, RunsStay DEF Wrote
<1> QED
  BY <1>2, <1>3 DEF already

\* Whoever waited for the runs in its way loses to one of them, or there is
\* none and the run is this call's.
LEMMA InsertRunKeeps ==
  ASSUME ReconciliationInv, NEW c \in Caller, insertRun(c)
  PROVE  ReconciliationInv'
<1>1. /\ call[c].phase = "compared"
      /\ call[c] \in [phase : {"read", "compared", "inserted", "lost"}, input : Input]
  BY CallForms DEF insertRun, ReconciliationInv, RunsTypeOK
<1>2. CASE inTheWay(call[c].input) # {}
  <2>1. PICK k : k = [call[c] EXCEPT !.phase = "lost"]
    OBVIOUS
  <2>2. k \in CallState /\ k.phase = "lost" /\ k.input = call[c].input
    BY <1>1, <2>1 DEF CallState
  <2>3. existingRun(call[c].input) # {}
    BY <1>2 DEF insertRun, inTheWay, existingRun
  <2>4. call' = [call EXCEPT ![c] = k] /\ UNCHANGED reconciliation_run
    BY <1>2, <2>1 DEF insertRun
  <2> QED
    BY <1>1, <2>2, <2>3, <2>4, RunsStay DEF Wrote
<1>3. CASE inTheWay(call[c].input) = {}
  <2>1. PICK k, r : /\ k = [call[c] EXCEPT !.phase = "inserted"]
                    /\ r = [input |-> call[c].input, committed |-> FALSE]
    OBVIOUS
  <2>2. k \in CallState /\ k.phase = "inserted" /\ k.input = call[c].input
    BY <1>1, <2>1 DEF CallState
  <2>3. r \in Run /\ r # Null /\ r.input = call[c].input /\ ~ r.committed
    <3>1. r \in Run /\ r.input = call[c].input
      BY <1>1, <2>1 DEF Run
    <3>2. ~ r.committed
      BY <2>1, Zenon
    <3> QED BY <3>1, <3>2, NullIsNoRow
  <2>4. /\ call' = [call EXCEPT ![c] = k]
        /\ reconciliation_run' = [reconciliation_run EXCEPT ![c] = r]
    BY <1>3, <2>1 DEF insertRun
  <2>5. /\ call' \in [Caller -> CallState] /\ call'[c] = k
        /\ reconciliation_run' \in [Caller -> Run \cup {Null}] /\ reconciliation_run'[c] = r
        /\ \A d \in Caller \ {c} :
             call'[d] = call[d] /\ reconciliation_run'[d] = reconciliation_run[d]
    BY <2>2, <2>3, <2>4 DEF ReconciliationInv, RunsTypeOK
  <2>6. reconciliation_run[c] = Null
    BY <1>1 DEF ReconciliationInv, RunsAreOfTheirCalls
  <2>7. \A d \in Caller : ~ (reconciliation_run[d] # Null
                               /\ reconciliation_run[d].input = call[c].input)
    BY <1>3 DEF inTheWay, RunsOf
  <2>8. RunsTypeOK'
    BY <2>5 DEF RunsTypeOK
  <2>9. RunsAreUnique'
    BY <2>3, <2>5, <2>7 DEF ReconciliationInv, RunsAreUnique
  <2>10. RunsAreOfTheirCalls'
    BY <2>2, <2>3, <2>5 DEF ReconciliationInv, RunsAreOfTheirCalls, Committed
  <2>11. LosersHaveAWinner'
    BY <2>2, <2>5, <2>6 DEF ReconciliationInv, LosersHaveAWinner, existingRun, RunsOf, Committed
  <2>12. ASSUME NEW d \in Caller, call'[d].phase = "returned", NEW e, e = call'[d].run
        PROVE  Told(e, reconciliation_run'[e], call'[d], d)
    <3>1. d # c /\ call'[d] = call[d]
      BY <2>2, <2>5, <2>12
    <3>2. e = call[d].run
      BY <2>12, <3>1
    <3>3. call[d] \in [phase : {"returned"}, input : Input, run : Caller, replayed : BOOLEAN]
      BY <2>12, <3>1, CallForms DEF ReconciliationInv, RunsTypeOK
    <3>4. Told(e, reconciliation_run[e], call[d], d)
      BY <2>12, <3>1, <3>2, <3>3 DEF ReconciliationInv, OneRunPerInput, Committed, Told
    <3>5. reconciliation_run'[e] = reconciliation_run[e]
      BY <2>5, <2>6, <3>4 DEF Told
    <3> QED BY <3>1, <3>4, <3>5, Zenon
  <2>13. OneRunPerInput'
    BY <2>9, <2>12 DEF RunsAreUnique, OneRunPerInput, Committed, Told
  <2>14. LosersFindTheWinner'
    BY <2>2, <2>5 DEF ReconciliationInv, LosersFindTheWinner
  <2> QED
    BY <2>8, <2>9, <2>10, <2>11, <2>13, <2>14 DEF ReconciliationInv
<1> QED
  BY <1>2, <1>3

LEMMA FinishKeeps ==
  ASSUME ReconciliationInv, NEW c \in Caller, finish(c)
  PROVE  ReconciliationInv'
<1>1. /\ call[c].phase = "inserted"
      /\ call[c] \in [phase : {"read", "compared", "inserted", "lost"}, input : Input]
  BY CallForms DEF finish, ReconciliationInv, RunsTypeOK
<1>2. PICK k, r :
        /\ k = [phase |-> "returned", input |-> call[c].input, run |-> c, replayed |-> FALSE]
        /\ r = [reconciliation_run[c] EXCEPT !.committed = TRUE]
  OBVIOUS
<1>3. /\ call' = [call EXCEPT ![c] = k]
      /\ reconciliation_run' = [reconciliation_run EXCEPT ![c] = r]
  BY <1>2 DEF finish, Return
<1>4. reconciliation_run[c] \in Run /\ reconciliation_run[c].input = call[c].input
      /\ reconciliation_run[c] # Null
  BY <1>1 DEF ReconciliationInv, RunsTypeOK, RunsAreOfTheirCalls
<1>5. r \in Run /\ r # Null /\ r.input = call[c].input /\ r.committed
  BY <1>2, <1>4, NullIsNoRow DEF Run
<1>6. /\ k \in CallState /\ k.phase = "returned" /\ k.input = call[c].input /\ k.run = c
      /\ ~ k.replayed
  BY <1>1, <1>2 DEF CallState
<1>7. /\ call' \in [Caller -> CallState] /\ call'[c] = k
      /\ reconciliation_run' \in [Caller -> Run \cup {Null}] /\ reconciliation_run'[c] = r
      /\ \A d \in Caller \ {c} :
           call'[d] = call[d] /\ reconciliation_run'[d] = reconciliation_run[d]
  BY <1>3, <1>5, <1>6 DEF ReconciliationInv, RunsTypeOK
<1>8. RunsTypeOK'
  BY <1>7 DEF RunsTypeOK
<1>9. RunsAreUnique'
  BY <1>4, <1>5, <1>7 DEF ReconciliationInv, RunsAreUnique
<1>10. RunsAreOfTheirCalls'
  BY <1>5, <1>6, <1>7 DEF ReconciliationInv, RunsAreOfTheirCalls, Committed
<1>11. LosersHaveAWinner'
  BY <1>4, <1>5, <1>6, <1>7
     DEF ReconciliationInv, LosersHaveAWinner, existingRun, RunsOf, Committed
<1>12. ASSUME NEW d \in Caller, call'[d].phase = "returned", NEW e, e = call'[d].run
       PROVE  Told(e, reconciliation_run'[e], call'[d], d)
  <2>1. CASE d = c
    <3>1. e = c /\ reconciliation_run'[e] = r /\ call'[d] = k
      BY <1>6, <1>7, <1>12, <2>1
    <3>2. Told(c, r, k, c)
      BY <1>5, <1>6, Zenon DEF Told
    <3> QED BY <2>1, <3>1, <3>2, Zenon
  <2>2. CASE d # c
    <3>1. call'[d] = call[d]
      BY <1>7, <2>2
    <3>2. e = call[d].run
      BY <1>12, <3>1
    <3>3. call[d] \in [phase : {"returned"}, input : Input, run : Caller, replayed : BOOLEAN]
      BY <1>12, <3>1, CallForms DEF ReconciliationInv, RunsTypeOK
    <3>4. Told(e, reconciliation_run[e], call[d], d)
      BY <1>12, <3>1, <3>2, <3>3 DEF ReconciliationInv, OneRunPerInput, Committed, Told
    <3>5. e # c
      BY <1>1, <3>4 DEF ReconciliationInv, RunsAreOfTheirCalls, Committed, Told
    <3>6. reconciliation_run'[e] = reconciliation_run[e]
      BY <1>7, <3>4, <3>5 DEF Told
    <3> QED BY <3>1, <3>4, <3>6, Zenon
  <2> QED BY <2>1, <2>2
<1>13. OneRunPerInput'
  BY <1>9, <1>12 DEF RunsAreUnique, OneRunPerInput, Committed, Told
<1>14. LosersFindTheWinner'
  BY <1>6, <1>7 DEF ReconciliationInv, LosersFindTheWinner
<1> QED
  BY <1>8, <1>9, <1>10, <1>11, <1>13, <1>14 DEF ReconciliationInv

\* No call finds that the winner has vanished.
LEMMA ReadWinnerKeeps ==
  ASSUME ReconciliationInv, NEW c \in Caller, readWinner(c)
  PROVE  ReconciliationInv'
<1>1. call[c].phase = "lost" /\ UNCHANGED reconciliation_run
  BY DEF readWinner, runs
<1>2. existingRun(call[c].input) # {}
  BY <1>1 DEF ReconciliationInv, LosersHaveAWinner
<1>3. PICK d \in existingRun(call[c].input) : Return(c, d, TRUE)
  BY <1>2 DEF readWinner
<1> QED
  BY <1>1, <1>3, ReplayKeeps

\* A run that is taken back was of a call whose transaction was open: nobody
\* had been given it.
LEMMA AbortKeeps ==
  ASSUME ReconciliationInv, NEW c \in Caller, abort(c)
  PROVE  ReconciliationInv'
<1>1. /\ call[c].phase \in {"compared", "inserted"} /\ call' = [call EXCEPT ![c] = Idle]
      /\ reconciliation_run' = [reconciliation_run EXCEPT ![c] = Null]
  BY DEF abort
<1>2. Idle \in CallState /\ Idle.phase = "idle"
  BY DEF CallState, Idle
<1>3. /\ call' \in [Caller -> CallState] /\ call'[c].phase = "idle"
      /\ reconciliation_run' \in [Caller -> Run \cup {Null}] /\ reconciliation_run'[c] = Null
      /\ \A d \in Caller \ {c} :
           call'[d] = call[d] /\ reconciliation_run'[d] = reconciliation_run[d]
  BY <1>1, <1>2 DEF ReconciliationInv, RunsTypeOK
<1>4. ~ Committed(c)
  BY <1>1 DEF ReconciliationInv, RunsAreOfTheirCalls
<1>5. RunsTypeOK' /\ RunsAreUnique'
  BY <1>3 DEF ReconciliationInv, RunsTypeOK, RunsAreUnique
<1>6. RunsAreOfTheirCalls'
  BY <1>3 DEF ReconciliationInv, RunsAreOfTheirCalls, Committed
<1>7. LosersHaveAWinner'
  BY <1>3, <1>4 DEF ReconciliationInv, LosersHaveAWinner, existingRun, RunsOf, Committed
<1>8. ASSUME NEW d \in Caller, call'[d].phase = "returned", NEW e, e = call'[d].run
       PROVE  Told(e, reconciliation_run'[e], call'[d], d)
  <2>1. d # c /\ call'[d] = call[d]
    BY <1>3, <1>8
  <2>2. e = call[d].run
    BY <1>8, <2>1
  <2>3. call[d] \in [phase : {"returned"}, input : Input, run : Caller, replayed : BOOLEAN]
    BY <1>8, <2>1, CallForms DEF ReconciliationInv, RunsTypeOK
  <2>4. Told(e, reconciliation_run[e], call[d], d)
    BY <1>8, <2>1, <2>2, <2>3 DEF ReconciliationInv, OneRunPerInput, Committed, Told
  <2>5. e # c
    BY <1>4, <2>4 DEF Committed, Told
  <2>6. reconciliation_run'[e] = reconciliation_run[e]
    BY <1>3, <2>4, <2>5 DEF Told
  <2> QED BY <2>1, <2>4, <2>6, Zenon
<1>9. OneRunPerInput'
  BY <1>5, <1>8 DEF RunsAreUnique, OneRunPerInput, Committed, Told
<1>10. LosersFindTheWinner'
  BY <1>3 DEF ReconciliationInv, LosersFindTheWinner
<1> QED
  BY <1>5, <1>6, <1>7, <1>9, <1>10 DEF ReconciliationInv

LEMMA StepReconciliationInv ==
  ReconciliationInv /\ [ReconciliationNext]_reconciliationVars => ReconciliationInv'
<1> SUFFICES ASSUME ReconciliationInv, [ReconciliationNext]_reconciliationVars
             PROVE  ReconciliationInv'
  OBVIOUS
<1>1. ASSUME NEW c \in Caller, CallStep(c) PROVE ReconciliationInv'
  BY <1>1, ReconcileKeeps, StatementLinesKeeps, AlreadyKeeps, InsertRunKeeps, FinishKeeps,
     ReadWinnerKeeps, AbortKeeps DEF CallStep
<1>2. ASSUME UNCHANGED <<reconciliation_run, call>> PROVE ReconciliationInv'
  BY <1>2 DEF ReconciliationInv, RunsTypeOK, RunsAreUnique, RunsAreOfTheirCalls,
              LosersHaveAWinner, OneRunPerInput, LosersFindTheWinner, existingRun, RunsOf,
              Committed
<1>3. CASE UNCHANGED reconciliationVars
  BY <1>2, <1>3 DEF reconciliationVars
<1>4. ASSUME NEW e, NEW ref, NEW terms, NEW s, expect(e, ref, terms, s)
      PROVE  ReconciliationInv'
  BY <1>2, <1>4 DEF expect, runs
<1>5. ASSUME NEW l, NEW ref, NEW report, import(l, ref, report) PROVE ReconciliationInv'
  BY <1>2, <1>5 DEF import, runs
<1> QED
  BY <1>1, <1>3, <1>4, <1>5 DEF ReconciliationNext

\* What the reconciliation of one input rests on, in every state.
THEOREM ReconciliationInvariance == ReconciliationSpec => []ReconciliationInv
BY InitReconciliationInv, StepReconciliationInv, PTL DEF ReconciliationSpec

\* Calls that looked at the same rows share one run, and each is given the run
\* of what it looked at.
THEOREM RunsAreShared == ReconciliationSpec => []OneRunPerInput
<1>1. ReconciliationInv => OneRunPerInput
  BY DEF ReconciliationInv
<1> QED BY <1>1, ReconciliationInvariance, PTL

\* The error of a loser that finds no winner is never raised.
THEOREM WinnersAreFound == ReconciliationSpec => []LosersFindTheWinner
<1>1. ReconciliationInv => LosersFindTheWinner
  BY DEF ReconciliationInv
<1> QED BY <1>1, ReconciliationInvariance, PTL

(***************************************************************************)
(* What a run finds.  A comparison reads rows that never change, so that   *)
(* what a run found can be compared with its input at any later time.      *)
(***************************************************************************)

\* q names each of the n rows of S once, in seq order.
Enumerates(q, n, S) ==
  /\ n \in Nat /\ q \in [1 .. n -> S]
  /\ \A i, j \in 1 .. n : i < j => q[i] < q[j]
  /\ \A i, j \in 1 .. n : q[i] = q[j] => i = j
  /\ \A s \in S : \E i \in 1 .. n : s = q[i]

\* Rows can be put in seq order: a row has its place by how many come before.
LEMMA SeqOrder ==
  ASSUME NEW S, S \subseteq Nat, IsFiniteSet(S), NEW n, n = Cardinality(S),
         NEW q, q = inSeqOrder(S)
  PROVE  Enumerates(q, n, S)
<1> DEFINE upTo(x) == {y \in S : y <= x}
           rank    == [x \in S |-> Cardinality(upTo(x))]
           p       == [i \in 1 .. n |-> CHOOSE x \in S : rank[x] = i]
<1>1. n \in Nat /\ IsFiniteSet(1 .. n) /\ Cardinality(1 .. n) = n
  BY FS_CardinalityType, FS_Interval
<1>0. (\A i \in 1 .. n : i \in Nat) /\ (\A x \in S : x \in Nat)
  BY <1>1
<1>2. \A x \in S : /\ IsFiniteSet(upTo(x)) /\ upTo(x) \subseteq S /\ x \in upTo(x)
                   /\ Cardinality(upTo(x)) \in Nat /\ Cardinality(upTo(x)) <= n
                   /\ Cardinality(upTo(x)) # 0
  <2> TAKE x \in S
  <2>1. upTo(x) \subseteq S /\ x \in upTo(x)
    OBVIOUS
  <2> HIDE DEF upTo
  <2>2. IsFiniteSet(upTo(x)) /\ Cardinality(upTo(x)) <= n
    BY <2>1, FS_Subset
  <2> QED
    BY <2>1, <2>2, FS_CardinalityType, FS_EmptySet
<1>3. \A x, y \in S : x < y => Cardinality(upTo(x)) < Cardinality(upTo(y))
  <2> SUFFICES ASSUME NEW x \in S, NEW y \in S, x < y
               PROVE  Cardinality(upTo(x)) < Cardinality(upTo(y))
    OBVIOUS
  <2>0. x \in Nat /\ y \in Nat /\ \A z \in S : z \in Nat
    BY <1>0
  <2>1. upTo(x) \subseteq upTo(y) /\ y \in upTo(y) /\ y \notin upTo(x)
    <3>1. \A z \in S : z <= x => z <= y
      BY <2>0
    <3>2. y <= y /\ ~ (y <= x)
      BY <2>0
    <3> QED BY <3>1, <3>2
  <2>2. IsFiniteSet(upTo(y)) /\ Cardinality(upTo(x)) \in Nat /\ Cardinality(upTo(y)) \in Nat
    BY <1>2
  <2> HIDE DEF upTo
  <2> QED
    BY <2>1, <2>2, FS_Subset
<1>4. /\ rank \in [S -> 1 .. n]
      /\ \A x, y \in S : x < y => rank[x] < rank[y]
  <2> HIDE DEF upTo
  <2> QED BY <1>1, <1>2, <1>3
<1> HIDE DEF upTo, rank
<1>5. \A x, y \in S : rank[x] = rank[y] => x = y
  <2> SUFFICES ASSUME NEW x \in S, NEW y \in S, rank[x] = rank[y], x # y PROVE FALSE
    OBVIOUS
  <2> QED BY <1>1, <1>4
<1>6. rank \in Surjection(S, 1 .. n)
  BY <1>1, <1>4, <1>5, FS_Injection DEF Injection, IsInjective
<1>7. \A i \in 1 .. n : \E x \in S : rank[x] = i
  BY <1>6 DEF Surjection
<1>8. p \in [1 .. n -> S] /\ \A i \in 1 .. n : rank[p[i]] = i
  BY <1>7
<1> HIDE DEF p
<1>9. \A i, j \in 1 .. n : i < j => p[i] < p[j]
  <2> SUFFICES ASSUME NEW i \in 1 .. n, NEW j \in 1 .. n, i < j, ~ p[i] < p[j] PROVE FALSE
    OBVIOUS
  <2>1. p[i] \in S /\ p[j] \in S /\ rank[p[i]] = i /\ rank[p[j]] = j
    BY <1>8
  <2>2. p[i] \in Nat /\ p[j] \in Nat /\ i \in Nat /\ j \in Nat
    BY <1>0, <2>1
  <2>3. p[j] < p[i] \/ p[j] = p[i]
    BY <2>2
  <2>4. CASE p[j] < p[i]
    BY <1>4, <2>1, <2>2, <2>4
  <2> QED BY <2>1, <2>2, <2>3, <2>4
<1>10. q \in [1 .. n -> S] /\ \A i, j \in DOMAIN q : i < j => q[i] < q[j]
  <2>1. \E o \in [1 .. n -> S] : \A i, j \in DOMAIN o : i < j => o[i] < o[j]
    BY <1>8, <1>9
  <2> QED BY <2>1 DEF inSeqOrder
<1>11. \A i, j \in 1 .. n : q[i] = q[j] => i = j
  <2> SUFFICES ASSUME NEW i \in 1 .. n, NEW j \in 1 .. n, q[i] = q[j], i # j PROVE FALSE
    OBVIOUS
  <2>1. i \in Nat /\ j \in Nat /\ q[i] \in Nat /\ q[j] \in Nat
    BY <1>0, <1>10
  <2>2. i < j \/ j < i
    BY <2>1
  <2>3. q[i] < q[j] \/ q[j] < q[i]
    BY <1>10, <2>2
  <2> QED BY <2>1, <2>3
<1>12. q \in Surjection(1 .. n, S)
  BY <1>1, <1>10, <1>11, FS_Injection DEF Injection, IsInjective
<1>13. \A s \in S : \E i \in 1 .. n : s = q[i]
  BY <1>10, <1>12 DEF Surjection
<1> QED
  BY <1>1, <1>10, <1>11, <1>13 DEF Enumerates

\* What a comparison reads: rows in the tables, of which there are finitely many.
Sides(input, ref) ==
  /\ expectedFor(input, ref) \subseteq Recorded /\ linesFor(input, ref) \subseteq Imported
  /\ IsFiniteSet(expectedFor(input, ref)) /\ IsFiniteSet(linesFor(input, ref))

LEMMA SidesAreFinite ==
  ASSUME TablesAreFinite, NEW input, InTables(input), NEW ref
  PROVE  Sides(input, ref)
<1>1. expectedFor(input, ref) \subseteq Recorded /\ linesFor(input, ref) \subseteq Imported
  BY DEF InTables, expectedFor, linesFor
<1> QED
  BY <1>1, FS_Subset DEF TablesAreFinite, Sides

\* The two sides of a ref in seq order.
LEMMA SidesInOrder ==
  ASSUME NEW input, NEW ref, Sides(input, ref),
         NEW m, m = Cardinality(expectedFor(input, ref)),
         NEW n, n = Cardinality(linesFor(input, ref)),
         NEW x, x = inSeqOrder(expectedFor(input, ref)),
         NEW y, y = inSeqOrder(linesFor(input, ref))
  PROVE  Enumerates(x, m, expectedFor(input, ref)) /\ Enumerates(y, n, linesFor(input, ref))
<1>1. expectedFor(input, ref) \subseteq Nat /\ linesFor(input, ref) \subseteq Nat
  BY ReconciliationAssumption DEF Sides, Recorded, Imported
<1> QED
  BY <1>1, SeqOrder DEF Sides

\* Rows never change: a comparison finds at any later time what it found.
LEMMA CompareStays ==
  ASSUME TablesAreFinite, NEW input, InTables(input),
         \A e \in Recorded : expected_settlement'[e] = expected_settlement[e],
         \A l \in Imported : provider_statement_line'[l] = provider_statement_line[l]
  PROVE  compare(input)' = compare(input)
<1>1. \A e \in input.expected : expected_settlement'[e] = expected_settlement[e]
  BY DEF InTables
<1>2. \A l \in input.lines : provider_statement_line'[l] = provider_statement_line[l]
  BY DEF InTables
<1>3. refsOf(input)' = refsOf(input)
  BY <1>1, <1>2 DEF refsOf
<1>4. ASSUME NEW ref PROVE compareRef(input, ref)' = compareRef(input, ref)
  <2>1. PICK X, L : X = expectedFor(input, ref) /\ L = linesFor(input, ref)
    OBVIOUS
  <2>2. X = expectedFor(input, ref)' /\ L = linesFor(input, ref)'
    BY <1>1, <1>2, <2>1 DEF expectedFor, linesFor
  <2>3. PICK x, y : x = inSeqOrder(X) /\ y = inSeqOrder(L)
    OBVIOUS
  <2>4. x \in [DOMAIN x -> X] /\ y \in [DOMAIN y -> L]
    <3>1. PICK m, n : m = Cardinality(X) /\ n = Cardinality(L)
      OBVIOUS
    <3>2. Sides(input, ref)
      BY SidesAreFinite
    <3>3. x \in [1 .. m -> X] /\ y \in [1 .. n -> L]
      BY <2>1, <2>3, <3>1, <3>2, SidesInOrder DEF Enumerates
    <3> QED BY <3>3
  <2>5. X \subseteq input.expected /\ L \subseteq input.lines
    BY <2>1 DEF expectedFor, linesFor
  <2>6. ASSUME NEW i \in DOMAIN x \cap DOMAIN y
        PROVE  comparePair(x[i], y[i])' = comparePair(x[i], y[i])
    <3>1. expected_settlement'[x[i]] = expected_settlement[x[i]]
          /\ provider_statement_line'[y[i]] = provider_statement_line[y[i]]
      BY <1>1, <1>2, <2>4, <2>5
    <3> QED BY <3>1 DEF comparePair
  <2>7. compareRef(input, ref) =
          {found("missing", x[i], Null) : i \in DOMAIN x \ (DOMAIN x \cap DOMAIN y)}
            \cup {found("unexpected", Null, y[i]) : i \in DOMAIN y \ (DOMAIN x \cap DOMAIN y)}
            \cup UNION {comparePair(x[i], y[i]) : i \in DOMAIN x \cap DOMAIN y}
    BY <2>1, <2>3 DEF compareRef
  <2>8. compareRef(input, ref)' =
          {found("missing", x[i], Null) : i \in DOMAIN x \ (DOMAIN x \cap DOMAIN y)}
            \cup {found("unexpected", Null, y[i]) : i \in DOMAIN y \ (DOMAIN x \cap DOMAIN y)}
            \cup UNION {comparePair(x[i], y[i])' : i \in DOMAIN x \cap DOMAIN y}
    BY <2>2, <2>3 DEF compareRef
  <2>9. {comparePair(x[i], y[i])' : i \in DOMAIN x \cap DOMAIN y}
          = {comparePair(x[i], y[i]) : i \in DOMAIN x \cap DOMAIN y}
    BY <2>6
  <2> QED BY <2>7, <2>8, <2>9
<1>5. {compareRef(input, ref)' : ref \in refsOf(input)}
        = {compareRef(input, ref) : ref \in refsOf(input)}
  BY <1>4
<1> QED
  BY <1>3, <1>5 DEF compare

LEMMA ImageCardinality ==
  ASSUME NEW I, IsFiniteSet(I), NEW g, \A i, j \in I : g[i] = g[j] => i = j
  PROVE  Cardinality({g[i] : i \in I}) = Cardinality(I)
<1> DEFINE T == {g[i] : i \in I}
           h == [i \in I |-> g[i]]
<1>1. h \in Surjection(I, T) /\ h \in Injection(I, T)
  BY DEF Surjection, Injection, IsInjective
<1> HIDE DEF T, h
<1>2. Cardinality(T) = Cardinality(I)
  BY <1>1, FS_Surjection
<1> QED
  BY <1>2 DEF T

\* How many rows the longer side has more.
LEMMA RestOf ==
  ASSUME NEW m \in Nat, NEW n \in Nat
  PROVE  /\ IsFiniteSet((1 .. m) \ (1 .. n))
         /\ Cardinality((1 .. m) \ (1 .. n)) = IF m > n THEN m - n ELSE 0
<1>1. (1 .. m) \ (1 .. n) = (n + 1) .. m
  <2>1. \A i \in 1 .. m : i \notin 1 .. n <=> i \in (n + 1) .. m
    OBVIOUS
  <2>2. \A i \in (n + 1) .. m : i \in 1 .. m
    OBVIOUS
  <2> QED BY <2>1, <2>2
<1>2. n + 1 \in Int /\ m \in Int
  OBVIOUS
<1>3. /\ IsFiniteSet((n + 1) .. m)
      /\ Cardinality((n + 1) .. m) = IF n + 1 > m THEN 0 ELSE m - (n + 1) + 1
  BY <1>2, FS_Interval
<1>4. Cardinality((n + 1) .. m) = IF m > n THEN m - n ELSE 0
  BY <1>3
<1>5. PICK D : D = (n + 1) .. m
  OBVIOUS
<1>6. IsFiniteSet(D) /\ Cardinality(D) = IF m > n THEN m - n ELSE 0
  BY <1>3, <1>4, <1>5
<1> QED
  BY <1>1, <1>5, <1>6, Zenon

\* What is found of a ref, of the rows x and y of its two sides in seq order.
Paired(x, y)     == UNION {comparePair(x[i], y[i]) : i \in DOMAIN x \cap DOMAIN y}
Missing(x, y)    == {found("missing", x[i], Null) : i \in DOMAIN x \ (DOMAIN x \cap DOMAIN y)}
Unexpected(x, y) == {found("unexpected", Null, y[i]) : i \in DOMAIN y \ (DOMAIN x \cap DOMAIN y)}

LEMMA FindingsInOrder ==
  ASSUME NEW input, NEW ref,
         NEW x, x = inSeqOrder(expectedFor(input, ref)),
         NEW y, y = inSeqOrder(linesFor(input, ref)),
         NEW F, F = compareRef(input, ref)
  PROVE  /\ F = Missing(x, y) \cup Unexpected(x, y) \cup Paired(x, y)
         /\ OfKind("missing", F) = Missing(x, y)
         /\ OfKind("unexpected", F) = Unexpected(x, y)
         /\ F \ (Missing(x, y) \cup Unexpected(x, y)) = Paired(x, y)
<1>1. F = Missing(x, y) \cup Unexpected(x, y) \cup Paired(x, y)
  BY DEF compareRef, Paired, Missing, Unexpected
<1>2. \A f \in Paired(x, y) : f.kind \notin {"missing", "unexpected"}
  <2>1. ASSUME NEW e, NEW l, NEW f \in comparePair(e, l)
        PROVE  f.kind \notin {"missing", "unexpected"}
    BY <2>1 DEF comparePair, found, differs
  <2> QED BY <2>1 DEF Paired
<1>3. \A f \in Missing(x, y) : f.kind = "missing"
  BY DEF Missing, found
<1>4. \A f \in Unexpected(x, y) : f.kind = "unexpected"
  BY DEF Unexpected, found
<1> QED
  BY <1>1, <1>2, <1>3, <1>4 DEF OfKind

\* What a finding is about.
LEMMA FindingsAreOfARef ==
  ASSUME NEW input, NEW ref, Sides(input, ref), NEW f \in compareRef(input, ref)
  PROVE  /\ f.expected \in expectedFor(input, ref) \/ f.line \in linesFor(input, ref)
         /\ f.expected \in expectedFor(input, ref) \cup {Null}
         /\ f.line \in linesFor(input, ref) \cup {Null}
<1>1. PICK m, n, x, y : /\ m = Cardinality(expectedFor(input, ref))
                        /\ n = Cardinality(linesFor(input, ref))
                        /\ x = inSeqOrder(expectedFor(input, ref))
                        /\ y = inSeqOrder(linesFor(input, ref))
  OBVIOUS
<1>2. x \in [1 .. m -> expectedFor(input, ref)] /\ y \in [1 .. n -> linesFor(input, ref)]
  BY <1>1, SidesInOrder DEF Enumerates
<1>3. f \in Missing(x, y) \cup Unexpected(x, y) \cup Paired(x, y)
  BY <1>1, FindingsInOrder
<1>4. CASE f \in Paired(x, y)
  <2>1. PICK i \in DOMAIN x \cap DOMAIN y : f \in comparePair(x[i], y[i])
    BY <1>4 DEF Paired
  <2>2. f.expected = x[i] /\ f.line = y[i]
    BY <2>1 DEF comparePair, found
  <2> QED BY <1>2, <2>2
<1>5. CASE f \in Missing(x, y)
  BY <1>2, <1>5 DEF Missing, found
<1>6. CASE f \in Unexpected(x, y)
  BY <1>2, <1>6 DEF Unexpected, found
<1> QED
  BY <1>3, <1>4, <1>5, <1>6

\* The findings about the rows of a ref are those of its own comparison.
LEMMA FindingsByRef ==
  ASSUME TablesAreFinite, NEW input, InTables(input), NEW ref
  PROVE  {f \in compare(input) : f.expected \in expectedFor(input, ref)
                                   \/ f.line \in linesFor(input, ref)}
           = compareRef(input, ref)
<1>1. ASSUME NEW f \in compareRef(input, ref)
      PROVE  /\ f \in compare(input)
             /\ f.expected \in expectedFor(input, ref) \/ f.line \in linesFor(input, ref)
  <2>1. f.expected \in expectedFor(input, ref) \/ f.line \in linesFor(input, ref)
    BY SidesAreFinite, FindingsAreOfARef
  <2>2. ref \in refsOf(input)
    BY <2>1 DEF expectedFor, linesFor, refsOf
  <2> QED BY <2>1, <2>2 DEF compare
<1>2. ASSUME NEW f \in compare(input),
             f.expected \in expectedFor(input, ref) \/ f.line \in linesFor(input, ref)
      PROVE  f \in compareRef(input, ref)
  <2>1. PICK r \in refsOf(input) : f \in compareRef(input, r)
    BY DEF compare
  <2>2. /\ f.expected \in expectedFor(input, r) \cup {Null}
        /\ f.line \in linesFor(input, r) \cup {Null}
    BY <2>1, SidesAreFinite, FindingsAreOfARef
  <2>3. Null \notin expectedFor(input, ref) \cup linesFor(input, ref)
    BY ReconciliationAssumption DEF InTables, expectedFor, linesFor, Recorded, Imported
  <2>4. r = ref
    BY <1>2, <2>2, <2>3 DEF expectedFor, linesFor
  <2> QED BY <2>1, <2>4
<1> QED
  BY <1>1, <1>2

\* What is read of a row, and what of it is compared.
LEMMA Rows ==
  ASSUME ReconciliationTypeOK
  PROVE  /\ \A e \in Recorded : /\ expected_settlement[e].terms.amount \in Int
                                /\ expected_settlement[e].terms.by \in Int
         /\ \A l \in Imported :
              LET report == provider_statement_line[l].report
              IN  /\ report.amount \in Int
                  /\ report.settled_at = Null \/ report.settled_at \in Int
<1>1. \A e \in Recorded : expected_settlement[e] \in Expected
  BY DEF ReconciliationTypeOK, Recorded
<1>2. \A l \in Imported : provider_statement_line[l] \in Reported
  BY DEF ReconciliationTypeOK, Imported
<1>3. \A e \in Recorded : expected_settlement[e].terms \in Terms
  BY <1>1 DEF Expected
<1>4. \A l \in Imported : provider_statement_line[l].report \in Report
  BY <1>2 DEF Reported
<1> QED
  BY <1>3, <1>4, ReconciliationAssumption

LEMMA NothingFoundMeansAlike ==
  ASSUME ReconciliationTypeOK, NEW e \in Recorded, NEW l \in Imported, comparePair(e, l) = {}
  PROVE  Alike(e, l)
<1>1. PICK terms, report : /\ terms = expected_settlement[e].terms
                           /\ report = provider_statement_line[l].report
  OBVIOUS
<1>2. \A kind \in Kinds : ~ differs(kind, terms, report)
  BY <1>1 DEF comparePair
<1>3. /\ report.amount = terms.amount /\ report.currency = terms.currency
      /\ report.state = terms.state
  BY <1>2 DEF Kinds, differs
<1>4. report.settled_at # Null => ~ (report.settled_at > terms.by)
  BY <1>2 DEF Kinds, differs
<1>5. terms.by \in Int /\ (report.settled_at = Null \/ report.settled_at \in Int)
  BY <1>1, Rows
<1>6. report.settled_at # Null => report.settled_at <= terms.by
  BY <1>4, <1>5
<1> QED
  BY <1>1, <1>3, <1>6 DEF Alike

\* A ref of which nothing is found has pairs only, and they are alike.
LEMMA NothingFound ==
  ASSUME ReconciliationTypeOK, NEW input, NEW ref, Sides(input, ref),
         compareRef(input, ref) = {},
         NEW m, m = Cardinality(expectedFor(input, ref)),
         NEW n, n = Cardinality(linesFor(input, ref)),
         NEW x, x = inSeqOrder(expectedFor(input, ref)),
         NEW y, y = inSeqOrder(linesFor(input, ref))
  PROVE  m = n /\ \A i \in 1 .. m : Alike(x[i], y[i])
<1>1. /\ m \in Nat /\ n \in Nat
      /\ x \in [1 .. m -> expectedFor(input, ref)] /\ y \in [1 .. n -> linesFor(input, ref)]
  BY SidesInOrder DEF Enumerates
<1>2. Missing(x, y) = {} /\ Unexpected(x, y) = {} /\ Paired(x, y) = {}
  BY FindingsInOrder
<1>3. (\A i \in 1 .. m : i \in 1 .. n) /\ (\A i \in 1 .. n : i \in 1 .. m)
  BY <1>1, <1>2 DEF Missing, Unexpected
<1>4. m = n
  <2>1. m # 0 => m \in 1 .. n
    BY <1>1, <1>3
  <2>2. n # 0 => n \in 1 .. m
    BY <1>1, <1>3
  <2> QED BY <1>1, <2>1, <2>2
<1>5. ASSUME NEW i \in 1 .. m PROVE Alike(x[i], y[i])
  <2>1. comparePair(x[i], y[i]) = {}
    BY <1>1, <1>2, <1>3 DEF Paired
  <2>2. x[i] \in Recorded /\ y[i] \in Imported
    BY <1>1, <1>4 DEF Sides
  <2> QED BY <2>1, <2>2, NothingFoundMeansAlike
<1> QED
  BY <1>4, <1>5

LEMMA SumsAreEqual ==
  ASSUME ReconciliationTypeOK, NEW input, NEW ref, Sides(input, ref),
         compareRef(input, ref) = {},
         NEW expected, expected = expectedFor(input, ref),
         NEW lines, lines = linesFor(input, ref),
         NEW currency
  PROVE  ExpectedIn(expected, currency) = ReportedIn(lines, currency)
<1> DEFINE X == {e \in expected : expected_settlement[e].terms.currency = currency}
           L == {l \in lines : provider_statement_line[l].report.currency = currency}
           f == [e \in X |-> expected_settlement[e].terms.amount]
           g == [l \in L |-> provider_statement_line[l].report.amount]
<1>1. PICK m, n, x, y : /\ m = Cardinality(expectedFor(input, ref))
                        /\ n = Cardinality(linesFor(input, ref))
                        /\ x = inSeqOrder(expectedFor(input, ref))
                        /\ y = inSeqOrder(linesFor(input, ref))
  OBVIOUS
<1>2. m = n /\ \A i \in 1 .. m : Alike(x[i], y[i])
  BY <1>1, NothingFound
<1>3. Enumerates(x, m, expected) /\ Enumerates(y, n, lines)
  BY <1>1, SidesInOrder
<1>4. PICK I : I = {i \in 1 .. m : expected_settlement[x[i]].terms.currency = currency}
  OBVIOUS
<1>5. /\ \A i \in I : x[i] \in X /\ y[i] \in L /\ Alike(x[i], y[i])
      /\ \A e \in X : \E i \in I : e = x[i]
      /\ \A l \in L : \E i \in I : l = y[i]
      /\ \A i, j \in I : x[i] = x[j] => i = j
      /\ \A i, j \in I : y[i] = y[j] => i = j
  BY <1>2, <1>3, <1>4 DEF Enumerates, Alike
<1>6. PICK k : k = [i \in I |-> f[x[i]]]
  OBVIOUS
<1>7. \A i \in I : f[x[i]] \in Int /\ g[y[i]] \in Int /\ f[x[i]] = g[y[i]]
  <2> TAKE i \in I
  <2>1. x[i] \in Recorded /\ y[i] \in Imported /\ x[i] \in X /\ y[i] \in L
    BY <1>5 DEF Sides
  <2> QED BY <1>5, <2>1, Rows DEF Alike
<1>8. IsFiniteSet(I)
  <2>1. IsFiniteSet(1 .. m) /\ I \in SUBSET (1 .. m)
    BY <1>3, <1>4, FS_Interval DEF Enumerates
  <2> QED BY <2>1, FS_Subset
<1>9. DOMAIN f = X /\ DOMAIN g = L
  OBVIOUS
<1> HIDE DEF f, g, X, L
<1>10. SumFunctionOnSet(f, {x[i] : i \in I}) = SumFunctionOnSet(k, I)
  <2>1. \A i \in I : f[x[i]] \in Int /\ k[i] = f[x[i]]
    BY <1>6, <1>7
  <2>2. \A i, j \in I : x[i] = x[j] => i = j
    BY <1>5
  <2> QED BY <1>8, <2>1, <2>2, SumImage
<1>11. SumFunctionOnSet(g, {y[i] : i \in I}) = SumFunctionOnSet(k, I)
  <2>1. \A i \in I : g[y[i]] \in Int /\ k[i] = g[y[i]]
    BY <1>6, <1>7
  <2>2. \A i, j \in I : y[i] = y[j] => i = j
    BY <1>5
  <2> QED BY <1>8, <2>1, <2>2, SumImage
<1>12. X = {x[i] : i \in I} /\ L = {y[i] : i \in I}
  BY <1>5
<1>13. SumFunction(f) = SumFunction(g)
  BY <1>9, <1>10, <1>11, <1>12 DEF SumFunction
<1>14. ExpectedIn(expected, currency) = SumFunction(f)
  BY Zenon DEF ExpectedIn, f, X
<1>15. ReportedIn(lines, currency) = SumFunction(g)
  BY Zenon DEF ReportedIn, g, L
<1> QED
  BY <1>13, <1>14, <1>15

\* As many rows are reported missing, or unexpected, as one side has more.
LEMMA ExcessIsReported ==
  ASSUME NEW input, NEW ref, Sides(input, ref),
         NEW m, m = Cardinality(expectedFor(input, ref)),
         NEW n, n = Cardinality(linesFor(input, ref)),
         NEW x, x = inSeqOrder(expectedFor(input, ref)),
         NEW y, y = inSeqOrder(linesFor(input, ref))
  PROVE  /\ Cardinality(Missing(x, y)) = IF m > n THEN m - n ELSE 0
         /\ Cardinality(Unexpected(x, y)) = IF n > m THEN n - m ELSE 0
<1>1. Enumerates(x, m, expectedFor(input, ref)) /\ Enumerates(y, n, linesFor(input, ref))
  BY SidesInOrder
<1>2. m \in Nat /\ n \in Nat /\ DOMAIN x = 1 .. m /\ DOMAIN y = 1 .. n
  BY <1>1 DEF Enumerates
<1>3. PICK I, J : I = (1 .. m) \ (1 .. n) /\ J = (1 .. n) \ (1 .. m)
  OBVIOUS
<1>4. /\ IsFiniteSet(I) /\ Cardinality(I) = IF m > n THEN m - n ELSE 0
      /\ IsFiniteSet(J) /\ Cardinality(J) = IF n > m THEN n - m ELSE 0
  BY <1>2, <1>3, RestOf
<1>5. PICK g, h : /\ g = [i \in I |-> found("missing", x[i], Null)]
                  /\ h = [i \in J |-> found("unexpected", Null, y[i])]
  OBVIOUS
<1>6. \A i, j \in I : g[i] = g[j] => i = j
  <2> SUFFICES ASSUME NEW i \in I, NEW j \in I, g[i] = g[j] PROVE i = j
    OBVIOUS
  <2>1. g[i].expected = x[i] /\ g[j].expected = x[j]
    BY <1>5 DEF found
  <2>2. x[i] = x[j]
    BY <2>1
  <2> QED BY <1>1, <1>3, <2>2 DEF Enumerates
<1>7. \A i, j \in J : h[i] = h[j] => i = j
  <2> SUFFICES ASSUME NEW i \in J, NEW j \in J, h[i] = h[j] PROVE i = j
    OBVIOUS
  <2>1. h[i].line = y[i] /\ h[j].line = y[j]
    BY <1>5 DEF found
  <2>2. y[i] = y[j]
    BY <2>1
  <2> QED BY <1>1, <1>3, <2>2 DEF Enumerates
<1>8. Missing(x, y) = {g[i] : i \in I} /\ Unexpected(x, y) = {h[i] : i \in J}
  <2>1. /\ \A i : i \in DOMAIN x \ (DOMAIN x \cap DOMAIN y) <=> i \in I
        /\ \A i : i \in DOMAIN y \ (DOMAIN x \cap DOMAIN y) <=> i \in J
    BY <1>2, <1>3
  <2> QED BY <1>5, <2>1 DEF Missing, Unexpected
<1>9. Cardinality({g[i] : i \in I}) = Cardinality(I)
  BY <1>4, <1>6, ImageCardinality
<1>10. Cardinality({h[i] : i \in J}) = Cardinality(J)
  BY <1>4, <1>7, ImageCardinality
<1> QED
  BY <1>4, <1>8, <1>9, <1>10

\* A pair takes a row of each side; no two pairs cross, and what has no counterpart
\* comes after them.
LEMMA PairsAreApart ==
  ASSUME NEW input, NEW ref, Sides(input, ref),
         NEW x, x = inSeqOrder(expectedFor(input, ref)),
         NEW y, y = inSeqOrder(linesFor(input, ref)),
         NEW pairs, pairs = PairsOf(compareRef(input, ref))
  PROVE  /\ pairs \subseteq expectedFor(input, ref) \X linesFor(input, ref)
         /\ \A p, q \in pairs : p[1] < q[1] <=> p[2] < q[2]
         /\ \A p \in pairs : /\ \A f \in Missing(x, y) : p[1] < f.expected
                            /\ \A f \in Unexpected(x, y) : p[2] < f.line
<1>1. PICK m, n, X, L : /\ m = Cardinality(expectedFor(input, ref))
                        /\ n = Cardinality(linesFor(input, ref))
                        /\ X = expectedFor(input, ref) /\ L = linesFor(input, ref)
  OBVIOUS
<1>2. /\ x \in [1 .. m -> X] /\ y \in [1 .. n -> L] /\ m \in Nat /\ n \in Nat
      /\ \A i, j \in 1 .. m : i < j => x[i] < x[j]
      /\ \A i, j \in 1 .. n : i < j => y[i] < y[j]
  BY <1>1, SidesInOrder DEF Enumerates
<1>3. X \subseteq Nat /\ L \subseteq Nat
  BY <1>1, ReconciliationAssumption DEF Sides, Recorded, Imported
<1>4. \A p \in pairs : \E i \in DOMAIN x \cap DOMAIN y : p = << x[i], y[i] >>
  <2>1. pairs = {<< f.expected, f.line >> : f \in Paired(x, y)}
    BY FindingsInOrder DEF PairsOf
  <2> QED BY <2>1 DEF Paired, comparePair, found
<1>5. pairs \subseteq X \X L
  <2>1. \A i \in DOMAIN x \cap DOMAIN y : << x[i], y[i] >> \in X \X L
    BY <1>2
  <2> QED BY <1>4, <2>1
<1>6. \A p, q \in pairs : p[1] < q[1] <=> p[2] < q[2]
  <2> SUFFICES ASSUME NEW p \in pairs, NEW q \in pairs PROVE p[1] < q[1] <=> p[2] < q[2]
    OBVIOUS
  <2>1. PICK i \in DOMAIN x \cap DOMAIN y : p = << x[i], y[i] >>
    BY <1>4
  <2>2. PICK j \in DOMAIN x \cap DOMAIN y : q = << x[j], y[j] >>
    BY <1>4
  <2>3. /\ i \in 1 .. m /\ i \in 1 .. n /\ j \in 1 .. m /\ j \in 1 .. n
        /\ i < j \/ i = j \/ j < i
    BY <1>2
  <2>4. (x[i] < x[j] <=> i < j) /\ (y[i] < y[j] <=> i < j)
    <3>1. x[i] \in Nat /\ x[j] \in Nat /\ y[i] \in Nat /\ y[j] \in Nat
      BY <1>2, <1>3, <2>3
    <3>2. CASE i < j
      BY <1>2, <2>3, <3>2
    <3>3. CASE i = j
      BY <2>3, <3>1, <3>3
    <3>4. CASE j < i
      <4>1. x[j] < x[i] /\ y[j] < y[i]
        BY <1>2, <2>3, <3>4
      <4> QED BY <2>3, <3>1, <3>4, <4>1
    <3> QED BY <2>3, <3>2, <3>3, <3>4
  <2> QED BY <2>1, <2>2, <2>4
<1>7. ASSUME NEW p \in pairs, NEW f \in Missing(x, y) PROVE p[1] < f.expected
  <2>1. PICK i \in DOMAIN x \cap DOMAIN y : p = << x[i], y[i] >>
    BY <1>4
  <2>2. PICK j \in DOMAIN x \ (DOMAIN x \cap DOMAIN y) : f = found("missing", x[j], Null)
    BY DEF Missing
  <2>3. i \in 1 .. m /\ j \in 1 .. m /\ i < j
    BY <1>2
  <2> QED BY <1>2, <2>1, <2>2, <2>3 DEF found
<1>8. ASSUME NEW p \in pairs, NEW f \in Unexpected(x, y) PROVE p[2] < f.line
  <2>1. PICK i \in DOMAIN x \cap DOMAIN y : p = << x[i], y[i] >>
    BY <1>4
  <2>2. PICK j \in DOMAIN y \ (DOMAIN x \cap DOMAIN y) : f = found("unexpected", Null, y[j])
    BY DEF Unexpected
  <2>3. i \in 1 .. n /\ j \in 1 .. n /\ i < j
    BY <1>2
  <2> QED BY <1>2, <2>1, <2>2, <2>3 DEF found
<1> QED
  BY <1>1, <1>5, <1>6, <1>7, <1>8

\* A ref is accounted for by its own comparison.
LEMMA RefIsAccountedFor ==
  ASSUME ReconciliationTypeOK, NEW input, NEW ref, Sides(input, ref),
         NEW expected, expected = expectedFor(input, ref),
         NEW lines, lines = linesFor(input, ref),
         NEW findings, findings = compareRef(input, ref)
  PROVE  Account(findings, expected, lines)
<1>1. PICK m, n, x, y : /\ m = Cardinality(expectedFor(input, ref))
                        /\ n = Cardinality(linesFor(input, ref))
                        /\ x = inSeqOrder(expectedFor(input, ref))
                        /\ y = inSeqOrder(linesFor(input, ref))
  OBVIOUS
<1>2. Enumerates(x, m, expected) /\ Enumerates(y, n, lines)
  BY <1>1, SidesInOrder
<1>3. PICK missing, unexpected, pairs, excess :
        /\ missing = OfKind("missing", findings) /\ unexpected = OfKind("unexpected", findings)
        /\ pairs = PairsOf(findings) /\ excess = Cardinality(expected) - Cardinality(lines)
  OBVIOUS
<1>4. missing = Missing(x, y) /\ unexpected = Unexpected(x, y)
  BY <1>1, <1>3, FindingsInOrder
<1>5. /\ Cardinality(missing) = (IF excess > 0 THEN excess ELSE 0)
      /\ Cardinality(unexpected) = (IF excess < 0 THEN -excess ELSE 0)
  <2>1. /\ Cardinality(Missing(x, y)) = IF m > n THEN m - n ELSE 0
        /\ Cardinality(Unexpected(x, y)) = IF n > m THEN n - m ELSE 0
    BY <1>1, ExcessIsReported
  <2>2. m \in Nat /\ n \in Nat /\ excess = m - n
    BY <1>1, <1>2, <1>3 DEF Enumerates
  <2> QED BY <1>4, <2>1, <2>2
<1>6. /\ pairs \subseteq expected \X lines
      /\ \A p, q \in pairs : p[1] < q[1] <=> p[2] < q[2]
      /\ \A p \in pairs : /\ \A f \in missing : p[1] < f.expected
                         /\ \A f \in unexpected : p[2] < f.line
  BY <1>1, <1>3, <1>4, PairsAreApart
<1>7. ASSUME findings = {} PROVE \A l \in lines : \E e \in expected : Alike(e, l)
  <2>1. m = n /\ \A i \in 1 .. m : Alike(x[i], y[i])
    BY <1>1, <1>7, NothingFound
  <2> QED BY <1>2, <2>1 DEF Enumerates
<1>8. ASSUME findings = {}, NEW currency
      PROVE  ExpectedIn(expected, currency) = ReportedIn(lines, currency)
  <2>1. compareRef(input, ref) = {}
    BY <1>8
  <2> QED BY <2>1, SumsAreEqual
<1> QED
  BY <1>3, <1>5, <1>6, <1>7, <1>8 DEF Account

LEMMA AllIsAccountedFor == FindingsInv => EveryRowIsAccountedFor
<1> SUFFICES ASSUME FindingsInv, NEW c \in Caller, Committed(c), NEW ref \in Ref,
                    NEW input, input = reconciliation_run[c].input,
                    NEW expected, expected = expectedFor(input, ref),
                    NEW lines, lines = linesFor(input, ref)
             PROVE  Account({f \in reconciliation_discrepancy[c] :
                               f.expected \in expected \/ f.line \in lines}, expected, lines)
  BY Zenon DEF EveryRowIsAccountedFor
<1>1. reconciliation_discrepancy[c] = compare(input)
  BY DEF FindingsInv, FindingsAreOfTheInput
<1>2. TablesAreFinite /\ InTables(input) /\ ReconciliationTypeOK
  BY DEF FindingsInv, InputsAreInTables, Committed
<1>3. Sides(input, ref)
  BY <1>2, SidesAreFinite
<1>4. {f \in compare(input) : f.expected \in expected \/ f.line \in lines}
        = compareRef(input, ref)
  BY <1>2, FindingsByRef
<1>5. Account(compareRef(input, ref), expected, lines)
  BY <1>2, <1>3, RefIsAccountedFor
<1> QED
  BY <1>1, <1>4, <1>5

\* Both tables only grow.
RowsStay ==
  /\ Recorded \subseteq Recorded' /\ Imported \subseteq Imported'
  /\ \A e \in Recorded : expected_settlement'[e] = expected_settlement[e]
  /\ \A l \in Imported : provider_statement_line'[l] = provider_statement_line[l]

TablesTypeOK ==
  /\ expected_settlement \in [Expectation -> Expected \cup {Null}]
  /\ provider_statement_line \in [Line -> Reported \cup {Null}]

LEMMA ExpectGrows ==
  ASSUME TablesTypeOK, TablesAreFinite,
         NEW e \in Expectation, NEW ref \in Ref, NEW terms \in Terms, NEW s \in Recorded \cup {Null},
         expect(e, ref, terms, s)
  PROVE  RowsStay /\ TablesAreFinite' /\ TablesTypeOK'
<1>1. PICK row : row = [ref |-> ref, terms |-> terms, supersedes |-> s]
  OBVIOUS
<1>2. row \in Expected /\ row # Null
  BY <1>1, NullIsNoRow DEF Expected, Recorded
<1>3. /\ expected_settlement' = [expected_settlement EXCEPT ![e] = row]
      /\ e \notin Recorded /\ UNCHANGED provider_statement_line
  BY <1>1 DEF expect
<1>4. TablesTypeOK'
  BY <1>2, <1>3 DEF TablesTypeOK
<1>5. Recorded' = Recorded \cup {e} /\ Imported' = Imported
  BY <1>2, <1>3 DEF TablesTypeOK, Recorded, Imported
<1>6. TablesAreFinite'
  <2>1. IsFiniteSet(Recorded \cup {e})
    BY FS_AddElement DEF TablesAreFinite
  <2> QED BY <1>5, <2>1 DEF TablesAreFinite
<1>7. RowsStay
  BY <1>3, <1>5 DEF RowsStay, TablesTypeOK, Recorded
<1> QED
  BY <1>4, <1>6, <1>7

LEMMA ImportGrows ==
  ASSUME TablesTypeOK, TablesAreFinite,
         NEW l \in Line, NEW ref \in Ref, NEW report \in Report, import(l, ref, report)
  PROVE  RowsStay /\ TablesAreFinite' /\ TablesTypeOK'
<1>1. PICK row : row = [ref |-> ref, report |-> report]
  OBVIOUS
<1>2. row \in Reported /\ row # Null
  BY <1>1, NullIsNoRow DEF Reported
<1>3. /\ provider_statement_line' = [provider_statement_line EXCEPT ![l] = row]
      /\ l \notin Imported /\ UNCHANGED expected_settlement
  BY <1>1 DEF import
<1>4. TablesTypeOK'
  BY <1>2, <1>3 DEF TablesTypeOK
<1>5. Imported' = Imported \cup {l} /\ Recorded' = Recorded
  BY <1>2, <1>3 DEF TablesTypeOK, Recorded, Imported
<1>6. TablesAreFinite'
  <2>1. IsFiniteSet(Imported \cup {l})
    BY FS_AddElement DEF TablesAreFinite
  <2> QED BY <1>5, <2>1 DEF TablesAreFinite
<1>7. RowsStay
  BY <1>3, <1>5 DEF RowsStay, TablesTypeOK, Imported
<1> QED
  BY <1>4, <1>6, <1>7

LEMMA TablesStay ==
  ASSUME TablesTypeOK, TablesAreFinite, UNCHANGED tables
  PROVE  RowsStay /\ TablesAreFinite' /\ TablesTypeOK'
BY DEF tables, RowsStay, TablesAreFinite, TablesTypeOK, Recorded, Imported

\* A comparison of rows of the tables is a set of findings.
LEMMA CompareFinds ==
  ASSUME TablesAreFinite, NEW input, InTables(input)
  PROVE  compare(input) \in SUBSET Finding
<1> SUFFICES ASSUME NEW f \in compare(input) PROVE f \in Finding
  OBVIOUS
<1>1. PICK ref : f \in compareRef(input, ref)
  BY DEF compare
<1>2. /\ f.expected \in expectedFor(input, ref) \cup {Null}
      /\ f.line \in linesFor(input, ref) \cup {Null}
  BY <1>1, SidesAreFinite, FindingsAreOfARef
<1>3. f.expected \in Expectation \cup {Null} /\ f.line \in Line \cup {Null}
  BY <1>2 DEF expectedFor, linesFor, InTables, Recorded, Imported
<1>4. \E kind \in Kinds : \E e, l : f = found(kind, e, l)
  <2>1. PICK x, y : /\ x = inSeqOrder(expectedFor(input, ref))
                    /\ y = inSeqOrder(linesFor(input, ref))
    OBVIOUS
  <2>2. f \in Missing(x, y) \cup Unexpected(x, y) \cup Paired(x, y)
    BY <1>1, <2>1, FindingsInOrder
  <2> QED BY <2>2 DEF Missing, Unexpected, Paired, comparePair, Kinds
<1> QED
  BY <1>3, <1>4 DEF found, Finding

\* What a call knows, and what its run says, is of rows in the tables.
ReadsTables(k) ==
  /\ k.phase = "expectations" => k.expected \subseteq Recorded
  /\ k.phase \in {"read", "compared", "inserted", "lost"} => InTables(k.input)

OfTheTables(run, findings) ==
  run # Null => /\ InTables(run.input)
                /\ run.committed => findings = compare(run.input)

LEMMA KnowledgeStays ==
  ASSUME TablesAreFinite, RowsStay, NEW k, ReadsTables(k), NEW run, NEW findings,
         OfTheTables(run, findings)
  PROVE  ReadsTables(k)' /\ OfTheTables(run, findings)'
<1>1. \A input : InTables(input) => InTables(input)'
  BY DEF InTables, RowsStay
<1>2. \A input : InTables(input) => compare(input)' = compare(input)
  BY CompareStays DEF RowsStay
<1>3. ReadsTables(k)'
  BY <1>1 DEF ReadsTables, RowsStay
<1>4. OfTheTables(run, findings)'
  BY <1>1, <1>2 DEF OfTheTables
<1> QED
  BY <1>3, <1>4

Knowledge == \A c \in Caller :
  ReadsTables(call[c]) /\ OfTheTables(reconciliation_run[c], reconciliation_discrepancy[c])

FindingsTypeOK == reconciliation_discrepancy \in [Caller -> SUBSET Finding]

LEMMA WhatFindingsInvSays ==
  FindingsInv <=> /\ ReconciliationInv /\ TablesTypeOK /\ FindingsTypeOK
                  /\ TablesAreFinite /\ Knowledge
<1>1. ReconciliationTypeOK <=> RunsTypeOK /\ TablesTypeOK /\ FindingsTypeOK
  BY DEF ReconciliationTypeOK, TablesTypeOK, FindingsTypeOK
<1>2. InputsAreInTables /\ FindingsAreOfTheInput <=> Knowledge
  BY DEF InputsAreInTables, FindingsAreOfTheInput, Knowledge, ReadsTables, OfTheTables, Committed
<1> QED
  BY <1>1, <1>2 DEF FindingsInv, ReconciliationInv

\* Nobody forgets or learns anything.
LEMMA NobodyMoves ==
  ASSUME FindingsInv, RowsStay, UNCHANGED << call, runs >>
  PROVE  Knowledge' /\ FindingsTypeOK'
<1>1. TablesAreFinite /\ Knowledge /\ FindingsTypeOK
  BY WhatFindingsInvSays
<1>2. ASSUME NEW c \in Caller
      PROVE  (ReadsTables(call[c])
                /\ OfTheTables(reconciliation_run[c], reconciliation_discrepancy[c]))'
  <2>1. PICK k, run, findings : /\ k = call[c] /\ run = reconciliation_run[c]
                                /\ findings = reconciliation_discrepancy[c]
    OBVIOUS
  <2>2. ReadsTables(k) /\ OfTheTables(run, findings)
    BY <1>1, <2>1 DEF Knowledge
  <2>3. ReadsTables(k)' /\ OfTheTables(run, findings)'
    BY <1>1, <2>2, KnowledgeStays
  <2>4. k = call'[c] /\ run = reconciliation_run'[c] /\ findings = reconciliation_discrepancy'[c]
    BY <2>1 DEF runs
  <2> QED BY <2>3, <2>4 DEF ReadsTables, OfTheTables
<1> QED
  BY <1>1, <1>2 DEF Knowledge, FindingsTypeOK, runs

\* A step of one call, which then knows k, of its run.
LEMMA OneMoves ==
  ASSUME FindingsInv, UNCHANGED tables, NEW c \in Caller,
         NEW k, call' = [call EXCEPT ![c] = k],
         NEW run, reconciliation_run' = [reconciliation_run EXCEPT ![c] = run],
         NEW findings,
         reconciliation_discrepancy' = [reconciliation_discrepancy EXCEPT ![c] = findings],
         ReadsTables(k), OfTheTables(run, findings), findings \in SUBSET Finding
  PROVE  Knowledge' /\ FindingsTypeOK'
<1>1. TablesAreFinite /\ Knowledge /\ FindingsTypeOK /\ TablesTypeOK
  BY WhatFindingsInvSays
<1>2. RowsStay
  BY <1>1, TablesStay
<1>3. /\ call \in [Caller -> CallState] /\ reconciliation_run \in [Caller -> Run \cup {Null}]
      /\ reconciliation_discrepancy \in [Caller -> SUBSET Finding]
  BY <1>1 DEF FindingsInv, ReconciliationInv, RunsTypeOK, FindingsTypeOK
<1>4. ASSUME NEW d \in Caller
      PROVE  (ReadsTables(call[d])
                /\ OfTheTables(reconciliation_run[d], reconciliation_discrepancy[d]))'
  <2>1. PICK l, r, F : /\ l = call'[d] /\ r = reconciliation_run'[d]
                       /\ F = reconciliation_discrepancy'[d]
    OBVIOUS
  <2>2. ReadsTables(l) /\ OfTheTables(r, F)
    <3>1. CASE d = c
      <4>1. l = k /\ r = run /\ F = findings
        BY <1>3, <2>1, <3>1
      <4> QED BY <4>1
    <3>2. CASE d # c
      <4>1. l = call[d] /\ r = reconciliation_run[d] /\ F = reconciliation_discrepancy[d]
        BY <1>3, <2>1, <3>2
      <4> QED BY <1>1, <4>1 DEF Knowledge
    <3> QED BY <3>1, <3>2
  <2>3. ReadsTables(l)' /\ OfTheTables(r, F)'
    BY <1>1, <1>2, <2>2, KnowledgeStays
  <2> QED BY <2>1, <2>3 DEF ReadsTables, OfTheTables
<1>5. FindingsTypeOK'
  BY <1>3 DEF FindingsTypeOK
<1> QED
  BY <1>4, <1>5 DEF Knowledge

\* A step that leaves the runs alone.
LEMMA OneReads ==
  ASSUME FindingsInv, UNCHANGED << tables, runs >>, NEW c \in Caller,
         NEW k, call' = [call EXCEPT ![c] = k], ReadsTables(k)
  PROVE  Knowledge' /\ FindingsTypeOK'
<1>1. PICK run, findings : /\ run = reconciliation_run[c]
                           /\ findings = reconciliation_discrepancy[c]
  OBVIOUS
<1>2. FindingsTypeOK /\ Knowledge /\ RunsTypeOK
  BY WhatFindingsInvSays DEF ReconciliationInv
<1>3. /\ reconciliation_run' = [reconciliation_run EXCEPT ![c] = run]
      /\ reconciliation_discrepancy' = [reconciliation_discrepancy EXCEPT ![c] = findings]
  BY <1>1, <1>2 DEF runs, FindingsTypeOK, RunsTypeOK
<1>4. OfTheTables(run, findings) /\ findings \in SUBSET Finding
  BY <1>1, <1>2 DEF Knowledge, FindingsTypeOK
<1> QED
  BY <1>3, <1>4, OneMoves

\* The call reads: what it takes is in the tables.
LEMMA ReadingKeepsKnowledge ==
  ASSUME FindingsInv, NEW c \in Caller, reconcile(c) \/ statementLines(c)
  PROVE  Knowledge' /\ FindingsTypeOK'
<1>1. CASE reconcile(c)
  <2>1. PICK k : k = [phase |-> "expectations", expected |-> currentExpectations]
    OBVIOUS
  <2>2. ReadsTables(k)
    BY <2>1 DEF ReadsTables, currentExpectations
  <2>3. call' = [call EXCEPT ![c] = k] /\ UNCHANGED << tables, runs >>
    BY <1>1, <2>1 DEF reconcile
  <2> QED BY <2>2, <2>3, OneReads
<1>2. CASE statementLines(c)
  <2>1. PICK k : k = [phase |-> "read",
                      input |-> [expected |-> call[c].expected, lines |-> Imported]]
    OBVIOUS
  <2>2. call[c].expected \subseteq Recorded
    BY <1>2, WhatFindingsInvSays DEF statementLines, Knowledge, ReadsTables
  <2>3. ReadsTables(k)
    BY <2>1, <2>2 DEF ReadsTables, InTables
  <2>4. call' = [call EXCEPT ![c] = k] /\ UNCHANGED << tables, runs >>
    BY <1>2, <2>1 DEF statementLines
  <2> QED BY <2>3, <2>4, OneReads
<1> QED
  BY <1>1, <1>2

\* What a call that is under way knows of its input.
LEMMA InputIsKnown ==
  ASSUME FindingsInv, NEW c \in Caller,
         call[c].phase \in {"read", "compared", "inserted", "lost"}
  PROVE  /\ InTables(call[c].input)
         /\ call[c] \in [phase : {"read", "compared", "inserted", "lost"}, input : Input]
<1>1. ReadsTables(call[c]) /\ call[c] \in CallState
  BY WhatFindingsInvSays DEF Knowledge, ReconciliationInv, RunsTypeOK
<1> QED
  BY <1>1, CallForms DEF ReadsTables

LEMMA RepliesKeepKnowledge ==
  ASSUME FindingsInv, NEW c \in Caller, already(c) \/ readWinner(c)
  PROVE  Knowledge' /\ FindingsTypeOK'
<1>1. PICK k : call' = [call EXCEPT ![c] = k]
               /\ (k.phase \in {"returned", "vanished"} \/ k = [call[c] EXCEPT !.phase = "compared"])
  BY DEF already, readWinner, Return
<1>2. /\ InTables(call[c].input)
      /\ call[c] \in [phase : {"read", "compared", "inserted", "lost"}, input : Input]
  BY InputIsKnown DEF already, readWinner
<1>3. ReadsTables(k)
  BY <1>1, <1>2 DEF ReadsTables
<1>4. UNCHANGED << tables, runs >>
  BY DEF already, readWinner
<1> QED
  BY <1>1, <1>3, <1>4, OneReads

LEMMA InsertRunKeepsKnowledge ==
  ASSUME FindingsInv, NEW c \in Caller, insertRun(c)
  PROVE  Knowledge' /\ FindingsTypeOK'
<1>1. /\ InTables(call[c].input) /\ call[c].phase = "compared"
      /\ call[c] \in [phase : {"read", "compared", "inserted", "lost"}, input : Input]
  BY InputIsKnown DEF insertRun
<1>2. CASE inTheWay(call[c].input) # {}
  <2>1. PICK k : k = [call[c] EXCEPT !.phase = "lost"]
    OBVIOUS
  <2>2. ReadsTables(k)
    BY <1>1, <2>1 DEF ReadsTables
  <2>3. call' = [call EXCEPT ![c] = k] /\ UNCHANGED << tables, runs >>
    BY <1>2, <2>1 DEF insertRun, runs
  <2> QED BY <2>2, <2>3, OneReads
<1>3. CASE inTheWay(call[c].input) = {}
  <2>1. PICK k, run, findings : /\ k = [call[c] EXCEPT !.phase = "inserted"]
                                /\ run = [input |-> call[c].input, committed |-> FALSE]
                                /\ findings = reconciliation_discrepancy[c]
    OBVIOUS
  <2>2. ReadsTables(k)
    BY <1>1, <2>1 DEF ReadsTables
  <2>3. OfTheTables(run, findings)
    <3>1. run.input = call[c].input
      BY <2>1
    <3>2. ~ run.committed
      BY <2>1, Zenon
    <3> QED BY <1>1, <3>1, <3>2 DEF OfTheTables
  <2>4. /\ call' = [call EXCEPT ![c] = k] /\ UNCHANGED tables
        /\ reconciliation_run' = [reconciliation_run EXCEPT ![c] = run]
        /\ UNCHANGED reconciliation_discrepancy
    BY <1>3, <2>1 DEF insertRun
  <2>5. /\ reconciliation_discrepancy' = [reconciliation_discrepancy EXCEPT ![c] = findings]
        /\ findings \in SUBSET Finding
    BY <2>1, <2>4, WhatFindingsInvSays DEF FindingsTypeOK
  <2> QED BY <2>2, <2>3, <2>4, <2>5, OneMoves
<1> QED
  BY <1>2, <1>3

LEMMA FinishKeepsKnowledge ==
  ASSUME FindingsInv, NEW c \in Caller, finish(c)
  PROVE  Knowledge' /\ FindingsTypeOK'
<1>1. /\ InTables(call[c].input) /\ call[c].phase = "inserted"
  BY InputIsKnown DEF finish
<1>2. PICK k, run, findings :
        /\ k = [phase |-> "returned", input |-> call[c].input, run |-> c, replayed |-> FALSE]
        /\ run = [reconciliation_run[c] EXCEPT !.committed = TRUE]
        /\ findings = compare(call[c].input)
  OBVIOUS
<1>3. /\ call' = [call EXCEPT ![c] = k] /\ UNCHANGED tables
      /\ reconciliation_run' = [reconciliation_run EXCEPT ![c] = run]
      /\ reconciliation_discrepancy' = [reconciliation_discrepancy EXCEPT ![c] = findings]
  BY <1>2 DEF finish, Return
<1>4. reconciliation_run[c] \in Run /\ reconciliation_run[c].input = call[c].input
  BY <1>1, WhatFindingsInvSays DEF ReconciliationInv, RunsTypeOK, RunsAreOfTheirCalls
<1>5. run.input = call[c].input
  BY <1>2, <1>4 DEF Run
<1>6. ReadsTables(k) /\ OfTheTables(run, findings)
  BY <1>1, <1>2, <1>5 DEF ReadsTables, OfTheTables
<1>7. findings \in SUBSET Finding
  BY <1>1, <1>2, CompareFinds, WhatFindingsInvSays
<1> QED
  BY <1>3, <1>6, <1>7, OneMoves

LEMMA AbortKeepsKnowledge ==
  ASSUME FindingsInv, NEW c \in Caller, abort(c)
  PROVE  Knowledge' /\ FindingsTypeOK'
<1>1. PICK k, run, findings : /\ k = Idle /\ run = Null
                              /\ findings = reconciliation_discrepancy[c]
  OBVIOUS
<1>2. ReadsTables(k) /\ OfTheTables(run, findings)
  BY <1>1 DEF Idle, ReadsTables, OfTheTables
<1>3. /\ call' = [call EXCEPT ![c] = k] /\ UNCHANGED << tables, reconciliation_discrepancy >>
      /\ reconciliation_run' = [reconciliation_run EXCEPT ![c] = run]
  BY <1>1 DEF abort
<1>4. /\ reconciliation_discrepancy' = [reconciliation_discrepancy EXCEPT ![c] = findings]
      /\ findings \in SUBSET Finding
  BY <1>1, <1>3, WhatFindingsInvSays DEF FindingsTypeOK
<1> QED
  BY <1>2, <1>3, <1>4, OneMoves

LEMMA InitFindingsInv == ReconciliationInit => FindingsInv
<1> SUFFICES ASSUME ReconciliationInit PROVE FindingsInv
  OBVIOUS
<1>1. TablesTypeOK /\ FindingsTypeOK
  BY DEF ReconciliationInit, TablesTypeOK, FindingsTypeOK
<1>2. Recorded = {} /\ Imported = {}
  BY DEF ReconciliationInit, Recorded, Imported
<1>3. TablesAreFinite
  BY <1>2, FS_EmptySet DEF TablesAreFinite
<1>4. Knowledge
  BY DEF ReconciliationInit, Idle, Knowledge, ReadsTables, OfTheTables
<1> QED
  BY <1>1, <1>3, <1>4, InitReconciliationInv, WhatFindingsInvSays

LEMMA StepFindingsInv ==
  FindingsInv /\ [ReconciliationNext]_reconciliationVars => FindingsInv'
<1> SUFFICES ASSUME FindingsInv, [ReconciliationNext]_reconciliationVars PROVE FindingsInv'
  OBVIOUS
<1>1. ReconciliationInv /\ TablesTypeOK /\ TablesAreFinite
  BY WhatFindingsInvSays
<1>2. ReconciliationInv'
  BY <1>1, StepReconciliationInv
<1>3. RowsStay /\ TablesAreFinite' /\ TablesTypeOK' /\ Knowledge' /\ FindingsTypeOK'
  <2>1. ASSUME UNCHANGED tables
        PROVE  RowsStay /\ TablesAreFinite' /\ TablesTypeOK'
    BY <1>1, <2>1, TablesStay
  <2>2. CASE UNCHANGED reconciliationVars
    <3>1. UNCHANGED << tables, runs, call >>
      BY <2>2 DEF reconciliationVars, tables, runs
    <3> QED BY <2>1, <3>1, NobodyMoves
  <2>3. ASSUME NEW e \in Expectation, NEW ref \in Ref, NEW terms \in Terms,
               NEW s \in Recorded \cup {Null}, expect(e, ref, terms, s)
        PROVE  RowsStay /\ TablesAreFinite' /\ TablesTypeOK' /\ Knowledge' /\ FindingsTypeOK'
    <3>1. RowsStay /\ TablesAreFinite' /\ TablesTypeOK'
      BY <1>1, <2>3, ExpectGrows
    <3>2. UNCHANGED << runs, call >>
      BY <2>3 DEF expect
    <3> QED BY <3>1, <3>2, NobodyMoves
  <2>4. ASSUME NEW l \in Line, NEW ref \in Ref, NEW report \in Report, import(l, ref, report)
        PROVE  RowsStay /\ TablesAreFinite' /\ TablesTypeOK' /\ Knowledge' /\ FindingsTypeOK'
    <3>1. RowsStay /\ TablesAreFinite' /\ TablesTypeOK'
      BY <1>1, <2>4, ImportGrows
    <3>2. UNCHANGED << runs, call >>
      BY <2>4 DEF import
    <3> QED BY <3>1, <3>2, NobodyMoves
  <2>5. ASSUME NEW c \in Caller, CallStep(c)
        PROVE  UNCHANGED tables /\ Knowledge' /\ FindingsTypeOK'
    <3>1. UNCHANGED tables
      BY <2>5 DEF CallStep, reconcile, statementLines, already, insertRun, finish, readWinner,
                  abort
    <3>2. Knowledge' /\ FindingsTypeOK'
      BY <2>5, ReadingKeepsKnowledge, RepliesKeepKnowledge, InsertRunKeepsKnowledge,
         FinishKeepsKnowledge, AbortKeepsKnowledge DEF CallStep
    <3> QED BY <3>1, <3>2
  <2> QED
    BY <2>1, <2>2, <2>3, <2>4, <2>5 DEF ReconciliationNext
<1>4. (ReconciliationInv /\ TablesTypeOK /\ FindingsTypeOK /\ TablesAreFinite /\ Knowledge)'
        => FindingsInv'
  BY WhatFindingsInvSays, PTL
<1> QED
  BY <1>2, <1>3, <1>4

\* What the findings of a run rest on, in every state.
THEOREM FindingsInvariance == ReconciliationSpec => []FindingsInv
BY InitFindingsInv, StepFindingsInv, PTL DEF ReconciliationSpec

\* Every row of the two sides that a run compared is matched or reported.
THEOREM NothingIsDroppedSilently == ReconciliationSpec => []EveryRowIsAccountedFor
BY FindingsInvariance, AllIsAccountedFor, PTL

=============================================================================
