--------------------------- MODULE ReceiptsProofs ---------------------------
(***************************************************************************)
(* What is proved of Receipts for every set of keys, bodies, sessions,     *)
(* processes and calls, and every capacity of the maps.                    *)
(***************************************************************************)
EXTENDS Receipts, FiniteSetTheorems, TLAPS

LEMMA InitReceiptsInv == Init => ReceiptsInv
BY ReceiptsAssumption
   DEF Init, ReceiptsInv, TypeOK, OwnerInv, InsideInv, OutcomesInv, AppliedAtMostOnce, Works,
       Inside, Tells, Phase, Ask

\* What a call in flight asks.
LEMMA Asks ==
  ASSUME ReceiptsInv, NEW c \in Call, phase[c] # "idle"
  PROVE  /\ ask[c] \in Ask
         /\ ask[c].process \in Process /\ ask[c].key \in Key /\ ask[c].body \in Body
         /\ fingerprintOf(c) \in Fingerprint
BY DEF ReceiptsInv, TypeOK, OwnerInv, Ask, fingerprintOf, Fingerprint

\* An outcome that is told of a key stays true when no operation begins on the
\* key, its receipt stays, and its writes stay but for those of an operation.
LEMMA TellsKept ==
  ASSUME NEW o, NEW l \in Key, NEW body, Tells(o, l, body),
         receipt[l] # None => receipt'[l] # None,
         \A d \in Call : phase'[d] = "operation" =>
           ask'[d].key # l \/ (phase[d] = "operation" /\ ask[d].key = l)
                           \/ (o = "refused" => receipt[l] = None),
         \/ applied'[l] = applied[l]
         \/ applied[l] = <<>> /\ \E d \in Call : phase[d] = "operation" /\ ask[d].key = l
  PROVE  Tells(o, l, body)'
BY DEF Tells

(***************************************************************************)
(* A response.  What remains to be shown of an action that ends in one is  *)
(* that the receipt and the writes under its key are as the reply tells.   *)
(***************************************************************************)

LEMMA RespondKeeps ==
  ASSUME ReceiptsInv, NEW c \in Call, Works(c), NEW reply \in Reply, respond(c, reply),
         receipt' \in [Key -> Receipt \cup {None}],
         applied' \in [Key -> Seq(Write)],
         \A l \in Key : l # ask[c].key => receipt'[l] = receipt[l] /\ applied'[l] = applied[l],
         phase[c] # "operation" => applied'[ask[c].key] = applied[ask[c].key],
         Inside(c) \/ receipt'[ask[c].key] = receipt[ask[c].key] \/ receipt[ask[c].key] = None,
         receipt'[ask[c].key] = None => receipt[ask[c].key] = None /\ ~ Inside(c),
         Len(applied'[ask[c].key]) <= 1,
         (receipt[ask[c].key] # None =>
            Tells(receipt[ask[c].key].outcome, ask[c].key, receipt[ask[c].key].request_hash))',
         Tells(reply, ask[c].key, ask[c].body)'
  PROVE  ReceiptsInv'
<1> DEFINE p == ask[c].process
           k == ask[c].key
<1>1. /\ phase[c] # "idle" /\ p \in Process /\ k \in Key /\ ask[c].body \in Body
      /\ ask[c] \in Ask /\ fingerprintOf(c) \in Fingerprint
  BY Asks DEF Works
<1>2. /\ phase \in [Call -> Phase] /\ result \in [Call -> {"none"} \cup Reply]
      /\ ask \in [Call -> Ask \cup {None}]
      /\ entries \in [Process -> [Key -> Entry \cup {None}]]
      /\ receipt \in [Key -> Receipt \cup {None}]
  BY DEF ReceiptsInv, TypeOK
<1>3. /\ phase' = [phase EXCEPT ![c] = "answered"] /\ result' = [result EXCEPT ![c] = reply]
      /\ ask' = ask
      /\ entries' = [entries EXCEPT ![p][k] = [fingerprint |-> fingerprintOf(c), outcome |-> reply]]
  BY DEF respond, answer
<1>4. [fingerprint |-> fingerprintOf(c), outcome |-> reply] \in Entry
  BY <1>1 DEF Entry
<1>5. /\ entries'[p][k] = [fingerprint |-> fingerprintOf(c), outcome |-> reply]
      /\ \A q \in Process, l \in Key : q # p \/ l # k => entries'[q][l] = entries[q][l]
  BY <1>1, <1>2, <1>3
<1>6. \A d \in Call : IF d = c THEN phase'[d] = "answered" /\ result'[d] = reply
                      ELSE phase'[d] = phase[d] /\ result'[d] = result[d]
  BY <1>2, <1>3
<1>7. TypeOK'
  <2>1. entries' \in [Process -> [Key -> Entry \cup {None}]]
    BY <1>1, <1>2, <1>3, <1>4
  <2> QED
    BY <1>2, <1>3, <2>1 DEF TypeOK, Phase
<1>8. /\ \A d \in Call : Works(d)' <=> d # c /\ Works(d)
      /\ \A d \in Call : Inside(d)' <=> d # c /\ Inside(d)
      /\ \A d \in Call : fingerprintOf(d)' = fingerprintOf(d)
  BY <1>3, <1>6 DEF Works, Inside, fingerprintOf
<1>9. OwnerInv'
  <2>1. ASSUME NEW d \in Call, Works(d)'
        PROVE  entries'[ask'[d].process][ask'[d].key]
                 = [fingerprint |-> fingerprintOf(d)', outcome |-> "pending"]
    <3>1. d # c /\ Works(d) /\ phase[d] # "idle"
      BY <1>8, <2>1 DEF Works
    <3>2. ask[d].process \in Process /\ ask[d].key \in Key
      BY <3>1, Asks
    <3>3. ask[d].process # p \/ ask[d].key # k
      BY <3>1 DEF ReceiptsInv, OwnerInv
    <3>4. entries[ask[d].process][ask[d].key] = [fingerprint |-> fingerprintOf(d), outcome |-> "pending"]
      BY <3>1 DEF ReceiptsInv, OwnerInv
    <3> QED
      BY <1>3, <1>5, <1>8, <3>2, <3>3, <3>4
  <2>2. \A d, e \in Call :
          Works(d)' /\ Works(e)' /\ ask'[d].process = ask'[e].process /\ ask'[d].key = ask'[e].key
            => d = e
    BY <1>3, <1>8 DEF ReceiptsInv, OwnerInv
  <2>3. ASSUME NEW d \in Call, phase'[d] = "waiting"
        PROVE  /\ entries'[ask'[d].process][ask'[d].key] # None
               /\ entries'[ask'[d].process][ask'[d].key].fingerprint = fingerprintOf(d)'
    <3>1. d # c /\ phase[d] = "waiting"
      BY <1>6, <2>3
    <3>2. ask[d].process \in Process /\ ask[d].key \in Key
      BY <3>1, Asks
    <3>3. /\ entries[ask[d].process][ask[d].key] # None
          /\ entries[ask[d].process][ask[d].key].fingerprint = fingerprintOf(d)
      BY <3>1 DEF ReceiptsInv, OwnerInv
    <3>4. entries[p][k] = [fingerprint |-> fingerprintOf(c), outcome |-> "pending"]
      BY DEF ReceiptsInv, OwnerInv
    <3>5. CASE ask[d].process = p /\ ask[d].key = k
      BY <1>3, <1>4, <1>5, <1>8, <3>3, <3>4, <3>5, ReceiptsAssumption
    <3>6. CASE ask[d].process # p \/ ask[d].key # k
      BY <1>3, <1>5, <1>8, <3>2, <3>3, <3>6
    <3> QED
      BY <3>5, <3>6
  <2>4. \A d \in Call : phase'[d] # "idle" => ask'[d] # None
    BY <1>1, <1>3, <1>6, ReceiptsAssumption DEF ReceiptsInv, OwnerInv
  <2> QED
    BY <2>1, <2>2, <2>3, <2>4 DEF OwnerInv
<1>10. InsideInv'
  <2>1. ASSUME NEW d \in Call, Inside(d)'
        PROVE  /\ receipt'[ask'[d].key] = [request_hash |-> ask'[d].body, outcome |-> "started"]
               /\ phase'[d] = "operation" => applied'[ask'[d].key] = <<>>
    <3>1. d # c /\ Inside(d) /\ phase'[d] = phase[d] /\ phase[d] # "idle"
      BY <1>6, <1>8, <2>1 DEF Inside
    <3>2. ask[d].key \in Key /\ ask[d].body \in Body
      BY <3>1, Asks
    <3>3. receipt[ask[d].key] = [request_hash |-> ask[d].body, outcome |-> "started"]
      BY <3>1 DEF ReceiptsInv, InsideInv
    <3>4. receipt[ask[d].key] # None
      BY <3>2, <3>3, ReceiptsAssumption DEF Receipt
    <3>5. Inside(c) => ask[d].key # k
      BY <3>1 DEF ReceiptsInv, InsideInv
    <3>6. /\ receipt'[ask[d].key] = receipt[ask[d].key]
          /\ applied'[ask[d].key] = applied[ask[d].key]
      BY <3>2, <3>4, <3>5 DEF Inside
    <3>7. phase[d] = "operation" => applied[ask[d].key] = <<>>
      BY DEF ReceiptsInv, InsideInv
    <3> QED
      BY <1>3, <3>1, <3>3, <3>6, <3>7
  <2>2. \A d, e \in Call :
          Inside(d)' /\ Inside(e)' /\ ask'[d].key = ask'[e].key => d = e
    BY <1>3, <1>8 DEF ReceiptsInv, InsideInv
  <2>3. \A d \in Call : phase'[d] = "operation" => Inside(d)'
    BY DEF Inside
  <2>4. \A l \in Key : receipt'[l] = None => applied'[l] = <<>>
    BY DEF ReceiptsInv, InsideInv, Inside
  <2> QED
    BY <2>1, <2>2, <2>3, <2>4 DEF InsideInv
<1>11. OutcomesInv'
  <2>1. ASSUME NEW l \in Key, NEW body, NEW o, Tells(o, l, body)
        PROVE  Tells(o, l, body)'
    <3>1. receipt[l] # None => receipt'[l] # None
      OBVIOUS
    <3>2. \A d \in Call : phase'[d] = "operation" =>
            ask'[d].key # l \/ (phase[d] = "operation" /\ ask[d].key = l)
      BY <1>3, <1>6
    <3>3. \/ applied'[l] = applied[l]
          \/ applied[l] = <<>> /\ \E d \in Call : phase[d] = "operation" /\ ask[d].key = l
      BY DEF ReceiptsInv, InsideInv
    <3> QED
      BY <2>1, <3>1, <3>2, <3>3, TellsKept
  <2>2. ASSUME NEW l \in Key, receipt'[l] # None
        PROVE  Tells(receipt[l].outcome, l, receipt[l].request_hash)'
    <3>1. CASE l = k
      BY <1>3, <2>2, <3>1 DEF Tells
    <3>2. CASE l # k
      <4>1. receipt'[l] = receipt[l]
        BY <3>2
      <4>2. Tells(receipt[l].outcome, l, receipt[l].request_hash)
        BY <2>2, <4>1 DEF ReceiptsInv, OutcomesInv
      <4>3. PICK o, b : o = receipt[l].outcome /\ b = receipt[l].request_hash
        OBVIOUS
      <4>4. Tells(o, l, b)'
        BY <2>1, <4>2, <4>3
      <4> QED
        BY <4>1, <4>3, <4>4 DEF Tells
    <3> QED
      BY <3>1, <3>2
  <2>3. ASSUME NEW q \in Process, NEW l \in Key, entries'[q][l] # None
        PROVE  Tells(entries[q][l].outcome, l, entries[q][l].fingerprint.body)'
    <3>1. CASE q = p /\ l = k
      <4>1. /\ entries'[q][l].outcome = reply /\ entries'[q][l].fingerprint = fingerprintOf(c)
            /\ fingerprintOf(c).body = ask[c].body /\ ask' = ask
        BY <1>3, <1>5, <3>1 DEF fingerprintOf
      <4> QED
        BY <3>1, <4>1 DEF Tells
    <3>2. CASE q # p \/ l # k
      <4>1. entries'[q][l] = entries[q][l]
        BY <1>5, <3>2
      <4>2. Tells(entries[q][l].outcome, l, entries[q][l].fingerprint.body)
        BY <2>3, <4>1 DEF ReceiptsInv, OutcomesInv
      <4>3. PICK o, b : o = entries[q][l].outcome /\ b = entries[q][l].fingerprint.body
        OBVIOUS
      <4>4. Tells(o, l, b)'
        BY <2>1, <4>2, <4>3
      <4> QED
        BY <4>1, <4>3, <4>4 DEF Tells
    <3> QED
      BY <3>1, <3>2
  <2>4. ASSUME NEW d \in Call, phase'[d] \in {"complete", "answered"}
        PROVE  Tells(result[d], ask[d].key, ask[d].body)'
    <3>1. CASE d = c
      BY <1>3, <1>6, <3>1 DEF Tells
    <3>2. CASE d # c
      <4>1. phase[d] \in {"complete", "answered"} /\ result'[d] = result[d] /\ ask'[d] = ask[d]
        BY <1>3, <1>6, <2>4, <3>2
      <4>2. Tells(result[d], ask[d].key, ask[d].body) /\ ask[d].key \in Key
        BY <4>1, Asks DEF ReceiptsInv, OutcomesInv
      <4>3. PICK o, l, b : o = result[d] /\ l = ask[d].key /\ b = ask[d].body
        OBVIOUS
      <4>4. Tells(o, l, b)'
        BY <2>1, <4>2, <4>3
      <4> QED
        BY <4>1, <4>3, <4>4 DEF Tells
    <3> QED
      BY <3>1, <3>2
  <2>5. \A d \in Call : phase'[d] = "complete" => result'[d] \in {"ok", "refused"}
    BY <1>6 DEF ReceiptsInv, OutcomesInv
  <2> QED
    BY <2>2, <2>3, <2>4, <2>5 DEF OutcomesInv
<1>12. AppliedAtMostOnce'
  BY DEF ReceiptsInv, AppliedAtMostOnce
<1> QED
  BY <1>7, <1>9, <1>10, <1>11, <1>12 DEF ReceiptsInv

(***************************************************************************)
(* The actions.                                                            *)
(***************************************************************************)

LEMMA ClaimKeeps ==
  ASSUME ReceiptsInv, NEW c \in Call, NEW p \in Process, NEW k \in Key, NEW b \in Body,
         NEW s \in Session, claim(c, p, k, b, s)
  PROVE  ReceiptsInv'
<1> DEFINE new   == [process |-> p, key |-> k, body |-> b, session |-> s]
           print == [body |-> b, session |-> s]
           fresh == [fingerprint |-> print, outcome |-> "pending"]
<1>1. /\ phase \in [Call -> Phase] /\ result \in [Call -> {"none"} \cup Reply]
      /\ ask \in [Call -> Ask \cup {None}]
      /\ entries \in [Process -> [Key -> Entry \cup {None}]]
      /\ phase[c] = "idle" /\ receipt' = receipt /\ applied' = applied
      /\ ask' = [ask EXCEPT ![c] = new]
  BY DEF ReceiptsInv, TypeOK, claim
<1>2. new \in Ask /\ new # None /\ fresh \in Entry /\ fresh # None /\ print \in Fingerprint
  BY ReceiptsAssumption DEF Ask, Entry, Fingerprint
<1>3. \E next \in {"admit", "answered", "waiting"}, reply \in {"none"} \cup Reply :
        /\ phase' = [phase EXCEPT ![c] = next] /\ result' = [result EXCEPT ![c] = reply]
        /\ \/ /\ next = "admit" /\ entries[p][k] = None
              /\ entries' = [entries EXCEPT ![p][k] = fresh]
           \/ /\ next = "waiting" /\ entries[p][k] # None /\ entries[p][k].fingerprint = print
              /\ entries' = entries
           \/ /\ next = "answered" /\ reply \in {"unavailable", "rejected"}
              /\ entries' = entries
           \/ /\ next = "answered" /\ entries[p][k] # None
              /\ entries[p][k].fingerprint = print /\ entries[p][k].outcome = reply
              /\ entries' = entries
  <2>1. entries[p][k] # None => entries[p][k].outcome \in {"pending"} \cup Reply
    BY <1>1 DEF Entry
  <2> QED
    BY <1>1, <2>1 DEF claim, Reply
<1>4. PICK next \in {"admit", "answered", "waiting"}, reply \in {"none"} \cup Reply :
        /\ phase' = [phase EXCEPT ![c] = next] /\ result' = [result EXCEPT ![c] = reply]
        /\ \/ /\ next = "admit" /\ entries[p][k] = None
              /\ entries' = [entries EXCEPT ![p][k] = fresh]
           \/ /\ next = "waiting" /\ entries[p][k] # None /\ entries[p][k].fingerprint = print
              /\ entries' = entries
           \/ /\ next = "answered" /\ reply \in {"unavailable", "rejected"}
              /\ entries' = entries
           \/ /\ next = "answered" /\ entries[p][k] # None
              /\ entries[p][k].fingerprint = print /\ entries[p][k].outcome = reply
              /\ entries' = entries
  BY <1>3
<1>5. \A d \in Call : IF d = c
                      THEN phase'[d] = next /\ result'[d] = reply /\ ask'[d] = new
                      ELSE phase'[d] = phase[d] /\ result'[d] = result[d] /\ ask'[d] = ask[d]
  BY <1>1, <1>4
<1>6. \/ entries' = entries /\ next # "admit"
      \/ /\ next = "admit" /\ entries[p][k] = None /\ entries'[p][k] = fresh
         /\ \A q \in Process, l \in Key : q # p \/ l # k => entries'[q][l] = entries[q][l]
  BY <1>1, <1>4
<1>7. /\ \A d \in Call : d # c => /\ Works(d)' <=> Works(d)
                                 /\ fingerprintOf(d)' = fingerprintOf(d)
      /\ \A d \in Call : Inside(d)' <=> Inside(d)
      /\ \A d \in Call : Inside(d) => d # c
      /\ Works(c)' <=> next = "admit"
      /\ fingerprintOf(c)' = print
  BY <1>1, <1>5 DEF Works, Inside, fingerprintOf
<1>8. TypeOK'
  <2>1. entries' \in [Process -> [Key -> Entry \cup {None}]]
    BY <1>1, <1>2, <1>4
  <2> QED
    BY <1>1, <1>2, <1>4, <2>1 DEF TypeOK, ReceiptsInv, Phase
<1>9. OwnerInv'
  \* Nobody else works at an entry that was free.
  <2>1. ASSUME NEW d \in Call, d # c, Works(d)
        PROVE  /\ ask[d].process \in Process /\ ask[d].key \in Key
               /\ entries[ask[d].process][ask[d].key]
                    = [fingerprint |-> fingerprintOf(d), outcome |-> "pending"]
               /\ entries[ask[d].process][ask[d].key] # None
    <3>1. /\ ask[d].process \in Process /\ ask[d].key \in Key /\ fingerprintOf(d) \in Fingerprint
          /\ entries[ask[d].process][ask[d].key]
               = [fingerprint |-> fingerprintOf(d), outcome |-> "pending"]
      BY <2>1, Asks DEF ReceiptsInv, OwnerInv, Works
    <3> QED
      BY <3>1, ReceiptsAssumption DEF Entry
  <2>2. ASSUME NEW d \in Call, Works(d)'
        PROVE  entries'[ask'[d].process][ask'[d].key]
                 = [fingerprint |-> fingerprintOf(d)', outcome |-> "pending"]
    <3>1. CASE d = c
      BY <1>5, <1>6, <1>7, <2>2, <3>1
    <3>2. CASE d # c
      BY <1>5, <1>6, <1>7, <2>1, <2>2, <3>2
    <3> QED
      BY <3>1, <3>2
  <2>3. ASSUME NEW d \in Call, NEW e \in Call, Works(d)', Works(e)',
               ask'[d].process = ask'[e].process, ask'[d].key = ask'[e].key
        PROVE  d = e
    <3>1. CASE d # c /\ e # c
      BY <1>5, <1>7, <2>3, <3>1 DEF ReceiptsInv, OwnerInv
    <3>2. ASSUME NEW x \in Call, x # c, Works(c)', Works(x)',
                 ask'[x].process = ask'[c].process, ask'[x].key = ask'[c].key
          PROVE  FALSE
      <4>1. entries[ask[x].process][ask[x].key] # None
        BY <1>7, <2>1, <3>2
      <4>2. ask[x].process = p /\ ask[x].key = k
        BY <1>5, <3>2
      <4> QED
        BY <1>6, <1>7, <3>2, <4>1, <4>2
    <3> QED
      BY <2>3, <3>1, <3>2
  <2>4. ASSUME NEW d \in Call, phase'[d] = "waiting"
        PROVE  /\ entries'[ask'[d].process][ask'[d].key] # None
               /\ entries'[ask'[d].process][ask'[d].key].fingerprint = fingerprintOf(d)'
    <3>1. CASE d = c
      BY <1>4, <1>5, <1>7, <2>4, <3>1
    <3>2. CASE d # c
      <4>1. phase[d] = "waiting" /\ ask'[d] = ask[d] /\ fingerprintOf(d)' = fingerprintOf(d)
        BY <1>5, <1>7, <2>4, <3>2
      <4>2. /\ ask[d].process \in Process /\ ask[d].key \in Key
            /\ entries[ask[d].process][ask[d].key] # None
            /\ entries[ask[d].process][ask[d].key].fingerprint = fingerprintOf(d)
        BY <4>1, Asks DEF ReceiptsInv, OwnerInv
      <4> QED
        BY <1>6, <4>1, <4>2
    <3> QED
      BY <3>1, <3>2
  <2>5. \A d \in Call : phase'[d] # "idle" => ask'[d] # None
    BY <1>2, <1>5 DEF ReceiptsInv, OwnerInv
  <2> QED
    BY <2>2, <2>3, <2>4, <2>5 DEF OwnerInv
<1>10. InsideInv'
  BY <1>1, <1>5, <1>7 DEF ReceiptsInv, InsideInv, Inside
<1>11. OutcomesInv'
  <2>1. ASSUME NEW l \in Key, NEW body, NEW o, Tells(o, l, body)
        PROVE  Tells(o, l, body)'
    BY <1>1, <1>5, <2>1 DEF Tells
  <2>2. ASSUME NEW l \in Key, receipt'[l] # None
        PROVE  Tells(receipt[l].outcome, l, receipt[l].request_hash)'
    <3>1. PICK o, body : o = receipt[l].outcome /\ body = receipt[l].request_hash
      OBVIOUS
    <3>2. Tells(o, l, body)
      BY <1>1, <2>2, <3>1 DEF ReceiptsInv, OutcomesInv
    <3> QED
      BY <1>1, <2>1, <3>1, <3>2 DEF Tells
  <2>3. ASSUME NEW q \in Process, NEW l \in Key, entries'[q][l] # None
        PROVE  Tells(entries[q][l].outcome, l, entries[q][l].fingerprint.body)'
    <3>1. CASE entries'[q][l] = entries[q][l]
      <4>1. PICK o, body : o = entries[q][l].outcome /\ body = entries[q][l].fingerprint.body
        OBVIOUS
      <4>2. Tells(o, l, body)
        BY <2>3, <3>1, <4>1 DEF ReceiptsInv, OutcomesInv
      <4> QED
        BY <2>1, <3>1, <4>1, <4>2 DEF Tells
    <3>2. CASE entries'[q][l] = fresh
      BY <3>2 DEF Tells
    <3> QED
      BY <1>6, <3>1, <3>2
  <2>4. ASSUME NEW d \in Call, phase'[d] \in {"complete", "answered"}
        PROVE  Tells(result[d], ask[d].key, ask[d].body)'
    <3>1. CASE d = c /\ reply \in {"unavailable", "rejected"}
      BY <1>5, <3>1 DEF Tells
    <3>2. CASE d = c /\ reply \notin {"unavailable", "rejected"}
      <4>1. /\ entries[p][k] # None /\ entries[p][k].outcome = reply
            /\ entries[p][k].fingerprint = print
        BY <1>4, <1>5, <2>4, <3>2
      <4>2. Tells(reply, k, b)
        BY <4>1 DEF ReceiptsInv, OutcomesInv
      <4>3. Tells(reply, k, b)'
        BY <2>1, <4>2
      <4>4. result'[d] = reply /\ ask'[d].key = k /\ ask'[d].body = b
        BY <1>5, <3>2
      <4> QED
        BY <4>3, <4>4 DEF Tells
    <3>3. CASE d # c
      <4>1. phase[d] \in {"complete", "answered"} /\ result'[d] = result[d] /\ ask'[d] = ask[d]
        BY <1>5, <2>4, <3>3
      <4>2. Tells(result[d], ask[d].key, ask[d].body) /\ ask[d].key \in Key
        BY <4>1, Asks DEF ReceiptsInv, OutcomesInv
      <4>3. PICK o, l, body : o = result[d] /\ l = ask[d].key /\ body = ask[d].body
        OBVIOUS
      <4>4. Tells(o, l, body)'
        BY <2>1, <4>2, <4>3
      <4> QED
        BY <4>1, <4>3, <4>4 DEF Tells
    <3> QED
      BY <3>1, <3>2, <3>3
  <2>5. \A d \in Call : phase'[d] = "complete" => result'[d] \in {"ok", "refused"}
    BY <1>5 DEF ReceiptsInv, OutcomesInv
  <2> QED
    BY <2>2, <2>3, <2>4, <2>5 DEF OutcomesInv
<1>12. AppliedAtMostOnce'
  BY <1>1 DEF ReceiptsInv, AppliedAtMostOnce
<1> QED
  BY <1>8, <1>9, <1>10, <1>11, <1>12 DEF ReceiptsInv

LEMMA AwaitKeeps ==
  ASSUME ReceiptsInv, NEW c \in Call, awaitOwner(c)
  PROVE  ReceiptsInv'
<1> DEFINE entry == entries[ask[c].process][ask[c].key]
<1>1. /\ phase[c] = "waiting" /\ ask[c] \in Ask /\ ask[c].process \in Process /\ ask[c].key \in Key
      /\ entry # None /\ entry.fingerprint = fingerprintOf(c) /\ entry \in Entry
      /\ entries' = entries /\ receipt' = receipt /\ applied' = applied /\ ask' = ask
  BY Asks DEF awaitOwner, answer, ReceiptsInv, TypeOK, OwnerInv
<1>2. entry.outcome # "pending" => entry.outcome \in Reply
  BY <1>1 DEF Entry
<1>3. PICK reply \in Reply :
        /\ phase' = [phase EXCEPT ![c] = "answered"] /\ result' = [result EXCEPT ![c] = reply]
        /\ reply = "unavailable" \/ reply = entry.outcome
  BY <1>2 DEF awaitOwner, answer, Reply
<1>4. \A d \in Call : IF d = c THEN phase'[d] = "answered" /\ result'[d] = reply
                      ELSE phase'[d] = phase[d] /\ result'[d] = result[d]
  BY <1>3 DEF ReceiptsInv, TypeOK
<1>5. /\ \A d \in Call : Works(d)' <=> Works(d)
      /\ \A d \in Call : Inside(d)' <=> Inside(d)
      /\ \A d \in Call : fingerprintOf(d)' = fingerprintOf(d)
  BY <1>1, <1>4 DEF Works, Inside, fingerprintOf
<1>6. TypeOK'
  BY <1>1, <1>3 DEF ReceiptsInv, TypeOK, Phase
<1>7. OwnerInv'
  BY <1>1, <1>4, <1>5 DEF ReceiptsInv, OwnerInv
<1>8. InsideInv'
  BY <1>1, <1>4, <1>5 DEF ReceiptsInv, InsideInv
<1>9. OutcomesInv'
  <2>1. \A d \in Call : phase'[d] = "operation" <=> phase[d] = "operation"
    BY <1>1, <1>4
  <2>3. Tells(reply, ask[c].key, ask[c].body)
    <3>1. CASE reply = "unavailable"
      BY <3>1 DEF Tells
    <3>2. CASE reply = entry.outcome
      BY <1>1, <3>2 DEF ReceiptsInv, OutcomesInv, fingerprintOf
    <3> QED
      BY <1>3, <3>1, <3>2
  <2>4. Tells(reply, ask[c].key, ask[c].body)'
    BY <1>1, <2>1, <2>3 DEF Tells
  <2>5. \A k \in Key : receipt'[k] # None =>
          Tells(receipt[k].outcome, k, receipt[k].request_hash)'
    BY <1>1, <2>1 DEF ReceiptsInv, OutcomesInv, Tells
  <2>6. \A p \in Process, k \in Key : entries'[p][k] # None =>
          Tells(entries[p][k].outcome, k, entries[p][k].fingerprint.body)'
    BY <1>1, <2>1 DEF ReceiptsInv, OutcomesInv, Tells
  <2>7. ASSUME NEW d \in Call, phase'[d] \in {"complete", "answered"}
        PROVE  Tells(result[d], ask[d].key, ask[d].body)'
    <3>1. CASE d = c
      BY <1>4, <2>4, <3>1 DEF Tells
    <3>2. CASE d # c
      <4>1. phase[d] \in {"complete", "answered"} /\ result'[d] = result[d]
        BY <1>4, <2>7, <3>2
      <4>2. Tells(result[d], ask[d].key, ask[d].body)
        BY <4>1 DEF ReceiptsInv, OutcomesInv
      <4> QED
        BY <1>1, <2>1, <4>1, <4>2 DEF Tells
    <3> QED
      BY <3>1, <3>2
  <2>8. \A d \in Call : phase'[d] = "complete" => result'[d] \in {"ok", "refused"}
    BY <1>4 DEF ReceiptsInv, OutcomesInv
  <2> QED
    BY <2>5, <2>6, <2>7, <2>8 DEF OutcomesInv
<1> QED
  BY <1>1, <1>6, <1>7, <1>8, <1>9 DEF ReceiptsInv, AppliedAtMostOnce

\* Outcomes stay told when calls only go away and entries are only dropped.
LEMMA OutcomesShrink ==
  ASSUME ReceiptsInv, receipt' = receipt, applied' = applied,
         \A d \in Call : phase'[d] # "idle" =>
           phase'[d] = phase[d] /\ result'[d] = result[d] /\ ask'[d] = ask[d],
         \A q \in Process, l \in Key : entries'[q][l] # None => entries'[q][l] = entries[q][l]
  PROVE  OutcomesInv'
<1>1. ASSUME NEW l \in Key, NEW o, NEW body, Tells(o, l, body)
      PROVE  Tells(o, l, body)'
  BY <1>1 DEF Tells
<1>2. ASSUME NEW l \in Key, receipt'[l] # None
      PROVE  Tells(receipt[l].outcome, l, receipt[l].request_hash)'
  <2>1. PICK o, body : o = receipt[l].outcome /\ body = receipt[l].request_hash
    OBVIOUS
  <2>2. Tells(o, l, body)
    BY <1>2, <2>1 DEF ReceiptsInv, OutcomesInv
  <2> QED
    BY <1>1, <2>1, <2>2 DEF Tells
<1>3. ASSUME NEW q \in Process, NEW l \in Key, entries'[q][l] # None
      PROVE  Tells(entries[q][l].outcome, l, entries[q][l].fingerprint.body)'
  <2>1. PICK o, body : o = entries[q][l].outcome /\ body = entries[q][l].fingerprint.body
    OBVIOUS
  <2>2. Tells(o, l, body) /\ entries'[q][l] = entries[q][l]
    BY <1>3, <2>1 DEF ReceiptsInv, OutcomesInv
  <2> QED
    BY <1>1, <2>1, <2>2 DEF Tells
<1>4. ASSUME NEW d \in Call, phase'[d] \in {"complete", "answered"}
      PROVE  Tells(result[d], ask[d].key, ask[d].body)'
  <2>1. phase[d] \in {"complete", "answered"} /\ result'[d] = result[d] /\ ask'[d] = ask[d]
    BY <1>4
  <2>2. PICK o, l, body : o = result[d] /\ l = ask[d].key /\ body = ask[d].body
    OBVIOUS
  <2>3. Tells(o, l, body) /\ l \in Key
    BY <2>1, <2>2, Asks DEF ReceiptsInv, OutcomesInv
  <2>4. Tells(o, l, body)'
    BY <1>1, <2>3
  <2> QED
    BY <2>1, <2>2, <2>4 DEF Tells
<1>5. \A d \in Call : phase'[d] = "complete" => result'[d] \in {"ok", "refused"}
  BY DEF ReceiptsInv, OutcomesInv
<1> QED
  BY <1>2, <1>3, <1>4, <1>5 DEF OutcomesInv

LEMMA ForgetKeeps ==
  ASSUME ReceiptsInv, NEW p \in Process, NEW k \in Key, forget(p, k)
  PROVE  ReceiptsInv'
<1>1. /\ entries[p][k] # None /\ entries[p][k].outcome # "pending"
      /\ \A c \in Call : ~ (phase[c] = "waiting" /\ ask[c].process = p /\ ask[c].key = k)
      /\ entries \in [Process -> [Key -> Entry \cup {None}]]
      /\ entries' = [entries EXCEPT ![p][k] = None]
      /\ receipt' = receipt /\ applied' = applied
      /\ phase' = phase /\ ask' = ask /\ result' = result
  BY DEF forget, call, ReceiptsInv, TypeOK
<1>2. /\ entries'[p][k] = None
      /\ \A q \in Process, l \in Key : q # p \/ l # k => entries'[q][l] = entries[q][l]
  BY <1>1
<1>3. TypeOK'
  BY <1>1 DEF ReceiptsInv, TypeOK
<1>4. OwnerInv'
  <2>1. ASSUME NEW d \in Call, Works(d)
        PROVE  /\ ask[d].process \in Process /\ ask[d].key \in Key
               /\ ask[d].process # p \/ ask[d].key # k
    <3>1. /\ ask[d].process \in Process /\ ask[d].key \in Key
          /\ entries[ask[d].process][ask[d].key]
               = [fingerprint |-> fingerprintOf(d), outcome |-> "pending"]
      BY <2>1, Asks DEF ReceiptsInv, OwnerInv, Works
    <3>2. entries[ask[d].process][ask[d].key].outcome = "pending"
      BY <3>1
    <3> QED
      BY <1>1, <3>1, <3>2
  <2>2. ASSUME NEW d \in Call, phase[d] = "waiting"
        PROVE  ask[d].process \in Process /\ ask[d].key \in Key
    BY <2>2, Asks
  <2> QED
    BY <1>1, <1>2, <2>1, <2>2 DEF ReceiptsInv, OwnerInv, Works, fingerprintOf
<1>5. InsideInv'
  BY <1>1 DEF ReceiptsInv, InsideInv, Inside
<1>6. OutcomesInv'
  BY <1>1, <1>2, OutcomesShrink
<1> QED
  BY <1>1, <1>3, <1>4, <1>5, <1>6 DEF ReceiptsInv, AppliedAtMostOnce

\* An admission that lets its call through, or whose commit was not heard of:
\* the key has no receipt and gets a started one.
LEMMA AdmitKeeps ==
  ASSUME ReceiptsInv, NEW c \in Call, admit(c)
  PROVE  ReceiptsInv'
<1> DEFINE k == ask[c].key
           b == ask[c].body
           started == [request_hash |-> b, outcome |-> "started"]
<1>1. /\ phase[c] = "admit" /\ Works(c) /\ ~ Inside(c) /\ k \in Key /\ b \in Body /\ applied' = applied
      /\ receipt \in [Key -> Receipt \cup {None}]
      /\ started \in Receipt /\ started # None
  BY Asks, ReceiptsAssumption DEF admit, Works, Inside, ReceiptsInv, TypeOK, Receipt
<1>2. CASE receipt[k] = None
  <2>1. /\ receipt' = [receipt EXCEPT ![k] = started]
        /\ phase' = [phase EXCEPT ![c] = "operation"]
        /\ entries' = entries /\ ask' = ask /\ result' = result
    BY <1>2 DEF admit
  <2>2. /\ receipt'[k] = started /\ \A l \in Key : l # k => receipt'[l] = receipt[l]
        /\ \A d \in Call : phase'[d] = IF d = c THEN "operation" ELSE phase[d]
        /\ applied[k] = <<>>
    BY <1>1, <1>2, <2>1 DEF ReceiptsInv, TypeOK, InsideInv
  <2>3. TypeOK'
    BY <1>1, <2>1 DEF ReceiptsInv, TypeOK, Phase
  <2>4. OwnerInv'
    BY <1>1, <2>1, <2>2 DEF ReceiptsInv, OwnerInv, Works, fingerprintOf
  \* Nobody was inside: a call inside has a receipt.
  <2>5. ASSUME NEW d \in Call, Inside(d)
        PROVE  ask[d].key \in Key /\ ask[d].key # k
    <3>1. /\ ask[d].key \in Key /\ ask[d].body \in Body
          /\ receipt[ask[d].key] = [request_hash |-> ask[d].body, outcome |-> "started"]
      BY <2>5, Asks DEF ReceiptsInv, InsideInv, Inside
    <3>2. receipt[ask[d].key] # None
      BY <3>1, ReceiptsAssumption DEF Receipt
    <3> QED
      BY <1>2, <3>1, <3>2
  <2>6. \A d \in Call : Inside(d)' <=> d = c \/ Inside(d)
    BY <2>2 DEF Inside
  <2>7. InsideInv'
    <3>1. \A d \in Call : Inside(d)' =>
            receipt'[ask'[d].key] = [request_hash |-> ask'[d].body, outcome |-> "started"]
      BY <2>1, <2>2, <2>5, <2>6 DEF ReceiptsInv, InsideInv
    <3>2. \A d, e \in Call : Inside(d)' /\ Inside(e)' /\ ask'[d].key = ask'[e].key => d = e
      BY <2>1, <2>5, <2>6 DEF ReceiptsInv, InsideInv
    <3>3. \A d \in Call : phase'[d] = "operation" => applied'[ask'[d].key] = <<>>
      BY <1>1, <2>1, <2>2 DEF ReceiptsInv, InsideInv
    <3>4. \A l \in Key : receipt'[l] = None => applied'[l] = <<>>
      BY <1>1, <2>2 DEF ReceiptsInv, InsideInv
    <3> QED
      BY <3>1, <3>2, <3>3, <3>4 DEF InsideInv
  \* Nothing was told of a key without a receipt.
  <2>8. ASSUME NEW l \in Key, NEW o, NEW body, Tells(o, l, body)
        PROVE  Tells(o, l, body)'
    BY <1>1, <1>2, <2>1, <2>2, <2>8 DEF Tells
  <2>9. OutcomesInv'
    <3>1. ASSUME NEW l \in Key, receipt'[l] # None
          PROVE  Tells(receipt[l].outcome, l, receipt[l].request_hash)'
      <4>1. CASE l = k
        BY <2>2, <4>1 DEF Tells
      <4>2. CASE l # k
        <5>1. PICK o, body : o = receipt[l].outcome /\ body = receipt[l].request_hash
          OBVIOUS
        <5>2. Tells(o, l, body) /\ receipt'[l] = receipt[l]
          BY <2>2, <3>1, <4>2, <5>1 DEF ReceiptsInv, OutcomesInv
        <5> QED
          BY <2>8, <5>1, <5>2 DEF Tells
      <4> QED
        BY <4>1, <4>2
    <3>2. ASSUME NEW q \in Process, NEW l \in Key, entries'[q][l] # None
          PROVE  Tells(entries[q][l].outcome, l, entries[q][l].fingerprint.body)'
      <4>1. PICK o, body : o = entries[q][l].outcome /\ body = entries[q][l].fingerprint.body
        OBVIOUS
      <4>2. Tells(o, l, body)
        BY <2>1, <3>2, <4>1 DEF ReceiptsInv, OutcomesInv
      <4>3. Tells(o, l, body)'
        BY <2>8, <4>2
      <4>4. o = entries'[q][l].outcome /\ body = entries'[q][l].fingerprint.body
        BY <2>1, <4>1
      <4> QED
        BY <4>3, <4>4 DEF Tells
    <3>3. ASSUME NEW d \in Call, phase'[d] \in {"complete", "answered"}
          PROVE  Tells(result[d], ask[d].key, ask[d].body)'
      <4>1. phase[d] \in {"complete", "answered"} /\ result'[d] = result[d] /\ ask'[d] = ask[d]
        BY <2>1, <2>2, <3>3
      <4>2. Tells(result[d], ask[d].key, ask[d].body) /\ ask[d].key \in Key
        BY <4>1, Asks DEF ReceiptsInv, OutcomesInv
      <4>3. PICK o, l, body : o = result[d] /\ l = ask[d].key /\ body = ask[d].body
        OBVIOUS
      <4>4. Tells(o, l, body)'
        BY <2>8, <4>2, <4>3
      <4> QED
        BY <4>1, <4>3, <4>4 DEF Tells
    <3>4. \A d \in Call : phase'[d] = "complete" => result'[d] \in {"ok", "refused"}
      BY <2>1, <2>2 DEF ReceiptsInv, OutcomesInv
    <3> QED
      BY <3>1, <3>2, <3>3, <3>4 DEF OutcomesInv
  <2> QED
    BY <1>1, <2>3, <2>4, <2>7, <2>9 DEF ReceiptsInv, AppliedAtMostOnce
<1>3. CASE receipt[k] # None
  <2>1. PICK reply \in Reply :
          /\ reply = IF receipt[k].request_hash # b THEN "rejected"
                     ELSE IF receipt[k].outcome = "started" THEN "unavailable"
                     ELSE receipt[k].outcome
          /\ respond(c, reply)
          /\ receipt' = receipt
    BY <1>1, <1>3 DEF admit, Receipt, Reply
  <2>2. ask' = ask /\ \A d \in Call : phase'[d] = "operation" => phase[d] = "operation"
    BY <2>1 DEF respond, answer, ReceiptsInv, TypeOK
  <2>3. Tells(receipt[k].outcome, k, receipt[k].request_hash)
    BY <1>1, <1>3 DEF ReceiptsInv, OutcomesInv
  <2>4. Tells(reply, k, b)
    BY <2>1, <2>3 DEF Tells
  <2>5. Tells(reply, ask[c].key, ask[c].body)'
    BY <1>1, <2>1, <2>2, <2>4 DEF Tells
  <2>6. (receipt[ask[c].key] # None =>
           Tells(receipt[ask[c].key].outcome, ask[c].key, receipt[ask[c].key].request_hash))'
    BY <1>1, <2>1, <2>2, <2>3 DEF Tells
  <2>7. /\ receipt' \in [Key -> Receipt \cup {None}] /\ applied' \in [Key -> Seq(Write)]
        /\ Len(applied'[k]) <= 1
    BY <1>1, <2>1 DEF ReceiptsInv, TypeOK, AppliedAtMostOnce
  <2> QED
    BY <1>1, <1>3, <2>1, <2>5, <2>6, <2>7, RespondKeeps
<1> QED
  BY <1>2, <1>3

LEMMA AdmissionFailsKeeps ==
  ASSUME ReceiptsInv, NEW c \in Call, admissionFails(c)
  PROVE  ReceiptsInv'
<1> DEFINE k == ask[c].key
           b == ask[c].body
           started == [request_hash |-> b, outcome |-> "started"]
<1>1. /\ phase[c] = "admit" /\ Works(c) /\ ~ Inside(c) /\ k \in Key /\ b \in Body /\ applied' = applied
      /\ receipt \in [Key -> Receipt \cup {None}]
      /\ started \in Receipt /\ started # None
  BY Asks, ReceiptsAssumption DEF admissionFails, Works, Inside, ReceiptsInv, TypeOK, Receipt
<1>2. PICK reply \in Reply :
        /\ reply \in {"unavailable", "failed"} /\ respond(c, reply)
        /\ \/ receipt' = receipt
           \/ receipt[k] = None /\ receipt' = [receipt EXCEPT ![k] = started]
  BY DEF admissionFails, Reply
<1>3. ask' = ask /\ \A d \in Call : phase'[d] = "operation" => phase[d] = "operation"
  BY <1>2 DEF respond, answer, ReceiptsInv, TypeOK
<1>4. Tells(reply, ask[c].key, ask[c].body)'
  BY <1>2 DEF Tells
<1>5. (receipt[ask[c].key] # None =>
         Tells(receipt[ask[c].key].outcome, ask[c].key, receipt[ask[c].key].request_hash))'
  <2>1. CASE receipt' = receipt
    BY <1>1, <1>3, <2>1 DEF ReceiptsInv, OutcomesInv, Tells
  <2>2. CASE receipt[k] = None /\ receipt' = [receipt EXCEPT ![k] = started]
    <3>1. receipt'[ask'[c].key].outcome = "started"
      BY <1>1, <1>3, <2>2
    <3> QED
      BY <3>1 DEF Tells
  <2> QED
    BY <1>2, <2>1, <2>2
<1>6. /\ receipt' \in [Key -> Receipt \cup {None}] /\ applied' \in [Key -> Seq(Write)]
      /\ Len(applied'[k]) <= 1
      /\ \A l \in Key : l # k => receipt'[l] = receipt[l]
      /\ receipt'[k] = None => receipt[k] = None
      /\ receipt'[k] = receipt[k] \/ receipt[k] = None
  BY <1>1, <1>2 DEF ReceiptsInv, TypeOK, AppliedAtMostOnce
<1> QED
  BY <1>1, <1>2, <1>4, <1>5, <1>6, RespondKeeps

\* What is refused before the admission tells nothing of the key.
LEMMA RejectKeeps ==
  ASSUME ReceiptsInv, NEW c \in Call, reject(c)
  PROVE  ReceiptsInv'
<1> DEFINE k == ask[c].key
<1>1. /\ Works(c) /\ ~ Inside(c) /\ phase[c] # "operation" /\ k \in Key
      /\ applied' = applied /\ receipt' = receipt
  BY Asks DEF reject, Works, Inside
<1>2. PICK reply \in Reply : reply = "rejected" /\ respond(c, reply)
  BY DEF reject, Reply
<1>3. ask' = ask /\ \A d \in Call : phase'[d] = "operation" => phase[d] = "operation"
  BY <1>2 DEF respond, answer, ReceiptsInv, TypeOK
<1>4. Tells(reply, ask[c].key, ask[c].body)'
  BY <1>2 DEF Tells
<1>5. (receipt[ask[c].key] # None =>
         Tells(receipt[ask[c].key].outcome, ask[c].key, receipt[ask[c].key].request_hash))'
  BY <1>1, <1>3 DEF ReceiptsInv, OutcomesInv, Tells
<1>6. /\ receipt' \in [Key -> Receipt \cup {None}] /\ applied' \in [Key -> Seq(Write)]
      /\ Len(applied'[k]) <= 1
  BY <1>1 DEF ReceiptsInv, TypeOK, AppliedAtMostOnce
<1> QED
  BY <1>1, <1>2, <1>4, <1>5, <1>6, RespondKeeps

\* A call inside stands on a started receipt and an unwritten key or, when its
\* operation is over, on what that operation wrote.
LEMMA InsideCall ==
  ASSUME ReceiptsInv, NEW c \in Call, Inside(c)
  PROVE  /\ Works(c) /\ ask[c].key \in Key /\ ask[c].body \in Body /\ phase[c] # "idle"
         /\ receipt[ask[c].key] = [request_hash |-> ask[c].body, outcome |-> "started"]
         /\ receipt[ask[c].key] \in Receipt /\ receipt[ask[c].key] # None
         /\ \A d \in Call : d # c /\ Inside(d) => ask[d].key # ask[c].key
<1>1. phase[c] # "idle" /\ Works(c)
  BY DEF Inside, Works
<1>2. ask[c].key \in Key /\ ask[c].body \in Body
  BY <1>1, Asks
<1>3. receipt[ask[c].key] = [request_hash |-> ask[c].body, outcome |-> "started"]
  BY DEF ReceiptsInv, InsideInv
<1>4. receipt[ask[c].key] \in Receipt /\ receipt[ask[c].key] # None
  BY <1>2, <1>3, ReceiptsAssumption DEF Receipt
<1>5. \A d \in Call : d # c /\ Inside(d) => ask[d].key # ask[c].key
  BY DEF ReceiptsInv, InsideInv
<1> QED
  BY <1>1, <1>2, <1>3, <1>4, <1>5

LEMMA OperationKeeps ==
  ASSUME ReceiptsInv, NEW c \in Call, operation(c)
  PROVE  ReceiptsInv'
<1> DEFINE k == ask[c].key
           b == ask[c].body
<1>1. /\ phase[c] = "operation" /\ Inside(c) /\ Works(c) /\ k \in Key /\ b \in Body
      /\ receipt' = receipt /\ applied[k] = <<>>
      /\ receipt[k] = [request_hash |-> b, outcome |-> "started"] /\ receipt[k] # None
  BY InsideCall DEF operation, Inside, ReceiptsInv, InsideInv
<1>2. PICK end \in OperationEnds :
        /\ applied' = Committed(c, end)
        /\ \/ /\ end.throws # "unavailable"
              /\ phase' = [phase EXCEPT ![c] = "complete"]
              /\ result' = [result EXCEPT ![c] = IF end.throws = "none" THEN "ok" ELSE "refused"]
              /\ UNCHANGED <<entries, ask>>
           \/ end.throws = "unavailable" /\ respond(c, "unavailable")
  BY DEF operation
<1>3. /\ applied' \in [Key -> Seq(Write)]
      /\ applied'[k] = IF end.commits = "nothing" THEN <<>>
                       ELSE <<[body |-> b, whole |-> end.commits = "whole"]>>
      /\ \A l \in Key : l # k => applied'[l] = applied[l]
      /\ Len(applied'[k]) <= 1
  <2> DEFINE write == [body |-> b, whole |-> end.commits = "whole"]
  <2>1. write \in Write
    BY <1>1 DEF Write
  <2>2. applied \in [Key -> Seq(Write)]
    BY DEF ReceiptsInv, TypeOK
  <2>3. CASE end.commits = "nothing"
    BY <1>1, <1>2, <2>2, <2>3 DEF Committed
  <2>4. CASE end.commits # "nothing"
    <3>1. applied' = [applied EXCEPT ![k] = Append(@, write)]
      BY <1>2, <2>4 DEF Committed
    <3>2. Append(applied[k], write) \in Seq(Write) /\ Append(applied[k], write) = <<write>>
      BY <1>1, <2>1
    <3> HIDE DEF write
    <3>3. applied' \in [Key -> Seq(Write)] /\ applied'[k] = <<write>>
      BY <1>1, <2>2, <3>1, <3>2
    <3>4. Len(applied'[k]) <= 1
      BY <3>3
    <3>5. \A l \in Key : l # k => applied'[l] = applied[l]
      BY <2>2, <3>1
    <3> QED
      BY <2>4, <3>3, <3>4, <3>5 DEF write
  <2> QED
    BY <2>3, <2>4
<1>4. CASE end.throws = "unavailable"
  <2>1. PICK reply \in Reply : reply = "unavailable" /\ respond(c, reply)
    BY <1>2, <1>4 DEF Reply
  <2>2. ask' = ask
    BY <2>1 DEF respond, answer
  <2>3. Tells(reply, ask[c].key, ask[c].body)'
    BY <2>1 DEF Tells
  <2>4. (receipt[ask[c].key] # None =>
           Tells(receipt[ask[c].key].outcome, ask[c].key, receipt[ask[c].key].request_hash))'
    <3>1. receipt'[ask'[c].key].outcome = "started"
      BY <1>1, <2>2
    <3> QED
      BY <3>1 DEF Tells
  <2>5. receipt' \in [Key -> Receipt \cup {None}]
    BY <1>1 DEF ReceiptsInv, TypeOK
  <2> QED
    BY <1>1, <1>3, <2>1, <2>3, <2>4, <2>5, RespondKeeps
<1>5. CASE end.throws # "unavailable"
  <2> DEFINE reply == IF end.throws = "none" THEN "ok" ELSE "refused"
  <2>1. /\ phase' = [phase EXCEPT ![c] = "complete"] /\ result' = [result EXCEPT ![c] = reply]
        /\ entries' = entries /\ ask' = ask
    BY <1>2, <1>5
  \* Whoever returns has committed the whole, whoever refuses has not.
  <2>11. /\ reply = "ok" => applied'[k] = <<[body |-> b, whole |-> TRUE]>>
         /\ reply = "refused" => \A i \in DOMAIN applied'[k] : ~ applied'[k][i].whole
    <3>1. \/ end.throws = "none" /\ end.commits = "whole"
          \/ end.throws = "refused" /\ end.commits \in {"nothing", "part"}
      BY <1>5 DEF OperationEnds
    <3>2. CASE end.throws = "none"
      BY <1>3, <3>1, <3>2
    <3>3. CASE end.throws = "refused"
      <4>1. CASE end.commits = "nothing"
        BY <1>3, <3>3, <4>1
      <4>2. CASE end.commits = "part"
        <5>1. applied'[k] = <<[body |-> b, whole |-> FALSE]>>
          BY <1>3, <4>2
        <5> QED
          BY <3>3, <5>1
      <4> QED
        BY <3>1, <3>3, <4>1, <4>2
    <3> QED
      BY <3>1, <3>2, <3>3
  <2>2. \A d \in Call : IF d = c THEN phase'[d] = "complete" /\ result'[d] = reply
                        ELSE phase'[d] = phase[d] /\ result'[d] = result[d]
    BY <2>1 DEF ReceiptsInv, TypeOK
  <2>3. /\ \A d \in Call : Works(d)' <=> Works(d)
        /\ \A d \in Call : Inside(d)' <=> Inside(d)
        /\ \A d \in Call : fingerprintOf(d)' = fingerprintOf(d)
    BY <1>1, <2>1, <2>2 DEF Works, Inside, fingerprintOf
  <2>4. \A d \in Call : phase'[d] = "operation" => phase[d] = "operation" /\ ask[d].key # k
    BY <1>1, <2>2, InsideCall DEF Inside
  <2>5. TypeOK'
    BY <1>1, <1>3, <2>1 DEF ReceiptsInv, TypeOK, Phase, Reply
  <2>6. OwnerInv'
    BY <1>1, <2>1, <2>2, <2>3 DEF ReceiptsInv, OwnerInv
  <2>7. InsideInv'
    <3>1. \A d \in Call : phase'[d] = "operation" => applied'[ask'[d].key] = <<>>
      <4>1. ASSUME NEW d \in Call, phase'[d] = "operation"
            PROVE  applied'[ask'[d].key] = <<>>
        <5>1. phase[d] = "operation" /\ ask[d].key # k /\ ask[d].key \in Key
          BY <2>4, <4>1, Asks
        <5> QED
          BY <1>3, <2>1, <5>1 DEF ReceiptsInv, InsideInv
      <4> QED
        BY <4>1
    <3>2. \A l \in Key : receipt'[l] = None => applied'[l] = <<>>
      BY <1>1, <1>3 DEF ReceiptsInv, InsideInv
    <3> QED
      BY <1>1, <2>1, <2>3, <3>1, <3>2 DEF ReceiptsInv, InsideInv
  <2>8. ASSUME NEW l \in Key, NEW o, NEW body, Tells(o, l, body)
        PROVE  Tells(o, l, body)'
    <3>1. \/ applied'[l] = applied[l]
          \/ applied[l] = <<>> /\ \E d \in Call : phase[d] = "operation" /\ ask[d].key = l
      BY <1>1, <1>3
    <3> QED
      BY <1>1, <2>1, <2>4, <2>8, <3>1, TellsKept
  <2>9. OutcomesInv'
    <3>1. ASSUME NEW l \in Key, receipt'[l] # None
          PROVE  Tells(receipt[l].outcome, l, receipt[l].request_hash)'
      <4>1. PICK o, body : o = receipt[l].outcome /\ body = receipt[l].request_hash
        OBVIOUS
      <4>2. Tells(o, l, body)
        BY <1>1, <3>1, <4>1 DEF ReceiptsInv, OutcomesInv
      <4> QED
        BY <1>1, <2>8, <4>1, <4>2 DEF Tells
    <3>2. ASSUME NEW q \in Process, NEW l \in Key, entries'[q][l] # None
          PROVE  Tells(entries[q][l].outcome, l, entries[q][l].fingerprint.body)'
      <4>1. PICK o, body : o = entries[q][l].outcome /\ body = entries[q][l].fingerprint.body
        OBVIOUS
      <4>2. Tells(o, l, body)
        BY <2>1, <3>2, <4>1 DEF ReceiptsInv, OutcomesInv
      <4>3. Tells(o, l, body)'
        BY <2>8, <4>2
      <4>4. o = entries'[q][l].outcome /\ body = entries'[q][l].fingerprint.body
        BY <2>1, <4>1
      <4> QED
        BY <4>3, <4>4 DEF Tells
    <3>3. ASSUME NEW d \in Call, phase'[d] \in {"complete", "answered"}
          PROVE  Tells(result[d], ask[d].key, ask[d].body)'
      <4>1. CASE d = c
        BY <1>1, <2>1, <2>2, <2>4, <2>11, <4>1 DEF Tells
      <4>2. CASE d # c
        <5>1. phase[d] \in {"complete", "answered"} /\ result'[d] = result[d]
          BY <2>2, <3>3, <4>2
        <5>2. Tells(result[d], ask[d].key, ask[d].body) /\ ask[d].key \in Key
          BY <5>1, Asks DEF ReceiptsInv, OutcomesInv
        <5>3. PICK o, l, body : o = result[d] /\ l = ask[d].key /\ body = ask[d].body
          OBVIOUS
        <5>4. Tells(o, l, body)'
          BY <2>8, <5>2, <5>3
        <5> QED
          BY <2>1, <5>1, <5>3, <5>4 DEF Tells
      <4> QED
        BY <4>1, <4>2
    <3>4. \A d \in Call : phase'[d] = "complete" => result'[d] \in {"ok", "refused"}
      BY <2>2 DEF ReceiptsInv, OutcomesInv
    <3> QED
      BY <3>1, <3>2, <3>3, <3>4 DEF OutcomesInv
  <2>10. AppliedAtMostOnce'
    BY <1>3 DEF ReceiptsInv, AppliedAtMostOnce
  <2> QED
    BY <2>5, <2>6, <2>7, <2>9, <2>10 DEF ReceiptsInv
<1> QED
  BY <1>4, <1>5

\* The end of a call inside, with its receipt completed or not.
LEMMA EndKeeps ==
  ASSUME ReceiptsInv, NEW c \in Call, phase[c] = "complete", NEW reply \in Reply,
         respond(c, reply), reply = result[c] \/ reply = "failed",
         receipt' = receipt \/ receipt' = Completed(c), applied' = applied
  PROVE  ReceiptsInv'
<1> DEFINE k == ask[c].key
           b == ask[c].body
<1>1. /\ Inside(c) /\ Works(c) /\ k \in Key /\ b \in Body
      /\ receipt[k] = [request_hash |-> b, outcome |-> "started"]
      /\ receipt[k] \in Receipt /\ receipt[k] # None
  BY InsideCall DEF Inside
<1>2. result[c] \in {"ok", "refused"} /\ Tells(result[c], k, b)
  BY DEF ReceiptsInv, OutcomesInv
<1>3. ask' = ask /\ \A d \in Call : phase'[d] = "operation" => phase[d] = "operation"
  BY DEF respond, answer, ReceiptsInv, TypeOK
<1> DEFINE done == [request_hash |-> b, outcome |-> result[c]]
<1>4. done \in Receipt /\ done # None
  BY <1>1, <1>2, ReceiptsAssumption DEF Receipt
<1>5. receipt' = receipt \/ receipt' = [receipt EXCEPT ![k] = done]
  BY <1>1 DEF Completed
<1>6. /\ receipt' \in [Key -> Receipt \cup {None}] /\ applied' \in [Key -> Seq(Write)]
      /\ Len(applied'[k]) <= 1
      /\ \A l \in Key : l # k => receipt'[l] = receipt[l]
      /\ receipt'[k] # None
      /\ receipt'[k] = receipt[k] \/ receipt'[k] = done
  BY <1>1, <1>4, <1>5 DEF ReceiptsInv, TypeOK, AppliedAtMostOnce
<1>7. PICK res : res = result[c]
  OBVIOUS
<1>8. applied[k] = applied'[k] /\ Tells(res, ask[c].key, ask[c].body)'
  BY <1>1, <1>2, <1>3, <1>6, <1>7 DEF Tells
<1>9. Tells(reply, ask[c].key, ask[c].body)'
  BY <1>7, <1>8 DEF Tells
<1>10. (receipt[ask[c].key] # None =>
          Tells(receipt[ask[c].key].outcome, ask[c].key, receipt[ask[c].key].request_hash))'
  <2>1. CASE receipt'[k] = receipt[k]
    <3>1. receipt'[ask'[c].key].outcome = "started"
      BY <1>1, <1>3, <2>1
    <3> QED
      BY <3>1 DEF Tells
  <2>2. CASE receipt'[k] = done
    <3>1. /\ receipt'[ask'[c].key].outcome = res /\ receipt'[ask'[c].key].request_hash = ask'[c].body
      BY <1>3, <1>7, <2>2
    <3> QED
      BY <1>8, <3>1 DEF Tells
  <2> QED
    BY <1>6, <2>1, <2>2
<1> QED
  BY <1>1, <1>6, <1>9, <1>10, RespondKeeps

LEMMA LeaveKeeps ==
  ASSUME ReceiptsInv, NEW c \in Call, leave(c)
  PROVE  ReceiptsInv'
<1>1. /\ phase[c] = "answered" /\ phase' = [phase EXCEPT ![c] = "idle"]
      /\ ask' = [ask EXCEPT ![c] = None] /\ result' = [result EXCEPT ![c] = "none"]
      /\ entries' = entries /\ receipt' = receipt /\ applied' = applied
  BY DEF leave
<1>2. \A d \in Call : IF d = c
                      THEN phase'[d] = "idle"
                      ELSE phase'[d] = phase[d] /\ result'[d] = result[d] /\ ask'[d] = ask[d]
  BY <1>1 DEF ReceiptsInv, TypeOK
<1>3. /\ \A d \in Call : Works(d)' => Works(d) /\ d # c
      /\ \A d \in Call : Inside(d)' => Inside(d) /\ d # c
      /\ \A d \in Call : d # c => fingerprintOf(d)' = fingerprintOf(d)
  BY <1>2 DEF Works, Inside, fingerprintOf
<1>4. TypeOK'
  BY <1>1 DEF ReceiptsInv, TypeOK, Phase
<1>5. OwnerInv'
  BY <1>1, <1>2, <1>3 DEF ReceiptsInv, OwnerInv
<1>6. InsideInv'
  BY <1>1, <1>2, <1>3 DEF ReceiptsInv, InsideInv
<1>7. OutcomesInv'
  BY <1>1, <1>2, OutcomesShrink
<1> QED
  BY <1>1, <1>4, <1>5, <1>6, <1>7 DEF ReceiptsInv, AppliedAtMostOnce

LEMMA RestartKeeps ==
  ASSUME ReceiptsInv, NEW p \in Process, restart(p)
  PROVE  ReceiptsInv'
<1> DEFINE Cut(c) == phase[c] # "idle" /\ ask[c].process = p
<1>1. /\ phase' = [c \in Call |-> IF Cut(c) THEN "idle" ELSE phase[c]]
      /\ ask' = [c \in Call |-> IF Cut(c) THEN None ELSE ask[c]]
      /\ result' = [c \in Call |-> IF Cut(c) THEN "none" ELSE result[c]]
      /\ entries' = [entries EXCEPT ![p] = [k \in Key |-> None]]
      /\ receipt' = receipt /\ applied' = applied
  BY DEF restart
<1>2. \A d \in Call : phase'[d] # "idle" =>
        /\ phase'[d] = phase[d] /\ result'[d] = result[d] /\ ask'[d] = ask[d]
        /\ ask[d].process \in Process \ {p} /\ ask[d].key \in Key
  BY <1>1, Asks
<1>3. \A q \in Process : IF q = p THEN \A k \in Key : entries'[q][k] = None
                                  ELSE entries'[q] = entries[q]
  BY <1>1 DEF ReceiptsInv, TypeOK
<1>4. /\ \A d \in Call : Works(d)' => Works(d) /\ phase'[d] # "idle" /\ fingerprintOf(d)' = fingerprintOf(d)
      /\ \A d \in Call : Inside(d)' => Inside(d) /\ phase'[d] # "idle"
      /\ \A d \in Call : phase'[d] # "idle" => fingerprintOf(d)' = fingerprintOf(d)
  BY <1>2 DEF Works, Inside, fingerprintOf
<1>5. TypeOK'
  <2>1. entries' \in [Process -> [Key -> Entry \cup {None}]]
    BY <1>1 DEF ReceiptsInv, TypeOK
  <2> QED
    BY <1>1, <2>1 DEF ReceiptsInv, TypeOK, Phase
<1>6. OwnerInv'
  BY <1>2, <1>3, <1>4 DEF ReceiptsInv, OwnerInv
<1>7. InsideInv'
  BY <1>1, <1>2, <1>4 DEF ReceiptsInv, InsideInv
<1>8. OutcomesInv'
  BY <1>1, <1>2, <1>3, OutcomesShrink
<1> QED
  BY <1>1, <1>5, <1>6, <1>7, <1>8 DEF ReceiptsInv, AppliedAtMostOnce

(***************************************************************************)
(* The theorems.                                                           *)
(***************************************************************************)

\* The invariant of the two layers: an owner for every pending entry, one call
\* inside for a key, and outcomes that tell what was committed.
THEOREM ReceiptsInvariance == Spec => []ReceiptsInv
<1>1. Init => ReceiptsInv
  BY InitReceiptsInv
<1>2. ReceiptsInv /\ [Next]_vars => ReceiptsInv'
  <2> SUFFICES ASSUME ReceiptsInv, [Next]_vars PROVE ReceiptsInv'
    OBVIOUS
  <2>1. ASSUME NEW c \in Call, CallStep(c) PROVE ReceiptsInv'
    <3>1. ASSUME NEW p \in Process, NEW k \in Key, NEW b \in Body, NEW s \in Session,
                 claim(c, p, k, b, s)
          PROVE  ReceiptsInv'
      BY <3>1, ClaimKeeps
    <3>2. CASE complete(c)
      <4>1. PICK reply \in Reply : reply = result[c] /\ respond(c, reply)
        BY <3>2 DEF complete, ReceiptsInv, OutcomesInv, Reply
      <4> QED
        BY <3>2, <4>1, EndKeeps DEF complete
    <3>3. CASE completionFails(c)
      <4>1. PICK reply \in Reply : reply = "failed" /\ respond(c, reply)
        BY <3>3 DEF completionFails, Reply
      <4> QED
        BY <3>3, <4>1, EndKeeps DEF completionFails
    <3>4. CASE awaitOwner(c) \/ reject(c) \/ admit(c) \/ admissionFails(c)
      BY <3>4, AwaitKeeps, RejectKeeps, AdmitKeeps, AdmissionFailsKeeps
    <3>5. CASE operation(c) \/ leave(c)
      BY <3>5, OperationKeeps, LeaveKeeps
    <3> QED
      <4>1. CASE \E p \in Process, k \in Key, b \in Body, s \in Session : claim(c, p, k, b, s)
        BY <3>1, <4>1
      <4> QED
        BY <2>1, <3>2, <3>3, <3>4, <3>5, <4>1 DEF CallStep
  <2>2. CASE UNCHANGED vars
    <3>1. /\ entries' = entries /\ receipt' = receipt /\ applied' = applied
          /\ phase' = phase /\ ask' = ask /\ result' = result
      BY <2>2 DEF vars, call
    <3>2. TypeOK'
      BY <3>1 DEF ReceiptsInv, TypeOK
    <3>3. OwnerInv'
      BY <3>1 DEF ReceiptsInv, OwnerInv, Works, fingerprintOf
    <3>4. InsideInv'
      BY <3>1 DEF ReceiptsInv, InsideInv, Inside
    <3>5. OutcomesInv'
      BY <3>1 DEF ReceiptsInv, OutcomesInv, Tells
    <3> QED
      BY <3>1, <3>2, <3>3, <3>4, <3>5 DEF ReceiptsInv, AppliedAtMostOnce
  <2> QED
    BY <2>1, <2>2, ForgetKeeps, RestartKeeps DEF Next
<1> QED
  BY <1>1, <1>2, PTL DEF Spec

\* However a write is retried, the domain commits it at most once under its key.
THEOREM AtMostOnce == Spec => []AppliedAtMostOnce
<1>1. ReceiptsInv => AppliedAtMostOnce
  BY DEF ReceiptsInv
<1> QED
  BY <1>1, ReceiptsInvariance, PTL

\* A 2xx is about the write that was asked for, committed once.
THEOREM SuccessIsTrue == Spec => []SuccessMeansApplied
<1>1. ReceiptsInv => SuccessMeansApplied
  BY DEF ReceiptsInv, OutcomesInv, SuccessMeansApplied, Answered, Tells
<1> QED
  BY <1>1, ReceiptsInvariance, PTL

\* A refusal of the operation means that what was asked under the key has not
\* been done, though an invitation may have left its hits and its recipient.
THEOREM RefusalIsTrue == Spec => []RefusalMeansNotDone
<1>1. ReceiptsInv => RefusalMeansNotDone
  BY DEF ReceiptsInv, OutcomesInv, RefusalMeansNotDone, Answered, Tells
<1> QED
  BY <1>1, ReceiptsInvariance, PTL

(***************************************************************************)
(* The slots of a map.                                                     *)
(***************************************************************************)

SlotsFit == \A p \in Process : IsFiniteSet(Slots(p)) /\ Cardinality(Slots(p)) <= maxEntries

SlotsInv == SlotsFit /\ SlotsComeBack

\* A map that loses entries, or gets no new ones, still fits.
LEMMA SlotsShrink ==
  ASSUME SlotsFit, ReceiptsInv,
         \A q \in Process, l \in Key : entries'[q][l] # None => entries[q][l] # None
  PROVE  SlotsFit'
<1> SUFFICES ASSUME NEW q \in Process
             PROVE  IsFiniteSet(Slots(q)') /\ Cardinality(Slots(q)') <= maxEntries
  BY DEF SlotsFit
<1>1. Slots(q)' \subseteq Slots(q)
  BY DEF Slots
<1>2. IsFiniteSet(Slots(q)) /\ Cardinality(Slots(q)) <= maxEntries
  BY DEF SlotsFit
<1>3. IsFiniteSet(Slots(q)') /\ Cardinality(Slots(q)') <= Cardinality(Slots(q))
  BY <1>1, <1>2, FS_Subset
<1>4. Cardinality(Slots(q)) \in Nat /\ Cardinality(Slots(q)') \in Nat /\ maxEntries \in Nat
  BY <1>2, <1>3, FS_CardinalityType, ReceiptsAssumption
<1> QED
  BY <1>2, <1>3, <1>4

\* The claim of a new key takes a slot, and only while there is room.
LEMMA ClaimFits ==
  ASSUME SlotsFit, ReceiptsInv, NEW c \in Call, NEW p \in Process, NEW k \in Key,
         NEW b \in Body, NEW s \in Session, claim(c, p, k, b, s)
  PROVE  SlotsFit'
<1>1. CASE entries' = entries
  BY <1>1, SlotsShrink
<1>2. CASE entries' # entries
  <2>1. PICK e : entries' = [entries EXCEPT ![p][k] = e] /\ hasRoom(p)
    BY <1>2 DEF claim
  <2>2. entries \in [Process -> [Key -> Entry \cup {None}]]
    BY DEF ReceiptsInv, TypeOK
  <2> SUFFICES ASSUME NEW q \in Process
               PROVE  IsFiniteSet(Slots(q)') /\ Cardinality(Slots(q)') <= maxEntries
    BY DEF SlotsFit
  <2>3. IsFiniteSet(Slots(q)) /\ Cardinality(Slots(q)) <= maxEntries
    BY DEF SlotsFit
  <2>4. CASE q # p
    <3>1. Slots(q)' = Slots(q)
      BY <2>1, <2>2, <2>4 DEF Slots
    <3> QED
      BY <2>3, <3>1
  <2>5. CASE q = p
    <3>1. Slots(q)' \subseteq Slots(q) \cup {k}
      BY <2>1, <2>2, <2>5 DEF Slots
    <3>2. Cardinality(Slots(q)) < maxEntries
      BY <2>1, <2>5 DEF hasRoom
    <3>3. /\ IsFiniteSet(Slots(q) \cup {k})
          /\ Cardinality(Slots(q) \cup {k}) = IF k \in Slots(q) THEN Cardinality(Slots(q))
                                              ELSE Cardinality(Slots(q)) + 1
      BY <2>3, FS_AddElement
    <3>4. IsFiniteSet(Slots(q)') /\ Cardinality(Slots(q)') <= Cardinality(Slots(q) \cup {k})
      BY <3>1, <3>3, FS_Subset
    <3>5. /\ Cardinality(Slots(q)) \in Nat /\ Cardinality(Slots(q)') \in Nat /\ maxEntries \in Nat
          /\ Cardinality(Slots(q) \cup {k}) \in Nat
      BY <2>3, <3>3, <3>4, FS_CardinalityType, ReceiptsAssumption
    <3> QED
      BY <3>2, <3>3, <3>4, <3>5
  <2> QED
    BY <2>4, <2>5
<1> QED
  BY <1>1, <1>2

\* A call at work on a slot.
Holds(c, p, k) == Works(c) /\ ask[c].process = p /\ ask[c].key = k

\* A slot has no more need of work after a step than before, and who was at work
\* for it still is, or somebody begins.
LEMMA HeldStays ==
  ASSUME SlotsInv, SlotsFit',
         \A q \in Process, l \in Key :
           entries'[q][l] # None /\ entries'[q][l].outcome = "pending" =>
             \/ /\ entries[q][l] # None /\ entries[q][l].outcome = "pending"
                /\ \A d \in Call : Holds(d, q, l) => Holds(d, q, l)'
             \/ \E d \in Call : Holds(d, q, l)'
  PROVE  SlotsInv'
<1>1. \A q \in Process, l \in Key :
        entries'[q][l] # None /\ entries'[q][l].outcome = "pending" =>
          \E d \in Call : Holds(d, q, l)'
  BY DEF SlotsInv, SlotsComeBack, Holds
<1> QED
  BY <1>1 DEF SlotsInv, SlotsFit, SlotsComeBack, Holds

\* A response gives the slot of its call back.
LEMMA RespondGivesBack ==
  ASSUME SlotsInv, ReceiptsInv, NEW c \in Call, Works(c), NEW reply \in Reply, respond(c, reply)
  PROVE  SlotsInv'
<1> DEFINE p == ask[c].process
           k == ask[c].key
<1>1. p \in Process /\ k \in Key
  BY Asks DEF Works
<1>2. /\ entries \in [Process -> [Key -> Entry \cup {None}]] /\ phase \in [Call -> Phase]
      /\ entries' = [entries EXCEPT ![p][k] = [fingerprint |-> fingerprintOf(c), outcome |-> reply]]
      /\ phase' = [phase EXCEPT ![c] = "answered"] /\ ask' = ask
  BY DEF ReceiptsInv, TypeOK, respond, answer
<1>3. /\ entries'[p][k] = [fingerprint |-> fingerprintOf(c), outcome |-> reply]
      /\ \A q \in Process, l \in Key : q # p \/ l # k => entries'[q][l] = entries[q][l]
  BY <1>1, <1>2
<1>4. entries[p][k] # None
  <2>1. entries[p][k] = [fingerprint |-> fingerprintOf(c), outcome |-> "pending"]
    BY DEF ReceiptsInv, OwnerInv
  <2>2. fingerprintOf(c) \in Fingerprint
    BY Asks DEF Works
  <2> QED
    BY <2>1, <2>2, ReceiptsAssumption DEF Entry
<1>5. SlotsFit'
  BY <1>3, <1>4, SlotsShrink DEF SlotsInv
<1>6. \A d \in Call : d # c /\ Works(d) => Works(d)'
  BY <1>2 DEF Works
<1>7. entries'[p][k].outcome # "pending"
  BY <1>3 DEF Reply
<1> QED
  BY <1>2, <1>3, <1>5, <1>6, <1>7, HeldStays DEF Holds

\* The invariant of the slots: the map fits, and a pending entry is worked on.
THEOREM SlotsReturn == Spec => []SlotsComeBack
<1>1. Init => SlotsInv
  <2> SUFFICES ASSUME Init PROVE SlotsInv
    OBVIOUS
  <2>1. \A p \in Process : Slots(p) = {}
    BY DEF Init, Slots
  <2>2. SlotsFit
    BY <2>1, FS_EmptySet, ReceiptsAssumption DEF SlotsFit
  <2> QED
    BY <2>2 DEF SlotsInv, SlotsFit, SlotsComeBack, Init
<1>2. ReceiptsInv /\ SlotsInv /\ [Next]_vars => SlotsInv'
  <2> SUFFICES ASSUME ReceiptsInv, SlotsInv, [Next]_vars PROVE SlotsInv'
    OBVIOUS
  <2>1. /\ phase \in [Call -> Phase] /\ ask \in [Call -> Ask \cup {None}]
        /\ entries \in [Process -> [Key -> Entry \cup {None}]] /\ SlotsFit
    BY DEF ReceiptsInv, TypeOK, SlotsInv
  <2>2. ASSUME entries' = entries, \A d \in Call : Works(d) => Works(d)' /\ ask'[d] = ask[d]
        PROVE  SlotsInv'
    <3>1. SlotsFit'
      BY <2>1, <2>2, SlotsShrink
    <3> QED
      BY <2>2, <3>1, HeldStays DEF Holds
  <2>3. ASSUME NEW c \in Call, NEW p \in Process, NEW k \in Key, NEW b \in Body, NEW s \in Session,
               claim(c, p, k, b, s)
        PROVE  SlotsInv'
    <3>1. SlotsFit'
      BY <2>1, <2>3, ClaimFits
    <3>2. /\ phase[c] = "idle" /\ ask'[c].process = p /\ ask'[c].key = k
          /\ \A d \in Call : d # c => phase'[d] = phase[d] /\ ask'[d] = ask[d]
          /\ \/ entries' = entries
             \/ /\ phase'[c] = "admit"
                /\ \A q \in Process, l \in Key : q # p \/ l # k => entries'[q][l] = entries[q][l]
      BY <2>1, <2>3 DEF claim
    <3>3. \A d \in Call : Works(d) => d # c /\ Works(d)'
      BY <3>2 DEF Works
    <3>4. phase'[c] = "admit" => Holds(c, p, k)'
      BY <3>2 DEF Holds, Works
    <3> QED
      BY <3>1, <3>2, <3>3, <3>4, HeldStays DEF Holds
  <2>4. ASSUME NEW c \in Call, reject(c) \/ admit(c) \/ admissionFails(c) \/ operation(c)
                                  \/ complete(c) \/ completionFails(c)
        PROVE  SlotsInv'
    <3>1. Works(c)
      BY <2>4 DEF reject, admit, admissionFails, operation, complete, completionFails, Works
    <3>2. \/ \E reply : reply \in Reply /\ respond(c, reply)
          \/ /\ entries' = entries /\ ask' = ask
             /\ \E next \in {"operation", "complete"} : phase' = [phase EXCEPT ![c] = next]
      <4>1. CASE reject(c) \/ admissionFails(c)
        BY <4>1 DEF reject, admissionFails, Reply
      <4>2. CASE admit(c)
        <5>1. ask[c].key \in Key
          BY <3>1, Asks DEF Works
        <5>2. receipt[ask[c].key] # None => receipt[ask[c].key] \in Receipt
          BY <5>1 DEF ReceiptsInv, TypeOK
        <5> QED
          BY <4>2, <5>2 DEF admit, Receipt, Reply
      <4>3. CASE operation(c)
        BY <4>3 DEF operation, Reply
      <4>4. CASE complete(c) \/ completionFails(c)
        <5>1. phase[c] = "complete" => result[c] \in Reply
          BY DEF ReceiptsInv, OutcomesInv, Reply
        <5> QED
          BY <4>4, <5>1 DEF complete, completionFails, Reply
      <4> QED
        BY <2>4, <4>1, <4>2, <4>3, <4>4
    <3>3. CASE \E reply : reply \in Reply /\ respond(c, reply)
      BY <3>1, <3>3, RespondGivesBack
    <3>4. CASE /\ entries' = entries /\ ask' = ask
               /\ \E next \in {"operation", "complete"} : phase' = [phase EXCEPT ![c] = next]
      <4>1. \A d \in Call : Works(d) => Works(d)'
        BY <2>1, <3>4 DEF Works
      <4> QED
        BY <2>2, <3>4, <4>1
    <3> QED
      BY <3>2, <3>3, <3>4
  <2>5. ASSUME NEW c \in Call, awaitOwner(c) \/ leave(c)
        PROVE  SlotsInv'
    <3>1. /\ entries' = entries /\ ~ Works(c)
          /\ \A d \in Call : d # c => phase'[d] = phase[d] /\ ask'[d] = ask[d]
      BY <2>1, <2>5 DEF awaitOwner, leave, answer, Works
    <3>2. \A d \in Call : Works(d) => Works(d)' /\ ask'[d] = ask[d]
      BY <3>1 DEF Works
    <3> QED
      BY <2>2, <3>1, <3>2
  <2>6. ASSUME NEW p \in Process, NEW k \in Key, forget(p, k)
        PROVE  SlotsInv'
    <3>1. /\ entries'[p][k] = None /\ phase' = phase /\ ask' = ask
          /\ \A q \in Process, l \in Key : q # p \/ l # k => entries'[q][l] = entries[q][l]
      BY <2>1, <2>6 DEF forget, call
    <3>2. SlotsFit'
      BY <2>1, <3>1, SlotsShrink
    <3>3. \A d \in Call : Works(d)' <=> Works(d)
      BY <3>1 DEF Works
    <3> QED
      BY <3>1, <3>2, <3>3, HeldStays DEF Holds
  <2>7. ASSUME NEW p \in Process, restart(p)
        PROVE  SlotsInv'
    <3>1. /\ \A k \in Key : entries'[p][k] = None
          /\ \A q \in Process, l \in Key : q # p => entries'[q][l] = entries[q][l]
      BY <2>1, <2>7 DEF restart
    <3>2. \A d \in Call : phase[d] # "idle" /\ ask[d].process # p
                             => phase'[d] = phase[d] /\ ask'[d] = ask[d]
      BY <2>7 DEF restart
    <3>3. SlotsFit'
      BY <2>1, <3>1, SlotsShrink
    <3>4. \A d \in Call : Works(d) /\ ask[d].process # p => Works(d)' /\ ask'[d] = ask[d]
      BY <3>2 DEF Works
    <3> QED
      BY <3>1, <3>3, <3>4, HeldStays DEF Holds
  <2>8. CASE UNCHANGED vars
    BY <2>2, <2>8 DEF vars, call, Works
  <2> QED
    BY <2>3, <2>4, <2>5, <2>6, <2>7, <2>8 DEF Next, CallStep
<1>3. SlotsInv => SlotsComeBack
  BY DEF SlotsInv
<1> QED
  BY <1>1, <1>2, <1>3, ReceiptsInvariance, PTL DEF Spec

\* A receipt stays, for the same request, with the outcome it got.
THEOREM ReceiptsStay == Spec => ReceiptsAreFinal
<1> DEFINE Stays == \A k \in Key : receipt[k] # None =>
                      /\ receipt'[k] # None
                      /\ receipt'[k].request_hash = receipt[k].request_hash
                      /\ receipt[k].outcome # "started" => receipt'[k].outcome = receipt[k].outcome
<1>1. ReceiptsInv /\ [Next]_vars => [Stays]_vars
  <2> SUFFICES ASSUME ReceiptsInv, Next PROVE Stays
    OBVIOUS
  <2>1. receipt \in [Key -> Receipt \cup {None}]
    BY DEF ReceiptsInv, TypeOK
  <2>2. CASE receipt' = receipt
    BY <2>2
  <2>3. ASSUME NEW c \in Call, NEW v, receipt[ask[c].key] = None,
               receipt' = [receipt EXCEPT ![ask[c].key] = v]
        PROVE  Stays
    BY <2>1, <2>3
  <2>4. ASSUME NEW c \in Call, phase[c] = "complete", receipt' = Completed(c)
        PROVE  Stays
    <3>1. /\ ask[c].key \in Key
          /\ receipt[ask[c].key] = [request_hash |-> ask[c].body, outcome |-> "started"]
          /\ result[c] \in {"ok", "refused"} /\ ask[c].body \in Body
      BY <2>4, InsideCall DEF Inside, ReceiptsInv, OutcomesInv
    <3> DEFINE done == [request_hash |-> ask[c].body, outcome |-> result[c]]
    <3>2. done # None
      BY <3>1, ReceiptsAssumption DEF Receipt
    <3>3. receipt' = receipt \/ receipt' = [receipt EXCEPT ![ask[c].key] = done]
      BY <2>4, <3>1 DEF Completed
    <3> QED
      BY <2>1, <3>1, <3>2, <3>3
  <2>5. ASSUME NEW c \in Call, CallStep(c) PROVE Stays
    <3>1. CASE complete(c) \/ completionFails(c)
      BY <2>2, <2>4, <3>1 DEF complete, completionFails
    <3>2. CASE admit(c) \/ admissionFails(c)
      BY <2>2, <2>3, <3>2 DEF admit, admissionFails
    <3>3. ASSUME NEW p \in Process, NEW k \in Key, NEW b \in Body, NEW s \in Session,
                 claim(c, p, k, b, s)
          PROVE  receipt' = receipt
      BY <3>3 DEF claim
    <3>4. CASE awaitOwner(c) \/ reject(c) \/ operation(c) \/ leave(c)
      BY <2>2, <3>4 DEF awaitOwner, reject, operation, leave
    <3> HIDE DEF Stays
    <3> QED
      BY <2>2, <2>5, <3>1, <3>2, <3>3, <3>4 DEF CallStep
  <2> HIDE DEF Stays
  <2> QED
    BY <2>2, <2>5 DEF Next, forget, restart
<1>3. ReceiptsAreFinal <=> [][Stays]_vars
  BY DEF ReceiptsAreFinal
<1> QED
  BY <1>1, <1>3, ReceiptsInvariance, PTL DEF Spec
=============================================================================
