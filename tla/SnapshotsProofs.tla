-------------------------- MODULE SnapshotsProofs --------------------------
(***************************************************************************)
(* What the snapshots keep, for any tasks, limits and bounds: types,       *)
(* coherence of what is stored, single use of nonces, the ledger entries   *)
(* in Postgres, and the audit chain.                                       *)
(***************************************************************************)
EXTENDS Snapshots, SequenceTheorems, TLAPS

-----------------------------------------------------------------------------
(* Sequences *)

LEMMA ConcatFacts ==
    ASSUME NEW S, NEW p \in Seq(S), NEW q \in Seq(S)
    PROVE  /\ p \o q \in Seq(S)
           /\ ToSet(p \o q) = ToSet(p) \cup ToSet(q)
<1>1. /\ p \o q \in Seq(S)
      /\ Len(p \o q) = Len(p) + Len(q)
      /\ \A i \in 1 .. Len(p) + Len(q) :
           (p \o q)[i] = IF i <= Len(p) THEN p[i] ELSE q[i - Len(p)]
  BY ConcatProperties
<1>2. /\ DOMAIN p = 1 .. Len(p) /\ DOMAIN q = 1 .. Len(q)
      /\ Len(p) \in Nat /\ Len(q) \in Nat
      /\ DOMAIN (p \o q) = 1 .. Len(p) + Len(q)
  BY <1>1, LenProperties
<1>3. ToSet(p \o q) \subseteq ToSet(p) \cup ToSet(q)
  <2>1. ASSUME NEW i \in 1 .. Len(p) + Len(q)
        PROVE  (p \o q)[i] \in ToSet(p) \cup ToSet(q)
    <3>1. CASE i <= Len(p)
      BY <1>1, <1>2, <3>1 DEF ToSet
    <3>2. CASE ~(i <= Len(p))
      <4>1. i - Len(p) \in 1 .. Len(q)
        BY <1>2, <3>2
      <4>2. QED
        BY <1>1, <1>2, <3>2, <4>1 DEF ToSet
    <3>3. QED
      BY <3>1, <3>2
  <2>2. QED
    BY <1>2, <2>1 DEF ToSet
<1>4. ToSet(p) \subseteq ToSet(p \o q)
  <2>1. ASSUME NEW i \in 1 .. Len(p)
        PROVE  p[i] = (p \o q)[i] /\ i \in 1 .. Len(p) + Len(q)
    BY <1>1, <1>2
  <2>2. QED
    BY <1>2, <2>1 DEF ToSet
<1>5. ToSet(q) \subseteq ToSet(p \o q)
  <2>1. ASSUME NEW i \in 1 .. Len(q)
        PROVE  q[i] = (p \o q)[i + Len(p)] /\ i + Len(p) \in 1 .. Len(p) + Len(q)
    BY <1>1, <1>2
  <2>2. QED
    BY <1>2, <2>1 DEF ToSet
<1>6. QED
  BY <1>1, <1>3, <1>4, <1>5

LEMMA NewestFacts ==
    ASSUME NEW S, NEW s \in Seq(S), NEW limit \in Nat
    PROVE  /\ Newest(s, limit) \in Seq(S)
           /\ ToSet(Newest(s, limit)) \subseteq ToSet(s)
<1> DEFINE m == IF Len(s) < limit THEN Len(s) ELSE limit
<1>1. Len(s) \in Nat /\ DOMAIN s = 1 .. Len(s)
  BY LenProperties
<1>2. m \in Nat /\ m <= Len(s)
  BY <1>1
<1>3. /\ SubSeq(s, 1, m) \in Seq(S)
      /\ Len(SubSeq(s, 1, m)) = m
      /\ \A i \in 1 .. m : SubSeq(s, 1, m)[i] = s[i]
  <2> HIDE DEF m
  <2>1. \A i \in 1 .. m : s[i] \in S
    BY <1>1, <1>2, ElementOfSeq
  <2>2. QED
    BY <1>1, <1>2, <2>1
<1>4. DOMAIN SubSeq(s, 1, m) = 1 .. m
  BY <1>3, LenProperties
<1>5. QED
  <2> HIDE DEF m
  <2>1. ToSet(SubSeq(s, 1, m)) \subseteq ToSet(s)
    BY <1>1, <1>2, <1>3, <1>4 DEF ToSet
  <2>2. Newest(s, limit) = SubSeq(s, 1, m)
    BY DEF Newest, m
  <2>3. QED
    BY <1>3, <2>1, <2>2

LEMMA SingleFacts ==
    ASSUME NEW S, NEW e \in S
    PROVE  <<e>> \in Seq(S) /\ ToSet(<<e>>) = {e} /\ Len(<<e>>) = 1 /\ <<e>>[1] = e
<1>1. <<e>> \in Seq(S) /\ Len(<<e>>) = 1 /\ <<e>>[1] = e
  OBVIOUS
<1>2. DOMAIN <<e>> = {1}
  BY <1>1, LenProperties
<1>3. QED
  BY <1>1, <1>2 DEF ToSet

LEMMA TailFacts ==
    ASSUME NEW S, NEW q \in Seq(S), q # <<>>
    PROVE  /\ Head(q) \in S /\ Head(q) \in ToSet(q)
           /\ Tail(q) \in Seq(S) /\ ToSet(Tail(q)) \subseteq ToSet(q)
<1>1. /\ Head(q) \in S /\ Tail(q) \in Seq(S)
      /\ Len(q) \in Nat \ {0} /\ Len(Tail(q)) = Len(q) - 1
      /\ \A i \in 1 .. Len(Tail(q)) : Tail(q)[i] = q[i + 1]
      /\ Head(q) = q[1]
  BY HeadTailProperties, EmptySeq, LenProperties
<1>2. DOMAIN q = 1 .. Len(q) /\ DOMAIN Tail(q) = 1 .. Len(Tail(q))
  BY <1>1, LenProperties
<1>3. Head(q) \in ToSet(q)
  BY <1>1, <1>2 DEF ToSet
<1>4. \A i \in 1 .. Len(Tail(q)) : i + 1 \in 1 .. Len(q)
  BY <1>1
<1>5. QED
  BY <1>1, <1>2, <1>3, <1>4 DEF ToSet

LEMMA ElementsTyped ==
    ASSUME NEW S, NEW s \in Seq(S)
    PROVE  ToSet(s) \subseteq S
BY ElementOfSeq, LenProperties DEF ToSet

LEMMA NewestTyped ==
    ASSUME NEW S, NEW s \in Seq(S), NEW limit \in Nat
    PROVE  Newest(s, limit) \in Seq(S)
BY NewestFacts

-----------------------------------------------------------------------------
(* Types *)

LEMMA AuditedTyped ==
    ASSUME NEW events \in Seq(Event), NEW id \in Nat
    PROVE  Audited(events, id) \in Seq(Event)
<1> DEFINE previous == PreviousHash(events)
<1>1. previous \in Seq(Nat)
  <2>1. CASE events = <<>>
    BY <2>1 DEF PreviousHash, NoHash
  <2>2. CASE events # <<>>
    <3>1. Head(events) \in Event
      BY <2>2, TailFacts
    <3>2. QED
      BY <2>2, <3>1 DEF PreviousHash, Event
  <2>3. QED
    BY <2>1, <2>2
<1>2. Hash(id, previous) \in Seq(Nat)
  BY <1>1, AppendProperties DEF Hash
<1>3. <<[id |-> id, previous |-> previous, hash |-> Hash(id, previous)]>> \in Seq(Event)
  <2> HIDE DEF previous
  <2>1. [id |-> id, previous |-> previous, hash |-> Hash(id, previous)] \in Event
    BY <1>1, <1>2 DEF Event
  <2>2. QED
    BY <2>1, SingleFacts
<1>4. QED
  BY <1>3, ConcatFacts DEF Audited

LEMMA RowTyped ==
    ASSUME NEW event \in Event PROVE FromRow(event) \in Event
<1>1. <<>> \in Seq(Nat)
  BY EmptySeq
<1>2. QED
  BY <1>1 DEF FromRow, NoHash, Event

LEMMA RowsTyped ==
    ASSUME NEW events \in Seq(Event)
    PROVE  [i \in DOMAIN events |-> FromRow(events[i])] \in Seq(Event)
<1>1. Len(events) \in Nat /\ DOMAIN events = 1 .. Len(events)
  BY LenProperties
<1>2. ASSUME NEW i \in 1 .. Len(events)
      PROVE  FromRow(events[i]) \in Event
  <2>1. events[i] \in Event
    BY ElementOfSeq
  <2>2. QED
    BY <2>1, RowTyped
<1>3. [i \in 1 .. Len(events) |-> FromRow(events[i])] \in [1 .. Len(events) -> Event]
  BY <1>2
<1>4. QED
  BY <1>1, <1>3, SeqDef

\* The last job has the members that the operation leaves in the arrays.
Latest(js) == Len(js) >= 1 /\ js[Len(js)] = Job(ledger', audit', nonces')

\* A persist leads to jobs whose members are those of the arrays before or after
\* the operation; ledger and nonces are always the ones after.
NewJobs(js) ==
    /\ js \in Seq(Jobs) /\ Latest(js)
    /\ \A j \in ToSet(js) :
         j.ledger = ledger' /\ j.nonces = nonces' /\ j.audit \in {audit, audit'}
    /\ queue' = queue \o js
    /\ UNCHANGED <<writing, caching, postgres, dragonfly, restarts, faults, savedLast>>

LEMMA JobTyped ==
    ASSUME NEW l \in Seq(Tasks), NEW a \in Seq(Event), NEW n \in Seq(Nat)
    PROVE  /\ Job(l, a, n) \in Jobs
           /\ Job(l, a, n).ledger = l /\ Job(l, a, n).audit = a /\ Job(l, a, n).nonces = n
BY DEF Job, Jobs

LEMMA PairFacts ==
    ASSUME NEW S, NEW x \in S, NEW y \in S
    PROVE  /\ <<x, y>> \in Seq(S)
           /\ ToSet(<<x, y>>) = {x, y}
           /\ <<x>> \o <<y>> = <<x, y>>
           /\ Len(<<x, y>>) = 2 /\ <<x, y>>[2] = y
<1>1. /\ <<x>> \in Seq(S) /\ Len(<<x>>) = 1 /\ <<x>>[1] = x
      /\ <<y>> \in Seq(S) /\ Len(<<y>>) = 1 /\ <<y>>[1] = y
  OBVIOUS
<1>2. <<x, y>> \in Seq(S) /\ Len(<<x, y>>) = 2 /\ <<x, y>>[1] = x /\ <<x, y>>[2] = y
  OBVIOUS
<1>3. /\ <<x>> \o <<y>> \in Seq(S) /\ Len(<<x>> \o <<y>>) = 2
      /\ (<<x>> \o <<y>>)[1] = x /\ (<<x>> \o <<y>>)[2] = y
  BY <1>1, ConcatProperties
<1>4. \A i \in 1 .. 2 : (<<x>> \o <<y>>)[i] = <<x, y>>[i]
  <2>1. \A i \in 1 .. 2 : i = 1 \/ i = 2
    OBVIOUS
  <2>2. QED
    BY <1>2, <1>3, <2>1
<1>5. <<x>> \o <<y>> = <<x, y>>
  <2> DEFINE c == <<x>> \o <<y>>
             d == <<x, y>>
  <2>1. c \in Seq(S) /\ d \in Seq(S) /\ Len(c) = Len(d) /\ \A i \in 1 .. Len(c) : c[i] = d[i]
    BY <1>2, <1>3, <1>4
  <2>2. QED
    <3> HIDE DEF c, d
    <3>1. c = d
      BY <2>1, SeqEqual
    <3>2. QED
      BY <3>1 DEF c, d
<1>6. ToSet(<<x, y>>) = {x, y}
  <2>1. ToSet(<<x>> \o <<y>>) = ToSet(<<x>>) \cup ToSet(<<y>>)
    BY <1>1, ConcatFacts
  <2>2. ToSet(<<x>>) = {x} /\ ToSet(<<y>>) = {y}
    BY SingleFacts
  <2>3. QED
    BY <1>5, <2>1, <2>2
<1>7. QED
  BY <1>2, <1>5, <1>6

ArraysOK ==
    /\ status \in [Tasks -> Statuses] /\ ledger \in Seq(Tasks) /\ live \in [Tasks -> BOOLEAN]
    /\ linked \in SUBSET Tasks /\ nonces \in Seq(Nat) /\ used \in SUBSET Nat
    /\ audit \in Seq(Event)

LEMMA ArraysTyped ==
    ASSUME TypeOK PROVE ArraysOK
BY DEF TypeOK, Memory, Arrays, ArraysOK

\* What every operation leaves: typed arrays, no entry lost, and new jobs.
Operates ==
    /\ ArraysOK'
    /\ ToSet(ledger) \subseteq ToSet(ledger')
    /\ ops' \in 0 .. MaxOps
    /\ issued' \in Nat /\ accepted' \in [1 .. issued' -> 0 .. 2]
    /\ UNCHANGED forgotten
    /\ \E js \in Seq(Jobs) : NewJobs(js)

LEMMA OperationFacts ==
    ASSUME TypeOK, Operation
    PROVE  /\ ops' \in 0 .. MaxOps /\ ops' \in Nat
           /\ Audited(audit, ops') \in Seq(Event)
<1>1. ops \in 0 .. MaxOps /\ ops < MaxOps /\ ops' = ops + 1
  BY DEF TypeOK, Operation
<1>2. ops' \in 0 .. MaxOps /\ ops' \in Nat
  BY <1>1, BoundsAssumption
<1>3. QED
  BY <1>2, ArraysTyped, AuditedTyped DEF ArraysOK

LEMMA SignOperates ==
    ASSUME TypeOK, NEW t \in Tasks, Sign(t)
    PROVE  Operates
<1> USE ArraysTyped
<1>0. /\ ledger \in Seq(Tasks) /\ nonces \in Seq(Nat) /\ audit \in Seq(Event)
  BY DEF ArraysOK
<1>1. Operation /\ UNCHANGED <<writing, caching, postgres, dragonfly, restarts, faults, savedLast>>
  BY DEF Sign, Operation, stores
<1>2. ops' \in 0 .. MaxOps /\ audit' \in Seq(Event)
  BY <1>1, OperationFacts DEF Sign
<1>3. ledger' \in Seq(Tasks) /\ ToSet(ledger) \subseteq ToSet(ledger')
  <2>1. <<t>> \in Seq(Tasks) /\ ledger \in Seq(Tasks)
    BY SingleFacts DEF ArraysOK
  <2>2. /\ <<t>> \o ledger \in Seq(Tasks)
        /\ ToSet(<<t>> \o ledger) = ToSet(<<t>>) \cup ToSet(ledger)
    BY <2>1, ConcatFacts
  <2>3. ledger' = <<t>> \o ledger
    BY DEF Sign
  <2>4. QED
    BY <2>2, <2>3
<1>4. ArraysOK'
  BY <1>2, <1>3 DEF ArraysOK, Sign, Statuses
<1>5. \E js \in Seq(Jobs) : NewJobs(js)
  <2> DEFINE js == <<Job(ledger', audit, nonces), Job(ledger', audit', nonces)>>
  <2>1. queue' = queue \o js
    BY DEF Sign, Persist
  <2>2. /\ js \in Seq(Jobs) /\ Latest(js)
        /\ \A j \in ToSet(js) :
              j.ledger = ledger' /\ j.nonces = nonces' /\ j.audit \in {audit, audit'}
    <3> DEFINE a == Job(ledger', audit, nonces)
               b == Job(ledger', audit', nonces)
    <3>1. /\ a \in Jobs /\ b \in Jobs /\ a.ledger = ledger' /\ b.ledger = ledger'
          /\ a.nonces = nonces /\ b.nonces = nonces /\ a.audit = audit /\ b.audit = audit'
      BY <1>0, <1>2, <1>3, JobTyped
    <3>2. js = <<a, b>>
      OBVIOUS
    <3>3. nonces' = nonces /\ b = Job(ledger', audit', nonces')
      BY DEF Sign
    <3>4. QED
      <4> HIDE DEF a, b, js
      <4>1. /\ <<a, b>> \in Seq(Jobs) /\ ToSet(<<a, b>>) = {a, b}
            /\ Len(<<a, b>>) = 2 /\ <<a, b>>[2] = b
        BY <3>1, PairFacts
      <4>2. js \in Seq(Jobs) /\ ToSet(js) = {a, b} /\ Len(js) = 2 /\ js[2] = b
        BY <3>2, <4>1
      <4>3. QED
        BY <3>1, <3>3, <4>2 DEF Latest
  <2>3. NewJobs(js)
    <3> HIDE DEF js
    <3>1. QED
      BY <1>1, <2>1, <2>2 DEF NewJobs
  <2>4. QED
    <3> HIDE DEF js
    <3>1. QED
      BY <2>2, <2>3
<1>6. QED
  BY <1>2, <1>3, <1>4, <1>5 DEF Operates, Sign, TypeOK

LEMMA RevokeOperates ==
    ASSUME TypeOK, NEW t \in Tasks, Revoke(t)
    PROVE  Operates
<1> USE ArraysTyped
<1>0. /\ ledger \in Seq(Tasks) /\ nonces \in Seq(Nat) /\ audit \in Seq(Event)
  BY DEF ArraysOK
<1>1. Operation /\ UNCHANGED <<writing, caching, postgres, dragonfly, restarts, faults, savedLast>>
  BY DEF Revoke, Operation, stores
<1>2. ops' \in 0 .. MaxOps /\ audit' \in Seq(Event)
  BY <1>1, OperationFacts DEF Revoke
<1>3. ArraysOK'
  <2>1. live' \in [Tasks -> BOOLEAN]
    BY DEF ArraysOK, Revoke, EntriesAfterRevoke
  <2>2. QED
    BY <1>2, <2>1 DEF ArraysOK, Revoke, Statuses
<1>4. \E js \in Seq(Jobs) : NewJobs(js)
  <2> DEFINE js == <<Job(ledger, audit, nonces), Job(ledger, audit', nonces)>>
  <2>1. queue' = queue \o js /\ ledger' = ledger /\ nonces' = nonces
    BY DEF Revoke, Persist
  <2>2. /\ js \in Seq(Jobs) /\ Latest(js)
        /\ \A j \in ToSet(js) :
              j.ledger = ledger /\ j.nonces = nonces /\ j.audit \in {audit, audit'}
    <3> DEFINE a == Job(ledger, audit, nonces)
               b == Job(ledger, audit', nonces)
    <3>1. /\ a \in Jobs /\ b \in Jobs /\ a.ledger = ledger /\ b.ledger = ledger
          /\ a.nonces = nonces /\ b.nonces = nonces /\ a.audit = audit /\ b.audit = audit'
      BY <1>0, <1>2, JobTyped
    <3>2. js = <<a, b>>
      OBVIOUS
    <3>3. b = Job(ledger', audit', nonces')
      BY <2>1
    <3>4. QED
      <4> HIDE DEF a, b, js
      <4>1. /\ <<a, b>> \in Seq(Jobs) /\ ToSet(<<a, b>>) = {a, b}
            /\ Len(<<a, b>>) = 2 /\ <<a, b>>[2] = b
        BY <3>1, PairFacts
      <4>2. js \in Seq(Jobs) /\ ToSet(js) = {a, b} /\ Len(js) = 2 /\ js[2] = b
        BY <3>2, <4>1
      <4>3. QED
        BY <3>1, <3>3, <4>2 DEF Latest
  <2>3. NewJobs(js)
    <3> HIDE DEF js
    <3>1. QED
      BY <1>1, <2>1, <2>2 DEF NewJobs
  <2>4. QED
    <3> HIDE DEF js
    <3>1. QED
      BY <2>2, <2>3
<1>5. QED
  BY <1>2, <1>3, <1>4 DEF Operates, Revoke, TypeOK

LEMMA IssueNonceOperates ==
    ASSUME TypeOK, IssueNonce
    PROVE  Operates
<1> USE ArraysTyped
<1>1. Operation /\ UNCHANGED <<writing, caching, postgres, dragonfly, restarts, faults, savedLast>>
  BY DEF IssueNonce, Operation, stores
<1>2. ops' \in 0 .. MaxOps
  BY <1>1, OperationFacts
<1>3. issued' \in Nat /\ accepted' \in [1 .. issued' -> 0 .. 2]
  <2>1. issued \in Nat /\ accepted \in [1 .. issued -> 0 .. 2] /\ issued' = issued + 1
    BY DEF TypeOK, IssueNonce
  <2>2. accepted \in Seq(0 .. 2) /\ Len(accepted) = issued
    <3>1. accepted \in Seq(0 .. 2)
      BY <2>1, SeqDef
    <3>2. DOMAIN accepted = 1 .. Len(accepted) /\ Len(accepted) \in Nat
      BY <3>1, LenProperties
    <3>3. QED
      BY <2>1, <3>1, <3>2
  <2>3. Append(accepted, 0) \in Seq(0 .. 2) /\ Len(Append(accepted, 0)) = issued + 1
    BY <2>2, AppendProperties
  <2>4. accepted' = Append(accepted, 0)
    BY DEF IssueNonce
  <2>5. QED
    BY <2>1, <2>3, <2>4, LenProperties
<1>4. nonces' \in Seq(Nat)
  <2>1. <<issued'>> \in Seq(Nat) /\ nonces \in Seq(Nat)
    BY <1>3, SingleFacts DEF ArraysOK
  <2>2. <<issued'>> \o nonces \in Seq(Nat)
    BY <2>1, ConcatFacts
  <2>3. nonces' = Newest(<<issued'>> \o nonces, NonceCap)
    BY DEF IssueNonce, Kept
  <2>4. QED
    BY <2>2, <2>3, NewestFacts, LimitsAssumption
<1>5. ArraysOK' /\ ledger' = ledger /\ audit' = audit
  BY <1>4 DEF ArraysOK, IssueNonce
<1>6. \E js \in Seq(Jobs) : NewJobs(js)
  <2> DEFINE x == Job(ledger, audit, nonces')
  <2>1. queue' = queue \o <<x>>
    BY DEF IssueNonce, Persist
  <2>2. x \in Jobs /\ x.ledger = ledger /\ x.nonces = nonces' /\ x.audit = audit
    <3>1. ledger \in Seq(Tasks) /\ audit \in Seq(Event)
      BY DEF ArraysOK
    <3>2. QED
      BY <1>4, <3>1, JobTyped
  <2>3. /\ <<x>> \in Seq(Jobs) /\ Latest(<<x>>)
        /\ \A j \in ToSet(<<x>>) :
              j.ledger = ledger /\ j.nonces = nonces' /\ j.audit \in {audit, audit'}
    <3>1. x = Job(ledger', audit', nonces')
      BY <1>5
    <3> HIDE DEF x
    <3>2. <<x>> \in Seq(Jobs) /\ ToSet(<<x>>) = {x} /\ Len(<<x>>) = 1 /\ <<x>>[1] = x
      BY <2>2, SingleFacts
    <3>3. QED
      BY <2>2, <3>1, <3>2 DEF Latest
  <2>4. QED
    <3> HIDE DEF x
    <3>1. NewJobs(<<x>>)
      BY <1>1, <1>5, <2>1, <2>3 DEF NewJobs
    <3>2. QED
      BY <2>3, <3>1
<1>7. QED
  BY <1>2, <1>3, <1>5, <1>6 DEF Operates, IssueNonce

LEMMA VerifyEnvelopeOperates ==
    ASSUME TypeOK, NEW n \in DOMAIN accepted, NEW good \in BOOLEAN, VerifyEnvelope(n, good)
    PROVE  Operates
<1> USE ArraysTyped
<1>0. /\ ledger \in Seq(Tasks) /\ nonces \in Seq(Nat) /\ audit \in Seq(Event)
  BY DEF ArraysOK
<1>1. Operation /\ UNCHANGED <<writing, caching, postgres, dragonfly, restarts, faults, savedLast>>
  BY DEF VerifyEnvelope, Operation, stores
<1>2. ops' \in 0 .. MaxOps /\ audit' \in Seq(Event)
  BY <1>1, OperationFacts DEF VerifyEnvelope, ArraysOK
<1>3. ArraysOK' /\ ledger' = ledger /\ nonces' = nonces
  <2>1. used' \in SUBSET Nat
    <3>1. n \in Nat
      BY DEF TypeOK
    <3>2. QED
      BY <3>1 DEF ArraysOK, VerifyEnvelope
  <2>2. QED
    BY <1>2, <2>1 DEF ArraysOK, VerifyEnvelope
<1>4. \E js \in Seq(Jobs) : NewJobs(js)
  <2> DEFINE x == Job(ledger, audit, nonces)
             y == Job(ledger, audit', nonces)
             js == <<x>> \o (IF good THEN <<y>> ELSE <<>>)
  <2>1. queue' = queue \o js
    BY DEF VerifyEnvelope, Persist
  <2>2. /\ js \in Seq(Jobs) /\ Latest(js)
        /\ \A j \in ToSet(js) :
              j.ledger = ledger /\ j.nonces = nonces /\ j.audit \in {audit, audit'}
    <3>0. Job(ledger', audit', nonces') = IF good THEN y ELSE x
      BY <1>3 DEF VerifyEnvelope
    <3>1. /\ x \in Jobs /\ y \in Jobs /\ x.ledger = ledger /\ y.ledger = ledger
          /\ x.nonces = nonces /\ y.nonces = nonces /\ x.audit = audit /\ y.audit = audit'
      BY <1>0, <1>2, JobTyped
    <3>2. js = IF good THEN <<x>> \o <<y>> ELSE <<x>>
      <4> HIDE DEF x, y
      <4>1. <<x>> \in Seq(Jobs)
        BY <3>1, SingleFacts
      <4>2. <<x>> \o <<>> = <<x>>
        BY <4>1, ConcatEmptySeq
      <4>3. QED
        BY <4>2
    <3>3. QED
      <4> HIDE DEF x, y, js
      <4>1. CASE good
        <5>1. /\ <<x, y>> \in Seq(Jobs) /\ ToSet(<<x, y>>) = {x, y} /\ <<x>> \o <<y>> = <<x, y>>
              /\ Len(<<x, y>>) = 2 /\ <<x, y>>[2] = y
          BY <3>1, PairFacts
        <5>2. js = <<x, y>>
          BY <3>2, <4>1, <5>1
        <5>3. Latest(js)
          BY <3>0, <4>1, <5>1, <5>2 DEF Latest
        <5>4. QED
          BY <3>1, <5>1, <5>2, <5>3
      <4>2. CASE ~good
        <5>1. <<x>> \in Seq(Jobs) /\ ToSet(<<x>>) = {x} /\ Len(<<x>>) = 1 /\ <<x>>[1] = x
          BY <3>1, SingleFacts
        <5>2. Latest(js)
          BY <3>0, <3>2, <4>2, <5>1 DEF Latest
        <5>3. QED
          BY <3>1, <3>2, <4>2, <5>1, <5>2
      <4>3. QED
        BY <4>1, <4>2
  <2>3. QED
    <3> HIDE DEF js
    <3>1. NewJobs(js)
      BY <1>1, <1>3, <2>1, <2>2 DEF NewJobs
    <3>2. QED
      BY <2>2, <3>1
<1>5. issued' \in Nat /\ accepted' \in [1 .. issued' -> 0 .. 2]
  <2>1. issued \in Nat /\ accepted \in [1 .. issued -> 0 .. 2] /\ issued' = issued
    BY DEF TypeOK, VerifyEnvelope
  <2>2. CASE good
    BY <2>1, <2>2 DEF VerifyEnvelope
  <2>3. CASE ~good
    BY <2>1, <2>3 DEF VerifyEnvelope
  <2>4. QED
    BY <2>2, <2>3
<1>6. QED
  BY <1>2, <1>3, <1>4, <1>5 DEF Operates, VerifyEnvelope

Operating == \/ \E t \in Tasks : Sign(t) \/ Revoke(t)
             \/ IssueNonce
             \/ \E n \in DOMAIN accepted, good \in BOOLEAN : VerifyEnvelope(n, good)

LEMMA EachOperates ==
    ASSUME TypeOK, Operating PROVE Operates
BY SignOperates, RevokeOperates, IssueNonceOperates, VerifyEnvelopeOperates DEF Operating

\* What a start may find.
LEMMA LoadFacts ==
    ASSUME TypeOK, NEW load \in Loads
    PROVE  /\ load.from \in Arrays
           /\ load.failures \in Nat
           /\ \/ load.from = FromPostgres
              \/ load.from = dragonfly /\ dragonfly # NoSnapshot
              \/ load.from = Empty
<1>1. \/ load = [from |-> FromPostgres, failures |-> 0]
      \/ load = [from |-> IF dragonfly = NoSnapshot THEN Empty ELSE dragonfly, failures |-> 0]
      \/ load = [from |-> Empty, failures |-> 1]
  BY DEF Loads
<1>2. FromPostgres \in Arrays
  <2> DEFINE events == Newest(postgres.audit, AuditLimit)
  <2>1. /\ postgres.status \in [Tasks -> Statuses] /\ postgres.ledger \in Seq(Tasks)
        /\ postgres.live \in [Tasks -> BOOLEAN] /\ postgres.nonces \in Seq(Nat)
        /\ postgres.used \in SUBSET Nat /\ postgres.audit \in Seq(Event)
    BY DEF TypeOK, Tables
  <2>2. /\ Newest(postgres.ledger, LedgerLimit) \in Seq(Tasks)
        /\ Newest(postgres.nonces, NonceCap) \in Seq(Nat)
        /\ events \in Seq(Event)
    BY <2>1, NewestTyped, LimitsAssumption
  <2>3. [j \in DOMAIN events |-> FromRow(events[j])] \in Seq(Event)
    <3> HIDE DEF events
    <3>1. QED
      BY <2>2, RowsTyped
  <2>4. QED
    BY <2>1, <2>2, <2>3 DEF FromPostgres, Arrays
<1>3. Empty \in Arrays
  <2>1. <<>> \in Seq(Tasks) /\ <<>> \in Seq(Nat) /\ <<>> \in Seq(Event)
    BY EmptySeq
  <2>2. QED
    BY <2>1, ArraysTyped DEF ArraysOK, Empty, Arrays, Statuses
<1>4. dragonfly # NoSnapshot => dragonfly \in Arrays
  BY DEF TypeOK
<1>5. QED
  BY <1>1, <1>2, <1>3, <1>4

LEMMA OperationTypes ==
    ASSUME TypeOK, Operates PROVE TypeOK'
<1>1. PICK js \in Seq(Jobs) : NewJobs(js)
  BY DEF Operates
<1>2. queue' \in Seq(Jobs)
  <2>1. queue \in Seq(Jobs)
    BY DEF TypeOK
  <2>2. QED
    BY <1>1, <2>1, ConcatFacts DEF NewJobs
<1>3. UNCHANGED <<writing, caching, postgres, dragonfly, restarts, faults, savedLast, forgotten>>
  BY <1>1 DEF NewJobs, Operates
<1>4. Memory' \in Arrays
  BY DEF Operates, ArraysOK, Memory, Arrays
<1>5. QED
  BY <1>2, <1>3, <1>4 DEF TypeOK, Operates

LEMMA EndWriteTypes ==
    ASSUME TypeOK, EndWrite, faults' \in 0 .. MaxFaults, savedLast' \in BOOLEAN, postgres' \in Tables
    PROVE  TypeOK'
<1>1. writing.job \in Jobs
  BY DEF TypeOK, EndWrite, Writing
<1>2. caching' \in Seq(Jobs)
  BY <1>1, AppendProperties DEF TypeOK, EndWrite
<1>3. QED
  BY <1>2 DEF TypeOK, EndWrite, arrays, Memory

LEMMA RowsAreTables ==
    ASSUME TypeOK, writing # NothingWritten PROVE Rows(writing) \in Tables
<1>1. writing \in Writing /\ live \in [Tasks -> BOOLEAN]
  BY ArraysTyped DEF TypeOK, ArraysOK
<1>2. /\ writing.job \in Jobs /\ writing.status \in [Tasks -> Statuses]
      /\ writing.used \in SUBSET Nat
  BY <1>1 DEF Writing
<1>3. writing.job.ledger \in Seq(Tasks) /\ writing.job.audit \in Seq(Event) /\ writing.job.nonces \in Seq(Nat)
  BY <1>2 DEF Jobs
<1>4. QED
  BY <1>1, <1>2, <1>3 DEF Rows, LedgerOf, Tables

LEMMA CacheTyped ==
    ASSUME TypeOK, Cache PROVE dragonfly' \in Arrays
<1>1. Head(caching) \in Jobs
  BY TailFacts DEF TypeOK, Cache
<1>2. Head(caching).ledger \in Seq(Tasks) /\ Head(caching).audit \in Seq(Event) /\ Head(caching).nonces \in Seq(Nat)
  BY <1>1 DEF Jobs
<1>3. QED
  BY <1>2, ArraysTyped DEF ArraysOK, Cache, Arrays

LEMMA TypesStart == Init => TypeOK
<1> SUFFICES ASSUME Init PROVE TypeOK
  OBVIOUS
<1>1. /\ <<>> \in Seq(Tasks) /\ <<>> \in Seq(Nat) /\ <<>> \in Seq(Event) /\ <<>> \in Seq(Jobs)
  BY EmptySeq
<1>2. status \in [Tasks -> Statuses] /\ live \in [Tasks -> BOOLEAN]
  BY DEF Init, Statuses
<1>3. Memory \in Arrays
  BY <1>1, <1>2 DEF Memory, Arrays, Init
<1>4. postgres \in Tables
  BY <1>1, <1>2 DEF Init, Tables
<1>5. accepted \in [1 .. issued -> 0 .. 2]
  <2>1. Len(accepted) = 0 /\ accepted \in Seq(0 .. 2) /\ issued = 0
    BY EmptySeq DEF Init
  <2>2. QED
    BY <2>1, LenProperties
<1>6. QED
  BY <1>1, <1>3, <1>4, <1>5, BoundsAssumption DEF TypeOK, Init

LEMMA TypesStep == TypeOK /\ [Next]_vars => TypeOK'
<1> SUFFICES ASSUME TypeOK, [Next]_vars PROVE TypeOK'
  OBVIOUS
<1>1. CASE Operating
  BY <1>1, EachOperates, OperationTypes
<1>2. CASE StartWrite
  <2>1. Head(queue) \in Jobs /\ Tail(queue) \in Seq(Jobs)
    BY <1>2, TailFacts DEF TypeOK, StartWrite
  <2>2. writing' \in Writing
    BY <1>2, <2>1, ArraysTyped DEF ArraysOK, StartWrite, Writing
  <2>3. QED
    BY <1>2, <2>1, <2>2 DEF TypeOK, StartWrite, arrays, stores, bounds, history, Memory
<1>3. CASE Commit
  BY <1>3, RowsAreTables, EndWriteTypes DEF Commit, TypeOK, EndWrite
<1>4. CASE FailWrite
  <2>1. faults' \in 0 .. MaxFaults
    BY <1>4, BoundsAssumption DEF FailWrite, TypeOK
  <2>2. QED
    BY <1>4, <2>1, EndWriteTypes DEF FailWrite, TypeOK
<1>5. CASE Cache
  <2>1. Tail(caching) \in Seq(Jobs)
    BY <1>5, TailFacts DEF TypeOK, Cache
  <2>2. QED
    BY <1>5, <2>1, CacheTyped DEF TypeOK, Cache, arrays, bounds, history, Memory
<1>6. CASE LoseCache
  <2>1. Tail(caching) \in Seq(Jobs)
    BY <1>6, TailFacts DEF TypeOK, LoseCache
  <2>2. faults' \in 0 .. MaxFaults
    BY <1>6, BoundsAssumption DEF LoseCache, TypeOK
  <2>3. QED
    BY <1>6, <2>1, <2>2 DEF TypeOK, LoseCache, arrays, stores, history, Memory
<1>7. CASE Restart
  <2>1. PICK load \in Loads :
          LET from == load.from
          IN  /\ faults + load.failures <= MaxFaults
              /\ faults' = faults + load.failures
              /\ status' = from.status /\ ledger' = from.ledger /\ live' = from.live
              /\ linked' = from.linked /\ nonces' = from.nonces
              /\ used' = from.used /\ audit' = from.audit
              /\ forgotten' =
                   [entries |-> forgotten.entries
                                \cup (ToSet(postgres.ledger) \ ToSet(from.ledger)),
                    links |-> forgotten.links \cup (ToSet(from.ledger) \ from.linked),
                    nonces |-> forgotten.nonces \cup (ToSet(nonces) \ ToSet(from.nonces)),
                    uses |-> forgotten.uses \cup (used \ from.used)]
    BY <1>7 DEF Restart
  <2>2. load.from \in Arrays /\ load.failures \in Nat
    BY LoadFacts
  <2>3. Memory' \in Arrays
    BY <2>1, <2>2 DEF Memory, Arrays
  <2>4. faults' \in 0 .. MaxFaults
    BY <2>1, <2>2, BoundsAssumption DEF TypeOK
  <2>5. forgotten' \in [entries : SUBSET Tasks, links : SUBSET Tasks,
                        nonces : SUBSET Nat, uses : SUBSET Nat]
    <3>1. /\ ToSet(postgres.ledger) \subseteq Tasks /\ ToSet(load.from.ledger) \subseteq Tasks
          /\ ToSet(nonces) \subseteq Nat /\ used \subseteq Nat
      <4>1. /\ postgres.ledger \in Seq(Tasks) /\ load.from.ledger \in Seq(Tasks)
            /\ nonces \in Seq(Nat) /\ used \in SUBSET Nat
        BY <2>2, ArraysTyped DEF TypeOK, Tables, Arrays, ArraysOK
      <4>2. QED
        BY <4>1, ElementsTyped
    <3>2. /\ forgotten.entries \in SUBSET Tasks /\ forgotten.links \in SUBSET Tasks
          /\ forgotten.nonces \in SUBSET Nat /\ forgotten.uses \in SUBSET Nat
      BY DEF TypeOK
    <3>3. QED
      BY <2>1, <3>1, <3>2
  <2>6. <<>> \in Seq(Jobs) /\ restarts' \in 0 .. MaxRestarts
    BY <1>7, EmptySeq, BoundsAssumption DEF Restart, TypeOK
  <2>7. /\ queue' = <<>> /\ writing' = NothingWritten /\ caching' = <<>> /\ savedLast' = FALSE
        /\ UNCHANGED <<postgres, dragonfly, ops, issued, accepted>>
    BY <1>7 DEF Restart, stores
  <2>8. QED
    BY <2>3, <2>4, <2>5, <2>6, <2>7 DEF TypeOK
<1>8. CASE UNCHANGED vars
  BY <1>8 DEF TypeOK, vars, arrays, work, stores, bounds, history, Memory
<1>9. QED
  BY <1>1, <1>2, <1>3, <1>4, <1>5, <1>6, <1>7, <1>8 DEF Next, Operating

\* Every variable keeps to its type, whatever crashes and whatever the stores lose.
THEOREM TypesHold == Spec => []TypeOK
<1>1. QED
  BY TypesStart, TypesStep, PTL DEF Spec

-----------------------------------------------------------------------------
(* Nonces *)

\* What was accepted once is used, unless a restart forgot it.
AcceptedIsUsed ==
    \A n \in DOMAIN accepted : accepted[n] >= 1 => n \in used \/ n \in forgotten.uses

NonceInv == AcceptedIsUsed /\ NonceOnce

LEMMA NonceStep == TypeOK /\ NonceInv /\ [Next]_vars => NonceInv'
<1> SUFFICES ASSUME TypeOK, NonceInv, [Next]_vars PROVE NonceInv'
  OBVIOUS
<1>0. /\ accepted \in [1 .. issued -> 0 .. 2] /\ issued \in Nat
      /\ DOMAIN accepted = 1 .. issued
  BY DEF TypeOK
<1> USE DEF NonceInv, AcceptedIsUsed, NonceOnce
<1>1. ASSUME UNCHANGED <<accepted, forgotten>>, used \subseteq used' PROVE NonceInv'
  BY <1>1
<1>2. ASSUME NEW t \in Tasks, Sign(t) \/ Revoke(t) PROVE NonceInv'
  BY <1>1, <1>2 DEF Sign, Revoke
<1>3. CASE IssueNonce
  <2>1. accepted' = Append(accepted, 0) /\ UNCHANGED <<used, forgotten>>
    BY <1>3 DEF IssueNonce
  <2>2. accepted \in Seq(0 .. 2)
    BY <1>0, SeqDef
  <2>3. DOMAIN accepted = 1 .. Len(accepted) /\ Len(accepted) = issued
    <3>1. DOMAIN accepted = 1 .. Len(accepted) /\ Len(accepted) \in Nat
      BY <2>2, LenProperties
    <3>2. QED
      BY <1>0, <3>1
  <2>4. /\ Append(accepted, 0) \in Seq(0 .. 2)
        /\ Len(Append(accepted, 0)) = issued + 1
        /\ \A i \in 1 .. issued : Append(accepted, 0)[i] = accepted[i]
        /\ Append(accepted, 0)[issued + 1] = 0
    BY <2>2, <2>3, AppendProperties
  <2>5. DOMAIN accepted' = 1 .. issued + 1
    BY <2>1, <2>4, LenProperties
  <2>6. ASSUME NEW n \in 1 .. issued + 1
        PROVE  \/ accepted'[n] = 0
               \/ n \in 1 .. issued /\ accepted'[n] = accepted[n]
    <3>1. n \in 1 .. issued \/ n = issued + 1
      BY <1>0
    <3>2. CASE n \in 1 .. issued
      BY <2>1, <2>4, <3>2
    <3>3. CASE n = issued + 1
      BY <2>1, <2>4, <3>3
    <3>4. QED
      BY <3>1, <3>2, <3>3
  <2>7. QED
    BY <1>0, <2>1, <2>5, <2>6
<1>4. ASSUME NEW n \in DOMAIN accepted, NEW good \in BOOLEAN, VerifyEnvelope(n, good)
      PROVE  NonceInv'
  <2>1. n \notin used /\ used' = used \cup {n} /\ UNCHANGED forgotten
    BY <1>4 DEF VerifyEnvelope, Consumable
  <2>2. CASE ~good
    BY <1>1, <1>4, <2>1, <2>2 DEF VerifyEnvelope
  <2>3. CASE good
    <3>1. accepted' = [accepted EXCEPT ![n] = IF @ = 2 THEN 2 ELSE @ + 1]
      BY <1>4, <2>3 DEF VerifyEnvelope
    <3>2. DOMAIN accepted' = DOMAIN accepted
      BY <3>1
    <3>3. ASSUME NEW k \in DOMAIN accepted'
          PROVE  /\ accepted'[k] >= 1 => k \in used' \/ k \in forgotten'.uses
                 /\ accepted'[k] = 2 => k \in forgotten'.uses
      <4>1. CASE k = n
        <5>1. accepted[n] \in 0 .. 2 /\ accepted'[n] = IF accepted[n] = 2 THEN 2 ELSE accepted[n] + 1
          BY <1>0, <3>1
        <5>2. accepted[n] >= 1 => n \in forgotten.uses
          BY <2>1
        <5>3. QED
          BY <2>1, <4>1, <5>1, <5>2
      <4>2. CASE k # n
        <5>1. accepted'[k] = accepted[k] /\ k \in DOMAIN accepted
          BY <3>1, <3>2, <4>2
        <5>2. QED
          BY <2>1, <5>1
      <4>3. QED
        BY <4>1, <4>2
    <3>4. QED
      BY <3>3
  <2>4. QED
    BY <2>2, <2>3
<1>5. CASE StartWrite \/ Commit \/ FailWrite \/ Cache \/ LoseCache
  BY <1>1, <1>5 DEF StartWrite, Commit, FailWrite, EndWrite, Cache, LoseCache, arrays, bounds, history
<1>6. CASE Restart
  <2>1. /\ accepted' = accepted
        /\ \E load \in Loads :
             /\ used' = load.from.used
             /\ forgotten'.uses = forgotten.uses \cup (used \ load.from.used)
    BY <1>6 DEF Restart
  <2>2. QED
    BY <2>1
<1>7. CASE UNCHANGED vars
  BY <1>1, <1>7 DEF vars, arrays, history
<1>8. QED
  BY <1>2, <1>3, <1>4, <1>5, <1>6, <1>7 DEF Next

\* Whatever is interleaved, capped, lost or restarted, an envelope is accepted
\* a second time on a nonce only when a start did not restore its use.
THEOREM UsesCounted == Spec => []NonceOnce
<1>1. Init => NonceInv
  <2>1. DOMAIN <<>> = {}
    OBVIOUS
  <2>2. QED
    BY <2>1 DEF Init, NonceInv, AcceptedIsUsed, NonceOnce
<1>2. NonceInv => NonceOnce
  BY DEF NonceInv
<1>3. QED
  BY <1>1, <1>2, NonceStep, TypesHold, PTL DEF Spec

-----------------------------------------------------------------------------
(* Ledger entries and the tasks they are of *)

\* The jobs' copies hold no entry that memory has not, and a task in a transaction
\* under way has been signed, and is revoked there only if it is revoked now.
CopiesCoherent ==
    /\ \A j \in ToSet(queue) \cup ToSet(caching) : ToSet(j.ledger) \subseteq ToSet(ledger)
    /\ writing # NothingWritten =>
         /\ ToSet(writing.job.ledger) \subseteq ToSet(ledger)
         /\ \A t \in ToSet(writing.job.ledger) :
              /\ writing.status[t] # "draft"
              /\ writing.status[t] = "revoked" => status[t] = "revoked"

\* An entry in memory has its task's link, unless a restart forgot it.
LinksKnown == ToSet(ledger) \subseteq linked \cup forgotten.links

CoherentInv == SavedTogether /\ CopiesCoherent /\ LinksKnown

\* An operation keeps the stores as they are; what memory and the copies need.
LEMMA OperationCoherent ==
    ASSUME TypeOK, CoherentInv, Operates,
           Coherent(Memory)', LinksKnown',
           \A t \in ToSet(ledger) :
             status'[t] # "draft" /\ (status[t] = "revoked" => status'[t] = "revoked")
    PROVE  CoherentInv'
<1>1. PICK js \in Seq(Jobs) : NewJobs(js)
  BY DEF Operates
<1>2. /\ UNCHANGED <<writing, caching, postgres, dragonfly, forgotten>>
      /\ ToSet(ledger) \subseteq ToSet(ledger')
  BY <1>1 DEF NewJobs, Operates
<1>3. SavedTogether'
  BY <1>2 DEF CoherentInv, SavedTogether, Coherent
<1>4. CopiesCoherent'
  <2>1. \A j \in ToSet(queue') \cup ToSet(caching') : ToSet(j.ledger) \subseteq ToSet(ledger')
    <3>1. ToSet(queue') = ToSet(queue) \cup ToSet(js)
      BY <1>1, ConcatFacts DEF NewJobs, TypeOK
    <3>2. \A j \in ToSet(js) : j.ledger = ledger'
      BY <1>1 DEF NewJobs
    <3>3. QED
      BY <1>2, <3>1, <3>2 DEF CoherentInv, CopiesCoherent
  <2>2. QED
    BY <1>2, <2>1 DEF CoherentInv, CopiesCoherent
<1>5. QED
  BY <1>3, <1>4 DEF CoherentInv

LEMMA SignCoherent ==
    ASSUME TypeOK, CoherentInv, NEW t \in Tasks, Sign(t) PROVE CoherentInv'
<1>1. ledger \in Seq(Tasks) /\ status \in [Tasks -> Statuses] /\ live \in [Tasks -> BOOLEAN]
  BY ArraysTyped DEF ArraysOK
<1>2. ToSet(ledger) \subseteq Tasks
  BY <1>1, ElementsTyped
<1>3. /\ status[t] = "draft"
      /\ status' = [status EXCEPT ![t] = "signed"] /\ live' = [live EXCEPT ![t] = TRUE]
      /\ linked' = linked \cup {t} /\ forgotten' = forgotten /\ ledger' = <<t>> \o ledger
  BY DEF Sign
<1>4. ToSet(ledger') = {t} \cup ToSet(ledger)
  <2>1. <<t>> \in Seq(Tasks) /\ ledger \in Seq(Tasks)
    BY <1>1, SingleFacts
  <2>2. /\ <<t>> \o ledger \in Seq(Tasks)
        /\ ToSet(<<t>> \o ledger) = ToSet(<<t>>) \cup ToSet(ledger)
    BY <2>1, ConcatFacts
  <2>3. ToSet(<<t>>) = {t}
    BY SingleFacts
  <2>4. QED
    BY <1>3, <2>2, <2>3
<1>5. \A u \in ToSet(ledger) : /\ status[u] # "draft"
                               /\ status[u] = "revoked" => ~live[u] \/ u \in forgotten.links
  BY DEF CoherentInv, SavedTogether, Coherent, Memory
<1>6. \A u \in ToSet(ledger) : u # t /\ status'[u] = status[u] /\ live'[u] = live[u]
  BY <1>1, <1>2, <1>3, <1>5
<1>7. Coherent(Memory)'
  BY <1>1, <1>3, <1>4, <1>5, <1>6 DEF Coherent, Memory
<1>8. LinksKnown'
  BY <1>3, <1>4 DEF CoherentInv, LinksKnown
<1>9. QED
  BY <1>5, <1>6, <1>7, <1>8, SignOperates, OperationCoherent

LEMMA RevokeCoherent ==
    ASSUME TypeOK, CoherentInv, NEW t \in Tasks, Revoke(t) PROVE CoherentInv'
<1>1. ledger \in Seq(Tasks) /\ status \in [Tasks -> Statuses] /\ live \in [Tasks -> BOOLEAN]
  BY ArraysTyped DEF ArraysOK
<1>2. ToSet(ledger) \subseteq Tasks
  BY <1>1, ElementsTyped
<1>3. /\ status' = [status EXCEPT ![t] = "revoked"]
      /\ live' = IF t \in linked THEN [live EXCEPT ![t] = FALSE] ELSE live
      /\ UNCHANGED <<linked, forgotten, ledger>>
  BY DEF Revoke, EntriesAfterRevoke
<1>4. \A u \in ToSet(ledger) : /\ status[u] # "draft"
                               /\ status[u] = "revoked" => ~live[u] \/ u \in forgotten.links
  BY DEF CoherentInv, SavedTogether, Coherent, Memory
<1>5. \A u \in ToSet(ledger) : /\ status'[u] # "draft"
                               /\ status'[u] = "revoked" => ~live'[u] \/ u \in forgotten.links
                               /\ status[u] = "revoked" => status'[u] = "revoked"
  <2> SUFFICES ASSUME NEW u \in ToSet(ledger)
               PROVE  /\ status'[u] # "draft"
                      /\ status'[u] = "revoked" => ~live'[u] \/ u \in forgotten.links
                      /\ status[u] = "revoked" => status'[u] = "revoked"
    OBVIOUS
  <2>1. CASE u = t
    <3>1. t \in linked \/ t \in forgotten.links
      BY <2>1 DEF CoherentInv, LinksKnown
    <3>2. QED
      BY <1>1, <1>2, <1>3, <2>1, <3>1
  <2>2. CASE u # t
    <3>1. status'[u] = status[u] /\ live'[u] = live[u]
      BY <1>1, <1>2, <1>3, <2>2
    <3>2. QED
      BY <1>4, <3>1
  <2>3. QED
    BY <2>1, <2>2
<1>6. Coherent(Memory)'
  BY <1>3, <1>5 DEF Coherent, Memory
<1>7. LinksKnown'
  BY <1>3 DEF CoherentInv, LinksKnown
<1>8. QED
  BY <1>5, <1>6, <1>7, RevokeOperates, OperationCoherent

LEMMA RestartCoherent ==
    ASSUME TypeOK, CoherentInv, Restart PROVE CoherentInv'
<1>1. PICK load \in Loads :
        /\ status' = load.from.status /\ ledger' = load.from.ledger /\ live' = load.from.live
        /\ linked' = load.from.linked
        /\ forgotten'.links = forgotten.links \cup (ToSet(load.from.ledger) \ load.from.linked)
  BY DEF Restart
<1>2. /\ queue' = <<>> /\ writing' = NothingWritten /\ caching' = <<>>
      /\ UNCHANGED <<postgres, dragonfly>>
  BY DEF Restart, stores
<1>3. Coherent(Memory)'
  <2>1. CASE load.from = FromPostgres
    <3>1. postgres.ledger \in Seq(Tasks)
      BY DEF TypeOK, Tables
    <3>2. ToSet(Newest(postgres.ledger, LedgerLimit)) \subseteq ToSet(postgres.ledger)
      BY <3>1, NewestFacts, LimitsAssumption
    <3>3. Coherent(postgres)
      BY DEF CoherentInv, SavedTogether
    <3>4. /\ status' = postgres.status /\ ledger' = Newest(postgres.ledger, LedgerLimit)
          /\ forgotten'.links = forgotten.links \cup ToSet(ledger')
      BY <1>1, <2>1 DEF FromPostgres
    <3>5. QED
      BY <3>2, <3>3, <3>4 DEF Coherent, Memory
  <2>2. CASE load.from = dragonfly /\ dragonfly # NoSnapshot
    BY <1>1, <2>2 DEF Coherent, Memory, CoherentInv, SavedTogether
  <2>3. CASE load.from = Empty
    <3>1. ToSet(<<>>) = {}
      BY DEF ToSet
    <3>2. ledger' = <<>>
      BY <1>1, <2>3 DEF Empty
    <3>3. QED
      BY <3>1, <3>2 DEF Coherent, Memory
  <2>4. QED
    BY <2>1, <2>2, <2>3, LoadFacts
<1>4. SavedTogether'
  BY <1>1, <1>2, <1>3 DEF CoherentInv, SavedTogether, Coherent
<1>5. CopiesCoherent'
  <2>1. ToSet(<<>>) = {}
    BY DEF ToSet
  <2>2. QED
    BY <1>2, <2>1 DEF CopiesCoherent
<1>6. LinksKnown'
  BY <1>1 DEF LinksKnown
<1>7. QED
  BY <1>4, <1>5, <1>6 DEF CoherentInv

LEMMA EndWriteCaches ==
    ASSUME TypeOK, EndWrite
    PROVE  ToSet(caching') = ToSet(caching) \cup {writing.job}
<1>1. writing.job \in Jobs /\ caching \in Seq(Jobs) /\ caching' = Append(caching, writing.job)
  BY DEF TypeOK, EndWrite, Writing
<1>2. caching' = caching \o <<writing.job>>
  BY <1>1, AppendIsConcat
<1>3. <<writing.job>> \in Seq(Jobs) /\ ToSet(<<writing.job>>) = {writing.job}
  BY <1>1, SingleFacts
<1>4. /\ caching \o <<writing.job>> \in Seq(Jobs)
      /\ ToSet(caching \o <<writing.job>>) = ToSet(caching) \cup ToSet(<<writing.job>>)
  BY <1>1, <1>3, ConcatFacts
<1>5. QED
  BY <1>2, <1>3, <1>4

LEMMA CoherentStep == TypeOK /\ CoherentInv /\ [Next]_vars => CoherentInv'
<1> SUFFICES ASSUME TypeOK, CoherentInv, [Next]_vars PROVE CoherentInv'
  OBVIOUS
<1>1. ASSUME NEW t \in Tasks, Sign(t) PROVE CoherentInv'
  BY <1>1, SignCoherent
<1>2. ASSUME NEW t \in Tasks, Revoke(t) PROVE CoherentInv'
  BY <1>2, RevokeCoherent
<1>3. CASE IssueNonce \/ \E n \in DOMAIN accepted, good \in BOOLEAN : VerifyEnvelope(n, good)
  <2>1. UNCHANGED <<status, ledger, live, linked, forgotten>>
    BY <1>3 DEF IssueNonce, VerifyEnvelope
  <2>2. Coherent(Memory)' /\ LinksKnown' /\ Coherent(Memory)
    BY <2>1 DEF CoherentInv, SavedTogether, Coherent, Memory, LinksKnown
  <2>3. \A t \in ToSet(ledger) :
          status'[t] # "draft" /\ (status[t] = "revoked" => status'[t] = "revoked")
    BY <2>1, <2>2 DEF Coherent, Memory
  <2>4. Operates
    BY <1>3, IssueNonceOperates, VerifyEnvelopeOperates
  <2>5. QED
    BY <2>2, <2>3, <2>4, OperationCoherent
<1>4. CASE StartWrite
  <2>1. Head(queue) \in ToSet(queue) /\ ToSet(Tail(queue)) \subseteq ToSet(queue)
    BY <1>4, TailFacts DEF TypeOK, StartWrite
  <2>2. /\ queue' = Tail(queue) /\ writing'.job = Head(queue) /\ writing'.status = status
        /\ UNCHANGED <<status, ledger, live, linked, caching, postgres, dragonfly, forgotten>>
    BY <1>4 DEF StartWrite, arrays, stores, history
  <2>3. Coherent(Memory)
    BY DEF CoherentInv, SavedTogether
  <2>4. CopiesCoherent'
    BY <2>1, <2>2, <2>3 DEF CoherentInv, CopiesCoherent, Coherent, Memory
  <2>5. QED
    BY <2>2, <2>4 DEF CoherentInv, SavedTogether, Coherent, Memory, LinksKnown
<1>5. ASSUME EndWrite, dragonfly' = dragonfly, Coherent(postgres)' PROVE CoherentInv'
  <2>1. /\ writing # NothingWritten /\ writing' = NothingWritten
        /\ caching' = Append(caching, writing.job)
        /\ UNCHANGED <<status, ledger, live, linked, queue, forgotten>>
    BY <1>5 DEF EndWrite, arrays
  <2>2. ToSet(caching') = ToSet(caching) \cup {writing.job}
    BY <1>5, EndWriteCaches
  <2>3. CopiesCoherent'
    BY <2>1, <2>2 DEF CoherentInv, CopiesCoherent
  <2>4. QED
    BY <1>5, <2>1, <2>3 DEF CoherentInv, SavedTogether, Coherent, Memory, LinksKnown
<1>6. CASE Commit
  <2>1. /\ writing # NothingWritten /\ forgotten' = forgotten
        /\ postgres' = Rows(writing) /\ EndWrite /\ dragonfly' = dragonfly
    BY <1>6 DEF Commit, EndWrite
  <2>2. /\ Rows(writing).status = writing.status /\ Rows(writing).live = live
        /\ Rows(writing).ledger = writing.job.ledger
    BY DEF Rows, LedgerOf
  <2>3. Coherent(Memory)
    BY DEF CoherentInv, SavedTogether
  <2>4. Coherent(postgres)'
    BY <2>1, <2>2, <2>3 DEF CoherentInv, CopiesCoherent, Coherent, Memory
  <2>5. QED
    BY <1>5, <2>1, <2>4
<1>7. CASE FailWrite
  BY <1>5, <1>7 DEF FailWrite, EndWrite, CoherentInv, SavedTogether, Coherent
<1>8. CASE Cache
  <2>1. Head(caching) \in ToSet(caching) /\ ToSet(Tail(caching)) \subseteq ToSet(caching)
    BY <1>8, TailFacts DEF TypeOK, Cache
  <2>2. /\ dragonfly'.status = status /\ dragonfly'.live = live
        /\ dragonfly'.ledger = Head(caching).ledger /\ caching' = Tail(caching)
        /\ UNCHANGED <<status, ledger, live, linked, queue, writing, postgres, forgotten>>
    BY <1>8 DEF Cache, arrays, history
  <2>3. Coherent(Memory) /\ Coherent(postgres)
    BY DEF CoherentInv, SavedTogether
  <2>4. SavedTogether'
    BY <2>1, <2>2, <2>3 DEF CoherentInv, CopiesCoherent, SavedTogether, Coherent, Memory
  <2>5. CopiesCoherent' /\ LinksKnown'
    BY <2>1, <2>2 DEF CoherentInv, CopiesCoherent, LinksKnown
  <2>6. QED
    BY <2>4, <2>5 DEF CoherentInv
<1>9. CASE LoseCache
  <2>1. ToSet(Tail(caching)) \subseteq ToSet(caching)
    BY <1>9, TailFacts DEF TypeOK, LoseCache
  <2>2. /\ caching' = Tail(caching)
        /\ UNCHANGED <<status, ledger, live, linked, queue, writing, postgres, dragonfly, forgotten>>
    BY <1>9 DEF LoseCache, arrays, stores, history
  <2>3. QED
    BY <2>1, <2>2 DEF CoherentInv, CopiesCoherent, SavedTogether, Coherent, Memory, LinksKnown
<1>10. CASE Restart
  BY <1>10, RestartCoherent
<1>11. CASE UNCHANGED vars
  BY <1>11 DEF vars, arrays, work, stores, history,
               CoherentInv, CopiesCoherent, SavedTogether, Coherent, Memory, LinksKnown
<1>12. QED
  BY <1>1, <1>2, <1>3, <1>4, <1>6, <1>7, <1>8, <1>9, <1>10, <1>11 DEF Next

\* For any limits, and whatever is interleaved or lost: neither store ever holds
\* an entry of a draft, nor a live entry of a task revoked with its link.
THEOREM StoresCoherent == Spec => []SavedTogether
<1>1. Init => CoherentInv
  <2>1. ToSet(<<>>) = {}
    BY DEF ToSet
  <2>2. QED
    BY <2>1 DEF Init, CoherentInv, SavedTogether, Coherent, Memory, CopiesCoherent, LinksKnown
<1>2. CoherentInv => SavedTogether
  BY DEF CoherentInv
<1>3. QED
  BY <1>1, <1>2, CoherentStep, TypesHold, PTL DEF Spec

-----------------------------------------------------------------------------
(* Ledger entries in Postgres *)

\* A job's ledger holds what Postgres has, but for what a start has left out.
Covers(l) == ToSet(postgres.ledger) \subseteq ToSet(l) \cup forgotten.entries

\* The jobs are in the order of their calls, and entries are only added: what is
\* written first is in all that follows, and in memory.
CopiesOrdered ==
    /\ \A i, k \in DOMAIN queue :
         i <= k => ToSet(queue[i].ledger) \subseteq ToSet(queue[k].ledger)
    /\ \A i \in DOMAIN queue : ToSet(queue[i].ledger) \subseteq ToSet(ledger)
    /\ writing # NothingWritten =>
         /\ \A i \in DOMAIN queue : ToSet(writing.job.ledger) \subseteq ToSet(queue[i].ledger)
         /\ ToSet(writing.job.ledger) \subseteq ToSet(ledger)

CopiesCover ==
    /\ Covers(ledger)
    /\ \A i \in DOMAIN queue : Covers(queue[i].ledger)
    /\ writing # NothingWritten => Covers(writing.job.ledger)

EntriesInv == CopiesOrdered /\ CopiesCover

LEMMA OperationEntries ==
    ASSUME TypeOK, EntriesInv, Operates PROVE EntriesInv'
<1>1. PICK js \in Seq(Jobs) : NewJobs(js)
  BY DEF Operates
<1>2. /\ UNCHANGED <<writing, postgres, forgotten>>
      /\ ToSet(ledger) \subseteq ToSet(ledger')
  BY <1>1 DEF NewJobs, Operates
<1>3. queue \in Seq(Jobs) /\ queue' = queue \o js
  BY <1>1 DEF NewJobs, TypeOK
<1>4. /\ Len(queue) \in Nat /\ Len(js) \in Nat
      /\ DOMAIN queue = 1 .. Len(queue) /\ DOMAIN js = 1 .. Len(js)
      /\ DOMAIN queue' = 1 .. Len(queue) + Len(js)
      /\ \A i \in 1 .. Len(queue) + Len(js) :
           queue'[i] = IF i <= Len(queue) THEN queue[i] ELSE js[i - Len(queue)]
  <2>1. /\ queue \o js \in Seq(Jobs)
        /\ Len(queue \o js) = Len(queue) + Len(js)
        /\ \A i \in 1 .. Len(queue) + Len(js) :
             (queue \o js)[i] = IF i <= Len(queue) THEN queue[i] ELSE js[i - Len(queue)]
    BY <1>3, ConcatProperties
  <2>2. QED
    BY <1>3, <2>1, LenProperties
<1>5. ASSUME NEW i \in DOMAIN queue'
      PROVE  \/ i \in DOMAIN queue /\ i <= Len(queue) /\ queue'[i] = queue[i]
             \/ i > Len(queue) /\ queue'[i].ledger = ledger'
  <2>1. CASE i <= Len(queue)
    BY <1>4, <2>1
  <2>2. CASE ~(i <= Len(queue))
    <3>1. i - Len(queue) \in 1 .. Len(js) /\ i > Len(queue)
      BY <1>4, <2>2
    <3>2. js[i - Len(queue)] \in ToSet(js)
      BY <1>4, <3>1 DEF ToSet
    <3>3. queue'[i] = js[i - Len(queue)]
      BY <1>4, <2>2
    <3>4. QED
      BY <1>1, <3>1, <3>2, <3>3 DEF NewJobs
  <2>3. QED
    BY <2>1, <2>2
<1>6. CopiesOrdered'
  <2>1. ASSUME NEW i \in DOMAIN queue', NEW k \in DOMAIN queue', i <= k
        PROVE  ToSet(queue'[i].ledger) \subseteq ToSet(queue'[k].ledger)
    <3>1. CASE k <= Len(queue)
      <4>1. i \in DOMAIN queue /\ k \in DOMAIN queue /\ queue'[i] = queue[i] /\ queue'[k] = queue[k]
        BY <1>4, <1>5, <2>1, <3>1
      <4>2. QED
        BY <2>1, <4>1 DEF EntriesInv, CopiesOrdered
    <3>2. CASE k > Len(queue)
      <4>1. queue'[k].ledger = ledger'
        BY <1>4, <1>5, <3>2
      <4>2. ToSet(queue'[i].ledger) \subseteq ToSet(ledger')
        BY <1>2, <1>5 DEF EntriesInv, CopiesOrdered
      <4>3. QED
        BY <4>1, <4>2
    <3>3. QED
      BY <1>4, <3>1, <3>2
  <2>2. \A i \in DOMAIN queue' : ToSet(queue'[i].ledger) \subseteq ToSet(ledger')
    BY <1>2, <1>5 DEF EntriesInv, CopiesOrdered
  <2>3. ASSUME writing' # NothingWritten
        PROVE  /\ \A i \in DOMAIN queue' :
                    ToSet(writing'.job.ledger) \subseteq ToSet(queue'[i].ledger)
               /\ ToSet(writing'.job.ledger) \subseteq ToSet(ledger')
    BY <1>2, <1>5, <2>3 DEF EntriesInv, CopiesOrdered
  <2>4. QED
    BY <2>1, <2>2, <2>3 DEF CopiesOrdered
<1>7. CopiesCover'
  BY <1>2, <1>5 DEF EntriesInv, CopiesCover, Covers
<1>8. QED
  BY <1>6, <1>7 DEF EntriesInv

LEMMA EntriesStep == TypeOK /\ EntriesInv /\ [Next]_vars => EntriesInv'
<1> SUFFICES ASSUME TypeOK, EntriesInv, [Next]_vars PROVE EntriesInv'
  OBVIOUS
<1>1. CASE Operating
  BY <1>1, EachOperates, OperationEntries
<1>2. CASE StartWrite
  <2>1. queue \in Seq(Jobs) /\ queue # <<>>
    BY <1>2 DEF TypeOK, StartWrite
  <2>2. /\ Head(queue) = queue[1] /\ 1 \in DOMAIN queue
        /\ \A i \in DOMAIN Tail(queue) : i + 1 \in DOMAIN queue /\ Tail(queue)[i] = queue[i + 1] /\ 1 <= i + 1
        /\ \A i \in DOMAIN Tail(queue) : i \in Nat
    <3>1. /\ Tail(queue) \in Seq(Jobs) /\ Head(queue) = queue[1]
          /\ Len(queue) \in Nat \ {0} /\ Len(Tail(queue)) = Len(queue) - 1
          /\ \A i \in 1 .. Len(Tail(queue)) : Tail(queue)[i] = queue[i + 1]
      BY <2>1, HeadTailProperties, EmptySeq, LenProperties
    <3>2. DOMAIN queue = 1 .. Len(queue) /\ DOMAIN Tail(queue) = 1 .. Len(Tail(queue))
      BY <2>1, <3>1, LenProperties
    <3>3. QED
      BY <3>1, <3>2
  <2>3. /\ queue' = Tail(queue) /\ writing' = [job |-> Head(queue), status |-> status, used |-> used]
        /\ writing'.job = Head(queue)
        /\ UNCHANGED <<ledger, postgres, forgotten>>
    BY <1>2 DEF StartWrite, arrays, stores, history
  <2>4. \A i, k \in DOMAIN Tail(queue) : i <= k => i + 1 <= k + 1
    BY <2>2
  <2>5. CopiesOrdered'
    BY <2>2, <2>3, <2>4 DEF EntriesInv, CopiesOrdered
  <2>6. CopiesCover'
    BY <2>2, <2>3 DEF EntriesInv, CopiesCover, Covers
  <2>7. QED
    BY <2>5, <2>6 DEF EntriesInv
<1>3. CASE Commit
  <2>1. /\ writing # NothingWritten /\ writing' = NothingWritten
        /\ postgres' = Rows(writing) /\ UNCHANGED <<ledger, queue, forgotten>>
    BY <1>3 DEF Commit, EndWrite, arrays
  <2>2. postgres'.ledger = writing.job.ledger
    BY <2>1 DEF Rows, LedgerOf
  <2>3. CopiesOrdered'
    BY <2>1 DEF EntriesInv, CopiesOrdered
  <2>4. CopiesCover'
    BY <2>1, <2>2 DEF EntriesInv, CopiesOrdered, CopiesCover, Covers
  <2>5. QED
    BY <2>3, <2>4 DEF EntriesInv
<1>4. CASE FailWrite
  BY <1>4 DEF FailWrite, EndWrite, arrays, EntriesInv, CopiesOrdered, CopiesCover, Covers
<1>5. CASE Cache \/ LoseCache \/ UNCHANGED vars
  <2>1. UNCHANGED <<ledger, queue, writing, postgres, forgotten>>
    BY <1>5 DEF Cache, LoseCache, vars, arrays, work, stores, history
  <2>2. QED
    BY <2>1 DEF EntriesInv, CopiesOrdered, CopiesCover, Covers
<1>6. CASE Restart
  <2>1. /\ queue' = <<>> /\ writing' = NothingWritten /\ postgres' = postgres
        /\ \E load \in Loads :
             /\ ledger' = load.from.ledger
             /\ forgotten'.entries = forgotten.entries
                                     \cup (ToSet(postgres.ledger) \ ToSet(load.from.ledger))
    BY <1>6 DEF Restart, stores
  <2>2. DOMAIN <<>> = {}
    OBVIOUS
  <2>3. QED
    BY <2>1, <2>2 DEF EntriesInv, CopiesOrdered, CopiesCover, Covers
<1>7. QED
  BY <1>1, <1>2, <1>3, <1>4, <1>5, <1>6 DEF Next, Operating

LEMMA EntriesLeave ==
    EntriesInv /\ [Next]_vars
      => [ToSet(postgres.ledger) \ ToSet(postgres'.ledger) \subseteq forgotten.entries]_vars
<1> SUFFICES ASSUME EntriesInv, Next
             PROVE  ToSet(postgres.ledger) \ ToSet(postgres'.ledger) \subseteq forgotten.entries
  OBVIOUS
<1>1. CASE Commit
  <2>1. writing # NothingWritten /\ postgres' = Rows(writing)
    BY <1>1 DEF Commit, EndWrite
  <2>2. postgres'.ledger = writing.job.ledger
    BY <2>1 DEF Rows, LedgerOf
  <2>3. QED
    BY <2>1, <2>2 DEF EntriesInv, CopiesCover, Covers
<1>2. CASE ~Commit
  <2>1. postgres' = postgres
    BY <1>2 DEF Next, Sign, Revoke, IssueNonce, VerifyEnvelope, Operation, StartWrite,
                FailWrite, Cache, LoseCache, Restart, stores
  <2>2. QED
    BY <2>1
<1>3. QED
  BY <1>1, <1>2

\* No job, however old its copy of the array, removes an entry from Postgres that
\* a later start had not already left out of memory.
THEOREM EntriesStay == Spec => LedgerKept
<1>1. Init => EntriesInv
  <2>1. ToSet(<<>>) = {} /\ DOMAIN <<>> = {}
    BY DEF ToSet
  <2>2. QED
    BY <2>1 DEF Init, EntriesInv, CopiesOrdered, CopiesCover, Covers
<1>2. QED
  BY <1>1, EntriesStep, EntriesLeave, TypesHold, PTL DEF Spec, LedgerKept

-----------------------------------------------------------------------------
(* The settled state *)

\* The job that is written last has the members of now; once it is in its
\* transaction, the rows it has made are of the fields of now, too.
LastJobCurrent ==
    /\ queue # <<>> => queue[Len(queue)] = Job(ledger, audit, nonces)
    /\ queue = <<>> /\ writing # NothingWritten =>
         writing = [job |-> Job(ledger, audit, nonces), status |-> status, used |-> used]

SettledInv == LastJobCurrent /\ SettledIsSaved

LEMMA OperationSettled ==
    ASSUME TypeOK, Operates PROVE SettledInv'
<1>1. PICK js \in Seq(Jobs) : NewJobs(js)
  BY DEF Operates
<1>2. queue \in Seq(Jobs) /\ queue' = queue \o js /\ Latest(js)
  BY <1>1 DEF TypeOK, NewJobs
<1>3. /\ Len(queue) \in Nat /\ Len(js) \in Nat /\ Len(queue') = Len(queue) + Len(js)
      /\ \A i \in 1 .. Len(queue) + Len(js) :
           queue'[i] = IF i <= Len(queue) THEN queue[i] ELSE js[i - Len(queue)]
  BY <1>2, ConcatProperties, LenProperties
<1>4. Len(js) >= 1
  BY <1>2 DEF Latest
<1>5. queue'[Len(queue')] = js[Len(js)]
  <2>1. /\ Len(queue) + Len(js) \in 1 .. Len(queue) + Len(js)
        /\ ~(Len(queue) + Len(js) <= Len(queue))
        /\ Len(queue) + Len(js) - Len(queue) = Len(js)
    BY <1>3, <1>4
  <2>2. QED
    BY <1>3, <2>1
<1>6. queue' # <<>>
  BY <1>3, <1>4
<1>7. QED
  BY <1>2, <1>5, <1>6 DEF Latest, SettledInv, LastJobCurrent, SettledIsSaved

LEMMA SettledStep == TypeOK /\ SettledInv /\ [Next]_vars => SettledInv'
<1> SUFFICES ASSUME TypeOK, SettledInv, [Next]_vars PROVE SettledInv'
  OBVIOUS
<1>1. CASE Operating
  BY <1>1, EachOperates, OperationSettled
<1>2. CASE StartWrite
  <2>1. /\ queue \in Seq(Jobs) /\ queue # <<>> /\ queue' = Tail(queue)
        /\ writing' = [job |-> Head(queue), status |-> status, used |-> used]
        /\ UNCHANGED <<status, ledger, nonces, used, audit>>
    BY <1>2 DEF TypeOK, StartWrite, arrays
  <2>2. /\ Head(queue) = queue[1] /\ Tail(queue) \in Seq(Jobs)
        /\ Len(queue) \in Nat \ {0} /\ Len(Tail(queue)) = Len(queue) - 1
        /\ \A i \in 1 .. Len(Tail(queue)) : Tail(queue)[i] = queue[i + 1]
    BY <2>1, HeadTailProperties, EmptySeq, LenProperties
  <2>3. CASE Tail(queue) = <<>>
    <3>1. Len(queue) = 1
      <4> DEFINE n == Len(queue)
                 m == Len(Tail(queue))
      <4>1. m = 0
        BY <2>3, EmptySeq
      <4>2. n \in Nat \ {0} /\ m = n - 1
        BY <2>2
      <4>3. QED
        <5> HIDE DEF n, m
        <5>1. n = 1
          BY <4>1, <4>2
        <5>2. QED
          BY <5>1 DEF n
    <3>2. Head(queue) = Job(ledger, audit, nonces)
      BY <2>1, <2>2, <3>1 DEF SettledInv, LastJobCurrent
    <3>3. writing' # NothingWritten
      <4>1. writing'.job \in Jobs
        BY <2>1, TailFacts
      <4>2. writing'.job.ledger \in Seq(Tasks)
        BY <4>1 DEF Jobs
      <4>3. writing' \in Writing
        BY <2>1, <4>1, ArraysTyped DEF ArraysOK, Writing
      <4>4. QED
        BY <4>3 DEF Writing, NothingWritten
    <3>4. QED
      BY <2>1, <2>3, <3>2, <3>3 DEF SettledInv, LastJobCurrent, SettledIsSaved
  <2>4. CASE Tail(queue) # <<>>
    <3>1. Len(Tail(queue)) # 0
      BY <2>2, <2>4, EmptySeq
    <3>2. Tail(queue)[Len(Tail(queue))] = queue[Len(queue)]
      BY <2>2, <3>1
    <3>3. QED
      BY <2>1, <2>4, <3>2 DEF SettledInv, LastJobCurrent, SettledIsSaved
  <2>5. QED
    BY <2>3, <2>4
<1>3. CASE Commit
  <2>1. /\ writing # NothingWritten /\ writing' = NothingWritten /\ postgres' = Rows(writing)
        /\ UNCHANGED <<status, ledger, live, nonces, used, audit, queue>>
    BY <1>3 DEF Commit, EndWrite, arrays
  <2>2. LastJobCurrent'
    BY <2>1 DEF SettledInv, LastJobCurrent
  <2>3. ASSUME queue' = <<>>
        PROVE  /\ postgres'.status = status /\ postgres'.ledger = ledger /\ postgres'.live = live
               /\ postgres'.nonces = nonces /\ postgres'.used = used /\ postgres'.audit = audit
    <3>1. writing = [job |-> Job(ledger, audit, nonces), status |-> status, used |-> used]
      BY <2>1, <2>3 DEF SettledInv, LastJobCurrent
    <3>2. QED
      BY <2>1, <3>1 DEF Rows, LedgerOf, Job
  <2>4. SettledIsSaved'
    BY <2>1, <2>3 DEF SettledIsSaved
  <2>5. QED
    BY <2>2, <2>4 DEF SettledInv
<1>4. CASE FailWrite
  <2>1. /\ writing' = NothingWritten /\ savedLast' = FALSE
        /\ UNCHANGED <<ledger, nonces, audit, queue>>
    BY <1>4 DEF FailWrite, EndWrite, arrays
  <2>2. QED
    BY <2>1 DEF SettledInv, LastJobCurrent, SettledIsSaved
<1>5. CASE Cache \/ LoseCache \/ UNCHANGED vars
  <2>1. UNCHANGED <<status, ledger, live, nonces, used, audit, queue, writing, postgres, savedLast>>
    BY <1>5 DEF Cache, LoseCache, vars, arrays, work, stores, history
  <2>2. QED
    BY <2>1 DEF SettledInv, LastJobCurrent, SettledIsSaved
<1>6. CASE Restart
  <2>1. queue' = <<>> /\ writing' = NothingWritten /\ savedLast' = FALSE
    BY <1>6 DEF Restart
  <2>2. QED
    BY <2>1 DEF SettledInv, LastJobCurrent, SettledIsSaved
<1>7. QED
  BY <1>1, <1>2, <1>3, <1>4, <1>5, <1>6 DEF Next, Operating

\* However operations, transactions and failures are interleaved: when the queue
\* is empty and this process's last transaction has committed, what a crash
\* would leave in Postgres is what memory has.
THEOREM SettledSaved == Spec => []SettledIsSaved
<1>1. Init => SettledInv
  BY DEF Init, SettledInv, LastJobCurrent, SettledIsSaved
<1>2. SettledInv => SettledIsSaved
  BY DEF SettledInv
<1>3. QED
  BY <1>1, <1>2, SettledStep, TypesHold, PTL DEF Spec

-----------------------------------------------------------------------------
(* Nonces in memory *)

\* However many have been lost, the i-th nonce of a list has i - 1 younger ones.
Numbered(s) == \A i \in DOMAIN s : s[i] <= issued + 1 - i

CopiesNumbered ==
    /\ Numbered(nonces)
    /\ \A j \in ToSet(queue) \cup ToSet(caching) : Numbered(j.nonces)
    /\ writing # NothingWritten => Numbered(writing.job.nonces)
    /\ Numbered(postgres.nonces)
    /\ dragonfly # NoSnapshot => Numbered(dragonfly.nonces)

KeptInv == CopiesNumbered /\ NoncesKept

\* A list's newest nonces are a list's beginning.
LEMMA NewestBegins ==
    ASSUME NEW s \in Seq(Nat), NEW limit \in Nat
    PROVE  /\ DOMAIN Newest(s, limit) \subseteq DOMAIN s
           /\ \A i \in DOMAIN Newest(s, limit) : Newest(s, limit)[i] = s[i]
           /\ \A i \in DOMAIN s : i <= limit => i \in DOMAIN Newest(s, limit)
<1> DEFINE m == IF Len(s) < limit THEN Len(s) ELSE limit
<1>1. Len(s) \in Nat /\ DOMAIN s = 1 .. Len(s)
  BY LenProperties
<1>2. m \in Nat /\ m <= Len(s) /\ \A i \in 1 .. Len(s) : i <= limit => i \in 1 .. m
  BY <1>1
<1>3. /\ SubSeq(s, 1, m) \in Seq(Nat)
      /\ Len(SubSeq(s, 1, m)) = m
      /\ \A i \in 1 .. m : SubSeq(s, 1, m)[i] = s[i]
  <2> HIDE DEF m
  <2>1. \A i \in 1 .. m : s[i] \in Nat
    BY <1>1, <1>2, ElementOfSeq
  <2>2. QED
    BY <1>1, <1>2, <2>1
<1>4. DOMAIN SubSeq(s, 1, m) = 1 .. m
  BY <1>3, LenProperties
<1>5. Newest(s, limit) = SubSeq(s, 1, m)
  BY DEF Newest, m
<1>6. QED
  <2> HIDE DEF m
  <2>1. QED
    BY <1>1, <1>2, <1>3, <1>4, <1>5

\* A list with one more in front of it has the rest one place further.
LEMMA FrontFacts ==
    ASSUME NEW n \in Nat, NEW s \in Seq(Nat)
    PROVE  /\ <<n>> \o s \in Seq(Nat)
           /\ (<<n>> \o s)[1] = n /\ 1 \in DOMAIN (<<n>> \o s)
           /\ \A i \in DOMAIN (<<n>> \o s) :
                i = 1 \/ (i - 1 \in DOMAIN s /\ (<<n>> \o s)[i] = s[i - 1])
           /\ \A i \in DOMAIN s : i + 1 \in DOMAIN (<<n>> \o s) /\ (<<n>> \o s)[i + 1] = s[i]
<1>1. <<n>> \in Seq(Nat) /\ Len(<<n>>) = 1 /\ <<n>>[1] = n
  BY SingleFacts
<1>2. Len(s) \in Nat /\ DOMAIN s = 1 .. Len(s)
  BY LenProperties
<1>3. /\ <<n>> \o s \in Seq(Nat) /\ Len(<<n>> \o s) = 1 + Len(s)
      /\ \A i \in 1 .. 1 + Len(s) :
           (<<n>> \o s)[i] = IF i <= 1 THEN <<n>>[i] ELSE s[i - 1]
  BY <1>1, ConcatProperties
<1>4. DOMAIN (<<n>> \o s) = 1 .. 1 + Len(s)
  BY <1>3, LenProperties
<1> DEFINE c == <<n>> \o s
<1>5. /\ c[1] = n /\ 1 \in 1 .. 1 + Len(s)
      /\ \A i \in 1 .. 1 + Len(s) : i = 1 \/ (i - 1 \in 1 .. Len(s) /\ c[i] = s[i - 1])
      /\ \A i \in 1 .. Len(s) : i + 1 \in 1 .. 1 + Len(s) /\ c[i + 1] = s[i]
  <2>1. c[1] = n /\ \A i \in 1 .. 1 + Len(s) : i > 1 => c[i] = s[i - 1]
    <3>1. c[1] = n
      BY <1>1, <1>2, <1>3
    <3>2. \A i \in 1 .. 1 + Len(s) : i > 1 => c[i] = s[i - 1]
      BY <1>3
    <3>3. QED
      BY <3>1, <3>2
  <2>2. QED
    <3> HIDE DEF c
    <3>1. \A i \in 1 .. 1 + Len(s) : i = 1 \/ (i > 1 /\ i - 1 \in 1 .. Len(s))
      BY <1>2
    <3>2. \A i \in 1 .. Len(s) : i + 1 \in 1 .. 1 + Len(s) /\ i + 1 > 1 /\ i + 1 - 1 = i
      BY <1>2
    <3>3. 1 \in 1 .. 1 + Len(s)
      BY <1>2
    <3>4. \A i \in 1 .. Len(s) : c[i + 1] = s[i]
      BY <2>1, <3>2
    <3>5. QED
      BY <2>1, <3>1, <3>2, <3>3, <3>4
<1>6. QED
  BY <1>2, <1>3, <1>4, <1>5

LEMMA IssueKeeps ==
    ASSUME TypeOK, KeptInv, IssueNonce
    PROVE  Numbered(nonces)' /\ NoncesKept'
<1> DEFINE all == <<issued'>> \o nonces
<1>1. /\ nonces \in Seq(Nat) /\ issued \in Nat /\ issued' = issued + 1
      /\ accepted \in [1 .. issued -> 0 .. 2] /\ forgotten' = forgotten
      /\ nonces' = Newest(all, NonceCap)
  BY ArraysTyped DEF ArraysOK, TypeOK, IssueNonce, Kept
<1>2. /\ all \in Seq(Nat) /\ all[1] = issued' /\ 1 \in DOMAIN all
      /\ \A i \in DOMAIN all : i = 1 \/ (i - 1 \in DOMAIN nonces /\ all[i] = nonces[i - 1])
      /\ \A i \in DOMAIN nonces : i + 1 \in DOMAIN all /\ all[i + 1] = nonces[i]
  <2>1. issued' \in Nat
    BY <1>1
  <2>2. QED
    BY <1>1, <2>1, FrontFacts
<1> HIDE DEF all
<1>3. /\ DOMAIN nonces' \subseteq DOMAIN all
      /\ \A i \in DOMAIN nonces' : nonces'[i] = all[i]
      /\ \A i \in DOMAIN all : i <= NonceCap => i \in DOMAIN nonces'
  BY <1>1, <1>2, NewestBegins, LimitsAssumption
<1>4. /\ DOMAIN nonces \subseteq Nat /\ DOMAIN all \subseteq Nat
      /\ \A i \in DOMAIN nonces : nonces[i] \in Nat
  BY <1>1, <1>2, LenProperties, ElementOfSeq
<1>5. \A i \in DOMAIN nonces : nonces[i] <= issued + 1 - i
  BY DEF KeptInv, CopiesNumbered, Numbered
<1>6. Numbered(nonces)'
  <2>1. ASSUME NEW i \in DOMAIN nonces' PROVE nonces'[i] <= issued' + 1 - i
    <3>1. nonces'[i] = all[i] /\ i \in DOMAIN all /\ i \in Nat
      BY <1>3, <1>4
    <3>2. CASE i = 1
      BY <1>1, <1>2, <3>1, <3>2
    <3>3. CASE i # 1
      <4>1. i - 1 \in DOMAIN nonces /\ all[i] = nonces[i - 1]
        BY <1>2, <3>1, <3>3
      <4>2. nonces[i - 1] <= issued + 1 - (i - 1) /\ nonces[i - 1] \in Nat
        BY <1>4, <1>5, <4>1
      <4>3. QED
        BY <1>1, <3>1, <4>1, <4>2
    <3>4. QED
      BY <3>2, <3>3
  <2>2. QED
    BY <2>1 DEF Numbered
<1>7. DOMAIN accepted' = 1 .. issued + 1
  <2>1. Operates
    BY IssueNonceOperates
  <2>2. QED
    BY <1>1, <2>1 DEF Operates
<1>8. ASSUME NEW n \in 1 .. issued + 1, n \notin ToSet(nonces')
      PROVE  issued' - n >= NonceCap \/ n \in forgotten'.nonces
  <2>1. ASSUME NEW i \in DOMAIN all, all[i] = n PROVE i > NonceCap
    <3>1. i \notin DOMAIN nonces'
      BY <1>3, <1>8, <2>1 DEF ToSet
    <3>2. QED
      BY <1>3, <1>4, <3>1, LimitsAssumption
  <2>2. CASE n = issued + 1
    <3>1. 1 > NonceCap
      BY <1>1, <1>2, <2>1, <2>2
    <3>2. QED
      BY <1>1, <2>2, <3>1, LimitsAssumption
  <2>3. CASE n \in ToSet(nonces)
    <3>1. PICK i \in DOMAIN nonces : nonces[i] = n
      BY <2>3 DEF ToSet
    <3>2. i + 1 \in DOMAIN all /\ all[i + 1] = n /\ i \in Nat
      BY <1>2, <1>4, <3>1
    <3>3. i + 1 > NonceCap
      BY <2>1, <3>2
    <3>4. n <= issued + 1 - i
      BY <1>5, <3>1
    <3>5. QED
      BY <1>1, <3>2, <3>3, <3>4, LimitsAssumption
  <2>4. CASE n \in 1 .. issued /\ n \notin ToSet(nonces)
    <3>1. issued - n >= NonceCap \/ n \in forgotten.nonces
      BY <1>1, <2>4 DEF KeptInv, NoncesKept
    <3>2. QED
      BY <1>1, <3>1, LimitsAssumption
  <2>5. n = issued + 1 \/ n \in 1 .. issued
    BY <1>1
  <2>6. QED
    BY <2>2, <2>3, <2>4, <2>5
<1>9. QED
  BY <1>6, <1>7, <1>8 DEF NoncesKept

NumberedNext(s) == \A i \in DOMAIN s : s[i] <= issued' + 1 - i

LEMMA NumberedStays ==
    ASSUME issued \in Nat, issued' = issued \/ issued' = issued + 1,
           NEW s \in Seq(Nat), Numbered(s)
    PROVE  NumberedNext(s)
<1>1. \A i \in DOMAIN s : i \in Nat /\ s[i] \in Nat
  BY LenProperties, ElementOfSeq
<1>2. QED
  BY <1>1 DEF Numbered, NumberedNext

LEMMA OperationKeeps ==
    ASSUME TypeOK, KeptInv, Operating
    PROVE  KeptInv'
<1>1. PICK js \in Seq(Jobs) : NewJobs(js)
  BY EachOperates DEF Operates
<1>2. UNCHANGED <<writing, caching, postgres, dragonfly, forgotten>>
  BY <1>1, EachOperates DEF NewJobs, Operates
<1>3. issued \in Nat /\ (issued' = issued \/ issued' = issued + 1)
  BY DEF TypeOK, Operating, Sign, Revoke, IssueNonce, VerifyEnvelope
<1>4. Numbered(nonces)' /\ NoncesKept'
  <2>1. CASE IssueNonce
    BY <2>1, IssueKeeps
  <2>2. CASE ~IssueNonce
    <3>1. UNCHANGED <<nonces, issued>>
      BY <2>2 DEF Operating, Sign, Revoke, VerifyEnvelope
    <3>2. DOMAIN accepted = 1 .. issued /\ DOMAIN accepted' = 1 .. issued'
      BY EachOperates DEF TypeOK, Operates
    <3>3. QED
      BY <1>2, <3>1, <3>2 DEF KeptInv, CopiesNumbered, Numbered, NoncesKept
  <2>3. QED
    BY <2>1, <2>2
<1>5. \A j \in ToSet(queue') \cup ToSet(caching') : NumberedNext(j.nonces)
  <2>1. queue \in Seq(Jobs) /\ caching \in Seq(Jobs) /\ ToSet(queue') = ToSet(queue) \cup ToSet(js)
    BY <1>1, ConcatFacts DEF NewJobs, TypeOK
  <2>2. ASSUME NEW j \in ToSet(queue) \cup ToSet(caching) PROVE NumberedNext(j.nonces)
    <3>1. j \in Jobs
      BY <2>1, ElementsTyped
    <3>2. j.nonces \in Seq(Nat)
      BY <3>1 DEF Jobs
    <3>3. Numbered(j.nonces)
      BY DEF KeptInv, CopiesNumbered
    <3>4. QED
      BY <1>3, <3>2, <3>3, NumberedStays
  <2>3. ASSUME NEW j \in ToSet(js) PROVE NumberedNext(j.nonces)
    <3>1. j.nonces = nonces'
      BY <1>1 DEF NewJobs
    <3>2. QED
      BY <1>4, <3>1 DEF Numbered, NumberedNext
  <2>4. QED
    BY <1>2, <2>1, <2>2, <2>3
<1>6. /\ writing # NothingWritten => NumberedNext(writing.job.nonces)
      /\ NumberedNext(postgres.nonces)
      /\ dragonfly # NoSnapshot => NumberedNext(dragonfly.nonces)
  <2>1. /\ writing # NothingWritten => writing.job.nonces \in Seq(Nat)
        /\ postgres.nonces \in Seq(Nat)
        /\ dragonfly # NoSnapshot => dragonfly.nonces \in Seq(Nat)
    <3>1. writing # NothingWritten => writing.job \in Jobs
      BY DEF TypeOK, Writing
    <3>2. QED
      BY <3>1 DEF TypeOK, Jobs, Tables, Arrays
  <2>2. /\ writing # NothingWritten => Numbered(writing.job.nonces)
        /\ Numbered(postgres.nonces)
        /\ dragonfly # NoSnapshot => Numbered(dragonfly.nonces)
    BY DEF KeptInv, CopiesNumbered
  <2>3. QED
    BY <1>3, <2>1, <2>2, NumberedStays
<1>7. CopiesNumbered'
  BY <1>2, <1>4, <1>5, <1>6 DEF CopiesNumbered, Numbered, NumberedNext
<1>8. QED
  BY <1>4, <1>7 DEF KeptInv

LEMMA RestartKeeps ==
    ASSUME TypeOK, KeptInv, Restart PROVE KeptInv'
<1>1. PICK load \in Loads :
        /\ nonces' = load.from.nonces
        /\ forgotten'.nonces = forgotten.nonces \cup (ToSet(nonces) \ ToSet(load.from.nonces))
  BY DEF Restart
<1>2. /\ queue' = <<>> /\ writing' = NothingWritten /\ caching' = <<>>
      /\ UNCHANGED <<postgres, dragonfly, issued, accepted>>
  BY DEF Restart, stores
<1>3. Numbered(load.from.nonces)
  <2>1. CASE load.from = FromPostgres
    <3>1. postgres.nonces \in Seq(Nat) /\ Numbered(postgres.nonces)
      BY DEF TypeOK, Tables, KeptInv, CopiesNumbered
    <3>2. load.from.nonces = Newest(postgres.nonces, NonceCap)
      BY <2>1 DEF FromPostgres
    <3>3. QED
      BY <3>1, <3>2, NewestBegins, LimitsAssumption DEF Numbered
  <2>2. CASE load.from = dragonfly /\ dragonfly # NoSnapshot
    BY <2>2 DEF KeptInv, CopiesNumbered
  <2>3. CASE load.from = Empty
    <3>1. load.from.nonces = <<>> /\ DOMAIN <<>> = {}
      BY <2>3 DEF Empty
    <3>2. QED
      BY <3>1 DEF Numbered
  <2>4. QED
    BY <2>1, <2>2, <2>3, LoadFacts
<1>4. CopiesNumbered'
  <2>1. ToSet(<<>>) = {}
    BY DEF ToSet
  <2>2. QED
    BY <1>1, <1>2, <1>3, <2>1 DEF KeptInv, CopiesNumbered, Numbered
<1>5. NoncesKept'
  BY <1>1, <1>2 DEF KeptInv, NoncesKept
<1>6. QED
  BY <1>4, <1>5 DEF KeptInv

LEMMA KeptStep == TypeOK /\ KeptInv /\ [Next]_vars => KeptInv'
<1> SUFFICES ASSUME TypeOK, KeptInv, [Next]_vars PROVE KeptInv'
  OBVIOUS
<1>1. CASE Operating
  BY <1>1, OperationKeeps
<1>2. ASSUME UNCHANGED <<nonces, issued, accepted, forgotten>>, CopiesNumbered' PROVE KeptInv'
  BY <1>2 DEF KeptInv, NoncesKept
<1>3. CASE StartWrite
  <2>1. Head(queue) \in ToSet(queue) /\ ToSet(Tail(queue)) \subseteq ToSet(queue)
    BY <1>3, TailFacts DEF TypeOK, StartWrite
  <2>2. /\ queue' = Tail(queue) /\ writing'.job = Head(queue)
        /\ UNCHANGED <<nonces, caching, postgres, dragonfly, issued, accepted, forgotten>>
    BY <1>3 DEF StartWrite, arrays, stores, history
  <2>3. CopiesNumbered'
    BY <2>1, <2>2 DEF KeptInv, CopiesNumbered, Numbered
  <2>4. QED
    BY <1>2, <2>2, <2>3
<1>4. CASE Commit \/ FailWrite
  <2>1. /\ EndWrite /\ writing # NothingWritten /\ writing' = NothingWritten
        /\ UNCHANGED <<nonces, queue, dragonfly, issued, accepted, forgotten>>
    BY <1>4 DEF Commit, FailWrite, EndWrite, arrays
  <2>2. ToSet(caching') = ToSet(caching) \cup {writing.job}
    BY <2>1, EndWriteCaches
  <2>3. postgres'.nonces = postgres.nonces \/ postgres'.nonces = writing.job.nonces
    BY <1>4 DEF Commit, FailWrite, Rows
  <2>4. CopiesNumbered'
    BY <2>1, <2>2, <2>3 DEF KeptInv, CopiesNumbered, Numbered
  <2>5. QED
    BY <1>2, <2>1, <2>4
<1>5. CASE Cache
  <2>1. Head(caching) \in ToSet(caching) /\ ToSet(Tail(caching)) \subseteq ToSet(caching)
    BY <1>5, TailFacts DEF TypeOK, Cache
  <2>2. /\ caching' = Tail(caching) /\ dragonfly'.nonces = Head(caching).nonces
        /\ UNCHANGED <<nonces, queue, writing, postgres, issued, accepted, forgotten>>
    BY <1>5 DEF Cache, arrays, history
  <2>3. CopiesNumbered'
    BY <2>1, <2>2 DEF KeptInv, CopiesNumbered, Numbered
  <2>4. QED
    BY <1>2, <2>2, <2>3
<1>6. CASE LoseCache
  <2>1. ToSet(Tail(caching)) \subseteq ToSet(caching)
    BY <1>6, TailFacts DEF TypeOK, LoseCache
  <2>2. /\ caching' = Tail(caching)
        /\ UNCHANGED <<nonces, queue, writing, postgres, dragonfly, issued, accepted, forgotten>>
    BY <1>6 DEF LoseCache, arrays, stores, history
  <2>3. CopiesNumbered'
    BY <2>1, <2>2 DEF KeptInv, CopiesNumbered, Numbered
  <2>4. QED
    BY <1>2, <2>2, <2>3
<1>7. CASE Restart
  BY <1>7, RestartKeeps
<1>8. CASE UNCHANGED vars
  BY <1>8 DEF vars, arrays, work, stores, history, KeptInv, CopiesNumbered, Numbered, NoncesKept
<1>9. QED
  BY <1>1, <1>3, <1>4, <1>5, <1>6, <1>7, <1>8 DEF Next, Operating

\* Whatever the stores lose, and through every restart: a nonce leaves memory only
\* by the cap, after that many younger ones, or because a start did not restore it.
THEOREM NoncesStay == Spec => []NoncesKept
<1>1. Init => KeptInv
  <2>1. ToSet(<<>>) = {} /\ DOMAIN <<>> = {}
    BY DEF ToSet
  <2>2. QED
    BY <2>1 DEF Init, KeptInv, CopiesNumbered, Numbered, NoncesKept
<1>2. KeptInv => NoncesKept
  BY DEF KeptInv
<1>3. QED
  BY <1>1, <1>2, KeptStep, TypesHold, PTL DEF Spec

-----------------------------------------------------------------------------
(* The audit chain *)

\* An event with a hash continues from the one before it; one without was loaded from
\* Postgres, as were all before it.
Chained(events) ==
    \A i \in 1 .. Len(events) :
        /\ events[i].hash = NoHash =>
              /\ events[i].previous = NoHash
              /\ \A k \in i .. Len(events) : events[k].hash = NoHash
        /\ events[i].hash # NoHash =>
              /\ events[i].hash = Hash(events[i].id, events[i].previous)
              /\ events[i].previous =
                    IF i = Len(events) THEN NoHash ELSE events[i + 1].hash

\* verifyChain's running hash
IsRunning(events, f) ==
    f = [i \in 0 .. Len(events) |->
           IF i = 0 THEN NoHash
           ELSE IF Reverse(events)[i].hash # NoHash THEN Reverse(events)[i].hash
           ELSE Hash(Reverse(events)[i].id, f[i - 1])]

Verifies(events, f) ==
    \A i \in DOMAIN Reverse(events) :
        /\ Reverse(events)[i].hash # NoHash =>
              Reverse(events)[i].hash = Hash(Reverse(events)[i].id, f[i - 1])
        /\ f[i - 1] # NoHash => Reverse(events)[i].previous = f[i - 1]

LEMMA VerdictFacts ==
    ASSUME NEW events, NEW g, IsRunning(events, g)
    PROVE  \E f : IsRunning(events, f) /\ (VerifyChain(events) <=> Verifies(events, f))
<1> DEFINE running == CHOOSE f : IsRunning(events, f)
<1>1. IsRunning(events, running)
  OBVIOUS
<1>2. VerifyChain(events) <=> Verifies(events, running)
  BY DEF VerifyChain, Verifies, IsRunning
<1>3. QED
  BY <1>1, <1>2

LEMMA HashFacts ==
    ASSUME NEW id \in Nat, NEW previous \in Seq(Nat)
    PROVE  Hash(id, previous) \in Seq(Nat) /\ Hash(id, previous) # NoHash
<1>1. /\ Append(previous, id) \in Seq(Nat) /\ Len(Append(previous, id)) = Len(previous) + 1
      /\ Len(previous) \in Nat
  BY AppendProperties, LenProperties
<1>2. Len(<<>>) = 0
  BY EmptySeq
<1>3. QED
  BY <1>1, <1>2 DEF Hash, NoHash

\* The oldest events first
LEMMA ReverseFacts ==
    ASSUME NEW events \in Seq(Event)
    PROVE  /\ Len(events) \in Nat /\ DOMAIN events = 1 .. Len(events)
           /\ DOMAIN Reverse(events) = 1 .. Len(events)
           /\ \A i \in 1 .. Len(events) :
                 /\ Reverse(events)[i] = events[Len(events) - i + 1]
                 /\ Len(events) - i + 1 \in 1 .. Len(events)
                 /\ Reverse(events)[i] \in Event
<1>1. Len(events) \in Nat /\ DOMAIN events = 1 .. Len(events)
  BY LenProperties
<1>2. \A i \in 1 .. Len(events) : Len(events) - i + 1 \in 1 .. Len(events)
  BY <1>1
<1>3. \A i \in 1 .. Len(events) : events[i] \in Event
  BY ElementOfSeq
<1>4. QED
  BY <1>1, <1>2, <1>3 DEF Reverse

\* Of a chain the running hash is the stored one where there is one, and covers all the
\* events before where there is none.
LEMMA RunningExists ==
    ASSUME NEW events \in Seq(Event), Chained(events)
    PROVE  \E g : IsRunning(events, g)
<1> DEFINE n == Len(events)
           o == Reverse(events)
           ids(i) == [k \in 1 .. i |-> o[k].id]
           g == [i \in 0 .. n |-> IF i = 0 THEN NoHash
                                  ELSE IF o[i].hash # NoHash THEN o[i].hash ELSE ids(i)]
<1>1. n \in Nat /\ \A i \in 1 .. n : o[i].id \in Nat
  BY ReverseFacts DEF Event
<1>2. \A i \in 2 .. n : o[i].hash = NoHash => o[i - 1].hash = NoHash
  <2>1. ASSUME NEW i \in 2 .. n, o[i].hash = NoHash PROVE o[i - 1].hash = NoHash
    <3>1. i \in 1 .. n /\ i - 1 \in 1 .. n /\ n - i + 1 \in 1 .. n
          /\ n - (i - 1) + 1 \in (n - i + 1) .. n
      BY <1>1
    <3>2. o[i] = events[n - i + 1] /\ o[i - 1] = events[n - (i - 1) + 1]
      BY <3>1, ReverseFacts
    <3>3. QED
      BY <2>1, <3>1, <3>2 DEF Chained
  <2>2. QED
    BY <2>1
<1>3. \A i \in 1 .. n : ids(i) \in Seq(Nat) /\ Len(ids(i)) = i
  <2>1. ASSUME NEW i \in 1 .. n PROVE ids(i) \in [1 .. i -> Nat] /\ i \in Nat
    BY <1>1
  <2> HIDE DEF ids
  <2>2. ASSUME NEW i \in 1 .. n PROVE ids(i) \in Seq(Nat) /\ Len(ids(i)) = i
    <3>1. ids(i) \in Seq(Nat) /\ DOMAIN ids(i) = 1 .. i /\ i \in Nat
      BY <2>1, SeqDef
    <3>2. QED
      BY <3>1, LenProperties
  <2>3. QED
    BY <2>2
<1>4. ASSUME NEW i \in 1 .. n, o[i].hash = NoHash
      PROVE  g[i] = Hash(o[i].id, g[i - 1])
  <2>1. i - 1 \in 0 .. n /\ i \in 0 .. n /\ i # 0
    BY <1>1
  <2>2. g[i] = ids(i)
    BY <1>4, <2>1
  <2>3. /\ g[i - 1] \in Seq(Nat) /\ Len(g[i - 1]) = i - 1
        /\ \A k \in 1 .. i - 1 : g[i - 1][k] = o[k].id
    <3>1. CASE i = 1
      <4>1. g[0] = <<>>
        BY <2>1, <3>1 DEF NoHash
      <4>2. <<>> \in Seq(Nat) /\ Len(<<>>) = 0
        BY EmptySeq
      <4>3. i - 1 = 0 /\ 1 .. i - 1 = {}
        BY <3>1
      <4> HIDE DEF g
      <4>4. QED
        BY <4>1, <4>2, <4>3
    <3>2. CASE i # 1
      <4>1. i \in 2 .. n /\ i - 1 \in 1 .. n
        BY <1>1, <3>2
      <4>2. g[i - 1] = ids(i - 1)
        BY <1>2, <1>4, <2>1, <4>1
      <4>3. \A k \in 1 .. i - 1 : ids(i - 1)[k] = o[k].id
        OBVIOUS
      <4> HIDE DEF g, ids
      <4>4. QED
        BY <1>3, <4>1, <4>2, <4>3
    <3>3. QED
      BY <3>1, <3>2
  <2> DEFINE h == Append(g[i - 1], o[i].id)
  <2>4. \A k \in 1 .. i : ids(i)[k] = o[k].id
    OBVIOUS
  <2> HIDE DEF g, ids, o
  <2>5. /\ h \in Seq(Nat) /\ Len(h) = i
        /\ \A k \in 1 .. i : h[k] = o[k].id
    <3>1. o[i].id \in Nat
      BY <1>1
    <3>2. /\ h \in Seq(Nat) /\ Len(h) = Len(g[i - 1]) + 1
          /\ \A k \in 1 .. Len(g[i - 1]) : h[k] = g[i - 1][k]
          /\ h[Len(g[i - 1]) + 1] = o[i].id
      BY <2>3, <3>1, AppendProperties
    <3>3. Len(g[i - 1]) = i - 1 /\ i - 1 + 1 = i /\ \A k \in 1 .. i : k \in 1 .. i - 1 \/ k = i
      BY <1>1, <2>3
    <3> HIDE DEF h
    <3>4. Len(h) = i /\ h[i] = o[i].id /\ \A k \in 1 .. i - 1 : h[k] = g[i - 1][k]
      BY <3>2, <3>3
    <3>5. QED
      BY <2>3, <3>2, <3>3, <3>4
  <2>6. ids(i) \in Seq(Nat) /\ Len(ids(i)) = i
    BY <1>3
  <2>7. h = ids(i)
    <3> HIDE DEF h
    <3>1. \A k \in 1 .. Len(h) : h[k] = ids(i)[k]
      BY <2>4, <2>5
    <3>2. QED
      BY <2>5, <2>6, <3>1, SeqEqual
  <2>8. QED
    BY <2>2, <2>7 DEF Hash, h
<1>5. \A i \in 0 .. n : g[i] = IF i = 0 THEN NoHash
                               ELSE IF o[i].hash # NoHash THEN o[i].hash
                               ELSE Hash(o[i].id, g[i - 1])
  <2>1. ASSUME NEW i \in 0 .. n
        PROVE  g[i] = IF i = 0 THEN NoHash
                      ELSE IF o[i].hash # NoHash THEN o[i].hash
                      ELSE Hash(o[i].id, g[i - 1])
    <3>1. CASE i # 0 /\ o[i].hash = NoHash
      <4>1. i \in 1 .. n
        BY <1>1, <3>1
      <4> HIDE DEF g
      <4>2. QED
        BY <1>4, <3>1, <4>1
    <3>2. CASE ~(i # 0 /\ o[i].hash = NoHash)
      BY <3>2
    <3>3. QED
      BY <3>1, <3>2
  <2>2. QED
    BY <2>1
<1>6. g = [i \in 0 .. n |-> g[i]]
  OBVIOUS
<1>7. IsRunning(events, g)
  <2> HIDE DEF g
  <2>1. QED
    BY <1>5, <1>6 DEF IsRunning
<1>8. QED
  BY <1>7

LEMMA ChainVerdict ==
    ASSUME NEW events \in Seq(Event), Chained(events)
    PROVE  VerifyChain(events) <=>
             Len(events) < 2 \/ \A i \in DOMAIN events : events[i].hash # NoHash
<1> DEFINE n == Len(events)
           o == Reverse(events)
<1>1. /\ n \in Nat /\ DOMAIN events = 1 .. n /\ DOMAIN o = 1 .. n
      /\ \A i \in 1 .. n : /\ o[i] = events[n - i + 1] /\ n - i + 1 \in 1 .. n
                           /\ o[i].id \in Nat /\ o[i].previous \in Seq(Nat)
  BY ReverseFacts DEF Event
<1>2. PICK f : IsRunning(events, f) /\ (VerifyChain(events) <=> Verifies(events, f))
  BY RunningExists, VerdictFacts
<1>3. /\ f[0] = NoHash
      /\ \A i \in 1 .. n : f[i] = IF o[i].hash # NoHash THEN o[i].hash
                                  ELSE Hash(o[i].id, f[i - 1])
  <2>1. \A i \in 0 .. n : f[i] = IF i = 0 THEN NoHash
                                 ELSE IF o[i].hash # NoHash THEN o[i].hash
                                 ELSE Hash(o[i].id, f[i - 1])
    BY <1>2 DEF IsRunning
  <2>2. 0 \in 0 .. n /\ \A i \in 1 .. n : i \in 0 .. n /\ i # 0
    BY <1>1
  <2>3. QED
    BY <2>1, <2>2
<1>4. ASSUME NEW i \in 1 .. n, o[i].hash # NoHash
      PROVE  /\ o[i].hash = Hash(o[i].id, o[i].previous)
             /\ o[i].previous = IF i = 1 THEN NoHash ELSE o[i - 1].hash
  <2>1. events[n - i + 1].previous =
           IF n - i + 1 = n THEN NoHash ELSE events[n - i + 1 + 1].hash
    BY <1>1, <1>4 DEF Chained
  <2>2. i # 1 => i - 1 \in 1 .. n /\ n - (i - 1) + 1 = n - i + 1 + 1
    BY <1>1
  <2>3. i = 1 <=> n - i + 1 = n
    BY <1>1
  <2>4. i # 1 => o[i - 1] = events[n - i + 1 + 1]
    BY <1>1, <2>2
  <2>5. o[i].hash = Hash(o[i].id, o[i].previous)
    <3>1. PICK j \in 1 .. n : j = n - i + 1 /\ o[i] = events[j]
      BY <1>1
    <3> HIDE DEF o
    <3>2. QED
      BY <1>4, <3>1 DEF Chained
  <2> HIDE DEF o
  <2>6. QED
    BY <1>1, <2>1, <2>3, <2>4, <2>5
<1> HIDE DEF o
<1>5. ASSUME \/ \A i \in DOMAIN events : events[i].hash # NoHash
             \/ n < 2
      PROVE  Verifies(events, f)
  <2>1. \A i \in 2 .. n : o[i - 1].hash # NoHash
    <3>1. ASSUME NEW i \in 2 .. n PROVE o[i - 1].hash # NoHash
      <4>1. i - 1 \in 1 .. n /\ ~(n < 2)
        BY <1>1
      <4>2. QED
        BY <1>1, <1>5, <4>1
    <3>2. QED
      BY <3>1
  <2>2. ASSUME NEW i \in 1 .. n
        PROVE  /\ o[i].hash # NoHash => o[i].hash = Hash(o[i].id, f[i - 1])
               /\ f[i - 1] # NoHash => o[i].previous = f[i - 1]
    <3>1. CASE i = 1
      <4>1. f[i - 1] = NoHash
        BY <1>3, <3>1
      <4>2. QED
        BY <1>4, <3>1, <4>1
    <3>2. CASE i # 1
      <4>1. i \in 2 .. n /\ i - 1 \in 1 .. n
        BY <1>1, <3>2
      <4>2. f[i - 1] = o[i - 1].hash
        BY <1>3, <2>1, <4>1
      <4>3. o[i].hash # NoHash
        BY <1>1, <1>5, <4>1
      <4>4. QED
        BY <1>4, <3>2, <4>2, <4>3
    <3>3. QED
      BY <3>1, <3>2
  <2>3. QED
    BY <1>1, <2>2 DEF Verifies, o
<1>6. ASSUME ~(n < 2), NEW k \in DOMAIN events, events[k].hash = NoHash
      PROVE  ~Verifies(events, f)
  <2>1. /\ 1 \in 1 .. n /\ 2 \in 1 .. n /\ n - 1 + 1 = n /\ k \in 1 .. n /\ n \in k .. n
        /\ 2 # 1 /\ 2 - 1 = 1 /\ 1 - 1 = 0
    BY <1>1, <1>6
  <2>2. o[1].hash = NoHash
    <3>1. events[n].hash = NoHash
      BY <1>6, <2>1 DEF Chained
    <3>2. QED
      BY <1>1, <2>1, <3>1
  <2>3. f[1] # NoHash
    <3>1. f[1] = Hash(o[1].id, NoHash)
      BY <1>3, <2>1, <2>2
    <3>2. NoHash \in Seq(Nat) /\ o[1].id \in Nat
      BY <1>1, <2>1, EmptySeq DEF NoHash
    <3>3. QED
      BY <3>1, <3>2, HashFacts
  <2>4. o[2].previous = NoHash
    <3>1. CASE o[2].hash = NoHash
      <4>1. PICK j \in 1 .. n : j = n - 2 + 1 /\ o[2] = events[j]
        BY <1>1, <2>1
      <4>2. QED
        BY <3>1, <4>1 DEF Chained
    <3>2. CASE o[2].hash # NoHash
      BY <1>4, <2>1, <2>2, <3>2
    <3>3. QED
      BY <3>1, <3>2
  <2>5. Verifies(events, f) => (f[2 - 1] # NoHash => o[2].previous = f[2 - 1])
    BY <1>1, <2>1 DEF Verifies, o
  <2>6. QED
    BY <2>1, <2>3, <2>4, <2>5
<1>7. QED
  BY <1>2, <1>5, <1>6

\* createAudit continues a chain.
LEMMA AuditedChained ==
    ASSUME NEW events \in Seq(Event), Chained(events), NEW id \in Nat
    PROVE  Chained(Audited(events, id))
<1> DEFINE previous == PreviousHash(events)
           new == [id |-> id, previous |-> previous, hash |-> Hash(id, previous)]
           s == <<new>> \o events
<1>1. Len(events) \in Nat /\ \A i \in 1 .. Len(events) : events[i] \in Event
  BY LenProperties, ElementOfSeq
<1>2. previous = IF Len(events) = 0 THEN NoHash ELSE events[1].hash
  BY EmptySeq DEF PreviousHash
<1>3. previous \in Seq(Nat)
  <2>1. <<>> \in Seq(Nat)
    BY EmptySeq
  <2>2. Len(events) # 0 => events[1] \in Event
    BY <1>1
  <2>3. QED
    BY <1>2, <2>1, <2>2 DEF NoHash, Event
<1>4. Hash(id, previous) \in Seq(Nat) /\ Hash(id, previous) # NoHash
  BY <1>3, HashFacts
<1> HIDE DEF previous
<1>5. /\ new \in Event /\ new.hash # NoHash /\ new.previous = previous
      /\ new.hash = Hash(new.id, new.previous)
  BY <1>3, <1>4 DEF Event
<1>6. Audited(events, id) = s
  BY DEF Audited, previous
<1> HIDE DEF new
<1>7. /\ Len(s) = Len(events) + 1 /\ s[1] = new
      /\ \A i \in 1 .. Len(events) : s[i + 1] = events[i]
  <2>1. <<new>> \in Seq(Event) /\ Len(<<new>>) = 1 /\ <<new>>[1] = new
    BY <1>5, SingleFacts
  <2>2. /\ Len(s) = Len(<<new>>) + Len(events)
        /\ \A i \in 1 .. Len(<<new>>) + Len(events) :
             s[i] = IF i <= Len(<<new>>) THEN <<new>>[i] ELSE events[i - Len(<<new>>)]
    BY <2>1, ConcatProperties
  <2> HIDE DEF s
  <2>3. QED
    BY <1>1, <2>1, <2>2
<1> HIDE DEF s
<1>8. ASSUME NEW i \in 1 .. Len(s)
      PROVE  /\ s[i].hash = NoHash =>
                   s[i].previous = NoHash /\ \A k \in i .. Len(s) : s[k].hash = NoHash
             /\ s[i].hash # NoHash =>
                   /\ s[i].hash = Hash(s[i].id, s[i].previous)
                   /\ s[i].previous = IF i = Len(s) THEN NoHash ELSE s[i + 1].hash
  <2>1. CASE i = 1
    <3>1. Len(events) # 0 => s[2] = events[1]
      BY <1>1, <1>7
    <3>2. i = Len(s) <=> Len(events) = 0
      BY <1>1, <1>7, <2>1
    <3>3. QED
      BY <1>2, <1>5, <1>7, <2>1, <3>1, <3>2
  <2>2. CASE i # 1
    <3>1. /\ i - 1 \in 1 .. Len(events) /\ i - 1 + 1 = i
          /\ i = Len(s) <=> i - 1 = Len(events)
          /\ i # Len(s) => i \in 1 .. Len(events)
      BY <1>1, <1>7, <2>2
    <3>2. s[i] = events[i - 1] /\ (i # Len(s) => s[i + 1] = events[i])
      BY <1>7, <3>1
    <3>3. ASSUME s[i].hash = NoHash, NEW k \in i .. Len(s) PROVE s[k].hash = NoHash
      <4>1. k - 1 \in (i - 1) .. Len(events) /\ k - 1 \in 1 .. Len(events) /\ k - 1 + 1 = k
        BY <1>1, <1>7, <2>2
      <4>2. events[k - 1].hash = NoHash
        BY <3>1, <3>2, <3>3, <4>1 DEF Chained
      <4>3. QED
        BY <1>7, <4>1, <4>2
    <3>4. s[i].hash = NoHash => s[i].previous = NoHash
      BY <3>1, <3>2 DEF Chained
    <3>5. s[i].hash # NoHash =>
             /\ s[i].hash = Hash(s[i].id, s[i].previous)
             /\ s[i].previous = IF i = Len(s) THEN NoHash ELSE s[i + 1].hash
      BY <3>1, <3>2 DEF Chained
    <3>6. QED
      BY <3>3, <3>4, <3>5
  <2>3. QED
    BY <2>1, <2>2
<1>9. QED
  BY <1>6, <1>8 DEF Chained

\* What is loaded from Postgres has no hashes.
LEMMA RowsChained ==
    ASSUME NEW events \in Seq(Event)
    PROVE  Chained([i \in DOMAIN events |-> FromRow(events[i])])
<1> DEFINE s == [i \in DOMAIN events |-> FromRow(events[i])]
<1>1. DOMAIN s = 1 .. Len(events) /\ Len(events) \in Nat
  BY LenProperties
<1>2. Len(s) = Len(events)
  <2>1. s \in Seq(Event)
    BY RowsTyped
  <2> HIDE DEF s
  <2>2. QED
    BY <1>1, <2>1, LenProperties
<1>3. \A i \in 1 .. Len(events) : s[i].hash = NoHash /\ s[i].previous = NoHash
  BY <1>1 DEF FromRow
<1> HIDE DEF s
<1>4. Chained(s)
  <2>1. \A i \in 1 .. Len(s) : \A k \in i .. Len(s) : k \in 1 .. Len(events)
    BY <1>1, <1>2
  <2>2. QED
    BY <1>2, <1>3, <2>1 DEF Chained
<1>5. QED
  BY <1>4 DEF s

LEMMA EmptyChained == Chained(<<>>)
BY DEF Chained

\* Memory's events are a chain, and so are all the copies that a start may read with
\* their hashes.
ChainInv ==
    /\ Chained(audit)
    /\ \A j \in ToSet(queue) \cup ToSet(caching) : Chained(j.audit)
    /\ writing # NothingWritten => Chained(writing.job.audit)
    /\ dragonfly # NoSnapshot => Chained(dragonfly.audit)

LEMMA OperationChained ==
    ASSUME TypeOK, ChainInv, Operating PROVE ChainInv'
<1>1. audit \in Seq(Event) /\ Chained(audit)
  BY ArraysTyped DEF ArraysOK, ChainInv
<1>2. audit' = audit \/ (Operation /\ audit' = Audited(audit, ops'))
  BY DEF Operating, Sign, Revoke, IssueNonce, VerifyEnvelope
<1>3. Chained(audit')
  <2>1. CASE audit' = audit
    BY <1>1, <2>1
  <2>2. CASE Operation /\ audit' = Audited(audit, ops')
    BY <1>1, <2>2, OperationFacts, AuditedChained
  <2>3. QED
    BY <1>2, <2>1, <2>2
<1>4. PICK js \in Seq(Jobs) : NewJobs(js)
  BY EachOperates DEF Operates
<1>5. ToSet(queue') = ToSet(queue) \cup ToSet(js)
  BY <1>4, ConcatFacts DEF NewJobs, TypeOK
<1>6. /\ \A j \in ToSet(js) : Chained(j.audit)
      /\ UNCHANGED <<writing, caching, dragonfly>>
  BY <1>1, <1>3, <1>4 DEF NewJobs
<1>7. QED
  BY <1>3, <1>5, <1>6 DEF ChainInv

LEMMA RestartChained ==
    ASSUME TypeOK, ChainInv, Restart PROVE ChainInv'
<1>1. PICK load \in Loads : audit' = load.from.audit
  BY DEF Restart
<1>2. /\ queue' = <<>> /\ writing' = NothingWritten /\ caching' = <<>>
      /\ UNCHANGED dragonfly
  BY DEF Restart, stores
<1>3. Chained(audit')
  <2>1. CASE load.from = FromPostgres
    <3> DEFINE events == Newest(postgres.audit, AuditLimit)
    <3>1. events \in Seq(Event)
      BY NewestTyped, LimitsAssumption DEF TypeOK, Tables
    <3>2. audit' = [i \in DOMAIN events |-> FromRow(events[i])]
      BY <1>1, <2>1 DEF FromPostgres
    <3> HIDE DEF events
    <3>3. QED
      BY <3>1, <3>2, RowsChained
  <2>2. CASE load.from = dragonfly /\ dragonfly # NoSnapshot
    BY <1>1, <2>2 DEF ChainInv
  <2>3. CASE load.from = Empty
    BY <1>1, <2>3, EmptyChained DEF Empty
  <2>4. QED
    BY <2>1, <2>2, <2>3, LoadFacts
<1>4. ToSet(<<>>) = {}
  BY DEF ToSet
<1>5. QED
  BY <1>2, <1>3, <1>4 DEF ChainInv

LEMMA ChainStep == TypeOK /\ ChainInv /\ [Next]_vars => ChainInv'
<1> SUFFICES ASSUME TypeOK, ChainInv, [Next]_vars PROVE ChainInv'
  OBVIOUS
<1>1. CASE Operating
  BY <1>1, OperationChained
<1>2. CASE StartWrite
  <2>1. Head(queue) \in ToSet(queue) /\ ToSet(Tail(queue)) \subseteq ToSet(queue)
    BY <1>2, TailFacts DEF TypeOK, StartWrite
  <2>2. /\ queue' = Tail(queue) /\ writing'.job = Head(queue)
        /\ UNCHANGED <<audit, caching, dragonfly>>
    BY <1>2 DEF StartWrite, arrays, stores
  <2>3. QED
    BY <2>1, <2>2 DEF ChainInv
<1>3. CASE Commit \/ FailWrite
  <2>1. /\ EndWrite /\ writing # NothingWritten /\ writing' = NothingWritten
        /\ UNCHANGED <<audit, queue, dragonfly>>
    BY <1>3 DEF Commit, FailWrite, EndWrite, arrays
  <2>2. ToSet(caching') = ToSet(caching) \cup {writing.job}
    BY <2>1, EndWriteCaches
  <2>3. QED
    BY <2>1, <2>2 DEF ChainInv
<1>4. CASE Cache \/ LoseCache
  <2>1. Head(caching) \in ToSet(caching) /\ ToSet(Tail(caching)) \subseteq ToSet(caching)
    BY <1>4, TailFacts DEF TypeOK, Cache, LoseCache
  <2>2. /\ caching' = Tail(caching) /\ UNCHANGED <<audit, queue, writing>>
        /\ dragonfly' = dragonfly \/ dragonfly'.audit = Head(caching).audit
    BY <1>4 DEF Cache, LoseCache, arrays, stores
  <2>3. QED
    BY <2>1, <2>2 DEF ChainInv
<1>5. CASE Restart
  BY <1>5, RestartChained
<1>6. CASE UNCHANGED vars
  BY <1>6 DEF vars, arrays, work, stores, ChainInv
<1>7. QED
  BY <1>1, <1>2, <1>3, <1>4, <1>5, <1>6 DEF Next, Operating

\* For any limits and any order of operations, jobs, failures and crashes: verifyChain
\* accepts the audit events exactly until the second one beside an event that was loaded
\* from Postgres, whose rows have no hashes.
THEOREM ChainTellsLoads == Spec => []ChainVerifies
<1>1. Init => ChainInv
  <2>1. ToSet(<<>>) = {}
    BY DEF ToSet
  <2>2. QED
    BY <2>1, EmptyChained DEF Init, ChainInv
<1>2. TypeOK /\ ChainInv => ChainVerifies
  BY ArraysTyped, ChainVerdict DEF ArraysOK, ChainInv, ChainVerifies
<1>3. QED
  BY <1>1, <1>2, ChainStep, TypesHold, PTL DEF Spec
=============================================================================
