------------------------- MODULE SiemPipelineProofs -------------------------
(***************************************************************************)
(* Proofs about SiemPipeline for any events, tenants, configurations and   *)
(* concurrent requests, any queue length, batch and number of retries, and *)
(* any number of crashes and lost commands.                                *)
(***************************************************************************)
EXTENDS SiemPipeline, SequenceTheorems, TLAPS

-----------------------------------------------------------------------------
(* The queue as a sequence *)

Queues == {s \in Seq(Events) : Len(s) <= MaxQueue}

LEMMA ToSetFacts ==
    ASSUME NEW S, NEW s \in Seq(S)
    PROVE  /\ Len(s) \in Nat /\ DOMAIN s = 1 .. Len(s)
           /\ \A i \in 1 .. Len(s) : s[i] \in S /\ s[i] \in ToSet(s)
           /\ \A x \in ToSet(s) : x \in S /\ \E i \in 1 .. Len(s) : s[i] = x
BY LenProperties, ElementOfSeq DEF ToSet

\* Injectivity of a sequence, by its positions
LEMMA InjectiveFacts ==
    ASSUME NEW S, NEW s \in Seq(S)
    PROVE  IsInjective(s) <=> \A i, j \in 1 .. Len(s) : s[i] = s[j] => i = j
BY LenProperties DEF IsInjective

\* enqueue keeps every event but the oldest of a full queue, and adds one.
LEMMA EnqueuedFacts ==
    ASSUME NEW s \in Queues, NEW e \in Events
    PROVE  /\ Enqueued(s, e) \in Queues
           /\ ToSet(Enqueued(s, e)) \subseteq ToSet(s) \cup {e}
           /\ e \in ToSet(Enqueued(s, e))
           /\ \A x \in ToSet(s) :
                 x \in ToSet(Enqueued(s, e)) \/ (Len(s) >= MaxQueue /\ x = Head(s))
           /\ IsInjective(s) /\ e \notin ToSet(s) => IsInjective(Enqueued(s, e))
<1> DEFINE k == IF Len(s) >= MaxQueue THEN 1 ELSE 0
           kept == IF Len(s) >= MaxQueue THEN Tail(s) ELSE s
<1>1. /\ s \in Seq(Events) /\ Len(s) \in Nat /\ Len(s) <= MaxQueue
      /\ MaxQueue \in Nat /\ MaxQueue >= 1
  BY BoundsAssumption, LenProperties DEF Queues
<1>2. /\ kept \in Seq(Events) /\ Len(kept) = Len(s) - k
      /\ \A i \in 1 .. Len(kept) : kept[i] = s[i + k]
      /\ k \in {0, 1} /\ k <= Len(s) /\ (k = 1 => Len(s) >= MaxQueue /\ Head(s) = s[1])
      /\ Len(kept) + 1 <= MaxQueue
  <2>1. CASE Len(s) >= MaxQueue
    <3>1. s # <<>>
      BY <1>1, <2>1, EmptySeq
    <3>2. Tail(s) \in Seq(Events) /\ Len(Tail(s)) = Len(s) - 1
          /\ \A i \in 1 .. Len(Tail(s)) : Tail(s)[i] = s[i + 1]
      BY <1>1, <3>1, HeadTailProperties
    <3>3. Head(s) = s[1]
      BY <1>1, <3>1
    <3>4. QED
      BY <1>1, <2>1, <3>2, <3>3
  <2>2. CASE ~(Len(s) >= MaxQueue)
    BY <1>1, <2>2
  <2>3. QED
    BY <2>1, <2>2
<1> DEFINE new == Append(kept, e)
<1>3. Enqueued(s, e) = new
  BY DEF Enqueued
<1> HIDE DEF k, kept
<1>4. /\ new \in Seq(Events) /\ Len(new) = Len(kept) + 1
      /\ \A i \in 1 .. Len(kept) : new[i] = kept[i]
      /\ new[Len(kept) + 1] = e
  BY <1>2, AppendProperties
<1> HIDE DEF new
<1>5. /\ Len(kept) \in Nat
      /\ \A i \in 1 .. Len(new) : i \in 1 .. Len(kept) \/ i = Len(kept) + 1
      /\ \A i \in 1 .. Len(kept) : i \in 1 .. Len(new) /\ i + k \in 1 .. Len(s)
      /\ Len(kept) + 1 \in 1 .. Len(new)
  BY <1>1, <1>2, <1>4
<1>6. new \in Queues
  BY <1>2, <1>4 DEF Queues
<1>7. ToSet(new) \subseteq ToSet(s) \cup {e}
  <2>1. ASSUME NEW x \in ToSet(new), x # e PROVE x \in ToSet(s)
    <3>1. PICK i \in 1 .. Len(new) : new[i] = x
      BY <1>4, ToSetFacts
    <3>2. i \in 1 .. Len(kept) /\ x = s[i + k] /\ i + k \in 1 .. Len(s)
      BY <1>2, <1>4, <1>5, <2>1, <3>1
    <3>3. QED
      BY <1>1, <3>2, ToSetFacts
  <2>2. QED
    BY <2>1
<1>8. e \in ToSet(new)
  BY <1>4, <1>5, ToSetFacts
<1>9. ASSUME NEW x \in ToSet(s)
      PROVE  x \in ToSet(new) \/ (Len(s) >= MaxQueue /\ x = Head(s))
  <2>1. PICK i \in 1 .. Len(s) : s[i] = x
    BY <1>1, ToSetFacts
  <2>2. CASE i = 1 /\ k = 1
    BY <1>2, <2>1, <2>2
  <2>3. CASE ~(i = 1 /\ k = 1)
    <3>1. i - k \in 1 .. Len(kept) /\ (i - k) + k = i
      BY <1>1, <1>2, <2>3
    <3>2. new[i - k] = x /\ i - k \in 1 .. Len(new)
      BY <1>2, <1>4, <1>5, <2>1, <3>1
    <3>3. QED
      BY <1>4, <3>2, ToSetFacts
  <2>4. QED
    BY <2>2, <2>3
<1>10. ASSUME IsInjective(s), e \notin ToSet(s) PROVE IsInjective(new)
  <2>1. \A i, j \in 1 .. Len(s) : s[i] = s[j] => i = j
    BY <1>1, <1>10, InjectiveFacts
  <2>2. \A i \in 1 .. Len(kept) : new[i] = s[i + k] /\ new[i] # e
    BY <1>1, <1>2, <1>4, <1>5, <1>10, ToSetFacts
  <2>3. ASSUME NEW i \in 1 .. Len(new), NEW j \in 1 .. Len(new), new[i] = new[j] PROVE i = j
    <3>1. CASE i \in 1 .. Len(kept) /\ j \in 1 .. Len(kept)
      <4>1. s[i + k] = s[j + k]
        BY <2>2, <2>3, <3>1
      <4>2. i + k = j + k
        BY <1>5, <2>1, <3>1, <4>1
      <4>3. QED
        BY <1>2, <4>2
    <3>2. CASE ~(i \in 1 .. Len(kept) /\ j \in 1 .. Len(kept))
      BY <1>4, <1>5, <2>2, <2>3, <3>2
    <3>3. QED
      BY <3>1, <3>2
  <2>4. QED
    BY <1>4, <2>3, InjectiveFacts
<1>11. QED
  BY <1>3, <1>6, <1>7, <1>8, <1>9, <1>10

\* drain splits the queue in what it takes and what it leaves.
LEMMA SplitFacts ==
    ASSUME NEW s \in Queues
    PROVE  /\ Kept(s) \in Queues /\ ToSet(Taken(s)) \subseteq Events
           /\ ToSet(s) = ToSet(Taken(s)) \cup ToSet(Kept(s))
           /\ s # <<>> => ToSet(Taken(s)) # {}
           /\ IsInjective(s) => /\ IsInjective(Kept(s))
                                /\ ToSet(Taken(s)) \cap ToSet(Kept(s)) = {}
<1> DEFINE m == Least(Batch, Len(s))
           front == SubSeq(s, 1, m)
           back == SubSeq(s, Batch + 1, Len(s))
<1>1. /\ s \in Seq(Events) /\ Len(s) \in Nat /\ Len(s) <= MaxQueue
      /\ MaxQueue \in Nat /\ Batch \in Nat /\ Batch >= 1
  BY BoundsAssumption, LenProperties DEF Queues
<1>2. /\ m \in Nat /\ m <= Len(s) /\ m <= Batch
      /\ m = Batch \/ m = Len(s)
      /\ s # <<>> => m >= 1
  <2>1. s # <<>> => Len(s) >= 1
    BY <1>1, EmptySeq
  <2>2. QED
    BY <1>1, <2>1 DEF Least
<1>3. \A i \in 1 .. Len(s) : s[i] \in Events
  BY <1>1, ElementOfSeq
<1> HIDE DEF m
<1>4. /\ front \in Seq(Events) /\ Len(front) = m
      /\ \A i \in 1 .. m : front[i] = s[i]
  <2>1. \A i \in 1 .. m : s[i] \in Events
    BY <1>1, <1>2, <1>3
  <2>2. /\ front \in Seq(Events)
        /\ Len(front) = IF 1 <= m THEN m - 1 + 1 ELSE 0
        /\ \A i \in 1 .. m - 1 + 1 : front[i] = s[1 + i - 1]
    BY <1>2, <2>1, SubSeqProperties
  <2>3. QED
    BY <1>2, <2>2
<1>5. /\ back \in Seq(Events)
      /\ Len(back) = IF Batch + 1 <= Len(s) THEN Len(s) - Batch ELSE 0
      /\ \A i \in 1 .. Len(s) - Batch : back[i] = s[Batch + i]
  <2>1. \A i \in Batch + 1 .. Len(s) : s[i] \in Events
    BY <1>1, <1>3
  <2>2. /\ back \in Seq(Events)
        /\ Len(back) = IF Batch + 1 <= Len(s) THEN Len(s) - (Batch + 1) + 1 ELSE 0
        /\ \A i \in 1 .. Len(s) - (Batch + 1) + 1 : back[i] = s[Batch + 1 + i - 1]
    BY <1>1, <2>1, SubSeqProperties
  <2>3. QED
    BY <1>1, <2>2
<1>6. Taken(s) = front /\ Kept(s) = back
  BY DEF Taken, Kept, m
<1> HIDE DEF front, back
<1>7. back \in Queues
  BY <1>1, <1>5 DEF Queues
<1>8. ToSet(front) \subseteq Events
  BY <1>4, ToSetFacts
<1>9. \A i \in 1 .. Len(back) : back[i] = s[Batch + i] /\ Batch + i \in 1 .. Len(s)
  BY <1>1, <1>5
<1>10. ASSUME NEW x \in ToSet(s) PROVE x \in ToSet(front) \cup ToSet(back)
  <2>1. PICK i \in 1 .. Len(s) : s[i] = x
    BY <1>1, ToSetFacts
  <2>2. CASE i <= m
    <3>1. i \in 1 .. Len(front) /\ front[i] = x
      BY <1>1, <1>2, <1>4, <2>1, <2>2
    <3>2. QED
      BY <1>4, <3>1, ToSetFacts
  <2>3. CASE i > m
    <3>1. m = Batch /\ i - Batch \in 1 .. Len(back) /\ Batch + (i - Batch) = i
      BY <1>1, <1>2, <1>5, <2>3
    <3>2. back[i - Batch] = x
      BY <1>9, <2>1, <3>1
    <3>3. QED
      BY <1>5, <3>1, <3>2, ToSetFacts
  <2>4. QED
    BY <1>1, <1>2, <2>2, <2>3
<1>11. ToSet(front) \subseteq ToSet(s)
  <2>1. ASSUME NEW x \in ToSet(front) PROVE x \in ToSet(s)
    <3>1. PICK i \in 1 .. m : front[i] = x
      BY <1>4, ToSetFacts
    <3>2. i \in 1 .. Len(s) /\ s[i] = x
      BY <1>1, <1>2, <1>4, <3>1
    <3>3. QED
      BY <1>1, <3>2, ToSetFacts
  <2>2. QED
    BY <2>1
<1>12. ToSet(back) \subseteq ToSet(s)
  <2>1. ASSUME NEW x \in ToSet(back) PROVE x \in ToSet(s)
    <3>1. PICK i \in 1 .. Len(back) : back[i] = x
      BY <1>5, ToSetFacts
    <3>2. QED
      BY <1>1, <1>9, <3>1, ToSetFacts
  <2>2. QED
    BY <2>1
<1>13. ASSUME s # <<>> PROVE ToSet(front) # {}
  <2>1. 1 \in 1 .. Len(front)
    BY <1>2, <1>4, <1>13
  <2>2. QED
    BY <1>4, <2>1, ToSetFacts
<1>14. ASSUME IsInjective(s)
       PROVE  IsInjective(back) /\ ToSet(front) \cap ToSet(back) = {}
  <2>1. \A i, j \in 1 .. Len(s) : s[i] = s[j] => i = j
    BY <1>1, <1>14, InjectiveFacts
  <2>2. ASSUME NEW i \in 1 .. Len(back), NEW j \in 1 .. Len(back), back[i] = back[j]
        PROVE  i = j
    <3>1. Batch + i = Batch + j
      BY <1>9, <2>1, <2>2
    <3>2. QED
      BY <1>1, <3>1
  <2>3. ASSUME NEW x \in ToSet(front), x \in ToSet(back) PROVE FALSE
    <3>1. PICK i \in 1 .. m : front[i] = x
      BY <1>4, ToSetFacts
    <3>2. PICK j \in 1 .. Len(back) : back[j] = x
      BY <1>5, <2>3, ToSetFacts
    <3>3. i \in 1 .. Len(s) /\ s[i] = x
      BY <1>1, <1>2, <1>4, <3>1
    <3>4. i = Batch + j
      BY <1>9, <2>1, <3>2, <3>3
    <3>5. QED
      BY <1>1, <1>2, <3>4
  <2>4. QED
    BY <1>5, <2>2, <2>3, InjectiveFacts
<1>15. QED
  BY <1>6, <1>7, <1>8, <1>10, <1>11, <1>12, <1>13, <1>14

-----------------------------------------------------------------------------
(* Requests, by their operation *)

Storing == [op : {"storing"}, event : Events]
Queueing == [op : {"queueing"}, event : Events, copy : Queues]
Draining == [op : {"draining"}, copy : Queues]
Working == [op : {"working"}, batch : SUBSET Events]
Exporting == [op : {"exporting"}, batch : SUBSET Events, group : SUBSET Events,
              to : Seq(Exporters), at : Nat \ {0}, failures : Nat]
Burying == [op : {"burying"}, batch : SUBSET Events, group : SUBSET Events,
            to : Seq(Exporters), at : Nat \ {0}, copy : SUBSET Events]

Request ==
    {Idle} \cup Storing \cup Queueing \cup Draining \cup Working \cup Exporting \cup Burying

LEMMA Kinds ==
    ASSUME NEW q \in Request
    PROVE  /\ q.op \in {"idle"} \cup EmitSteps \cup FlushSteps
           /\ q.op = "idle" <=> q = Idle
           /\ q.op = "storing" => q \in Storing
           /\ q.op = "queueing" => q \in Queueing
           /\ q.op = "draining" => q \in Draining
           /\ q.op = "working" => q \in Working
           /\ q.op = "exporting" => q \in Exporting
           /\ q.op = "burying" => q \in Burying
BY DEF Request, Idle, Storing, Queueing, Draining, Working, Exporting, Burying, EmitSteps,
       FlushSteps

\* Beyond the types: an emission's event has happened, an exporter's turn is one of the
\* exporters' list, and a batch at work is not empty.
Types ==
    /\ queue \in Queues /\ dlq \subseteq Events /\ durable \subseteq Events
    /\ req \in [Requests -> Request]
    /\ faults \in 0 .. MaxFaults
    /\ emitted \subseteq Events /\ drained \subseteq Events
    /\ delivered \subseteq Events \X Exporters
    /\ mishaps \subseteq Stores
    /\ \A r \in Requests :
          /\ req[r].op \in EmitSteps => req[r].event \in emitted
          /\ req[r].op \in {"exporting", "burying"} => req[r].at <= Len(req[r].to)

LEMMA SuspendFacts ==
    ASSUME Types, NEW r \in Requests, NEW q, Suspend(r, q)
    PROVE  /\ req'[r] = q
           /\ \A s \in Requests : s # r => req'[s] = req[s]
           /\ q \in Request => req' \in [Requests -> Request]
BY DEF Types, Suspend

\* What a flush goes on with is a request, and nothing new.
LEMMA RemainingFacts ==
    ASSUME NEW batch \in SUBSET Events
    PROVE  /\ Remaining(batch) \in Request
           /\ Remaining(batch).op \in {"idle", "working"}
           /\ Remaining(batch).op = "working" => Remaining(batch).batch = batch
           /\ batch # {} => Remaining(batch).op = "working"
BY DEF Remaining, Request, Idle, Working

LEMMA NextExporterFacts ==
    ASSUME NEW q \in Exporting \cup Burying, q.at <= Len(q.to)
    PROVE  LET p == NextExporter(q) IN
           /\ p \in Request
           /\ p.op \in {"idle", "working", "exporting"}
           /\ p.op # "idle" => p.batch = q.batch
           /\ q.batch # {} => p.op # "idle"
           /\ p.op = "exporting" => /\ p.group = q.group /\ p.to = q.to
                                    /\ p.at = q.at + 1 /\ p.at <= Len(p.to)
           /\ p.op # "exporting" => q.at = Len(q.to)
<1>1. /\ q.batch \in SUBSET Events /\ q.group \in SUBSET Events
      /\ q.to \in Seq(Exporters) /\ q.at \in Nat \ {0} /\ Len(q.to) \in Nat
  BY LenProperties DEF Exporting, Burying
<1>2. CASE q.at = Len(q.to)
  <2>1. NextExporter(q) = Remaining(q.batch)
    BY <1>2 DEF NextExporter
  <2>2. QED
    BY <1>1, <1>2, <2>1, RemainingFacts
<1>3. CASE q.at # Len(q.to)
  <2> DEFINE p == [op |-> "exporting", batch |-> q.batch, group |-> q.group, to |-> q.to,
                   at |-> q.at + 1, failures |-> 0]
  <2>1. NextExporter(q) = p
    BY <1>3 DEF NextExporter
  <2>2. p \in Exporting
    BY <1>1 DEF Exporting
  <2>3. q.at + 1 <= Len(q.to)
    BY <1>1, <1>3
  <2>4. QED
    BY <2>1, <2>2, <2>3 DEF Request
<1>4. QED
  BY <1>2, <1>3

\* Lost commands and restarts are counted up to their bound.
LEMMA FaultsTyped ==
    ASSUME Types, Through \/ Lost
    PROVE  faults' \in 0 .. MaxFaults
BY BoundsAssumption DEF Types, Through, Lost

-----------------------------------------------------------------------------
(* Types *)

LEMMA TypesStart == Init => Types
<1> SUFFICES ASSUME Init PROVE Types
  OBVIOUS
<1>1. Backlog \in Queues
  BY BacklogAssumption DEF Queues
<1>2. ToSet(Backlog) \subseteq Events
  BY <1>1, ToSetFacts DEF Queues
<1>3. Idle \in Request /\ Idle.op \notin EmitSteps \cup {"exporting", "burying"}
  BY DEF Request, Idle, EmitSteps
<1>4. 0 \in 0 .. MaxFaults
  BY BoundsAssumption
<1>5. QED
  BY <1>1, <1>2, <1>3, <1>4 DEF Init, Types

\* A request's next step keeps the types if what it suspends is well-formed.
LEMMA TypesSuspend ==
    ASSUME Types, NEW r \in Requests, NEW q \in Request, Suspend(r, q),
           emitted \subseteq emitted',
           q.op \in EmitSteps => q.event \in emitted',
           q.op \in {"exporting", "burying"} => q.at <= Len(q.to),
           queue' \in Queues, dlq' \subseteq Events, durable' \subseteq Events,
           Through \/ Lost,
           emitted' \subseteq Events, drained' \subseteq Events,
           delivered' \subseteq Events \X Exporters, mishaps' \subseteq Stores
    PROVE  Types'
<1>1. faults' \in 0 .. MaxFaults
  BY FaultsTyped
<1>2. req' \in [Requests -> Request]
  BY SuspendFacts
<1>3. ASSUME NEW s \in Requests
      PROVE  /\ req'[s].op \in EmitSteps => req'[s].event \in emitted'
             /\ req'[s].op \in {"exporting", "burying"} => req'[s].at <= Len(req'[s].to)
  <2>1. CASE s = r
    BY <2>1, SuspendFacts
  <2>2. CASE s # r
    BY <2>2, SuspendFacts DEF Types
  <2>3. QED
    BY <2>1, <2>2
<1>4. QED
  BY <1>1, <1>2, <1>3 DEF Types

\* An event that happens, happens once and waits to be stored.
LEMMA EmitTypes ==
    ASSUME Types, NEW r \in Requests, NEW e \in Events, StartEmit(r, e) PROVE Types'
<1> DEFINE q == [op |-> "storing", event |-> e]
<1>1. /\ Suspend(r, q) /\ emitted' = emitted \cup {e}
      /\ UNCHANGED <<queue, dlq, durable, faults, drained, delivered, mishaps>>
  BY DEF StartEmit, stores
<1>2. q \in Request /\ q.op = "storing" /\ q.event = e
  BY DEF Request, Storing
<1> HIDE DEF q
<1>3. QED
  BY <1>1, <1>2, TypesSuspend DEF Types, Through

LEMMA StepTypes ==
    ASSUME Types, NEW r \in Requests, StartDrain(r) \/ Resume(r) PROVE Types'
<1>0. req[r] \in Request /\ {"queue", "dlq", "durable"} = Stores
  BY DEF Types, Stores
<1> DEFINE Bounds == /\ queue \in Queues /\ dlq \subseteq Events /\ durable \subseteq Events
                     /\ emitted \subseteq Events /\ drained \subseteq Events
                     /\ delivered \subseteq Events \X Exporters /\ mishaps \subseteq Stores
<1>1. Bounds
  BY DEF Types
<1>2. CASE StartDrain(r)
  <2> DEFINE q == [op |-> "draining", copy |-> queue]
  <2>1. q \in Request /\ q.op = "draining"
    BY <1>1 DEF Request, Draining
  <2>2. Suspend(r, q) /\ UNCHANGED <<queue, dlq, durable, faults, emitted, drained, delivered,
                                     mishaps>>
    BY <1>2 DEF StartDrain, stores, history
  <2> HIDE DEF q
  <2>3. QED
    BY <1>1, <2>1, <2>2, TypesSuspend DEF Through, EmitSteps
<1>3. CASE AppendDurable(r)
  <2>1. req[r] \in Storing /\ req[r].event \in Events /\ req[r].event \in emitted
    BY <1>0, <1>3, Kinds DEF AppendDurable, Storing, Types, EmitSteps
  <2>2. PICK copy \in {queue, <<>>} :
            Suspend(r, [op |-> "queueing", event |-> req[r].event, copy |-> copy])
    BY <1>3 DEF AppendDurable
  <2> DEFINE q == [op |-> "queueing", event |-> req[r].event, copy |-> copy]
  <2>3. copy \in Queues
    <3>1. <<>> \in Seq(Events) /\ Len(<<>>) = 0 /\ 0 <= MaxQueue
      BY EmptySeq, BoundsAssumption
    <3>2. <<>> \in Queues
      BY <3>1 DEF Queues
    <3>3. QED
      BY <1>1, <3>2
  <2>4. q \in Request /\ q.op = "queueing" /\ q.event = req[r].event
    BY <2>1, <2>3 DEF Request, Queueing
  <2>5. /\ durable' \subseteq Events /\ mishaps' \subseteq Stores /\ (Through \/ Lost)
        /\ UNCHANGED <<queue, dlq, emitted, drained, delivered>>
    BY <1>0, <1>1, <1>3, <2>1 DEF AppendDurable, Copy, history
  <2> HIDE DEF q
  <2>6. QED
    BY <1>1, <2>1, <2>2, <2>4, <2>5, TypesSuspend DEF q
<1>4. CASE FinishEnqueue(r)
  <2>1. req[r].event \in Events /\ req[r].copy \in Queues
    BY <1>0, <1>4, Kinds DEF FinishEnqueue, Queueing
  <2>2. Enqueued(req[r].copy, req[r].event) \in Queues
    BY <2>1, EnqueuedFacts
  <2>3. /\ Suspend(r, Idle) /\ (Through \/ Lost) /\ mishaps' \subseteq Stores
        /\ queue' \in Queues /\ UNCHANGED <<dlq, durable, emitted, drained, delivered>>
    BY <1>0, <1>1, <1>4, <2>2 DEF FinishEnqueue, End, Distrust, history
  <2>4. Idle \in Request /\ Idle.op = "idle"
    BY DEF Request, Idle
  <2>5. QED
    BY <1>1, <2>3, <2>4, TypesSuspend DEF EmitSteps
<1>5. CASE FinishDrain(r)
  <2>1. req[r].copy \in Queues
    BY <1>0, <1>5, Kinds DEF FinishDrain, Draining
  <2>2. Kept(req[r].copy) \in Queues /\ ToSet(Taken(req[r].copy)) \subseteq Events
    BY <2>1, SplitFacts
  <2> DEFINE q == [op |-> "working", batch |-> ToSet(Taken(req[r].copy))]
  <2>3. q \in Request /\ q.op = "working"
    BY <2>2 DEF Request, Working
  <2>4. /\ Suspend(r, q) /\ (Through \/ Lost) /\ mishaps' \subseteq Stores
        /\ queue' \in Queues /\ drained' \subseteq Events
        /\ UNCHANGED <<dlq, durable, emitted, delivered>>
    BY <1>0, <1>1, <1>5, <2>2 DEF FinishDrain, Distrust
  <2> HIDE DEF q
  <2>5. QED
    BY <1>1, <2>3, <2>4, TypesSuspend DEF EmitSteps
<1>6. ASSUME NEW t \in Tenants, NEW c \in Configs, NextTenant(r, t, c) PROVE Types'
  <2> DEFINE group == Filtered(OfTenant(req[r].batch, t), c)
             rest == OfOthers(req[r].batch, t)
             q == [op |-> "exporting", batch |-> rest, group |-> group, to |-> c.to,
                   at |-> 1, failures |-> 0]
  <2>1. req[r].batch \in SUBSET Events
    BY <1>0, <1>6, Kinds DEF NextTenant, Working
  <2>2. group \in SUBSET Events /\ rest \in SUBSET Events
    BY <2>1 DEF Filtered, OfTenant, OfOthers
  <2>3. UNCHANGED <<queue, dlq, durable, faults, emitted, drained, delivered, mishaps>>
    BY <1>6 DEF NextTenant, stores, history
  <2> HIDE DEF group, rest
  <2>4. CASE group = {} \/ c.to = <<>>
    <3>1. Suspend(r, Remaining(rest))
      BY <1>6, <2>4 DEF NextTenant, group, rest
    <3>2. Remaining(rest) \in Request /\ Remaining(rest).op \in {"idle", "working"}
      BY <2>2, RemainingFacts
    <3>3. QED
      BY <1>1, <2>3, <3>1, <3>2, TypesSuspend DEF Through, EmitSteps
  <2>5. CASE ~(group = {} \/ c.to = <<>>)
    <3>1. Suspend(r, q)
      BY <1>6, <2>5 DEF NextTenant, group, rest
    <3>2. c.to \in Seq(Exporters) /\ Len(c.to) >= 1
      BY <2>5, ConfigsAssumption, EmptySeq, LenProperties
    <3>3. q \in Request /\ q.op = "exporting" /\ q.at <= Len(q.to)
      BY <2>2, <3>2 DEF Request, Exporting
    <3> HIDE DEF q
    <3>4. QED
      BY <1>1, <2>3, <3>1, <3>3, TypesSuspend DEF Through, EmitSteps
  <2>6. QED
    BY <2>4, <2>5
<1>7. CASE SendSucceeds(r)
  <2>1. /\ req[r] \in Exporting \cup Burying /\ req[r].at <= Len(req[r].to)
        /\ req[r].group \subseteq Events /\ req[r].to[req[r].at] \in Exporters
    <3>1. req[r] \in Exporting /\ req[r].at <= Len(req[r].to)
      BY <1>0, <1>7, Kinds DEF SendSucceeds, Types
    <3>2. req[r].to \in Seq(Exporters) /\ req[r].at \in Nat \ {0} /\ req[r].group \subseteq Events
      BY <3>1 DEF Exporting
    <3>3. req[r].at \in 1 .. Len(req[r].to)
      BY <3>1, <3>2, LenProperties
    <3>4. QED
      BY <3>1, <3>2, <3>3, ElementOfSeq
  <2> DEFINE q == NextExporter(req[r])
  <2>2. /\ q \in Request /\ q.op \in {"idle", "working", "exporting"}
        /\ q.op = "exporting" => q.at <= Len(q.to)
    BY <2>1, NextExporterFacts
  <2>3. /\ Suspend(r, q) /\ delivered' \subseteq Events \X Exporters
        /\ UNCHANGED <<queue, dlq, durable, faults, emitted, drained, mishaps>>
    BY <1>1, <1>7, <2>1 DEF SendSucceeds, stores
  <2> HIDE DEF q
  <2>4. QED
    BY <1>1, <2>2, <2>3, TypesSuspend DEF Through, EmitSteps
<1>8. CASE Retry(r)
  <2> DEFINE q == [req[r] EXCEPT !.failures = @ + 1]
  <2>1. req[r] \in Exporting /\ req[r].at <= Len(req[r].to)
    BY <1>0, <1>8, Kinds DEF Retry, Types
  <2>2. q \in Exporting /\ q.at = req[r].at /\ q.to = req[r].to
    BY <2>1 DEF Exporting
  <2>3. q \in Request /\ q.op = "exporting" /\ q.at <= Len(q.to)
    BY <2>1, <2>2 DEF Request, Exporting
  <2>4. /\ Suspend(r, q)
        /\ UNCHANGED <<queue, dlq, durable, faults, emitted, drained, delivered, mishaps>>
    BY <1>8 DEF Retry, stores, history
  <2> HIDE DEF q
  <2>5. QED
    BY <1>1, <2>3, <2>4, TypesSuspend DEF Through, EmitSteps
<1>9. CASE GiveUp(r)
  <2>1. req[r] \in Exporting /\ req[r].at <= Len(req[r].to)
    BY <1>0, <1>9, Kinds DEF GiveUp, Types
  <2>2. PICK copy \in {dlq, {}} :
            Suspend(r, [op |-> "burying", batch |-> req[r].batch, group |-> req[r].group,
                        to |-> req[r].to, at |-> req[r].at, copy |-> copy])
    BY <1>9 DEF GiveUp
  <2> DEFINE q == [op |-> "burying", batch |-> req[r].batch, group |-> req[r].group,
                   to |-> req[r].to, at |-> req[r].at, copy |-> copy]
  <2>3. q \in Request /\ q.op = "burying" /\ q.at <= Len(q.to)
    BY <1>1, <2>1 DEF Request, Exporting, Burying
  <2>4. /\ Suspend(r, q) /\ (Through \/ Lost)
        /\ UNCHANGED <<queue, dlq, durable, emitted, drained, delivered, mishaps>>
    BY <1>9, <2>2 DEF GiveUp, stores, history
  <2> HIDE DEF q
  <2>5. QED
    BY <1>1, <2>3, <2>4, TypesSuspend DEF EmitSteps
<1>10. CASE FinishBury(r)
  <2>1. /\ req[r] \in Exporting \cup Burying /\ req[r].at <= Len(req[r].to)
        /\ req[r].group \subseteq Events /\ req[r].copy \subseteq Events
    BY <1>0, <1>10, Kinds DEF FinishBury, Burying, Types
  <2> DEFINE q == NextExporter(req[r])
  <2>2. /\ q \in Request /\ q.op \in {"idle", "working", "exporting"}
        /\ q.op = "exporting" => q.at <= Len(q.to)
    BY <2>1, NextExporterFacts
  <2>3. /\ Suspend(r, q) /\ (Through \/ Lost) /\ dlq' \subseteq Events /\ mishaps' \subseteq Stores
        /\ UNCHANGED <<queue, durable, emitted, drained, delivered>>
    BY <1>0, <1>1, <1>10, <2>1 DEF FinishBury, Distrust, history
  <2> HIDE DEF q
  <2>4. QED
    BY <1>1, <2>2, <2>3, TypesSuspend DEF EmitSteps
<1>11. QED
  BY <1>2, <1>3, <1>4, <1>5, <1>6, <1>7, <1>8, <1>9, <1>10 DEF Resume

LEMMA TypesStep == Types /\ [Next]_vars => Types'
<1> SUFFICES ASSUME Types, [Next]_vars PROVE Types'
  OBVIOUS
<1>1. ASSUME NEW r \in Requests, NEW e \in Events, StartEmit(r, e) PROVE Types'
  BY <1>1, EmitTypes
<1>2. ASSUME NEW r \in Requests, StartDrain(r) \/ Resume(r) PROVE Types'
  BY <1>2, StepTypes
<1>3. CASE Restart
  <2>1. /\ req' = [r \in Requests |-> Idle] /\ Lost
        /\ UNCHANGED <<queue, dlq, durable, emitted, drained, delivered, mishaps>>
    BY <1>3 DEF Restart, stores, history
  <2>2. Idle \in Request /\ Idle.op \notin EmitSteps \cup {"exporting", "burying"}
    BY DEF Request, Idle, EmitSteps
  <2>3. QED
    BY <2>1, <2>2, FaultsTyped DEF Types
<1>4. CASE UNCHANGED vars
  BY <1>4 DEF vars, stores, history, Types
<1>5. QED
  BY <1>1, <1>2, <1>3, <1>4 DEF Next

-----------------------------------------------------------------------------
(* Where the events of the pipeline come from *)

\* A suspended request still has e in hand, apart from an emission before its append.
Carries(q, e) ==
    \/ q.op = "queueing" /\ e = q.event
    \/ q.op \in {"queueing", "draining"} /\ e \in ToSet(q.copy)
    \/ q.op \in {"working", "exporting", "burying"} /\ e \in q.batch
    \/ q.op \in {"exporting", "burying"} /\ e \in q.group
    \/ q.op = "burying" /\ e \in q.copy

\* All the events that are or were in the pipeline are of S.
Within(S) ==
    /\ ToSet(queue) \subseteq S /\ drained \subseteq S /\ dlq \subseteq S
    /\ \A r \in Requests : \A e \in Events : Carries(req[r], e) => e \in S
    /\ \A e \in Events, x \in Exporters : <<e, x>> \in delivered => e \in S

LEMMA WithinGrows ==
    ASSUME NEW S, NEW T, S \subseteq T, Within(S) PROVE Within(T)
BY DEF Within

\* A request's step brings in nothing new if what it suspends carries nothing new.
LEMMA WithinSuspend ==
    ASSUME Types, NEW S, Within(S), NEW r \in Requests, NEW q, Suspend(r, q),
           \A e \in Events : Carries(q, e) => e \in S,
           ToSet(queue') \subseteq S, drained' \subseteq S, dlq' \subseteq S,
           \A e \in Events, x \in Exporters : <<e, x>> \in delivered' => e \in S
    PROVE  Within(S)'
<1>1. ASSUME NEW s \in Requests, NEW e \in Events, Carries(req'[s], e) PROVE e \in S
  <2>1. CASE s = r
    BY <1>1, <2>1, SuspendFacts
  <2>2. CASE s # r
    BY <1>1, <2>2, SuspendFacts DEF Within
  <2>3. QED
    BY <2>1, <2>2
<1>2. QED
  BY <1>1 DEF Within

\* Only the append to Postgres, or rather the enqueueing after it, brings an event in.
LEMMA WithinStep ==
    ASSUME Types, NEW S, Within(S), NEW r \in Requests, Resume(r),
           AppendDurable(r) => req[r].event \in S
    PROVE  Within(S)'
<1>0. req[r] \in Request
  BY DEF Types
<1>1. /\ ToSet(queue) \subseteq S /\ drained \subseteq S /\ dlq \subseteq S
      /\ \A e \in Events : Carries(req[r], e) => e \in S
      /\ \A e \in Events, x \in Exporters : <<e, x>> \in delivered => e \in S
  BY DEF Within
<1>2. CASE AppendDurable(r)
  <2>1. PICK copy \in {queue, <<>>} :
            Suspend(r, [op |-> "queueing", event |-> req[r].event, copy |-> copy])
    BY <1>2 DEF AppendDurable
  <2> DEFINE q == [op |-> "queueing", event |-> req[r].event, copy |-> copy]
  <2>2. ToSet(copy) \subseteq S
    <3>1. ToSet(<<>>) = {}
      <4>1. <<>> \in Seq(Events) /\ 1 .. Len(<<>>) = {}
        BY EmptySeq
      <4>2. DOMAIN <<>> = {}
        BY <4>1, ToSetFacts
      <4>3. QED
        BY <4>2 DEF ToSet
    <3>2. QED
      BY <1>1, <3>1
  <2>3. \A e \in Events : Carries(q, e) => e \in S
    BY <1>2, <2>2 DEF Carries
  <2>4. UNCHANGED <<queue, drained, dlq, delivered>>
    BY <1>2 DEF AppendDurable, history
  <2> HIDE DEF q
  <2>5. QED
    BY <1>1, <2>1, <2>3, <2>4, WithinSuspend DEF q
<1>3. CASE FinishEnqueue(r)
  <2>1. /\ req[r].op = "queueing" /\ req[r].event \in Events /\ req[r].copy \in Queues
        /\ ToSet(req[r].copy) \subseteq Events
    BY <1>0, <1>3, Kinds, ToSetFacts DEF FinishEnqueue, Queueing, Queues
  <2>2. req[r].event \in S /\ ToSet(req[r].copy) \subseteq S
    BY <1>1, <2>1 DEF Carries
  <2>3. ToSet(Enqueued(req[r].copy, req[r].event)) \subseteq S
    BY <2>1, <2>2, EnqueuedFacts
  <2>4. /\ Suspend(r, Idle) /\ UNCHANGED <<dlq, drained, delivered>>
        /\ ToSet(queue') \subseteq S
    BY <1>1, <1>3, <2>3 DEF FinishEnqueue, End, history
  <2>5. \A e \in Events : ~Carries(Idle, e)
    BY DEF Carries, Idle
  <2>6. QED
    BY <1>1, <2>4, <2>5, WithinSuspend
<1>4. CASE FinishDrain(r)
  <2>1. /\ req[r].op = "draining" /\ req[r].copy \in Queues
        /\ ToSet(req[r].copy) \subseteq Events
    BY <1>0, <1>4, Kinds, ToSetFacts DEF FinishDrain, Draining, Queues
  <2>2. ToSet(req[r].copy) \subseteq S
    BY <1>1, <2>1 DEF Carries
  <2>3. ToSet(Kept(req[r].copy)) \subseteq S /\ ToSet(Taken(req[r].copy)) \subseteq S
    BY <2>1, <2>2, SplitFacts
  <2> DEFINE q == [op |-> "working", batch |-> ToSet(Taken(req[r].copy))]
  <2>4. \A e \in Events : Carries(q, e) => e \in S
    BY <2>3 DEF Carries
  <2>5. /\ Suspend(r, q) /\ UNCHANGED <<dlq, delivered>>
        /\ ToSet(queue') \subseteq S /\ drained' \subseteq S
    BY <1>1, <1>4, <2>3 DEF FinishDrain
  <2> HIDE DEF q
  <2>6. QED
    BY <1>1, <2>4, <2>5, WithinSuspend
<1>5. ASSUME NEW t \in Tenants, NEW c \in Configs, NextTenant(r, t, c) PROVE Within(S)'
  <2> DEFINE group == Filtered(OfTenant(req[r].batch, t), c)
             rest == OfOthers(req[r].batch, t)
             q == [op |-> "exporting", batch |-> rest, group |-> group, to |-> c.to,
                   at |-> 1, failures |-> 0]
  <2>1. req[r].op = "working" /\ req[r].batch \in SUBSET Events
    BY <1>0, <1>5, Kinds DEF NextTenant, Working
  <2>2. group \subseteq req[r].batch /\ rest \subseteq req[r].batch
    BY DEF Filtered, OfTenant, OfOthers
  <2>3. UNCHANGED <<queue, drained, dlq, delivered>>
    BY <1>5 DEF NextTenant, stores, history
  <2>4. req[r].batch \subseteq S
    BY <1>1, <2>1 DEF Carries
  <2>5. Suspend(r, Remaining(rest)) \/ Suspend(r, q)
    BY <1>5 DEF NextTenant
  <2> HIDE DEF group, rest
  <2>6. \A e \in Events : Carries(Remaining(rest), e) => e \in S
    BY <2>1, <2>2, <2>4, RemainingFacts DEF Carries
  <2>7. \A e \in Events : Carries(q, e) => e \in S
    BY <2>2, <2>4 DEF Carries
  <2> HIDE DEF q
  <2>8. QED
    BY <1>1, <2>3, <2>5, <2>6, <2>7, WithinSuspend
<1>6. CASE SendSucceeds(r) \/ FinishBury(r)
  <2>1. /\ req[r].op \in {"exporting", "burying"} /\ req[r] \in Exporting \cup Burying
        /\ req[r].at <= Len(req[r].to)
        /\ req[r].group \subseteq Events /\ req[r].batch \subseteq Events
    BY <1>0, <1>6, Kinds DEF SendSucceeds, FinishBury, Types, Exporting, Burying
  <2>2. req[r].group \subseteq S /\ req[r].batch \subseteq S
    BY <1>1, <2>1 DEF Carries
  <2> DEFINE q == NextExporter(req[r])
  <2>3. \A e \in Events : Carries(q, e) => e \in S
    BY <2>1, <2>2, NextExporterFacts DEF Carries
  <2>4. Suspend(r, q) /\ UNCHANGED <<queue, drained>>
    BY <1>6 DEF SendSucceeds, FinishBury, stores, history
  <2>5. CASE SendSucceeds(r)
    <3>1. /\ dlq' \subseteq S
          /\ \A e \in Events, x \in Exporters : <<e, x>> \in delivered' => e \in S
      BY <1>1, <2>2, <2>5 DEF SendSucceeds, stores
    <3> HIDE DEF q
    <3>2. QED
      BY <1>1, <2>3, <2>4, <3>1, WithinSuspend
  <2>6. CASE FinishBury(r)
    <3>1. req[r].op = "burying" /\ req[r].copy \subseteq Events
      BY <1>0, <2>6, Kinds DEF FinishBury, Burying
    <3>2. req[r].copy \subseteq S
      BY <1>1, <3>1 DEF Carries
    <3>3. /\ dlq' \subseteq S
          /\ \A e \in Events, x \in Exporters : <<e, x>> \in delivered' => e \in S
      BY <1>1, <2>2, <2>6, <3>2 DEF FinishBury, history
    <3> HIDE DEF q
    <3>4. QED
      BY <1>1, <2>3, <2>4, <3>3, WithinSuspend
  <2>7. QED
    BY <1>6, <2>5, <2>6
<1>7. CASE Retry(r)
  <2> DEFINE q == [req[r] EXCEPT !.failures = @ + 1]
  <2>1. req[r] \in Exporting
    BY <1>0, <1>7, Kinds DEF Retry
  <2>2. /\ q.op = "exporting" /\ req[r].op = "exporting"
        /\ q.batch = req[r].batch /\ q.group = req[r].group
    BY <2>1 DEF Exporting
  <2>3. Suspend(r, q) /\ UNCHANGED <<queue, drained, dlq, delivered>>
    BY <1>7 DEF Retry, stores, history
  <2> HIDE DEF q
  <2>4. \A e \in Events : Carries(q, e) => e \in S
    BY <1>1, <2>2 DEF Carries
  <2>5. QED
    BY <1>1, <2>3, <2>4, WithinSuspend
<1>8. CASE GiveUp(r)
  <2>1. PICK copy \in {dlq, {}} :
            Suspend(r, [op |-> "burying", batch |-> req[r].batch, group |-> req[r].group,
                        to |-> req[r].to, at |-> req[r].at, copy |-> copy])
    BY <1>8 DEF GiveUp
  <2> DEFINE q == [op |-> "burying", batch |-> req[r].batch, group |-> req[r].group,
                   to |-> req[r].to, at |-> req[r].at, copy |-> copy]
  <2>2. req[r].op = "exporting"
    BY <1>8 DEF GiveUp
  <2>3. \A e \in Events : Carries(q, e) => e \in S
    BY <1>1, <2>2 DEF Carries
  <2>4. UNCHANGED <<queue, drained, dlq, delivered>>
    BY <1>8 DEF GiveUp, stores, history
  <2> HIDE DEF q
  <2>5. QED
    BY <1>1, <2>1, <2>3, <2>4, WithinSuspend DEF q
<1>9. QED
  BY <1>2, <1>3, <1>4, <1>5, <1>6, <1>7, <1>8 DEF Resume

LEMMA WithinNext ==
    ASSUME Types, [Next]_vars, NEW S, Within(S),
           \A r \in Requests : AppendDurable(r) => req[r].event \in S
    PROVE  Within(S)'
<1>1. /\ ToSet(queue) \subseteq S /\ drained \subseteq S /\ dlq \subseteq S
      /\ \A e \in Events, x \in Exporters : <<e, x>> \in delivered => e \in S
  BY DEF Within
<1>2. ASSUME NEW r \in Requests, NEW e \in Events, StartEmit(r, e) PROVE Within(S)'
  <2> DEFINE q == [op |-> "storing", event |-> e]
  <2>1. Suspend(r, q) /\ UNCHANGED <<queue, drained, dlq, delivered>>
    BY <1>2 DEF StartEmit, stores
  <2>2. \A x \in Events : ~Carries(q, x)
    BY DEF Carries
  <2> HIDE DEF q
  <2>3. QED
    BY <1>1, <2>1, <2>2, WithinSuspend
<1>3. ASSUME NEW r \in Requests, StartDrain(r) PROVE Within(S)'
  <2> DEFINE q == [op |-> "draining", copy |-> queue]
  <2>1. Suspend(r, q) /\ UNCHANGED <<queue, drained, dlq, delivered>>
    BY <1>3 DEF StartDrain, stores, history
  <2>2. \A x \in Events : Carries(q, x) => x \in S
    BY <1>1 DEF Carries
  <2> HIDE DEF q
  <2>3. QED
    BY <1>1, <2>1, <2>2, WithinSuspend
<1>4. ASSUME NEW r \in Requests, Resume(r) PROVE Within(S)'
  BY <1>4, WithinStep
<1>5. CASE Restart
  <2>1. \A x \in Events : ~Carries(Idle, x)
    BY DEF Carries, Idle
  <2>2. /\ req' = [r \in Requests |-> Idle]
        /\ UNCHANGED <<queue, drained, dlq, delivered>>
    BY <1>5 DEF Restart, stores, history
  <2>3. QED
    BY <1>1, <2>1, <2>2 DEF Within
<1>6. CASE UNCHANGED vars
  BY <1>6 DEF vars, stores, history, Within
<1>7. QED
  BY <1>2, <1>3, <1>4, <1>5, <1>6 DEF Next

\* What was stored stays stored, and what happened has happened.
LEMMA Growing ==
    ASSUME Types, [Next]_vars
    PROVE  /\ emitted \subseteq emitted' /\ durable \subseteq durable'
           /\ mishaps \subseteq mishaps' /\ drained \subseteq drained'
           /\ delivered \subseteq delivered'
<1>1. ASSUME NEW r \in Requests, Resume(r)
      PROVE  /\ UNCHANGED emitted /\ durable \subseteq durable' /\ mishaps \subseteq mishaps'
             /\ drained \subseteq drained' /\ delivered \subseteq delivered'
  BY <1>1 DEF Resume, AppendDurable, FinishEnqueue, FinishDrain, NextTenant, SendSucceeds,
     Retry, GiveUp, FinishBury, Distrust, stores, history
<1>2. QED
  BY <1>1 DEF Next, StartEmit, StartDrain, Restart, vars, stores, history

\* Every event in the pipeline has happened, and is in Postgres unless an append was lost.
Origins ==
    /\ Within(emitted)
    /\ "durable" \notin mishaps => Within(durable)

LEMMA OriginsStart == Init => Origins
<1> SUFFICES ASSUME Init PROVE Origins
  OBVIOUS
<1>1. ASSUME NEW S, S = ToSet(Backlog) PROVE Within(S)
  <2>1. \A x \in Events : ~Carries(Idle, x)
    BY DEF Carries, Idle
  <2>2. QED
    BY <1>1, <2>1 DEF Init, Within
<1>2. QED
  BY <1>1 DEF Init, Origins

LEMMA OriginsStep == Types /\ Origins /\ [Next]_vars => Origins'
<1> SUFFICES ASSUME Types, Origins, [Next]_vars PROVE Origins'
  OBVIOUS
<1>1. PICK E : E = emitted'
  OBVIOUS
<1>2. Within(E)
  BY <1>1, Growing, WithinGrows DEF Origins
<1>3. \A r \in Requests : AppendDurable(r) => req[r].event \in E
  BY <1>1, Growing DEF AppendDurable, Types, EmitSteps
<1>4. Within(E)'
  BY <1>2, <1>3, WithinNext
<1>5. Within(emitted)'
  BY <1>1, <1>4 DEF Within
<1>6. ASSUME "durable" \notin mishaps' PROVE Within(durable)'
  <2>1. PICK D : D = durable'
    OBVIOUS
  <2>2. Within(D)
    BY <1>6, <2>1, Growing, WithinGrows DEF Origins
  <2>3. \A r \in Requests : AppendDurable(r) => req[r].event \in D
    BY <1>6, <2>1 DEF AppendDurable
  <2>4. Within(D)'
    BY <2>2, <2>3, WithinNext
  <2>5. QED
    BY <2>1, <2>4 DEF Within
<1>7. QED
  BY <1>5, <1>6 DEF Origins

-----------------------------------------------------------------------------
(* Each event once *)

Emits(q, e) == q.op \in EmitSteps /\ q.event = e
Flushes(q, e) ==
    \/ q.op \in FlushSteps \ {"draining"} /\ e \in q.batch
    \/ q.op \in {"exporting", "burying"} /\ e \in q.group

\* No two requests emit the same event; while the queue is to be trusted, an event is
\* to be queued, queued or taken from the queue, and no two requests flush the same.
Apart ==
    /\ \A e \in Events : \A r, s \in Requests : Emits(req[r], e) /\ Emits(req[s], e) => r = s
    /\ "queue" \notin mishaps =>
          /\ IsInjective(queue)
          /\ ToSet(queue) \cap drained = {}
          /\ \A e \in Events : \A r \in Requests :
                /\ Emits(req[r], e) => e \notin ToSet(queue) \cup drained
                /\ Flushes(req[r], e) => e \in drained
          /\ \A e \in Events : \A r, s \in Requests :
                Flushes(req[r], e) /\ Flushes(req[s], e) => r = s

LEMMA ApartStart == Init => Apart
<1>1. \A e \in Events : ~Emits(Idle, e) /\ ~Flushes(Idle, e)
  BY DEF Emits, Flushes, Idle, EmitSteps, FlushSteps
<1>2. QED
  BY <1>1, BacklogAssumption DEF Init, Apart

\* What a request's step has to show: that what it suspends clashes with no other
\* request, and that the queue it leaves clashes with none.
LEMMA ApartSuspend ==
    ASSUME Types, Apart, NEW r \in Requests, NEW q, Suspend(r, q),
           mishaps \subseteq mishaps', drained \subseteq drained',
           \A e \in Events : \A s \in Requests :
               Emits(q, e) /\ Emits(req[s], e) => s = r,
           "queue" \notin mishaps' =>
               /\ IsInjective(queue')
               /\ ToSet(queue') \cap drained' = {}
               /\ \A e \in Events :
                     /\ Emits(q, e) => e \notin ToSet(queue') \cup drained'
                     /\ Flushes(q, e) => e \in drained'
               /\ \A e \in Events : \A s \in Requests :
                     /\ s # r /\ Emits(req[s], e) => e \notin ToSet(queue') \cup drained'
                     /\ Flushes(q, e) /\ Flushes(req[s], e) => s = r
    PROVE  Apart'
<1>1. req'[r] = q /\ \A s \in Requests : s # r => req'[s] = req[s]
  BY SuspendFacts
<1>2. ASSUME NEW e \in Events, NEW s \in Requests, NEW t \in Requests,
             Emits(req'[s], e), Emits(req'[t], e)
      PROVE  s = t
  <2>1. CASE s = r \/ t = r
    BY <1>1, <1>2, <2>1
  <2>2. CASE s # r /\ t # r
    BY <1>1, <1>2, <2>2 DEF Apart
  <2>3. QED
    BY <2>1, <2>2
<1>3. ASSUME "queue" \notin mishaps', NEW e \in Events, NEW s \in Requests
      PROVE  /\ Emits(req'[s], e) => e \notin ToSet(queue') \cup drained'
             /\ Flushes(req'[s], e) => e \in drained'
  <2>1. CASE s = r
    BY <1>1, <1>3, <2>1
  <2>2. CASE s # r
    <3>1. req'[s] = req[s] /\ (Flushes(req[s], e) => e \in drained)
      BY <1>1, <1>3, <2>2 DEF Apart
    <3>2. QED
      BY <1>3, <2>2, <3>1
  <2>3. QED
    BY <2>1, <2>2
<1>4. ASSUME "queue" \notin mishaps', NEW e \in Events, NEW s \in Requests,
             NEW t \in Requests, Flushes(req'[s], e), Flushes(req'[t], e)
      PROVE  s = t
  <2>1. CASE s = r \/ t = r
    BY <1>1, <1>4, <2>1
  <2>2. CASE s # r /\ t # r
    BY <1>1, <1>4, <2>2 DEF Apart
  <2>3. QED
    BY <2>1, <2>2
<1>5. QED
  BY <1>2, <1>3, <1>4 DEF Apart

\* A step that leaves the queue alone and takes up nothing new keeps the events apart.
LEMMA ApartKept ==
    ASSUME Types, Apart, NEW r \in Requests, NEW q, Suspend(r, q),
           mishaps \subseteq mishaps', UNCHANGED <<queue, drained>>,
           \A e \in Events : /\ Emits(q, e) => Emits(req[r], e)
                             /\ Flushes(q, e) => Flushes(req[r], e)
    PROVE  Apart'
<1>1. \A e \in Events : \A s \in Requests : Emits(q, e) /\ Emits(req[s], e) => s = r
  BY DEF Apart
<1>2. ASSUME "queue" \notin mishaps'
      PROVE  /\ IsInjective(queue')
             /\ ToSet(queue') \cap drained' = {}
             /\ \A e \in Events :
                   /\ Emits(q, e) => e \notin ToSet(queue') \cup drained'
                   /\ Flushes(q, e) => e \in drained'
             /\ \A e \in Events : \A s \in Requests :
                   /\ s # r /\ Emits(req[s], e) => e \notin ToSet(queue') \cup drained'
                   /\ Flushes(q, e) /\ Flushes(req[s], e) => s = r
  <2>1. "queue" \notin mishaps
    BY <1>2
  <2>2. QED
    BY <2>1 DEF Apart
<1>3. QED
  BY <1>1, <1>2, ApartSuspend

LEMMA ApartEmit ==
    ASSUME Types, Origins, Apart, NEW r \in Requests, NEW e \in Events, StartEmit(r, e)
    PROVE  Apart'
<1> DEFINE q == [op |-> "storing", event |-> e]
<1>1. /\ Suspend(r, q) /\ UNCHANGED <<queue, drained, mishaps>> /\ e \notin emitted
      /\ e \notin ToSet(queue) \cup drained
  BY DEF StartEmit, stores, Origins, Within
<1>2. \A s \in Requests : ~Emits(req[s], e)
  BY <1>1 DEF Types, Emits
<1>3. \A x \in Events : (Emits(q, x) => x = e) /\ ~Flushes(q, x)
  BY DEF Emits, Flushes, FlushSteps
<1> HIDE DEF q
<1>4. \A x \in Events : \A s \in Requests : Emits(q, x) /\ Emits(req[s], x) => s = r
  BY <1>2, <1>3
<1>5. ASSUME "queue" \notin mishaps'
      PROVE  /\ IsInjective(queue')
             /\ ToSet(queue') \cap drained' = {}
             /\ \A x \in Events :
                   /\ Emits(q, x) => x \notin ToSet(queue') \cup drained'
                   /\ Flushes(q, x) => x \in drained'
             /\ \A x \in Events : \A s \in Requests :
                   /\ s # r /\ Emits(req[s], x) => x \notin ToSet(queue') \cup drained'
                   /\ Flushes(q, x) /\ Flushes(req[s], x) => s = r
  BY <1>1, <1>3, <1>5 DEF Apart
<1>6. QED
  BY <1>1, <1>4, <1>5, ApartSuspend

LEMMA ApartEnqueue ==
    ASSUME Types, Apart, NEW r \in Requests, FinishEnqueue(r) PROVE Apart'
<1>1. /\ Suspend(r, Idle) /\ UNCHANGED drained /\ mishaps \subseteq mishaps'
      /\ req[r].op = "queueing" /\ req[r] \in Request
  BY DEF FinishEnqueue, End, Distrust, history, Types
<1>2. \A e \in Events : ~Emits(Idle, e) /\ ~Flushes(Idle, e)
  BY DEF Emits, Flushes, Idle, EmitSteps, FlushSteps
<1> DEFINE e == req[r].event
<1>3. e \in Events /\ queue \in Queues /\ Emits(req[r], e)
  BY <1>1, Kinds DEF Queueing, Types, Emits, EmitSteps
<1>4. ASSUME "queue" \notin mishaps'
      PROVE  /\ IsInjective(queue')
             /\ ToSet(queue') \cap drained' = {}
             /\ \A x \in Events : \A s \in Requests :
                   s # r /\ Emits(req[s], x) => x \notin ToSet(queue') \cup drained'
  <2>1. queue' = Enqueued(queue, e) /\ "queue" \notin mishaps
    BY <1>4 DEF FinishEnqueue, Distrust
  <2> HIDE DEF e
  <2>2. /\ IsInjective(queue) /\ ToSet(queue) \cap drained = {}
        /\ e \notin ToSet(queue) \cup drained
        /\ \A x \in Events : \A s \in Requests :
              /\ Emits(req[s], x) => x \notin ToSet(queue) \cup drained
              /\ s # r /\ Emits(req[s], x) => x # e
    BY <1>3, <2>1 DEF Apart
  <2>3. IsInjective(queue') /\ ToSet(queue') \subseteq ToSet(queue) \cup {e}
    BY <1>3, <2>1, <2>2, EnqueuedFacts
  <2>4. QED
    BY <1>1, <2>2, <2>3
<1> HIDE DEF e
<1>5. QED
  BY <1>1, <1>2, <1>4, ApartSuspend

LEMMA ApartDrain ==
    ASSUME Types, Apart, NEW r \in Requests, FinishDrain(r) PROVE Apart'
<1> DEFINE taken == ToSet(Taken(req[r].copy))
           q == [op |-> "working", batch |-> taken]
<1>1. /\ Suspend(r, q) /\ drained' = drained \cup taken /\ mishaps \subseteq mishaps'
      /\ queue \in Queues
  BY DEF FinishDrain, Distrust, Types
<1>2. \A e \in Events : ~Emits(q, e) /\ (Flushes(q, e) => e \in taken)
  BY DEF Emits, Flushes, EmitSteps, FlushSteps
<1>3. ASSUME "queue" \notin mishaps'
      PROVE  /\ IsInjective(queue')
             /\ ToSet(queue') \cap drained' = {}
             /\ \A e \in Events : Flushes(q, e) => e \in drained'
             /\ \A e \in Events : \A s \in Requests :
                   /\ s # r /\ Emits(req[s], e) => e \notin ToSet(queue') \cup drained'
                   /\ Flushes(q, e) /\ Flushes(req[s], e) => s = r
  <2>1. queue' = Kept(queue) /\ req[r].copy = queue /\ "queue" \notin mishaps
    BY <1>3 DEF FinishDrain, Distrust
  <2>2. taken = ToSet(Taken(queue))
    BY <2>1
  <2> HIDE DEF taken, q
  <2>3. /\ IsInjective(queue) /\ ToSet(queue) \cap drained = {}
        /\ \A e \in Events : \A s \in Requests :
              /\ Emits(req[s], e) => e \notin ToSet(queue) \cup drained
              /\ Flushes(req[s], e) => e \in drained
    BY <2>1 DEF Apart
  <2>4. /\ IsInjective(queue') /\ taken \cap ToSet(queue') = {}
        /\ ToSet(queue) = taken \cup ToSet(queue')
    BY <1>1, <2>1, <2>2, <2>3, SplitFacts
  <2>5. QED
    BY <1>1, <1>2, <2>3, <2>4
<1> HIDE DEF taken, q
<1>4. QED
  BY <1>1, <1>2, <1>3, ApartSuspend

\* The other steps move events between the hands of one request, or drop them.
LEMMA ApartMove ==
    ASSUME Types, Apart, NEW r \in Requests,
           \/ AppendDurable(r) \/ StartDrain(r)
           \/ \E t \in Tenants, c \in Configs : NextTenant(r, t, c)
           \/ SendSucceeds(r) \/ Retry(r) \/ GiveUp(r) \/ FinishBury(r)
    PROVE  Apart'
<1>0. req[r] \in Request
  BY DEF Types
<1>2. CASE AppendDurable(r)
  <2>1. PICK copy \in {queue, <<>>} :
            Suspend(r, [op |-> "queueing", event |-> req[r].event, copy |-> copy])
    BY <1>2 DEF AppendDurable
  <2> DEFINE q == [op |-> "queueing", event |-> req[r].event, copy |-> copy]
  <2>2. \A e \in Events : (Emits(q, e) => Emits(req[r], e)) /\ ~Flushes(q, e)
    BY <1>2 DEF AppendDurable, Emits, Flushes, EmitSteps, FlushSteps
  <2>3. UNCHANGED <<queue, drained>> /\ mishaps \subseteq mishaps'
    BY <1>2 DEF AppendDurable, history
  <2> HIDE DEF q
  <2>4. QED
    BY <2>1, <2>2, <2>3, ApartKept DEF q
<1>3. CASE StartDrain(r)
  <2> DEFINE q == [op |-> "draining", copy |-> queue]
  <2>1. \A e \in Events : ~Emits(q, e) /\ ~Flushes(q, e)
    BY DEF Emits, Flushes, EmitSteps, FlushSteps
  <2>2. Suspend(r, q) /\ UNCHANGED <<queue, drained, mishaps>>
    BY <1>3 DEF StartDrain, stores, history
  <2> HIDE DEF q
  <2>3. QED
    BY <2>1, <2>2, ApartKept
<1>4. ASSUME NEW t \in Tenants, NEW c \in Configs, NextTenant(r, t, c) PROVE Apart'
  <2> DEFINE group == Filtered(OfTenant(req[r].batch, t), c)
             rest == OfOthers(req[r].batch, t)
             q == [op |-> "exporting", batch |-> rest, group |-> group, to |-> c.to,
                   at |-> 1, failures |-> 0]
  <2>1. req[r].op = "working" /\ req[r].batch \in SUBSET Events
    BY <1>0, <1>4, Kinds DEF NextTenant, Working
  <2>2. group \subseteq req[r].batch /\ rest \subseteq req[r].batch
    BY DEF Filtered, OfTenant, OfOthers
  <2>3. UNCHANGED <<queue, drained, mishaps>>
    BY <1>4 DEF NextTenant, stores, history
  <2>4. Suspend(r, Remaining(rest)) \/ Suspend(r, q)
    BY <1>4 DEF NextTenant
  <2>5. \A e \in req[r].batch : Flushes(req[r], e)
    BY <2>1 DEF Flushes, FlushSteps
  <2> HIDE DEF group, rest
  <2>6. \A e \in Events : /\ ~Emits(Remaining(rest), e)
                          /\ Flushes(Remaining(rest), e) => Flushes(req[r], e)
    BY <2>1, <2>2, <2>5, RemainingFacts DEF Emits, Flushes, EmitSteps, FlushSteps
  <2>7. \A e \in Events : ~Emits(q, e) /\ (Flushes(q, e) => Flushes(req[r], e))
    BY <2>2, <2>5 DEF Emits, Flushes, EmitSteps, FlushSteps
  <2> HIDE DEF q
  <2>8. QED
    BY <2>3, <2>4, <2>6, <2>7, ApartKept
<1>5. CASE SendSucceeds(r) \/ FinishBury(r)
  <2>1. /\ req[r].op \in {"exporting", "burying"} /\ req[r] \in Exporting \cup Burying
        /\ req[r].at <= Len(req[r].to)
    BY <1>0, <1>5, Kinds DEF SendSucceeds, FinishBury, Types
  <2> DEFINE q == NextExporter(req[r])
  <2>2. \A e \in Events : ~Emits(q, e) /\ (Flushes(q, e) => Flushes(req[r], e))
    BY <2>1, NextExporterFacts DEF Emits, Flushes, EmitSteps, FlushSteps
  <2>3. Suspend(r, q) /\ UNCHANGED <<queue, drained>> /\ mishaps \subseteq mishaps'
    BY <1>5 DEF SendSucceeds, FinishBury, Distrust, stores, history
  <2> HIDE DEF q
  <2>4. QED
    BY <2>2, <2>3, ApartKept
<1>6. CASE Retry(r)
  <2> DEFINE q == [req[r] EXCEPT !.failures = @ + 1]
  <2>1. req[r] \in Exporting
    BY <1>0, <1>6, Kinds DEF Retry
  <2>2. /\ q.op = "exporting" /\ req[r].op = "exporting"
        /\ q.batch = req[r].batch /\ q.group = req[r].group
    BY <2>1 DEF Exporting
  <2>3. Suspend(r, q) /\ UNCHANGED <<queue, drained, mishaps>>
    BY <1>6 DEF Retry, stores, history
  <2> HIDE DEF q
  <2>4. \A e \in Events : ~Emits(q, e) /\ (Flushes(q, e) => Flushes(req[r], e))
    BY <2>2 DEF Emits, Flushes, EmitSteps, FlushSteps
  <2>5. QED
    BY <2>3, <2>4, ApartKept
<1>7. CASE GiveUp(r)
  <2>1. PICK copy \in {dlq, {}} :
            Suspend(r, [op |-> "burying", batch |-> req[r].batch, group |-> req[r].group,
                        to |-> req[r].to, at |-> req[r].at, copy |-> copy])
    BY <1>7 DEF GiveUp
  <2> DEFINE q == [op |-> "burying", batch |-> req[r].batch, group |-> req[r].group,
                   to |-> req[r].to, at |-> req[r].at, copy |-> copy]
  <2>2. \A e \in Events : ~Emits(q, e) /\ (Flushes(q, e) => Flushes(req[r], e))
    BY <1>7 DEF GiveUp, Emits, Flushes, EmitSteps, FlushSteps
  <2>3. UNCHANGED <<queue, drained, mishaps>>
    BY <1>7 DEF GiveUp, stores, history
  <2> HIDE DEF q
  <2>4. QED
    BY <2>1, <2>2, <2>3, ApartKept DEF q
<1>8. QED
  BY <1>2, <1>3, <1>4, <1>5, <1>6, <1>7

LEMMA ApartStep == Types /\ Origins /\ Apart /\ [Next]_vars => Apart'
<1> SUFFICES ASSUME Types, Origins, Apart, [Next]_vars PROVE Apart'
  OBVIOUS
<1>1. ASSUME NEW r \in Requests, NEW e \in Events, StartEmit(r, e) PROVE Apart'
  BY <1>1, ApartEmit
<1>2. ASSUME NEW r \in Requests, StartDrain(r) \/ Resume(r) PROVE Apart'
  BY <1>2, ApartEnqueue, ApartDrain, ApartMove DEF Resume
<1>3. CASE Restart
  <2>1. \A e \in Events : ~Emits(Idle, e) /\ ~Flushes(Idle, e)
    BY DEF Emits, Flushes, Idle, EmitSteps, FlushSteps
  <2>2. req' = [r \in Requests |-> Idle] /\ UNCHANGED <<queue, drained, mishaps>>
    BY <1>3 DEF Restart, stores, history
  <2>3. QED
    BY <2>1, <2>2 DEF Apart
<1>4. CASE UNCHANGED vars
  BY <1>4 DEF vars, stores, history, Apart
<1>5. QED
  BY <1>1, <1>2, <1>3, <1>4 DEF Next

-----------------------------------------------------------------------------
(* What the exporters whose turn is over have left *)

\* The events of a flush that goes on exporting have reached the exporters before the
\* present one or the dead letters, unless dead letters were lost.
Passed ==
    \A r \in Requests :
        req[r].op \in {"exporting", "burying"} =>
            \A e \in req[r].group : \A i \in 1 .. req[r].at - 1 :
                <<e, req[r].to[i]>> \in delivered \/ e \in dlq \/ "dlq" \in mishaps

LEMMA DeadLettersGrow ==
    ASSUME [Next]_vars PROVE dlq \subseteq dlq' \/ "dlq" \in mishaps'
<1>1. ASSUME NEW r \in Requests, FinishBury(r)
      PROVE  dlq \subseteq dlq' \/ "dlq" \in mishaps'
  BY <1>1 DEF FinishBury, Distrust
<1>2. ASSUME NEW r \in Requests, Resume(r), ~FinishBury(r) PROVE UNCHANGED dlq
  BY <1>2 DEF Resume, AppendDurable, FinishEnqueue, FinishDrain, NextTenant, SendSucceeds,
     Retry, GiveUp, stores
<1>3. QED
  BY <1>1, <1>2 DEF Next, StartEmit, StartDrain, Restart, vars, stores

\* A request changes by its own steps and in a crash.
LEMMA OwnStep ==
    ASSUME Types, [Next]_vars, NEW r \in Requests, req'[r] # req[r]
    PROVE  (\E e \in Events : StartEmit(r, e)) \/ StartDrain(r) \/ Resume(r) \/ Restart
<1>1. ASSUME NEW s \in Requests, s # r, NEW q, Suspend(s, q) PROVE FALSE
  BY <1>1, SuspendFacts
<1>2. ASSUME NEW s \in Requests, NEW e \in Events, StartEmit(s, e) PROVE s = r
  BY <1>1, <1>2 DEF StartEmit
<1>3. ASSUME NEW s \in Requests, StartDrain(s) \/ Resume(s) PROVE s = r
  <2>1. \E q : Suspend(s, q)
    BY <1>3 DEF StartDrain, Resume, AppendDurable, FinishEnqueue, End, FinishDrain,
       NextTenant, SendSucceeds, Retry, GiveUp, FinishBury
  <2>2. QED
    BY <1>1, <2>1
<1>4. CASE UNCHANGED vars
  BY <1>4 DEF vars
<1>5. QED
  BY <1>2, <1>3, <1>4 DEF Next

LEMMA PassedStart == Init => Passed
BY DEF Init, Passed, Idle

LEMMA PassedStep == Types /\ Passed /\ [Next]_vars => Passed'
<1> SUFFICES ASSUME Types, Passed, [Next]_vars, NEW r \in Requests,
                    req'[r].op \in {"exporting", "burying"},
                    NEW e \in req'[r].group, NEW i \in 1 .. req'[r].at - 1
             PROVE  <<e, req'[r].to[i]>> \in delivered' \/ e \in dlq' \/ "dlq" \in mishaps'
  BY DEF Passed
<1>1. /\ delivered \subseteq delivered' /\ mishaps \subseteq mishaps'
      /\ dlq \subseteq dlq' \/ "dlq" \in mishaps'
  BY Growing, DeadLettersGrow DEF Types
<1>2. ASSUME req[r].op \in {"exporting", "burying"}, e \in req[r].group,
             i \in 1 .. req[r].at - 1, req'[r].to = req[r].to
      PROVE  <<e, req'[r].to[i]>> \in delivered' \/ e \in dlq' \/ "dlq" \in mishaps'
  BY <1>1, <1>2 DEF Passed
<1>3. CASE req'[r] = req[r]
  BY <1>2, <1>3
<1>4. ASSUME NEW x \in Events, StartEmit(r, x) PROVE FALSE
  BY <1>4, SuspendFacts DEF StartEmit
<1>5. CASE StartDrain(r)
  BY <1>5, SuspendFacts DEF StartDrain
<1>6. CASE AppendDurable(r)
  BY <1>6, SuspendFacts DEF AppendDurable
<1>7. CASE FinishEnqueue(r) \/ Restart
  <2>1. req'[r] = Idle
    BY <1>7, SuspendFacts DEF FinishEnqueue, End, Restart
  <2>2. QED
    BY <2>1 DEF Idle
<1>8. CASE FinishDrain(r)
  BY <1>8, SuspendFacts DEF FinishDrain
<1>9. ASSUME NEW t \in Tenants, NEW c \in Configs, NextTenant(r, t, c) PROVE FALSE
  <2> DEFINE rest == OfOthers(req[r].batch, t)
  <2>1. \/ req'[r] = Remaining(rest)
        \/ req'[r].at = 1
    BY <1>9, SuspendFacts DEF NextTenant
  <2>2. Remaining(rest).op \in {"idle", "working"}
    BY DEF Remaining, Idle
  <2>3. QED
    BY <2>1, <2>2
<1>10. CASE SendSucceeds(r) \/ FinishBury(r)
  <2>1. /\ req[r].op \in {"exporting", "burying"} /\ req[r] \in Exporting \cup Burying
        /\ req[r].at <= Len(req[r].to) /\ req[r].at \in Nat \ {0}
    <3>1. req[r] \in Request /\ req[r].op \in {"exporting", "burying"}
      BY <1>10 DEF SendSucceeds, FinishBury, Types
    <3>2. req[r] \in Exporting \cup Burying /\ req[r].at <= Len(req[r].to)
      BY <3>1, Kinds DEF Types
    <3>3. QED
      BY <3>1, <3>2 DEF Exporting, Burying
  <2>2. req'[r] = NextExporter(req[r])
    BY <1>10, SuspendFacts DEF SendSucceeds, FinishBury
  <2>3. /\ e \in req[r].group /\ req'[r].to = req[r].to
        /\ i \in 1 .. req[r].at
    BY <2>1, <2>2, NextExporterFacts
  <2>4. CASE i = req[r].at
    <3>1. CASE SendSucceeds(r)
      BY <2>3, <2>4, <3>1 DEF SendSucceeds
    <3>2. CASE FinishBury(r)
      BY <2>3, <2>4, <3>2 DEF FinishBury, Distrust
    <3>3. QED
      BY <1>10, <3>1, <3>2
  <2>5. CASE i # req[r].at
    <3>1. i \in 1 .. req[r].at - 1
      BY <2>1, <2>3, <2>5
    <3>2. QED
      BY <1>2, <2>1, <2>3, <3>1
  <2>6. QED
    BY <2>4, <2>5
<1>11. CASE Retry(r)
  <2>1. req[r] \in Exporting
    BY <1>11, Kinds DEF Retry, Types
  <2>2. req'[r] = [req[r] EXCEPT !.failures = @ + 1] /\ req[r].op = "exporting"
    BY <1>11, SuspendFacts DEF Retry
  <2>3. /\ req'[r].group = req[r].group /\ req'[r].to = req[r].to
        /\ req'[r].at = req[r].at
    BY <2>1, <2>2 DEF Exporting
  <2>4. QED
    BY <1>2, <2>2, <2>3
<1>12. CASE GiveUp(r)
  <2>1. /\ req'[r].group = req[r].group /\ req'[r].to = req[r].to
        /\ req'[r].at = req[r].at /\ req[r].op = "exporting"
    BY <1>12, SuspendFacts DEF GiveUp
  <2>2. QED
    BY <1>2, <2>1
<1>13. QED
  BY <1>3, <1>4, <1>5, <1>6, <1>7, <1>8, <1>9, <1>10, <1>11, <1>12, OwnStep DEF Resume

-----------------------------------------------------------------------------
(* Events that leave the pipeline *)

InHand(q, e) == Emits(q, e) \/ Flushes(q, e)

LEMMA AccountedFacts ==
    ASSUME NEW e
    PROVE  Accounted(e) <=> \/ e \in ToSet(queue) \cup dlq
                            \/ \E r \in Requests : InHand(req[r], e)
BY DEF Accounted, Emitting, Flushing, InHand, Emits, Flushes

\* A step of r keeps account of an event if r had it in hand or it was in the queue or
\* the dead letters only where it still is.
LEMMA AccountedKept ==
    ASSUME Types, NEW r \in Requests, NEW q, Suspend(r, q), NEW e, Accounted(e),
           InHand(req[r], e) \/ e \in ToSet(queue) \cup dlq =>
               InHand(q, e) \/ e \in ToSet(queue') \cup dlq'
    PROVE  Accounted(e)'
<1>1. req'[r] = q /\ \A s \in Requests : s # r => req'[s] = req[s]
  BY SuspendFacts
<1>2. \/ e \in ToSet(queue') \cup dlq'
      \/ \E s \in Requests : InHand(req'[s], e)
  BY <1>1, AccountedFacts
<1>3. QED
  BY <1>2 DEF Accounted, Emitting, Flushing, InHand, Emits, Flushes

\* What NextExporter goes on with is all it had in hand, until the last exporter.
LEMMA NextInHand ==
    ASSUME NEW q \in Exporting \cup Burying, q.at <= Len(q.to), NEW e, InHand(q, e)
    PROVE  InHand(NextExporter(q), e) \/ (e \in q.group /\ q.at = Len(q.to))
<1>1. e \in q.batch \/ e \in q.group
  BY DEF InHand, Emits, Flushes, EmitSteps, FlushSteps, Exporting, Burying
<1>2. e \in q.batch => InHand(NextExporter(q), e)
  BY NextExporterFacts DEF InHand, Flushes, FlushSteps
<1>3. e \in q.group /\ q.at # Len(q.to) => InHand(NextExporter(q), e)
  BY NextExporterFacts DEF InHand, Flushes, FlushSteps
<1>4. QED
  BY <1>1, <1>2, <1>3

Explained(e) ==
    \/ Finished(e) \/ Unwanted(e) \/ Overflowed(e) \/ Overwritten
    \/ faults' > faults

LEMMA LostCounts ==
    ASSUME Types, Lost PROVE faults' > faults
BY DEF Types, Lost

\* emitAsync and drain: an event is in the queue, in hand, or has a reason not to be.
LEMMA ExplainedEnqueue ==
    ASSUME Types, NEW r \in Requests, FinishEnqueue(r), NEW e \in Events,
           Accounted(e), ~Accounted(e)'
    PROVE  Explained(e)
<1>1. CASE Lost
  BY <1>1, LostCounts DEF Explained
<1>2. CASE ~Lost
  <2>1. /\ Suspend(r, Idle) /\ req[r].op = "queueing" /\ req'[r] = Idle /\ UNCHANGED dlq
        /\ queue' = Enqueued(req[r].copy, req[r].event) /\ req[r] \in Request
    BY <1>2, SuspendFacts DEF FinishEnqueue, End, Types
  <2>2. CASE req[r].copy # queue
    <3>1. req'[r] # req[r]
      BY <2>1 DEF Idle
    <3>2. QED
      BY <2>1, <2>2, <3>1 DEF Explained, Overwritten
  <2>3. CASE req[r].copy = queue
    <3>1. req[r].event \in Events /\ queue \in Queues
      BY <2>1, Kinds DEF Queueing, Types
    <3>2. /\ req[r].event \in ToSet(queue')
          /\ e \in ToSet(queue) =>
                e \in ToSet(queue') \/ (Len(queue) >= MaxQueue /\ e = Head(queue))
      BY <2>1, <2>3, <3>1, EnqueuedFacts
    <3>3. InHand(req[r], e) => e = req[r].event
      BY <2>1 DEF InHand, Emits, Flushes, FlushSteps
    <3>4. CASE e \in ToSet(queue) /\ e \notin ToSet(queue')
      BY <2>1, <3>2, <3>4 DEF Explained, Overflowed
    <3>5. CASE e \in ToSet(queue) => e \in ToSet(queue')
      <4>1. InHand(req[r], e) \/ e \in ToSet(queue) \cup dlq => e \in ToSet(queue') \cup dlq'
        BY <2>1, <3>2, <3>3, <3>5
      <4>2. Accounted(e)'
        BY <2>1, <4>1, AccountedKept
      <4>3. QED
        BY <4>2
    <3>6. QED
      BY <3>4, <3>5
  <2>4. QED
    BY <2>2, <2>3
<1>3. QED
  BY <1>1, <1>2

LEMMA ExplainedDrain ==
    ASSUME Types, NEW r \in Requests, FinishDrain(r), NEW e \in Events,
           Accounted(e), ~Accounted(e)'
    PROVE  Explained(e)
<1> DEFINE q == [op |-> "working", batch |-> ToSet(Taken(req[r].copy))]
<1>1. CASE Lost
  BY <1>1, LostCounts DEF Explained
<1>2. CASE ~Lost
  <2>1. /\ Suspend(r, q) /\ req[r].op = "draining" /\ req'[r] = q /\ UNCHANGED dlq
        /\ queue' = Kept(req[r].copy) /\ queue \in Queues
    BY <1>2, SuspendFacts DEF FinishDrain, Types
  <2>2. CASE req[r].copy # queue
    <3>1. req'[r] # req[r]
      BY <2>1
    <3>2. QED
      BY <2>1, <2>2, <3>1 DEF Explained, Overwritten
  <2>3. CASE req[r].copy = queue
    <3>1. ToSet(queue) = ToSet(Taken(queue)) \cup ToSet(queue')
      BY <2>1, <2>3, SplitFacts
    <3>2. ~InHand(req[r], e)
      BY <2>1 DEF InHand, Emits, Flushes, EmitSteps
    <3>3. e \in ToSet(Taken(queue)) => InHand(q, e)
      BY <2>3 DEF InHand, Flushes, FlushSteps
    <3> HIDE DEF q
    <3>4. Accounted(e)'
      BY <2>1, <3>1, <3>2, <3>3, AccountedKept
    <3>5. QED
      BY <3>4
  <2>4. QED
    BY <2>2, <2>3
<1>3. QED
  BY <1>1, <1>2

LEMMA ExplainedTenant ==
    ASSUME Types, NEW r \in Requests, NEW t \in Tenants, NEW c \in Configs,
           NextTenant(r, t, c), NEW e \in Events, Accounted(e), ~Accounted(e)'
    PROVE  Explained(e)
<1> DEFINE group == Filtered(OfTenant(req[r].batch, t), c)
           rest == OfOthers(req[r].batch, t)
           q == [op |-> "exporting", batch |-> rest, group |-> group, to |-> c.to,
                 at |-> 1, failures |-> 0]
<1>1. /\ req[r].op = "working" /\ req[r].batch \in SUBSET Events
      /\ UNCHANGED <<queue, dlq>>
      /\ IF group = {} \/ c.to = <<>> THEN Suspend(r, Remaining(rest)) ELSE Suspend(r, q)
  <2>1. req[r] \in Request
    BY DEF Types
  <2>2. QED
    BY <2>1, Kinds DEF NextTenant, stores, Working
<1>2. PICK p : Suspend(r, p) /\ p = IF group = {} \/ c.to = <<>> THEN Remaining(rest) ELSE q
  BY <1>1
<1>3. InHand(req[r], e) /\ ~InHand(p, e)
  BY <1>1, <1>2, AccountedKept
<1>4. e \in req[r].batch
  BY <1>1, <1>3 DEF InHand, Emits, Flushes, EmitSteps
<1>5. e \notin rest
  <2>1. rest \in SUBSET Events
    BY <1>1 DEF OfOthers
  <2>2. InHand(q, e) \/ e \notin rest
    BY DEF InHand, Flushes, FlushSteps
  <2>3. InHand(Remaining(rest), e) \/ e \notin rest
    BY <2>1, RemainingFacts DEF InHand, Flushes, FlushSteps
  <2>4. QED
    BY <1>2, <1>3, <2>2, <2>3
<1>6. TenantOf[e] = t
  BY <1>4, <1>5 DEF OfOthers
<1>7. e \notin group \/ c.to = <<>>
  <2>1. e \in group => InHand(q, e)
    BY DEF InHand, Flushes, FlushSteps
  <2>2. QED
    BY <1>2, <1>3, <2>1
<1>8. e \notin c.keeps \/ c.to = <<>>
  BY <1>4, <1>6, <1>7 DEF Filtered, OfTenant
<1>9. QED
  BY <1>6, <1>8 DEF Explained, Unwanted

\* runExporter and deadLetter: the flush drops an event after its last exporter.
LEMMA ExplainedExport ==
    ASSUME Types, Passed, [Next]_vars, NEW r \in Requests, SendSucceeds(r) \/ FinishBury(r),
           NEW e \in Events, Accounted(e), ~Accounted(e)'
    PROVE  Explained(e)
<1> DEFINE q == req[r]
<1>1. /\ q.op \in {"exporting", "burying"} /\ q \in Exporting \cup Burying
      /\ q.at <= Len(q.to) /\ q.at \in Nat \ {0} /\ q.to \in Seq(Exporters)
  <2>1. q \in Request /\ q.op \in {"exporting", "burying"}
    BY DEF SendSucceeds, FinishBury, Types
  <2>2. q \in Exporting \cup Burying /\ q.at <= Len(q.to)
    BY <2>1, Kinds DEF Types
  <2>3. QED
    BY <2>1, <2>2 DEF Exporting, Burying
<1>2. Suspend(r, NextExporter(q)) /\ UNCHANGED queue
  BY DEF SendSucceeds, FinishBury, stores
<1>3. CASE e \notin dlq \/ e \in dlq'
  <2>1. InHand(q, e) /\ ~InHand(NextExporter(q), e) /\ e \notin dlq'
    <3>1. e \notin ToSet(queue') \cup dlq'
      BY DEF Accounted
    <3>2. QED
      BY <1>2, <1>3, <3>1, AccountedKept
  <2>2. e \in q.group /\ q.at = Len(q.to)
    BY <1>1, <2>1, NextInHand
  <2>3. CASE FinishBury(r)
    <3>1. Lost
      BY <2>1, <2>2, <2>3 DEF FinishBury
    <3>2. QED
      BY <3>1, LostCounts DEF Explained
  <2>4. CASE SendSucceeds(r)
    <3>1. UNCHANGED <<dlq, mishaps>> /\ <<e, q.to[q.at]>> \in delivered'
      BY <2>2, <2>4 DEF SendSucceeds, stores
    <3>2. ASSUME NEW x \in ToSet(q.to) PROVE <<e, x>> \in delivered' \/ "dlq" \in mishaps
      <4>1. PICK i \in 1 .. Len(q.to) : q.to[i] = x
        BY <1>1, ToSetFacts
      <4>2. CASE i = q.at
        BY <3>1, <4>1, <4>2
      <4>3. CASE i # q.at
        <5>1. i \in 1 .. q.at - 1
          BY <1>1, <2>2, <4>3
        <5>2. <<e, q.to[i]>> \in delivered \/ e \in dlq \/ "dlq" \in mishaps
          BY <1>1, <2>2, <5>1 DEF Passed
        <5>3. QED
          BY <2>1, <3>1, <4>1, <5>2, Growing
      <4>4. QED
        BY <4>2, <4>3
    <3>3. QED
      BY <1>1, <2>2, <3>2 DEF Explained, Finished
  <2>5. QED
    BY <2>3, <2>4
<1>4. CASE e \in dlq /\ e \notin dlq'
  <2>1. FinishBury(r) /\ q.op = "burying"
    BY <1>4 DEF SendSucceeds, FinishBury, stores
  <2>2. CASE Lost
    BY <2>2, LostCounts DEF Explained
  <2>3. CASE ~Lost
    <3>1. q.copy # dlq
      BY <1>4, <2>1, <2>3 DEF FinishBury
    <3>2. req'[r] = NextExporter(q) /\ NextExporter(q).op # "burying"
      BY <1>1, <1>2, NextExporterFacts, SuspendFacts
    <3>3. QED
      BY <2>1, <3>1, <3>2 DEF Explained, Overwritten
  <2>4. QED
    BY <2>2, <2>3
<1>5. QED
  BY <1>3, <1>4

LEMMA ExplainedStep ==
    ASSUME Types, Passed, [Next]_vars, NEW e \in Events, Accounted(e), ~Accounted(e)'
    PROVE  Explained(e)
<1>1. ASSUME NEW r \in Requests, NEW q, Suspend(r, q), UNCHANGED <<queue, dlq>>,
             InHand(req[r], e) => InHand(q, e)
      PROVE  FALSE
  <2>1. Accounted(e)'
    BY <1>1, AccountedKept
  <2>2. QED
    BY <2>1
<1>2. ASSUME NEW r \in Requests, NEW x \in Events, StartEmit(r, x) PROVE FALSE
  <2>1. ~InHand(Idle, e)
    BY DEF InHand, Emits, Flushes, Idle, EmitSteps, FlushSteps
  <2>2. QED
    BY <1>1, <1>2, <2>1 DEF StartEmit, stores
<1>3. ASSUME NEW r \in Requests, StartDrain(r) PROVE FALSE
  <2>1. ~InHand(Idle, e)
    BY DEF InHand, Emits, Flushes, Idle, EmitSteps, FlushSteps
  <2>2. QED
    BY <1>1, <1>3, <2>1 DEF StartDrain, stores
<1>4. ASSUME NEW r \in Requests, AppendDurable(r) PROVE FALSE
  <2>1. PICK copy \in {queue, <<>>} :
            Suspend(r, [op |-> "queueing", event |-> req[r].event, copy |-> copy])
    BY <1>4 DEF AppendDurable
  <2> DEFINE q == [op |-> "queueing", event |-> req[r].event, copy |-> copy]
  <2>2. InHand(req[r], e) => InHand(q, e)
    BY <1>4 DEF AppendDurable, InHand, Emits, Flushes, EmitSteps, FlushSteps
  <2>3. UNCHANGED <<queue, dlq>>
    BY <1>4 DEF AppendDurable
  <2> HIDE DEF q
  <2>4. QED
    BY <1>1, <2>1, <2>2, <2>3 DEF q
<1>5. ASSUME NEW r \in Requests, Retry(r) PROVE FALSE
  <2> DEFINE q == [req[r] EXCEPT !.failures = @ + 1]
  <2>1. req[r] \in Exporting
    BY <1>5, Kinds DEF Retry, Types
  <2>2. /\ q.op = "exporting" /\ req[r].op = "exporting"
        /\ q.batch = req[r].batch /\ q.group = req[r].group
    BY <2>1 DEF Exporting
  <2>3. Suspend(r, q) /\ UNCHANGED <<queue, dlq>>
    BY <1>5 DEF Retry, stores
  <2> HIDE DEF q
  <2>4. InHand(req[r], e) => InHand(q, e)
    BY <2>2 DEF InHand, Emits, Flushes, EmitSteps
  <2>5. QED
    BY <1>1, <2>3, <2>4
<1>6. ASSUME NEW r \in Requests, GiveUp(r) PROVE FALSE
  <2>1. PICK copy \in {dlq, {}} :
            Suspend(r, [op |-> "burying", batch |-> req[r].batch, group |-> req[r].group,
                        to |-> req[r].to, at |-> req[r].at, copy |-> copy])
    BY <1>6 DEF GiveUp
  <2> DEFINE q == [op |-> "burying", batch |-> req[r].batch, group |-> req[r].group,
                   to |-> req[r].to, at |-> req[r].at, copy |-> copy]
  <2>2. InHand(req[r], e) => InHand(q, e)
    BY <1>6 DEF GiveUp, InHand, Emits, Flushes, EmitSteps, FlushSteps
  <2>3. UNCHANGED <<queue, dlq>>
    BY <1>6 DEF GiveUp, stores
  <2> HIDE DEF q
  <2>4. QED
    BY <1>1, <2>1, <2>2, <2>3 DEF q
<1>7. CASE Restart
  BY <1>7, LostCounts DEF Restart, Explained
<1>8. CASE UNCHANGED vars
  <2>1. Accounted(e)'
    BY <1>8 DEF vars, stores, Accounted, Emitting, Flushing
  <2>2. QED
    BY <2>1
<1>9. ASSUME NEW r \in Requests, Resume(r) PROVE Explained(e)
  BY <1>4, <1>5, <1>6, <1>9, ExplainedEnqueue, ExplainedDrain, ExplainedTenant,
     ExplainedExport DEF Resume
<1>10. QED
  BY <1>2, <1>3, <1>7, <1>8, <1>9 DEF Next

-----------------------------------------------------------------------------
(* The theorems *)

PipelineInv == Types /\ Origins /\ Apart /\ Passed

LEMMA PipelineHolds == Spec => []PipelineInv
<1>1. Init => PipelineInv
  BY TypesStart, OriginsStart, ApartStart, PassedStart DEF PipelineInv
<1>2. PipelineInv /\ [Next]_vars => PipelineInv'
  BY TypesStep, OriginsStep, ApartStep, PassedStep DEF PipelineInv
<1>3. QED
  BY <1>1, <1>2, PTL DEF Spec

\* The queue never outgrows its limit, every suspended emission is of an event that has
\* happened, and nothing is taken from the queue that nobody emitted (emitAsync,
\* enqueue, drain).
THEOREM PipelineTypes == Spec => []TypeOK
<1>1. ASSUME PipelineInv PROVE TypeOK
  <2>1. queue \in Seq(Events) /\ Len(queue) <= MaxQueue
    BY <1>1 DEF PipelineInv, Types, Queues
  <2>2. ASSUME NEW r \in Requests
        PROVE  \/ req[r] = Idle
               \/ req[r].op \in EmitSteps /\ req[r].event \in emitted
               \/ req[r].op \in FlushSteps
    <3>1. req[r] \in Request /\ (req[r].op \in EmitSteps => req[r].event \in emitted)
      BY <1>1 DEF PipelineInv, Types
    <3>2. QED
      BY <3>1, Kinds
  <2>3. QED
    BY <1>1, <2>1, <2>2 DEF PipelineInv, Types, Origins, Within, TypeOK
<1>2. QED
  BY <1>1, PipelineHolds, PTL

\* With any number of overlapping emissions and flushes, as long as no old copy of the
\* queue is written back and no command on it is lost, an event is on its way once: it is
\* queued once, taken by one flush, and does not come back (enqueue, drain).
THEOREM OnItsWayOnce == Spec => []EachOnce
<1>1. ASSUME PipelineInv PROVE EachOnce
  <2>1. \A e \in Events : \A r \in Requests : Emitting(r, e) <=> Emits(req[r], e)
    BY DEF Emitting, Emits
  <2>2. \A e \in Events : \A r \in Requests : Flushing(r, e) <=> Flushes(req[r], e)
    BY DEF Flushing, Flushes
  <2>3. QED
    BY <1>1, <2>1, <2>2 DEF PipelineInv, Apart, EachOnce
<1>2. QED
  BY <1>1, PipelineHolds, PTL

\* Unless an append failed, whatever is queued, being flushed, dead-lettered or exported
\* is also in Postgres, whatever crashes and lost commands there were (emitAsync).
THEOREM RecordedBeforeSent == Spec => []DurableFirst
<1>1. ASSUME PipelineInv PROVE DurableFirst
  BY <1>1 DEF PipelineInv, Origins, Within, DurableFirst
<1>2. QED
  BY <1>1, PipelineHolds, PTL

\* For any number of tenants and exporters, no event leaves the pipeline but for one of
\* the reasons the code has: a failing exporter costs neither the other exporters nor the
\* other tenants of a flush their events (flush, runExporter, deadLetter).
THEOREM NoSilentLoss == Spec => LossesExplained
<1>1. ASSUME PipelineInv, [Next]_vars
      PROVE  [\A e \in Events :
                 Accounted(e) /\ ~Accounted(e)' =>
                     \/ Finished(e) \/ Unwanted(e) \/ Overflowed(e) \/ Overwritten
                     \/ faults' > faults]_vars
  BY <1>1, ExplainedStep DEF PipelineInv, Explained
<1>2. QED
  BY <1>1, PipelineHolds, PTL DEF Spec, LossesExplained
=============================================================================
