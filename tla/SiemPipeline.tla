---------------------------- MODULE SiemPipeline ----------------------------
(***************************************************************************)
(* The delivery of SIEM events: SiemEventService puts every event into     *)
(* Postgres and into the delivery queue, SiemPipelineWorker drains the     *)
(* queue and sends the events to the exporters of their tenants.           *)
(*                                                                         *)
(* Queue and dead letters are single values in Dragonfly, rewritten whole  *)
(* by whoever has read them before.  A step of a request resumes it and    *)
(* sends its next command: one connection carries the commands in the      *)
(* order they are sent, so a command takes effect when it is sent.         *)
(*                                                                         *)
(* Abstractions: an event is its id; a tenant's configuration is what it   *)
(* exports and where to, and a flush finds any of them, since              *)
(* administrators change them at will; dead letters and the events of a    *)
(* flush are sets, whose tenants come in any order.  Hash chain, append    *)
(* log (which nothing reads) and health table are left out.                *)
(***************************************************************************)
EXTENDS Naturals, Sequences, SequencesExt

CONSTANTS
    Events,     \* ids of the events that can happen
    TenantOf,   \* TenantOf[e]: the tenant e is about
    Configs,    \* configurations a tenant may have, "no configuration" included
    Backlog,    \* events an earlier process has left in the queue
    Requests,   \* slots for suspended emissions and flushes
    Batch,      \* events a flush drains (200)
    MaxQueue,   \* MAX_QUEUE
    MaxRetries, \* MAX_EXPORTER_RETRIES
    MaxFaults   \* bound on restarts and lost commands

Tenants == {TenantOf[e] : e \in Events}
Exporters == UNION {ToSet(c.to) : c \in Configs}

ASSUME ConfigsAssumption ==
    \A c \in Configs :
        c.keeps \subseteq Events /\ c.to \in Seq(Exporters) /\ IsInjective(c.to)
ASSUME BacklogAssumption ==
    Backlog \in Seq(Events) /\ IsInjective(Backlog) /\ Len(Backlog) <= MaxQueue
ASSUME BoundsAssumption ==
    /\ Batch \in Nat \ {0} /\ MaxQueue \in Nat \ {0}
    /\ MaxRetries \in Nat \ {0} /\ MaxFaults \in Nat

VARIABLES
    queue,      \* Dragonfly's delivery queue
    dlq,        \* Dragonfly's dead letters
    durable,    \* Postgres' siem_events
    req,        \* req[r]: the emission or flush suspended in slot r
    faults,     \* restarts and lost commands so far
    emitted,    \* history: the events that happened
    drained,    \* history: events taken from the queue
    delivered,  \* history: <<e, x>> when exporter x has acknowledged e
    mishaps     \* history: stores that lost a command, or whose value was
                \* replaced by one made from an older value

stores == <<queue, dlq, durable>>
history == <<emitted, drained, delivered>>
vars == <<stores, req, faults, history, mishaps>>

Stores == {"queue", "dlq", "durable"}

Idle == [op |-> "idle"]
EmitSteps == {"storing", "queueing"}
FlushSteps == {"draining", "working", "exporting", "burying"}

TypeOK ==
    /\ queue \in Seq(Events) /\ Len(queue) <= MaxQueue
    /\ dlq \subseteq Events /\ durable \subseteq Events
    /\ \A r \in Requests :
          \/ req[r] = Idle
          \/ req[r].op \in EmitSteps /\ req[r].event \in emitted
          \/ req[r].op \in FlushSteps
    /\ faults \in 0 .. MaxFaults
    /\ emitted \subseteq Events /\ drained \subseteq emitted
    /\ delivered \subseteq Events \X Exporters
    /\ mishaps \subseteq Stores

-----------------------------------------------------------------------------
(* Commands to Dragonfly.  An unavailable store answers undefined and takes    *)
(* nothing; the service swallows the error.                                    *)

Suspend(r, request) == req' = [req EXCEPT ![r] = request]
End(r) == Suspend(r, Idle)

\* A command gets through, or it is lost and counted.
Through == UNCHANGED faults
Lost == faults < MaxFaults /\ faults' = faults + 1

\* getJson(...) ?? []
Copy(value, copy) ==
    \/ copy = value /\ Through
    \/ copy = <<>> /\ value # <<>> /\ Lost

\* Which store to distrust after a write, given the copy the new value was made from
Distrust(store, stale) == mishaps' = IF stale THEN mishaps \cup {store} ELSE mishaps

-----------------------------------------------------------------------------
(* emitAsync *)

\* Slip: the append to Postgres is forgotten.
EmitUnstored(r, e) ==
    /\ req[r] = Idle
    /\ e \notin emitted
    /\ emitted' = emitted \cup {e}
    /\ Suspend(r, [op |-> "queueing", event |-> e, copy |-> queue])
    /\ UNCHANGED <<stores, faults, drained, delivered, mishaps>>

\* The event is hashed and logged.
StartEmit(r, e) ==
    /\ req[r] = Idle
    /\ e \notin emitted
    /\ emitted' = emitted \cup {e}
    /\ Suspend(r, [op |-> "storing", event |-> e])
    /\ UNCHANGED <<stores, faults, drained, delivered, mishaps>>

\* appendSiemEvent, whose errors are swallowed too, and enqueue's read
AppendDurable(r) ==
    LET e == req[r].event
        Read(copy) == Suspend(r, [op |-> "queueing", event |-> e, copy |-> copy])
    IN
    /\ req[r].op = "storing"
    /\ \/ /\ durable' = durable \cup {e} /\ UNCHANGED mishaps
          /\ \E copy \in {queue, <<>>} : Copy(queue, copy) /\ Read(copy)
       \/ /\ durable' = durable /\ mishaps' = mishaps \cup {"durable"}
          /\ Lost /\ Read(queue)
    /\ UNCHANGED <<queue, dlq, history>>

\* A full queue gives up its oldest event.
Enqueued(s, e) == Append(IF Len(s) >= MaxQueue THEN Tail(s) ELSE s, e)

FinishEnqueue(r) ==
    LET this == req[r] IN
    /\ this.op = "queueing"
    /\ \/ queue' = Enqueued(this.copy, this.event) /\ Through
          /\ Distrust("queue", this.copy # queue)
       \/ queue' = queue /\ Lost /\ Distrust("queue", TRUE)
    /\ End(r)
    /\ UNCHANGED <<dlq, durable, history>>

-----------------------------------------------------------------------------
(* flush, by the timer or by hand; a second one may start during the first *)

StartDrain(r) ==
    /\ req[r] = Idle
    /\ queue # <<>>
    /\ Suspend(r, [op |-> "draining", copy |-> queue])
    /\ UNCHANGED <<stores, faults, history, mishaps>>

Least(a, b) == IF a < b THEN a ELSE b
Taken(s) == SubSeq(s, 1, Least(Batch, Len(s)))
\* Slip: the last event drained stays.
KeptOneMore(s) == SubSeq(s, Batch, Len(s))
Kept(s) == SubSeq(s, Batch + 1, Len(s))

FinishDrain(r) ==
    LET copy == req[r].copy IN
    /\ req[r].op = "draining"
    /\ \/ queue' = Kept(copy) /\ Through /\ Distrust("queue", copy # queue)
       \/ queue' = queue /\ Lost /\ Distrust("queue", TRUE)
    /\ drained' = drained \cup ToSet(Taken(copy))
    /\ Suspend(r, [op |-> "working", batch |-> ToSet(Taken(copy))])
    /\ UNCHANGED <<dlq, durable, emitted, delivered>>

\* What is left of a flush
Remaining(batch) == IF batch = {} THEN Idle ELSE [op |-> "working", batch |-> batch]

OfTenant(batch, t) == {e \in batch : TenantOf[e] = t}
\* Slip: a return in place of continue.
NoOthers(batch, t) == {}
OfOthers(batch, t) == {e \in batch : TenantOf[e] # t}
Filtered(events, c) == events \cap c.keeps

\* The next tenant's events: to its exporters, or nowhere.  c is what configs.get
\* answers by now.
NextTenant(r, t, c) ==
    LET batch == req[r].batch
        group == Filtered(OfTenant(batch, t), c)
        rest == OfOthers(batch, t)
    IN
    /\ req[r].op = "working"
    /\ OfTenant(batch, t) # {}
    /\ IF group = {} \/ c.to = <<>>
       THEN Suspend(r, Remaining(rest))
       ELSE Suspend(r, [op |-> "exporting", batch |-> rest, group |-> group,
                        to |-> c.to, at |-> 1, failures |-> 0])
    /\ UNCHANGED <<stores, faults, history, mishaps>>

\* Slip: one exporter is enough.
AfterFirst(this) == Remaining(this.batch)

\* After an exporter: the next one, or the next tenant
NextExporter(this) ==
    IF this.at = Len(this.to) THEN Remaining(this.batch)
    ELSE [op |-> "exporting", batch |-> this.batch, group |-> this.group, to |-> this.to,
          at |-> this.at + 1, failures |-> 0]

SendSucceeds(r) ==
    /\ req[r].op = "exporting"
    /\ delivered' = delivered \cup {<<e, req[r].to[req[r].at]>> : e \in req[r].group}
    /\ Suspend(r, NextExporter(req[r]))
    /\ UNCHANGED <<stores, faults, emitted, drained, mishaps>>

\* An attempt fails, whether or not the exporter has received the events.
Retry(r) ==
    /\ req[r].op = "exporting"
    /\ req[r].failures + 1 < MaxRetries
    /\ Suspend(r, [req[r] EXCEPT !.failures = @ + 1])
    /\ UNCHANGED <<stores, faults, history, mishaps>>

\* The last attempt fails, and deadLetter reads the dead letters.
GiveUp(r) ==
    LET this == req[r]
        Bury(copy) == Suspend(r, [op |-> "burying", batch |-> this.batch,
                                  group |-> this.group, to |-> this.to, at |-> this.at,
                                  copy |-> copy])
    IN
    /\ this.op = "exporting"
    /\ this.failures + 1 = MaxRetries
    /\ \/ Through /\ Bury(dlq)
       \/ dlq # {} /\ Lost /\ Bury({})
    /\ UNCHANGED <<stores, history, mishaps>>

\* deadLetter
FinishBury(r) ==
    LET this == req[r] IN
    /\ this.op = "burying"
    /\ \/ dlq' = this.copy \cup this.group /\ Through /\ Distrust("dlq", this.copy # dlq)
       \/ dlq' = dlq /\ Lost /\ Distrust("dlq", TRUE)
    /\ Suspend(r, NextExporter(this))
    /\ UNCHANGED <<queue, durable, history>>

-----------------------------------------------------------------------------
Restart ==
    /\ Lost
    /\ req' = [r \in Requests |-> Idle]
    /\ UNCHANGED <<stores, history, mishaps>>

Init ==
    /\ queue = Backlog /\ dlq = {} /\ durable = ToSet(Backlog)
    /\ req = [r \in Requests |-> Idle]
    /\ faults = 0
    /\ emitted = ToSet(Backlog) /\ drained = {} /\ delivered = {}
    /\ mishaps = {}

Resume(r) ==
    \/ AppendDurable(r) \/ FinishEnqueue(r)
    \/ FinishDrain(r) \/ (\E t \in Tenants, c \in Configs : NextTenant(r, t, c))
    \/ SendSucceeds(r) \/ Retry(r) \/ GiveUp(r) \/ FinishBury(r)

Next ==
    \/ \E r \in Requests, e \in Events : StartEmit(r, e)
    \/ \E r \in Requests : StartDrain(r) \/ Resume(r)
    \/ Restart

Spec == Init /\ [][Next]_vars

-----------------------------------------------------------------------------
Emitting(r, e) == req[r].op \in EmitSteps /\ req[r].event = e
Flushing(r, e) ==
    \/ req[r].op \in FlushSteps \ {"draining"} /\ e \in req[r].batch
    \/ req[r].op \in {"exporting", "burying"} /\ e \in req[r].group

\* e is on its way or among the dead letters.
Accounted(e) ==
    \/ e \in ToSet(queue) \cup dlq
    \/ \E r \in Requests : Emitting(r, e) \/ Flushing(r, e)

\* While nobody writes an old copy of the queue back and no command on it is lost, an
\* event is on its way once: it is queued once, drained by one flush, and does not
\* come back (enqueue, drain).
EachOnce ==
    "queue" \notin mishaps =>
        /\ IsInjective(queue)
        /\ ToSet(queue) \cap drained = {}
        /\ \A e \in Events, r, s \in Requests :
              /\ Emitting(r, e) => e \notin ToSet(queue) \cup drained
              /\ Flushing(r, e) /\ Flushing(s, e) => r = s

\* Of an event that is queued, dead-lettered or exported Postgres has a record, also
\* after a crash between the steps of emitAsync.
DurableFirst ==
    "durable" \notin mishaps =>
        /\ drained \cup ToSet(queue) \cup dlq \subseteq durable
        /\ \A e \in Events, x \in Exporters : <<e, x>> \in delivered => e \in durable

\* Why an event may drop out of the pipeline in a step
Finished(e) ==
    \E r \in Requests :
        /\ req[r].op \in {"exporting", "burying"} /\ e \in req[r].group
        /\ \A x \in ToSet(req[r].to) : <<e, x>> \in delivered' \/ "dlq" \in mishaps
Unwanted(e) ==
    \E r \in Requests, c \in Configs :
        /\ NextTenant(r, TenantOf[e], c)
        /\ c.to = <<>> \/ e \notin c.keeps
Overflowed(e) ==
    /\ Len(queue) >= MaxQueue /\ e = Head(queue)
    /\ \E r \in Requests : req[r].op = "queueing" /\ req'[r] = Idle
Overwritten ==
    \E r \in Requests :
        /\ req'[r] # req[r]
        /\ \/ req[r].op \in {"queueing", "draining"} /\ req[r].copy # queue
           \/ req[r].op = "burying" /\ req[r].copy # dlq

\* An event leaves the pipeline only when all exporters of its tenant have it, when the
\* tenant does not want it, as the oldest of a full queue, in a crash or a lost command,
\* or when a request writes back a copy older than the value it replaces: one failing
\* exporter or tenant costs no other its events (flush, runExporter, deadLetter).
LossesExplained ==
    [][\A e \in Events :
          Accounted(e) /\ ~Accounted(e)' =>
              \/ Finished(e) \/ Unwanted(e) \/ Overflowed(e) \/ Overwritten
              \/ faults' > faults]_vars
=============================================================================
