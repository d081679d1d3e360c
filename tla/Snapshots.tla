----------------------------- MODULE Snapshots -----------------------------
(***************************************************************************)
(* How MemoryStore's arrays reach Postgres and Dragonfly, and what comes   *)
(* back after a crash: MemoryStore, PostgresService.saveSnapshot and       *)
(* loadSnapshot, with three users of the arrays whose correctness depends  *)
(* on it: the task ledger, the audit chain and the nodes' nonces.          *)
(*                                                                         *)
(* persist is called and not awaited.  It copies the arrays and not the    *)
(* objects in them: a job holds the members of the moment of the call, and *)
(* the rows and the JSON are made from the objects' fields of the moment   *)
(* of the write.  Postgres' jobs run one after the other, each a           *)
(* transaction that writes nonces and tasks before audit events and        *)
(* ledger entries; its failure is logged and forgotten, and the job's JSON *)
(* goes to Dragonfly either way.                                           *)
(*                                                                         *)
(* Abstractions: a task has at most one ledger entry, named by the task; a *)
(* status is draft until sign, whatever precedes it; an audit event is its *)
(* number, and a hash lists the events it covers, so that equal hashes     *)
(* mean equal events.  Nonces are numbered in the order of their issue and *)
(* do not expire.  Postgres is configured; its tables exist.               *)
(***************************************************************************)
EXTENDS Naturals, Sequences, SequencesExt

CONSTANTS
    Tasks,        \* ids of update tasks
    LedgerLimit,  \* ledger rows loaded (5000 in the code)
    AuditLimit,   \* audit rows loaded (1000)
    NonceCap,     \* nonces kept and loaded (5000)
    MaxOps,       \* bound on the operations
    MaxJobs,      \* bound on the jobs that wait for Postgres when one starts
    MaxRestarts,  \* bound on the crashes
    MaxFaults     \* bound on the failures of the two stores

ASSUME LimitsAssumption == LedgerLimit \in Nat /\ AuditLimit \in Nat /\ NonceCap \in Nat
ASSUME BoundsAssumption == /\ MaxOps \in Nat /\ MaxJobs \in Nat
                           /\ MaxRestarts \in Nat /\ MaxFaults \in Nat

VARIABLES
    status,     \* status[t]: the task's status, "none" when it is not in memory
    ledger,     \* taskLedger: the tasks of its entries, by createdAt, newest first
    live,       \* live[t]: the state of t's entry, FALSE once revoked
    linked,     \* tasks whose ledgerEntryId is set
    nonces,     \* nodeChallengeNonces, newest first
    used,       \* nonces whose consumedAt is set
    audit,      \* auditEvents, newest first
    queue,      \* saveQueue: the jobs Postgres has not begun
    writing,    \* the job in its transaction
    caching,    \* jobs whose JSON is on its way to Dragonfly
    postgres,   \* what Postgres has committed
    dragonfly,  \* Dragonfly's snapshot
    ops, restarts, faults,  \* spent of the bounds
    savedLast,  \* history: this process's last transaction, if any, committed
    issued,     \* history: the number of nonces issued
    accepted,   \* history: envelopes accepted on each nonce, up to 2
    forgotten   \* history: entries, links, nonces and uses that a restart did not restore

arrays == <<status, ledger, live, linked, nonces, used, audit>>
work == <<queue, writing, caching>>
stores == <<postgres, dragonfly>>
bounds == <<ops, restarts, faults>>
history == <<savedLast, issued, accepted, forgotten>>
vars == <<arrays, work, stores, bounds, history>>

Statuses == {"none", "draft", "signed", "revoked"}

NoHash == <<>>
NothingWritten == [job |-> "none"]
NoSnapshot == [status |-> "none"]

Newest(s, limit) == SubSeq(s, 1, IF Len(s) < limit THEN Len(s) ELSE limit)

Init ==
    /\ status = [t \in Tasks |-> "draft"]
    /\ ledger = <<>> /\ live = [t \in Tasks |-> TRUE] /\ linked = {}
    /\ nonces = <<>> /\ used = {} /\ audit = <<>>
    /\ queue = <<>> /\ writing = NothingWritten /\ caching = <<>>
    /\ postgres = [status |-> status, ledger |-> <<>>, live |-> live,
                   nonces |-> <<>>, used |-> {}, audit |-> <<>>]
    /\ dragonfly = NoSnapshot
    /\ ops = 0 /\ restarts = 0 /\ faults = 0
    /\ savedLast = TRUE /\ issued = 0 /\ accepted = <<>>
    /\ forgotten = [entries |-> {}, links |-> {}, nonces |-> {}, uses |-> {}]

-----------------------------------------------------------------------------
(* The audit chain *)

Hash(id, previous) == Append(previous, id)

\* Slip: the chain continues from the oldest event.
OldestHash(events) == IF events = <<>> THEN NoHash ELSE Last(events).hash

PreviousHash(events) == IF events = <<>> THEN NoHash ELSE Head(events).hash

\* createAudit
Audited(events, id) ==
    LET previous == PreviousHash(events)
    IN  <<[id |-> id, previous |-> previous, hash |-> Hash(id, previous)]>> \o events

\* verifyChain, with the running hash as a function of the position
VerifyChain(events) ==
    LET oldest == Reverse(events)
        running[i \in 0 .. Len(events)] ==
            IF i = 0 THEN NoHash
            ELSE IF oldest[i].hash # NoHash THEN oldest[i].hash
            ELSE Hash(oldest[i].id, running[i - 1])
    IN  \A i \in DOMAIN oldest :
          /\ oldest[i].hash # NoHash => oldest[i].hash = Hash(oldest[i].id, running[i - 1])
          /\ running[i - 1] # NoHash => oldest[i].previous = running[i - 1]

\* rowToAudit: Postgres has no columns for the hashes.
FromRow(event) == [id |-> event.id, previous |-> NoHash, hash |-> NoHash]

-----------------------------------------------------------------------------
(* Operations: each changes the arrays and calls persist, in one turn. *)

Job(members, events, kept) == [ledger |-> members, audit |-> events, nonces |-> kept]

\* Slip: a save that waits already is taken to cover the change.
Coalesced(jobs) == queue' = IF queue = <<>> THEN jobs ELSE queue
\* Slip: the newest save first.
Urgent(jobs) == queue' = Reverse(jobs) \o queue

Persist(jobs) == queue' = queue \o jobs

Operation ==
    /\ ops < MaxOps /\ Len(queue) < MaxJobs
    /\ ops' = ops + 1
    /\ UNCHANGED <<writing, caching, stores, restarts, faults, savedLast>>

\* sign: the entry and the status each with a persist, and the audit record.
Sign(t) ==
    /\ status[t] = "draft"
    /\ Operation
    /\ status' = [status EXCEPT ![t] = "signed"]
    /\ ledger' = <<t>> \o ledger
    /\ live' = [live EXCEPT ![t] = TRUE]
    /\ linked' = linked \cup {t}
    /\ audit' = Audited(audit, ops')
    /\ Persist(<<Job(ledger', audit, nonces), Job(ledger', audit', nonces)>>)
    /\ UNCHANGED <<nonces, used, issued, accepted, forgotten>>

\* Slip: only the status is revoked.
StatusAlone(t) == live

EntriesAfterRevoke(t) == IF t \in linked THEN [live EXCEPT ![t] = FALSE] ELSE live

\* revoke: a task with a ledgerEntryId needs its entry, live (else ledger.revoke
\* throws); one without leaves the ledger alone.
Revoke(t) ==
    /\ status[t] \in {"draft", "signed"}
    /\ t \in linked => t \in ToSet(ledger) /\ live[t]
    /\ Operation
    /\ status' = [status EXCEPT ![t] = "revoked"]
    /\ live' = EntriesAfterRevoke(t)
    /\ audit' = Audited(audit, ops')
    /\ Persist(<<Job(ledger, audit, nonces), Job(ledger, audit', nonces)>>)
    /\ UNCHANGED <<ledger, linked, nonces, used, issued, accepted, forgotten>>

\* Slip: the cap drops one too many.
KeptShort(all) == Newest(all, NonceCap - 1)

Kept(all) == Newest(all, NonceCap)

\* issueNonce
IssueNonce ==
    /\ Operation
    /\ issued' = issued + 1
    /\ accepted' = Append(accepted, 0)
    /\ nonces' = Kept(<<issued'>> \o nonces)
    /\ Persist(<<Job(ledger, audit, nonces')>>)
    /\ UNCHANGED <<status, ledger, live, linked, used, audit, forgotten>>

\* Slip: a nonce that is no longer known counts as a fresh one.
Unused(n) == n \notin used \/ n \notin ToSet(nonces)

Consumable(n) == n \in ToSet(nonces) \ used

\* verifyEnvelope: the nonce is consumed before the signature is looked at; a
\* good envelope is answered and audited in the same turn.
VerifyEnvelope(n, good) ==
    /\ Consumable(n)
    /\ Operation
    /\ used' = used \cup {n}
    /\ accepted' = IF good THEN [accepted EXCEPT ![n] = IF @ = 2 THEN 2 ELSE @ + 1] ELSE accepted
    /\ audit' = IF good THEN Audited(audit, ops') ELSE audit
    /\ Persist(<<Job(ledger, audit, nonces)>>
               \o (IF good THEN <<Job(ledger, audit', nonces)>> ELSE <<>>))
    /\ UNCHANGED <<status, ledger, live, linked, nonces, issued, forgotten>>

-----------------------------------------------------------------------------
(* The two stores *)

\* writeSnapshot's first half: the rows of nonces and of tasks, from the fields of now.
StartWrite ==
    /\ writing = NothingWritten /\ queue # <<>>
    /\ writing' = [job |-> Head(queue), status |-> status, used |-> used]
    /\ queue' = Tail(queue)
    /\ UNCHANGED <<arrays, caching, stores, bounds, history>>

\* Slip: normalizeSnapshot passes the ledger on without a copy of the array.
LedgerOfNow(job) == ledger

LedgerOf(job) == job.ledger

Rows(w) == [status |-> w.status, ledger |-> LedgerOf(w.job), live |-> live,
            nonces |-> w.job.nonces, used |-> w.used, audit |-> w.job.audit]

EndWrite ==
    /\ writing # NothingWritten
    /\ writing' = NothingWritten
    /\ caching' = Append(caching, writing.job)
    /\ UNCHANGED <<arrays, queue, dragonfly, ops, restarts, issued, accepted, forgotten>>

\* The second half, and the commit.
Commit ==
    /\ EndWrite
    /\ postgres' = Rows(writing)
    /\ savedLast' = TRUE
    /\ UNCHANGED faults

\* No connection, or a rollback: logged, and not tried again.
FailWrite ==
    /\ faults < MaxFaults
    /\ EndWrite
    /\ faults' = faults + 1
    /\ savedLast' = FALSE
    /\ UNCHANGED postgres

\* setJson, after the job's transaction
Cache ==
    /\ caching # <<>>
    /\ dragonfly' = [status |-> status, ledger |-> Head(caching).ledger, live |-> live,
                     linked |-> linked, nonces |-> Head(caching).nonces, used |-> used,
                     audit |-> Head(caching).audit]
    /\ caching' = Tail(caching)
    /\ UNCHANGED <<arrays, queue, writing, postgres, bounds, history>>

\* setJson without a connection drops the snapshot.
LoseCache ==
    /\ caching # <<>> /\ faults < MaxFaults
    /\ caching' = Tail(caching)
    /\ faults' = faults + 1
    /\ UNCHANGED <<arrays, queue, writing, stores, ops, restarts, history>>

-----------------------------------------------------------------------------
(* A crash and the start after it *)

\* loadSnapshot: the newest rows, in each table's columns; ledgerEntryId has none.
FromPostgres ==
    LET events == Newest(postgres.audit, AuditLimit)
    IN  [status |-> postgres.status, ledger |-> Newest(postgres.ledger, LedgerLimit),
         live |-> postgres.live, linked |-> {},
         nonces |-> Newest(postgres.nonces, NonceCap), used |-> postgres.used,
         audit |-> [i \in DOMAIN events |-> FromRow(events[i])]]

Empty == [status |-> [t \in Tasks |-> "none"], ledger |-> <<>>, live |-> live, linked |-> {},
          nonces |-> <<>>, used |-> {}, audit |-> <<>>]

\* onModuleInit: Postgres, else Dragonfly, else nothing; with the failures it takes.
\* Postgres is passed over without any: loadSnapshot orders six of its queries by
\* columns which the tables that ensureSchema creates do not have, so it succeeds
\* only on tables that were made otherwise.
Loads ==
    {[from |-> FromPostgres, failures |-> 0],
     [from |-> IF dragonfly = NoSnapshot THEN Empty ELSE dragonfly, failures |-> 0],
     [from |-> Empty, failures |-> 1]}

Restart ==
    /\ restarts < MaxRestarts
    /\ restarts' = restarts + 1
    /\ \E load \in Loads :
         LET from == load.from
         IN  /\ faults + load.failures <= MaxFaults
             /\ faults' = faults + load.failures
             /\ status' = from.status /\ ledger' = from.ledger /\ live' = from.live
             /\ linked' = from.linked /\ nonces' = from.nonces
             /\ used' = from.used /\ audit' = from.audit
             /\ forgotten' =
                  [entries |-> forgotten.entries
                               \cup (ToSet(postgres.ledger) \ ToSet(from.ledger)),
                   links |-> forgotten.links \cup (ToSet(from.ledger) \ from.linked),
                   nonces |-> forgotten.nonces \cup (ToSet(nonces) \ ToSet(from.nonces)),
                   uses |-> forgotten.uses \cup (used \ from.used)]
    /\ queue' = <<>> /\ writing' = NothingWritten /\ caching' = <<>>
    /\ savedLast' = FALSE
    /\ UNCHANGED <<stores, ops, issued, accepted>>

-----------------------------------------------------------------------------
Next ==
    \/ \E t \in Tasks : Sign(t) \/ Revoke(t)
    \/ IssueNonce
    \/ \E n \in DOMAIN accepted, good \in BOOLEAN : VerifyEnvelope(n, good)
    \/ StartWrite \/ Commit \/ FailWrite
    \/ Cache \/ LoseCache
    \/ Restart

Spec == Init /\ [][Next]_vars

-----------------------------------------------------------------------------
(* Properties *)

Event == [id : Nat, previous : Seq(Nat), hash : Seq(Nat)]

Jobs == [ledger : Seq(Tasks), audit : Seq(Event), nonces : Seq(Nat)]

Tables == [status : [Tasks -> Statuses], ledger : Seq(Tasks), live : [Tasks -> BOOLEAN],
           nonces : Seq(Nat), used : SUBSET Nat, audit : Seq(Event)]

Arrays == [status : [Tasks -> Statuses], ledger : Seq(Tasks), live : [Tasks -> BOOLEAN],
           linked : SUBSET Tasks, nonces : Seq(Nat), used : SUBSET Nat, audit : Seq(Event)]

Writing == [job : Jobs, status : [Tasks -> Statuses], used : SUBSET Nat]

Memory == [status |-> status, ledger |-> ledger, live |-> live, linked |-> linked,
           nonces |-> nonces, used |-> used, audit |-> audit]

TypeOK ==
    /\ Memory \in Arrays
    /\ queue \in Seq(Jobs) /\ caching \in Seq(Jobs)
    /\ writing \in Writing \cup {NothingWritten}
    /\ postgres \in Tables
    /\ dragonfly \in Arrays \cup {NoSnapshot}
    /\ ops \in 0 .. MaxOps /\ restarts \in 0 .. MaxRestarts /\ faults \in 0 .. MaxFaults
    /\ savedLast \in BOOLEAN
    /\ issued \in Nat
    /\ accepted \in [1 .. issued -> 0 .. 2]
    /\ forgotten \in [entries : SUBSET Tasks, links : SUBSET Tasks,
                      nonces : SUBSET Nat, uses : SUBSET Nat]

Coherent(s) ==
    \A t \in ToSet(s.ledger) :
        /\ s.status[t] # "draft"
        /\ s.status[t] = "revoked" => ~s.live[t] \/ t \in forgotten.links

\* What either store holds is made of members and fields of different moments,
\* and may have a signed task without its entry; but it has no entry whose task
\* is a draft again, to be signed a second time, and no revoked task with a live
\* entry, unless the task was revoked after a restart had lost its ledgerEntryId.
SavedTogether ==
    /\ Coherent(Memory)
    /\ Coherent(postgres)
    /\ dragonfly # NoSnapshot => Coherent(dragonfly)

\* Once nothing waits, and the last transaction of this process has committed,
\* Postgres has all that memory has: no job, however old its copies, undoes a
\* later one, and no change is left without a job.
SettledIsSaved ==
    queue = <<>> /\ writing = NothingWritten /\ savedLast =>
        /\ postgres.status = status /\ postgres.ledger = ledger
        /\ \A t \in ToSet(ledger) : postgres.live[t] = live[t]
        /\ postgres.nonces = nonces /\ postgres.audit = audit
        /\ postgres.used \cap ToSet(nonces) = used \cap ToSet(nonces)

\* Ledger entries leave Postgres only as a start left them out: because it read
\* Dragonfly's snapshot or none, or at the limit on the rows.
LedgerKept ==
    [][ToSet(postgres.ledger) \ ToSet(postgres'.ledger) \subseteq forgotten.entries]_vars

\* A nonce is accepted twice only when a restart forgot that it had been used;
\* neither the cap nor a bad signature opens it again.
NonceOnce == \A n \in DOMAIN accepted : accepted[n] = 2 => n \in forgotten.uses

\* A nonce is out of memory only after as many younger ones as are kept, or by a
\* restart.
NoncesKept ==
    \A n \in DOMAIN accepted :
        n \notin ToSet(nonces) => issued - n >= NonceCap \/ n \in forgotten.nonces

\* The audit chain verifies until the second event beside one that was loaded
\* from Postgres, and not after it.
ChainVerifies ==
    VerifyChain(audit) <=> Len(audit) < 2 \/ \A i \in DOMAIN audit : audit[i].hash # NoHash

=============================================================================
