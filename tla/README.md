# A verification of the 1Patch management server

1Patch is a patch management control plane: one NestJS process that accepts
update tasks from administrators and from a rules engine, has them scanned,
approved and signed into a ledger, and hands them to backend nodes, which relay
them to clients. This directory holds TLA+ modules translated from its source
(`src/src/`), TLC configurations that check them on small instances, and proofs
of their main properties for every instance, checked by TLAPS.

The process is single-threaded: a handler runs alone between two `await`s. What
makes the system hard is what happens in the `await`s (two requests on one task,
one challenge, one node), between requests (late and repeated results, lost
answers, revocations, policies that change), and at a crash, since every state
lives in the arrays of `MemoryStore` and is written out by unawaited snapshots.

## 1. Inventory

| Component | State | Operations | Hard behaviour | Correct when |
|---|---|---|---|---|
| Task authorization (`tasks/task-authorization.service.ts`, `tenant-policy.service.ts`, scanners) | tasks: status, scan result, approvals, ledger entry id; tenant policies | createDraft, runSecurityScan, approve, sign, autoFinalizeAfterScan, promoteToExecutable, revoke, startup migration | scans and approvals suspended at an await; late scans; policy changes; crash before finalization | nobody approves twice; no signature around the approvers; blocked tasks are not signed; released tasks are due; revocation reaches the ledger |
| Task ledger (`tasks/task-ledger.service.ts`) | entries, active or revoked | create, revoke, verify | two entries of one task; two ways to revoke | append-only, revocation final |
| Dispatch (`tasks/tasks.controller.ts`) | owner, dispatch time | pendingForNode, result | lost answers, stale dispatches, failover, late results, revoked or expired entries | nothing early; nothing revoked or finished but by a new signature or a load of older state; a node has its five minutes; nothing left behind |
| Kill switch (`tasks/kill-switch.service.ts`) | one record per tenant and one global | activate, deactivate, push to nodes | precedence of the records; lost and reordered pushes | nothing is dispatched while it is on; nodes learn the last state |
| MFA challenges (`auth/mfa-challenge.service.ts`) | records in Dragonfly | issue, verify, consume | read-then-write against an external store, outages | a challenge pays for one approval, of the user who proved it |
| Node routing (`nodes/node-routing.service.ts`) | policies, decisions | route, setPolicy | standing read at dispatch | unavailable nodes get nothing new |
| Node trust (`nodes/node-trust.service.ts`, `node-enterprise.service.ts`) | trust score, health, quarantine, quarantine events | health reports, penalties, quarantine, clear, automatic recovery | long sequences of reports, penalties and recoveries | quarantined exactly while an event is open; low trust is quarantined; incidents wait for an operator |
| Node enrollment and certificates (`nodes/nodes.service.ts`, `vault/`) | nodes, one-time tokens, certificate serials | createEnrollment, reEnroll, register, renewCert, heartbeat, removeNode | awaits on bcrypt, Vault and the node between check and effect | one registration per token; one live certificate; only the named node is removed |
| Node envelopes (`nodes/node-crypto.service.ts`) | nonces | issueNonce, verifyEnvelope | 5000 nonces are kept; snapshots lag | a nonce is accepted once |
| SIEM (`siem/`) | chain head, queue, log, dead letters | emit, drain, flush, retry | concurrent read-modify-write of the queue, forked chain | nothing lost or exported twice, one chain |
| Audit (`audit/`, `MemoryStore.createAudit`) | hash chain | record, verifyChain | only the newest 1000 events are loaded after a restart | the chain verifies |
| Storage (`storage/`) | arrays, Postgres rows, Dragonfly's snapshot | persist, saveSnapshot, loadSnapshot | unawaited jobs that copy members and objects at different moments, two stores, crash | what a store holds fits together; nothing saved is undone by an older job |
| Authentication (`auth/auth.service.ts`) | users, lockout, MFA attempts, revoked tokens | createOwner, login, verifyMfa, enableMfa, logout | awaits on bcrypt and Dragonfly | failures lock; one owner; a challenge gives one session and few guesses |
| Single sign-on (`auth/sso.service.ts`) | providers, states and handoffs in Dragonfly, linked accounts | initiateFlow, handleCallback, completeHandoff, providers | read-then-delete of keys, accounts created around awaits | one session for a flow; one account for an address |
| Rules (`rules/rules.service.ts`) | rules, executions, created tasks | create, update, trigger, triggerEvent, simulate | concurrent executions against limits | limits and conflicts hold |
| Agent (`agent/agent.controller.ts`) | client enrollments, devices | bootstrap, syncNodeEvents | none: a handler runs in one turn | use counts hold |
| Signing, setup, admin, RBAC, posture, devices, apps, packages, dashboard, catalog | tables | record keeping, protocol text, user interface | little | mostly not modelled; see section 6 |

The scanners, the ledger and the policies are called by the pipeline in the same
turn; dispatch calls promotion, routing, the kill switch and the ledger in one
turn of a node's poll; approvals call the challenge store; the rules engine and
the device, app and package endpoints create tasks that are signed automatically.
Every component changes arrays of `MemoryStore` and calls `persist` without
waiting for it.

`PROJECT.json` lists every hazard found in the code at its line, with the
properties that cover it.

## 2. Plan

Order of the modules, the most important behaviour first:

1. `TaskAuthorization`, `AppendOnlyLedger` (the abstract ledger) and their proofs: done.
2. `TaskDispatch` and its proofs: done.
3. `MfaChallenge` and its proofs: done.
4. `NodeTrust` and its proofs: done.
5. `NodeRegistry` and its proofs: enrollment tokens, certificates at Vault, removal by
   index: done.
6. `SiemPipeline` and its proofs: emission, queue, export and dead letters over a store
   of single commands: done.
7. `RuleEngine` and its proofs: done.
8. `Snapshots` and its proofs: what two stores hold of arrays saved by unawaited jobs,
   what a crash brings back, the nonces and the audit chain: done. `TaskAuthorization`,
   `TaskDispatch` and `RuleEngine` restart from what it says comes back.
9. `Login` and its proofs: creation of accounts, lockout, second factor: done.
10. `SingleSignOn` and its proofs: done.

Considered and left out: the push of the kill switch (its receiver is not in the
repository), client enrollment (one turn a handler), the SIEM events' hash fields
(nothing verifies them), and the risk arithmetic of `security-gate.service.ts` (a sum
of constants against a threshold, which unit tests reach).

Runs stay few: one passing run per module with every property of it, and a violating
run for each of the two disagreements between the code and a promise in it that take
several actors to show; the others are listed under "Known without a run". Theorems:
type correctness and every safety and action property the passing runs check.

## 3. The modules

In every module a handler, or the part of it between two `await`s that matter, is
one action; an `await` between a check and its effect splits a handler into a start
and a finish, with the suspended request in a slot of `req`. `AppendOnlyLedger`
apart, every module keeps a few definitions commented as a "slip" beside the one
they vary: a plausible mistake in that code, named in `PROJECT.json` under
"mutants" with the property that notices it.

The proofs of a module are in one of its own. Two pairs of modules share one, which
extends both: `NodeProofs` has `NodeRegistry` and `NodeTrust`, `ChallengeDispatchProofs`
has `MfaChallenge` and `TaskDispatch`. This is why the second of each pair names its
specification `TrustSpec` and `DispatchSpec`, and why its variables' tuple, its actions
and its constants do not share names with the first's.

### TaskAuthorization

| Variable | Code |
|---|---|
| `status`, `scan`, `approvals`, `entry` | `UpdateTask.status`, `.securityScanResult`, `.approvals`, `.ledgerEntryId` |
| `ledger` | `MemoryStore.taskLedger`, oldest first |
| `policy` | the tenant's `TenantPolicy` |
| `req` | scans waiting for the scanners, approvals waiting for the challenge store, callers about to finalize |
| `delivered` | history: tasks some node has had |

`StartScan`/`FinishScan` split `runSecurityScan` at its scanners,
`StartApprove`/`FinishApprove` split `approve` at `consumeVerifiedChallenge`, and
`AutoFinalize` is what the callers of an automatic scan do once it has resolved.
`FinishScan` writes without looking at the status again, as the code does, so a
scan may end on a task that was revoked or signed meanwhile.

`Restart` drops the suspended requests and loads either Dragonfly's snapshot
(`LoadSnapshot`, which has every field) or the rows of Postgres (`LoadRows`), whose
table `update_tasks` has no columns for the scan, the approvals and the ledger
entry's id. `blocked` and `overtaken` are history: tasks whose last scan found a hard
block, and those of which an approval was waiting for the challenge store at that
moment. `HardBlocksHold` says of the former, but for the latter, that none gets past its
scan. `stripped` and `reopened` are history too: tasks that lost such a field, and tasks that had an entry when the end of a scan or an approval took them back before
their signature (`TakenBack`). These can be signed a second time, and `revoke` knows the
newest entry only, so that an earlier one may stay live behind a revoked task;
`RevokedTaskHasNoLiveEntry` says, of every entry of the ledger, that there is no other
way, and that the newest is never left. The startup migration of `onModuleInit` is not part of it:
Nest starts all `onModuleInit` hooks together, `MemoryStore` awaits its stores in its
own, and the migration runs over the empty arrays (`task-authorization.service.ts:432`,
`memory.store.ts:62`).

Abstractions. A risk score is high (70 and more) or low. Time is two facts about a
ledger entry: whether its `notBefore` has passed (`due`) and whether its
`expiresAt` has (`expired`). They vary independently because
`minimumExecutionDelay` and the lifetime are independent, unvalidated numbers.
Hashes and signatures are taken to verify: no handler rewrites a hashed field.
Tenants share nothing but arrays, so one is enough. A restart loads the latest state
of the ledger and the tasks; which earlier moment a store may hold is the question of
`Snapshots`.

### AppendOnlyLedger

What the ledger promises: entries are added at the end, their contents never
change, and an entry goes from active to revoked only. `TaskAuthorization` is
shown to implement it under the mapping `log <- Log` (`LedgerAppendOnly`).

### TaskDispatch

| Variable | Code |
|---|---|
| `status`, `owner` | `UpdateTask.status`, `.nodeId` |
| `stale` | the test of five minutes on `dispatchedAt`, which stays behind after a result |
| `entry` | the ledger entry `ledgerEntryId` names: *none*, *early*, *open*, *closed* by time, *void* when revoked or not in the ledger |
| `pending` | scans and approvals of the task suspended at an `await` |
| `standing` | what routing and failover read of a node: *eligible*; *passive*, which routing would not choose but failover leaves alone; *unavailable* |
| `kill` | the tenant's record and the global one, with the precedence of `getState` |
| `delivered` | tasks of which some node has a bundle |
| `saved` | what a restart loads |
| `ended` | history: revoked or finished since the latest signature, or with its entry withdrawn |

`Poll(n)` is the whole of `pendingForNode`: it resets n's stale dispatches,
promotes every due task, moves tasks of unavailable nodes to eligible ones, signs
what has no entry (`SignedOnTheSpot`), and answers with what n owns, unless the kill
switch is on. The answer may be lost on the way. Tasks do not influence each other in
a poll.

The pipeline appears as far as dispatch can tell. `StartRequest` and `FinishRequest` are
scans and approvals around their `await`s: they end by overwriting the status,
whatever it has become (`task-authorization.service.ts:196-197`, line 265), so a task that is out, revoked or
finished can become *ready* (security_scanned or mfa_approved) again and be signed
anew by `SignTask`. Whether its approvals, its scan and its policy allow the signature is
`TaskAuthorization`'s question; here any ready task may be signed, which includes more
than the code does.

`Save` is the landing of a snapshot: the tasks' fields of that moment, with a ledger that
was copied when `persist` was called, so that an entry written since is missing from
it. `DispatchRestart` loads the last save, whichever moment it is of: a withdrawn
entry may be active again and a revoked task executable. From Postgres' rows the
tasks come without `ledgerEntryId`, and the next poll signs the executable ones on the
spot, kill switch or not. Owners, times of dispatch and kill switch records are any
after a restart, which includes all older ones. The two stores are one `saved` here: which
of them holds what is the question of `Snapshots`. Time that had passed for a task may pass again after
a restart, which adds behaviours and removes none.

### MfaChallenge

`Issue`, `StartVerify`/`FinishVerify` and `StartConsume`/`FinishConsume` follow the
single commands that `MfaChallengeService` sends to Dragonfly. With `Outages` a
write or a deletion may be lost without notice, as `DragonflyService` swallows
errors. `proven`, `uses` and `disturbed` are history; a challenge is disturbed once
two requests overlapped on it or its deletion was lost. A challenge id is random and never
repeats. `Expire` is the record's time to live, and it may run out at any moment.

### NodeTrust

A node's status, health, trust score, quarantine and unresolved quarantine events,
under signed health reports, penalties for bad envelopes and failed attestations,
the operator's clearance, registration, heartbeats and listings. None of these
handlers awaits between its first read and its last write of these fields. A
health report is reduced to its total deduction, the ceiling put on the score by
the node's age, findings and URL, and its worst component. `seen` says that the
node has registered once (`firstSeenAt`): only then does it hold the certificate
its reports need. Reports that break the handler half-way (missing fields) are not
modelled.

### NodeRegistry

| Variable | Code |
|---|---|
| `list` | `MemoryStore.backendNodes`, as node ids in their order |
| `token` | `enrollmentTokenHash` as its generation, and `enrollmentTokenUsedAt` |
| `serial` | `tlsCertSerial`, as the certificate's number at Vault |
| `vault` | the certificates the Vault authority has issued |
| `req` | requests at an `await`: bcrypt, a revocation, an issue, the last call to a removed node |
| `accepted`, `removed`, `disturbed` | history |

`register` is `StartRegister`, `FinishCompare`, then `FinishRevoke` when a
certificate is on record, then `FinishIssue`; `renewCert` and `removeNode` share
the last steps. Vault may do or not do what it is asked, and its answer may be
lost, independently; `Restart` ends every suspended request where it is. A
handler goes on with what it read before its `await`: the serial to revoke, the
position to remove.

The properties speak of nodes outside `disturbed`: a node enters that set when two
requests on it overlap, when Vault fails one of them, when the server restarts
under one, or when its removal overlaps another removal. This says exactly how
far the README's claims reach ("Enrollment tokens are one-time use", "Certs are
revoked immediately when a node is decommissioned"): for a node whose requests come
one after the other, whatever the rest of the fleet does meanwhile. Two
registrations that overlap both pass the comparison with one token, and a node
renewing while it is removed keeps a valid certificate.

### SiemPipeline

| Variable | Code |
|---|---|
| `queue`, `dlq` | the values of `1patch:siem:queue` and `1patch:siem:dlq` in Dragonfly |
| `durable` | the table `siem_events` |
| `req` | emissions and flushes at an `await`, with the copy or the batch they hold |
| `faults` | restarts and lost commands so far, up to `MaxFaults` |
| `emitted`, `drained`, `delivered`, `mishaps` | history |

`StartEmit`, `AppendDurable`, `FinishEnqueue` are `emitAsync`; `StartDrain`,
`FinishDrain`, `NextTenant` and then `SendSucceeds`, `Retry`, or `GiveUp` and
`FinishBury` for each exporter are `flush`. Flushes may overlap, since the timer does
not wait for the last one and administrators flush by hand. Every write to Dragonfly
replaces a whole value by one made from a copy read before, so a write made from an
old copy loses or doubles what came in between. Two events emitted in one turn do
this regularly: both read the same queue. `LossesExplained` states all the
ways in which an event may drop out, this one among them, and that there is no
other; `EachOnce` speaks of runs without such a write.

Abstractions: dead letters and the events of a flush are sets, and a flush takes its
tenants in any order. The code takes them in the order of their first events; no
property tells two orders apart.

Left out: the hash fields and the append log, which nothing verifies or reads, the
health table, and the exporters' protocols.

### RuleEngine

| Variable | Code |
|---|---|
| `enabled`, `counted` | `PatchRule.enabled`, the entries of `executionStats.taskCreatedAt` within the hour |
| `tasks` | `MemoryStore.tasks`: device, what `hasActiveConflict` compares, and whether the status is an active one |
| `exec` | requests in `triggerEvent`, `executeRule` and `applyAction`: the event's further rules, the devices to come, the device's plan and the place in it |
| `overlapped` | history: rules one of whose executions was admitted while another still had tasks to create |

A request that runs rules waits at the scan of every task it creates, and resumes
through a promise after the scan, after each action and after each rule. Between
two such points it is `OnLoop`, and `Free` keeps everybody else from moving until it
waits again; so an action is one turn of the loop of `executeRule` or `applyAction`, and
interleavings occur where the code has them. `Trigger` and `TriggerEvent` are the two
requests, `SimulateForDevice` the admission of one device by `withinRateLimit`,
`AvailableNode`, `SkipConflict` and `CreateTask` what `applyAction` does next,
`FinishScan` and `Resume` the end of the scan and what follows it. `Close` is every way
in which a task leaves the active states. `Suspend` and `FinishLate` are the scans
and approvals other requests have running, which put a task back among the active
ones (`revived`) when they end after it was closed.

Abstractions. What a rule makes of a device (conditions, inventory, actions) is a
choice among `Plans`: task-creating actions in order, each a lookup of a node and
then its drafts. `simulateForDevice` computes them before the first `await` and
`applyAction` does not look again, so the choice is made once. The hour is a
number: recorded creations leave it one by one, at any time. A scan does not
throw: the scanners catch their errors.

`Restart` drops the suspended requests; rules loaded from their rows, which have no
column for `executionStats`, have counted nothing, so `counted` may be 0 afterwards.

Two consequences of the code show in the actions and break no promise of the
documents: a rule disabled while an event's rules run ends the whole request
(`rules.service.ts:186`, called from line 146), and a crash forgets tasks that were
created and not yet counted. An action `block_task_creation` drafts nothing and stops
nothing.

### Snapshots

| Variable | Code |
|---|---|
| `status`, `ledger`, `live`, `linked` | `tasks`, `taskLedger` with the states of its entries, tasks with a `ledgerEntryId` |
| `nonces`, `used`, `audit` | `nodeChallengeNonces`, those with `consumedAt`, `auditEvents`, each newest first |
| `queue`, `writing` | `PostgresService.saveQueue`: the jobs that wait, and the one in its transaction |
| `caching` | jobs whose JSON is on its way to Dragonfly |
| `postgres`, `dragonfly` | what the two stores hold |
| `savedLast`, `issued`, `accepted`, `forgotten` | history |

`Sign`, `Revoke`, `IssueNonce` and `VerifyEnvelope` are the users of the arrays whose
correctness depends on what is saved; each calls `persist` as often as the code does.
`normalizeSnapshot` copies the arrays and not the objects in them, so a job holds the
members of the moment of the call, while the fields are read when the rows are made:
nonces and tasks at the start of the transaction (`StartWrite`), ledger and audit rows
before its end (`Commit`). `FailWrite` is a rollback or a lost connection, which is logged
and forgotten; the job's JSON goes to Dragonfly after either (`Cache`), or is dropped
(`LoseCache`). `Restart` loads what `Loads` admits: the rows, which have no columns for
`ledgerEntryId` and the two hashes; else Dragonfly's snapshot; else nothing. Postgres is
passed over even without a failure, since `loadSnapshot` fails on the tables that
`ensureSchema` makes (see "Known without a run").

Abstractions: one ledger entry for a task; a status is draft until it is signed; a
hash lists the events it covers; nonces are numbered and do not expire.

### Login

| Variable | Code |
|---|---|
| `users` | `MemoryStore.users`, oldest first: address, and whether made by setup |
| `failed`, `locked`, `disabled`, `mfa` | `failedAttempts`, `lockedUntil`, `disabled`, `mfaEnabled` of the account logins are to |
| `tries`, `spent` | Dragonfly's counter and marker of each challenge token |
| `req` | requests at the hash of a password, the comparison, `persist`, or a store command |
| `raced`, `guesses`, `checks`, `granted`, `lossy` | history |

`CreateOwner` and `CreateUser` go up to the hash, `FinishCreate` stores the account.
`StartLogin` tests the lock and goes to the comparison; `WrongPassword` and
`RightPassword` end it without a second look at the lock. `IssueChallenge` follows the
`persist`. `Try`, `Consume` and `Grant` are `verifyMfa` at its three commands, each of which a
lost connection may skip: `increment` then answers nothing and the code takes it for
1, `setIfAbsent` answers that the mark is new.

Abstractions: a password and a code are right or wrong as it happens; a challenge
token expires before its keys; logout and the revocation of sessions are left out.

### SingleSignOn

| Variable | Code |
|---|---|
| `providers` | `MemoryStore.ssoProviders`: listed or deleted, and the settings |
| `flows`, `handoffs` | Dragonfly's keys `1patch:sso:state:*` and `1patch:sso:handoff:*`, stored or gone |
| `accounts` | `MemoryStore.users` with their `oauthLinks` |
| `req` | callbacks at the state's deletion, the exchange, `persist` and the handoff's key; completions at a deletion; `createUser` at its hash |
| `sessions`, `raced`, `loose` | history |

`Initiate` is `initiateFlow`; `StartCallback`, `DropState`, then `LogIn` or `Provision` and
`FinishProvision`, then `SaveHandoff` are `handleCallback`; `StartComplete` and
`FinishComplete` are `completeHandoff`. A deletion may be skipped for want of a
connection, and a key may expire at any moment. `UpdateProvider` changes the object
that running callbacks hold, also when it then refuses the update. `Restart` keeps
any part of the accounts, Dragonfly's keys, and no provider: neither store gets any.

Abstractions: the exchange with the identity provider ends with any address or fails;
an identity is a provider and an address; a locked account is any outcome after the link.

## 4. What TLC checks

| Run | Instance | Properties |
|---|---|---|
| `authorization_mixed` | 1 task, 2 approvers, 2 suspended requests, 3 policies that an administrator switches between, 3 ledger entries, restarts | `DistinctApprovers`, `RevokedTaskHasNoLiveEntry`, `HardBlocksHold`, `ReleasedOnlyWhenDue`, `MfaTenantsNeedApprovals`, `LedgerAppendOnly` |
| `authorization_hardblock` | 1 task, 1 approver, 2 suspended requests, policies with MFA | `HardBlockRespected`, violated |
| `dispatch_polls` | 1 task, 1 node that polls and one that need not, any standing, the tenant's kill switch record, 1 late request, saves, restarts | `EndedStaysHome`, `SentOnlyWhenDue`, `UnavailableServedLast`, `PatienceBeforeRetry`, `ExecutableTasksGoOut` |
| `dispatch_deadnode` | 1 task, 1 node that polls and one that need not | `TasksLeaveDeadNodes`, violated |
| `mfa_racing` | 2 users, 2 challenges, 3 concurrent requests, a store that loses commands | `UsesAreProven`, `SingleUseUndisturbed` |
| `node_trust` | 1 node, 8 kinds of report, 3 penalties, threshold 30, initial trust 70 | `EventsMatch`, `LowTrustQuarantined`, `IncidentsWait`, `TrustRecovers` |
| `registry_lifecycle` | 2 nodes, 2 suspended requests, 2 tokens for each node, 2 certificates, a Vault that fails and loses answers, restarts | `TokensOnce`, `CertsRecorded`, `RemovedHasNoCert`, `RemovedByName` |
| `siem_flushes` | 3 events of 2 tenants, one left in the queue at the start, 2 suspended emissions or flushes, 2 exporters, 2 attempts, a queue and a batch of 2, one restart or lost command | `EachOnce`, `DurableFirst`, `LossesExplained` |
| `rules_overlap` | 2 rules, both on one event, 1 device, 1 key, 3 plans, 2 requests, a limit of 2, 3 tasks, 1 late scan or approval, restarts | `OneLiveTask`, `RateHeldWhenAlone` |
| `snapshots` | 2 tasks, 4 operations, 2 jobs waiting, limits of 1 ledger row, 2 audit rows and 1 nonce, 2 crashes, 1 failure of a store | `SavedTogether`, `SettledIsSaved`, `NonceOnce`, `NoncesKept`, `ChainVerifies`, `LedgerKept` |
| `login` | 2 addresses, 2 requests, a lock after 2 failures, 6 failures, 2 codes for a challenge, 3 accounts, 1 challenge, 4 verifications | `AccountsDistinct`, `GuessesBounded`, `OneSessionPerChallenge`, `CodesBounded` |
| `sso` | 1 provider with 2 settings, 1 address, 2 accounts, 2 flows, 2 handoffs, 2 requests, 2 sessions for a flow | `AddressesDistinct`, `LinksDistinct`, `OneSessionPerFlow` |

The type invariants are proved; no run spends a property on them.

Why these bounds are enough to be interesting:

- Two suspended requests on one task are what it takes for a check to go stale: two
  scans, or a scan and an approval, overlap, and the next may start when one has ended.
  Two approvers with two requests include the same user approving twice at once.
  Three ledger entries let a task be signed, scanned again late, and signed
  again. Policies cover no MFA, MFA with a higher requirement for high risk, and
  tinfoil. `MaxLedger` is the only bound on a counter, tested by `Room`.
- Tasks meet nowhere in a poll, so one task shows every interleaving of one; two
  nodes are what failover needs, and the second, which need not poll, may be dead. One
  late request (`MaxPending`) at a time is enough to take a task back
  any number of times, since the next may start once the task is ready. One `saved`
  copy is all a restart reads. `dispatch_deadnode` needs neither restarts (`Crashes`) nor
  the kill switch (`Scopes`). What holds for several tasks is proved.
- Nodes do not meet in `NodeTrust` either. The scores of one node run through
  every value the sample reports and penalties lead to, the threshold included.
- Two certificates (`MaxCerts`) are a renewal, or one certificate for each node; two
  tokens (`MaxTokens`) are a re-enrollment. Two requests make every overlap of two
  handlers, on one node or two.
- A backlog of one and two more events fill a queue of two and overflow it
  (`MaxQueue`), and a batch holds events of both tenants. Two requests make every
  overlap of an emission or a flush with another. Two attempts (`MaxRetries`) are
  the smallest number with a retry, and one fault (`MaxFaults`) may strike any
  command, or be a crash at any `await`.
- A limit of 2 and 3 tasks (`MaxTasks`) are the smallest at which overlapping
  executions exceed the limit; a plan of two drafts with one key meets the conflict
  check within one plan, the other execution or the operator between plans. One
  late scan or approval (`MaxLate`) may end several times. `RoomFor` tests the bound
  on tasks before a plan is admitted.
- `MaxUses` (2) is the smallest bound at which a second use shows.
- Four operations (`MaxOps`) sign and revoke a task, or issue and use nonces, beside an
  unrelated change; two waiting jobs (`MaxJobs`) with one in its transaction and others
  on their way to Dragonfly hold three moments at once. Two crashes (`MaxRestarts`)
  are a start that loads what an earlier start has written. The limits are the
  smallest at which a row, an event or a nonce is left out.
- A lock after two failures and two requests make the comparison that passes the
  lock; four verifications (`MaxTries`) exceed the two codes; six failures
  (`MaxFailed`) are three locks, and enough to exceed the bound on guesses were one
  missed; three accounts (`MaxUsers`) follow two creations that overlapped. One challenge is
  enough, since challenges share nothing.
- Two flows and two requests give two callbacks of one address, or one beside an
  administrator; a second address would only double what is said of the first. The
  two settings are an open provider and a closed one, since *enabled*
  and the rest are looked at in different steps. `MaxSessions` (2) is the smallest
  bound at which a second session shows.

Symmetry is used only in runs without a liveness property.

Fairness. `ExecutableTasksGoOut` and `TasksLeaveDeadNodes` assume that the nodes in
`Alive` keep polling, whatever their
standing, and that five minutes pass; nothing is assumed of the other nodes. Their
premise is that standings settle with a living node eligible, that no switch stays on
and that the server stays up.
`ExecutableTasksGoOut` has in its premise, too, that every node outside `Alive` counts as
unavailable. The code does not bring this about by itself: a node's status is lowered by
its own reports and by an administrator's `listNodes`
(`nodes.service.ts:276`), so a node that dies stays eligible until somebody looks.
`dispatch_deadnode` checks the property without this part and finds it violated.
`TrustRecovers` assumes a node whose problems are over and which keeps sending
reports. No fairness is assumed of scanners, administrators or approvers.

A task dispatched to a node that never polls again is *not* recovered by any code:
stale dispatches are reset only by polls of their own node. No document promises
it, so no property asks for it.

### Findings

Two runs end in a violation of something the repository says of itself:

- `authorization_hardblock`: with MFA on, a hard block stored while an approval
  waits for the challenge store does not stop the approval
  (`task-authorization.service.ts:244`). Nothing else takes a blocked task past its
  scan (`HardBlocksHold`, checked and proved).
- `dispatch_deadnode`: failover promises to move the tasks of a stale node
  (`tasks.controller.ts:465`) and reads its stored status, which nothing lowers when the
  node dies; its executable tasks stay with it.

Known without a run, found while the code was modelled:

- A crash between an automatic scan and its finalization leaves the task at
  security_scanned for good. The startup migration, which is there so that such tasks
  do not "sit unactionable forever" (`task-authorization.service.ts:447-450`), runs beside
  the load of the arrays and finds nothing to migrate (line 432,
  `memory.store.ts:62`).
- `consumeVerifiedChallenge` is called atomic (`mfa-challenge.service.ts:86`) and reads
  and deletes with two commands: two concurrent approvals have one challenge
  accepted twice. Only such overlaps and lost deletions do this
  (`SingleUseUndisturbed`, checked and proved).
- `removeNode` removes by a position it found before two `await`s, so when two
  removals overlap the second may remove a third node, or nobody
  (`nodes.service.ts:318`); `RemovedByName` is what remains true.
- A security incident that reaches a node already in quarantine for low trust
  records no event, and the next good report lifts the quarantine
  (`node-trust.service.ts:168`). An incident that *raised* the quarantine does wait for an
  operator (`IncidentsWait`).
- `renewCert` says the certificate is "revoked and replaced atomically"
  (`nodes.service.ts:212`); an issue that fails after the revocation leaves the revoked
  one on record.
- Expiry is tested at promotion only, so a task promoted in time goes out after its
  entry has expired (`tasks.controller.ts:507-512`, against the comment at line 495).
- A quarantined node that polls while no replacement is eligible still receives its
  tasks (`tasks.controller.ts:482`, against `docs/enterprise-node-architecture.md:65`);
  `UnavailableServedLast` is what remains true.
- Overlapping executions of one rule may exceed its hourly limit
  (`rules.service.ts:206`).
- A scan or an approval that ends late takes back a task that was signed, sent,
  revoked or finished meanwhile; it can be signed and sent a second time, and its
  earlier entry stays live when it is then revoked
  (`task-authorization.service.ts:196`, line 265). A restart that loads a save from before a
  revocation has the same effect (`memory.store.ts:183`). No document speaks of
  either; `RevokedTaskHasNoLiveEntry` and `EndedStaysHome` say that there is no other way.
- A tenant's own kill switch record, even an inactive one, hides the global one
  (`kill-switch.service.ts:44`).
- `loadSnapshot` orders six queries by `updated_at`, `reported_at`, `observed_at`, `scanned_at`
  and `attested_at` (`postgres.service.ts:141-151`); the tables `ensureSchema` makes have no
  such columns (lines 518-587). On them Postgres is never read back, a start takes
  Dragonfly's snapshot, and a start with neither deletes the rows at its first
  `persist`.
- The columns `property`, `operator`, `value` and `target_version` of `patch_rules` are not
  null, and a rule made of conditions has none of them: while there is one every
  save is rolled back (`postgres.service.ts:336`). This is `FailWrite`, as often as
  its bound allows.
- After a load from rows the audit chain does not verify, since the hashes have no
  columns (`postgres.service.ts:1040`, `audit.service.ts:47`): `ChainVerifies` says exactly
  when it does.
- Identity providers are saved in neither store (`memory.store.ts:109`, and
  `postgres.service.ts:1128-1157`), and `updateProvider` changes a provider before it refuses the
  change (`sso.service.ts:111-123`). The discovery document is cached by provider id for
  an hour, also when the discovery URL has changed (`sso.service.ts:473-485`). A callback
  tests the lock of an account and not whether it is disabled (`sso.service.ts:189`).
- The error after a failed push of the kill switch says the node learns the state
  from its next heartbeat (`kill-switch.service.ts:203`); no heartbeat answer has it.
  The payload pushed has its key id and signature filled in after it was hashed and
  signed.

## 5. What is proved

Proofs are checked by TLAPS for every value of the constants. They assume only
the named assumptions of the modules: finitely many tasks, well-formed policies,
some node, finitely many requests, tenants that list an exporter once, a delivery queue
that an earlier process left without repeated events, natural limits, settings and reports of their
types (an unhealthy component costs 25, a degraded one 8), and a quarantine
threshold no higher than the score 80 that a clearance restores and the initial
score. These last two are environment variables
(`NODE_QUARANTINE_TRUST_THRESHOLD`, `NEW_NODE_INITIAL_TRUST_SCORE`, by default 30
and 70) that the code does not validate; with a higher threshold a cleared node
would be below it and in service.

`TaskAuthorizationProofs`. The proofs rest on two summaries of a step.
`StepShape` says what any action does to a task's status and entry and to the
ledger, and `Evolves` that the ledger only grows or changes states; each
action is shown to have that shape once, and the invariants are proved from the
shape.

- `TypesInvariant`: `TypeOK` needs `ScanPresent` beside it, since the risk written
  to a ledger entry is a scan's only if a scan exists.
- `ApproversDistinct`: a check on the approvals in the same turn as the append.
- `ReleaseOnlyWhenDue`: inductive only together with `Bound`, that a task's entry is an
  entry of that task; otherwise one task's revocation could concern another's
  entry.
- `RevocationReachesLedger`: needs `SignedOnce`, that a task neither stripped nor
  reopened has no entry but the one it is bound to, since it was unsigned until
  then, and `NewestRevoked`, that the entry a revoked task is bound to is revoked.
- `MfaSignaturesApproved`: under MFA the only step that binds an existing task to
  an entry is `Sign`. What sign and dispatch do with a task that has lost its columns
  (`stripped`) is excepted, since its scan is forgotten.
- `LedgerIsAppendOnly`: the refinement of `AppendOnlyLedger`, step by step.
- `HardBlocksStop`: what a blocked task still has of its scan shows the block, so
  that no approval begins behind it; one that waits therefore began before, and its
  task is `overtaken`.

`ChallengeDispatchProofs`, of dispatch: `DispatchInv` says of the memory and of the saved copy
alike that what is executable or dispatched has no entry whose delay lies ahead
(`Due`) and that a task not yet created names no entry (`Unborn`), so that a restart
keeps both; and that what has ended shows it, by its status or by its entry, until a
late request makes it ready (`Ends`), so that no poll finds it on its way with a live
entry. `PollShape` says what a poll does to one task; the four action properties follow
from it and the invariant.

`ChallengeDispatchProofs`, of challenges: `ProvenInv` adds that a record marked verified names a user
who has proved the challenge. `OneUseEach` is for any number of requests and with a
store that loses commands: an undisturbed challenge has at most one request at
work on it, and once used it has no record and no request, since ids are not issued
twice (`OneUse`).

`NodeProofs`, of trust: `Good` adds to the four properties of a node that the one open
event of a quarantine raised by an incident is not `trust_score_low`, which is
what the automatic recovery tests.

`NodeProofs`, of the registry: `RegistryInv` has three parts. `Types` says that every
listed, removed or suspended node has had a token and that a removal has found a
position. `Order` is about all nodes together: an undisturbed node has one request at a
time (`Alone`) and its removal is the only one (`OneRemoval`), so the position it found
two awaits ago is still the node's (`Found`), as no other removal has moved it and the
list holds no node twice (`Distinct`). `NodesInv` gives each undisturbed node three
facts: no token has been accepted twice and the request that compares one has the
current, unused token (`TokenPart`); the only certificate that may be valid is the one
on record, which a request that revokes has in hand (`CertPart`); and a removed node is off
the list with no valid certificate and no request (`RemovedPart`).
A step of one node leaves the facts of the others alone (`Elsewhere`), so each action is
looked at for its own node only. `RemovalByName` is an action property of the same
invariant.

`SiemPipelineProofs`: `Origins` carries `DurableFirst` to what suspended requests hold: the
events of every copy, batch and group are of what was emitted and, unless an append
was lost, of what is in Postgres; only `AppendDurable` lets an event in, after it has
put it there. `Apart` is `EachOnce` with what makes it inductive: no two requests emit
one event, even when the queue is not to be trusted, and what a flush holds has been
drained. It needs `Origins`, since a new event is in neither queue nor batch because it is
not in `emitted`. `Passed` says that the events of a flush have reached the
exporters before the present one or the dead letters, unless dead letters were lost;
with it `NoSilentLoss` follows action by action (`ExplainedStep`), for any number of
tenants and exporters. What the queue's operations do is in three lemmas
(`EnqueuedFacts`, `SplitFacts`, `NextExporterFacts`) on which all the others rest.

`RuleEngineProofs`: the invariant has a part for each question a step raises.
`Placed` says where a request is in its device's plan, and that it awaits a scan only
at a draft. `Superseded` says that an earlier task for the same work as
a rule's task is active only if it was revived: created when none was active, it
stays so because only a late scan or approval makes a task active again.
`Accounted` says that a rule's count and the drafts its execution may still create do
not exceed the limit, which holds together with the fact that a rule outside
`overlapped` has at most one execution with drafts left.

`SnapshotsProofs`: `TypesHold` needs that jobs and both stores are of the arrays' types
at whatever moment they were made. `CoherentInv` carries `SavedTogether` to the copies
(`CopiesCoherent`): what a job's ledger has, memory has, and a task in the transaction
under way was signed when its status was read, and is revoked there only if it is
revoked now, since a process never takes a status back; and an entry's task has its
link unless a restart forgot it (`LinksKnown`). `NonceInv` adds that a nonce accepted
once is used, unless a restart forgot that. `EntriesInv` says that each job's ledger,
and memory's, has all that earlier jobs and Postgres have, but for what a start left
out; so whichever job is written next removes nothing else. `SettledInv` says that the
last job waiting has the members that memory has now, and that the transaction under
way, when nothing waits behind it, has memory's fields too: every operation appends a
job, so the queue is empty only if nothing has changed since. `KeptInv` says that the
i-th nonce of every list, wherever it is, has i - 1 younger ones at least, so the one the
cap drops is old enough. `ChainInv` says that in memory and in every copy that a start may
read with its hashes, an event with a hash continues from the one before it, and all
before one without hash have none. `ChainVerdict` computes `verifyChain`'s answer on such
a list: its running hash is a recursive function, of which the stored hashes, and
the lists of all ids so far where there are none, are shown to be the value
(`RunningExists`), so that no induction is needed.

`LoginProofs`: `AccountInv` compares every two accounts and creations under way, which
are alike only if they overlapped. `GuessInv` says that the wrong passwords are at most
the failures recorded, fewer than the limit while the account is open, and together
with the comparisons under way within the bound while it is locked; the cardinality
of the comparisons is that of a finite set of requests. `ChallengeInv` says, of a
challenge none of whose commands was skipped, that its counter is no less than the
codes looked at until it is marked, and that one request at most has got past the mark.

`SingleSignOnProofs`: `AddressInv` adds that a creation under way that has raced with no
other finds its address free; callbacks hold nothing between their look for an
account and its creation. `FlowInv` says that what is left of a flow outside `loose`
moves along a line: its state, one callback, one handoff, one completion, one session.

Only model-checked: the liveness properties `ExecutableTasksGoOut` and `TrustRecovers`
(fairness and `ENABLED` are out of the prover's reach), and the two violations. Every
invariant and every action property of the passing runs is a theorem.

## 6. What is not modelled

- The dashboard (`src/src/dashboard-ui/`, nearly half of the repository's lines), the
  catalogs, the templates of rules and the security posture: a user interface, static
  data, and functions over the store that change nothing.
- Devices, apps, packages, alarms and client enrollment beyond the tasks they create:
  handlers of one turn that keep records.
- The push of the kill switch, and everything else the node's and the client's
  programs do: they are not in this repository. Their requests are modelled as
  arriving in any order, repeated, late or never.
- Logout and its revocation list, permissions of roles, the contents of tokens.
- The legacy `src/src/tasks.controller.ts`, which `app.module.ts` does not register.
- In the modules above: cryptography (hashes, signatures, TOTP, certificates), the
  wording of results and audit records, the weights by which routing prefers one
  eligible node to another, the arithmetic of risk, and several tenants.

`PROJECT.json` has every component with its status and the reason.
