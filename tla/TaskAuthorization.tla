------------------------- MODULE TaskAuthorization -------------------------
(***************************************************************************)
(* The task authorization pipeline of the control plane:                   *)
(* TaskAuthorizationService, TaskLedgerService, TenantPolicyService and    *)
(* the endpoints of TasksController that change a task, for the tasks of   *)
(* the tenant `default' (tenants share nothing but the arrays they are      *)
(* stored in; rows forget a task's tenant and fall back to that one).      *)
(*                                                                         *)
(* The server is one event loop: a handler runs alone between two awaits.  *)
(* runSecurityScan awaits the scanners between its status check and its    *)
(* assignments, and approve awaits the MFA challenge store between its     *)
(* checks and the recording of the approval, so each is split there into   *)
(* a start and a finish; a request in between occupies a slot of `req'.    *)
(* Every other handler is one atomic action.                               *)
(*                                                                         *)
(* Abstractions: a risk score is "high" (70 or more) or "low"; wall-clock  *)
(* time is the two facts the code tests about a ledger entry, whether its  *)
(* notBefore has passed (due) and whether its expiresAt has (expired); the *)
(* two are independent because the policy's delay and lifetime are two     *)
(* unvalidated numbers.  Task hashes and signatures are not modelled: no   *)
(* handler rewrites a hashed field of a stored task, and signing keys are  *)
(* assumed valid.  What was written last is what a restart reads (Snapshots *)
(* models the writes); history variables name what restarts took away.     *)
(***************************************************************************)
EXTENDS Naturals, Sequences, FiniteSets

CONSTANTS
    Tasks,      \* ids of the tasks that can be created
    Users,      \* the approvers
    Requests,   \* slots for requests suspended at an await
    Policies,   \* the tenant policies an administrator may store
    MaxLedger   \* bound on the number of ledger entries

Policy == [mfa : BOOLEAN, tinfoil : BOOLEAN, base : Nat, high : Nat]

ASSUME PoliciesAssumption == Policies # {} /\ Policies \subseteq Policy
ASSUME MaxLedgerAssumption == MaxLedger \in Nat

VARIABLES
    status,     \* status[t]: UpdateTask.status, "none" before t is created
    scan,       \* scan[t]: UpdateTask.securityScanResult
    approvals,  \* approvals[t]: approver ids in UpdateTask.approvals
    entry,      \* entry[t]: index in ledger of ledgerEntryId, 0 when undefined
    ledger,     \* MemoryStore.taskLedger
    policy,     \* the tenant's TenantPolicy
    req,        \* req[r]: the request suspended in slot r
    delivered,  \* tasks a backend node has received a bundle of
    \* history: no handler reads these
    blocked,    \* tasks whose last finished scan found a hard block
    overtaken,  \* blocked tasks of which an approval was suspended at that time
    stripped,   \* tasks that lost columns when they were loaded from rows
    reopened    \* signed tasks whose status a late scan or approval took back

history == <<blocked, overtaken, stripped, reopened>>
vars == <<status, scan, approvals, entry, ledger, policy, req, delivered, history>>

Statuses == {"none", "draft", "security_scanned", "mfa_approved", "signed",
             "executable", "dispatched", "completed", "failed", "rejected",
             "revoked"}

Outcomes == {"completed", "failed", "rejected"}

Risks == {"low", "high"}
ScanResults == [risk : Risks, hardBlock : BOOLEAN]
NoScan == [risk |-> "none", hardBlock |-> FALSE]

Entry == [task : Tasks, approvals : Seq(Users), risk : Risks,
          state : {"active", "revoked"}, due : BOOLEAN, expired : BOOLEAN]

Idle == [op |-> "idle"]
ScanRequests == [op : {"scan", "autoscan", "finalize"}, task : Tasks]
ApproveRequests == [op : {"approve"}, task : Tasks, user : Users]

TypeOK ==
    /\ status \in [Tasks -> Statuses]
    /\ scan \in [Tasks -> ScanResults \cup {NoScan}]
    /\ approvals \in [Tasks -> Seq(Users)]
    /\ entry \in [Tasks -> 0 .. Len(ledger)]
    /\ ledger \in Seq(Entry)
    /\ policy \in Policies
    /\ req \in [Requests -> {Idle} \cup ScanRequests \cup ApproveRequests]
    /\ delivered \subseteq Tasks
    /\ blocked \subseteq Tasks /\ overtaken \subseteq Tasks
    /\ stripped \subseteq Tasks /\ reopened \subseteq Tasks

-----------------------------------------------------------------------------
(* TenantPolicyService and TaskLedgerService *)

AtLeast2(n) == IF n < 2 THEN 2 ELSE n

RequiredApprovals(p, risk) ==
    IF p.tinfoil THEN AtLeast2(p.high)
    ELSE IF risk = "high" THEN p.high ELSE p.base

NewEntry(t, who, risk, due) ==
    [task |-> t, approvals |-> who, risk |-> risk, state |-> "active",
     due |-> due, expired |-> FALSE]

Room(n) == Len(ledger) + n <= MaxLedger

LedgerValid(i) == ledger[i].state = "active" /\ ~ledger[i].expired

-----------------------------------------------------------------------------
(* Creating tasks *)

Created(t, st) ==
    /\ status[t] = "none"
    /\ status' = [status EXCEPT ![t] = st]

\* POST /tasks/draft
CreateDraft(t) ==
    /\ Created(t, "draft")
    /\ UNCHANGED <<scan, approvals, entry, ledger, policy, req, delivered, history>>

\* POST /tasks/refresh-inventory and the rules engine: the draft and the start
\* of its scan are one turn of the event loop.
CreateAndScan(r, t) ==
    /\ req[r] = Idle
    /\ Created(t, "draft")
    /\ req' = [req EXCEPT ![r] = [op |-> "autoscan", task |-> t]]
    /\ UNCHANGED <<scan, approvals, entry, ledger, policy, delivered, history>>

\* autoSignTask: no approvals, risk 0, executable from now on
AutoSign(t) ==
    /\ Room(1)
    /\ ledger' = Append(ledger, NewEntry(t, <<>>, "low", TRUE))
    /\ entry' = [entry EXCEPT ![t] = Len(ledger) + 1]
    /\ status' = [status EXCEPT ![t] = "signed"]

\* Package deployments, app updates and update-all-outdated push a 'pending'
\* task and sign it in the same turn.
CreateAutoSigned(t) ==
    /\ status[t] = "none"
    /\ AutoSign(t)
    /\ UNCHANGED <<scan, approvals, policy, req, delivered, history>>

-----------------------------------------------------------------------------
(* Security scan *)

StartScan(r, t) ==
    /\ req[r] = Idle
    /\ status[t] = "draft"
    /\ req' = [req EXCEPT ![r] = [op |-> "scan", task |-> t]]
    /\ UNCHANGED <<status, scan, approvals, entry, ledger, policy, delivered, history>>

\* History: what ends late takes back the status of a task that has been signed.
TakenBack(t) == IF entry[t] # 0 /\ status'[t] # status[t] THEN {t} ELSE {}

\* History: an approval of t is waiting for the MFA store.
ApprovalWaits(t) == \E r \in Requests : req[r].op = "approve" /\ req[r].task = t

\* The scanners have answered: the result and the status are assigned, whatever
\* the status has become meanwhile.
FinishScan(r) ==
    /\ req[r].op \in {"scan", "autoscan"}
    /\ \E s \in ScanResults :
          /\ scan' = [scan EXCEPT ![req[r].task] = s]
          /\ blocked' = IF s.hardBlock THEN blocked \cup {req[r].task}
                                      ELSE blocked \ {req[r].task}
          /\ overtaken' = IF s.hardBlock /\ ApprovalWaits(req[r].task)
                          THEN overtaken \cup {req[r].task}
                          ELSE overtaken \ {req[r].task}
    /\ status' = [status EXCEPT ![req[r].task] = "security_scanned"]
    /\ req' = [req EXCEPT ![r] = IF req[r].op = "scan" THEN Idle
                                 ELSE [op |-> "finalize", task |-> req[r].task]]
    /\ reopened' = reopened \cup TakenBack(req[r].task)
    /\ UNCHANGED <<approvals, entry, ledger, policy, delivered, stripped>>

\* Slip: the automatic flow forgets the tenant's MFA requirement.
FinalizeIgnoringMfa(t) == status[t] = "security_scanned" /\ ~scan[t].hardBlock

\* Slip: the automatic flow does not look at the status again.
FinalizeAnyStatus(t) == ~scan[t].hardBlock /\ ~policy.mfa

FinalizeAllowed(t) ==
    /\ status[t] = "security_scanned"
    /\ ~scan[t].hardBlock
    /\ ~policy.mfa

\* autoFinalizeAfterScan, run when the awaiting caller of runSecurityScan resumes
AutoFinalize(r) ==
    /\ req[r].op = "finalize"
    /\ req' = [req EXCEPT ![r] = Idle]
    /\ \/ /\ FinalizeAllowed(req[r].task)
          /\ AutoSign(req[r].task)
       \/ /\ ~FinalizeAllowed(req[r].task)
          /\ UNCHANGED <<status, entry, ledger>>
    /\ UNCHANGED <<scan, approvals, policy, delivered, history>>

-----------------------------------------------------------------------------
(* Approval and signing *)

\* Slip: approve does not look at the hard block.
ApprovableBlocked(t) == status[t] = "security_scanned" /\ scan[t] # NoScan

Approvable(t) ==
    /\ status[t] = "security_scanned"
    /\ scan[t] # NoScan
    /\ ~scan[t].hardBlock

\* Slip: only the latest approval is compared.
JustApproved(t, u) == approvals[t] # <<>> /\ approvals[t][Len(approvals[t])] = u

HasApproved(t, u) == \E i \in 1 .. Len(approvals[t]) : approvals[t][i] = u

\* From the duplicate check to the end of approve
RecordApproval(t, u) ==
    /\ ~HasApproved(t, u)
    /\ approvals' = [approvals EXCEPT ![t] = Append(@, u)]
    /\ status' = IF Len(approvals[t]) + 1 >= RequiredApprovals(policy, scan[t].risk)
                 THEN [status EXCEPT ![t] = "mfa_approved"]
                 ELSE status

\* Without MFA approve has no await: one turn.
ApproveNow(t, u) ==
    /\ ~policy.mfa
    /\ Approvable(t)
    /\ RecordApproval(t, u)
    /\ UNCHANGED <<scan, entry, ledger, policy, req, delivered, history>>

StartApprove(r, t, u) ==
    /\ policy.mfa
    /\ req[r] = Idle
    /\ Approvable(t)
    /\ req' = [req EXCEPT ![r] = [op |-> "approve", task |-> t, user |-> u]]
    /\ UNCHANGED <<status, scan, approvals, entry, ledger, policy, delivered, history>>

\* The challenge store has accepted the challenge.
FinishApprove(r) ==
    /\ req[r].op = "approve"
    /\ RecordApproval(req[r].task, req[r].user)
    /\ req' = [req EXCEPT ![r] = Idle]
    /\ reopened' = reopened \cup TakenBack(req[r].task)
    /\ UNCHANGED <<scan, entry, ledger, policy, delivered, blocked, overtaken, stripped>>

\* The challenge was refused, or the approver turns out to have approved already.
RejectApprove(r) ==
    /\ req[r].op = "approve"
    /\ req' = [req EXCEPT ![r] = Idle]
    /\ UNCHANGED <<status, scan, approvals, entry, ledger, policy, delivered, history>>

\* Slip: sign trusts the status approve has given.
AnyApproval(t) == approvals[t] # <<>>

EnoughApprovals(t) == Len(approvals[t]) >= RequiredApprovals(policy, scan[t].risk)

\* minimumExecutionDelay is positive: the entry is not due yet.  Without a scan
\* result sign throws on its risk score.
Sign(t) ==
    /\ status[t] = "mfa_approved"
    /\ scan[t] # NoScan
    /\ EnoughApprovals(t)
    /\ Room(1)
    /\ ledger' = Append(ledger, NewEntry(t, approvals[t], scan[t].risk, FALSE))
    /\ entry' = [entry EXCEPT ![t] = Len(ledger) + 1]
    /\ status' = [status EXCEPT ![t] = "signed"]
    /\ UNCHANGED <<scan, approvals, policy, req, delivered, history>>

-----------------------------------------------------------------------------
(* Execution, as far as it changes a task's status *)

\* Slip: the execution delay is not enforced.
PromotableEarly(t) == status[t] = "signed" /\ entry[t] # 0 /\ LedgerValid(entry[t])

Promotable(t) ==
    /\ status[t] = "signed"
    /\ entry[t] # 0
    /\ LedgerValid(entry[t])
    /\ ledger[entry[t]].due

\* promoteToExecutable
Promote(t) ==
    /\ Promotable(t)
    /\ status' = [status EXCEPT ![t] = "executable"]
    /\ UNCHANGED <<scan, approvals, entry, ledger, policy, req, delivered, history>>

\* pendingForNode puts the task in the answer to its node.
Dispatch(t) ==
    /\ status[t] = "executable"
    /\ entry[t] # 0
    /\ ledger[entry[t]].state = "active"
    /\ status' = [status EXCEPT ![t] = "dispatched"]
    /\ delivered' = delivered \cup {t}
    /\ UNCHANGED <<scan, approvals, entry, ledger, policy, req, history>>

\* pendingForNode finds a task without an entry: it signs, promotes and, unless
\* the kill switch is on, dispatches it in the same turn.
SignAtDispatch(t) ==
    /\ status[t] = "executable"
    /\ entry[t] = 0
    /\ Room(1)
    /\ ledger' = Append(ledger, NewEntry(t, <<>>, "low", TRUE))
    /\ entry' = [entry EXCEPT ![t] = Len(ledger) + 1]
    /\ \/ UNCHANGED <<status, delivered>>
       \/ /\ status' = [status EXCEPT ![t] = "dispatched"]
          /\ delivered' = delivered \cup {t}
    /\ UNCHANGED <<scan, approvals, policy, req, history>>

\* No result five minutes after dispatch.
ResetStale(t) ==
    /\ status[t] = "dispatched"
    /\ status' = [status EXCEPT ![t] = "executable"]
    /\ UNCHANGED <<scan, approvals, entry, ledger, policy, req, delivered, history>>

\* A node reports on a task it has received, perhaps late or twice: the status
\* is overwritten whatever it is.
Report(t, outcome) ==
    /\ t \in delivered
    /\ status' = [status EXCEPT ![t] = outcome]
    /\ UNCHANGED <<scan, approvals, entry, ledger, policy, req, delivered, history>>

-----------------------------------------------------------------------------
(* Revocation, policy, time *)

\* Slip: the revoke endpoint toggles.
ToggleLedger(i) ==
    ledger' = [ledger EXCEPT ![i].state =
                  IF @ = "active" THEN "revoked" ELSE "active"]

RevokeLedger(i) ==
    /\ ledger[i].state = "active"
    /\ ledger' = [ledger EXCEPT ![i].state = "revoked"]

\* Slip: revoking a task leaves its ledger entry alone.
RevokeTaskOnly(t) ==
    /\ status[t] \notin {"none", "completed", "failed"}
    /\ status' = [status EXCEPT ![t] = "revoked"]
    /\ UNCHANGED <<scan, approvals, entry, ledger, policy, req, delivered, history>>

\* DELETE /tasks/:id; ledger.revoke throws before the status is assigned when
\* the entry is already revoked.
Revoke(t) ==
    /\ status[t] \notin {"none", "completed", "failed"}
    /\ \/ entry[t] = 0 /\ UNCHANGED ledger
       \/ entry[t] # 0 /\ RevokeLedger(entry[t])
    /\ status' = [status EXCEPT ![t] = "revoked"]
    /\ UNCHANGED <<scan, approvals, entry, policy, req, delivered, history>>

\* POST /tasks/ledger/:ledgerId/revoke leaves the task alone.
RevokeEntry(i) ==
    /\ RevokeLedger(i)
    /\ UNCHANGED <<status, scan, approvals, entry, policy, req, delivered, history>>

UpdatePolicy(p) ==
    /\ policy' = p
    /\ UNCHANGED <<status, scan, approvals, entry, ledger, req, delivered, history>>

NotBeforePasses(i) ==
    /\ ~ledger[i].due
    /\ ledger' = [ledger EXCEPT ![i].due = TRUE]
    /\ UNCHANGED <<status, scan, approvals, entry, policy, req, delivered, history>>

Expire(i) ==
    /\ ~ledger[i].expired
    /\ ledger' = [ledger EXCEPT ![i].expired = TRUE]
    /\ UNCHANGED <<status, scan, approvals, entry, policy, req, delivered, history>>

-----------------------------------------------------------------------------
(* Restart: suspended requests are gone.  The Dragonfly snapshot restores every *)
(* field; a task's Postgres row, where rows can be loaded (Snapshots), has no   *)
(* column for its scan result, approvals and ledgerEntryId.  All onModuleInit   *)
(* hooks of the application's one module start together, and                    *)
(* TaskAuthorizationService's migration of unsigned and stuck tasks runs before *)
(* the store's loading has resumed from its first await: it sees no tasks and   *)
(* signs nothing.                                                               *)

HasLost(t) == scan[t] # NoScan \/ approvals[t] # <<>> \/ entry[t] # 0

LoadSnapshot == UNCHANGED <<scan, approvals, entry, stripped>>

LoadRows ==
    /\ scan' = [t \in Tasks |-> NoScan]
    /\ approvals' = [t \in Tasks |-> <<>>]
    /\ entry' = [t \in Tasks |-> 0]
    /\ stripped' = stripped \cup {t \in Tasks : HasLost(t)}

Restart ==
    /\ LoadSnapshot \/ LoadRows
    /\ req' = [r \in Requests |-> Idle]
    /\ UNCHANGED <<status, ledger, policy, delivered, blocked, overtaken, reopened>>

-----------------------------------------------------------------------------
Init ==
    /\ status = [t \in Tasks |-> "none"]
    /\ scan = [t \in Tasks |-> NoScan]
    /\ approvals = [t \in Tasks |-> <<>>]
    /\ entry = [t \in Tasks |-> 0]
    /\ ledger = <<>>
    /\ policy \in Policies
    /\ req = [r \in Requests |-> Idle]
    /\ delivered = {}
    /\ blocked = {} /\ overtaken = {} /\ stripped = {} /\ reopened = {}

TaskStep(t) ==
    \/ CreateDraft(t) \/ CreateAutoSigned(t)
    \/ \E u \in Users : ApproveNow(t, u)
    \/ Sign(t) \/ Promote(t) \/ Dispatch(t) \/ SignAtDispatch(t)
    \/ ResetStale(t) \/ Revoke(t)
    \/ \E outcome \in Outcomes : Report(t, outcome)

RequestStep(r) ==
    \/ FinishScan(r) \/ AutoFinalize(r) \/ FinishApprove(r) \/ RejectApprove(r)
    \/ \E t \in Tasks : CreateAndScan(r, t) \/ StartScan(r, t)
    \/ \E t \in Tasks, u \in Users : StartApprove(r, t, u)

LedgerStep(i) == RevokeEntry(i) \/ NotBeforePasses(i) \/ Expire(i)

Next ==
    \/ \E t \in Tasks : TaskStep(t)
    \/ \E r \in Requests : RequestStep(r)
    \/ \E i \in 1 .. Len(ledger) : LedgerStep(i)
    \/ \E p \in Policies : UpdatePolicy(p)
    \/ Restart

Spec == Init /\ [][Next]_vars

-----------------------------------------------------------------------------
(* Properties *)

NoRepeats(s) == \A i, j \in 1 .. Len(s) : s[i] = s[j] => i = j

\* No user is counted twice, neither among a task's approvals nor in a signed
\* ledger entry, although approve checks for a duplicate in one request while
\* other requests of the same user wait for the MFA store (approve).
DistinctApprovers ==
    /\ \A t \in Tasks : NoRepeats(approvals[t])
    /\ \A i \in 1 .. Len(ledger) : NoRepeats(ledger[i].approvals)

\* The end of approve reads the scan result without a null check, and sign reads
\* it with securityScanResult!: whenever one of them can run there is one, unless
\* the task was loaded from its row, which has no column for it.
ScanPresent ==
    /\ \A t \in Tasks \ stripped :
          status[t] \in {"security_scanned", "mfa_approved"} => scan[t] # NoScan
    /\ \A r \in Requests :
          req[r].op = "approve" => scan[req[r].task] # NoScan

\* A task that is executable or in a node's hands is bound to a ledger entry of
\* its own whose notBefore has passed, whatever scans, signatures, stale resets
\* and restarts came before; only a task whose row lost its ledgerEntryId can be
\* without one, and then only until a node asks for it (promoteToExecutable,
\* pendingForNode).
ReleasedOnlyWhenDue ==
    \A t \in Tasks : status[t] \in {"executable", "dispatched"} =>
        \/ entry[t] = 0 /\ t \in stripped
        \/ /\ entry[t] # 0
           /\ ledger[entry[t]].task = t
           /\ ledger[entry[t]].due

Passed == {"mfa_approved", "signed", "executable", "dispatched"}

\* The scan summary's promise that a hard-blocked task cannot proceed to
\* signing (security-gate.service.ts): a task whose last scan found a hard block
\* is not approved, signed or released.
HardBlockRespected == \A t \in blocked : status[t] \notin Passed

\* The promise is broken by one thing alone, an approval that was waiting for the
\* MFA store when the scan found the block: neither late scans, second signatures
\* and automatic finalizations, nor a policy that comes to require MFA or ceases
\* to, nor a restart that has forgotten the scan, lets a blocked task past
\* (runSecurityScan, approve, autoFinalizeAfterScan).
HardBlocksHold == \A t \in blocked \ overtaken : status[t] \notin Passed

\* While a task shows as revoked, none of its ledger entries is live: no order of
\* task revocation, ledger revocation, scans, approvals, signatures and reports
\* leaves one behind, except in two ways.  The task's row lost its ledgerEntryId;
\* or a scan or an approval that ended after the signature took the task back, it
\* was signed a second time, and revoke knows only the newest entry (revoke,
\* runSecurityScan).
RevokedTaskHasNoLiveEntry ==
    \A i \in 1 .. Len(ledger) :
        LET t == ledger[i].task IN
        status[t] = "revoked" /\ ledger[i].state = "active"
            => i # entry[t] /\ t \in stripped \cup reopened

\* While the tenant requires MFA, a task that has kept its columns gets a ledger
\* entry only with the number of approvals its current risk calls for: the
\* automatic finalization does not sign around the approvers, also when the
\* policy changed while the scan was running (sign, autoFinalizeAfterScan).
MfaTenantsNeedApprovals ==
    [][\A t \in Tasks \ stripped :
        (policy.mfa /\ status[t] # "none" /\ entry'[t] \notin {0, entry[t]})
            => Len(ledger'[entry'[t]].approvals)
                 >= RequiredApprovals(policy, scan[t].risk)]_vars

\* What the abstract ledger sees of a sequence of entries.
AbstractEntry(e) ==
    [content |-> [task |-> e.task, approvals |-> e.approvals, risk |-> e.risk],
     state |-> e.state]
LogOf(entries) == [i \in 1 .. Len(entries) |-> AbstractEntry(entries[i])]
Log == LogOf(ledger)

Abstract == INSTANCE AppendOnlyLedger WITH
    Contents <- [task : Tasks, approvals : Seq(Users), risk : Risks],
    log <- Log

\* The ledger is append-only and a revocation is final, over every interleaving
\* of signing, automatic signing, both ways of revoking, and restarts
\* (TaskLedgerService.create and revoke).
LedgerAppendOnly == Abstract!Spec
=============================================================================
