---------------------------- MODULE TaskDispatch ----------------------------
(***************************************************************************)
(* How signed tasks reach the backend nodes: TasksController.pendingForNode *)
(* and result, with the failover routing of NodeRoutingService and the     *)
(* switch of KillSwitchService, for the tasks of one tenant.               *)
(*                                                                         *)
(* A poll is one turn of the event loop, so Poll is one action: it resets  *)
(* the poller's stale dispatches, promotes every signed task that is due,  *)
(* moves executable tasks away from unavailable nodes, signs what has lost *)
(* its ledger entry and hands out what is left with the poller, in this    *)
(* order.  The answer may be lost.  Meanwhile scans and approvals that     *)
(* began earlier end, and overwrite the task's status whatever it has      *)
(* become; saves land late, and a restart loads the last one that did.     *)
(*                                                                         *)
(* Abstractions: a node's status, quarantine, maintenance and health are   *)
(* one standing; five minutes without a result are the flag `stale'; of    *)
(* the ledger only the entry a task is bound to is kept.  What a task must *)
(* pass to be signed is TaskAuthorization: here security_scanned and       *)
(* mfa_approved are one status, "ready", and any ready task may be signed. *)
(* The two stores hold one saved copy, taken at any moment after a change; *)
(* what time had done to it, it does again after the restart.              *)
(***************************************************************************)
EXTENDS Naturals

CONSTANTS
    Tasks,      \* the tasks of the tenant
    Nodes,      \* backend nodes
    Alive,      \* the nodes whose process keeps polling
    Scopes,     \* kill switch records an administrator may write
    MaxPending, \* bound: scans and approvals of a task under way at once
    Crashes     \* whether the server restarts

ASSUME NodesAssumption == Nodes # {} /\ Alive \subseteq Nodes
ASSUME ScopesAssumption == Scopes \subseteq {"tenant", "global"}
ASSUME PendingAssumption == MaxPending \in Nat
ASSUME CrashesAssumption == Crashes \in BOOLEAN

VARIABLES
    status,     \* status[t]: UpdateTask.status
    owner,      \* owner[t]: UpdateTask.nodeId
    stale,      \* stale[t]: dispatchedAt is more than five minutes ago
    entry,      \* entry[t]: the ledger entry named by ledgerEntryId
    pending,    \* pending[t]: scans and approvals of t suspended at an await
    standing,   \* standing[n]: what routing makes of node n
    kill,       \* kill[s]: the KillSwitchState record of scope s
    delivered,  \* the tasks of which a node holds a bundle
    saved,      \* saved[t]: status and entry of t, as a restart loads them
    ended       \* history: revoked or finished since the latest signature, or
                \* with that signature's entry withdrawn

taskVars == <<status, owner, stale, entry>>
dispatchVars == <<taskVars, pending, standing, kill, delivered, saved, ended>>

\* Nothing here tells completed and failed apart: both are "completed".
Outcomes == {"completed", "rejected"}
Finished == Outcomes \cup {"revoked"}
Statuses == {"none", "draft", "ready", "signed", "executable", "dispatched"} \cup Finished

\* "none": no ledgerEntryId; an active entry is "early" before its notBefore,
\* then "open", then "closed" after its expiresAt; "void" is revoked or unknown
\* to the ledger.
Active == {"early", "open", "closed"}
Entries == {"none", "void"} \cup Active

\* "eligible": a candidate of route; "passive": neither a candidate nor
\* unavailable (excluded by the routing policy, stale health); "unavailable":
\* offline, in maintenance, unhealthy or quarantined, so failover moves its tasks.
Standings == {"eligible", "passive", "unavailable"}

SavedTask == [status : Statuses, entry : Entries]
KillRecords == [{"tenant", "global"} -> {"none", "on", "off"}]

DispatchTypeOK ==
    /\ status \in [Tasks -> Statuses]
    /\ owner \in [Tasks -> Nodes]
    /\ stale \in [Tasks -> BOOLEAN]
    /\ entry \in [Tasks -> Entries]
    /\ pending \in [Tasks -> 0 .. MaxPending]
    /\ standing \in [Nodes -> Standings]
    /\ kill \in KillRecords
    /\ delivered \subseteq Tasks
    /\ saved \in [Tasks -> SavedTask]
    /\ ended \subseteq Tasks

-----------------------------------------------------------------------------
(* KillSwitchService *)

\* getState and isActive: the tenant's record, if there is one, else the global.
KillActive ==
    \/ kill["tenant"] = "on"
    \/ kill["tenant"] = "none" /\ kill["global"] = "on"

SetKill(s, state) ==
    /\ kill' = [kill EXCEPT ![s] = state]
    /\ UNCHANGED <<taskVars, pending, standing, delivered, saved, ended>>

Activate(s) == SetKill(s, "on")
Deactivate(s) == kill[s] = "on" /\ SetKill(s, "off")

-----------------------------------------------------------------------------
(* One poll *)

\* Slips: dispatchedAt alone is looked at; or any dispatched task is retried.
StaleWhatever(n) == {t \in Tasks : owner[t] = n /\ stale[t]}
RetriedEarly(n) == {t \in Tasks : owner[t] = n /\ status[t] = "dispatched"}

\* The poller's own dispatches without a result.
Recovered(n) ==
    {t \in Tasks : owner[t] = n /\ status[t] = "dispatched" /\ stale[t]}

\* Slip: the execution delay is not looked at.
PromotedAnyTime == {t \in Tasks : status[t] = "signed" /\ entry[t] \in {"early", "open"}}

\* promoteToExecutable, of every task whatever its node
Promoted == {t \in Tasks : status[t] = "signed" /\ entry[t] = "open"}

Executable(n) == {t \in Tasks : status[t] = "executable"} \cup Recovered(n) \cup Promoted

Eligible == {n \in Nodes : standing[n] = "eligible"}

\* Slip: failover is forgotten.
NeverUnavailable(n) == FALSE

Unavailable(n) == standing[n] = "unavailable"

\* Slip: failover looks only at the tasks that were executable before the poll.
OwnersExecutableOnly(n, t) ==
    IF status[t] = "executable" /\ Unavailable(owner[t]) /\ Eligible # {}
    THEN Eligible ELSE {owner[t]}

\* Failover: weightedPick among the candidates, no move when there is none.
Owners(n, t) ==
    IF t \in Executable(n) /\ Unavailable(owner[t]) /\ Eligible # {}
    THEN Eligible ELSE {owner[t]}

\* Slip: the ledger is only consulted at promotion.
AnyEntry(t) == TRUE

\* An entry that is missing is signed on the spot.
Live(t) == entry[t] # "void"

\* Executable tasks of n without an entry are signed and promoted on the spot
\* (autoSignTask, promoteToExecutable), whatever the kill switch says.
SignedOnTheSpot(n) == {t \in Executable(n) : owner'[t] = n /\ entry[t] = "none"}

\* What the answer to n contains once the tasks have their owners.
Answer(n) ==
    {t \in Executable(n) : owner'[t] = n /\ Live(t) /\ ~KillActive}

Poll(n) ==
    /\ owner' \in [Tasks -> Nodes]
    /\ \A t \in Tasks : owner'[t] \in Owners(n, t)
    /\ status' = [t \in Tasks |->
          IF t \in Answer(n) THEN "dispatched"
          ELSE IF t \in Executable(n) THEN "executable" ELSE status[t]]
    /\ stale' = [t \in Tasks |-> stale[t] /\ t \notin Answer(n) \cup Recovered(n)]
    /\ \E lost \in BOOLEAN : delivered' = IF lost THEN delivered ELSE delivered \cup Answer(n)
    /\ entry' = [t \in Tasks |-> IF t \in SignedOnTheSpot(n) THEN "open" ELSE entry[t]]
    /\ UNCHANGED <<pending, standing, kill, saved, ended>>

-----------------------------------------------------------------------------
(* The pipeline of TaskAuthorizationService, as far as dispatch can tell *)

Create(t, n, state, e) ==
    /\ status[t] = "none"
    /\ status' = [status EXCEPT ![t] = state]
    /\ owner' = [owner EXCEPT ![t] = n]
    /\ entry' = [entry EXCEPT ![t] = e]
    /\ UNCHANGED <<stale, pending, standing, kill, delivered, saved, ended>>

\* createDraft; and the creations that call autoSignTask at once.
CreateDraft(t, n) == Create(t, n, "draft", "none")
CreateAutoSigned(t, n) == Create(t, n, "signed", "open")

\* runSecurityScan or approve passes its checks and awaits.
StartRequest(t) ==
    /\ status[t] \in {"draft", "ready"}
    /\ pending[t] < MaxPending
    /\ pending' = [pending EXCEPT ![t] = @ + 1]
    /\ UNCHANGED <<taskVars, standing, kill, delivered, saved, ended>>

\* It ends and sets security_scanned or mfa_approved over whatever the status is
\* by now; or it is refused, or records an approval that is not the last one.
FinishRequest(t) ==
    /\ pending[t] > 0
    /\ pending' = [pending EXCEPT ![t] = @ - 1]
    /\ \/ status' = [status EXCEPT ![t] = "ready"]
       \/ status' = status
    /\ UNCHANGED <<owner, stale, entry, standing, kill, delivered, saved, ended>>

\* sign, with or without an execution delay, or autoFinalizeAfterScan.  The task
\* may have been signed, sent, revoked or finished before.
SignTask(t, e) ==
    /\ status[t] = "ready"
    /\ status' = [status EXCEPT ![t] = "signed"]
    /\ entry' = [entry EXCEPT ![t] = e]
    /\ ended' = ended \ {t}
    /\ UNCHANGED <<owner, stale, pending, standing, kill, delivered, saved>>

\* result: a node reports on a bundle it holds, late or again; the status is
\* overwritten and dispatchedAt stays.
Report(t, outcome) ==
    /\ t \in delivered /\ status[t] # "none"
    /\ status' = [status EXCEPT ![t] = outcome]
    /\ ended' = ended \cup {t}
    /\ UNCHANGED <<owner, stale, entry, pending, standing, kill, delivered, saved>>

\* The revocations of the ledger entry alone and of the task; the latter fails on
\* an entry that is revoked or missing from the ledger.
RevokeEntry(t) ==
    /\ entry[t] \in Active
    /\ entry' = [entry EXCEPT ![t] = "void"]
    /\ ended' = ended \cup {t}
    /\ UNCHANGED <<status, owner, stale, pending, standing, kill, delivered, saved>>

Revoke(t) ==
    /\ status[t] \notin {"none", "completed"}
    /\ entry[t] # "void"
    /\ entry' = [entry EXCEPT ![t] = IF @ = "none" THEN "none" ELSE "void"]
    /\ status' = [status EXCEPT ![t] = "revoked"]
    /\ ended' = ended \cup {t}
    /\ UNCHANGED <<owner, stale, pending, standing, kill, delivered, saved>>

-----------------------------------------------------------------------------
(* Time, nodes, and restarts *)

\* Five minutes since the dispatch.
Age(t) ==
    /\ status[t] = "dispatched" /\ ~stale[t]
    /\ stale' = [stale EXCEPT ![t] = TRUE]
    /\ UNCHANGED <<status, owner, entry, pending, standing, kill, delivered, saved, ended>>

\* notBefore and expiresAt
EntryAges(t) ==
    /\ \/ entry[t] = "early" /\ entry' = [entry EXCEPT ![t] = "open"]
       \/ entry[t] = "open" /\ entry' = [entry EXCEPT ![t] = "closed"]
    /\ UNCHANGED <<status, owner, stale, pending, standing, kill, delivered, saved, ended>>

\* Heartbeats, health reports, quarantine and maintenance (NodeTrustService).
NodeChanges(n, s) ==
    /\ standing[n] # s
    /\ standing' = [standing EXCEPT ![n] = s]
    /\ UNCHANGED <<taskVars, pending, kill, delivered, saved, ended>>

\* A save lands.  It has the tasks' fields of this moment, but the arrays as they
\* were when persist was called, so the entry a task names may be missing.
Save ==
    /\ Crashes
    /\ \E torn \in SUBSET {t \in Tasks : entry[t] \in Active} :
          saved' = [t \in Tasks |-> [status |-> status[t],
                                     entry |-> IF t \in torn THEN "void" ELSE entry[t]]]
    /\ UNCHANGED <<taskVars, pending, standing, kill, delivered, ended>>

\* A restart loads what the last save left: from Dragonfly all of it, from the
\* rows of Postgres tasks that have lost their ledgerEntryId.  Owners, times and
\* kill switch records may be any older ones, and NodeChanges covers the nodes.
DispatchRestart ==
    /\ Crashes
    /\ status' = [t \in Tasks |-> saved[t].status]
    /\ \/ entry' = [t \in Tasks |-> saved[t].entry]
       \/ entry' = [t \in Tasks |-> "none"]
    /\ owner' \in [Tasks -> Nodes]
    /\ stale' \in [Tasks -> BOOLEAN]
    /\ kill' \in {k \in KillRecords : \A s \in {"tenant", "global"} \ Scopes : k[s] = kill[s]}
    /\ pending' = [t \in Tasks |-> 0]
    /\ ended' = {t \in Tasks : status'[t] \in Finished \/ entry'[t] = "void"}
    /\ UNCHANGED <<standing, delivered, saved>>

-----------------------------------------------------------------------------
DispatchInit ==
    /\ status = [t \in Tasks |-> "none"]
    /\ owner \in [Tasks -> Nodes]
    /\ stale = [t \in Tasks |-> FALSE]
    /\ entry = [t \in Tasks |-> "none"]
    /\ pending = [t \in Tasks |-> 0]
    /\ standing \in [Nodes -> Standings]
    /\ kill = [s \in {"tenant", "global"} |-> "none"]
    /\ delivered = {}
    /\ saved = [t \in Tasks |-> [status |-> "none", entry |-> "none"]]
    /\ ended = {}

PipelineStep(t) ==
    \/ \E n \in Nodes : CreateDraft(t, n) \/ CreateAutoSigned(t, n)
    \/ StartRequest(t) \/ FinishRequest(t)
    \/ \E e \in {"early", "open"} : SignTask(t, e)
    \/ \E outcome \in Outcomes : Report(t, outcome)
    \/ RevokeEntry(t) \/ Revoke(t)

DispatchNext ==
    \/ \E t \in Tasks : PipelineStep(t) \/ Age(t) \/ EntryAges(t)
    \/ \E n \in Nodes : Poll(n) \/ \E s \in Standings : NodeChanges(n, s)
    \/ \E s \in Scopes : Activate(s) \/ Deactivate(s)
    \/ Save \/ DispatchRestart

DispatchSpec == DispatchInit /\ [][DispatchNext]_dispatchVars

\* A node that is alive keeps polling, whatever its standing; and time passes.
FairDispatchSpec ==
    /\ DispatchSpec
    /\ \A n \in Alive : WF_dispatchVars(Poll(n))
    /\ \A t \in Tasks : WF_dispatchVars(Age(t))

-----------------------------------------------------------------------------
(* Properties *)

Polled == \E n \in Nodes : Poll(n)

\* A poll puts t in the answer to a node (which then is owner'[t]).
Sends(t) ==
    /\ status'[t] = "dispatched"
    /\ status[t] # "dispatched" \/ (stale[t] /\ ~stale'[t])
    /\ Polled

\* What was revoked, finished, or had its ledger entry withdrawn goes to no node
\* again, neither a first time nor after a lost answer or a stale dispatch, unless
\* it is signed anew, as a late scan allows, or a restart has loaded a save from
\* before its end (pendingForNode, revoke, revokeLedgerEntry, result).
EndedStaysHome ==
    [][\A t \in Tasks : Sends(t) => t \notin ended]_dispatchVars

\* Whichever node's poll promotes a task, wherever failover moves it, and though
\* late scans have it signed again behind a bundle already out and restarts take
\* it back or lose its entry: it goes out only after the delay of the entry in
\* force is over (promoteToExecutable, pendingForNode).
SentOnlyWhenDue ==
    [][\A t \in Tasks : Sends(t) => entry'[t] # "early"]_dispatchVars

\* A node in quarantine, in maintenance or out of contact is given a task only
\* while no node is eligible, whoever promoted, moved, reset or signed the task
\* in the same poll (pendingForNode, availableNode).
UnavailableServedLast ==
    [][\A t \in Tasks : Sends(t) => ~Unavailable(owner'[t]) \/ Eligible = {}]_dispatchVars

\* A node that has been given a task has five minutes before a poll can send the
\* task to any node again: failover never moves a task that is out with a node.
PatienceBeforeRetry ==
    [][\A t \in Tasks :
          (status[t] = "dispatched" /\ ~stale[t] /\ Polled)
              => ~Sends(t) /\ owner'[t] = owner[t]]_dispatchVars

\* The nodes' standings settle, with a living one eligible, no kill switch is on,
\* and the server stays up.
Settled(standings) ==
    /\ \E s \in standings : (\E n \in Alive : s[n] = "eligible") /\ <>[](standing = s)
    /\ <>[]~KillActive
    /\ <>[][~DispatchRestart]_dispatchVars

GoesOut(t) == status[t] = "executable" ~> (status[t] # "executable" \/ entry[t] = "void")

\* An executable task with a live entry does not stay behind once things settle,
\* provided the nodes that no longer poll count as unavailable: failover moves
\* it to a node that polls, whoever polls first (pendingForNode, availableNode).
ExecutableTasksGoOut ==
    Settled({s \in [Nodes -> Standings] : \A n \in Nodes \ Alive : s[n] = "unavailable"})
        => \A t \in Tasks : GoesOut(t)

\* The same without the proviso.  A node's standing is lowered by its own reports
\* and by an administrator who lists the nodes, and by nothing else: a node that
\* dies stays eligible (pendingForNode, NodesService.listNodes).
TasksLeaveDeadNodes ==
    Settled([Nodes -> Standings]) => \A t \in Tasks : GoesOut(t)
=============================================================================
