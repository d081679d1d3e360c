----------------------------- MODULE NodeTrust -----------------------------
(***************************************************************************)
(* NodeTrustService and what else writes a backend node's status, health,  *)
(* trust score and quarantine: the node endpoints of NodesService, and the *)
(* signed reports of NodeEnterpriseService.  None of these handlers awaits *)
(* anything between its first read and its last write of these fields, so  *)
(* each is one action.                                                     *)
(*                                                                         *)
(* Abstractions: a health report is its total deduction, the ceiling that  *)
(* the node's age, its findings and its URL put on the score, and the      *)
(* worst of its components; quarantine events that are resolved are gone;  *)
(* enrollment tokens and certificates are left to another module, so that  *)
(* a node may register at any time and reports once it has registered.     *)
(***************************************************************************)
EXTENDS Integers, Sequences

CONSTANTS
    Enrolled,
    Reports,        \* health reports a node may send
    Penalties,      \* penalties of security incidents
    Threshold,      \* NODE_QUARANTINE_TRUST_THRESHOLD
    InitialTrust    \* NEW_NODE_INITIAL_TRUST_SCORE

DefaultTrust == 80

Conditions == {"healthy", "degraded", "unhealthy"}
Report == [deduct : Nat, ceiling : 0 .. 100, worst : Conditions]

ASSUME TrustAssumption ==
    /\ Threshold \in 0 .. DefaultTrust
    /\ InitialTrust \in Threshold .. 100
ASSUME ReportsAssumption ==
    /\ Reports \subseteq Report
    /\ \A r \in Reports : r.deduct >= CASE r.worst = "unhealthy" -> 25
                                        [] r.worst = "degraded" -> 8
                                        [] OTHER -> 0
ASSUME PenaltiesAssumption == Penalties \subseteq Nat

VARIABLES
    status,         \* BackendNode.status
    health,         \* BackendNode.healthState
    score,          \* BackendNode.trustScore
    quarantined,    \* BackendNode.quarantineState = 'quarantined'
    open,           \* triggers of the node's unresolved quarantine events
    seen,           \* BackendNode.firstSeenAt is set
    incident        \* history: a security incident since the last clearance

trustVars == <<status, health, score, quarantined, open, seen, incident>>

Triggers == {"invalid_signature", "replay_attempt", "integrity_mismatch"}

\* An incident that "raised" the quarantine; one that comes to a node already in
\* quarantine leaves no event, and does not keep the node there.
Incidents == {"none", "raised"}

TrustTypeOK ==
    /\ status \in [Enrolled -> {"pending", "online", "offline"}]
    /\ health \in [Enrolled -> Conditions \cup {"stale", "quarantined"}]
    /\ score \in [Enrolled -> 0 .. 100]
    /\ quarantined \in [Enrolled -> BOOLEAN]
    /\ open \in [Enrolled -> Seq(Triggers \cup {"trust_score_low"})]
    /\ seen \in [Enrolled -> BOOLEAN]
    /\ incident \in [Enrolled -> Incidents]

-----------------------------------------------------------------------------
(* NodeTrustService *)

Clamp(v, low, high) == IF v > high THEN high ELSE IF v < low THEN low ELSE v

\* Slip: what limits the score is taken off it with every report.
CompoundedScore(n, r) == Clamp(score[n] + 2 - r.deduct - (100 - r.ceiling), 0, 100)

\* The score after report r
NextScore(n, r) ==
    IF r.deduct = 0 THEN r.ceiling
    ELSE Clamp(score[n] + 2 - r.deduct, 0, r.ceiling)

\* resolveHealthState
HealthState(r, s) ==
    IF s < Threshold THEN "quarantined"
    ELSE IF r.worst = "unhealthy" THEN "unhealthy"
    ELSE IF r.worst = "degraded" \/ s < 70 THEN "degraded"
    ELSE "healthy"

\* Slip: a node in quarantine gets another event.
RaiseAgain(n, trigger) ==
    /\ quarantined' = [quarantined EXCEPT ![n] = TRUE]
    /\ open' = [open EXCEPT ![n] = <<trigger>> \o @]

\* quarantine: nothing but the reason changes for a node already in quarantine.
Raise(n, trigger) ==
    IF quarantined[n] THEN UNCHANGED <<quarantined, open>>
    ELSE /\ quarantined' = [quarantined EXCEPT ![n] = TRUE]
         /\ open' = [open EXCEPT ![n] = <<trigger>>  \o @]

\* Slip: any quarantine is lifted once trust has recovered.
RecoverAlways(n) == open[n] # <<>>

\* autoRecoverTrustQuarantine: only quarantines raised by low trust
Recovers(n) ==
    /\ open[n] # <<>>
    /\ \A i \in 1 .. Len(open[n]) : open[n][i] = "trust_score_low"

\* applyHealthReport
ApplyHealthReport(n, r) ==
    LET next == NextScore(n, r)
        state == HealthState(r, next)
    IN  /\ seen[n]
        /\ score' = [score EXCEPT ![n] = next]
        /\ health' = [health EXCEPT ![n] = state]
        /\ status' = [status EXCEPT ![n] =
              IF state \in {"unhealthy", "quarantined"} THEN "offline" ELSE "online"]
        /\ \/ next < Threshold /\ Raise(n, "trust_score_low")
           \/ /\ next >= Threshold /\ quarantined[n] /\ Recovers(n)
              /\ quarantined' = [quarantined EXCEPT ![n] = FALSE]
              /\ open' = [open EXCEPT ![n] = <<>>]
           \/ /\ next >= Threshold /\ ~(quarantined[n] /\ Recovers(n))
              /\ UNCHANGED <<quarantined, open>>
        /\ UNCHANGED <<seen, incident>>

\* penalize, for a bad envelope or a failed attestation: every trigger that the
\* code passes quarantines at once.
Penalize(n, trigger, penalty) ==
    /\ seen[n]
    /\ score' = [score EXCEPT ![n] = Clamp(@ - penalty, 0, 100)]
    /\ Raise(n, trigger)
    /\ health' = IF quarantined[n] THEN health ELSE [health EXCEPT ![n] = "quarantined"]
    /\ status' = IF quarantined[n] THEN status ELSE [status EXCEPT ![n] = "offline"]
    /\ incident' = [incident EXCEPT ![n] = IF quarantined[n] THEN @ ELSE "raised"]
    /\ UNCHANGED seen

\* Slip: the operator's clearance leaves the score where it was.
KeptScore(n) == score[n]

ClearedScore(n) == IF score[n] < DefaultTrust THEN DefaultTrust ELSE score[n]

\* clearQuarantine, an operator's request, whatever the node's state
ClearQuarantine(n) ==
    /\ quarantined' = [quarantined EXCEPT ![n] = FALSE]
    /\ open' = [open EXCEPT ![n] = <<>>]
    /\ health' = [health EXCEPT ![n] = "degraded"]
    /\ score' = [score EXCEPT ![n] = ClearedScore(n)]
    /\ incident' = [incident EXCEPT ![n] = "none"]
    /\ UNCHANGED <<status, seen>>

-----------------------------------------------------------------------------
(* NodesService *)

\* register: a node seen for the first time starts at most at InitialTrust, even
\* if an operator has cleared it before.
Register(n) ==
    /\ status' = [status EXCEPT ![n] = "online"]
    /\ health' = [health EXCEPT ![n] = "degraded"]
    /\ score' = IF ~seen[n] /\ score[n] > InitialTrust
                THEN [score EXCEPT ![n] = InitialTrust] ELSE score
    /\ seen' = [seen EXCEPT ![n] = TRUE]
    /\ UNCHANGED <<quarantined, open, incident>>

ReEnroll(n) ==
    /\ status' = [status EXCEPT ![n] = "pending"]
    /\ UNCHANGED <<health, score, quarantined, open, seen, incident>>

Heartbeat(n) ==
    /\ seen[n]
    /\ status' = [status EXCEPT ![n] = "online"]
    /\ health' = IF quarantined[n] THEN health ELSE [health EXCEPT ![n] = "degraded"]
    /\ UNCHANGED <<score, quarantined, open, seen, incident>>

\* listNodes stores what resolveStatus makes of the node: a status by the time it
\* was last seen (or its maintenance), unless it is in quarantine or was never seen.
ListNodes ==
    /\ status' \in [Enrolled -> {"pending", "online", "offline"}]
    /\ \A n \in Enrolled :
          status'[n] \in IF quarantined[n] THEN {"offline"}
                         ELSE IF seen[n] THEN {"online", "offline"}
                         ELSE {status[n], "offline"}
    /\ UNCHANGED <<health, score, quarantined, open, seen, incident>>

-----------------------------------------------------------------------------
TrustInit ==
    /\ status = [n \in Enrolled |-> "pending"]
    /\ health = [n \in Enrolled |-> "stale"]
    /\ score = [n \in Enrolled |-> InitialTrust]
    /\ quarantined = [n \in Enrolled |-> FALSE]
    /\ open = [n \in Enrolled |-> <<>>]
    /\ seen = [n \in Enrolled |-> FALSE]
    /\ incident = [n \in Enrolled |-> "none"]

TrustStep(n) ==
    \/ \E r \in Reports : ApplyHealthReport(n, r)
    \/ \E trigger \in Triggers, penalty \in Penalties : Penalize(n, trigger, penalty)
    \/ ClearQuarantine(n) \/ Register(n) \/ ReEnroll(n) \/ Heartbeat(n)

TrustNext == ListNodes \/ \E n \in Enrolled : TrustStep(n)

TrustSpec == TrustInit /\ [][TrustNext]_trustVars

\* A node without operational problems keeps sending its report, and neither its
\* age nor its findings put the ceiling below the threshold.
CleanReport(n) ==
    \E r \in Reports : r.deduct = 0 /\ r.ceiling >= Threshold /\ ApplyHealthReport(n, r)

FairTrustSpec == TrustSpec /\ \A n \in Enrolled : WF_trustVars(CleanReport(n))

-----------------------------------------------------------------------------
(* Properties *)

\* A node is in quarantine exactly while it has one unresolved quarantine event:
\* without one the automatic recovery would refuse it for ever, with two its
\* history would show a quarantine that never was.
EventsMatch ==
    \A n \in Enrolled : Len(open[n]) = IF quarantined[n] THEN 1 ELSE 0

\* Whatever mix of reports, penalties, clearances and recoveries brought the score
\* below the threshold, the node is in quarantine.
LowTrustQuarantined ==
    \A n \in Enrolled : score[n] < Threshold => quarantined[n]

\* A quarantine raised by a security incident lasts until an operator clears it,
\* however good the reports that follow.
IncidentsWait ==
    \A n \in Enrolled : incident[n] = "raised" => quarantined[n]

\* The health shown to operators and routing never says "quarantined" of a node
\* that is not: every way out of quarantine also moves the health on.
HealthTellsQuarantine ==
    \A n \in Enrolled : health[n] = "quarantined" => quarantined[n]

\* A node that fell into quarantine by its score alone and then sends clean
\* reports comes out of it without an operator.
TrustRecovers ==
    \A n \in Enrolled : open[n] = <<"trust_score_low">> ~> ~quarantined[n]
=============================================================================
