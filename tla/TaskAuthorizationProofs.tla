---------------------- MODULE TaskAuthorizationProofs ----------------------
(***************************************************************************)
(* Proofs about TaskAuthorization for every number of tasks, users and     *)
(* concurrent requests, every set of policies and every ledger size.       *)
(***************************************************************************)
EXTENDS TaskAuthorization, TLAPS, SequenceTheorems

-----------------------------------------------------------------------------
(* The ledger operations *)

\* NewEntry builds an active ledger entry of the given task.
LEMMA NewEntryType ==
    ASSUME NEW t \in Tasks, NEW who \in Seq(Users), NEW k \in Risks, NEW d \in BOOLEAN
    PROVE  NewEntry(t, who, k, d) \in Entry
BY DEF NewEntry, Entry

\* An automatic entry is one with no approvals.
LEMMA AutoEntryType ==
    ASSUME NEW t \in Tasks
    PROVE  NewEntry(t, <<>>, "low", TRUE) \in Entry
<1>1. <<>> \in Seq(Users) /\ "low" \in Risks
  BY EmptySeq DEF Risks
<1>2. QED
  BY <1>1, NewEntryType

\* How a step may change the ledger: it grows by active entries or keeps its
\* length, what an entry says is fixed, and its flags only go one way.
Evolves ==
    /\ ledger' \in Seq(Entry)
    /\ Len(ledger) <= Len(ledger')
    /\ \A i \in 1 .. Len(ledger) :
          /\ ledger'[i].task = ledger[i].task
          /\ ledger'[i].approvals = ledger[i].approvals
          /\ ledger'[i].risk = ledger[i].risk
          /\ ledger[i].state = "revoked" => ledger'[i].state = "revoked"
          /\ ledger[i].due => ledger'[i].due
    /\ \A i \in Len(ledger) + 1 .. Len(ledger') : ledger'[i].state = "active"

\* Appending an entry is such a change.
LEMMA AppendEvolves ==
    ASSUME ledger \in Seq(Entry), NEW e \in Entry, e.state = "active",
           ledger' = Append(ledger, e)
    PROVE  /\ Evolves
           /\ Len(ledger') = Len(ledger) + 1
           /\ ledger'[Len(ledger) + 1] = e
           /\ \A i \in 1 .. Len(ledger) : ledger'[i] = ledger[i]
<1>1. /\ ledger' \in Seq(Entry)
      /\ Len(ledger') = Len(ledger) + 1
      /\ ledger'[Len(ledger) + 1] = e
      /\ \A i \in 1 .. Len(ledger) : ledger'[i] = ledger[i]
  BY AppendProperties
<1>2. Len(ledger) \in Nat
  BY LenProperties
<1>3. QED
  BY <1>1, <1>2 DEF Evolves

\* So is replacing one entry by a later form of itself.
LEMMA ChangeEvolves ==
    ASSUME ledger \in Seq(Entry), NEW i \in 1 .. Len(ledger), NEW e \in Entry,
           ledger' = [ledger EXCEPT ![i] = e],
           e.task = ledger[i].task, e.approvals = ledger[i].approvals,
           e.risk = ledger[i].risk,
           ledger[i].state = "revoked" => e.state = "revoked",
           ledger[i].due => e.due
    PROVE  /\ Evolves
           /\ Len(ledger') = Len(ledger)
           /\ ledger'[i] = e
           /\ \A j \in 1 .. Len(ledger) : j # i => ledger'[j] = ledger[j]
<1>1. /\ ledger' \in Seq(Entry)
      /\ Len(ledger') = Len(ledger)
      /\ \A j \in 1 .. Len(ledger) : ledger'[j] = IF j = i THEN e ELSE ledger[j]
  BY ExceptSeq
<1>2. Len(ledger) \in Nat
  BY LenProperties
<1>3. QED
  BY <1>1, <1>2 DEF Evolves

LEMMA RevokeEvolves ==
    ASSUME ledger \in Seq(Entry), NEW i \in 1 .. Len(ledger), RevokeLedger(i)
    PROVE  /\ Evolves
           /\ Len(ledger') = Len(ledger)
           /\ ledger'[i] = [ledger[i] EXCEPT !.state = "revoked"]
           /\ \A j \in 1 .. Len(ledger) : j # i => ledger'[j] = ledger[j]
<1> DEFINE e == [ledger[i] EXCEPT !.state = "revoked"]
<1>1. ledger[i] \in Entry
  BY ElementOfSeq
<1>2. e \in Entry /\ e.task = ledger[i].task /\ e.approvals = ledger[i].approvals
      /\ e.risk = ledger[i].risk /\ e.state = "revoked" /\ e.due = ledger[i].due
  BY <1>1 DEF Entry
<1>3. ledger' = [ledger EXCEPT ![i] = e]
  BY DEF RevokeLedger
<1> HIDE DEF e
<1>4. /\ Evolves
      /\ Len(ledger') = Len(ledger)
      /\ ledger'[i] = e
      /\ \A j \in 1 .. Len(ledger) : j # i => ledger'[j] = ledger[j]
  BY <1>2, <1>3, ChangeEvolves
<1>5. QED
  BY <1>4 DEF e

LEMMA TimeEvolves ==
    ASSUME ledger \in Seq(Entry), NEW i \in 1 .. Len(ledger),
           NotBeforePasses(i) \/ Expire(i)
    PROVE  /\ Evolves
           /\ Len(ledger') = Len(ledger)
           /\ \A j \in 1 .. Len(ledger) : ledger'[j].state = ledger[j].state
<1>1. ledger[i] \in Entry
  BY ElementOfSeq
<1>2. \E e \in Entry :
        /\ ledger' = [ledger EXCEPT ![i] = e]
        /\ e.task = ledger[i].task /\ e.approvals = ledger[i].approvals
        /\ e.risk = ledger[i].risk /\ e.state = ledger[i].state
        /\ ledger[i].due => e.due
  <2>1. CASE NotBeforePasses(i)
    <3>1. [ledger[i] EXCEPT !.due = TRUE] \in Entry
      BY <1>1 DEF Entry
    <3>2. QED
      BY <1>1, <2>1, <3>1 DEF NotBeforePasses, Entry
  <2>2. CASE Expire(i)
    <3>1. [ledger[i] EXCEPT !.expired = TRUE] \in Entry
      BY <1>1 DEF Entry
    <3>2. QED
      BY <1>1, <2>2, <3>1 DEF Expire, Entry
  <2>3. QED
    BY <2>1, <2>2
<1>3. PICK e \in Entry :
        /\ ledger' = [ledger EXCEPT ![i] = e]
        /\ e.task = ledger[i].task /\ e.approvals = ledger[i].approvals
        /\ e.risk = ledger[i].risk /\ e.state = ledger[i].state
        /\ ledger[i].due => e.due
  BY <1>2
<1>4. /\ Evolves
      /\ Len(ledger') = Len(ledger)
      /\ ledger'[i] = e
      /\ \A j \in 1 .. Len(ledger) : j # i => ledger'[j] = ledger[j]
  BY <1>3, ChangeEvolves
<1>5. QED
  BY <1>3, <1>4

-----------------------------------------------------------------------------
(* What a step does to the bindings of the tasks *)

Released == {"executable", "dispatched"}
Unsigned == {"none", "draft", "security_scanned", "mfa_approved"}

\* A task is bound to a new entry, one of its own, when it becomes "signed" or,
\* to a due one, while it is executable; it loses its entry only by being
\* stripped; it is released only on a due entry; it becomes revoked only together
\* with its entry; it goes back before its signature only by being reopened; new
\* entries carry no approvals or those of a task.
StepShape ==
    /\ Evolves
    /\ entry' \in [Tasks -> 0 .. Len(ledger')]
    /\ status' \in [Tasks -> Statuses]
    /\ stripped \subseteq stripped' /\ reopened \subseteq reopened'
    /\ \A t \in Tasks :
          /\ entry'[t] # entry[t] =>
                \/ /\ entry'[t] = 0
                   /\ t \in stripped'
                   /\ status'[t] = status[t]
                \/ /\ entry'[t] \in Len(ledger) + 1 .. Len(ledger')
                   /\ ledger'[entry'[t]].task = t
                   /\ entry[t] = 0 \/ status[t] \in Unsigned
                   /\ \/ status'[t] = "signed"
                      \/ status'[t] \in Released /\ ledger'[entry'[t]].due
          /\ status'[t] \in Released =>
                \/ status[t] \in Released
                \/ entry[t] # 0 /\ ledger[entry[t]].due
          /\ status'[t] = "revoked" =>
                \/ status[t] = "revoked"
                \/ entry[t] = 0
                \/ ledger'[entry[t]].state = "revoked"
          /\ status'[t] \in Unsigned =>
                status[t] \in Unsigned \/ entry[t] = 0 \/ t \in reopened'
    /\ \A i \in Len(ledger) + 1 .. Len(ledger') :
          /\ entry'[ledger'[i].task] = i
          /\ \/ ledger'[i].approvals = <<>>
             \/ \E t \in Tasks : ledger'[i].approvals = approvals[t]

\* A step that leaves the ledger and the bindings alone has that shape when its
\* status changes do.
LEMMA QuietShape ==
    ASSUME TypeOK, UNCHANGED <<entry, ledger, stripped>>, reopened \subseteq reopened',
           status' \in [Tasks -> Statuses],
           \A t \in Tasks : status'[t] # status[t] =>
              /\ status'[t] # "revoked"
              /\ status'[t] \in Released =>
                    status[t] \in Released \/ (entry[t] # 0 /\ ledger[entry[t]].due)
              /\ status'[t] \in Unsigned =>
                    status[t] \in Unsigned \/ entry[t] = 0 \/ t \in reopened'
    PROVE  StepShape
<1>1. Len(ledger) \in Nat /\ ledger \in Seq(Entry)
  BY LenProperties DEF TypeOK
<1>2. Evolves
  BY <1>1 DEF Evolves
<1>3. QED
  BY <1>1, <1>2 DEF StepShape, TypeOK

LEMMA AutoSignShape ==
    ASSUME TypeOK, NEW t \in Tasks, status[t] \in Unsigned, AutoSign(t),
           UNCHANGED <<stripped, reopened>>
    PROVE  StepShape
<1> DEFINE e == NewEntry(t, <<>>, "low", TRUE)
<1>1. e \in Entry /\ e.state = "active" /\ e.task = t /\ e.approvals = <<>>
  BY AutoEntryType DEF NewEntry
<1>2. ledger' = Append(ledger, e)
  BY DEF AutoSign
<1> HIDE DEF e
<1>3. Len(ledger) \in Nat /\ ledger \in Seq(Entry)
  BY LenProperties DEF TypeOK
<1>4. /\ Evolves
      /\ Len(ledger') = Len(ledger) + 1
      /\ ledger'[Len(ledger) + 1] = e
  BY <1>1, <1>2, <1>3, AppendEvolves
<1>5. /\ entry' = [entry EXCEPT ![t] = Len(ledger) + 1]
      /\ status' = [status EXCEPT ![t] = "signed"]
  BY DEF AutoSign
<1>6. /\ entry' \in [Tasks -> 0 .. Len(ledger')]
      /\ status' \in [Tasks -> Statuses]
  BY <1>3, <1>4, <1>5 DEF TypeOK, Statuses
<1>7. ASSUME NEW u \in Tasks
      PROVE  /\ u # t => entry'[u] = entry[u] /\ status'[u] = status[u]
             /\ entry'[t] = Len(ledger) + 1 /\ status'[t] = "signed"
  BY <1>5 DEF TypeOK
<1>8. QED
  BY <1>1, <1>3, <1>4, <1>6, <1>7 DEF StepShape, Released, Unsigned

LEMMA SignShape ==
    ASSUME TypeOK, ScanPresent, NEW t \in Tasks, Sign(t)
    PROVE  StepShape
<1> DEFINE e == NewEntry(t, approvals[t], scan[t].risk, FALSE)
<1>1. scan[t].risk \in Risks /\ approvals[t] \in Seq(Users)
  BY DEF TypeOK, ScanPresent, Sign, ScanResults
<1>2. e \in Entry /\ e.state = "active" /\ e.task = t /\ e.approvals = approvals[t]
  BY <1>1, NewEntryType DEF NewEntry
<1>3. ledger' = Append(ledger, e)
  BY DEF Sign
<1> HIDE DEF e
<1>4. Len(ledger) \in Nat /\ ledger \in Seq(Entry)
  BY LenProperties DEF TypeOK
<1>5. /\ Evolves
      /\ Len(ledger') = Len(ledger) + 1
      /\ ledger'[Len(ledger) + 1] = e
  BY <1>2, <1>3, <1>4, AppendEvolves
<1>6. /\ entry' = [entry EXCEPT ![t] = Len(ledger) + 1]
      /\ status' = [status EXCEPT ![t] = "signed"]
  BY DEF Sign
<1>7. /\ entry' \in [Tasks -> 0 .. Len(ledger')]
      /\ status' \in [Tasks -> Statuses]
  BY <1>4, <1>5, <1>6 DEF TypeOK, Statuses
<1>8. ASSUME NEW u \in Tasks
      PROVE  /\ u # t => entry'[u] = entry[u] /\ status'[u] = status[u]
             /\ entry'[t] = Len(ledger) + 1 /\ status'[t] = "signed"
  BY <1>6 DEF TypeOK
<1>9. UNCHANGED <<stripped, reopened>> /\ status[t] \in Unsigned
  BY DEF Sign, history, Unsigned
<1>10. QED
  BY <1>2, <1>4, <1>5, <1>7, <1>8, <1>9 DEF StepShape, Released, Unsigned

LEMMA RevokeShape ==
    ASSUME TypeOK, NEW t \in Tasks, Revoke(t)
    PROVE  StepShape
<1>1. Len(ledger) \in Nat /\ ledger \in Seq(Entry) /\ entry[t] \in 0 .. Len(ledger)
  BY LenProperties DEF TypeOK
<1>2. /\ Evolves
      /\ Len(ledger') = Len(ledger)
      /\ entry[t] # 0 => ledger'[entry[t]].state = "revoked"
  <2>1. CASE entry[t] = 0
    BY <1>1, <2>1 DEF Revoke, Evolves
  <2>2. CASE entry[t] # 0
    <3>1. RevokeLedger(entry[t]) /\ entry[t] \in 1 .. Len(ledger)
      BY <1>1, <2>2 DEF Revoke
    <3>2. ledger[entry[t]] \in Entry
      BY <1>1, <3>1, ElementOfSeq
    <3>3. QED
      BY <1>1, <3>1, <3>2, RevokeEvolves DEF Entry
  <2>3. QED
    BY <2>1, <2>2
<1>3. /\ entry' = entry
      /\ status' = [status EXCEPT ![t] = "revoked"]
      /\ status' \in [Tasks -> Statuses]
  BY DEF Revoke, TypeOK, Statuses
<1>4. UNCHANGED <<stripped, reopened>>
  BY DEF Revoke, history
<1>5. QED
  BY <1>1, <1>2, <1>3, <1>4 DEF StepShape, TypeOK, Released, Unsigned

\* What is signed while it is dispatched gets a due entry.
LEMMA SignAtDispatchShape ==
    ASSUME TypeOK, NEW t \in Tasks, SignAtDispatch(t)
    PROVE  StepShape
<1> DEFINE e == NewEntry(t, <<>>, "low", TRUE)
<1>1. e \in Entry /\ e.state = "active" /\ e.task = t /\ e.approvals = <<>> /\ e.due
  BY AutoEntryType DEF NewEntry
<1>2. ledger' = Append(ledger, e)
  BY DEF SignAtDispatch
<1> HIDE DEF e
<1>3. Len(ledger) \in Nat /\ ledger \in Seq(Entry)
  BY LenProperties DEF TypeOK
<1>4. /\ Evolves
      /\ Len(ledger') = Len(ledger) + 1
      /\ ledger'[Len(ledger) + 1] = e
  BY <1>1, <1>2, <1>3, AppendEvolves
<1>5. /\ entry' = [entry EXCEPT ![t] = Len(ledger) + 1]
      /\ status' = status \/ status' = [status EXCEPT ![t] = "dispatched"]
      /\ status[t] = "executable" /\ entry[t] = 0
      /\ UNCHANGED <<stripped, reopened>>
  BY DEF SignAtDispatch, history
<1>6. /\ entry' \in [Tasks -> 0 .. Len(ledger')]
      /\ status' \in [Tasks -> Statuses]
  <2>1. Len(ledger) + 1 \in 0 .. Len(ledger') /\ 0 .. Len(ledger) \subseteq 0 .. Len(ledger')
    BY <1>3, <1>4
  <2>2. entry \in [Tasks -> 0 .. Len(ledger)] /\ status \in [Tasks -> Statuses]
    BY DEF TypeOK
  <2>3. entry' \in [Tasks -> 0 .. Len(ledger')]
    BY <1>5, <2>1, <2>2
  <2>4. status' \in [Tasks -> Statuses]
    BY <1>5, <2>2 DEF Statuses
  <2>5. QED
    BY <2>3, <2>4
<1>7. ASSUME NEW u \in Tasks
      PROVE  /\ u # t => entry'[u] = entry[u] /\ status'[u] = status[u]
             /\ entry'[t] = Len(ledger) + 1
             /\ status'[t] \in Released /\ status[t] \in Released /\ entry[t] = 0
  BY <1>5 DEF TypeOK, Released
<1>8. ASSUME NEW u \in Tasks, u # t
      PROVE  /\ status'[u] \in Released => status[u] \in Released
             /\ status'[u] = "revoked" => status[u] = "revoked"
             /\ status'[u] \in Unsigned => status[u] \in Unsigned
  BY <1>7, <1>8
<1>9. status'[t] # "revoked" /\ status'[t] \notin Unsigned
  BY <1>7 DEF Released, Unsigned
<1>10. ledger'[entry'[t]].task = t /\ ledger'[entry'[t]].due
  BY <1>1, <1>4, <1>7
<1>11. \A u \in Tasks : status'[u] \in Unsigned => status[u] \in Unsigned
  BY <1>8, <1>9
<1>12. \A u \in Tasks : status'[u] = "revoked" => status[u] = "revoked"
  BY <1>8, <1>9
<1>13. \A u \in Tasks : status'[u] \in Released => status[u] \in Released
  BY <1>7, <1>8
<1>14. \A u \in Tasks : entry'[u] # entry[u] =>
         /\ entry'[u] \in Len(ledger) + 1 .. Len(ledger')
         /\ ledger'[entry'[u]].task = u
         /\ entry[u] = 0
         /\ status'[u] \in Released /\ ledger'[entry'[u]].due
  BY <1>3, <1>4, <1>7, <1>10
<1>15. \A i \in Len(ledger) + 1 .. Len(ledger') :
         entry'[ledger'[i].task] = i /\ ledger'[i].approvals = <<>>
  BY <1>1, <1>3, <1>4, <1>7
<1>16. QED
  BY <1>4, <1>5, <1>6, <1>11, <1>12, <1>13, <1>14, <1>15 DEF StepShape

\* A restart leaves the ledger and the statuses alone; the bindings it takes
\* away are those of stripped tasks.
LEMMA RestartShape ==
    ASSUME TypeOK, Restart
    PROVE  StepShape
<1>1. Len(ledger) \in Nat /\ ledger \in Seq(Entry) /\ entry \in [Tasks -> 0 .. Len(ledger)]
  BY LenProperties DEF TypeOK
<1>2. UNCHANGED <<ledger, status, reopened>> /\ stripped \subseteq stripped'
  BY DEF Restart, LoadSnapshot, LoadRows
<1>3. Evolves
  BY <1>1, <1>2 DEF Evolves
<1>4. /\ entry' \in [Tasks -> 0 .. Len(ledger)]
      /\ \A t \in Tasks : entry'[t] # entry[t] => entry'[t] = 0 /\ t \in stripped'
  BY <1>1 DEF Restart, LoadSnapshot, LoadRows, HasLost
<1>5. QED
  BY <1>1, <1>2, <1>3, <1>4 DEF StepShape, TypeOK

\* What a suspended request carries.
LEMMA RequestTypes ==
    ASSUME TypeOK, NEW r \in Requests
    PROVE  /\ req[r].op \in {"scan", "autoscan", "finalize"} => req[r] \in ScanRequests
           /\ req[r].op = "approve" => req[r] \in ApproveRequests
<1>1. req[r] \in {Idle} \cup ScanRequests \cup ApproveRequests
  BY DEF TypeOK
<1>2. /\ Idle.op = "idle"
      /\ \A x \in ScanRequests : x.op \in {"scan", "autoscan", "finalize"}
      /\ \A x \in ApproveRequests : x.op = "approve"
  BY DEF Idle, ScanRequests, ApproveRequests
<1>3. QED
  BY <1>1, <1>2

\* Every step of the system, and every stutter, has the shape.
LEMMA NextShape ==
    ASSUME TypeOK, ScanPresent, [Next]_vars
    PROVE  StepShape
<1> USE DEF TypeOK, history
<1>1. ASSUME NEW t \in Tasks, TaskStep(t) PROVE StepShape
  <2>1. CASE CreateDraft(t)
    BY <2>1, QuietShape DEF CreateDraft, Created, Statuses, Released, Unsigned
  <2>2. CASE CreateAutoSigned(t)
    BY <2>2, AutoSignShape DEF CreateAutoSigned, Unsigned
  <2>3. ASSUME NEW u \in Users, ApproveNow(t, u) PROVE StepShape
    BY <2>3, QuietShape DEF ApproveNow, Approvable, RecordApproval, Statuses, Released, Unsigned
  <2>4. CASE Sign(t)
    BY <2>4, SignShape
  <2>5. CASE Promote(t)
    BY <2>5, QuietShape DEF Promote, Promotable, Statuses, Released, Unsigned
  <2>6. CASE Dispatch(t)
    BY <2>6, QuietShape DEF Dispatch, Statuses, Released, Unsigned
  <2>7. CASE ResetStale(t)
    BY <2>7, QuietShape DEF ResetStale, Statuses, Released, Unsigned
  <2>8. CASE Revoke(t)
    BY <2>8, RevokeShape
  <2>9. ASSUME NEW o \in Outcomes, Report(t, o) PROVE StepShape
    BY <2>9, QuietShape DEF Report, Outcomes, Statuses, Released, Unsigned
  <2>10. CASE SignAtDispatch(t)
    BY <2>10, SignAtDispatchShape
  <2>11. QED
    BY <1>1, <2>1, <2>2, <2>3, <2>4, <2>5, <2>6, <2>7, <2>8, <2>9, <2>10 DEF TaskStep
<1>2. ASSUME NEW r \in Requests, RequestStep(r) PROVE StepShape
  <2>1. CASE FinishScan(r)
    <3>1. req[r].task \in Tasks
      BY <2>1, RequestTypes DEF FinishScan, ScanRequests
    <3>2. QED
      BY <2>1, <3>1, QuietShape DEF FinishScan, TakenBack, Statuses, Released, Unsigned
  <2>2. CASE AutoFinalize(r)
    <3>1. req[r].task \in Tasks
      BY <2>2, RequestTypes DEF AutoFinalize, ScanRequests
    <3>2. QED
      BY <2>2, <3>1, QuietShape, AutoSignShape DEF AutoFinalize, FinalizeAllowed, Unsigned
  <2>3. CASE FinishApprove(r)
    <3>1. req[r].task \in Tasks /\ req[r].user \in Users
      BY <2>3, RequestTypes DEF FinishApprove, ApproveRequests
    <3>2. QED
      BY <2>3, <3>1, QuietShape
      DEF FinishApprove, RecordApproval, TakenBack, Statuses, Released, Unsigned
  <2>4. CASE RejectApprove(r)
    BY <2>4, QuietShape DEF RejectApprove
  <2>5. ASSUME NEW t \in Tasks, CreateAndScan(r, t) \/ StartScan(r, t) PROVE StepShape
    BY <2>5, QuietShape DEF CreateAndScan, StartScan, Created, Statuses, Released, Unsigned
  <2>6. ASSUME NEW t \in Tasks, NEW u \in Users, StartApprove(r, t, u) PROVE StepShape
    BY <2>6, QuietShape DEF StartApprove
  <2>7. QED
    BY <1>2, <2>1, <2>2, <2>3, <2>4, <2>5, <2>6 DEF RequestStep
<1>3. ASSUME NEW i \in 1 .. Len(ledger), LedgerStep(i) PROVE StepShape
  <2>1. ledger \in Seq(Entry) /\ Len(ledger) \in Nat
    BY LenProperties
  <2>2. UNCHANGED <<entry, status, stripped, reopened>>
    BY <1>3 DEF LedgerStep, RevokeEntry, NotBeforePasses, Expire
  <2>3. Evolves /\ Len(ledger') = Len(ledger)
    BY <1>3, <2>1, RevokeEvolves, TimeEvolves DEF LedgerStep, RevokeEntry
  <2>4. QED
    BY <2>1, <2>2, <2>3 DEF StepShape
<1>4. ASSUME NEW p \in Policies, UpdatePolicy(p) PROVE StepShape
  BY <1>4, QuietShape DEF UpdatePolicy
<1>5. CASE Restart
  BY <1>5, RestartShape
<1>6. CASE UNCHANGED vars
  BY <1>6, QuietShape DEF vars
<1>7. QED
  BY <1>1, <1>2, <1>3, <1>4, <1>5, <1>6 DEF Next

-----------------------------------------------------------------------------
(* What a step does to scans, approvals, requests and the policy *)

\* Scan results are only replaced by scan results or, in a restart, stripped; at
\* most one approval of a user who has not approved yet is added to a task, and
\* requests stay typed.
DataShape ==
    /\ scan' \in [Tasks -> ScanResults \cup {NoScan}]
    /\ approvals' \in [Tasks -> Seq(Users)]
    /\ policy' \in Policies
    /\ req' \in [Requests -> {Idle} \cup ScanRequests \cup ApproveRequests]
    /\ delivered' \subseteq Tasks
    /\ blocked' \subseteq Tasks /\ overtaken' \subseteq Tasks
    /\ stripped' \subseteq Tasks /\ reopened' \subseteq Tasks
    /\ stripped \subseteq stripped'
    /\ \A t \in Tasks :
          /\ \/ scan'[t] = scan[t]
             \/ scan'[t] \in ScanResults
             \/ t \in stripped' /\ \A r \in Requests : req'[r] = Idle
          /\ \/ approvals'[t] = approvals[t]
             \/ approvals'[t] = <<>>
             \/ \E u \in Users : /\ ~HasApproved(t, u)
                                 /\ approvals'[t] = Append(approvals[t], u)

\* No result is a scan result.
LEMMA NoScanType == NoScan \notin ScanResults
BY DEF NoScan, ScanResults, Risks

LEMMA RecordApprovalShape ==
    ASSUME TypeOK, NEW t \in Tasks, NEW u \in Users, RecordApproval(t, u)
    PROVE  /\ approvals' \in [Tasks -> Seq(Users)]
           /\ \A v \in Tasks :
                 \/ approvals'[v] = approvals[v]
                 \/ \E w \in Users : /\ ~HasApproved(v, w)
                                     /\ approvals'[v] = Append(approvals[v], w)
<1>1. /\ ~HasApproved(t, u)
      /\ approvals' = [approvals EXCEPT ![t] = Append(approvals[t], u)]
      /\ approvals \in [Tasks -> Seq(Users)]
  BY DEF RecordApproval, TypeOK
<1>2. Append(approvals[t], u) \in Seq(Users)
  BY <1>1, AppendProperties
<1>3. QED
  BY <1>1, <1>2

LEMMA NextDataShape ==
    ASSUME TypeOK, [Next]_vars
    PROVE  DataShape
<1> USE DEF DataShape, history
<1>0. /\ scan \in [Tasks -> ScanResults \cup {NoScan}]
      /\ approvals \in [Tasks -> Seq(Users)]
      /\ policy \in Policies
      /\ req \in [Requests -> {Idle} \cup ScanRequests \cup ApproveRequests]
      /\ delivered \subseteq Tasks
      /\ blocked \subseteq Tasks /\ overtaken \subseteq Tasks
      /\ stripped \subseteq Tasks /\ reopened \subseteq Tasks
  BY DEF TypeOK
<1>1. ASSUME NEW t \in Tasks, TaskStep(t) PROVE DataShape
  <2>1. CASE CreateDraft(t)
    BY <1>0, <2>1 DEF CreateDraft
  <2>2. CASE CreateAutoSigned(t)
    BY <1>0, <2>2 DEF CreateAutoSigned
  <2>3. ASSUME NEW u \in Users, ApproveNow(t, u) PROVE DataShape
    BY <1>0, <2>3, RecordApprovalShape DEF ApproveNow
  <2>4. CASE Sign(t)
    BY <1>0, <2>4 DEF Sign
  <2>5. CASE Promote(t)
    BY <1>0, <2>5 DEF Promote
  <2>6. CASE Dispatch(t)
    BY <1>0, <2>6 DEF Dispatch
  <2>7. CASE ResetStale(t)
    BY <1>0, <2>7 DEF ResetStale
  <2>8. CASE Revoke(t)
    BY <1>0, <2>8 DEF Revoke
  <2>9. ASSUME NEW o \in Outcomes, Report(t, o) PROVE DataShape
    BY <1>0, <2>9 DEF Report
  <2>10. CASE SignAtDispatch(t)
    BY <1>0, <2>10 DEF SignAtDispatch
  <2>11. QED
    BY <1>1, <2>1, <2>2, <2>3, <2>4, <2>5, <2>6, <2>7, <2>8, <2>9, <2>10 DEF TaskStep
<1>2. ASSUME NEW r \in Requests, RequestStep(r) PROVE DataShape
  <2>1. CASE FinishScan(r)
    <3>1. req[r].task \in Tasks
      BY <2>1, RequestTypes DEF FinishScan, ScanRequests
    <3>2. [op |-> "finalize", task |-> req[r].task] \in ScanRequests
      BY <3>1 DEF ScanRequests
    <3>3. QED
      BY <1>0, <2>1, <3>1, <3>2 DEF FinishScan, TakenBack
  <2>2. CASE AutoFinalize(r)
    BY <1>0, <2>2 DEF AutoFinalize
  <2>3. CASE FinishApprove(r)
    <3>1. req[r].task \in Tasks /\ req[r].user \in Users
      BY <2>3, RequestTypes DEF FinishApprove, ApproveRequests
    <3>2. QED
      BY <1>0, <2>3, <3>1, RecordApprovalShape DEF FinishApprove, TakenBack
  <2>4. CASE RejectApprove(r)
    BY <1>0, <2>4 DEF RejectApprove
  <2>5. ASSUME NEW t \in Tasks, CreateAndScan(r, t) \/ StartScan(r, t) PROVE DataShape
    <3>1. \A op \in {"scan", "autoscan"} : [op |-> op, task |-> t] \in ScanRequests
      BY DEF ScanRequests
    <3>2. QED
      BY <1>0, <2>5, <3>1 DEF CreateAndScan, StartScan
  <2>6. ASSUME NEW t \in Tasks, NEW u \in Users, StartApprove(r, t, u) PROVE DataShape
    <3>1. [op |-> "approve", task |-> t, user |-> u] \in ApproveRequests
      BY DEF ApproveRequests
    <3>2. QED
      BY <1>0, <2>6, <3>1 DEF StartApprove
  <2>7. QED
    BY <1>2, <2>1, <2>2, <2>3, <2>4, <2>5, <2>6 DEF RequestStep
<1>3. ASSUME NEW i \in 1 .. Len(ledger), LedgerStep(i) PROVE DataShape
  BY <1>0, <1>3 DEF LedgerStep, RevokeEntry, NotBeforePasses, Expire
<1>4. ASSUME NEW p \in Policies, UpdatePolicy(p) PROVE DataShape
  BY <1>0, <1>4 DEF UpdatePolicy
<1>5. CASE Restart
  <2>1. /\ req' = [r \in Requests |-> Idle]
        /\ UNCHANGED <<policy, delivered, blocked, overtaken, reopened>>
    BY <1>5 DEF Restart
  <2>2. CASE LoadSnapshot
    BY <1>0, <2>1, <2>2 DEF LoadSnapshot
  <2>3. CASE LoadRows
    <3>1. <<>> \in Seq(Users)
      BY EmptySeq
    <3>2. \A t \in Tasks : scan'[t] = scan[t] \/ t \in stripped'
      BY <1>0, <2>3 DEF LoadRows, HasLost
    <3>3. QED
      BY <1>0, <2>1, <2>3, <3>1, <3>2 DEF LoadRows
  <2>4. QED
    BY <1>5, <2>2, <2>3 DEF Restart
<1>6. CASE UNCHANGED vars
  BY <1>0, <1>6 DEF vars
<1>7. QED
  BY <1>1, <1>2, <1>3, <1>4, <1>5, <1>6 DEF Next

-----------------------------------------------------------------------------
(* The scan result is there when it is read, and types are kept *)

\* No step makes a task approvable, or a request an approval, without a scan.
LEMMA ScanPresentStep ==
    ASSUME TypeOK, ScanPresent, [Next]_vars
    PROVE  ScanPresent'
<1>1. /\ stripped \subseteq stripped'
      /\ \A t \in Tasks \ stripped' : scan[t] # NoScan => scan'[t] # NoScan
      /\ \A r \in Requests : req'[r].op = "approve" =>
            \A t \in Tasks : scan[t] # NoScan => scan'[t] # NoScan
  BY NextDataShape, NoScanType DEF DataShape, Idle
<1> DEFINE Waiting == {"security_scanned", "mfa_approved"}
           Quiet == /\ \A t \in Tasks : status'[t] \in Waiting => status[t] \in Waiting
                    /\ \A r \in Requests : req'[r] = req[r] \/ req'[r].op # "approve"
<1>2. ASSUME Quiet PROVE ScanPresent'
  <2>1. \A t \in Tasks \ stripped' : status'[t] \in Waiting => scan'[t] # NoScan
    BY <1>1, <1>2 DEF ScanPresent
  <2>2. ASSUME NEW r \in Requests, req'[r].op = "approve"
        PROVE  scan'[req'[r].task] # NoScan
    <3>1. req'[r] = req[r] /\ req[r].op = "approve"
      BY <1>2, <2>2
    <3>2. req[r].task \in Tasks /\ scan[req[r].task] # NoScan
      BY <3>1, RequestTypes DEF ScanPresent, ApproveRequests
    <3>3. QED
      BY <1>1, <2>2, <3>1, <3>2
  <2>3. QED
    BY <2>1, <2>2 DEF ScanPresent
<1> USE DEF TypeOK
<1>3. ASSUME NEW t \in Tasks, TaskStep(t) PROVE ScanPresent'
  <2>1. ASSUME NEW u \in Users, ApproveNow(t, u) PROVE Quiet
    BY <2>1 DEF ApproveNow, Approvable, RecordApproval
  <2>2. CASE CreateDraft(t) \/ CreateAutoSigned(t)
    BY <1>2, <2>2 DEF CreateDraft, Created, CreateAutoSigned, AutoSign
  <2>3. CASE \/ Sign(t) \/ Promote(t) \/ Dispatch(t) \/ SignAtDispatch(t)
             \/ ResetStale(t) \/ Revoke(t)
    BY <1>2, <2>3 DEF Sign, Promote, Dispatch, SignAtDispatch, ResetStale, Revoke
  <2>4. ASSUME NEW o \in Outcomes, Report(t, o) PROVE Quiet
    BY <2>4 DEF Report, Outcomes
  <2>5. QED
    BY <1>2, <1>3, <2>1, <2>2, <2>3, <2>4 DEF TaskStep
<1>4. ASSUME NEW r \in Requests, RequestStep(r) PROVE ScanPresent'
  <2>1. CASE FinishScan(r)
    <3>1. req[r].task \in Tasks
      BY <2>1, RequestTypes DEF FinishScan, ScanRequests
    <3>2. scan'[req[r].task] \in ScanResults
      BY <2>1, <3>1 DEF FinishScan
    <3>3. \A t \in Tasks \ stripped' : status'[t] \in Waiting => scan'[t] # NoScan
      BY <1>1, <2>1, <3>1, <3>2, NoScanType DEF FinishScan, ScanPresent
    <3>4. ASSUME NEW q \in Requests, req'[q].op = "approve"
          PROVE  scan'[req'[q].task] # NoScan
      <4>1. req'[q] = req[q]
        BY <2>1, <3>4 DEF FinishScan, Idle
      <4>2. req[q].task \in Tasks /\ scan[req[q].task] # NoScan
        BY <3>4, <4>1, RequestTypes DEF ScanPresent, ApproveRequests
      <4>3. QED
        BY <1>1, <3>4, <4>1, <4>2
    <3>5. QED
      BY <3>3, <3>4 DEF ScanPresent
  <2>2. CASE AutoFinalize(r)
    BY <1>2, <2>2 DEF AutoFinalize, AutoSign, Idle
  <2>3. CASE FinishApprove(r)
    <3>1. req[r].task \in Tasks /\ req[r].op = "approve"
      BY <2>3, RequestTypes DEF FinishApprove, ApproveRequests
    <3>2. scan[req[r].task] # NoScan
      BY <3>1 DEF ScanPresent
    <3>3. \A t \in Tasks \ stripped' : status'[t] \in Waiting => scan'[t] # NoScan
      BY <1>1, <2>3, <3>1, <3>2 DEF FinishApprove, RecordApproval, ScanPresent
    <3>4. \A q \in Requests : req'[q] = req[q] \/ req'[q].op # "approve"
      BY <2>3 DEF FinishApprove, Idle
    <3>5. \A q \in Requests : req[q].op = "approve" => req[q].task \in Tasks
      BY RequestTypes DEF ApproveRequests
    <3>6. QED
      BY <1>1, <3>3, <3>4, <3>5 DEF ScanPresent
  <2>4. CASE RejectApprove(r)
    BY <1>2, <2>4 DEF RejectApprove, Idle
  <2>5. ASSUME NEW t \in Tasks, CreateAndScan(r, t) \/ StartScan(r, t) PROVE Quiet
    BY <2>5 DEF CreateAndScan, StartScan, Created
  <2>6. ASSUME NEW t \in Tasks, NEW u \in Users, StartApprove(r, t, u)
        PROVE  ScanPresent'
    <3>1. scan[t] # NoScan /\ scan' = scan /\ status' = status /\ stripped' = stripped
      BY <2>6 DEF StartApprove, Approvable, history
    <3>2. \A q \in Requests :
            req'[q] = req[q] \/ req'[q].task = t
      BY <2>6 DEF StartApprove
    <3>3. QED
      BY <3>1, <3>2 DEF ScanPresent
  <2>7. QED
    BY <1>2, <1>4, <2>1, <2>2, <2>3, <2>4, <2>5, <2>6 DEF RequestStep
<1>5. ASSUME NEW i \in 1 .. Len(ledger), LedgerStep(i) PROVE ScanPresent'
  BY <1>2, <1>5 DEF LedgerStep, RevokeEntry, NotBeforePasses, Expire
<1>6. ASSUME NEW p \in Policies, UpdatePolicy(p) PROVE ScanPresent'
  BY <1>2, <1>6 DEF UpdatePolicy
<1>7. CASE Restart
  <2>1. \A t \in Tasks : status'[t] \in Waiting => status[t] \in Waiting
    BY <1>7 DEF Restart
  <2>2. \A r \in Requests : req'[r].op # "approve"
    BY <1>7 DEF Restart, Idle
  <2>3. QED
    BY <1>2, <2>1, <2>2
<1>8. CASE UNCHANGED vars
  BY <1>2, <1>8 DEF vars
<1>9. QED
  BY <1>3, <1>4, <1>5, <1>6, <1>7, <1>8 DEF Next

Typed == TypeOK /\ ScanPresent

LEMMA TypedInit == Init => Typed
<1> SUFFICES ASSUME Init PROVE Typed
  OBVIOUS
<1>1. <<>> \in Seq(Users) /\ <<>> \in Seq(Entry) /\ Len(<<>>) = 0
  BY EmptySeq, LenProperties
<1>2. QED
  BY <1>1 DEF Init, Typed, TypeOK, ScanPresent, Idle, Statuses

LEMMA TypedStep == Typed /\ [Next]_vars => Typed'
BY NextShape, NextDataShape, ScanPresentStep DEF Typed, TypeOK, StepShape, DataShape, Evolves

\* Types are kept, and approve and sign always find a scan result to read.
THEOREM TypesInvariant == Spec => [](TypeOK /\ ScanPresent)
<1>1. Spec => []Typed
  BY TypedInit, TypedStep, PTL DEF Spec
<1>2. QED
  BY <1>1 DEF Typed

-----------------------------------------------------------------------------
(* No approver counts twice *)

\* Appending an element that does not occur keeps a sequence free of repeats.
LEMMA AppendNoRepeats ==
    ASSUME NEW S, NEW s \in Seq(S), NEW x \in S, NoRepeats(s),
           \A i \in 1 .. Len(s) : s[i] # x
    PROVE  NoRepeats(Append(s, x))
<1>1. /\ Len(s) \in Nat
      /\ Len(Append(s, x)) = Len(s) + 1
      /\ \A i \in 1 .. Len(s) : Append(s, x)[i] = s[i]
      /\ Append(s, x)[Len(s) + 1] = x
  BY AppendProperties, LenProperties
<1>2. QED
  BY <1>1 DEF NoRepeats

LEMMA DistinctStep ==
    ASSUME Typed, DistinctApprovers, [Next]_vars
    PROVE  DistinctApprovers'
<1>1. StepShape /\ DataShape /\ TypeOK
  BY NextShape, NextDataShape DEF Typed
<1>2. ASSUME NEW t \in Tasks PROVE NoRepeats(approvals'[t])
  <2>1. CASE approvals'[t] = approvals[t]
    BY <2>1 DEF DistinctApprovers
  <2>2. ASSUME NEW u \in Users, ~HasApproved(t, u),
               approvals'[t] = Append(approvals[t], u)
        PROVE  NoRepeats(approvals'[t])
    <3>1. approvals[t] \in Seq(Users) /\ NoRepeats(approvals[t])
      BY <1>1 DEF TypeOK, DistinctApprovers
    <3>2. \A i \in 1 .. Len(approvals[t]) : approvals[t][i] # u
      BY <2>2 DEF HasApproved
    <3>3. QED
      BY <2>2, <3>1, <3>2, AppendNoRepeats
  <2>3. NoRepeats(<<>>)
    BY DEF NoRepeats
  <2>4. QED
    BY <1>1, <2>1, <2>2, <2>3 DEF DataShape
<1>3. ASSUME NEW i \in 1 .. Len(ledger') PROVE NoRepeats(ledger'[i].approvals)
  <2>1. Len(ledger) \in Nat /\ Len(ledger') \in Nat
    BY <1>1, LenProperties DEF TypeOK, StepShape, Evolves
  <2>2. CASE i <= Len(ledger)
    BY <1>1, <2>1, <2>2 DEF StepShape, Evolves, DistinctApprovers
  <2>3. CASE i > Len(ledger)
    <3>1. \/ ledger'[i].approvals = <<>>
          \/ \E t \in Tasks : ledger'[i].approvals = approvals[t]
      BY <1>1, <2>1, <2>3 DEF StepShape
    <3>2. NoRepeats(<<>>)
      BY DEF NoRepeats
    <3>3. QED
      BY <3>1, <3>2 DEF DistinctApprovers
  <2>4. QED
    BY <2>1, <2>2, <2>3
<1>4. QED
  BY <1>2, <1>3 DEF DistinctApprovers

\* However many requests of one user wait for the MFA store at once, the user
\* counts once, in the task and in the signed entry.
THEOREM ApproversDistinct == Spec => []DistinctApprovers
<1>1. Init => DistinctApprovers
  BY DEF Init, DistinctApprovers, NoRepeats
<1>2. Spec => [](Typed /\ DistinctApprovers)
  BY <1>1, TypedInit, TypedStep, DistinctStep, PTL DEF Spec
<1>3. QED
  BY <1>2, PTL

-----------------------------------------------------------------------------
(* Release and revocation *)

\* Every binding is to an entry of the task itself: what makes the release
\* invariant inductive, for a signed task is released on the entry it has.  And a
\* task that has entries is bound to one unless it was stripped.
Bound ==
    /\ \A t \in Tasks : entry[t] # 0 => ledger[entry[t]].task = t
    /\ \A i \in 1 .. Len(ledger) :
          entry[ledger[i].task] # 0 \/ ledger[i].task \in stripped

\* A task that kept its link and was never taken back is signed once: when it has
\* an entry it is past its signature, and has no second one.
SignedOnce ==
    \A t \in Tasks \ (stripped \cup reopened) :
        /\ entry[t] # 0 => status[t] \notin Unsigned
        /\ \A i \in 1 .. Len(ledger) : ledger[i].task = t => i = entry[t]

\* A revoked task's newest entry is revoked with it.
NewestRevoked ==
    \A t \in Tasks :
        status[t] = "revoked" /\ entry[t] # 0 => ledger[entry[t]].state = "revoked"

BindingInv == Typed /\ Bound /\ ReleasedOnlyWhenDue /\ SignedOnce /\ NewestRevoked

LEMMA BindingInit == Init => BindingInv
<1> SUFFICES ASSUME Init PROVE BindingInv
  OBVIOUS
<1>1. ledger = <<>> /\ Len(ledger) = 0
  BY LenProperties, EmptySeq DEF Init
<1>2. Bound /\ ReleasedOnlyWhenDue /\ SignedOnce /\ NewestRevoked
  BY <1>1 DEF Init, Bound, ReleasedOnlyWhenDue, SignedOnce, NewestRevoked
<1>3. QED
  BY <1>2, TypedInit DEF BindingInv

LEMMA BindingStep == BindingInv /\ [Next]_vars => BindingInv'
<1> SUFFICES ASSUME BindingInv, [Next]_vars PROVE BindingInv'
  OBVIOUS
<1>1. Typed /\ Typed' /\ StepShape /\ TypeOK
  BY TypedStep, NextShape DEF BindingInv, Typed
<1>2. \A t \in Tasks : entry[t] # 0 => entry[t] \in 1 .. Len(ledger)
  BY <1>1 DEF TypeOK
<1>3. /\ ledger \in Seq(Entry) /\ ledger' \in Seq(Entry)
      /\ Len(ledger) \in Nat /\ Len(ledger') \in Nat
  BY <1>1, LenProperties DEF TypeOK, StepShape, Evolves
<1>4. \A i \in 1 .. Len(ledger') : ledger'[i].task \in Tasks
  <2> TAKE i \in 1 .. Len(ledger')
  <2>1. ledger'[i] \in Entry
    BY <1>3, ElementOfSeq
  <2>2. QED
    BY <2>1 DEF Entry
<1>5. \A t \in Tasks : entry'[t] # 0 => ledger'[entry'[t]].task = t
  BY <1>1, <1>2 DEF BindingInv, Bound, StepShape, Evolves
<1>6. ASSUME NEW i \in 1 .. Len(ledger')
      PROVE  entry'[ledger'[i].task] # 0 \/ ledger'[i].task \in stripped'
  <2>1. CASE i \in Len(ledger) + 1 .. Len(ledger')
    BY <1>1, <1>3, <2>1 DEF StepShape
  <2>2. CASE i \in 1 .. Len(ledger)
    <3> DEFINE t == ledger[i].task
    <3>1. ledger'[i].task = t /\ (entry[t] # 0 \/ t \in stripped)
      BY <1>1, <2>2 DEF BindingInv, Bound, StepShape, Evolves
    <3>2. t \in Tasks
      BY <1>4, <3>1
    <3> HIDE DEF t
    <3>3. QED
      BY <1>1, <3>1, <3>2 DEF StepShape
  <2>3. QED
    BY <1>3, <2>1, <2>2
<1>7. Bound'
  BY <1>5, <1>6 DEF Bound
<1>8. ReleasedOnlyWhenDue'
  <2>1. ASSUME NEW t \in Tasks, status'[t] \in Released, entry'[t] # 0
        PROVE  ledger'[entry'[t]].due
    <3>1. CASE entry'[t] # entry[t]
      BY <1>1, <2>1, <3>1 DEF StepShape, Released
    <3>2. CASE entry'[t] = entry[t]
      <4>1. entry[t] # 0 /\ ledger[entry[t]].due
        BY <1>1, <2>1, <3>2 DEF StepShape, Released, BindingInv, ReleasedOnlyWhenDue
      <4>2. QED
        BY <1>1, <1>2, <3>2, <4>1 DEF StepShape, Evolves
    <3>3. QED
      BY <3>1, <3>2
  <2>2. ASSUME NEW t \in Tasks, status'[t] \in Released, entry'[t] = 0
        PROVE  t \in stripped'
    <3>1. CASE entry[t] = 0
      <4>1. status[t] \in Released
        BY <1>1, <2>2, <3>1 DEF StepShape
      <4>2. t \in stripped
        BY <3>1, <4>1 DEF BindingInv, ReleasedOnlyWhenDue, Released
      <4>3. QED
        BY <1>1, <4>2 DEF StepShape
    <3>2. CASE entry[t] # 0
      BY <1>1, <1>3, <2>2, <3>2 DEF StepShape
    <3>3. QED
      BY <3>1, <3>2
  <2>3. QED
    BY <1>5, <2>1, <2>2 DEF ReleasedOnlyWhenDue, Released
<1>9. SignedOnce'
  <2> SUFFICES ASSUME NEW t \in Tasks, t \notin stripped' \cup reopened'
               PROVE  /\ entry'[t] # 0 => status'[t] \notin Unsigned
                      /\ \A i \in 1 .. Len(ledger') : ledger'[i].task = t => i = entry'[t]
    BY DEF SignedOnce
  <2>1. /\ entry[t] # 0 => status[t] \notin Unsigned
        /\ \A i \in 1 .. Len(ledger) : ledger[i].task = t => i = entry[t]
    BY <1>1 DEF BindingInv, SignedOnce, StepShape
  <2>2. entry'[t] # entry[t] => status'[t] \notin Unsigned
    <3>1. entry'[t] # entry[t] => entry'[t] # 0
      BY <1>1 DEF StepShape
    <3>2. QED
      BY <1>1, <3>1 DEF StepShape, Unsigned, Released
  <2>3. entry'[t] = entry[t] /\ entry[t] # 0 => status'[t] \notin Unsigned
    BY <1>1, <2>1 DEF StepShape
  <2>4. entry[t] # 0 => entry'[t] = entry[t]
    BY <1>1, <2>1 DEF StepShape
  <2>5. ASSUME NEW i \in 1 .. Len(ledger'), ledger'[i].task = t PROVE i = entry'[t]
    <3>1. CASE i \in Len(ledger) + 1 .. Len(ledger')
      BY <1>1, <2>5, <3>1 DEF StepShape
    <3>2. CASE i \in 1 .. Len(ledger)
      <4>1. i = entry[t]
        BY <1>1, <2>1, <2>5, <3>2 DEF StepShape, Evolves
      <4>2. QED
        BY <2>4, <3>2, <4>1
    <3>3. QED
      BY <1>3, <3>1, <3>2
  <2>6. QED
    BY <2>2, <2>3, <2>5
<1>10. NewestRevoked'
  <2>1. ASSUME NEW t \in Tasks, status'[t] = "revoked", entry'[t] # 0
        PROVE  ledger'[entry'[t]].state = "revoked"
    <3>1. entry'[t] = entry[t]
      BY <1>1, <2>1 DEF StepShape, Released
    <3>2. \/ ledger[entry[t]].state = "revoked"
          \/ ledger'[entry[t]].state = "revoked"
      BY <1>1, <2>1, <3>1 DEF StepShape, BindingInv, NewestRevoked
    <3>3. QED
      BY <1>1, <1>2, <2>1, <3>1, <3>2 DEF StepShape, Evolves
  <2>2. QED
    BY <2>1 DEF NewestRevoked
<1>11. QED
  BY <1>1, <1>7, <1>8, <1>9, <1>10 DEF BindingInv

LEMMA BindingInvariant == Spec => []BindingInv
BY BindingInit, BindingStep, PTL DEF Spec

\* What a node may be handed is bound to a ledger entry of its own that is due,
\* through late scans, second signatures, stale resets and restarts.
THEOREM ReleaseOnlyWhenDue == Spec => []ReleasedOnlyWhenDue
<1>1. BindingInv => ReleasedOnlyWhenDue
  BY DEF BindingInv
<1>2. QED
  BY <1>1, BindingInvariant, PTL

\* A live entry of a revoked task is never its newest one, and there is one only
\* if a restart took the task's link or its status was taken back after it had
\* been signed, for any number of tasks, scans, approvals and entries.
THEOREM RevocationReachesLedger == Spec => []RevokedTaskHasNoLiveEntry
<1>1. BindingInv => RevokedTaskHasNoLiveEntry
  <2> SUFFICES ASSUME BindingInv, NEW i \in 1 .. Len(ledger), ledger[i].state = "active",
                      status[ledger[i].task] = "revoked"
               PROVE  /\ i # entry[ledger[i].task]
                      /\ ledger[i].task \in stripped \cup reopened
    BY DEF RevokedTaskHasNoLiveEntry
  <2>1. ledger \in Seq(Entry) /\ Len(ledger) \in Nat
    BY LenProperties DEF BindingInv, Typed, TypeOK
  <2>2. ledger[i].task \in Tasks /\ i # 0
    <3>1. ledger[i] \in Entry
      BY <2>1, ElementOfSeq
    <3>2. QED
      BY <2>1, <3>1 DEF Entry
  <2>3. i # entry[ledger[i].task]
    BY <2>2 DEF BindingInv, NewestRevoked
  <2>4. QED
    BY <2>2, <2>3 DEF BindingInv, SignedOnce
<1>2. QED
  BY <1>1, BindingInvariant, PTL

-----------------------------------------------------------------------------
(* Under MFA every signature has its approvals *)

\* One step of MfaTenantsNeedApprovals.
SignedByApprovers(t) ==
    (policy.mfa /\ status[t] # "none" /\ entry'[t] \notin {0, entry[t]})
        => Len(ledger'[entry'[t]].approvals) >= RequiredApprovals(policy, scan[t].risk)

LEMMA SignedByApproversStep ==
    ASSUME BindingInv, [Next]_vars, NEW t \in Tasks \ stripped
    PROVE  SignedByApprovers(t)
<1> USE DEF SignedByApprovers
<1>1. TypeOK /\ ledger \in Seq(Entry) /\ entry \in [Tasks -> 0 .. Len(ledger)]
  BY DEF BindingInv, Typed, TypeOK
<1>2. ASSUME NEW u \in Tasks, TaskStep(u) PROVE SignedByApprovers(t)
  <2>1. CASE Sign(u)
    <3> DEFINE e == NewEntry(u, approvals[u], scan[u].risk, FALSE)
    <3>1. e \in Entry /\ e.approvals = approvals[u] /\ e.state = "active"
      <4>1. scan[u].risk \in Risks /\ approvals[u] \in Seq(Users)
        BY <2>1 DEF BindingInv, Typed, TypeOK, ScanPresent, Sign, ScanResults
      <4>2. QED
        BY <4>1, NewEntryType DEF NewEntry
    <3>2. ledger'[Len(ledger) + 1] = e
      BY <1>1, <2>1, <3>1, AppendEvolves DEF Sign
    <3>3. Len(e.approvals) >= RequiredApprovals(policy, scan[u].risk)
      BY <2>1, <3>1 DEF Sign, EnoughApprovals
    <3>4. /\ entry'[u] = Len(ledger) + 1
          /\ u # t => entry'[t] = entry[t]
      BY <1>1, <2>1 DEF Sign
    <3> HIDE DEF e
    <3>5. QED
      BY <3>2, <3>3, <3>4
  <2>2. CASE CreateAutoSigned(u)
    BY <1>1, <2>2 DEF CreateAutoSigned, AutoSign
  <2>3. ASSUME NEW v \in Users, ApproveNow(u, v) PROVE SignedByApprovers(t)
    BY <2>3 DEF ApproveNow
  <2>4. CASE CreateDraft(u) \/ Promote(u) \/ Dispatch(u) \/ ResetStale(u) \/ Revoke(u)
    BY <2>4 DEF CreateDraft, Promote, Dispatch, ResetStale, Revoke
  <2>5. ASSUME NEW o \in Outcomes, Report(u, o) PROVE SignedByApprovers(t)
    BY <2>5 DEF Report
  <2>6. CASE SignAtDispatch(u)
    <3>1. u \in stripped
      BY <2>6 DEF SignAtDispatch, BindingInv, ReleasedOnlyWhenDue
    <3>2. entry'[t] = entry[t]
      BY <1>1, <2>6, <3>1 DEF SignAtDispatch
    <3>3. QED
      BY <3>2
  <2>7. QED
    BY <1>2, <2>1, <2>2, <2>3, <2>4, <2>5, <2>6 DEF TaskStep
<1>3. ASSUME NEW r \in Requests, RequestStep(r) PROVE SignedByApprovers(t)
  <2>1. CASE AutoFinalize(r)
    BY <2>1 DEF AutoFinalize, FinalizeAllowed
  <2>2. CASE FinishScan(r) \/ FinishApprove(r) \/ RejectApprove(r)
    BY <2>2 DEF FinishScan, FinishApprove, RejectApprove
  <2>3. ASSUME NEW u \in Tasks, CreateAndScan(r, u) \/ StartScan(r, u)
        PROVE  SignedByApprovers(t)
    BY <2>3 DEF CreateAndScan, StartScan
  <2>4. ASSUME NEW u \in Tasks, NEW v \in Users, StartApprove(r, u, v)
        PROVE  SignedByApprovers(t)
    BY <2>4 DEF StartApprove
  <2>5. QED
    BY <1>3, <2>1, <2>2, <2>3, <2>4 DEF RequestStep
<1>4. ASSUME NEW i \in 1 .. Len(ledger), LedgerStep(i) PROVE SignedByApprovers(t)
  BY <1>4 DEF LedgerStep, RevokeEntry, NotBeforePasses, Expire
<1>5. ASSUME NEW p \in Policies, UpdatePolicy(p) PROVE SignedByApprovers(t)
  BY <1>5 DEF UpdatePolicy
<1>6. CASE Restart
  BY <1>6 DEF Restart, LoadSnapshot, LoadRows
<1>7. CASE UNCHANGED vars
  BY <1>7 DEF vars
<1>8. QED
  BY <1>2, <1>3, <1>4, <1>5, <1>6, <1>7 DEF Next

\* While MFA is required, nothing gives a task that has kept its columns an entry
\* without the approvals its risk calls for.
THEOREM MfaSignaturesApproved == Spec => MfaTenantsNeedApprovals
<1>1. BindingInv /\ [Next]_vars => \A t \in Tasks \ stripped : SignedByApprovers(t)
  BY SignedByApproversStep
<1>2. Spec => [][\A t \in Tasks \ stripped : SignedByApprovers(t)]_vars
  BY <1>1, BindingInvariant, PTL DEF Spec
<1>3. QED
  BY <1>2 DEF MfaTenantsNeedApprovals, SignedByApprovers

-----------------------------------------------------------------------------
(* The ledger implements the append-only ledger *)

\* The three ways in which a step treats the ledger.
Grows ==
    /\ Len(ledger') > Len(ledger)
    /\ \A i \in 1 .. Len(ledger) : ledger'[i] = ledger[i]
RevokesOne == \E i \in 1 .. Len(ledger) : RevokeLedger(i)
Keeps ==
    /\ Len(ledger') = Len(ledger)
    /\ \A i \in 1 .. Len(ledger) : ledger'[i].state = ledger[i].state

LEMMA LedgerMoves ==
    ASSUME Typed, [Next]_vars
    PROVE  Grows \/ RevokesOne \/ Keeps
<1>1. TypeOK /\ ledger \in Seq(Entry) /\ Len(ledger) \in Nat
  BY LenProperties DEF Typed, TypeOK
<1>2. ASSUME UNCHANGED ledger PROVE Keeps
  BY <1>2 DEF Keeps
<1>3. ASSUME NEW t \in Tasks, AutoSign(t) PROVE Grows
  <2>1. NewEntry(t, <<>>, "low", TRUE) \in Entry
        /\ NewEntry(t, <<>>, "low", TRUE).state = "active"
    BY AutoEntryType DEF NewEntry
  <2>2. QED
    BY <1>1, <1>3, <2>1, AppendEvolves DEF AutoSign, Grows
<1>4. ASSUME NEW t \in Tasks, TaskStep(t) PROVE Grows \/ RevokesOne \/ Keeps
  <2>1. CASE Sign(t)
    <3> DEFINE e == NewEntry(t, approvals[t], scan[t].risk, FALSE)
    <3>1. e \in Entry /\ e.state = "active"
      <4>1. scan[t].risk \in Risks /\ approvals[t] \in Seq(Users)
        BY <2>1 DEF Typed, TypeOK, ScanPresent, Sign, ScanResults
      <4>2. QED
        BY <4>1, NewEntryType DEF NewEntry
    <3>2. ledger' = Append(ledger, e)
      BY <2>1 DEF Sign
    <3> HIDE DEF e
    <3>3. QED
      BY <1>1, <3>1, <3>2, AppendEvolves DEF Grows
  <2>2. CASE CreateAutoSigned(t)
    BY <1>3, <2>2 DEF CreateAutoSigned
  <2>3. CASE Revoke(t)
    <3>1. entry[t] \in 0 .. Len(ledger)
      BY <1>1 DEF TypeOK
    <3>2. UNCHANGED ledger \/ (entry[t] \in 1 .. Len(ledger) /\ RevokeLedger(entry[t]))
      BY <1>1, <2>3, <3>1 DEF Revoke
    <3>3. QED
      BY <1>2, <3>2 DEF RevokesOne
  <2>4. ASSUME NEW u \in Users, ApproveNow(t, u) PROVE Keeps
    BY <1>2, <2>4 DEF ApproveNow
  <2>5. CASE CreateDraft(t) \/ Promote(t) \/ Dispatch(t) \/ ResetStale(t)
    BY <1>2, <2>5 DEF CreateDraft, Promote, Dispatch, ResetStale
  <2>6. ASSUME NEW o \in Outcomes, Report(t, o) PROVE Keeps
    BY <1>2, <2>6 DEF Report
  <2>7. CASE SignAtDispatch(t)
    <3>1. NewEntry(t, <<>>, "low", TRUE) \in Entry
          /\ NewEntry(t, <<>>, "low", TRUE).state = "active"
      BY AutoEntryType DEF NewEntry
    <3>2. QED
      BY <1>1, <2>7, <3>1, AppendEvolves DEF SignAtDispatch, Grows
  <2>8. QED
    BY <1>4, <2>1, <2>2, <2>3, <2>4, <2>5, <2>6, <2>7 DEF TaskStep
<1>5. ASSUME NEW r \in Requests, RequestStep(r) PROVE Grows \/ Keeps
  <2>1. CASE AutoFinalize(r)
    <3>1. req[r].task \in Tasks
      BY <1>1, <2>1, RequestTypes DEF AutoFinalize, ScanRequests
    <3>2. QED
      BY <1>2, <1>3, <2>1, <3>1 DEF AutoFinalize
  <2>2. CASE FinishScan(r) \/ FinishApprove(r) \/ RejectApprove(r)
    BY <1>2, <2>2 DEF FinishScan, FinishApprove, RejectApprove
  <2>3. ASSUME NEW t \in Tasks, CreateAndScan(r, t) \/ StartScan(r, t) PROVE Keeps
    BY <1>2, <2>3 DEF CreateAndScan, StartScan
  <2>4. ASSUME NEW t \in Tasks, NEW u \in Users, StartApprove(r, t, u) PROVE Keeps
    BY <1>2, <2>4 DEF StartApprove
  <2>5. QED
    BY <1>5, <2>1, <2>2, <2>3, <2>4 DEF RequestStep
<1>6. ASSUME NEW i \in 1 .. Len(ledger), LedgerStep(i) PROVE RevokesOne \/ Keeps
  BY <1>1, <1>6, TimeEvolves DEF LedgerStep, RevokeEntry, RevokesOne, Keeps
<1>7. ASSUME NEW p \in Policies, UpdatePolicy(p) PROVE Keeps
  BY <1>2, <1>7 DEF UpdatePolicy
<1>8. CASE Restart
  BY <1>2, <1>8 DEF Restart
<1>9. CASE UNCHANGED vars
  BY <1>2, <1>9 DEF vars
<1>10. QED
  BY <1>4, <1>5, <1>6, <1>7, <1>8, <1>9 DEF Next

\* The mapped ledger is a sequence of the abstract ledger's records.
LEMMA LogType ==
    ASSUME NEW s \in Seq(Entry)
    PROVE  /\ Len(s) \in Nat
           /\ LogOf(s) \in Seq(Abstract!Record)
           /\ Len(LogOf(s)) = Len(s)
           /\ \A i \in 1 .. Len(s) : LogOf(s)[i] = AbstractEntry(s[i])
           /\ LogOf(s) = [i \in 1 .. Len(s) |-> LogOf(s)[i]]
<1>1. Len(s) \in Nat
  BY LenProperties
<1>2. ASSUME NEW i \in 1 .. Len(s)
      PROVE  LogOf(s)[i] = AbstractEntry(s[i]) /\ AbstractEntry(s[i]) \in Abstract!Record
  <2>1. s[i] \in Entry
    BY <1>2, ElementOfSeq
  <2>2. QED
    BY <1>2, <2>1 DEF LogOf, AbstractEntry, Entry, Abstract!Record
<1>3. LogOf(s) \in [1 .. Len(s) -> Abstract!Record]
  BY <1>2 DEF LogOf
<1>4. LogOf(s) \in Seq(Abstract!Record)
  BY <1>1, <1>3, SeqDef
<1>5. /\ DOMAIN LogOf(s) = 1 .. Len(s)
      /\ DOMAIN LogOf(s) = 1 .. Len(LogOf(s))
      /\ Len(LogOf(s)) \in Nat
  BY <1>3, <1>4, LenProperties
<1>6. QED
  BY <1>1, <1>2, <1>3, <1>4, <1>5

LEMMA LogStep ==
    ASSUME Typed, [Next]_vars
    PROVE  Abstract!Next \/ Log' = Log
<1>1. ledger \in Seq(Entry) /\ Evolves
  BY NextShape DEF Typed, TypeOK, StepShape
<1>2. /\ ledger' \in Seq(Entry)
      /\ \A i \in Len(ledger) + 1 .. Len(ledger') : ledger'[i].state = "active"
  BY <1>1 DEF Evolves
<1>3. /\ Len(ledger) \in Nat
      /\ Log \in Seq(Abstract!Record)
      /\ Len(Log) = Len(ledger)
      /\ \A i \in 1 .. Len(ledger) : Log[i] = AbstractEntry(ledger[i])
      /\ Log = [i \in 1 .. Len(ledger) |-> Log[i]]
  BY <1>1, LogType DEF Log
<1>4. Log' = LogOf(ledger')
  BY DEF Log, LogOf
<1>5. /\ Len(ledger') \in Nat
      /\ Log' \in Seq(Abstract!Record)
      /\ Len(Log') = Len(ledger')
      /\ \A i \in 1 .. Len(ledger') : Log'[i] = AbstractEntry(ledger'[i])
      /\ Log' = [i \in 1 .. Len(ledger') |-> Log'[i]]
  BY <1>2, <1>4, LogType
<1>6. CASE Grows
  <2>1. /\ Len(Log') > Len(Log)
        /\ \A i \in 1 .. Len(Log) : Log'[i] = Log[i]
    BY <1>3, <1>5, <1>6 DEF Grows
  <2>2. \A i \in Len(Log) + 1 .. Len(Log') : Log'[i].state = "active"
    BY <1>2, <1>3, <1>5 DEF AbstractEntry
  <2>3. QED
    BY <1>5, <2>1, <2>2 DEF Abstract!Next, Abstract!Extend
<1>7. CASE RevokesOne
  <2>1. PICK i \in 1 .. Len(ledger) : RevokeLedger(i)
    BY <1>7 DEF RevokesOne
  <2>2. /\ Len(ledger') = Len(ledger)
        /\ ledger'[i] = [ledger[i] EXCEPT !.state = "revoked"]
        /\ \A j \in 1 .. Len(ledger) : j # i => ledger'[j] = ledger[j]
    BY <1>1, <2>1, RevokeEvolves
  <2>3. ledger[i] \in Entry /\ ledger[i].state = "active"
    BY <1>1, <2>1, ElementOfSeq DEF RevokeLedger
  <2>4. AbstractEntry(ledger'[i]) = [AbstractEntry(ledger[i]) EXCEPT !.state = "revoked"]
        /\ AbstractEntry(ledger[i]).state = "active"
    BY <2>2, <2>3 DEF AbstractEntry, Entry
  <2>5. \A j \in 1 .. Len(ledger) :
           Log'[j] = IF j = i THEN [Log[i] EXCEPT !.state = "revoked"] ELSE Log[j]
    BY <1>3, <1>5, <2>2, <2>4
  <2>6. Log' = [Log EXCEPT ![i] = [Log[i] EXCEPT !.state = "revoked"]]
    BY <1>3, <1>5, <2>2, <2>5
  <2>7. i \in 1 .. Len(Log) /\ Log[i].state = "active"
    BY <1>3, <2>4
  <2>8. Abstract!RevokeOne
    BY <2>6, <2>7 DEF Abstract!RevokeOne
  <2>9. QED
    BY <2>8 DEF Abstract!Next
<1>8. CASE Keeps
  <2>1. \A i \in 1 .. Len(ledger) : AbstractEntry(ledger'[i]) = AbstractEntry(ledger[i])
    BY <1>1, <1>8 DEF Keeps, AbstractEntry, Evolves
  <2>2. Len(ledger') = Len(ledger)
    BY <1>8 DEF Keeps
  <2>3. \A i \in 1 .. Len(ledger) : Log'[i] = Log[i]
    BY <1>3, <1>5, <2>1, <2>2
  <2>4. QED
    BY <1>3, <1>5, <2>2, <2>3
<1>9. QED
  BY <1>6, <1>7, <1>8, LedgerMoves

\* The task ledger is an append-only ledger in which a revocation is final,
\* across signing, automatic signing, both kinds of revocation and restarts.
THEOREM LedgerIsAppendOnly == Spec => LedgerAppendOnly
<1>1. Init => Abstract!Init
  BY DEF Init, Abstract!Init, Log, LogOf
<1>2. Typed /\ [Next]_vars => [Abstract!Next]_Log
  BY LogStep
<1>3. QED
  BY <1>1, <1>2, TypedInit, TypedStep, PTL DEF Spec, LedgerAppendOnly, Abstract!Spec

-----------------------------------------------------------------------------
(* What lets a hard-blocked task past its scan *)

\* A task that does not exist yet has no scan, finished or running, and what a
\* blocked task still has of its scan shows the block; an approval that waits
\* began before the block was found.
HardBlockInv ==
    /\ Typed
    /\ HardBlocksHold
    /\ \A r \in Requests :
          req[r].op = "approve" /\ req[r].task \in blocked => req[r].task \in overtaken
    /\ \A r \in Requests :
          req[r].op \in {"scan", "autoscan", "finalize"} => status[req[r].task] # "none"
    /\ \A r \in Requests : req[r].op = "finalize" => scan[req[r].task] # NoScan
    /\ \A t \in blocked :
          /\ status[t] # "none"
          /\ scan[t] # NoScan => scan[t].hardBlock

LEMMA HardBlockStep ==
    ASSUME HardBlockInv, [Next]_vars
    PROVE  HardBlockInv'
<1>1. TypeOK /\ Typed' /\ DataShape
  BY TypedStep, NextDataShape DEF HardBlockInv, Typed
<1>2. /\ \A r \in Requests : req[r].op \in {"scan", "autoscan", "finalize"} => req[r].task \in Tasks
      /\ \A r \in Requests : req[r].op = "approve" => req[r].task \in Tasks
  BY <1>1, RequestTypes DEF ScanRequests, ApproveRequests
<1> DEFINE TasksKept ==
      \A t \in Tasks :
            /\ t \in blocked' => t \in blocked \/ status'[t] = "security_scanned"
            /\ t \in blocked' /\ t \in overtaken
                  => t \in overtaken' \/ status'[t] = "security_scanned"
            /\ status'[t] \in Passed
                  => status[t] \in Passed \/ t \notin blocked \/ t \in overtaken
            /\ status'[t] = "none" => status[t] = "none"
            /\ t \in blocked' /\ scan'[t] # NoScan => scan'[t].hardBlock
    ApprovalsKept ==
      \A r \in Requests : req'[r].op = "approve" /\ req'[r].task \in blocked'
                            => req'[r].task \in overtaken'
    ScansKept ==
      \A r \in Requests :
            \/ req'[r] = req[r]
            \/ req'[r].op \in {"idle", "approve"}
            \/ \E t \in Tasks : /\ req'[r].op \in {"scan", "autoscan", "finalize"}
                                /\ req'[r].task = t
                                /\ status'[t] # "none"
                                /\ req'[r].op = "finalize" => scan'[t] # NoScan
    Kept == TasksKept /\ ApprovalsKept /\ ScansKept
<1>3. ASSUME Kept PROVE HardBlockInv'
  <2>1. HardBlocksHold'
    BY <1>1, <1>3 DEF HardBlockInv, HardBlocksHold, Passed, DataShape
  <2>2. \A r \in Requests :
          req'[r].op = "approve" /\ req'[r].task \in blocked' => req'[r].task \in overtaken'
    BY <1>3
  <2>3. \A r \in Requests :
          req'[r].op \in {"scan", "autoscan", "finalize"} => status'[req'[r].task] # "none"
    BY <1>2, <1>3 DEF HardBlockInv
  <2>4. \A t \in blocked' : status'[t] # "none" /\ (scan'[t] # NoScan => scan'[t].hardBlock)
    BY <1>1, <1>3 DEF HardBlockInv, DataShape
  <2>5. ASSUME NEW r \in Requests, req'[r].op = "finalize"
        PROVE  scan'[req'[r].task] # NoScan
    <3>1. CASE req'[r] = req[r]
      <4>1. req[r].task \in Tasks /\ scan[req[r].task] # NoScan
        BY <1>2, <2>5, <3>1 DEF HardBlockInv
      <4>2. QED
        BY <1>1, <2>5, <3>1, <4>1, NoScanType DEF DataShape, Idle
    <3>2. QED
      BY <1>3, <2>5, <3>1
  <2>6. QED
    BY <1>1, <2>1, <2>2, <2>3, <2>4, <2>5 DEF HardBlockInv
<1>4. /\ status \in [Tasks -> Statuses]
      /\ scan \in [Tasks -> ScanResults \cup {NoScan}]
      /\ req \in [Requests -> {Idle} \cup ScanRequests \cup ApproveRequests]
      /\ blocked \subseteq Tasks /\ overtaken \subseteq Tasks
      /\ \A t \in blocked : scan[t] # NoScan => scan[t].hardBlock
      /\ \A t \in blocked : status[t] # "none"
      /\ \A t \in blocked \ overtaken : status[t] \notin Passed
      /\ \A r \in Requests :
            req[r].op = "approve" /\ req[r].task \in blocked => req[r].task \in overtaken
  BY <1>1 DEF TypeOK, HardBlockInv, HardBlocksHold
<1> USE DEF history
<1>5. ASSUME NEW t \in Tasks, TaskStep(t) PROVE Kept
  <2>1. CASE CreateDraft(t)
    BY <1>4, <2>1 DEF CreateDraft, Created, Passed
  <2>2. CASE CreateAutoSigned(t)
    BY <1>4, <2>2 DEF CreateAutoSigned, AutoSign
  <2>3. ASSUME NEW u \in Users, ApproveNow(t, u) PROVE Kept
    BY <1>4, <2>3 DEF ApproveNow, Approvable, RecordApproval
  <2>4. CASE Sign(t)
    BY <1>4, <2>4 DEF Sign, Passed
  <2>5. CASE Promote(t)
    BY <1>4, <2>5 DEF Promote, Promotable, Passed
  <2>6. CASE Dispatch(t)
    BY <1>4, <2>6 DEF Dispatch, Passed
  <2>7. CASE ResetStale(t)
    BY <1>4, <2>7 DEF ResetStale, Passed
  <2>8. CASE Revoke(t)
    BY <1>4, <2>8 DEF Revoke, Passed
  <2>9. ASSUME NEW o \in Outcomes, Report(t, o) PROVE Kept
    BY <1>4, <2>9 DEF Report, Outcomes, Passed
  <2>10. CASE SignAtDispatch(t)
    BY <1>4, <2>10 DEF SignAtDispatch, Passed
  <2>11. QED
    BY <1>5, <2>1, <2>2, <2>3, <2>4, <2>5, <2>6, <2>7, <2>8, <2>9, <2>10 DEF TaskStep
<1>6. ASSUME NEW r \in Requests, RequestStep(r) PROVE Kept
  <2>1. CASE FinishScan(r)
    <3> DEFINE x == req[r].task
    <3>1. x \in Tasks
      BY <1>2, <2>1 DEF FinishScan
    <3>2. \A q \in Requests : q # r => req'[q] = req[q]
      BY <1>4, <2>1 DEF FinishScan
    <3>3. \/ req'[r] = Idle
          \/ /\ req'[r].op = "finalize" /\ req'[r].task = x
             /\ scan'[x] # NoScan
      BY <1>4, <2>1, <3>1, NoScanType DEF FinishScan
    <3>4. /\ status'[x] = "security_scanned"
          /\ x \in blocked' => scan'[x].hardBlock
          /\ x \in blocked' /\ ApprovalWaits(x) => x \in overtaken'
      BY <1>4, <2>1, <3>1 DEF FinishScan
    <3>5. \A t \in Tasks \ {x} :
            /\ status'[t] = status[t] /\ scan'[t] = scan[t]
            /\ t \in blocked' <=> t \in blocked
            /\ t \in overtaken' <=> t \in overtaken
      BY <1>4, <2>1, <3>1 DEF FinishScan
    <3>6. TasksKept
      BY <1>4, <3>1, <3>4, <3>5 DEF Passed
    <3>7. ASSUME NEW q \in Requests, req'[q].op = "approve", req'[q].task \in blocked'
          PROVE  req'[q].task \in overtaken'
      <4>1. req'[q] = req[q]
        BY <3>2, <3>3, <3>7 DEF Idle
      <4>2. req[q].task \in Tasks
        BY <1>2, <3>7, <4>1
      <4>3. CASE req[q].task = x
        BY <3>4, <3>7, <4>1, <4>3 DEF ApprovalWaits
      <4>4. CASE req[q].task # x
        BY <1>4, <3>5, <3>7, <4>1, <4>2, <4>4
      <4>5. QED
        BY <4>3, <4>4
    <3>8. ScansKept
      BY <3>1, <3>2, <3>3, <3>4 DEF Idle
    <3>9. QED
      BY <3>6, <3>7, <3>8
  <2>2. CASE AutoFinalize(r)
    <3>1. req[r].task \in Tasks
      BY <1>2, <2>2 DEF AutoFinalize
    <3>2. /\ UNCHANGED <<scan, blocked, overtaken>>
          /\ \A q \in Requests : req'[q] = req[q] \/ req'[q] = Idle
      BY <1>4, <2>2 DEF AutoFinalize
    <3>3. ApprovalsKept /\ ScansKept
      BY <1>4, <3>2 DEF Idle
    <3>4. CASE AutoSign(req[r].task) /\ FinalizeAllowed(req[r].task)
      <4>1. status' = [status EXCEPT ![req[r].task] = "signed"]
        BY <3>4 DEF AutoSign
      <4>2. req[r].task \notin blocked
        BY <1>4, <2>2, <3>4 DEF FinalizeAllowed, HardBlockInv, AutoFinalize
      <4>3. QED
        BY <1>4, <3>1, <3>2, <3>3, <4>1, <4>2 DEF Passed
    <3>5. CASE UNCHANGED status
      BY <1>4, <3>1, <3>2, <3>3, <3>5
    <3>6. QED
      BY <2>2, <3>4, <3>5 DEF AutoFinalize
  <2>3. CASE FinishApprove(r) \/ RejectApprove(r)
    <3>1. req[r].op = "approve" /\ req[r].task \in Tasks
      BY <1>2, <2>3 DEF FinishApprove, RejectApprove
    <3>2. /\ UNCHANGED <<scan, blocked, overtaken>>
          /\ \A q \in Requests : req'[q] = req[q] \/ req'[q] = Idle
      BY <1>4, <2>3 DEF FinishApprove, RejectApprove
    <3>3. ApprovalsKept /\ ScansKept
      BY <1>4, <3>2 DEF Idle
    <3>4. \/ status' = status
          \/ status' = [status EXCEPT ![req[r].task] = "mfa_approved"]
      BY <2>3 DEF FinishApprove, RejectApprove, RecordApproval
    <3>5. TasksKept
      BY <1>4, <3>1, <3>2, <3>4 DEF Passed
    <3>6. QED
      BY <3>3, <3>5
  <2>4. ASSUME NEW t \in Tasks, CreateAndScan(r, t) \/ StartScan(r, t) PROVE Kept
    <3>1. \A q \in Requests \ {r} : req'[q] = req[q]
      BY <1>4, <2>4 DEF CreateAndScan, StartScan
    <3>2. req'[r].op \in {"scan", "autoscan"} /\ req'[r].task = t /\ status'[t] # "none"
      BY <1>4, <2>4 DEF CreateAndScan, StartScan, Created
    <3>3. UNCHANGED <<scan, blocked, overtaken>>
      BY <2>4 DEF CreateAndScan, StartScan
    <3>4. TasksKept
      BY <1>4, <2>4, <3>3 DEF CreateAndScan, StartScan, Created, Passed
    <3>5. ApprovalsKept /\ ScansKept
      BY <1>4, <3>1, <3>2, <3>3
    <3>6. QED
      BY <3>4, <3>5
  <2>5. ASSUME NEW t \in Tasks, NEW u \in Users, StartApprove(r, t, u) PROVE Kept
    <3>1. \A q \in Requests \ {r} : req'[q] = req[q]
      BY <1>4, <2>5 DEF StartApprove
    <3>2. req'[r].op = "approve" /\ req'[r].task = t /\ t \notin blocked
      BY <1>4, <2>5 DEF StartApprove, Approvable
    <3>3. UNCHANGED <<status, scan, blocked, overtaken>>
      BY <2>5 DEF StartApprove
    <3>4. TasksKept
      BY <1>4, <3>3
    <3>5. ApprovalsKept /\ ScansKept
      BY <1>4, <3>1, <3>2, <3>3
    <3>6. QED
      BY <3>4, <3>5
  <2>6. QED
    BY <1>6, <2>1, <2>2, <2>3, <2>4, <2>5 DEF RequestStep
<1>7. ASSUME NEW i \in 1 .. Len(ledger), LedgerStep(i) PROVE Kept
  BY <1>4, <1>7 DEF LedgerStep, RevokeEntry, NotBeforePasses, Expire
<1>8. ASSUME NEW p \in Policies, UpdatePolicy(p) PROVE Kept
  BY <1>4, <1>8 DEF UpdatePolicy
<1>9. CASE Restart
  <2>1. /\ UNCHANGED <<status, blocked, overtaken>>
        /\ \A r \in Requests : req'[r] = Idle
        /\ \A t \in Tasks : scan'[t] # NoScan => scan'[t] = scan[t]
    BY <1>9 DEF Restart, LoadSnapshot, LoadRows
  <2>2. QED
    BY <1>3, <1>4, <2>1 DEF Idle
<1>10. CASE UNCHANGED vars
  BY <1>3, <1>4, <1>10 DEF vars
<1>11. QED
  BY <1>3, <1>5, <1>6, <1>7, <1>8, <1>9, <1>10 DEF Next

\* However many tasks, approvers, requests and policies there are, what lets a
\* hard-blocked task past its scan is an approval that was waiting for the MFA
\* store when the block was found, and nothing else.
THEOREM HardBlocksStop == Spec => []HardBlocksHold
<1>1. Init => HardBlockInv
  <2>1. Init => Typed
    BY TypedInit
  <2>2. Init => \A r \in Requests : req[r].op = "idle"
    BY DEF Init, Idle
  <2>3. Init => blocked = {}
    BY DEF Init
  <2>4. QED
    BY <2>1, <2>2, <2>3 DEF HardBlockInv, HardBlocksHold
<1>2. Spec => []HardBlockInv
  BY <1>1, HardBlockStep, PTL DEF Spec
<1>3. HardBlockInv => HardBlocksHold
  BY DEF HardBlockInv
<1>4. QED
  BY <1>2, <1>3, PTL
=============================================================================
