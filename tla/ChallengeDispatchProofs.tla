------------------------ MODULE ChallengeDispatchProofs ------------------------
(***************************************************************************)
(* Proofs about the two ends of a task: about MfaChallenge, which pays for *)
(* its approvals, for any number of users, challenges and concurrent       *)
(* requests, and about TaskDispatch, which hands it out, for any set of    *)
(* tasks and any set of nodes.                                             *)
(***************************************************************************)
EXTENDS MfaChallenge, TaskDispatch, TLAPS

-----------------------------------------------------------------------------
(* What a waiting request carries *)

\* A record that is there belongs to a user, and absence is no verified record.
LEMMA RecordFacts ==
    ASSUME NEW u \in Users, NEW b \in BOOLEAN
    PROVE  /\ [user |-> u, verified |-> b] \in Record
           /\ [user |-> u, verified |-> b] # Absent
BY NoUserAssumption DEF Record, Absent

\* A request with an operation names a challenge and a user.
LEMMA OperationType ==
    ASSUME TypeOK, NEW r \in Requests, req[r].op \in {"verify", "consume"}
    PROVE  req[r] \in Operation /\ req[r].challenge \in Challenges /\ req[r].user \in Users
<1>1. req[r] \in Operation \cup {Idle}
  BY DEF TypeOK
<1>2. Idle.op = "idle"
  BY DEF Idle
<1>3. req[r] \in Operation
  BY <1>1, <1>2
<1>4. QED
  BY <1>3 DEF Operation

\* A written record is a record or absence.
LEMMA WriteType ==
    ASSUME TypeOK, NEW c \in Challenges, NEW x \in Record \cup {Absent}, Write(c, x)
    PROVE  /\ store' \in [Challenges -> Record \cup {Absent}]
           /\ \A d \in Challenges : store'[d] = store[d] \/ (d = c /\ store'[d] = x)
BY DEF TypeOK, Write

-----------------------------------------------------------------------------
(* Uses are proven: for a verified record, its user has proven it; so the *)
(* record a consume has seen was.                                          *)

VerifiedProven ==
    \A c \in Challenges, u \in Users :
        store[c] = [user |-> u, verified |-> TRUE] => <<c, u>> \in proven

ProvenInv == TypeOK /\ VerifiedProven /\ UsesAreProven

LEMMA TypeStep == TypeOK /\ [Next]_vars => TypeOK'
<1> SUFFICES ASSUME TypeOK, [Next]_vars PROVE TypeOK'
  OBVIOUS
<1> USE DEF TypeOK
<1>1. ASSUME NEW c \in Challenges, NEW u \in Users, Issue(c, u) PROVE TypeOK'
  BY <1>1, RecordFacts, WriteType DEF Issue
<1>2. ASSUME NEW c \in Challenges, Expire(c) PROVE TypeOK'
  BY <1>2 DEF Expire
<1>3. ASSUME NEW r \in Requests, RequestStep(r) PROVE TypeOK'
  <2>1. ASSUME NEW c \in Challenges, NEW u \in Users, NEW op \in {"verify", "consume"},
               Begin(r, op, c, u)
        PROVE  TypeOK'
    <3>1. [op |-> op, challenge |-> c, user |-> u] \in Operation
      BY DEF Operation
    <3>2. QED
      BY <2>1, <3>1 DEF Begin
  <2>2. ASSUME NEW c \in Challenges, NEW u \in Users,
               StartVerify(r, c, u) \/ StartConsume(r, c, u)
        PROVE  TypeOK'
    BY <2>1, <2>2 DEF StartVerify, StartConsume
  <2>3. CASE FinishVerify(r)
    <3>1. req[r].challenge \in Challenges /\ req[r].user \in Users
      BY <2>3, OperationType DEF FinishVerify
    <3>2. store' \in [Challenges -> Record \cup {Absent}]
      BY <2>3, <3>1, RecordFacts, WriteType DEF FinishVerify
    <3>3. QED
      BY <2>3, <3>1, <3>2 DEF FinishVerify, End
  <2>4. CASE RejectVerify(r)
    BY <2>4 DEF RejectVerify, End
  <2>5. CASE FinishConsume(r)
    <3>1. req[r].challenge \in Challenges
      BY <2>5, OperationType DEF FinishConsume
    <3>2. store' \in [Challenges -> Record \cup {Absent}]
      BY <2>5, <3>1 DEF FinishConsume, Delete
    <3>3. uses' \in [Challenges -> 0 .. MaxUses]
      BY <2>5, <3>1, MaxUsesAssumption DEF FinishConsume
    <3>4. QED
      BY <2>5, <3>1, <3>2, <3>3 DEF FinishConsume, End
  <2>6. QED
    BY <1>3, <2>2, <2>3, <2>4, <2>5 DEF RequestStep
<1>4. CASE Restart
  BY <1>4 DEF Restart
<1>5. CASE UNCHANGED vars
  BY <1>5 DEF vars
<1>6. QED
  BY <1>1, <1>2, <1>3, <1>4, <1>5 DEF Next

LEMMA ProvenStep == ProvenInv /\ [Next]_vars => ProvenInv'
<1> SUFFICES ASSUME ProvenInv, [Next]_vars PROVE ProvenInv'
  OBVIOUS
<1>1. TypeOK /\ TypeOK'
  BY TypeStep DEF ProvenInv
\* It is enough that proven grows, that verified records are old or proven, and
\* that consuming requests are old or hold what a verified record said.
<1> DEFINE Quiet ==
      /\ proven \subseteq proven'
      /\ \A c \in Challenges, u \in Users :
            store'[c] = [user |-> u, verified |-> TRUE] =>
                \/ store[c] = [user |-> u, verified |-> TRUE]
                \/ <<c, u>> \in proven'
      /\ \A q \in Requests :
            req'[q].op = "consume" =>
                \/ req'[q] = req[q]
                \/ <<req'[q].challenge, req'[q].user>> \in proven
<1>2. ASSUME Quiet PROVE ProvenInv'
  <2>1. VerifiedProven'
    BY <1>2 DEF ProvenInv, VerifiedProven
  <2>2. UsesAreProven'
    BY <1>2 DEF ProvenInv, UsesAreProven
  <2>3. QED
    BY <1>1, <2>1, <2>2 DEF ProvenInv
<1>3. /\ req \in [Requests -> Operation \cup {Idle}]
      /\ store \in [Challenges -> Record \cup {Absent}]
      /\ Idle.op = "idle"
      /\ \A u \in Users : Absent # [user |-> u, verified |-> TRUE]
  BY <1>1, RecordFacts DEF TypeOK, Idle
<1>4. ASSUME NEW c \in Challenges, NEW u \in Users, Issue(c, u) PROVE Quiet
  <2>1. \A d \in Challenges :
          store'[d] = store[d] \/ store'[d] = [user |-> u, verified |-> FALSE]
    BY <1>3, <1>4 DEF Issue, Write
  <2>2. QED
    BY <1>4, <2>1 DEF Issue
<1>5. ASSUME NEW c \in Challenges, Expire(c) PROVE Quiet
  BY <1>3, <1>5 DEF Expire
<1>6. ASSUME NEW r \in Requests, RequestStep(r) PROVE Quiet
  <2>1. ASSUME NEW c \in Challenges, NEW u \in Users, StartVerify(r, c, u) PROVE Quiet
    BY <1>3, <2>1 DEF StartVerify, Begin
  <2>2. ASSUME NEW c \in Challenges, NEW u \in Users, StartConsume(r, c, u) PROVE Quiet
    <3>1. <<c, u>> \in proven
      BY <2>2 DEF StartConsume, Consumable, ProvenInv, VerifiedProven
    <3>2. \A q \in Requests :
            \/ req'[q] = req[q]
            \/ req'[q].challenge = c /\ req'[q].user = u
      BY <1>3, <2>2 DEF StartConsume, Begin
    <3>3. QED
      BY <2>2, <3>1, <3>2 DEF StartConsume, Begin
  <2>3. CASE FinishVerify(r)
    <3>1. \A q \in Requests : req'[q] = req[q] \/ req'[q] = Idle
      BY <1>3, <2>3 DEF FinishVerify, End
    <3>2. /\ proven' = proven \cup {<<req[r].challenge, req[r].user>>}
          /\ \A c \in Challenges :
                \/ store'[c] = store[c]
                \/ /\ c = req[r].challenge
                   /\ store'[c] = [user |-> req[r].user, verified |-> TRUE]
      BY <1>3, <2>3 DEF FinishVerify, Write
    <3>3. ASSUME NEW c \in Challenges, NEW u \in Users,
                 store'[c] = [user |-> u, verified |-> TRUE]
          PROVE  store[c] = [user |-> u, verified |-> TRUE] \/ <<c, u>> \in proven'
      BY <3>2, <3>3
    <3>4. QED
      BY <1>3, <3>1, <3>2, <3>3
  <2>4. CASE RejectVerify(r)
    BY <1>3, <2>4 DEF RejectVerify, End
  <2>5. CASE FinishConsume(r)
    BY <1>3, <2>5 DEF FinishConsume, Delete, End
  <2>6. QED
    BY <1>6, <2>1, <2>2, <2>3, <2>4, <2>5 DEF RequestStep
<1>7. CASE Restart
  BY <1>2, <1>3, <1>7 DEF Restart
<1>8. CASE UNCHANGED vars
  BY <1>2, <1>8 DEF vars
<1>9. QED
  BY <1>2, <1>4, <1>5, <1>6, <1>7, <1>8 DEF Next

LEMMA ProvenInit == Init => ProvenInv
<1> SUFFICES ASSUME Init PROVE ProvenInv
  OBVIOUS
<1>1. TypeOK
  BY MaxUsesAssumption DEF Init, TypeOK
<1>2. VerifiedProven
  BY RecordFacts DEF Init, VerifiedProven
<1>3. UsesAreProven
  BY DEF Init, UsesAreProven, Idle
<1>4. QED
  BY <1>1, <1>2, <1>3 DEF ProvenInv

\* Whatever the store loses and however requests interleave, a challenge pays
\* for an approval only with a TOTP code of the approver.
THEOREM OnlyProvenChallenges == Spec => []UsesAreProven
<1>1. Spec => []ProvenInv
  BY ProvenInit, ProvenStep, PTL DEF Spec
<1>2. ProvenInv => UsesAreProven
  BY DEF ProvenInv
<1>3. QED
  BY <1>1, <1>2, PTL

-----------------------------------------------------------------------------
(* One use: where requests do not overlap and deletes arrive.              *)

\* While c is undisturbed at most one request is busy with it, and a used
\* challenge has no record and no request: only issuing could create the record
\* again, and ids are not issued twice.
OneUse(c) ==
    /\ uses[c] <= 1
    /\ store[c] # Absent => c \in issued
    /\ uses[c] # 0 => c \in issued /\ store[c] = Absent
    /\ \A r \in Requests : req[r].op # "idle" /\ req[r].challenge = c =>
          /\ c \in issued
          /\ uses[c] = 0
          /\ \A q \in Requests : req[q].op # "idle" /\ req[q].challenge = c => q = r

OneUseInv == TypeOK /\ \A c \in Challenges \ disturbed : OneUse(c)

\* A step that leaves c, its record and its requests alone, or only drops some of
\* them, keeps c to one use.
LEMMA OneUseKept ==
    ASSUME NEW c \in Challenges, OneUse(c),
           uses'[c] = uses[c],
           issued \subseteq issued',
           store'[c] = store[c] \/ store'[c] = Absent,
           \A r \in Requests : req'[r] = req[r] \/ req'[r].op = "idle"
    PROVE  OneUse(c)'
<1>1. \A r \in Requests : req'[r].op # "idle" => req'[r] = req[r]
  OBVIOUS
<1>2. QED
  BY <1>1 DEF OneUse

LEMMA OneUseStep == OneUseInv /\ [Next]_vars => OneUseInv'
<1> SUFFICES ASSUME OneUseInv, [Next]_vars PROVE OneUseInv'
  OBVIOUS
<1>1. TypeOK /\ TypeOK'
  BY TypeStep DEF OneUseInv
<1>2. /\ req \in [Requests -> Operation \cup {Idle}]
      /\ store \in [Challenges -> Record \cup {Absent}]
      /\ uses \in [Challenges -> 0 .. MaxUses]
      /\ Idle.op = "idle"
  BY <1>1 DEF TypeOK, Idle
<1> SUFFICES ASSUME NEW d \in Challenges, d \notin disturbed' PROVE OneUse(d)'
  BY <1>1 DEF OneUseInv
<1>3. disturbed \subseteq disturbed'
  BY DEF Next, RequestStep, Issue, Expire, StartVerify, StartConsume, Begin, FinishVerify,
         RejectVerify, FinishConsume, Restart, vars
<1>4. OneUse(d)
  BY <1>3 DEF OneUseInv
<1>5. ASSUME NEW c \in Challenges, NEW u \in Users, Issue(c, u) PROVE OneUse(d)'
  <2>1. c \notin issued /\ issued' = issued \cup {c} /\ UNCHANGED <<req, uses>>
    BY <1>5 DEF Issue
  <2>2. d # c => store'[d] = store[d]
    BY <1>2, <1>5 DEF Issue, Write
  <2>3. QED
    BY <1>4, <2>1, <2>2 DEF OneUse
<1>6. ASSUME NEW c \in Challenges, Expire(c) PROVE OneUse(d)'
  BY <1>2, <1>4, <1>6, OneUseKept DEF Expire
<1>7. ASSUME NEW r \in Requests, RequestStep(r) PROVE OneUse(d)'
  <2>1. ASSUME NEW c \in Challenges, NEW u \in Users,
               StartVerify(r, c, u) \/ StartConsume(r, c, u)
        PROVE  OneUse(d)'
    <3>1. store[c] # Absent
      BY <2>1, RecordFacts DEF StartVerify, StartConsume, Consumable
    <3>2. PICK op \in {"verify", "consume"} : Begin(r, op, c, u)
      BY <2>1 DEF StartVerify, StartConsume
    <3>3. UNCHANGED <<store, issued, uses>> /\ d \notin disturbed
      BY <1>3, <3>2 DEF Begin
    <3>4. req'[r].challenge = c /\ \A q \in Requests : q # r => req'[q] = req[q]
      BY <1>2, <3>2 DEF Begin
    <3>5. CASE d = c
      <4>1. \A q \in Requests : q # r /\ req'[q].op # "idle" => req'[q].challenge # d
        BY <1>2, <3>2, <3>4, <3>5 DEF Begin, Busy
      <4>2. d \in issued /\ uses[d] = 0
        BY <1>4, <3>1, <3>5 DEF OneUse
      <4>3. QED
        BY <1>4, <3>3, <4>1, <4>2 DEF OneUse
    <3>6. CASE d # c
      BY <1>4, <3>3, <3>4, <3>6 DEF OneUse
    <3>7. QED
      BY <3>5, <3>6
  <2>2. ASSUME req[r].op \in {"verify", "consume"}, req[r].challenge = d
        PROVE  d \in issued /\ uses[d] = 0
    BY <1>4, <2>2 DEF OneUse
  <2>3. ASSUME req[r].op \in {"verify", "consume"}, End(r)
        PROVE  \A q \in Requests : req'[q] = req[q] \/ req'[q].op = "idle"
    BY <1>2, <2>3 DEF End
  <2>4. CASE FinishVerify(r)
    <3>1. UNCHANGED <<issued, uses>>
      BY <2>4 DEF FinishVerify
    <3>2. d # req[r].challenge => store'[d] = store[d]
      BY <1>2, <2>4 DEF FinishVerify, Write
    <3>3. \A q \in Requests : req'[q] = req[q] \/ req'[q].op = "idle"
      BY <2>3, <2>4 DEF FinishVerify
    <3>4. d = req[r].challenge => d \in issued /\ uses[d] = 0
      BY <2>2, <2>4 DEF FinishVerify
    <3>5. \A q \in Requests : req'[q].op # "idle" => req'[q] = req[q]
      BY <3>3
    <3>6. QED
      BY <1>4, <3>1, <3>2, <3>4, <3>5 DEF OneUse
  <2>5. CASE RejectVerify(r)
    BY <1>4, <2>3, <2>5, OneUseKept DEF RejectVerify
  <2>6. CASE FinishConsume(r)
    <3>1. UNCHANGED issued /\ \A q \in Requests : req'[q] = req[q] \/ req'[q].op = "idle"
      BY <2>3, <2>6 DEF FinishConsume
    <3>2. uses' = [uses EXCEPT ![req[r].challenge] = uses[req[r].challenge] + 1]
      BY <2>6 DEF FinishConsume
    <3>3. CASE d = req[r].challenge
      <4>1. d \in issued /\ uses[d] = 0
        BY <2>2, <2>6, <3>3 DEF FinishConsume
      <4>2. store'[d] = Absent /\ uses'[d] = 1
        BY <1>2, <2>6, <3>2, <3>3, <4>1 DEF FinishConsume, Delete
      <4>3. \A q \in Requests : req'[q].op # "idle" => req'[q] = req[q]
        BY <3>1
      <4>4. req'[r] = Idle
        BY <1>2, <2>6 DEF FinishConsume, End
      <4>5. \A q \in Requests : ~(req'[q].op # "idle" /\ req'[q].challenge = d)
        BY <1>2, <1>4, <2>6, <3>3, <4>3, <4>4 DEF OneUse, FinishConsume
      <4>6. QED
        BY <3>1, <4>1, <4>2, <4>5 DEF OneUse
    <3>4. CASE d # req[r].challenge
      <4>1. uses'[d] = uses[d]
        BY <1>2, <3>2, <3>4
      <4>2. store'[d] = store[d]
        BY <1>2, <2>6, <3>4 DEF FinishConsume, Delete
      <4>3. QED
        BY <1>4, <3>1, <4>1, <4>2, OneUseKept
    <3>5. QED
      BY <3>3, <3>4
  <2>7. QED
    BY <1>7, <2>1, <2>4, <2>5, <2>6 DEF RequestStep
<1>8. CASE Restart
  <2>1. UNCHANGED <<store, issued, uses>> /\ \A r \in Requests : req'[r].op = "idle"
    BY <1>2, <1>8 DEF Restart
  <2>2. QED
    BY <1>4, <2>1, OneUseKept
<1>9. CASE UNCHANGED vars
  BY <1>4, <1>9 DEF vars, OneUse
<1>10. QED
  BY <1>5, <1>6, <1>7, <1>8, <1>9 DEF Next

\* However many requests and challenges there are and whatever the store loses, a
\* challenge pays twice only if two requests overlapped on it or its deletion
\* was lost.
THEOREM OneUseEach == Spec => []SingleUseUndisturbed
<1>1. Init => OneUseInv
  <2>1. Init => TypeOK
    BY ProvenInit DEF ProvenInv
  <2>2. QED
    BY <2>1 DEF Init, OneUseInv, OneUse, Idle
<1>2. Spec => []OneUseInv
  BY <1>1, OneUseStep, PTL DEF Spec
<1>3. OneUseInv => SingleUseUndisturbed
  BY DEF OneUseInv, OneUse, SingleUseUndisturbed
<1>4. QED
  BY <1>2, <1>3, PTL

-----------------------------------------------------------------------------
(* What a poll does to one task *)

\* What is out or about to go out has been promoted after its delay, in memory
\* and in the saved copy: only signing binds a task to an entry with a delay.
Due ==
    /\ \A t \in Tasks : status[t] \in {"executable", "dispatched"} => entry[t] # "early"
    /\ \A t \in Tasks : saved[t].status \in {"executable", "dispatched"}
                            => saved[t].entry # "early"

\* A task that does not exist yet names no entry, in memory or in the saved copy.
Unborn ==
    /\ \A t \in Tasks : status[t] = "none" => entry[t] = "none"
    /\ \A t \in Tasks : saved[t].status = "none" => saved[t].entry = "none"

\* What has ended shows it, in its status or in its entry, until a late scan or
\* approval makes it ready to be signed anew.
Ends == \A t \in ended : status[t] \in Finished \cup {"ready"} \/ entry[t] = "void"

DispatchInv == DispatchTypeOK /\ Due /\ Unborn /\ Ends

\* A poll leaves a task alone, or finds it on its way, after its delay, with an
\* owner it may give it to and an entry it may give it out with.
PollShape(t) ==
    \/ /\ UNCHANGED <<status[t], owner[t], entry[t]>>
       /\ stale[t] => stale'[t]
    \/ /\ status[t] \in {"signed", "executable", "dispatched"}
       /\ status[t] = "dispatched" => stale[t]
       /\ status'[t] \in {"executable", "dispatched"}
       /\ entry[t] # "early" /\ entry'[t] # "early"
       /\ entry[t] = "void" => entry'[t] = "void"
       /\ status'[t] = "dispatched" => /\ entry[t] # "void"
                                       /\ ~Unavailable(owner'[t]) \/ Eligible = {}

LEMMA PollStep ==
    ASSUME DispatchInv, NEW n \in Nodes, Poll(n)
    PROVE  DispatchTypeOK' /\ \A t \in Tasks : PollShape(t)
<1>1. DispatchTypeOK
  BY DEF DispatchInv
<1>2. /\ owner' \in [Tasks -> Nodes]
      /\ status' = [t \in Tasks |->
            IF t \in Answer(n) THEN "dispatched"
            ELSE IF t \in Executable(n) THEN "executable" ELSE status[t]]
      /\ stale' = [t \in Tasks |-> stale[t] /\ t \notin Answer(n) \cup Recovered(n)]
      /\ delivered' = delivered \/ delivered' = delivered \cup Answer(n)
      /\ entry' = [t \in Tasks |-> IF t \in SignedOnTheSpot(n) THEN "open" ELSE entry[t]]
      /\ UNCHANGED <<pending, standing, kill, saved, ended>>
  BY DEF Poll
<1>3. /\ Answer(n) \subseteq Executable(n) /\ Executable(n) \subseteq Tasks
      /\ SignedOnTheSpot(n) \subseteq Executable(n)
  BY DEF Answer, SignedOnTheSpot, Executable, Recovered, Promoted
<1>4. DispatchTypeOK'
  <2>1. status' \in [Tasks -> Statuses]
    BY <1>1, <1>2 DEF DispatchTypeOK, Statuses
  <2>2. stale' \in [Tasks -> BOOLEAN]
    BY <1>2
  <2>3. delivered' \subseteq Tasks
    BY <1>1, <1>2, <1>3 DEF DispatchTypeOK
  <2>4. entry' \in [Tasks -> Entries]
    BY <1>1, <1>2 DEF DispatchTypeOK, Entries, Active
  <2>5. QED
    BY <1>1, <1>2, <2>1, <2>2, <2>3, <2>4 DEF DispatchTypeOK
<1>5. ASSUME NEW t \in Tasks, t \in Executable(n) PROVE PollShape(t)
  <2>1. status'[t] \in {"executable", "dispatched"}
    BY <1>2, <1>5
  <2>2. /\ \/ status[t] = "executable"
           \/ status[t] = "dispatched" /\ stale[t]
           \/ status[t] = "signed"
        /\ entry[t] # "early"
    BY <1>5 DEF Executable, Recovered, Promoted, DispatchInv, Due
  <2>3. /\ entry'[t] # "early"
        /\ entry[t] = "void" => entry'[t] = "void"
    BY <1>2, <2>2 DEF SignedOnTheSpot
  <2>4. ASSUME status'[t] = "dispatched"
        PROVE  entry[t] # "void" /\ (~Unavailable(owner'[t]) \/ Eligible = {})
    <3>1. t \in Answer(n)
      BY <1>2, <1>5, <2>4
    <3>2. entry[t] # "void"
      BY <3>1 DEF Answer, Live
    <3>3. owner'[t] \in Owners(n, t)
      BY DEF Poll
    <3>4. CASE Unavailable(owner[t]) /\ Eligible # {}
      BY <1>5, <3>2, <3>3, <3>4 DEF Owners, Eligible, Unavailable
    <3>5. CASE ~(Unavailable(owner[t]) /\ Eligible # {})
      <4>1. owner'[t] = owner[t]
        BY <3>3, <3>5 DEF Owners
      <4>2. QED
        BY <3>2, <3>5, <4>1
    <3>6. QED
      BY <3>4, <3>5
  <2>5. QED
    BY <2>1, <2>2, <2>3, <2>4 DEF PollShape
<1>6. ASSUME NEW t \in Tasks, t \notin Executable(n) PROVE PollShape(t)
  <2>1. status'[t] = status[t] /\ entry'[t] = entry[t]
    BY <1>2, <1>3, <1>6
  <2>2. owner'[t] = owner[t]
    BY <1>6 DEF Poll, Owners
  <2>3. stale[t] => stale'[t]
    BY <1>2, <1>3, <1>6 DEF Executable
  <2>4. QED
    BY <2>1, <2>2, <2>3 DEF PollShape
<1>7. QED
  BY <1>4, <1>5, <1>6

-----------------------------------------------------------------------------
(* The invariant *)

LEMMA DispatchInitInv == DispatchInit => DispatchInv
<1> SUFFICES ASSUME DispatchInit PROVE DispatchInv
  OBVIOUS
<1>1. DispatchTypeOK
  <2>1. kill \in KillRecords
    BY DEF DispatchInit, KillRecords
  <2>2. saved \in [Tasks -> SavedTask]
    BY DEF DispatchInit, SavedTask, Statuses, Entries
  <2>3. QED
    BY <2>1, <2>2, PendingAssumption DEF DispatchInit, DispatchTypeOK, Statuses, Entries
<1>2. QED
  BY <1>1 DEF DispatchInit, DispatchInv, Due, Unborn, Ends

LEMMA PipelineKeepsInv ==
    ASSUME DispatchInv, NEW t \in Tasks, PipelineStep(t)
    PROVE  DispatchInv'
<1>1. DispatchTypeOK
  BY DEF DispatchInv
<1> USE DEF DispatchInv, Due, Unborn, Ends
<1>2. ASSUME NEW n \in Nodes, NEW s \in {"draft", "signed"}, NEW e \in {"none", "open"},
             Create(t, n, s, e)
      PROVE  DispatchInv'
  <2>1. DispatchTypeOK'
    BY <1>1, <1>2 DEF Create, DispatchTypeOK, Statuses, Entries, Active
  <2>2. t \notin ended
    BY <1>2 DEF Create, Finished, Outcomes
  <2>3. QED
    BY <1>1, <1>2, <2>1, <2>2 DEF Create, DispatchTypeOK
<1>3. ASSUME NEW n \in Nodes, CreateDraft(t, n) \/ CreateAutoSigned(t, n) PROVE DispatchInv'
  BY <1>2, <1>3 DEF CreateDraft, CreateAutoSigned
<1>4. CASE StartRequest(t)
  <2>1. pending' \in [Tasks -> 0 .. MaxPending]
    BY <1>1, <1>4, PendingAssumption DEF StartRequest, DispatchTypeOK
  <2>2. QED
    BY <1>1, <1>4, <2>1 DEF StartRequest, DispatchTypeOK, taskVars
<1>5. CASE FinishRequest(t)
  <2>1. pending' \in [Tasks -> 0 .. MaxPending]
    BY <1>1, <1>5, PendingAssumption DEF FinishRequest, DispatchTypeOK
  <2>2. status' = status \/ status' = [status EXCEPT ![t] = "ready"]
    BY <1>5 DEF FinishRequest
  <2>3. DispatchTypeOK'
    BY <1>1, <1>5, <2>1, <2>2 DEF FinishRequest, DispatchTypeOK, Statuses
  <2>4. QED
    BY <1>1, <1>5, <2>2, <2>3 DEF FinishRequest, DispatchTypeOK
<1>6. ASSUME NEW e \in {"early", "open"}, SignTask(t, e) PROVE DispatchInv'
  BY <1>1, <1>6 DEF SignTask, DispatchTypeOK, Statuses, Entries, Active
<1>7. ASSUME NEW o \in Outcomes, Report(t, o) PROVE DispatchInv'
  BY <1>1, <1>7 DEF Report, DispatchTypeOK, Statuses, Finished, Outcomes
<1>8. CASE RevokeEntry(t)
  <2>1. status[t] # "none"
    BY <1>8 DEF RevokeEntry, Active
  <2>2. QED
    BY <1>1, <1>8, <2>1 DEF RevokeEntry, DispatchTypeOK, Entries
<1>9. CASE Revoke(t)
  BY <1>1, <1>9 DEF Revoke, DispatchTypeOK, Statuses, Finished, Entries
<1>10. QED
  BY <1>3, <1>4, <1>5, <1>6, <1>7, <1>8, <1>9 DEF PipelineStep

LEMMA SaveKeepsInv ==
    ASSUME DispatchInv, Save
    PROVE  DispatchInv'
<1>1. DispatchTypeOK
  BY DEF DispatchInv
<1>2. PICK torn \in SUBSET {t \in Tasks : entry[t] \in Active} :
          saved' = [t \in Tasks |-> [status |-> status[t],
                                     entry |-> IF t \in torn THEN "void" ELSE entry[t]]]
  BY DEF Save
<1>3. saved' \in [Tasks -> SavedTask]
  BY <1>1, <1>2 DEF DispatchTypeOK, SavedTask, Entries
<1>4. ASSUME NEW t \in Tasks
      PROVE  /\ saved'[t].status = status[t]
             /\ \/ saved'[t].entry = entry[t]
                \/ saved'[t].entry = "void" /\ entry[t] \in Active
  BY <1>2
<1>5. UNCHANGED <<status, owner, stale, entry, pending, standing, kill, delivered, ended>>
  BY DEF Save, taskVars
<1>6. DispatchTypeOK' /\ Ends'
  BY <1>1, <1>3, <1>5 DEF DispatchInv, DispatchTypeOK, Ends
<1>7. Due' /\ Unborn'
  BY <1>4, <1>5 DEF DispatchInv, Due, Unborn, Active
<1>8. QED
  BY <1>6, <1>7 DEF DispatchInv

LEMMA RestartKeepsInv ==
    ASSUME DispatchInv, DispatchRestart
    PROVE  DispatchInv'
<1>1. DispatchTypeOK
  BY DEF DispatchInv
<1>2. \A t \in Tasks : saved[t] \in SavedTask
  BY <1>1 DEF DispatchTypeOK
<1>3. DispatchTypeOK'
  <2>1. /\ status' \in [Tasks -> Statuses] /\ owner' \in [Tasks -> Nodes]
        /\ stale' \in [Tasks -> BOOLEAN] /\ entry' \in [Tasks -> Entries]
        /\ kill' \in KillRecords
    BY <1>2 DEF DispatchRestart, SavedTask, Entries
  <2>2. pending' \in [Tasks -> 0 .. MaxPending]
    BY PendingAssumption DEF DispatchRestart
  <2>3. QED
    BY <1>1, <2>1, <2>2 DEF DispatchRestart, DispatchTypeOK
<1>4. \A t \in Tasks : /\ status'[t] = saved[t].status
                       /\ entry'[t] = saved[t].entry \/ entry'[t] = "none"
  BY DEF DispatchRestart
<1>5. Due' /\ Unborn'
  BY <1>4 DEF DispatchRestart, DispatchInv, Due, Unborn
<1>6. Ends'
  BY DEF DispatchRestart, Ends
<1>7. QED
  BY <1>3, <1>5, <1>6 DEF DispatchInv

LEMMA DispatchStep == DispatchInv /\ [DispatchNext]_dispatchVars => DispatchInv'
<1> SUFFICES ASSUME DispatchInv, [DispatchNext]_dispatchVars PROVE DispatchInv'
  OBVIOUS
<1>1. DispatchTypeOK
  BY DEF DispatchInv
<1>2. ASSUME NEW n \in Nodes, Poll(n) PROVE DispatchInv'
  <2>1. DispatchTypeOK' /\ \A t \in Tasks : PollShape(t)
    BY <1>2, PollStep
  <2>2. UNCHANGED <<saved, ended>> /\ ended \subseteq Tasks
    BY <1>1, <1>2 DEF Poll, DispatchTypeOK
  <2>3. Due' /\ Unborn'
    BY <2>1, <2>2 DEF DispatchInv, Due, Unborn, PollShape
  <2>4. Ends'
    BY <2>1, <2>2 DEF DispatchInv, Ends, PollShape, Finished, Outcomes
  <2>5. QED
    BY <2>1, <2>3, <2>4 DEF DispatchInv
<1> USE DEF DispatchInv, Due, Unborn, Ends
<1>3. ASSUME NEW t \in Tasks, Age(t) PROVE DispatchInv'
  BY <1>1, <1>3 DEF Age, DispatchTypeOK
<1>4. ASSUME NEW t \in Tasks, EntryAges(t) PROVE DispatchInv'
  <2>1. \/ entry[t] = "early" /\ entry' = [entry EXCEPT ![t] = "open"]
        \/ entry[t] = "open" /\ entry' = [entry EXCEPT ![t] = "closed"]
    BY <1>4 DEF EntryAges
  <2>2. DispatchTypeOK'
    BY <1>1, <1>4, <2>1 DEF EntryAges, DispatchTypeOK, Entries, Active
  <2>3. QED
    BY <1>1, <1>4, <2>1, <2>2 DEF EntryAges, DispatchTypeOK
<1>5. ASSUME NEW n \in Nodes, NEW s \in Standings, NodeChanges(n, s) PROVE DispatchInv'
  BY <1>1, <1>5 DEF NodeChanges, DispatchTypeOK, taskVars
<1>6. ASSUME NEW s \in Scopes, Activate(s) \/ Deactivate(s) PROVE DispatchInv'
  <2>1. PICK x \in {"on", "off"} : SetKill(s, x)
    BY <1>6 DEF Activate, Deactivate
  <2>2. kill' \in KillRecords
    BY <1>1, <2>1, ScopesAssumption DEF SetKill, DispatchTypeOK, KillRecords
  <2>3. QED
    BY <1>1, <2>1, <2>2 DEF SetKill, DispatchTypeOK, taskVars
<1>7. CASE UNCHANGED dispatchVars
  BY <1>1, <1>7 DEF dispatchVars, taskVars, DispatchTypeOK
<1>8. QED
  BY <1>2, <1>3, <1>4, <1>5, <1>6, <1>7, PipelineKeepsInv, SaveKeepsInv, RestartKeepsInv
  DEF DispatchNext

LEMMA DispatchInvariant == DispatchSpec => []DispatchInv
BY DispatchInitInv, DispatchStep, PTL DEF DispatchSpec

-----------------------------------------------------------------------------
(* What a poll sends *)

LEMMA SendStep ==
    ASSUME DispatchInv, NEW t \in Tasks
    PROVE  /\ Sends(t) => t \notin ended
           /\ Sends(t) => entry'[t] # "early"
           /\ Sends(t) => ~Unavailable(owner'[t]) \/ Eligible = {}
           /\ (status[t] = "dispatched" /\ ~stale[t] /\ Polled)
                 => ~Sends(t) /\ owner'[t] = owner[t]
<1>1. Polled => PollShape(t)
  BY PollStep DEF Polled
<1>2. ASSUME Sends(t)
      PROVE  /\ status[t] \in {"signed", "executable", "dispatched"}
             /\ entry[t] # "void" /\ entry'[t] # "early"
             /\ ~Unavailable(owner'[t]) \/ Eligible = {}
  BY <1>1, <1>2 DEF Sends, PollShape
<1>3. ASSUME Sends(t) PROVE t \notin ended
  BY <1>2, <1>3 DEF DispatchInv, Ends, Finished, Outcomes
<1>4. ASSUME status[t] = "dispatched", ~stale[t], Polled
      PROVE  ~Sends(t) /\ owner'[t] = owner[t]
  BY <1>1, <1>4 DEF Sends, PollShape
<1>5. QED
  BY <1>2, <1>3, <1>4

\* What has ended is sent again only if it is signed anew or a restart has
\* forgotten the end, however many tasks, nodes and late requests there are.
THEOREM EndedTasksStayHome == DispatchSpec => EndedStaysHome
<1>1. DispatchInv => \A t \in Tasks : Sends(t) => t \notin ended
  BY SendStep
<1>2. QED
  BY <1>1, DispatchInvariant, PTL DEF DispatchSpec, EndedStaysHome

\* No task is sent before the delay of the entry in force is over, whatever late
\* scans, second signatures, torn saves and restarts have done to it.
THEOREM DelaysHold == DispatchSpec => SentOnlyWhenDue
<1>1. DispatchInv => \A t \in Tasks : Sends(t) => entry'[t] # "early"
  BY SendStep
<1>2. QED
  BY <1>1, DispatchInvariant, PTL DEF DispatchSpec, SentOnlyWhenDue

\* A node that routing takes for unavailable is served only while none is eligible.
THEOREM UnavailableComesLast == DispatchSpec => UnavailableServedLast
<1>1. DispatchInv => \A t \in Tasks : Sends(t) => ~Unavailable(owner'[t]) \/ Eligible = {}
  BY SendStep
<1>2. QED
  BY <1>1, DispatchInvariant, PTL DEF DispatchSpec, UnavailableServedLast

\* A node has its five minutes before the task goes anywhere again.
THEOREM RetriesWait == DispatchSpec => PatienceBeforeRetry
<1>1. DispatchInv => \A t \in Tasks :
          (status[t] = "dispatched" /\ ~stale[t] /\ Polled)
              => ~Sends(t) /\ owner'[t] = owner[t]
  BY SendStep
<1>2. QED
  BY <1>1, DispatchInvariant, PTL DEF DispatchSpec, PatienceBeforeRetry
=============================================================================
