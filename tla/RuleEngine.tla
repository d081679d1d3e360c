----------------------------- MODULE RuleEngine -----------------------------
(***************************************************************************)
(* RulesService: manual triggers and events run rules over the devices of  *)
(* a tenant and create tasks, with a conflict check against the live tasks *)
(* and an hourly limit per rule.                                           *)
(*                                                                         *)
(* An execution awaits the security scan of every task it creates, and it  *)
(* resumes through a promise after the scan, after every action and after  *)
(* every rule.  Between two such points it has the event loop to itself:   *)
(* it is `on the loop', and nothing else moves until it waits again.       *)
(*                                                                         *)
(* Abstractions: a key is what hasActiveConflict compares besides the      *)
(* device (type, application, package, manager, scope).  Conditions and    *)
(* inventory are a choice of the plan a device yields: the task-creating   *)
(* actions in order, each a node lookup followed by its drafts (a          *)
(* notification or a tag is a lookup that finds a node and drafts          *)
(* nothing).  Of a task's status only its being in ACTIVE_TASK_STATUSES    *)
(* is kept; the hour is the number of recorded creations still in it.      *)
(***************************************************************************)
EXTENDS Naturals, Sequences, FiniteSets

CONSTANTS
    Rules,       \* rule ids
    EventRules,  \* the rules with an event trigger, in order of priority
    NumDevices,  \* the tenant's devices are 1 .. NumDevices, in order of id
    Keys,        \* task identities on a device
    Plans,       \* the plans a rule can have for a device
    Execs,       \* requests that can run rules at the same time
    Limit,       \* DEFAULT_MAX_TASKS_PER_RULE_PER_HOUR
    MaxTasks,    \* bound: tasks ever created
    MaxLate      \* bound: scans and approvals of others suspended at a time

Devices == 1 .. NumDevices
Lookup == "lookup"

ASSUME NaturalsAssumption ==
    NumDevices \in Nat /\ Limit \in Nat /\ MaxTasks \in Nat /\ MaxLate \in Nat
ASSUME RulesAssumption == EventRules \in Seq(Rules)
ASSUME PlansAssumption == Lookup \notin Keys /\ Plans \subseteq Seq(Keys \cup {Lookup})

VARIABLES
    enabled,     \* enabled[r]
    counted,     \* counted[r]: entries of taskCreatedAt within the hour
    tasks,       \* the tasks array
    exec,        \* exec[x]: where request x is in triggerEvent, executeRule, applyAction
    overlapped   \* history: rules one of whose executions was admitted during another

vars == <<enabled, counted, tasks, exec, overlapped>>

Idle == [pc |-> "idle"]

OnLoop == {"device", "run"}
Waiting == {"scan", "resume", "return", "ended"}

Frame == [pc : OnLoop \cup Waiting,
          rest : SUBSET (1 .. Len(EventRules)), \* the event's further rules
          rule : Rules,
          devices : Seq(Devices),             \* selected devices still to come
          device : Devices \cup {0},          \* the current device,
          plan : Seq(Keys \cup {Lookup}),     \*   its plan
          at : Nat \ {0},                     \*   and the place in it
          task : Nat]                         \* the task being scanned

\* late: a scan or an approval somebody else started is still to finish;
\* revived: the task is active because one finished after it had been closed.
Task == [device : Devices, key : Keys, byRule : BOOLEAN,
         active : BOOLEAN, late : BOOLEAN, revived : BOOLEAN]

TypeOK ==
    /\ enabled \in [Rules -> BOOLEAN]
    /\ counted \in [Rules -> Nat]
    /\ tasks \in Seq(Task)
    /\ exec \in [Execs -> {Idle} \cup Frame]
    /\ overlapped \subseteq Rules

Free == \A x \in Execs : exec[x].pc \notin OnLoop

-----------------------------------------------------------------------------
(* Starting executions *)

\* Drafts of a plan from place i on
DraftsFrom(plan, i) == {j \in i .. Len(plan) : plan[j] # Lookup}
Outstanding(x) ==
    IF exec[x].pc = "idle" THEN {} ELSE DraftsFrom(exec[x].plan, exec[x].at)

\* One given device, or the first so many of the tenant (ruleMaxDevices).  An
\* event names one device for all its rules or none; here each rule may differ.
Selections ==
    {<<d>> : d \in Devices} \cup {[i \in 1 .. n |-> i] : n \in 1 .. NumDevices}

Start(r, rest, devices) ==
    [pc |-> "device", rest |-> rest, rule |-> r, devices |-> devices,
     device |-> 0, plan |-> <<>>, at |-> 1, task |-> 0]

\* POST /rules/:id/trigger
Trigger(x, r) ==
    /\ Free
    /\ exec[x] = Idle
    /\ enabled[r]
    /\ \E devices \in Selections : exec' = [exec EXCEPT ![x] = Start(r, {}, devices)]
    /\ UNCHANGED <<enabled, counted, tasks, overlapped>>

EnabledEvents == {i \in 1 .. Len(EventRules) : enabled[EventRules[i]]}
First(i, S) == i \in S /\ \A j \in S : i <= j

\* POST /rules/events/:eventType: the list is filtered once, at the start.
TriggerEvent(x) ==
    /\ Free
    /\ exec[x] = Idle
    /\ \E i \in EnabledEvents, devices \in Selections :
          /\ First(i, EnabledEvents)
          /\ exec' = [exec EXCEPT ![x] =
                         Start(EventRules[i], EnabledEvents \ {i}, devices)]
    /\ UNCHANGED <<enabled, counted, tasks, overlapped>>

\* executeRule has returned to triggerEvent: the next rule starts, unless it
\* has been disabled meanwhile, which ends the whole request.
NextRule(x) ==
    /\ Free
    /\ exec[x].pc = "ended"
    /\ \/ \E i \in exec[x].rest, devices \in Selections :
             /\ First(i, exec[x].rest)
             /\ exec' = [exec EXCEPT ![x] =
                            IF enabled[EventRules[i]]
                            THEN Start(EventRules[i], exec[x].rest \ {i}, devices)
                            ELSE Idle]
       \/ /\ exec[x].rest = {}
          /\ exec' = [exec EXCEPT ![x] = Idle]
    /\ UNCHANGED <<enabled, counted, tasks, overlapped>>

-----------------------------------------------------------------------------
(* One device: simulateForDevice, then the actions *)

\* Slip: the limit is tested against what was created, not what is asked for.
LimitOnPast(r, plan) == counted[r] <= Limit

WithinRateLimit(r, plan) == counted[r] + Cardinality(DraftsFrom(plan, 1)) <= Limit

\* Bound: what has been admitted must still fit into the tasks array.
RoomFor(plan) ==
    \/ DraftsFrom(plan, 1) = {}
    \/ Len(tasks) + Cardinality(UNION {{y} \X Outstanding(y) : y \in Execs})
           + Cardinality(DraftsFrom(plan, 1)) <= MaxTasks

Admit(x, plan) ==
    [exec[x] EXCEPT !.pc = "run", !.plan = plan, !.at = 1,
                    !.device = Head(exec[x].devices), !.devices = Tail(exec[x].devices)]

SimulateForDevice(x) ==
    /\ exec[x].pc = "device"
    /\ exec[x].devices # <<>>
    /\ \E plan \in Plans :
          /\ RoomFor(plan)
          /\ \/ /\ WithinRateLimit(exec[x].rule, plan)
                /\ plan # <<>>
                /\ exec' = [exec EXCEPT ![x] = Admit(x, plan)]
                /\ overlapped' =
                      IF \E y \in Execs \ {x} : /\ exec[y] # Idle
                                                /\ exec[y].rule = exec[x].rule
                                                /\ Outstanding(y) # {}
                      THEN overlapped \cup {exec[x].rule} ELSE overlapped
             \/ /\ plan = <<>> \/ ~WithinRateLimit(exec[x].rule, plan)
                /\ exec' = [exec EXCEPT ![x].devices = Tail(exec[x].devices)]
                /\ UNCHANGED overlapped
    /\ UNCHANGED <<enabled, counted, tasks>>

\* No selected device is left.
EndRule(x) ==
    /\ exec[x].pc = "device"
    /\ exec[x].devices = <<>>
    /\ exec' = [exec EXCEPT ![x].pc = "ended"]
    /\ UNCHANGED <<enabled, counted, tasks, overlapped>>

PlanDone(x) == exec[x].at > Len(exec[x].plan)
Current(x) == exec[x].plan[exec[x].at]

\* Past place at: applyAction returns at the end of its drafts.
Past(x) ==
    [exec[x] EXCEPT !.at = @ + 1, !.task = 0,
                    !.pc = IF /\ exec[x].at < Len(exec[x].plan)
                              /\ exec[x].plan[exec[x].at + 1] # Lookup
                           THEN "run" ELSE "return"]

\* applyAction has returned, or thrown.
Continue(x) ==
    /\ Free
    /\ exec[x].pc = "return"
    /\ exec' = [exec EXCEPT ![x].pc = IF PlanDone(x) THEN "device" ELSE "run",
                            ![x].plan = IF PlanDone(x) THEN <<>> ELSE @,
                            ![x].device = IF PlanDone(x) THEN 0 ELSE @,
                            ![x].at = IF PlanDone(x) THEN 1 ELSE @]
    /\ UNCHANGED <<enabled, counted, tasks, overlapped>>

\* Without a node applyAction throws; executeRule catches it and goes on with
\* the next device.
AbandonDevice(x) ==
    [exec[x] EXCEPT !.at = Len(exec[x].plan) + 1, !.pc = "return"]

AvailableNode(x) ==
    /\ exec[x].pc = "run"
    /\ Current(x) = Lookup
    /\ \/ exec' = [exec EXCEPT ![x] = Past(x)]
       \/ exec' = [exec EXCEPT ![x] = AbandonDevice(x)]
    /\ UNCHANGED <<enabled, counted, tasks, overlapped>>

\* Slip: only tasks whose scan is over count as active.
SettledConflict(d, k) ==
    \E i \in 1 .. Len(tasks) :
        /\ tasks[i].active /\ tasks[i].device = d /\ tasks[i].key = k
        /\ \A x \in Execs : exec[x] # Idle => exec[x].task # i

HasActiveConflict(d, k) ==
    \E i \in 1 .. Len(tasks) :
        tasks[i].active /\ tasks[i].device = d /\ tasks[i].key = k

SkipConflict(x) ==
    /\ exec[x].pc = "run"
    /\ Current(x) # Lookup
    /\ HasActiveConflict(exec[x].device, Current(x))
    /\ exec' = [exec EXCEPT ![x] = Past(x)]
    /\ UNCHANGED <<enabled, counted, tasks, overlapped>>

\* createDraft, and runSecurityScan up to its await
CreateTask(x) ==
    /\ exec[x].pc = "run"
    /\ Current(x) # Lookup
    /\ ~HasActiveConflict(exec[x].device, Current(x))
    /\ tasks' = Append(tasks, [device |-> exec[x].device, key |-> Current(x),
                               byRule |-> TRUE, active |-> TRUE, late |-> FALSE,
                               revived |-> FALSE])
    /\ exec' = [exec EXCEPT ![x].pc = "scan", ![x].task = Len(tasks) + 1]
    /\ UNCHANGED <<enabled, counted, overlapped>>

\* A scan or an approval assigns its status whatever the status has become.
Revive(i) == [tasks[i] EXCEPT !.active = TRUE, !.revived = @ \/ ~tasks[i].active]

FinishScan(x) ==
    /\ Free
    /\ exec[x].pc = "scan"
    /\ tasks' = [tasks EXCEPT ![exec[x].task] = Revive(exec[x].task)]
    /\ exec' = [exec EXCEPT ![x].pc = "resume"]
    /\ UNCHANGED <<enabled, counted, overlapped>>

\* autoFinalizeAfterScan (which keeps an active task active) and recordRuleTask
Resume(x) ==
    /\ Free
    /\ exec[x].pc = "resume"
    /\ counted' = [counted EXCEPT ![exec[x].rule] = @ + 1]
    /\ exec' = [exec EXCEPT ![x] = Past(x)]
    /\ UNCHANGED <<enabled, tasks, overlapped>>

-----------------------------------------------------------------------------
(* What happens meanwhile *)

\* POST /tasks/draft and the automatic endpoints know no conflicts.
CreateByOperator(d, k) ==
    /\ Free
    /\ RoomFor(<<k>>)
    /\ tasks' = Append(tasks, [device |-> d, key |-> k, byRule |-> FALSE,
                               active |-> TRUE, late |-> FALSE, revived |-> FALSE])
    /\ UNCHANGED <<enabled, counted, exec, overlapped>>

\* A scan or an approval of an active task reaches its await ...
Suspend(i) ==
    /\ Free
    /\ tasks[i].active
    /\ Cardinality({j \in 1 .. Len(tasks) : tasks[j].late}) < MaxLate
    /\ tasks' = [tasks EXCEPT ![i].late = TRUE]
    /\ UNCHANGED <<enabled, counted, exec, overlapped>>

\* ... and is answered; there may have been several.
FinishLate(i) ==
    /\ Free
    /\ tasks[i].late
    /\ \E more \in BOOLEAN : tasks' = [tasks EXCEPT ![i] = [Revive(i) EXCEPT !.late = more]]
    /\ UNCHANGED <<enabled, counted, exec, overlapped>>

\* A result, a revocation or an expiry takes the task out of the active states.
Close(i) ==
    /\ Free
    /\ tasks[i].active
    /\ tasks' = [tasks EXCEPT ![i].active = FALSE, ![i].revived = FALSE]
    /\ UNCHANGED <<enabled, counted, exec, overlapped>>

\* PATCH /rules/:id
SetEnabled(r) ==
    /\ Free
    /\ enabled' = [enabled EXCEPT ![r] = ~@]
    /\ UNCHANGED <<counted, tasks, exec, overlapped>>

\* The oldest recorded creation leaves the hour.
HourPasses(r) ==
    /\ Free
    /\ counted[r] > 0
    /\ counted' = [counted EXCEPT ![r] = @ - 1]
    /\ UNCHANGED <<enabled, tasks, exec, overlapped>>

\* Suspended requests are gone, and so is what they had not counted yet; rules
\* loaded from their Postgres rows, which have no executionStats, have counted
\* nothing.
Restart ==
    /\ Free
    /\ \/ UNCHANGED counted
       \/ counted' = [r \in Rules |-> 0]
    /\ exec' = [x \in Execs |-> Idle]
    /\ tasks' = [i \in 1 .. Len(tasks) |-> [tasks[i] EXCEPT !.late = FALSE]]
    /\ UNCHANGED <<enabled, overlapped>>

-----------------------------------------------------------------------------
Init ==
    /\ enabled \in [Rules -> BOOLEAN]
    /\ counted = [r \in Rules |-> 0]
    /\ tasks = <<>>
    /\ exec = [x \in Execs |-> Idle]
    /\ overlapped = {}

Advance(x) ==
    \/ NextRule(x) \/ SimulateForDevice(x) \/ EndRule(x) \/ Continue(x)
    \/ AvailableNode(x) \/ SkipConflict(x) \/ CreateTask(x)
    \/ FinishScan(x) \/ Resume(x)

TaskStep(i) == Suspend(i) \/ FinishLate(i) \/ Close(i)

Next ==
    \/ \E x \in Execs : Advance(x) \/ TriggerEvent(x) \/ \E r \in Rules : Trigger(x, r)
    \/ \E i \in 1 .. Len(tasks) : TaskStep(i)
    \/ \E d \in Devices, k \in Keys : CreateByOperator(d, k)
    \/ \E r \in Rules : SetEnabled(r) \/ HourPasses(r)
    \/ Restart

Spec == Init /\ [][Next]_vars

-----------------------------------------------------------------------------
(* Properties *)

\* A rule's task is never created beside a live task for the same work on the
\* same device: when both are active, the earlier one had been closed and was
\* brought back by a scan or an approval that finished late (hasActiveConflict
\* in applyAction, which other executions run while this one awaits a scan).
OneLiveTask ==
    \A i, j \in 1 .. Len(tasks) :
        (/\ i < j
         /\ tasks[j].byRule
         /\ tasks[i].active /\ tasks[j].active
         /\ tasks[i].device = tasks[j].device /\ tasks[i].key = tasks[j].key)
            => tasks[i].revived

\* The hourly limit holds for every rule none of whose executions was admitted
\* while another still had tasks to create, although the limit is tested once
\* per device and counted task by task, after each scan.  The count is the one the
\* program has: what a restart forgot is not in it (withinRateLimit,
\* recordRuleTask).
RateHeldWhenAlone == \A r \in Rules \ overlapped : counted[r] <= Limit
=============================================================================
