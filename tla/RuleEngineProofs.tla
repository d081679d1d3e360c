-------------------------- MODULE RuleEngineProofs --------------------------
(***************************************************************************)
(* Proofs about RuleEngine for any rules, devices, plans, limit and number *)
(* of overlapping requests.                                                *)
(***************************************************************************)
EXTENDS RuleEngine, FiniteSetTheorems, SequenceTheorems, TLAPS

\* An execution that runs or awaits a scan is at a place of a device's plan;
\* while it awaits, the place is a draft.
InPlan(f) ==
    /\ f.pc \in {"run", "scan", "resume", "return"} => f.device \in Devices
    /\ f.pc = "run" => f.at <= Len(f.plan)
    /\ f.pc \in {"scan", "resume"} => f.at <= Len(f.plan) /\ f.plan[f.at] # Lookup

Placed == \A x \in Execs : exec[x] # Idle => InPlan(exec[x])

\* An earlier task for the same work is never active by its own creation once a
\* rule has made a later one.
Superseded ==
    \A i, j \in 1 .. Len(tasks) :
        (/\ i < j
         /\ tasks[j].byRule
         /\ tasks[i].active
         /\ tasks[i].device = tasks[j].device /\ tasks[i].key = tasks[j].key)
            => tasks[i].revived

Left(f) == Cardinality(DraftsFrom(f.plan, f.at))

\* What an execution was admitted with still fits into the hour, and two
\* executions of a rule that never overlapped do not both have drafts left.
Accounted(r) ==
    /\ counted[r] <= Limit
    /\ \A x \in Execs : (exec[x] # Idle /\ exec[x].rule = r)
                            => counted[r] + Left(exec[x]) <= Limit
    /\ \A x, y \in Execs :
          (/\ x # y /\ exec[x] # Idle /\ exec[y] # Idle
           /\ exec[x].rule = r /\ exec[y].rule = r)
              => Left(exec[x]) = 0 \/ Left(exec[y]) = 0

IInv == TypeOK /\ Placed /\ Superseded /\ \A r \in Rules \ overlapped : Accounted(r)

-----------------------------------------------------------------------------
(* Plans *)

LEMMA IdleIsNoFrame == Idle \notin Frame /\ \A f \in Frame : f # Idle /\ f.pc # "idle"
BY DEF Idle, Frame, OnLoop, Waiting

LEMMA DraftsFinite ==
    ASSUME NEW p \in Seq(Keys \cup {Lookup}), NEW i \in Nat \ {0}
    PROVE  /\ IsFiniteSet(DraftsFrom(p, i))
           /\ Cardinality(DraftsFrom(p, i)) \in Nat
<1>1. IsFiniteSet(i .. Len(p))
  BY FS_Interval
<1>2. DraftsFrom(p, i) \in SUBSET (i .. Len(p))
  BY DEF DraftsFrom
<1>3. QED
  BY <1>1, <1>2, FS_Subset, FS_CardinalityType

\* Stepping past a place keeps the drafts behind it, one fewer if it was a draft.
LEMMA DraftsAfter ==
    ASSUME NEW p \in Seq(Keys \cup {Lookup}), NEW i \in Nat \ {0}
    PROVE  /\ Cardinality(DraftsFrom(p, i + 1)) <= Cardinality(DraftsFrom(p, i))
           /\ i <= Len(p) /\ p[i] # Lookup =>
                 Cardinality(DraftsFrom(p, i)) = Cardinality(DraftsFrom(p, i + 1)) + 1
<1> i + 1 \in Nat \ {0}
  OBVIOUS
<1>1. /\ IsFiniteSet(DraftsFrom(p, i))
      /\ Cardinality(DraftsFrom(p, i)) \in Nat
      /\ Cardinality(DraftsFrom(p, i + 1)) \in Nat
  BY DraftsFinite
<1>2. DraftsFrom(p, i + 1) = DraftsFrom(p, i) \ {i}
  BY DEF DraftsFrom
<1>3. i \in DraftsFrom(p, i) <=> i <= Len(p) /\ p[i] # Lookup
  BY DEF DraftsFrom
<1>4. Cardinality(DraftsFrom(p, i + 1)) =
        IF i \in DraftsFrom(p, i) THEN Cardinality(DraftsFrom(p, i)) - 1
        ELSE Cardinality(DraftsFrom(p, i))
  BY <1>1, <1>2, FS_RemoveElement
<1>5. QED
  BY <1>1, <1>3, <1>4

\* Past the end there are none.
LEMMA DraftsAtEnd ==
    ASSUME NEW p \in Seq(Keys \cup {Lookup}), NEW i \in Nat, i > Len(p)
    PROVE  DraftsFrom(p, i) = {} /\ Cardinality(DraftsFrom(p, i)) = 0
<1>1. DraftsFrom(p, i) = {}
  BY DEF DraftsFrom
<1>2. QED
  BY <1>1, FS_EmptySet

LEMMA EmptyPlan == <<>> \in Seq(Keys \cup {Lookup}) /\ Cardinality(DraftsFrom(<<>>, 1)) = 0
<1> DEFINE p == <<>>
<1>1. /\ p \in Seq(Keys \cup {Lookup})
      /\ 1 \in Nat
      /\ 1 > Len(p)
  BY EmptySeq
<1> HIDE DEF p
<1>2. Cardinality(DraftsFrom(p, 1)) = 0
  BY ONLY <1>1, DraftsAtEnd
<1>3. QED
  BY <1>1, <1>2 DEF p

-----------------------------------------------------------------------------
(* Frames: what each part of an execution's step makes of its frame *)

LEMMA StartFrame ==
    ASSUME NEW r \in Rules, NEW rest \in SUBSET (1 .. Len(EventRules)),
           NEW devices \in Selections
    PROVE  /\ Start(r, rest, devices) \in Frame
           /\ InPlan(Start(r, rest, devices))
           /\ Start(r, rest, devices).rule = r
           /\ Left(Start(r, rest, devices)) = 0
<1>1. devices \in Seq(Devices)
  <2>1. CASE \E d \in Devices : devices = <<d>>
    BY <2>1
  <2>2. CASE \E n \in 1 .. NumDevices : devices = [i \in 1 .. n |-> i]
    <3>1. PICK n \in 1 .. NumDevices : devices = [i \in 1 .. n |-> i]
      BY <2>2
    <3>2. devices \in [1 .. n -> Devices] /\ n \in Nat
      BY <3>1, NaturalsAssumption DEF Devices
    <3>3. QED
      BY <3>2, SeqDef
  <2>3. QED
    BY <2>1, <2>2 DEF Selections
<1>2. <<>> \in Seq(Keys \cup {Lookup}) /\ Cardinality(DraftsFrom(<<>>, 1)) = 0
  BY EmptyPlan
<1>3. Start(r, rest, devices) \in Frame
  BY <1>1, <1>2 DEF Start, Frame, OnLoop
<1>4. QED
  BY <1>2, <1>3 DEF Start, InPlan, Left

LEMMA LeftType == ASSUME NEW f \in Frame PROVE Left(f) \in Nat
BY DraftsFinite DEF Left, Frame

LEMMA PastFrame ==
    ASSUME NEW x \in Execs, exec[x] \in Frame, InPlan(exec[x]),
           exec[x].pc \in {"run", "resume"}
    PROVE  /\ Past(x) \in Frame
           /\ InPlan(Past(x))
           /\ Past(x).rule = exec[x].rule
           /\ Left(Past(x)) <= Left(exec[x])
           /\ exec[x].at <= Len(exec[x].plan) /\ Current(x) # Lookup =>
                 Left(exec[x]) = Left(Past(x)) + 1
<1> DEFINE e == exec[x]
<1>1. /\ e.plan \in Seq(Keys \cup {Lookup})
      /\ e.at \in Nat \ {0}
      /\ Len(e.plan) \in Nat
  BY DEF Frame
<1>2. /\ Past(x).plan = e.plan
      /\ Past(x).at = e.at + 1
      /\ Past(x).rule = e.rule
      /\ Past(x).device = e.device
      /\ Past(x).pc \in {"run", "return"}
      /\ Past(x).pc = "run" => e.at < Len(e.plan)
  BY DEF Past, Frame
<1>3. Past(x) \in Frame
  <2>1. e.at + 1 \in Nat \ {0}
    BY <1>1
  <2>2. \A i \in Nat \ {0}, pc \in {"run", "return"} :
            [e EXCEPT !.at = i, !.task = 0, !.pc = pc] \in Frame
    BY DEF Frame, OnLoop, Waiting
  <2>3. PICK pc \in {"run", "return"} :
            Past(x) = [e EXCEPT !.at = e.at + 1, !.task = 0, !.pc = pc]
    BY DEF Past
  <2>4. QED
    BY <2>1, <2>2, <2>3
<1>4. InPlan(Past(x))
  BY <1>1, <1>2 DEF InPlan
<1>5. QED
  BY <1>1, <1>2, <1>3, <1>4, DraftsAfter DEF Left, Current

\* A step that gives x another frame with no drafts left, or with no more drafts
\* of the same rule than before.
Quiet(x) ==
    \E f \in {Idle} \cup Frame :
        /\ exec' = [exec EXCEPT ![x] = f]
        /\ f # Idle => /\ InPlan(f)
                       /\ \/ Left(f) = 0
                          \/ /\ exec[x] # Idle
                             /\ f.rule = exec[x].rule
                             /\ Left(f) <= Left(exec[x])

LEMMA StartsAreQuiet ==
    ASSUME TypeOK, Placed, NEW x \in Execs,
           TriggerEvent(x) \/ NextRule(x) \/ \E r \in Rules : Trigger(x, r)
    PROVE  Quiet(x)
<1>1. \A i \in 1 .. Len(EventRules) : EventRules[i] \in Rules
  BY RulesAssumption
<1>2. CASE \E r \in Rules : Trigger(x, r)
  <2>1. PICK r \in Rules, devices \in Selections :
            exec' = [exec EXCEPT ![x] = Start(r, {}, devices)]
    BY <1>2 DEF Trigger
  <2>2. {} \in SUBSET (1 .. Len(EventRules))
    OBVIOUS
  <2>3. QED
    BY <2>1, <2>2, StartFrame DEF Quiet
<1>3. CASE TriggerEvent(x)
  <2>1. PICK i \in EnabledEvents, devices \in Selections :
            exec' = [exec EXCEPT ![x] =
                        Start(EventRules[i], EnabledEvents \ {i}, devices)]
    BY <1>3 DEF TriggerEvent
  <2>2. EventRules[i] \in Rules /\ EnabledEvents \ {i} \in SUBSET (1 .. Len(EventRules))
    BY <1>1 DEF EnabledEvents
  <2>3. QED
    BY <2>1, <2>2, StartFrame DEF Quiet
<1>4. CASE NextRule(x)
  <2>1. exec[x] \in Frame
    BY <1>4 DEF TypeOK, NextRule, Idle
  <2>2. CASE exec' = [exec EXCEPT ![x] = Idle]
    BY <2>2 DEF Quiet
  <2>3. CASE \E i \in exec[x].rest, devices \in Selections :
                exec' = [exec EXCEPT ![x] =
                            IF enabled[EventRules[i]]
                            THEN Start(EventRules[i], exec[x].rest \ {i}, devices)
                            ELSE Idle]
    <3>1. PICK i \in exec[x].rest, devices \in Selections :
              exec' = [exec EXCEPT ![x] =
                          IF enabled[EventRules[i]]
                          THEN Start(EventRules[i], exec[x].rest \ {i}, devices)
                          ELSE Idle]
      BY <2>3
    <3>2. EventRules[i] \in Rules /\ exec[x].rest \ {i} \in SUBSET (1 .. Len(EventRules))
      BY <1>1, <2>1 DEF Frame
    <3>3. CASE enabled[EventRules[i]]
      <4>1. exec' = [exec EXCEPT ![x] = Start(EventRules[i], exec[x].rest \ {i}, devices)]
        BY <3>1, <3>3
      <4>2. QED
        BY <4>1, <3>2, StartFrame DEF Quiet
    <3>4. CASE ~enabled[EventRules[i]]
      <4>1. exec' = [exec EXCEPT ![x] = Idle]
        BY <3>1, <3>4
      <4>2. QED
        BY <4>1, <2>2
    <3>5. QED
      BY <3>3, <3>4
  <2>4. QED
    BY <1>4, <2>2, <2>3 DEF NextRule
<1>5. QED
  BY <1>2, <1>3, <1>4

\* The steps within a rule, except the admission of a plan.
LEMMA AdvancesAreQuiet ==
    ASSUME TypeOK, Placed, NEW x \in Execs,
           \/ EndRule(x) \/ Continue(x) \/ AvailableNode(x) \/ SkipConflict(x)
           \/ CreateTask(x) \/ FinishScan(x) \/ Resume(x)
    PROVE  Quiet(x)
<1> DEFINE e == exec[x]
<1>1. exec[x] \in Frame /\ exec[x] # Idle /\ InPlan(exec[x])
  <2>1. exec[x].pc # "idle"
    BY DEF EndRule, Continue, AvailableNode, SkipConflict, CreateTask, FinishScan, Resume
  <2>2. QED
    BY <2>1 DEF TypeOK, Placed, Idle
<1>2. /\ e.plan \in Seq(Keys \cup {Lookup})
      /\ e.at \in Nat \ {0}
      /\ Len(e.plan) \in Nat
      /\ Left(e) \in Nat
  BY <1>1, LeftType DEF Frame
<1>3. CASE EndRule(x)
  <2> DEFINE f == [e EXCEPT !.pc = "ended"]
  <2>1. f \in Frame /\ f.plan = e.plan /\ f.at = e.at /\ f.rule = e.rule /\ f.pc = "ended"
    BY <1>1 DEF Frame, Waiting
  <2>2. InPlan(f) /\ Left(f) <= Left(e)
    BY <1>2, <2>1 DEF InPlan, Left
  <2>3. QED
    BY <1>1, <1>3, <2>1, <2>2 DEF EndRule, Quiet
<1>4. CASE Continue(x)
  <2>1. CASE PlanDone(x)
    <3> DEFINE f == [e EXCEPT !.pc = "device", !.plan = <<>>, !.device = 0, !.at = 1]
    <3>0. ASSUME NEW p \in Seq(Keys \cup {Lookup}), NEW g,
                 g = [e EXCEPT !.pc = "device", !.plan = p, !.device = 0, !.at = 1]
          PROVE  g \in Frame /\ g.plan = p /\ g.at = 1 /\ g.rule = e.rule /\ g.pc = "device"
      <4>1. g = [pc |-> "device", rest |-> e.rest, rule |-> e.rule, devices |-> e.devices,
                 device |-> 0, plan |-> p, at |-> 1, task |-> e.task]
        BY <1>1, <3>0 DEF Frame
      <4>2. QED
        BY <1>1, <4>1 DEF Frame, OnLoop
    <3>1. /\ f \in Frame /\ f.plan = <<>> /\ f.at = 1 /\ f.rule = e.rule
          /\ f.pc = "device"
      BY <3>0, EmptyPlan
    <3>2. InPlan(f) /\ Left(f) = 0
      BY <3>1, EmptyPlan DEF InPlan, Left
    <3>3. exec' = [exec EXCEPT ![x] = f]
      BY <1>4, <2>1 DEF Continue
    <3>4. QED
      BY <3>1, <3>2, <3>3 DEF Quiet
  <2>2. CASE ~PlanDone(x)
    <3> DEFINE f == [e EXCEPT !.pc = "run", !.plan = e.plan, !.device = e.device, !.at = e.at]
    <3>1. /\ f \in Frame /\ f.plan = e.plan /\ f.at = e.at /\ f.rule = e.rule
          /\ f.pc = "run" /\ f.device = e.device
      BY <1>1 DEF Frame, OnLoop
    <3>2. e.at <= Len(e.plan) /\ e.device \in Devices
      BY <1>1, <1>2, <1>4, <2>2 DEF PlanDone, InPlan, Continue
    <3>3. InPlan(f) /\ Left(f) <= Left(e)
      BY <1>2, <3>1, <3>2 DEF InPlan, Left
    <3>4. exec' = [exec EXCEPT ![x] = f]
      BY <1>4, <2>2 DEF Continue
    <3>5. QED
      BY <1>1, <3>1, <3>3, <3>4 DEF Quiet
  <2>3. QED
    BY <2>1, <2>2
<1>5. CASE exec' = [exec EXCEPT ![x] = Past(x)] /\ exec[x].pc \in {"run", "resume"}
  BY <1>1, <1>5, PastFrame DEF Quiet
<1>6. CASE exec' = [exec EXCEPT ![x] = AbandonDevice(x)] /\ exec[x].pc = "run"
  <2> DEFINE f == AbandonDevice(x)
  <2>0. Len(e.plan) + 1 \in Nat \ {0} /\ Len(e.plan) + 1 > Len(e.plan)
    BY <1>2
  <2>1. /\ f \in Frame /\ f.plan = e.plan /\ f.at = Len(e.plan) + 1 /\ f.rule = e.rule
        /\ f.pc = "return" /\ f.device = e.device
    BY <1>1, <2>0 DEF AbandonDevice, Frame, Waiting
  <2>2. Left(f) = 0
    BY <1>2, <2>0, <2>1, DraftsAtEnd DEF Left
  <2>3. InPlan(f)
    BY <1>1, <1>6, <2>1 DEF InPlan
  <2>4. QED
    BY <1>6, <2>1, <2>2, <2>3 DEF Quiet
<1>7. CASE CreateTask(x)
  <2> DEFINE f == [e EXCEPT !.pc = "scan", !.task = Len(tasks) + 1]
  <2>1. Len(tasks) + 1 \in Nat
    BY DEF TypeOK
  <2>2. /\ f \in Frame /\ f.plan = e.plan /\ f.at = e.at /\ f.rule = e.rule
        /\ f.pc = "scan" /\ f.device = e.device
    BY <1>1, <2>1 DEF Frame, Waiting
  <2>3. InPlan(f) /\ Left(f) <= Left(e)
    BY <1>1, <1>2, <1>7, <2>2 DEF InPlan, Left, CreateTask, Current
  <2>4. QED
    BY <1>1, <1>7, <2>2, <2>3 DEF CreateTask, Quiet
<1>8. CASE FinishScan(x)
  <2> DEFINE f == [e EXCEPT !.pc = "resume"]
  <2>1. /\ f \in Frame /\ f.plan = e.plan /\ f.at = e.at /\ f.rule = e.rule
        /\ f.pc = "resume" /\ f.device = e.device
    BY <1>1 DEF Frame, Waiting
  <2>2. InPlan(f) /\ Left(f) <= Left(e)
    BY <1>1, <1>2, <1>8, <2>1 DEF InPlan, Left, FinishScan
  <2>3. QED
    BY <1>1, <1>8, <2>1, <2>2 DEF FinishScan, Quiet
<1>9. QED
  BY <1>3, <1>4, <1>5, <1>6, <1>7, <1>8 DEF AvailableNode, SkipConflict, Resume

LEMMA QuietTyped ==
    ASSUME TypeOK, Placed, NEW x \in Execs, Quiet(x)
    PROVE  exec' \in [Execs -> {Idle} \cup Frame] /\ Placed'
<1>1. PICK f \in {Idle} \cup Frame :
          exec' = [exec EXCEPT ![x] = f] /\ (f # Idle => InPlan(f))
  BY DEF Quiet
<1>2. exec' \in [Execs -> {Idle} \cup Frame]
  BY <1>1 DEF TypeOK
<1>3. ASSUME NEW y \in Execs, exec'[y] # Idle PROVE InPlan(exec'[y])
  BY <1>1, <1>3 DEF TypeOK, Placed
<1>4. QED
  BY <1>2, <1>3 DEF Placed, InPlan

LEMMA QuietAccounts ==
    ASSUME TypeOK, NEW x \in Execs, Quiet(x), NEW r \in Rules, Accounted(r),
           counted'[r] = counted[r]
    PROVE  Accounted(r)'
<1>1. PICK f \in {Idle} \cup Frame :
          /\ exec' = [exec EXCEPT ![x] = f]
          /\ f # Idle => \/ Left(f) = 0
                         \/ /\ exec[x] # Idle
                            /\ f.rule = exec[x].rule
                            /\ Left(f) <= Left(exec[x])
  BY DEF Quiet
<1>2. /\ \A y \in Execs : y # x => exec'[y] = exec[y]
      /\ exec'[x] = f
  BY <1>1 DEF TypeOK
<1>3. \A y \in Execs : exec[y] # Idle => Left(exec[y]) \in Nat
  BY LeftType DEF TypeOK
<1>4. /\ counted[r] \in Nat
      /\ Limit \in Nat
      /\ f # Idle => Left(f) \in Nat
  BY LeftType, NaturalsAssumption DEF TypeOK
<1>5. \A y \in Execs : (exec'[y] # Idle /\ exec'[y].rule = r)
                            => counted[r] + Left(exec'[y]) <= Limit
  BY <1>1, <1>2, <1>3, <1>4 DEF Accounted
<1>6. \A y, z \in Execs :
          (/\ y # z /\ exec'[y] # Idle /\ exec'[z] # Idle
           /\ exec'[y].rule = r /\ exec'[z].rule = r)
              => Left(exec'[y]) = 0 \/ Left(exec'[z]) = 0
  BY <1>1, <1>2, <1>3, <1>4 DEF Accounted
<1>7. QED
  BY <1>5, <1>6 DEF Accounted, Left, DraftsFrom

\* A plan is admitted to a rule none of whose executions has drafts left, or the
\* rule counts as overlapped from now on.
LEMMA SimulateKeeps ==
    ASSUME IInv, NEW x \in Execs, SimulateForDevice(x)
    PROVE  /\ exec' \in [Execs -> {Idle} \cup Frame]
           /\ Placed'
           /\ overlapped' \subseteq Rules
           /\ \A r \in Rules \ overlapped' : Accounted(r)'
<1> DEFINE e == exec[x]
<1>1. exec[x] \in Frame /\ exec[x] # Idle /\ InPlan(exec[x])
  BY DEF IInv, TypeOK, Placed, SimulateForDevice, Idle
<1>2. /\ Head(e.devices) \in Devices
      /\ Tail(e.devices) \in Seq(Devices)
      /\ e.plan \in Seq(Keys \cup {Lookup})
      /\ e.at \in Nat \ {0}
      /\ e.rule \in Rules
      /\ e.pc = "device"
  BY <1>1 DEF SimulateForDevice, Frame
<1>3. UNCHANGED counted
  BY DEF SimulateForDevice
<1>4. CASE exec' = [exec EXCEPT ![x].devices = Tail(e.devices)] /\ UNCHANGED overlapped
  <2> DEFINE f == [e EXCEPT !.devices = Tail(e.devices)]
  <2>1. /\ f \in Frame /\ f.plan = e.plan /\ f.at = e.at /\ f.rule = e.rule
        /\ f.pc = "device"
    BY <1>1, <1>2 DEF Frame
  <2>2. InPlan(f) /\ Left(f) <= Left(e)
    BY <1>1, <2>1, LeftType DEF InPlan, Left
  <2>3. Quiet(x)
    BY <1>1, <1>4, <2>1, <2>2 DEF Quiet
  <2>4. QED
    BY <1>3, <1>4, <2>3, QuietTyped, QuietAccounts DEF IInv, TypeOK
<1>5. CASE \E plan \in Plans :
          /\ WithinRateLimit(e.rule, plan)
          /\ plan # <<>>
          /\ exec' = [exec EXCEPT ![x] = Admit(x, plan)]
          /\ overlapped' =
                IF \E y \in Execs \ {x} : /\ exec[y] # Idle
                                          /\ exec[y].rule = e.rule
                                          /\ Outstanding(y) # {}
                THEN overlapped \cup {e.rule} ELSE overlapped
  <2>1. PICK plan \in Plans :
          /\ WithinRateLimit(e.rule, plan)
          /\ plan # <<>>
          /\ exec' = [exec EXCEPT ![x] = Admit(x, plan)]
          /\ overlapped' =
                IF \E y \in Execs \ {x} : /\ exec[y] # Idle
                                          /\ exec[y].rule = e.rule
                                          /\ Outstanding(y) # {}
                THEN overlapped \cup {e.rule} ELSE overlapped
    BY <1>5
  <2>2. plan \in Seq(Keys \cup {Lookup}) /\ 1 <= Len(plan)
    BY <2>1, PlansAssumption
  <2> DEFINE f == Admit(x, plan)
  <2>3. f = [pc |-> "run", rest |-> e.rest, rule |-> e.rule,
             devices |-> Tail(e.devices), device |-> Head(e.devices),
             plan |-> plan, at |-> 1, task |-> e.task]
    <3>1. ASSUME NEW hd, NEW tl, NEW g,
                 g = [e EXCEPT !.pc = "run", !.plan = plan, !.at = 1,
                               !.device = hd, !.devices = tl]
          PROVE  g = [pc |-> "run", rest |-> e.rest, rule |-> e.rule, devices |-> tl,
                      device |-> hd, plan |-> plan, at |-> 1, task |-> e.task]
      BY <1>1, <3>1 DEF Frame
    <3>2. QED
      BY <3>1, Zenon DEF Admit
  <2>4. f \in Frame
    BY <1>1, <1>2, <2>2, <2>3 DEF Frame, OnLoop
  <2>5. /\ f.rule = e.rule
        /\ Left(f) = Cardinality(DraftsFrom(plan, 1))
        /\ InPlan(f)
    BY <1>2, <2>2, <2>3 DEF InPlan, Left
  <2> HIDE DEF f
  <2>6. /\ exec' \in [Execs -> {Idle} \cup Frame]
        /\ exec'[x] = f
        /\ \A y \in Execs : y # x => exec'[y] = exec[y]
    BY <2>1, <2>4 DEF f, IInv, TypeOK
  <2>7. Placed'
    <3>1. ASSUME NEW y \in Execs, exec'[y] # Idle PROVE InPlan(exec'[y])
      BY <2>5, <2>6, <3>1 DEF IInv, Placed
    <3>2. QED
      BY <3>1 DEF Placed, InPlan
  <2>8. overlapped' \subseteq Rules /\ overlapped \subseteq overlapped'
    BY <1>2, <2>1 DEF IInv, TypeOK
  <2>9. ASSUME NEW r \in Rules \ overlapped' PROVE Accounted(r)'
    <3>1. Accounted(r)
      BY <2>8 DEF IInv
    <3>2. \A y \in Execs : exec[y] # Idle => Left(exec[y]) \in Nat
      BY LeftType DEF IInv, TypeOK
    <3>3. /\ counted[r] \in Nat
          /\ Limit \in Nat
          /\ Left(f) \in Nat
      BY <2>4, LeftType, NaturalsAssumption DEF IInv, TypeOK
    <3>4. f.rule = r => /\ counted[r] + Left(f) <= Limit
                        /\ \A y \in Execs \ {x} :
                              (exec[y] # Idle /\ exec[y].rule = r) => Left(exec[y]) = 0
      <4>1. SUFFICES ASSUME f.rule = r
                     PROVE  /\ counted[r] + Left(f) <= Limit
                            /\ \A y \in Execs \ {x} :
                                 (exec[y] # Idle /\ exec[y].rule = r) => Left(exec[y]) = 0
        OBVIOUS
      <4>2. counted[r] + Left(f) <= Limit
        BY <2>1, <2>5, <4>1 DEF WithinRateLimit
      <4>3. \A y \in Execs \ {x} : (exec[y] # Idle /\ exec[y].rule = r) => Outstanding(y) = {}
        BY <2>1, <2>5, <4>1
      <4>4. \A y \in Execs : exec[y] # Idle => Outstanding(y) = DraftsFrom(exec[y].plan, exec[y].at)
        BY IdleIsNoFrame DEF Outstanding, IInv, TypeOK
      <4>5. QED
        BY <4>2, <4>3, <4>4, FS_EmptySet DEF Left
    <3>5. \A y \in Execs : (exec'[y] # Idle /\ exec'[y].rule = r)
                                => counted[r] + Left(exec'[y]) <= Limit
      BY <2>6, <3>1, <3>4 DEF Accounted
    <3>6. \A y, z \in Execs :
              (/\ y # z /\ exec'[y] # Idle /\ exec'[z] # Idle
               /\ exec'[y].rule = r /\ exec'[z].rule = r)
                  => Left(exec'[y]) = 0 \/ Left(exec'[z]) = 0
      BY <2>6, <3>1, <3>4 DEF Accounted
    <3>7. counted'[r] <= Limit /\ counted'[r] = counted[r]
      BY <1>3, <3>1 DEF Accounted
    <3>8. QED
      BY <3>5, <3>6, <3>7 DEF Accounted, Left, DraftsFrom
  <2>10. QED
    BY <2>6, <2>7, <2>8, <2>9
<1>6. QED
  BY <1>4, <1>5 DEF SimulateForDevice

\* A resumed execution turns a draft it was admitted with into a counted task.
LEMMA ResumeKeeps ==
    ASSUME IInv, NEW x \in Execs, Resume(x), NEW r \in Rules \ overlapped
    PROVE  Accounted(r)'
<1>1. exec[x] \in Frame /\ exec[x] # Idle /\ InPlan(exec[x]) /\ exec[x].pc = "resume"
  BY DEF IInv, TypeOK, Placed, Resume, Idle
<1>2. /\ Past(x) \in Frame
      /\ Past(x) # Idle
      /\ Past(x).rule = exec[x].rule
      /\ Left(exec[x]) = Left(Past(x)) + 1
  BY <1>1, PastFrame, IdleIsNoFrame DEF InPlan, Current
<1>3. /\ exec'[x] = Past(x)
      /\ \A y \in Execs : y # x => exec'[y] = exec[y]
  BY DEF Resume, IInv, TypeOK
<1>4. counted'[r] = IF r = exec[x].rule THEN counted[r] + 1 ELSE counted[r]
  BY DEF Resume, IInv, TypeOK
<1>5. \A y \in Execs : exec[y] # Idle => Left(exec[y]) \in Nat
  BY LeftType DEF IInv, TypeOK
<1>6. /\ counted[r] \in Nat
      /\ Limit \in Nat
      /\ Left(Past(x)) \in Nat
  BY <1>2, LeftType, NaturalsAssumption DEF IInv, TypeOK
<1>7. Accounted(r)
  BY DEF IInv
<1>8. counted'[r] <= Limit
  BY <1>1, <1>2, <1>4, <1>6, <1>7 DEF Accounted
<1>9. \A y \in Execs : (exec'[y] # Idle /\ exec'[y].rule = r)
                            => counted'[r] + Left(exec'[y]) <= Limit
  <2>1. SUFFICES ASSUME NEW y \in Execs, exec'[y] # Idle, exec'[y].rule = r
                 PROVE  counted'[r] + Left(exec'[y]) <= Limit
    OBVIOUS
  <2>2. CASE y = x
    BY <1>1, <1>2, <1>3, <1>4, <1>6, <1>7, <2>1, <2>2 DEF Accounted
  <2>3. CASE y # x /\ exec[x].rule = r
    <3>1. Left(exec[y]) = 0
      BY <1>1, <1>2, <1>3, <1>5, <1>6, <1>7, <2>1, <2>3 DEF Accounted
    <3>2. QED
      BY <1>3, <1>8, <2>3, <3>1, <1>4, <1>6
  <2>4. CASE y # x /\ exec[x].rule # r
    BY <1>3, <1>4, <1>7, <2>1, <2>4 DEF Accounted
  <2>5. QED
    BY <2>2, <2>3, <2>4
<1>10. \A y, z \in Execs :
          (/\ y # z /\ exec'[y] # Idle /\ exec'[z] # Idle
           /\ exec'[y].rule = r /\ exec'[z].rule = r)
              => Left(exec'[y]) = 0 \/ Left(exec'[z]) = 0
  BY <1>1, <1>2, <1>3, <1>5, <1>6, <1>7 DEF Accounted
<1>11. QED
  BY <1>8, <1>9, <1>10 DEF Accounted, Left, DraftsFrom

-----------------------------------------------------------------------------
(* The tasks array *)

\* u may take the place of t: the same work, active only as before or revived.
Kept(t, u) ==
    /\ u \in Task
    /\ u.device = t.device /\ u.key = t.key /\ u.byRule = t.byRule
    /\ u.active => u.revived \/ (t.active /\ u.revived = t.revived)

LEMMA KeptTasks ==
    ASSUME TypeOK, Superseded, tasks' = [i \in 1 .. Len(tasks) |-> tasks'[i]],
           \A i \in 1 .. Len(tasks) : Kept(tasks[i], tasks'[i])
    PROVE  tasks' \in Seq(Task) /\ Superseded'
<1>1. tasks \in Seq(Task) /\ Len(tasks) \in Nat
  BY DEF TypeOK
<1>2. tasks' \in [1 .. Len(tasks) -> Task]
  BY DEF Kept
<1>3. tasks' \in Seq(Task) /\ Len(tasks') = Len(tasks)
  BY <1>1, <1>2, SeqDef
<1>4. Superseded'
  BY <1>1, <1>3 DEF Kept, Superseded
<1>5. QED
  BY <1>3, <1>4

\* One place of the array is overwritten, or none.
LEMMA ExceptKeeps ==
    ASSUME TypeOK, Superseded, NEW k \in Nat, NEW u,
           tasks' = [tasks EXCEPT ![k] = u],
           k \in 1 .. Len(tasks) => Kept(tasks[k], u)
    PROVE  tasks' \in Seq(Task) /\ Superseded'
<1>1. tasks \in [1 .. Len(tasks) -> Task] /\ Len(tasks) \in Nat
  BY DEF TypeOK
<1>2. /\ tasks' = [i \in 1 .. Len(tasks) |-> tasks'[i]]
      /\ \A i \in 1 .. Len(tasks) : tasks'[i] = IF i = k THEN u ELSE tasks[i]
  BY <1>1
<1>3. \A i \in 1 .. Len(tasks) : Kept(tasks[i], tasks[i])
  BY <1>1 DEF Kept
<1>4. \A i \in 1 .. Len(tasks) : Kept(tasks[i], tasks'[i])
  BY <1>2, <1>3
<1>5. QED
  BY <1>2, <1>4, KeptTasks

LEMMA ReviveKept ==
    ASSUME TypeOK, NEW k \in 1 .. Len(tasks)
    PROVE  /\ Kept(tasks[k], Revive(k))
           /\ \A b \in BOOLEAN : Kept(tasks[k], [Revive(k) EXCEPT !.late = b])
<1>1. tasks[k] \in Task
  BY DEF TypeOK
<1>2. QED
  BY <1>1 DEF Kept, Revive, Task

\* A new task, made when no task for the same work is active or not by a rule.
LEMMA AppendKeeps ==
    ASSUME TypeOK, Superseded, NEW t \in Task, tasks' = Append(tasks, t),
           t.byRule => ~HasActiveConflict(t.device, t.key)
    PROVE  tasks' \in Seq(Task) /\ Superseded'
<1>1. /\ tasks' \in Seq(Task)
      /\ Len(tasks') = Len(tasks) + 1
      /\ \A i \in 1 .. Len(tasks) : tasks'[i] = tasks[i]
      /\ tasks'[Len(tasks) + 1] = t
      /\ Len(tasks) \in Nat
  BY AppendProperties DEF TypeOK
<1>2. SUFFICES ASSUME NEW i \in 1 .. Len(tasks'), NEW j \in 1 .. Len(tasks'), i < j,
                      tasks'[j].byRule, tasks'[i].active,
                      tasks'[i].device = tasks'[j].device, tasks'[i].key = tasks'[j].key
               PROVE  tasks'[i].revived
  BY <1>1 DEF Superseded
<1>3. i \in 1 .. Len(tasks) /\ tasks'[i] = tasks[i]
  BY <1>1, <1>2
<1>4. CASE j \in 1 .. Len(tasks)
  BY <1>1, <1>2, <1>3, <1>4 DEF Superseded
<1>5. CASE j = Len(tasks) + 1
  BY <1>1, <1>2, <1>3, <1>5 DEF HasActiveConflict
<1>6. QED
  BY <1>1, <1>4, <1>5

LEMMA TasksKeep ==
    ASSUME IInv, [Next]_vars
    PROVE  tasks' \in Seq(Task) /\ Superseded'
<1> USE DEF IInv
<1>1. CASE UNCHANGED tasks
  BY <1>1 DEF TypeOK, Superseded
<1>2. ASSUME NEW x \in Execs, CreateTask(x) PROVE tasks' \in Seq(Task) /\ Superseded'
  <2>1. exec[x] \in Frame /\ exec[x].at <= Len(exec[x].plan) /\ exec[x].device \in Devices
    BY <1>2 DEF TypeOK, Placed, InPlan, CreateTask, Idle
  <2>2. Current(x) \in Keys
    BY <1>2, <2>1 DEF Frame, CreateTask, Current
  <2> DEFINE t == [device |-> exec[x].device, key |-> Current(x), byRule |-> TRUE,
                   active |-> TRUE, late |-> FALSE, revived |-> FALSE]
  <2>3. t \in Task /\ t.device = exec[x].device /\ t.key = Current(x)
    BY <2>1, <2>2 DEF Task
  <2>4. tasks' = Append(tasks, t) /\ ~HasActiveConflict(exec[x].device, Current(x))
    BY <1>2 DEF CreateTask
  <2>5. QED
    BY <2>3, <2>4, AppendKeeps
<1>3. ASSUME NEW x \in Execs, FinishScan(x) PROVE tasks' \in Seq(Task) /\ Superseded'
  <2>1. exec[x].task \in Nat
    BY <1>3 DEF TypeOK, FinishScan, Idle, Frame
  <2>2. QED
    BY <1>3, <2>1, ReviveKept, ExceptKeeps DEF FinishScan
<1>4. ASSUME NEW i \in 1 .. Len(tasks), TaskStep(i)
      PROVE  tasks' \in Seq(Task) /\ Superseded'
  <2>0. tasks[i] \in Task /\ i \in Nat
    BY DEF TypeOK
  <2>1. CASE Suspend(i)
    <3>1. Kept(tasks[i], [tasks[i] EXCEPT !.late = TRUE])
      BY <2>0 DEF Kept, Task
    <3>2. tasks' = [tasks EXCEPT ![i] = [tasks[i] EXCEPT !.late = TRUE]]
      BY <2>1 DEF Suspend
    <3>3. QED
      BY <2>0, <3>1, <3>2, ExceptKeeps
  <2>2. CASE FinishLate(i)
    BY <2>0, <2>2, ReviveKept, ExceptKeeps DEF FinishLate
  <2>3. CASE Close(i)
    <3>1. Kept(tasks[i], [tasks[i] EXCEPT !.active = FALSE, !.revived = FALSE])
      BY <2>0 DEF Kept, Task
    <3>2. tasks' = [tasks EXCEPT ![i] = [tasks[i] EXCEPT !.active = FALSE, !.revived = FALSE]]
      BY <2>3 DEF Close
    <3>3. QED
      BY <2>0, <3>1, <3>2, ExceptKeeps
  <2>4. QED
    BY <1>4, <2>1, <2>2, <2>3 DEF TaskStep
<1>5. ASSUME NEW d \in Devices, NEW k \in Keys, CreateByOperator(d, k)
      PROVE  tasks' \in Seq(Task) /\ Superseded'
  <2> DEFINE t == [device |-> d, key |-> k, byRule |-> FALSE,
                   active |-> TRUE, late |-> FALSE, revived |-> FALSE]
  <2>1. t \in Task /\ ~t.byRule
    BY DEF Task
  <2>2. tasks' = Append(tasks, t)
    BY <1>5 DEF CreateByOperator
  <2>3. QED
    BY <2>1, <2>2, AppendKeeps
<1>6. CASE Restart
  <2>1. ASSUME NEW i \in 1 .. Len(tasks)
        PROVE  Kept(tasks[i], [tasks[i] EXCEPT !.late = FALSE])
    <3>1. tasks[i] \in Task
      BY DEF TypeOK
    <3>2. QED
      BY <3>1 DEF Kept, Task
  <2>2. tasks' = [i \in 1 .. Len(tasks) |-> [tasks[i] EXCEPT !.late = FALSE]]
    BY <1>6 DEF Restart
  <2>3. QED
    BY <2>1, <2>2, KeptTasks
<1>7. QED
  BY <1>1, <1>2, <1>3, <1>4, <1>5, <1>6
     DEF Next, vars, Advance, Trigger, TriggerEvent, NextRule, SimulateForDevice, EndRule,
         Continue, AvailableNode, SkipConflict, Resume, SetEnabled, HourPasses

-----------------------------------------------------------------------------
(* The invariant *)

LEMMA InitIInv == Init => IInv
<1>1. SUFFICES ASSUME Init PROVE IInv
  OBVIOUS
<1>2. TypeOK
  BY <1>1, EmptySeq DEF Init, TypeOK
<1>3. Placed /\ \A r \in Rules : Accounted(r)
  BY <1>1, NaturalsAssumption DEF Init, Placed, Accounted
<1>4. Superseded
  BY <1>1 DEF Init, Superseded
<1>5. QED
  BY <1>2, <1>3, <1>4 DEF IInv

\* The steps that change neither a count nor the record of overlaps and whose
\* executions gain no drafts.
LEMMA QuietKeeps ==
    ASSUME IInv, NEW x \in Execs, Quiet(x), UNCHANGED <<enabled, counted, overlapped>>,
           tasks' \in Seq(Task), Superseded'
    PROVE  IInv'
<1>1. TypeOK' /\ Placed'
  BY QuietTyped DEF IInv, TypeOK
<1>2. \A r \in Rules \ overlapped' : Accounted(r)'
  BY QuietAccounts DEF IInv
<1>3. QED
  BY <1>1, <1>2 DEF IInv

LEMMA NextIInv == IInv /\ [Next]_vars => IInv'
<1>1. SUFFICES ASSUME IInv, [Next]_vars PROVE IInv'
  OBVIOUS
<1>2. tasks' \in Seq(Task) /\ Superseded'
  BY <1>1, TasksKeep
<1>3. TypeOK /\ Placed
  BY <1>1 DEF IInv
<1>4. ASSUME NEW x \in Execs, TriggerEvent(x) \/ NextRule(x) \/ \E r \in Rules : Trigger(x, r)
      PROVE  IInv'
  <2>1. UNCHANGED <<enabled, counted, overlapped>>
    BY <1>4 DEF TriggerEvent, NextRule, Trigger
  <2>2. QED
    BY <1>1, <1>2, <1>3, <1>4, <2>1, StartsAreQuiet, QuietKeeps
<1>5. ASSUME NEW x \in Execs,
             \/ EndRule(x) \/ Continue(x) \/ AvailableNode(x) \/ SkipConflict(x)
             \/ CreateTask(x) \/ FinishScan(x)
      PROVE  IInv'
  <2>1. UNCHANGED <<enabled, counted, overlapped>>
    BY <1>5 DEF EndRule, Continue, AvailableNode, SkipConflict, CreateTask, FinishScan
  <2>2. QED
    BY <1>1, <1>2, <1>3, <1>5, <2>1, AdvancesAreQuiet, QuietKeeps
<1>6. ASSUME NEW x \in Execs, SimulateForDevice(x) PROVE IInv'
  <2>1. UNCHANGED <<enabled, counted>>
    BY <1>6 DEF SimulateForDevice
  <2>2. QED
    BY <1>1, <1>2, <1>3, <1>6, <2>1, SimulateKeeps DEF IInv, TypeOK
<1>7. ASSUME NEW x \in Execs, Resume(x) PROVE IInv'
  <2>0. /\ UNCHANGED <<enabled, overlapped>>
        /\ counted' = [counted EXCEPT ![exec[x].rule] = @ + 1]
        /\ counted \in [Rules -> Nat]
    BY <1>3, <1>7 DEF Resume, TypeOK
  <2>a. exec[x].rule \in Rules
    BY <1>3, <1>7 DEF Resume, TypeOK, Idle, Frame
  <2>1. UNCHANGED <<enabled, overlapped>> /\ counted' \in [Rules -> Nat]
    BY <2>0, <2>a
  <2>2. exec' \in [Execs -> {Idle} \cup Frame] /\ Placed'
    BY <1>3, <1>7, AdvancesAreQuiet, QuietTyped
  <2>3. QED
    BY <1>1, <1>2, <1>3, <1>7, <2>1, <2>2, ResumeKeeps DEF IInv, TypeOK
<1>8. ASSUME UNCHANGED <<exec, overlapped>>, enabled' \in [Rules -> BOOLEAN],
             counted' \in [Rules -> Nat], \A r \in Rules : counted'[r] <= counted[r]
      PROVE  IInv'
  <2>1. TypeOK' /\ Placed'
    BY <1>2, <1>3, <1>8 DEF TypeOK, Placed, InPlan
  <2>2. ASSUME NEW r \in Rules \ overlapped' PROVE Accounted(r)'
    <3>1. Accounted(r) /\ counted'[r] <= counted[r]
      BY <1>1, <1>8 DEF IInv
    <3>2. /\ counted[r] \in Nat /\ counted'[r] \in Nat /\ Limit \in Nat
          /\ \A y \in Execs : exec[y] # Idle => Left(exec[y]) \in Nat
      BY <1>3, <1>8, LeftType, NaturalsAssumption DEF TypeOK
    <3>3. /\ counted'[r] <= Limit
          /\ \A y \in Execs : (exec[y] # Idle /\ exec[y].rule = r)
                                  => counted'[r] + Left(exec[y]) <= Limit
      BY <3>1, <3>2 DEF Accounted
    <3>4. QED
      BY <1>8, <3>1, <3>3 DEF Accounted, Left, DraftsFrom
  <2>3. QED
    BY <1>2, <2>1, <2>2 DEF IInv
<1>9. ASSUME NEW i \in 1 .. Len(tasks), TaskStep(i) PROVE IInv'
  BY <1>3, <1>8, <1>9 DEF TaskStep, Suspend, FinishLate, Close, TypeOK
<1>10. ASSUME NEW d \in Devices, NEW k \in Keys, CreateByOperator(d, k) PROVE IInv'
  BY <1>3, <1>8, <1>10 DEF CreateByOperator, TypeOK
<1>11. ASSUME NEW r \in Rules, SetEnabled(r) \/ HourPasses(r) PROVE IInv'
  <2>1. counted \in [Rules -> Nat] /\ enabled \in [Rules -> BOOLEAN]
    BY <1>3 DEF TypeOK
  <2>2. UNCHANGED <<exec, overlapped>>
    BY <1>11 DEF SetEnabled, HourPasses
  <2>3. CASE SetEnabled(r)
    <3>1. enabled' \in [Rules -> BOOLEAN] /\ counted' = counted
      BY <2>1, <2>3 DEF SetEnabled
    <3>2. QED
      BY <1>8, <2>1, <2>2, <3>1
  <2>4. CASE HourPasses(r)
    <3>1. counted[r] > 0 /\ counted' = [counted EXCEPT ![r] = @ - 1] /\ enabled' = enabled
      BY <2>4 DEF HourPasses
    <3>2. counted' \in [Rules -> Nat] /\ \A q \in Rules : counted'[q] <= counted[q]
      BY <2>1, <3>1
    <3>3. QED
      BY <1>8, <2>1, <2>2, <3>1, <3>2
  <2>5. QED
    BY <1>11, <2>3, <2>4
<1>12. CASE Restart
  <2>0. /\ counted \in [Rules -> Nat] /\ counted' \in [Rules -> Nat]
        /\ \A r \in Rules : counted'[r] = counted[r] \/ counted'[r] = 0
    BY <1>3, <1>12 DEF Restart, TypeOK
  <2>1. TypeOK' /\ \A x \in Execs : exec'[x] = Idle
    BY <1>2, <1>3, <1>12, <2>0 DEF Restart, TypeOK
  <2>2. Placed'
    BY <2>1 DEF Placed
  <2>3. \A r \in Rules \ overlapped' : Accounted(r)'
    BY <1>1, <1>12, <2>0, <2>1, NaturalsAssumption DEF Restart, IInv, Accounted
  <2>4. QED
    BY <1>2, <2>1, <2>2, <2>3 DEF IInv
<1>13. CASE UNCHANGED vars
  BY <1>3, <1>8, <1>13 DEF vars, TypeOK
<1>14. QED
  BY <1>1, <1>4, <1>5, <1>6, <1>7, <1>9, <1>10, <1>11, <1>12, <1>13 DEF Next, Advance

THEOREM Invariant == Spec => []IInv
<1>1. QED
  BY InitIInv, NextIInv, PTL DEF Spec

\* Every execution stays in one of the states the code's awaits allow, and the
\* array holds well-formed tasks.
THEOREM StatesAreSound == Spec => []TypeOK
<1>1. IInv => TypeOK
  BY DEF IInv
<1>2. QED
  BY <1>1, Invariant, PTL

\* No rule creates a task beside a live one for the same work, however its
\* executions and others' interleave at their scans.
THEOREM RulesMakeNoDuplicates == Spec => []OneLiveTask
<1>1. IInv => OneLiveTask
  BY DEF IInv, Superseded, OneLiveTask
<1>2. QED
  BY <1>1, Invariant, PTL

\* The hourly limit holds for rules whose executions do not overlap.
THEOREM LimitHolds == Spec => []RateHeldWhenAlone
<1>1. IInv => RateHeldWhenAlone
  BY DEF IInv, Accounted, RateHeldWhenAlone
<1>2. QED
  BY <1>1, Invariant, PTL
=============================================================================
