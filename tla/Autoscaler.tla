---------------------------- MODULE Autoscaler -----------------------------
(***************************************************************************)
(* The horizontal and the vertical autoscaler of the leader, the budget    *)
(* they consult, and one workload with one role that operators also write. *)
(*                                                                         *)
(* Each autoscaler is a task of its own.  It lists specs and placements,   *)
(* and works through the list later: the record may be stale by then,      *)
(* while the guard and the quota are asked of live storage.  Its commands  *)
(* are applied one by one.  The tasks end with the leadership; what they   *)
(* have in flight is lost or applied under the next leader.  Their         *)
(* stabilization markers belong to objects that outlive the leadership.    *)
(***************************************************************************)
EXTENDS ScalingMath

CONSTANTS
    Server,        \* control nodes
    Size,          \* footprints, whole units
    Load,          \* observed averages
    Hpa,           \* [target, min, max, window]
    Vpa,           \* [percent, min, max, window, recreate]
    RoleBudget,    \* the role's budget
    MaxUnits,      \* quota of the tenant
    MaxTick,       \* bound on time
    MaxWrites,     \* bound on the operator's writes
    MaxTerms       \* bound on changes of leader

\* Sizes and averages are numbers, some size is the largest, and the policies
\* and the budget have the fields of their messages.  A zero percentage would
\* leave the VPA without a dimension to act on.
ASSUME PolicyAssumption ==
    /\ Server # {}
    /\ Load \subseteq Nat /\ Size \subseteq Nat /\ \E s \in Size : \A z \in Size : z <= s
    /\ Hpa.target \in Nat /\ Hpa.min \in Nat /\ Hpa.max \in Nat /\ Hpa.window \in Nat
    /\ Vpa.percent \in Nat \ {0} /\ Vpa.min \in Nat /\ Vpa.max \in Nat /\ Vpa.min <= AtLeastOne(Vpa.max)
    /\ RoleBudget \in Budget /\ MaxUnits \in Nat

VARIABLES
    spec,      \* stored spec: replicas, size and the operator's revision
    ordinal,   \* slot records: "none", "assigned" or "freed"
    placed,    \* footprint of the pod at each ordinal, or Nothing
    load,      \* average load of the qualifying pods, for the HPA; Nothing without
    usage,     \* average use of the qualifying pods, for the VPA
    tick,      \* wall-clock
    head,      \* the leader
    scale_down_since,  \* the HPA's markers, by node
    shrink_since,      \* the VPA's markers, by node
    recommended,       \* stored recommendation
    hpa,       \* where the HPA's task is
    vpa,       \* where the VPA's task is
    inherited, \* commands of an earlier leader still to be applied
    writes,    \* operator writes so far
    terms,     \* changes of leader so far
    last_busy  \* observation: each node's last evaluation that was not low

scaleVars == <<spec, ordinal, placed, load, usage, tick, head, scale_down_since, shrink_since,
               recommended, hpa, vpa, inherited, writes, terms, last_busy>>

Ordinal == 0 .. MaxReplicas - 1
Spec1 == [replicas : 0 .. MaxReplicas, size : Size, rev : 0 .. MaxWrites]
Idle1 == [at |-> "idle"]

Healthy == Cardinality({o \in Ordinal : placed[o] # Nothing})
MinAvailable == resolve_min_available(RoleBudget, spec.replicas)

AutoscalerInit ==
    /\ spec = [replicas |-> Hpa.max, size |-> CHOOSE s \in Size : \A z \in Size : z <= s, rev |-> 0]
    /\ ordinal = [o \in Ordinal |-> IF o < spec.replicas THEN "assigned" ELSE "none"]
    /\ placed = [o \in Ordinal |-> IF o < spec.replicas THEN spec.size ELSE Nothing]
    /\ load = Nothing /\ usage = Nothing
    /\ tick = 0
    /\ head = CHOOSE n \in Server : TRUE
    /\ scale_down_since = [n \in Server |-> Nothing]
    /\ shrink_since = [n \in Server |-> Nothing]
    /\ recommended = Nothing
    /\ hpa = Idle1 /\ vpa = Idle1
    /\ inherited = {}
    /\ writes = 0 /\ terms = 0
    /\ last_busy = [n \in Server |-> 0]

-----------------------------------------------------------------------------
\* Commands, as the state machine applies them.

ScaleWorkload1(new) ==
    LET gone == {o \in Ordinal : placed[o] # Nothing /\ o >= new.replicas}
    IN  /\ spec' = new
        /\ placed' = [o \in Ordinal |-> IF o \in gone THEN Nothing ELSE placed[o]]
        /\ ordinal' = [o \in Ordinal |-> IF o \in gone THEN "freed" ELSE ordinal[o]]

ResizeWorkload1(new) ==
    /\ spec' = new
    /\ UNCHANGED <<ordinal, placed>>

FreeSlot(o) ==
    /\ ordinal' = [ordinal EXCEPT ![o] = "freed"]
    /\ UNCHANGED <<spec, placed>>

RemovePod(o) ==
    /\ placed' = [placed EXCEPT ![o] = Nothing]
    /\ UNCHANGED <<spec, ordinal>>

Apply1(c) ==
    \/ c.cmd = "scale"  /\ ScaleWorkload1(c.new) /\ UNCHANGED recommended
    \/ c.cmd = "resize" /\ ResizeWorkload1(c.new) /\ UNCHANGED recommended
    \/ c.cmd = "free"   /\ FreeSlot(c.ord) /\ UNCHANGED recommended
    \/ c.cmd = "remove" /\ RemovePod(c.ord) /\ UNCHANGED recommended
    \/ c.cmd = "recommend" /\ recommended' = c.size /\ UNCHANGED <<spec, ordinal, placed>>

\* The command a task waits for.
WaitsFor(t) == IF t.at = "proposed" THEN {t.command} ELSE {}

\* A task under way has seen another's write: an observation, no state of the code.
Overtaken(t) == IF t.at = "idle" THEN t ELSE [t EXCEPT !.clean = FALSE]

-----------------------------------------------------------------------------
\* The horizontal autoscaler: one pass over the workload.

hpa_evaluate ==
    /\ hpa = Idle1
    /\ hpa' = [at |-> "listed", clean |-> TRUE, spec |-> spec, pods |-> Healthy, now |-> tick]
    /\ UNCHANGED <<spec, ordinal, placed, load, usage, tick, head, scale_down_since, shrink_since,
                   recommended, vpa, inherited, writes, terms, last_busy>>

\* Mutation: the policy's maximum is capped by the current total.
DesiredCapped(s) == compute_desired_total(s.replicas, {[avg |-> load, target |-> Hpa.target]},
                                          AtLeastOne(Hpa.min), s.replicas)

Desired(s) == compute_desired_total(s.replicas, {[avg |-> load, target |-> Hpa.target]},
                                    AtLeastOne(Hpa.min), Hpa.max)

\* No pods, no qualifying pods, no replicas or an invalid policy: no reaction,
\* and the marker stays.
NoSignal(t) ==
    \/ t.pods = 0 \/ load = Nothing \/ t.spec.replicas = 0
    \/ Hpa.target = 0 \/ Hpa.max = 0 \/ AtLeastOne(Hpa.min) > Hpa.max

\* Mutation: the spec is written as it was first submitted.
ScaledAnew(s, total) == [s EXCEPT !.replicas = total, !.rev = 0]

Scaled(s, total) == [s EXCEPT !.replicas = distribute_replicas(<<s.replicas>>, total)[1]]

\* Mutation: only a scale-down clears the marker.
KeepMarkerAtRest(n, t) ==
    LET desired == Desired(t.spec)
        since == IF scale_down_since[n] = Nothing THEN t.now ELSE scale_down_since[n]
    IN  IF desired < t.spec.replicas /\ ~within_deadband(t.spec.replicas, desired, DEADBAND_PERCENT)
        THEN since ELSE scale_down_since[n]

\* The marker after an evaluation with a signal.
HpaMarker(n, t) ==
    LET desired == Desired(t.spec)
        since == IF scale_down_since[n] = Nothing THEN t.now ELSE scale_down_since[n]
    IN  IF desired < t.spec.replicas /\ ~within_deadband(t.spec.replicas, desired, DEADBAND_PERCENT)
        THEN since ELSE Nothing

\* Mutation: the guard is not asked.
AllowedAlways(from, to) == TRUE

ScaleDownAllowed(from, to) == allow_disruption(RoleBudget, spec.replicas, Healthy, from - to)

\* evaluate_workload, up to the proposal.
hpa_evaluate_workload ==
    /\ hpa.at = "listed"
    /\ LET desired == Desired(hpa.spec)
           new == Scaled(hpa.spec, desired)
           since == HpaMarker(head, hpa)
           propose == [at |-> "proposed", clean |-> hpa.clean, now |-> hpa.now,
                       command |-> [cmd |-> "scale", new |-> new]]
       IN  \/ /\ NoSignal(hpa)
              /\ hpa' = Idle1 /\ UNCHANGED <<scale_down_since, last_busy>>
           \/ /\ ~NoSignal(hpa)
              /\ scale_down_since' = [scale_down_since EXCEPT ![head] = since]
              /\ last_busy' = [last_busy EXCEPT ![head] = IF since = Nothing THEN hpa.now ELSE @]
              /\ hpa' = IF \/ within_deadband(hpa.spec.replicas, desired, DEADBAND_PERCENT)
                           \/ /\ desired < hpa.spec.replicas
                              /\ \/ hpa.now - since < Hpa.window
                                 \/ ~ScaleDownAllowed(hpa.spec.replicas, new.replicas)
                        THEN Idle1 ELSE propose
    /\ UNCHANGED <<spec, ordinal, placed, load, usage, tick, head, shrink_since, recommended, vpa,
                   inherited, writes, terms>>

\* The scaled spec is applied; the marker goes after a scale-down.
hpa_propose_scale ==
    /\ hpa.at = "proposed" /\ inherited = {}
    /\ Apply1(hpa.command)
    /\ scale_down_since' = [scale_down_since EXCEPT ![head] = Nothing]
    /\ hpa' = Idle1
    /\ vpa' = Overtaken(vpa)
    /\ UNCHANGED <<load, usage, tick, head, shrink_since, inherited, writes, terms, last_busy>>

-----------------------------------------------------------------------------
\* The vertical autoscaler.

vpa_evaluate ==
    /\ vpa = Idle1
    /\ vpa' = [at |-> "listed", clean |-> TRUE, spec |-> spec, pods |-> placed, now |-> tick]
    /\ UNCHANGED <<spec, ordinal, placed, load, usage, tick, head, scale_down_since, shrink_since,
                   recommended, hpa, inherited, writes, terms, last_busy>>

\* The footprint to go for: the current one while within the deadband of it.
NewSize(s) ==
    LET clamped == recommended_footprint(usage, Vpa.percent, Vpa.min, Vpa.max)
    IN  IF within_deadband(s.size, clamped, DEADBAND_PERCENT) THEN s.size ELSE clamped

Unwritten(t) == UNCHANGED <<spec, ordinal, placed, recommended, load, usage, tick, head, scale_down_since,
                            hpa, inherited, writes, terms, last_busy>>

\* No pods or no qualifying ones; or steady, which clears the marker; or a new
\* recommendation, proposed when it differs from the stored one.
vpa_evaluate_workload ==
    /\ vpa.at = "listed"
    /\ Unwritten(vpa)
    /\ IF usage = Nothing \/ \A o \in Ordinal : vpa.pods[o] = Nothing
       THEN vpa' = Idle1 /\ UNCHANGED shrink_since
       ELSE IF NewSize(vpa.spec) = vpa.spec.size
       THEN vpa' = Idle1 /\ shrink_since' = [shrink_since EXCEPT ![head] = Nothing]
       ELSE /\ vpa' = [at |-> IF recommended = NewSize(vpa.spec) THEN "decide" ELSE "proposed",
                       clean |-> vpa.clean, spec |-> vpa.spec, pods |-> vpa.pods, now |-> vpa.now,
                       size |-> NewSize(vpa.spec),
                       command |-> [cmd |-> "recommend", size |-> NewSize(vpa.spec)]]
            /\ UNCHANGED shrink_since

\* The first pod of the list that differs from the new template.
StalePods(t) == {o \in Ordinal : t.pods[o] # Nothing /\ t.pods[o] # t.size}
FirstStale(t) == CHOOSE o \in StalePods(t) : \A q \in StalePods(t) : o <= q

\* check_quota_for_grow, from the usage of the moment.
GrowFits(t) ==
    spec.size * spec.replicas - t.spec.size * t.spec.replicas + t.size * t.spec.replicas <= MaxUnits

\* check_guard_for_pod.
ReplacementAllowed == allow_disruption(RoleBudget, spec.replicas, Healthy, 1)

VpaMarker(n, t) ==
    IF t.size >= t.spec.size THEN Nothing
    ELSE IF shrink_since[n] = Nothing THEN t.now ELSE shrink_since[n]

\* OFF mode ends here.  Shrinks wait for their window, growth needs quota, and
\* the guard is asked for the one pod that will be replaced.
vpa_decide ==
    /\ vpa.at = "decide"
    /\ Unwritten(vpa)
    /\ IF ~Vpa.recreate
       THEN vpa' = Idle1 /\ UNCHANGED shrink_since
       ELSE LET since == VpaMarker(head, vpa)
                ready == /\ vpa.size < vpa.spec.size => vpa.now - since >= Vpa.window
                         /\ vpa.size > vpa.spec.size => GrowFits(vpa)
                         /\ StalePods(vpa) # {}
                         /\ ReplacementAllowed
            IN  /\ shrink_since' = [shrink_since EXCEPT ![head] = since]
                /\ vpa' = IF ~ready THEN Idle1
                          ELSE [vpa EXCEPT !.at = "proposed",
                                           !.command = [cmd |-> "resize", new |-> [vpa.spec EXCEPT !.size = vpa.size]]]

\* The recommendation is applied and the decision follows, or the resize, and
\* the removal of the stale pod follows.
vpa_write ==
    /\ vpa.at = "proposed" /\ vpa.command.cmd \in {"recommend", "resize"} /\ inherited = {}
    /\ Apply1(vpa.command)
    /\ vpa' = IF vpa.command.cmd = "recommend" THEN [vpa EXCEPT !.at = "decide"]
              ELSE [vpa EXCEPT !.command = [cmd |-> "free", ord |-> FirstStale(vpa)]]
    /\ hpa' = Overtaken(hpa)
    /\ UNCHANGED <<load, usage, tick, head, scale_down_since, shrink_since, inherited, writes, terms, last_busy>>

\* remove_stale_pod: first the slot is freed, then the placement removed.
vpa_remove_stale_pod ==
    /\ vpa.at = "proposed" /\ vpa.command.cmd \in {"free", "remove"} /\ inherited = {}
    /\ Apply1(vpa.command)
    /\ vpa' = IF vpa.command.cmd = "free" THEN [vpa EXCEPT !.command = [cmd |-> "remove", ord |-> vpa.command.ord]]
              ELSE Idle1
    /\ hpa' = Overtaken(hpa)
    /\ UNCHANGED <<load, usage, tick, head, scale_down_since, shrink_since, inherited, writes, terms, last_busy>>

-----------------------------------------------------------------------------
\* Around them: the workload controller, the operator, time and failover.

\* The workload controller fills ordinals that never had a record.
PlacePod(o) ==
    /\ o < spec.replicas /\ ordinal[o] = "none"
    /\ ordinal' = [ordinal EXCEPT ![o] = "assigned"]
    /\ placed' = [placed EXCEPT ![o] = spec.size]
    /\ UNCHANGED <<spec, load, usage, tick, head, scale_down_since, shrink_since, recommended, hpa, vpa,
                   inherited, writes, terms, last_busy>>

\* submit_workload_spec or scale_workload by an operator, on the spec of the moment.
OperatorWrites(r, prune) ==
    /\ writes < MaxWrites
    /\ writes' = writes + 1
    /\ LET new == [spec EXCEPT !.replicas = r, !.rev = writes + 1]
       IN  IF prune THEN ScaleWorkload1(new) ELSE spec' = new /\ UNCHANGED <<ordinal, placed>>
    /\ hpa' = Overtaken(hpa) /\ vpa' = Overtaken(vpa)
    /\ UNCHANGED <<load, usage, tick, head, scale_down_since, shrink_since, recommended, inherited, terms, last_busy>>

Observe(l, u) ==
    /\ load' = l /\ usage' = u
    /\ <<l, u>> # <<load, usage>>
    /\ UNCHANGED <<spec, ordinal, placed, tick, head, scale_down_since, shrink_since, recommended, hpa, vpa,
                   inherited, writes, terms, last_busy>>

Elapse ==
    /\ tick < MaxTick
    /\ tick' = tick + 1
    /\ UNCHANGED <<spec, ordinal, placed, load, usage, head, scale_down_since, shrink_since, recommended, hpa,
                   vpa, inherited, writes, terms, last_busy>>

\* The tasks are aborted; of their commands in flight any may be in the new
\* leader's log.
ChangeLeader(n, kept) ==
    /\ terms < MaxTerms /\ n # head
    /\ terms' = terms + 1
    /\ head' = n
    /\ hpa' = Idle1 /\ vpa' = Idle1
    /\ inherited' = inherited \cup kept
    /\ UNCHANGED <<spec, ordinal, placed, load, usage, tick, scale_down_since, shrink_since, recommended, writes, last_busy>>

ApplyInherited(c) ==
    /\ Apply1(c)
    /\ inherited' = inherited \ {c}
    /\ hpa' = Overtaken(hpa) /\ vpa' = Overtaken(vpa)
    /\ UNCHANGED <<load, usage, tick, head, scale_down_since, shrink_since, writes, terms, last_busy>>

ApplyCommitted == \E c \in inherited : ApplyInherited(c)

HpaTask == hpa_evaluate \/ hpa_evaluate_workload \/ hpa_propose_scale
VpaTask == vpa_evaluate \/ vpa_evaluate_workload \/ vpa_decide \/ vpa_write \/ vpa_remove_stale_pod

Metrics(L, U) == (\E l \in L : Observe(l, usage)) \/ (\E u \in U : Observe(load, u))

PlacesAndTime == (\E o \in Ordinal : PlacePod(o)) \/ Elapse

Interference ==
    \/ \E r \in 0 .. MaxReplicas, prune \in BOOLEAN : OperatorWrites(r, prune)
    \/ \E n \in Server : \E kept \in SUBSET (WaitsFor(hpa) \cup WaitsFor(vpa)) : ChangeLeader(n, kept)
    \/ ApplyCommitted

AutoscalerNext == HpaTask \/ VpaTask \/ Metrics(Load \cup {Nothing}, Load \cup {Nothing}) \/ PlacesAndTime \/ Interference

\* The tasks run on timers for as long as their node leads; the state machine
\* applies what is committed.
AutoscalerFairness ==
    WF_scaleVars(HpaTask) /\ WF_scaleVars(VpaTask) /\ WF_scaleVars(ApplyCommitted)

AutoscalerSpec == AutoscalerInit /\ [][AutoscalerNext]_scaleVars /\ AutoscalerFairness

-----------------------------------------------------------------------------
ScaleTask(t) ==
    /\ t.at \in {"idle", "listed", "decide", "proposed"}
    /\ t.at # "idle" => t.clean \in BOOLEAN /\ t.now \in 0 .. MaxTick

AutoscalerTypeOK ==
    /\ spec \in Spec1
    /\ ordinal \in [Ordinal -> {"none", "assigned", "freed"}]
    /\ placed \in [Ordinal -> Size \cup {Nothing}]
    /\ {load, usage} \subseteq Load \cup {Nothing}
    /\ tick \in 0 .. MaxTick
    /\ head \in Server
    /\ scale_down_since \in [Server -> 0 .. MaxTick \cup {Nothing}]
    /\ shrink_since \in [Server -> 0 .. MaxTick \cup {Nothing}]
    /\ recommended \in Size \cup {Nothing}
    /\ ScaleTask(hpa) /\ ScaleTask(vpa)
    /\ \A c \in inherited : c.cmd \in {"scale", "resize", "free", "remove", "recommend"}
    /\ writes \in 0 .. MaxWrites /\ terms \in 0 .. MaxTerms
    /\ last_busy \in [Server -> 0 .. MaxTick]

\* The autoscaler's own command is applied in this step.
Scales == hpa.at = "proposed" /\ hpa' = Idle1 /\ spec' = hpa.command.new
Resizes == vpa.at = "proposed" /\ vpa.command.cmd = "resize" /\ vpa'.at = "proposed" /\ vpa'.command.cmd = "free"
Replaces == vpa.at = "proposed" /\ vpa.command.cmd = "remove" /\ vpa' = Idle1

\* Every placed pod is one the spec asks for.
NoSurplus == \A o \in Ordinal : placed[o] # Nothing => o < spec.replicas

\* The pods that stay satisfy the budget of the spec the guard looked at.
LeavesBudget == Healthy' < Healthy => Healthy' >= MinAvailable

\* A scale-down, or the replacement of a stale pod, that the guard allowed keeps
\* the budget when nothing was written between the autoscaler's read and its
\* command and no pod is left over from a larger spec: the guard would count it
\* as healthy (allow_disruption as used by both autoscalers).
UndisturbedKeepsBudget ==
    [][NoSurplus /\ ((Scales /\ hpa.clean) \/ (Replaces /\ vpa.clean)) => LeavesBudget]_scaleVars

\* Whatever the guard allowed keeps the budget when it is applied: the checks
\* need no lock (the disruption guard's module documentation).
BudgetHolds == [][NoSurplus /\ (Scales \/ Replaces) => LeavesBudget]_scaleVars

\* This step changes at most one field of the stored spec.
ChangesOnly(field) ==
    /\ DOMAIN spec' = DOMAIN spec
    /\ \A f \in DOMAIN spec \ {field} : spec'[f] = spec[f]

\* An autoscaler whose read was not overtaken changes nothing but its own
\* part: the HPA replicas, within the policy's bounds, the VPA the footprint,
\* within the quota when it grows.  What an operator wrote otherwise survives.
UndisturbedWriteIsExact ==
    [][/\ Scales /\ hpa.clean =>
             /\ ChangesOnly("replicas")
             /\ spec'.replicas \in AtLeastOne(Hpa.min) .. Hpa.max
       /\ Resizes /\ vpa.clean =>
             /\ ChangesOnly("size")
             /\ spec'.size > spec.size => spec'.size * spec'.replicas <= MaxUnits]_scaleVars

\* A marker says since when every evaluation of its node that had metrics
\* found the load low; so on a node that led all the while, a scale-down comes
\* after a full window of low load (scale_down_since).
MarkerMeansSustained ==
    /\ \A n \in Server : scale_down_since[n] # Nothing => last_busy[n] <= scale_down_since[n]
    /\ hpa.at = "proposed" /\ scale_down_since[head] # Nothing
          => last_busy[head] <= hpa.now - Hpa.window

\* Load that stays above the target takes the workload to its maximum, unless
\* it is stopped, although failovers abort evaluations and the vertical
\* autoscaler writes back older replica counts (evaluate_workload).
LoadScalesUp ==
    <>[](load # Nothing /\ load > Hpa.target /\ Healthy > 0 /\ spec.replicas \in 1 .. Hpa.max)
        => <>[](spec.replicas = Hpa.max)

=============================================================================
