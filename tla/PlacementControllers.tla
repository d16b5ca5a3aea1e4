------------------------- MODULE PlacementControllers -------------------------
(***************************************************************************)
(* The proposers of placement commands: the leader-gated controllers       *)
(* (workload, cron, pod, node, horizontal and vertical autoscaler) and the *)
(* admin operations that move pods, over the state machine of FleetState.  *)
(*                                                                         *)
(* Every proposer works the same way.  It reads committed state, computes  *)
(* from that one read a batch of jobs, and carries the jobs out one        *)
(* command at a time, waiting for each command to be applied before it     *)
(* proposes the next (client_write(..).await).  Between two commands       *)
(* anything else may be applied, so all but the first command of a batch   *)
(* act on a read that may be stale.                                        *)
(*                                                                         *)
(* A change of leader drops the batches.  A command in flight at that      *)
(* moment is in the new leader's log or lost; if it is in the log it is    *)
(* applied before anything the new leader proposes.  The new leader's      *)
(* controllers start as soon as it is elected: until its own state machine *)
(* has caught up they read an older state.                                 *)
(***************************************************************************)
EXTENDS FleetState, FiniteSets, Folds

CONSTANTS
    Running,       \* the proposers that take part
    CronService,   \* names of the runs that cron triggers create
    SpreadRole,    \* roles under anti-affinity
    Domains,       \* failure domains, as sets of nodes
    MaxOps,        \* bound on operator and node commands
    MaxFailovers   \* bound on changes of leader

Proposer == {"workload", "cron", "pod", "node", "hpa", "vpa", "scale", "drain"}

ASSUME ControllersAssumption ==
    /\ Running \subseteq Proposer
    /\ CronService \subseteq Service
    /\ SpreadRole \subseteq Role
    /\ Domains \subseteq SUBSET Node
    /\ MaxOps \in Nat
    /\ MaxFailovers \in Nat

\* A job is what one call of a proposer does; step k of it is its k-th command.
PlaceJob    == [kind : {"place"}, slot : Slot, node : Node, resources : Footprint,
                victims : SUBSET Slot, pass : {3, 4}, priority : Priority]
VacateJob   == [kind : {"vacate"}, slot : Slot, pass : {3}]
ResizeJob   == [kind : {"resize"}, slot : Slot, spec : WorkloadSpec, pass : {3}]
SpecJob     == [kind : {"scale", "trigger"}, workload : Workload,
                spec : WorkloadSpec, pass : {3}]
ReassignJob == [kind : {"reassign"}, slot : Slot, pass : {3}]
NodeJob     == [kind : {"expire", "evict", "cordon"}, node : Node, pass : {2}]
Job == PlaceJob \cup VacateJob \cup ResizeJob \cup SpecJob \cup ReassignJob \cup NodeJob

VARIABLES
    todo,       \* [Proposer -> set of jobs still to start]
    cur,        \* [Proposer -> the job being carried out, or None]
    step,       \* [Proposer -> number of the command in flight]
    triggered,  \* workload and spec that cron has triggered and not yet reconciled
    enforcing,  \* [Node -> taints the node controller has read and not yet enforced]
    orphans,    \* commands of the last leader that are in the new leader's log
    replica,    \* what a follower's state machine has applied; None if unused
    behind,     \* the leader's state machine has not caught up yet
    ops,        \* operator and node commands so far
    failovers   \* changes of leader so far

taskVars     == <<todo, cur, step, triggered, enforcing>>
leaderVars   == <<orphans, replica, behind, failovers>>
controlVars  == <<taskVars, leaderVars, ops>>
vars         == <<fleetVars, controlVars>>

\* The keyspaces that proposers read.
View == [nodes       : [Node -> NodeRecord \cup {None}],
         node_taints : [Node -> SUBSET Taint],
         workloads   : [Workload -> WorkloadSpec \cup {None}],
         ordinals    : [Slot -> OrdinalAssignment \cup {None}],
         placements  : [PodId -> Placement \cup {None}]]

Applied == [nodes |-> nodes, node_taints |-> node_taints, workloads |-> workloads,
            ordinals |-> ordinals, placements |-> placements]

ASSUME ViewAssumption == None \notin View

\* What a read by the leader returns.
Seen == IF behind THEN replica ELSE Applied

ControllersTypeOK ==
    /\ TypeOK
    /\ todo \in [Proposer -> SUBSET Job]
    /\ cur \in [Proposer -> Job \cup {None}]
    /\ step \in [Proposer -> 1 .. 3]
    /\ triggered \in SpecJob \cup {None}
    /\ enforcing \in [Node -> SUBSET Taint]
    /\ orphans \subseteq Job \X (1 .. 3)
    /\ replica \in View \cup {None}
    /\ behind \in BOOLEAN
    /\ ops \in 0 .. MaxOps
    /\ failovers \in 0 .. MaxFailovers

-----------------------------------------------------------------------------
(* The scheduler, as a function of the state v that was read.              *)

PlacedOn(v, n) == {p \in PodId : v.placements[p] # None /\ v.placements[p].node_id = n}
ResourcesOf(v, P) ==
    MapThenFoldSet(+, 0, LAMBDA p : v.placements[p].resources, LAMBDA Q : CHOOSE p \in Q : TRUE, P)

\* Capacity minus what the placements use; subtraction saturates.
Available(v, n) ==
    LET used == ResourcesOf(v, PlacedOn(v, n)) IN
    IF v.nodes[n].capacity <= used THEN 0 ELSE v.nodes[n].capacity - used

Schedulable(v, n) ==
    v.nodes[n] # None /\ v.nodes[n].schedulable /\ v.nodes[n].status = "Active"

\* Every taint, NoSchedule or NoExecute, is tolerated.
PassesTaintFilter(v, spec, n) == \A t \in v.node_taints[n] : t.key \in spec.tolerates

SameDomain(m, n) == \E D \in Domains : {m, n} \subseteq D

\* Compares service and role; the tenant is not looked at.
PassesAntiAffinity(v, s, n) ==
    s.role \in SpreadRole =>
        \A p \in PodId :
            (v.placements[p] # None /\ p.service = s.service /\ p.role = s.role)
                => LET m == v.placements[p].node_id IN m # n /\ ~SameDomain(m, n)

\* The nodes that pass the filters; which of them scores best is left open.
Candidates(v, spec, s) ==
    {n \in Node : /\ Schedulable(v, n)
                  /\ spec.footprint <= Available(v, n)
                  /\ PassesAntiAffinity(v, s, n)
                  /\ PassesTaintFilter(v, spec, n)}

-----------------------------------------------------------------------------
(* Preemption: make room for a pod by removing pods of lower priority.     *)

\* Priorities are known for the workloads of the batch only.
PriorityOf(specs, w) == IF specs[w] = None THEN 0 ELSE specs[w].priority
VictimPriority(v, specs, p) == PriorityOf(specs, WorkloadOf(v.placements[p].slot))

\* Lowest priority first, until the pod fits; ties are broken by pod id.
VictimSets(v, specs, spec, n) ==
    LET prio(p)  == VictimPriority(v, specs, p)
        eligible == {p \in PlacedOn(v, n) : prio(p) < spec.priority}
        fits(V)  == spec.footprint <= Available(v, n) + ResourcesOf(v, V)
        last(V)  == {p \in V : \A q \in V : prio(q) <= prio(p)}
    IN {V \in SUBSET eligible :
          /\ fits(V)
          /\ \A p \in V, q \in eligible \ V : prio(p) <= prio(q)
          /\ V # {} => \E p \in last(V) : ~fits(V \ {p})}

\* Anti-affinity is not among the conditions.
PreemptionPlans(v, specs, s) ==
    LET spec == specs[WorkloadOf(s)]
        open == {n \in Node : Schedulable(v, n) /\ PassesTaintFilter(v, spec, n)}
    IN UNION {{[node |-> n, victims |-> V] : V \in VictimSets(v, specs, spec, n)} : n \in open}

\* Fewest victims, then the lowest sum of their priorities; which of the plans
\* that are still equal is taken (the code compares node ids) is left open.
FindPreemptionPlan(v, specs, s) ==
    LET cost(plan) ==
            MapThenFoldSet(+, 0, LAMBDA p : VictimPriority(v, specs, p), LAMBDA Q : CHOOSE p \in Q : TRUE, plan.victims)
        worse(a, b) ==
            \/ Cardinality(a.victims) > Cardinality(b.victims)
            \/ Cardinality(a.victims) = Cardinality(b.victims) /\ cost(a) > cost(b)
        plans == PreemptionPlans(v, specs, s)
    IN {plan \in plans : \A other \in plans : ~worse(plan, other)}

-----------------------------------------------------------------------------
(* One reconcile pass over specs: which jobs it makes of the state v.      *)

\* Mutation: a slot is pending whatever its record says.
PendingAlways(v, specs) ==
    {s \in Slot : /\ specs[WorkloadOf(s)] # None
                  /\ ~Excess(specs[WorkloadOf(s)], s)}

\* Mutation: the last replica of every role is forgotten.
PendingButLast(v, specs) ==
    {s \in Slot : /\ specs[WorkloadOf(s)] # None
                  /\ s.ordinal + 1 < specs[WorkloadOf(s)].replicas[s.role]
                  /\ v.ordinals[s] = None}

\* A slot whose record exists, freed or not, is never pending.
Pending(v, specs) ==
    {s \in Slot : /\ specs[WorkloadOf(s)] # None
                  /\ ~Excess(specs[WorkloadOf(s)], s)
                  /\ v.ordinals[s] = None}

\* What can become of a pending slot: pass 3 places it on a node that the
\* scheduler accepts, pass 4 preempts for it, or it is left for the next tick.
Decision == [node : Node, victims : SUBSET Slot, pass : {3, 4}]

Decisions(v, specs, s) ==
    LET spec       == specs[WorkloadOf(s)]
        candidates == Candidates(v, spec, s)
        plans      == IF spec.priority > 0 THEN FindPreemptionPlan(v, specs, s) ELSE {}
    IN IF candidates # {}
       THEN {[node |-> n, victims |-> {}, pass |-> 3] : n \in candidates}
       ELSE IF plans # {}
       THEN {[node |-> plan.node, victims |-> {v.placements[p].slot : p \in plan.victims},
              pass |-> 4] : plan \in plans}
       ELSE {None}

\* The outcomes of a pass: one decision for every pending slot.
Schedules(v, specs) ==
    LET pending == Pending(v, specs)
        options == [s \in pending |-> Decisions(v, specs, s)]
    IN {d \in [pending -> UNION {options[s] : s \in pending}] :
            \A s \in pending : d[s] \in options[s]}

Place(specs, s, decision) ==
    LET spec == specs[WorkloadOf(s)] IN
    [kind |-> "place", slot |-> s, node |-> decision.node, resources |-> spec.footprint,
     victims |-> decision.victims, pass |-> decision.pass, priority |-> spec.priority]

\* Mutation: a pod that the scheduler found no node for is placed all the same.
ReconcileJobsUnscheduled(specs, d) ==
    {Place(specs, s, IF d[s] # None THEN d[s]
                     ELSE [node |-> None, victims |-> {}, pass |-> 3]) : s \in DOMAIN d}

ReconcileJobs(specs, d) ==
    {Place(specs, s, d[s]) : s \in {r \in DOMAIN d : d[r] # None}}

-----------------------------------------------------------------------------
(* Carrying out jobs.                                                      *)

SlotKinds == {"place", "vacate", "resize", "reassign"}

\* The order within a batch: pass, priority, then pod id.
Before(j, k) ==
    \/ j.pass < k.pass
    \/ /\ j.pass = k.pass
       /\ j.kind = "place" /\ k.kind = "place"
       /\ j.priority > k.priority
    \/ /\ j.pass = k.pass
       /\ j.kind \in SlotKinds /\ k.kind \in SlotKinds
       /\ WorkloadOf(j.slot) = WorkloadOf(k.slot)
       /\ j.slot.role = k.slot.role
       /\ j.slot.ordinal < k.slot.ordinal

Idle(q) == cur[q] = None /\ todo[q] = {}

\* q goes on with the first of jobs, or comes to rest when there is none.
Take(q, jobs) ==
    /\ \E j \in jobs \cup {None} :
          /\ IF jobs = {} THEN j = None ELSE j # None
          /\ \A k \in jobs : ~Before(k, j)
          /\ cur' = [cur EXCEPT ![q] = j]
          /\ todo' = [todo EXCEPT ![q] = jobs \ {j}]
    /\ step' = [step EXCEPT ![q] = 1]

\* q, with nothing to do, has read the state and starts on a batch.
StartBatch(q, jobs) ==
    /\ q \in Running
    /\ Idle(q)
    /\ jobs # {}
    /\ Take(q, jobs)
    /\ UNCHANGED <<fleetVars, leaderVars>>

Victim(j) == CHOOSE s \in j.victims : TRUE

\* Mutation: the placement is proposed before the slot record.
CommitSchedulingPlacementFirst(j, k) ==
    \/ k = 1 /\ CommitPlacement(j.slot, j.node, j.resources)
    \/ k = 2 /\ RecordOrdinalAssignment(j.slot, Assigned(PodIdOf(j.slot), j.node))

CommitScheduling(j, k) ==
    \/ k = 1 /\ RecordOrdinalAssignment(j.slot, Assigned(PodIdOf(j.slot), j.node))
    \/ k = 2 /\ CommitPlacement(j.slot, j.node, j.resources)

\* Mutation: the slot is freed before its placement is removed.
VacateFreeFirst(s, k) ==
    \/ k = 1 /\ RecordOrdinalAssignment(s, Freed)
    \/ k = 2 /\ RemovePlacement(PodIdOf(s))

\* Remove the pod of s and free the slot: preemption, drain, NoExecute taints.
Vacate(s, k) ==
    \/ k = 1 /\ RemovePlacement(PodIdOf(s))
    \/ k = 2 /\ RecordOrdinalAssignment(s, Freed)

\* The vertical autoscaler proceeds in the other order.
ReplaceStalePod(j, k) ==
    \/ k = 1 /\ ResizeWorkload(WorkloadOf(j.slot), j.spec)
    \/ k = 2 /\ RecordOrdinalAssignment(j.slot, Freed)
    \/ k = 3 /\ RemovePlacement(PodIdOf(j.slot))

ExpireNode(n, k) ==
    \/ k = 1 /\ EvictNode(n, MaxTime)
    \/ k = 2 /\ PruneExpiredRevokedSvids(0)

\* Step k of job j, applied to the state machine.
Carry(j, k) ==
    \/ j.kind = "place" /\ j.victims # {} /\ Vacate(Victim(j), k)
    \/ j.kind = "place" /\ j.victims = {} /\ CommitScheduling(j, k)
    \/ j.kind = "vacate"   /\ Vacate(j.slot, k)
    \/ j.kind = "resize"   /\ ReplaceStalePod(j, k)
    \/ j.kind = "reassign" /\ ReassignPodId(j.slot, PodIdOf(j.slot))
    \/ j.kind = "scale"    /\ ScaleWorkload(j.workload, j.spec)
    \/ j.kind = "trigger"  /\ SubmitWorkloadSpec(j.workload, j.spec)
    \/ j.kind = "cordon"   /\ SetNodeSchedulable(j.node, FALSE)
    \/ j.kind = "evict"    /\ EvictNode(j.node, MaxTime)
    \/ j.kind = "expire"   /\ ExpireNode(j.node, k)

Steps(j) == CASE j.kind = "resize" -> 3
              [] j.kind \in {"place", "vacate", "expire"} -> 2
              [] OTHER -> 1

\* The log holds nothing that the leader's state machine has yet to apply.
CaughtUp == ~behind /\ orphans = {}

\* The command that q waits for is applied and q goes on.
Await(q) ==
    LET j == cur[q] IN
    /\ j # None
    /\ CaughtUp
    /\ Carry(j, step[q])
    /\ \/ /\ step[q] < Steps(j)
          /\ step' = [step EXCEPT ![q] = @ + 1]
          /\ UNCHANGED <<todo, cur, triggered>>
       \/ /\ step[q] = Steps(j)
          /\ j.kind = "place" /\ j.victims # {}
          /\ cur' = [cur EXCEPT ![q].victims = @ \ {Victim(j)}]
          /\ step' = [step EXCEPT ![q] = 1]
          /\ UNCHANGED <<todo, triggered>>
       \/ /\ step[q] = Steps(j)
          /\ ~(j.kind = "place" /\ j.victims # {})
          /\ Take(q, todo[q])
          /\ triggered' = IF j.kind = "trigger" THEN j ELSE triggered
    /\ UNCHANGED <<enforcing, leaderVars, ops>>

-----------------------------------------------------------------------------
(* The proposers' reads.  Each takes one look at the state and starts a    *)
(* batch; a look that finds nothing to do changes nothing.                 *)

\* Workload controller: all stored specs, one view of the cluster.
ReconcileAll ==
    \E d \in Schedules(Seen, Seen.workloads) :
        /\ StartBatch("workload", ReconcileJobs(Seen.workloads, d))
        /\ UNCHANGED <<triggered, enforcing, ops>>

\* Cron controller: a due run becomes a workload under a name of its own ...
TriggerCron(w, spec) ==
    /\ w.service \in CronService
    /\ triggered = None
    /\ Seen.workloads[w] = None
    /\ \A s \in Slot : WorkloadOf(s) = w => Seen.ordinals[s] = None
    /\ StartBatch("cron", {[kind |-> "trigger", workload |-> w, spec |-> spec, pass |-> 3]})
    /\ UNCHANGED <<triggered, enforcing, ops>>

\* ... which the cron controller then reconciles by itself, from the spec it
\* still holds and beside the workload controller.
ReconcileRun ==
    /\ triggered # None
    /\ LET specs == [w \in Workload |->
                        IF w = triggered.workload THEN triggered.spec ELSE None] IN
       \E d \in Schedules(Seen, specs) :
           LET jobs == ReconcileJobs(specs, d) IN
           \/ StartBatch("cron", jobs)
           \/ /\ jobs = {} /\ Idle("cron")
              /\ UNCHANGED <<fleetVars, leaderVars, todo, cur, step>>
    /\ triggered' = None
    /\ UNCHANGED <<enforcing, ops>>

\* Pod controller: the pod of slot s is missing, dead, silent or not enforced.
ReconcileDeadPod(s) ==
    /\ Seen.ordinals[s] # None
    /\ StartBatch("pod", {[kind |-> "reassign", slot |-> s, pass |-> 3]})
    /\ UNCHANGED <<triggered, enforcing, ops>>

\* Node controller: the nodes of S, not yet evicted, have missed their lease.
ExpireNodes(S) ==
    /\ \A n \in S : Seen.nodes[n] # None /\ Seen.nodes[n].status # "Evicted"
    /\ enforcing = [n \in Node |-> {}]
    /\ StartBatch("node", {[kind |-> "expire", node |-> n, pass |-> 2] : n \in S})
    /\ UNCHANGED <<triggered, enforcing, ops>>

NoExecute(taints) == {t \in taints : t.effect = "NoExecute"}

\* The taint records are listed once, then enforced node by node.
ListTaints ==
    /\ "node" \in Running /\ Idle("node")
    /\ enforcing = [n \in Node |-> {}]
    /\ enforcing' = [n \in Node |-> NoExecute(Seen.node_taints[n])]
    /\ enforcing' # enforcing
    /\ UNCHANGED <<fleetVars, leaderVars, todo, cur, step, triggered, ops>>

TolerationsFor(v, w) == IF v.workloads[w] = None THEN {} ELSE v.workloads[w].tolerates

\* Pods that do not tolerate some NoExecute taint go; of those that tolerate
\* one, for some time or for good, the ones in late have used up their time.
PlanEvictions(v, n, taints, late) ==
    LET on == PlacedOn(v, n)
        tolerated(p) == {t \in taints :
            t.key \in TolerationsFor(v, WorkloadOf(v.placements[p].slot))}
    IN {p \in on : tolerated(p) # taints \/ p \in late}

EnforceNoExecute(n, late) ==
    /\ Idle("node")
    /\ enforcing[n] # {}
    /\ LET out == PlanEvictions(Seen, n, enforcing[n], late)
           jobs == {[kind |-> "vacate", slot |-> Seen.placements[p].slot, pass |-> 3] : p \in out}
       IN \/ StartBatch("node", jobs)
          \/ jobs = {} /\ UNCHANGED <<fleetVars, leaderVars, todo, cur, step>>
    /\ enforcing' = [enforcing EXCEPT ![n] = {}]
    /\ UNCHANGED <<triggered, ops>>

PlacedPodsOf(v, w) ==
    {p \in PodId : v.placements[p] # None /\ WorkloadOf(v.placements[p].slot) = w}

\* Writing back the spec that was read, with other replica counts.
ScaleJob(w, replicas) ==
    [kind |-> "scale", workload |-> w, pass |-> 3,
     spec |-> [Seen.workloads[w] EXCEPT !.replicas = replicas]]

\* Horizontal autoscaler: rescales the workloads that replicas is defined on,
\* all from one read; a stopped workload and one without pods are left alone.
Autoscale(replicas) ==
    /\ \A w \in DOMAIN replicas :
          /\ Seen.workloads[w] # None
          /\ \E r \in Role : Seen.workloads[w].replicas[r] > 0
          /\ \E r \in Role : replicas[w][r] > 0
          /\ PlacedPodsOf(Seen, w) # {}
    /\ StartBatch("hpa", {ScaleJob(w, replicas[w]) : w \in DOMAIN replicas})
    /\ UNCHANGED <<triggered, enforcing, ops>>

\* Admin scale.
ScaleOne(w, replicas) ==
    /\ ops < MaxOps /\ ops' = ops + 1
    /\ Seen.workloads[w] # None
    /\ StartBatch("scale", {ScaleJob(w, replicas)})
    /\ UNCHANGED <<triggered, enforcing>>

\* Vertical autoscaler: for each workload that pod is defined on, write back
\* the spec with another footprint and then remove its first pod that does not
\* match it, the slot record before the placement.
Resize(pod, footprint) ==
    LET stale(w) == {p \in PlacedPodsOf(Seen, w) : Seen.placements[p].resources # footprint[w]} IN
    /\ \A w \in DOMAIN pod :
          /\ Seen.workloads[w] # None
          /\ footprint[w] # Seen.workloads[w].footprint
          /\ pod[w] \in stale(w)
          /\ \A p \in stale(w) : p.role = pod[w].role => pod[w].ordinal <= p.ordinal
    /\ StartBatch("vpa", {[kind |-> "resize", slot |-> Seen.placements[pod[w]].slot, pass |-> 3,
                           spec |-> [Seen.workloads[w] EXCEPT !.footprint = footprint[w]]]
                          : w \in DOMAIN pod})
    /\ UNCHANGED <<triggered, enforcing, ops>>

\* Admin eviction that the disruption budgets allow in part: cordon the node
\* and vacate the slots of S, never all of those it hosts.
DrainPart(n, S) ==
    /\ ops < MaxOps /\ ops' = ops + 1
    /\ LET hosted == {Seen.placements[p].slot : p \in PlacedOn(Seen, n)} IN
       S \subseteq hosted /\ S # hosted
    /\ StartBatch("drain", {[kind |-> "cordon", node |-> n, pass |-> 2]}
                  \cup {[kind |-> "vacate", slot |-> s, pass |-> 3] : s \in S})
    /\ UNCHANGED <<triggered, enforcing>>

\* Admin eviction that is allowed, or forced.
EvictWhole(n) ==
    /\ ops < MaxOps /\ ops' = ops + 1
    /\ StartBatch("drain", {[kind |-> "evict", node |-> n, pass |-> 2]})
    /\ UNCHANGED <<triggered, enforcing>>

-----------------------------------------------------------------------------
(* Commands whose content does not depend on a read.                       *)

Operator ==
    /\ CaughtUp
    /\ ops < MaxOps /\ ops' = ops + 1
    /\ \/ \E w \in Workload, spec \in WorkloadSpec :
             w.service \notin CronService /\ SubmitWorkloadSpec(w, spec)
       \/ \E w \in Workload : workloads[w] # None /\ DeleteWorkload(w)
       \/ \E n \in Node, taints \in SUBSET Taint : SetNodeTaints(n, taints)
       \/ \E n \in Node, t \in Taint : RemoveNodeTaint(n, t.key, t.effect)
       \/ \E n \in Node : SetNodeSchedulable(n, FALSE)
       \/ \E n \in Node, c \in Capacity : RegisterNode(n, c, 0)
    /\ UNCHANGED <<taskVars, leaderVars>>

-----------------------------------------------------------------------------
(* Changes of leader.                                                      *)

InFlight == {<<cur[q], step[q]>> : q \in {r \in Proposer : cur[r] # None}}

FollowerApplies ==
    /\ ~behind
    /\ replica # None
    /\ replica' = Applied
    /\ UNCHANGED <<fleetVars, taskVars, orphans, behind, ops, failovers>>

\* The tasks of the old leader are aborted; kept is what reached the new log.
Failover(kept) ==
    /\ failovers < MaxFailovers /\ failovers' = failovers + 1
    /\ kept \subseteq orphans \cup InFlight
    /\ orphans' = kept
    /\ todo' = [q \in Proposer |-> {}]
    /\ cur' = [q \in Proposer |-> None]
    /\ step' = [q \in Proposer |-> 1]
    /\ triggered' = None
    /\ enforcing' = [n \in Node |-> {}]
    /\ behind' = TRUE
    /\ UNCHANGED <<fleetVars, replica, ops>>

\* The new leader has applied what the old one had applied ...
CatchUp ==
    /\ behind
    /\ behind' = FALSE
    /\ replica' = IF failovers < MaxFailovers THEN Applied ELSE None
    /\ UNCHANGED <<fleetVars, taskVars, orphans, ops, failovers>>

\* ... and then the commands that the old one left in the log.
ApplyOrphan(o) ==
    /\ ~behind
    /\ Carry(o[1], o[2])
    /\ orphans' = orphans \ {o}
    /\ UNCHANGED <<taskVars, replica, behind, ops, failovers>>

-----------------------------------------------------------------------------
\* The fleet has registered; nothing is deployed yet.
Init ==
    /\ \E capacity \in [Node -> Capacity] :
          nodes = [n \in Node |-> [status |-> "Active", schedulable |-> TRUE,
                                  last_heartbeat |-> 0, capacity |-> capacity[n]]]
    /\ node_taints = [n \in Node |-> {}]
    /\ workloads = [w \in Workload |-> None]
    /\ ordinals = [s \in Slot |-> None]
    /\ placements = [p \in PodId |-> None]
    /\ active_delegations = {}
    /\ revoked_delegations = {}
    /\ revoked_svids = [n \in Node |-> None]
    /\ todo = [q \in Proposer |-> {}]
    /\ cur = [q \in Proposer |-> None]
    /\ step = [q \in Proposer |-> 1]
    /\ triggered = None
    /\ enforcing = [n \in Node |-> {}]
    /\ orphans = {}
    /\ replica = IF MaxFailovers = 0 THEN None ELSE Applied
    /\ behind = FALSE
    /\ ops = 0
    /\ failovers = 0

Replicas == [Role -> 0 .. MaxReplicas]

ControllersNext ==
    \/ ReconcileAll
    \/ \E w \in Workload, spec \in WorkloadSpec : TriggerCron(w, spec)
    \/ ReconcileRun
    \/ \E s \in Slot : ReconcileDeadPod(s)
    \/ \E S \in SUBSET Node : ExpireNodes(S)
    \/ ListTaints
    \/ \E n \in Node, late \in SUBSET PodId : EnforceNoExecute(n, late)
    \/ \E W \in SUBSET Workload : \E replicas \in [W -> Replicas] : Autoscale(replicas)
    \/ \E W \in SUBSET Workload :
         \E pod \in [W -> PodId], footprint \in [W -> Footprint] : Resize(pod, footprint)

AdminNext ==
    \/ \E w \in Workload, replicas \in Replicas : ScaleOne(w, replicas)
    \/ \E n \in Node, S \in SUBSET Slot : DrainPart(n, S)
    \/ \E n \in Node : EvictWhole(n)
    \/ Operator

LeaderNext ==
    \/ FollowerApplies
    \/ \E kept \in SUBSET (orphans \cup InFlight) : Failover(kept)
    \/ CatchUp
    \/ \E o \in orphans : ApplyOrphan(o)

Next ==
    \/ \E q \in Proposer : Await(q)
    \/ ControllersNext
    \/ AdminNext
    \/ LeaderNext

Spec == Init /\ [][Next]_vars

\* While a leader has a quorum every proposal is applied in the end, a new
\* leader catches up, and the workload controller ticks every 30 seconds.
Fairness ==
    /\ \A q \in Proposer : WF_vars(Await(q))
    /\ WF_vars(ReconcileAll)
    /\ WF_vars(ReconcileRun)
    /\ WF_vars(CatchUp)
    /\ WF_vars(\E o \in orphans : ApplyOrphan(o))

FairSpec == Spec /\ Fairness

-----------------------------------------------------------------------------
(* What holds.                                                             *)

PlacementOf(s) == placements[PodIdOf(s)]
Hosted(s) == PlacementOf(s) # None /\ PlacementOf(s).slot = s

(***************************************************************************)
(* Every placement belongs to a slot that has an ordinal record.  The      *)
(* record is all that keeps reconcile_all from scheduling the slot again,  *)
(* so a placement without one would be scheduled a second time.  Holds     *)
(* across changes of leader: RecordOrdinalAssignment is in the log before  *)
(* CommitPlacement (commit_scheduling).                                    *)
(***************************************************************************)
PlacedSlotIsRecorded == \A s \in Slot : Hosted(s) => ordinals[s] # None

(***************************************************************************)
(* The slot record agrees with the placement: same pod, same node.  The    *)
(* one exception is the vertical autoscaler, which frees the record of a   *)
(* pod first (remove_stale_pod): then the command that removes the         *)
(* placement is already on its way.  One leader, one tenant per workload   *)
(* name and no cron runs (see the README for what those change).           *)
(***************************************************************************)
SlotBacksPlacement ==
    \A s \in Slot : Hosted(s) =>
        \/ ordinals[s] = Assigned(PodIdOf(s), PlacementOf(s).node_id)
        \/ /\ ordinals[s] = Freed
           /\ cur["vpa"] # None /\ cur["vpa"].slot = s /\ step["vpa"] = 3

(***************************************************************************)
(* A pod never changes its node while it is placed: the placement of a     *)
(* slot may be removed, but under one leader no interleaving of the        *)
(* reconciler, the autoscalers, drains and evictions overwrites it with    *)
(* one on another node, which would leave two nodes running the same       *)
(* ordinal.                                                                *)
(***************************************************************************)
StaysPut ==
    [][\A s \in Slot : (Hosted(s) /\ Hosted(s)') =>
            PlacementOf(s)'.node_id = PlacementOf(s).node_id]_vars

(***************************************************************************)
(* A replica that is asked for is placed: a slot without a record, for     *)
(* which some node passes the filters, gets its placement unless it stops  *)
(* being wanted or feasible, or the leader changes first; the leader has   *)
(* applied what its predecessor left in the log (reconcile_all retries     *)
(* every tick, "Ordinal intentionally NOT recorded").                      *)
(***************************************************************************)
Wanted(s) == workloads[WorkloadOf(s)] # None /\ ~Excess(workloads[WorkloadOf(s)], s)

Feasible(s) == Wanted(s) /\ Candidates(Applied, workloads[WorkloadOf(s)], s) # {}

FreshSlotIsPlaced ==
    \A s \in Slot, term \in 0 .. MaxFailovers :
        (failovers = term /\ CaughtUp /\ ordinals[s] = None /\ Feasible(s))
            ~> (Hosted(s) \/ ~Feasible(s) \/ failovers > term)

(***************************************************************************)
(* Through changes of leader, with batches aborted between any two of      *)
(* their commands and a new leader that reads an old state, no slot is     *)
(* passed over for ever: one that stays feasible gets its record.          *)
(***************************************************************************)
FreshSlotIsTried ==
    \A s \in Slot : <>[](ordinals[s] = None) => []<>~Feasible(s)

-----------------------------------------------------------------------------
(* What the documentation of the code says and the code does not keep.     *)

Quiet == CaughtUp /\ \A q \in Proposer : Idle(q)

(***************************************************************************)
(* "Strict bin-packing: reject scheduling when insufficient resources"     *)
(* (scheduler/mod.rs): the pods placed on a node fit into its capacity.    *)
(***************************************************************************)
StrictBinPacking ==
    \A n \in Node : ResourcesOf(Applied, PlacedOn(Applied, n)) <= nodes[n].capacity

(***************************************************************************)
(* "Delete a workload spec and all its placements/ordinal assignments."    *)
(* (raft/mod.rs): when nothing is in flight, a workload that does not      *)
(* exist has no placements.                                                *)
(***************************************************************************)
DeletedLeavesNothing ==
    Quiet => \A s \in Slot : Hosted(s) => workloads[WorkloadOf(s)] # None

(***************************************************************************)
(* "A missing placement (e.g., VPA removed it) means this ordinal must be  *)
(* re-scheduled, not skipped." (workload_controller.rs): a wanted slot     *)
(* does not stay empty for ever while a node passes the filters.           *)
(***************************************************************************)
EmptySlotIsRescheduled ==
    \A s \in Slot : <>[]~Hosted(s) => []<>~Feasible(s)

=============================================================================
