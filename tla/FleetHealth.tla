---------------------------- MODULE FleetHealth ----------------------------
(***************************************************************************)
(* What the leader believes of a pod and of its node: status reports and   *)
(* heartbeats of the agent, and the loops of the pod and the node          *)
(* controller that act on them.                                            *)
(*                                                                         *)
(* Times are kept as ages: how long ago, in ticks, and beyond Old all the  *)
(* same.  Reports travel on their own, so they may be late, overtake each  *)
(* other or get lost.  The agent may stop for good.                        *)
(***************************************************************************)
EXTENDS Naturals, Sequences, FiniteSets

CONSTANTS
    Staleness,    \* workload_status_staleness_secs
    Grace,        \* READINESS_GATE_GRACE_SECS
    Lease,        \* node_lease_timeout_secs
    Old,          \* ages are not told apart beyond this
    MaxInTransit, \* bound on reports under way
    MaxReports,   \* bound on closed-gate reports in a row
    MaxElections, \* bound on changes of leader
    Unset         \* no record, no mark

VARIABLES
    agent,            \* "up", or "gone" for good
    transit,          \* reports under way
    workload_status,  \* the stored report with its mark, or Unset
    closed_run,       \* observation: times of the closed-gate reports applied last, unbroken
    pod_check,        \* the pod controller: "idle" or "reassign"
    replaced,         \* the pod was replaced since the last applied report
    node,             \* status and age of the heartbeat
    beat,             \* age of the stamp on a heartbeat under way, or Unset
    node_check,       \* nodes listed as expired: "idle" or "evict"
    elections         \* changes of leader so far

healthVars == <<agent, transit, workload_status, closed_run, pod_check, replaced, node, beat, node_check, elections>>

Age == 0 .. Old
\* started, policy_enforced and router_connected enter the gate as one bit.
Report == [observed : Age, live : BOOLEAN, gate_open : BOOLEAN]
WorkloadStatus == [observed : Age, live : BOOLEAN, gate_violation_since : Age \cup {Unset}]

ASSUME HealthAssumption == Old \in Nat /\ Unset \notin Age /\ Unset \notin WorkloadStatus

HealthInit ==
    /\ agent = "up"
    /\ transit = {}
    /\ workload_status = Unset
    /\ closed_run = <<>>
    /\ pod_check = "idle" /\ replaced = FALSE
    /\ node \in {[status |-> "Active", last_heartbeat |-> 0], [status |-> "Evicted", last_heartbeat |-> Old]}
    /\ beat = Unset /\ node_check = "idle"
    /\ elections = 0

Older(a) == IF a = Unset \/ a = Old THEN a ELSE a + 1

GrowOlder ==
    /\ transit' = {[r EXCEPT !.observed = Older(@)] : r \in transit}
    /\ workload_status' = IF workload_status = Unset THEN Unset
                          ELSE [workload_status EXCEPT !.observed = Older(@),
                                                       !.gate_violation_since = Older(@)]
    /\ closed_run' = [i \in DOMAIN closed_run |-> Older(closed_run[i])]
    /\ node' = [node EXCEPT !.last_heartbeat = Older(@)]
    /\ beat' = Older(beat)
    /\ UNCHANGED <<agent, pod_check, replaced, node_check, elections>>

AgentStops ==
    /\ agent' = "gone"
    /\ UNCHANGED <<transit, workload_status, closed_run, pod_check, replaced, node, beat, node_check, elections>>

\* The agent observes the pod and reports.
SendReport(live, gate_open) ==
    /\ agent = "up"
    /\ Cardinality(transit) < MaxInTransit
    /\ transit' = transit \cup {[observed |-> 0, live |-> live, gate_open |-> gate_open]}
    /\ UNCHANGED <<agent, workload_status, closed_run, pod_check, replaced, node, beat, node_check, elections>>

LoseReport(r) ==
    /\ transit' = transit \ {r}
    /\ UNCHANGED <<agent, workload_status, closed_run, pod_check, replaced, node, beat, node_check, elections>>

\* Mutation: every report moves the mark.
MarkMoved(r) == IF r.gate_open THEN Unset ELSE r.observed

\* gate_violation_since_unix of the record to store.
GateMark(r) ==
    IF r.gate_open THEN Unset
    ELSE IF workload_status # Unset /\ workload_status.gate_violation_since # Unset
    THEN workload_status.gate_violation_since
    ELSE r.observed

\* report_workload_status and the command it proposes; a late report is stored
\* over a newer one.
UpsertWorkloadStatus(r) ==
    /\ r.gate_open \/ Len(closed_run) < MaxReports
    /\ transit' = transit \ {r}
    /\ workload_status' = [observed |-> r.observed, live |-> r.live, gate_violation_since |-> GateMark(r)]
    /\ closed_run' = IF r.gate_open THEN <<>> ELSE Append(closed_run, r.observed)
    /\ replaced' = FALSE
    /\ UNCHANGED <<agent, pod_check, node, beat, node_check, elections>>

-----------------------------------------------------------------------------
readiness_gate_violation_sustained(s) ==
    s.gate_violation_since # Unset /\ s.gate_violation_since > Grace

\* Mutation: reports never go stale.
DeadWhenReported(s) == s # Unset /\ (~s.live \/ readiness_gate_violation_sustained(s))

\* A placed pod without a report is not dead.
is_dead(s) ==
    s # Unset /\ (~s.live \/ s.observed > Staleness \/ readiness_gate_violation_sustained(s))

\* The pod loop looks at the pod ...
CheckPod ==
    /\ pod_check = "idle" /\ is_dead(workload_status)
    /\ pod_check' = "reassign"
    /\ UNCHANGED <<agent, transit, workload_status, closed_run, replaced, node, beat, node_check, elections>>

\* ... and replaces it in place: slot, pod id and stored report stay.
reconcile_dead_pod ==
    /\ pod_check = "reassign"
    /\ pod_check' = "idle"
    /\ replaced' = TRUE
    /\ UNCHANGED <<agent, transit, workload_status, closed_run, node, beat, node_check, elections>>

-----------------------------------------------------------------------------
\* report_node_status: refused once evicted; stamped with the receiver's clock.
report_node_status ==
    /\ agent = "up" /\ beat = Unset
    /\ node.status # "Evicted"
    /\ beat' = 0
    /\ UNCHANGED <<agent, transit, workload_status, closed_run, pod_check, replaced, node, node_check, elections>>

\* The command only refreshes the time: it may come after an eviction.
NodeHeartbeat ==
    /\ beat # Unset
    /\ node' = [node EXCEPT !.last_heartbeat = beat]
    /\ beat' = Unset
    /\ UNCHANGED <<agent, transit, workload_status, closed_run, pod_check, replaced, node_check, elections>>

\* The node registers again.
RegisterNode ==
    /\ agent = "up" /\ node.status = "Evicted"
    /\ node' = [status |-> "Active", last_heartbeat |-> 0]
    /\ UNCHANGED <<agent, transit, workload_status, closed_run, pod_check, replaced, beat, node_check, elections>>

\* Mutation: a node's life is inferred from the reports of its pods.
CheckNodeOfReports ==
    /\ node_check = "idle"
    /\ workload_status # Unset /\ workload_status.observed > Lease
    /\ node.status # "Evicted"
    /\ node_check' = "evict"
    /\ UNCHANGED <<agent, transit, workload_status, closed_run, pod_check, replaced, node, beat, elections>>

\* The node loop lists the records and picks the expired ones ...
CheckNode ==
    /\ node_check = "idle"
    /\ node.status # "Evicted" /\ node.last_heartbeat > Lease
    /\ node_check' = "evict"
    /\ UNCHANGED <<agent, transit, workload_status, closed_run, pod_check, replaced, node, beat, elections>>

\* ... and evicts them one after the other, whatever came in meanwhile.
EvictExpired ==
    /\ node_check = "evict"
    /\ node_check' = "idle"
    /\ node' = [node EXCEPT !.status = "Evicted"]
    /\ UNCHANGED <<agent, transit, workload_status, closed_run, pod_check, replaced, beat, elections>>

\* Losing leadership aborts both loops.
AbortLoops ==
    /\ elections < MaxElections
    /\ elections' = elections + 1
    /\ pod_check' = "idle" /\ node_check' = "idle"
    /\ UNCHANGED <<agent, transit, workload_status, closed_run, replaced, node, beat>>

PodLoop == CheckPod \/ reconcile_dead_pod
NodeLoop == CheckNode \/ EvictExpired

Loops == GrowOlder \/ AgentStops \/ PodLoop \/ NodeLoop \/ AbortLoops

PodReports ==
    \/ \E live, gate_open \in BOOLEAN : SendReport(live, gate_open)
    \/ \E r \in transit : LoseReport(r) \/ UpsertWorkloadStatus(r)

NodeReports == report_node_status \/ NodeHeartbeat \/ RegisterNode

HealthNext == Loops \/ PodReports \/ NodeReports

\* Time passes, the leader's loops run on timers.
HealthFairness == WF_healthVars(GrowOlder) /\ WF_healthVars(PodLoop) /\ WF_healthVars(NodeLoop)

HealthSpec == HealthInit /\ [][HealthNext]_healthVars /\ HealthFairness

-----------------------------------------------------------------------------
HealthTypeOK ==
    /\ agent \in {"up", "gone"}
    /\ transit \subseteq Report
    /\ workload_status \in {Unset} \cup WorkloadStatus
    /\ closed_run \in Seq(Age)
    /\ pod_check \in {"idle", "reassign"} /\ replaced \in BOOLEAN
    /\ node \in [status : {"Active", "Evicted"}, last_heartbeat : Age]
    /\ beat \in Age \cup {Unset}
    /\ node_check \in {"idle", "evict"}
    /\ elections \in 0 .. MaxElections

\* The mark is the observation time of the first report of the unbroken run of
\* closed-gate reports that were applied last, in whatever order reports were
\* observed; with no such run there is no mark (UpsertWorkloadStatus).
MarkIsStartOfRun ==
    workload_status # Unset =>
        workload_status.gate_violation_since = IF closed_run = <<>> THEN Unset ELSE closed_run[1]

\* A pod whose agent has reported once and then falls silent is replaced,
\* although leaders change (the pod loop's is_dead).
SilentPodIsReplaced == agent = "gone" /\ workload_status # Unset ~> replaced

\* A node whose agent falls silent is evicted, with pods or without, although a
\* late heartbeat is applied and leaders change (the node loop).
SilentNodeIsEvicted == agent = "gone" ~> node.status = "Evicted"

=============================================================================
