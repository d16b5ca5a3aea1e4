----------------------------- MODULE FleetState -----------------------------
(***************************************************************************)
(* The replicated state machine of the control plane, for the keyspaces    *)
(* that scheduling and the node lifecycle share: nodes, node taints,       *)
(* workloads, ordinal slots, placements, delegations and revoked SVIDs.    *)
(*                                                                         *)
(* Every variable is one fjall keyspace; a key that is not stored maps to  *)
(* None.  Every action is one arm of FjallStateMachine::apply_command: one *)
(* log entry, one write batch, so one atomic step.  The actions take the   *)
(* fields of the command as parameters, so that a module that models the   *)
(* proposers (PlacementControllers) can say which commands they propose    *)
(* and from which, possibly stale, reads they computed them.               *)
(*                                                                         *)
(* Spec below is the open system: commands arrive in any order, with any   *)
(* parameters a proposer can construct.  What holds of it holds whatever   *)
(* services and controllers do.                                            *)
(***************************************************************************)
EXTENDS Naturals

CONSTANTS
    Node,          \* SPIFFE ids of fleet nodes
    Tenant,        \* tenant ids
    Service,       \* workload ids, as a tenant names them
    Role,          \* workload roles
    MaxReplicas,   \* bound on a role's replica count
    Footprint,     \* resource requests of a pod, in one dimension
    Capacity,      \* capacities a node reports when it registers
    Priority,      \* pod priorities
    TaintKey,      \* operator taint keys
    Tolerations,   \* sets of taint keys a workload may tolerate
    Grant,         \* what distinguishes a node's delegation ids from each other
    MaxTime,       \* bound on every timestamp
    None           \* a key that is not stored, an Option::None

Time    == 0 .. MaxTime
Ordinal == 0 .. MaxReplicas - 1

ASSUME ConstantsAssumption ==
    /\ MaxReplicas \in Nat
    /\ MaxTime \in Nat
    /\ Footprint \subseteq Nat
    /\ Capacity \subseteq Nat
    /\ Priority \subseteq Nat
    /\ Tolerations \subseteq SUBSET TaintKey

NodeStatus == {"Active", "Cordoned", "Evicted"}

\* Zero capacity is what a record created on behalf of an unknown node has.
NodeRecord == [status         : NodeStatus,
               schedulable    : BOOLEAN,
               last_heartbeat : Time,
               capacity       : Capacity \cup {0}]

\* PreferNoSchedule only lowers a score; it never decides what may be placed.
Effect == {"NoSchedule", "NoExecute"}
Taint  == [key : TaintKey, effect : Effect]

\* A workload is keyed "{tenant}:{workload}"; a role that the spec does not
\* list behaves as a role with no replicas, here and in every reader.
Workload     == [tenant : Tenant, service : Service]
WorkloadSpec == [replicas  : [Role -> 0 .. MaxReplicas],
                 footprint : Footprint,
                 priority  : Priority,
                 tolerates : Tolerations]

\* An ordinal slot is keyed "{tenant}:{service}:{role}:{ordinal}".
Slot == [tenant : Tenant, service : Service, role : Role, ordinal : Ordinal]

\* Every proposer names a pod "{workload}-{role}-{ordinal}": no tenant in it.
PodId       == [service : Service, role : Role, ordinal : Ordinal]
PodIdOf(s)  == [service |-> s.service, role |-> s.role, ordinal |-> s.ordinal]
WorkloadOf(s) == [tenant |-> s.tenant, service |-> s.service]

OrdinalAssignment == [current_pod_id  : PodId \cup {None},
                      current_node_id : Node \cup {None}]
Freed == [current_pod_id |-> None, current_node_id |-> None]
Assigned(pod, n) == [current_pod_id |-> pod, current_node_id |-> n]

Placement == [slot : Slot, node_id : Node, resources : Footprint]

\* A delegation is keyed by its node and its id.
DelegationKey == Node \X Grant

ASSUME NoneAssumption ==
    /\ None \notin NodeRecord
    /\ None \notin WorkloadSpec
    /\ None \notin OrdinalAssignment
    /\ None \notin Placement
    /\ None \notin PodId
    /\ None \notin Node
    /\ None \notin Time

VARIABLES
    nodes,               \* [Node -> NodeRecord or None]
    node_taints,         \* [Node -> set of taints]; a stored set is not empty
    workloads,           \* [Workload -> WorkloadSpec or None]
    ordinals,            \* [Slot -> OrdinalAssignment or None]
    placements,          \* [PodId -> Placement or None]
    active_delegations,  \* set of delegation keys
    revoked_delegations, \* set of delegation keys
    revoked_svids        \* [Node -> expiry of the revoked SVID, or None]

nodeVars       == <<nodes, node_taints>>
placementVars  == <<workloads, ordinals, placements>>
revocationVars == <<active_delegations, revoked_delegations, revoked_svids>>
fleetVars      == <<nodeVars, placementVars, revocationVars>>

TypeOK ==
    /\ nodes \in [Node -> NodeRecord \cup {None}]
    /\ node_taints \in [Node -> SUBSET Taint]
    /\ workloads \in [Workload -> WorkloadSpec \cup {None}]
    /\ ordinals \in [Slot -> OrdinalAssignment \cup {None}]
    /\ placements \in [PodId -> Placement \cup {None}]
    /\ active_delegations \subseteq DelegationKey
    /\ revoked_delegations \subseteq DelegationKey
    /\ revoked_svids \in [Node -> Time \cup {None}]

FleetInit ==
    /\ nodes = [n \in Node |-> None]
    /\ node_taints = [n \in Node |-> {}]
    /\ workloads = [w \in Workload |-> None]
    /\ ordinals = [s \in Slot |-> None]
    /\ placements = [p \in PodId |-> None]
    /\ active_delegations = {}
    /\ revoked_delegations = {}
    /\ revoked_svids = [n \in Node |-> None]

-----------------------------------------------------------------------------
(* Nodes and taints.                                                       *)

\* Blind overwrite: also the only command that brings an evicted node back.
RegisterNode(n, capacity, now) ==
    /\ nodes' = [nodes EXCEPT ![n] = [status         |-> "Active",
                                      schedulable    |-> TRUE,
                                      last_heartbeat |-> now,
                                      capacity       |-> capacity]]
    /\ UNCHANGED <<node_taints, placementVars, revocationVars>>

\* The record of a node nobody has registered: no capacity, no heartbeat.
UnknownNode(status, schedulable) ==
    [status |-> status, schedulable |-> schedulable,
     last_heartbeat |-> 0, capacity |-> 0]

\* Mutation: uncordoning makes a node active whatever its status was.
WithSchedulableAlways(r, schedulable) ==
    [r EXCEPT !.schedulable = schedulable,
              !.status = IF schedulable THEN "Active" ELSE r.status]

\* Cordoning clears the flag only; uncordoning also lifts the Cordoned status.
WithSchedulable(r, schedulable) ==
    [r EXCEPT !.schedulable = schedulable,
              !.status = IF schedulable /\ r.status = "Cordoned"
                         THEN "Active" ELSE r.status]

SetNodeSchedulable(n, schedulable) ==
    /\ nodes' = [nodes EXCEPT ![n] =
          IF @ = None
          THEN UnknownNode(IF schedulable THEN "Active" ELSE "Cordoned", schedulable)
          ELSE WithSchedulable(@, schedulable)]
    /\ UNCHANGED <<node_taints, placementVars, revocationVars>>

NodeHeartbeat(n, now) ==
    /\ nodes' = [nodes EXCEPT ![n] =
          IF @ = None THEN None ELSE [@ EXCEPT !.last_heartbeat = now]]
    /\ UNCHANGED <<node_taints, placementVars, revocationVars>>

SetNodeTaints(n, taints) ==
    /\ node_taints' = [node_taints EXCEPT ![n] = taints]
    /\ UNCHANGED <<nodes, placementVars, revocationVars>>

RemoveNodeTaint(n, key, effect) ==
    /\ node_taints' = [node_taints EXCEPT ![n] =
          {t \in @ : ~(t.key = key /\ t.effect = effect)}]
    /\ UNCHANGED <<nodes, placementVars, revocationVars>>

\* The keyspace of placements without the keys in P.
Without(P) == [p \in PodId |-> IF p \in P THEN None ELSE placements[p]]

PodsOn(n) == {p \in PodId : placements[p] # None /\ placements[p].node_id = n}
PodsOf(w) == {p \in PodId : placements[p] # None /\ WorkloadOf(placements[p].slot) = w}

DelegationsOf(n) == {d \in active_delegations : d[1] = n}

\* Mutation: eviction leaves the delegations to a later command.
EvictNodeKeepsDelegations(n, expires_at) ==
    /\ nodes' = [nodes EXCEPT ![n] =
          IF @ = None THEN UnknownNode("Evicted", FALSE)
          ELSE [@ EXCEPT !.status = "Evicted", !.schedulable = FALSE]]
    /\ placements' = Without(PodsOn(n))
    /\ revoked_svids' = [revoked_svids EXCEPT ![n] = expires_at]
    /\ UNCHANGED <<node_taints, workloads, ordinals, active_delegations, revoked_delegations>>

\* One batch: node record, delegations, placements and the node's own SVID.
\* The ordinal slots of the removed placements are left as they are.
EvictNode(n, expires_at) ==
    /\ nodes' = [nodes EXCEPT ![n] =
          IF @ = None THEN UnknownNode("Evicted", FALSE)
          ELSE [@ EXCEPT !.status = "Evicted", !.schedulable = FALSE]]
    /\ active_delegations' = active_delegations \ DelegationsOf(n)
    /\ revoked_delegations' = revoked_delegations \cup DelegationsOf(n)
    /\ placements' = Without(PodsOn(n))
    /\ revoked_svids' = [revoked_svids EXCEPT ![n] = expires_at]
    /\ UNCHANGED <<node_taints, workloads, ordinals>>

PruneExpiredRevokedSvids(cutoff) ==
    /\ revoked_svids' = [n \in Node |->
          IF revoked_svids[n] # None /\ revoked_svids[n] < cutoff
          THEN None ELSE revoked_svids[n]]
    /\ UNCHANGED <<nodeVars, placementVars, active_delegations, revoked_delegations>>

-----------------------------------------------------------------------------
(* Delegations.                                                            *)

IssueDelegation(d) ==
    /\ active_delegations' = active_delegations \cup {d}
    /\ UNCHANGED <<nodeVars, placementVars, revoked_delegations, revoked_svids>>

\* Mutation: a revoked delegation is dropped without being filed.
RevokeDelegationUnfiled(d) ==
    /\ active_delegations' = active_delegations \ {d}
    /\ UNCHANGED <<nodeVars, placementVars, revoked_delegations, revoked_svids>>

\* A delegation that is not active is left alone.
RevokeDelegation(d) ==
    /\ active_delegations' = active_delegations \ {d}
    /\ revoked_delegations' = revoked_delegations \cup ({d} \cap active_delegations)
    /\ UNCHANGED <<nodeVars, placementVars, revoked_svids>>

-----------------------------------------------------------------------------
(* Workloads.                                                              *)

StoreSpec(w, spec) == workloads' = [workloads EXCEPT ![w] = spec]

\* Remove the placements P and free their slots.  A slot that holds no placement
\* at this moment keeps its record.
RemoveAndFree(P) ==
    /\ placements' = Without(P)
    /\ ordinals' = [s \in Slot |->
          IF \E p \in P : placements[p].slot = s THEN Freed ELSE ordinals[s]]

SubmitWorkloadSpec(w, spec) ==
    /\ StoreSpec(w, spec)
    /\ UNCHANGED <<nodeVars, ordinals, placements, revocationVars>>

\* Mutation: the placements are matched by workload name alone.
DeleteWorkloadAnyTenant(w) ==
    /\ StoreSpec(w, None)
    /\ RemoveAndFree({p \in PodId : placements[p] # None /\ p.service = w.service})
    /\ UNCHANGED <<nodeVars, revocationVars>>

DeleteWorkload(w) ==
    /\ StoreSpec(w, None)
    /\ RemoveAndFree(PodsOf(w))
    /\ UNCHANGED <<nodeVars, revocationVars>>

\* A slot beyond its role's replica count.
Excess(spec, s) == s.ordinal >= spec.replicas[s.role]

ScaleWorkload(w, spec) ==
    /\ StoreSpec(w, spec)
    /\ RemoveAndFree({p \in PodsOf(w) : Excess(spec, placements[p].slot)})
    /\ UNCHANGED <<nodeVars, revocationVars>>

\* A resize leaves the running placements to the vertical autoscaler.
ResizeWorkload(w, spec) ==
    /\ StoreSpec(w, spec)
    /\ UNCHANGED <<nodeVars, ordinals, placements, revocationVars>>

-----------------------------------------------------------------------------
(* Ordinal slots and placements.                                           *)

RecordOrdinalAssignment(s, assignment) ==
    /\ ordinals' = [ordinals EXCEPT ![s] = assignment]
    /\ UNCHANGED <<nodeVars, workloads, placements, revocationVars>>

\* Keyed by pod id alone: whatever the key held before is overwritten.
CommitPlacement(s, n, resources) ==
    /\ placements' = [placements EXCEPT ![PodIdOf(s)] =
          [slot |-> s, node_id |-> n, resources |-> resources]]
    /\ UNCHANGED <<nodeVars, workloads, ordinals, revocationVars>>

RemovePlacement(p) ==
    /\ placements' = [placements EXCEPT ![p] = None]
    /\ UNCHANGED <<nodeVars, workloads, ordinals, revocationVars>>

\* The placement that occupies slot s, if any, moves to key new_pod_id and the
\* slot record follows it.
ReassignPodId(s, new_pod_id) ==
    LET Occupied(p) == placements[p] # None /\ placements[p].slot = s IN
    /\ IF \E p \in PodId : Occupied(p)
       THEN LET old == CHOOSE p \in PodId : Occupied(p) IN
            /\ placements' = [placements EXCEPT ![old] = None,
                                                ![new_pod_id] = placements[old]]
            /\ ordinals' = [ordinals EXCEPT ![s] =
                               Assigned(new_pod_id, placements[old].node_id)]
       ELSE UNCHANGED <<placements, ordinals>>
    /\ UNCHANGED <<nodeVars, workloads, revocationVars>>

-----------------------------------------------------------------------------
NodeNext ==
    \E n \in Node :
      \/ \E c \in Capacity, now \in Time : RegisterNode(n, c, now)
      \/ \E b \in BOOLEAN : SetNodeSchedulable(n, b)
      \/ \E now \in Time : NodeHeartbeat(n, now)
      \/ \E taints \in SUBSET Taint : SetNodeTaints(n, taints)
      \/ \E t \in Taint : RemoveNodeTaint(n, t.key, t.effect)
      \/ \E expires_at \in Time : EvictNode(n, expires_at)

RevocationNext ==
    \/ \E cutoff \in Time : PruneExpiredRevokedSvids(cutoff)
    \/ \E d \in DelegationKey : IssueDelegation(d) \/ RevokeDelegation(d)

WorkloadNext ==
    \E w \in Workload :
      \/ DeleteWorkload(w)
      \/ \E spec \in WorkloadSpec :
            \/ SubmitWorkloadSpec(w, spec)
            \/ ScaleWorkload(w, spec)
            \/ ResizeWorkload(w, spec)

PlacementNext ==
    \E s \in Slot :
      \/ RecordOrdinalAssignment(s, Freed)
      \/ \E n \in Node : RecordOrdinalAssignment(s, Assigned(PodIdOf(s), n))
      \/ \E n \in Node, r \in Footprint : CommitPlacement(s, n, r)
      \/ RemovePlacement(PodIdOf(s))
      \/ ReassignPodId(s, PodIdOf(s))

FleetNext == NodeNext \/ RevocationNext \/ WorkloadNext \/ PlacementNext

FleetSpec == FleetInit /\ [][FleetNext]_fleetVars

-----------------------------------------------------------------------------
(* Properties of the open system.                                          *)

IsEvicted(n) == nodes[n] # None /\ nodes[n].status = "Evicted"

\* Holds nothing: no active delegation, no placement.
HoldsNothing(n) ==
    /\ DelegationsOf(n) = {}
    /\ \A p \in PodId : placements[p] # None => placements[p].node_id # n

(***************************************************************************)
(* Evicting a node is all or nothing: the step that marks a node evicted   *)
(* also takes away every delegation and every placement it had, files each *)
(* of those delegations as revoked and revokes the node's own SVID; no     *)
(* intermediate state is ever stored (EvictNode, "eviction + revocation    *)
(* commit atomically").                                                    *)
(***************************************************************************)
EvictionStep(n) ==
    /\ HoldsNothing(n)'
    /\ DelegationsOf(n) \subseteq revoked_delegations'
    /\ revoked_svids'[n] # None

EvictionCascade ==
    [][\A n \in Node : (~IsEvicted(n) /\ IsEvicted(n)') => EvictionStep(n)]_fleetVars

(***************************************************************************)
(* Only a registration brings an evicted node back: whatever heartbeats,   *)
(* cordons, taints and repeated evictions arrive late, the record stays    *)
(* evicted until RegisterNode replaces it as a whole.                      *)
(***************************************************************************)
Registered(rec) ==
    \E c \in Capacity, now \in Time :
        rec = [status |-> "Active", schedulable |-> TRUE,
               last_heartbeat |-> now, capacity |-> c]

OnlyRegistrationLiftsEviction ==
    [][\A n \in Node : (IsEvicted(n) /\ ~IsEvicted(n)') => Registered(nodes'[n])]_fleetVars

(***************************************************************************)
(* No delegation is ever lost track of: one that was issued stays active   *)
(* or is filed as revoked, and a revoked one stays filed.  Nothing but a   *)
(* revocation of the same node may take it off the active list.            *)
(***************************************************************************)
DelegationsAccounted ==
    [][/\ active_delegations \subseteq active_delegations' \cup revoked_delegations'
       /\ revoked_delegations \subseteq revoked_delegations']_fleetVars

(***************************************************************************)
(* Writing one workload's spec never disturbs another workload: the        *)
(* command that stores or deletes the spec of w changes placements and     *)
(* slot records of w only, although pod ids carry no tenant and two        *)
(* tenants may use the same workload name.                                 *)
(***************************************************************************)
Untouched(w) ==
    /\ \A p \in PodId :
          (placements[p] # None /\ WorkloadOf(placements[p].slot) # w)
             => placements'[p] = placements[p]
    /\ \A s \in Slot : WorkloadOf(s) # w => ordinals'[s] = ordinals[s]

WorkloadIsolation ==
    [][\A w \in Workload : workloads'[w] # workloads[w] => Untouched(w)]_fleetVars

=============================================================================
