-------------------------- MODULE PlacementProofs ---------------------------
(***************************************************************************)
(* FleetState for every fleet and any commands: every state is well typed, *)
(* and what a command may do.  PlacementControllers for every fleet and any *)
(* number of leader changes: its steps are commands of FleetState, its jobs *)
(* are well-formed, and every placement has a slot record.                 *)
(***************************************************************************)
EXTENDS PlacementControllers, TLAPS

\* Steps that name no prover are tried with Zenon, then with the SMT solver.
USE ZenonT(20), SMTT(30)

-----------------------------------------------------------------------------
(* Commands of the state machine.                                          *)

\* Removing placements and freeing their slots keeps both keyspaces well-typed.
LEMMA RemoveAndFreeType ==
    ASSUME TypeOK, NEW P \in SUBSET PodId, RemoveAndFree(P)
    PROVE  /\ placements' \in [PodId -> Placement \cup {None}]
           /\ ordinals' \in [Slot -> OrdinalAssignment \cup {None}]
  BY DEF TypeOK, RemoveAndFree, Without, OrdinalAssignment, Freed

\* The pods of a workload, or some of them, are pods.
LEMMA PodsOfType ==
    /\ \A w \in Workload : PodsOf(w) \in SUBSET PodId
    /\ \A w \in Workload, spec \in WorkloadSpec :
          {p \in PodsOf(w) : Excess(spec, placements[p].slot)} \in SUBSET PodsOf(w)
  BY DEF PodsOf

\* The name of a slot's pod is a pod id (pod_id of commit_scheduling).
LEMMA PodIdOfType == \A s \in Slot : PodIdOf(s) \in PodId
  BY DEF Slot, PodId, PodIdOf

\* The two forms of a slot record are slot records.
LEMMA AssignmentType ==
    /\ Freed \in OrdinalAssignment
    /\ \A p \in PodId, n \in Node : Assigned(p, n) \in OrdinalAssignment
  BY DEF Freed, Assigned, OrdinalAssignment

\* A record made for a node that nobody registered.
LEMMA UnknownNodeType ==
    ASSUME NEW st \in NodeStatus, NEW b \in BOOLEAN
    PROVE  UnknownNode(st, b) \in NodeRecord
  <1>1. 0 \in Time
    BY ConstantsAssumption, SMTT(30) DEF Time
  <1> QED
    BY <1>1 DEF NodeRecord, UnknownNode

\* A record some of whose fields a command overwrites.
LEMMA NodeRecordType ==
    ASSUME NEW r \in NodeRecord, NEW st \in NodeStatus, NEW b \in BOOLEAN,
           NEW now \in Time
    PROVE  /\ [r EXCEPT !.schedulable = b, !.status = st] \in NodeRecord
           /\ [r EXCEPT !.status = st, !.schedulable = b] \in NodeRecord
           /\ [r EXCEPT !.last_heartbeat = now] \in NodeRecord
  BY DEF NodeRecord

\* Every command keeps every keyspace well-typed.
LEMMA FleetTypeStep == TypeOK /\ [FleetNext]_fleetVars => TypeOK'
<1> SUFFICES ASSUME TypeOK, [FleetNext]_fleetVars PROVE TypeOK'
  OBVIOUS
<1> USE DEF nodeVars, placementVars, revocationVars
<1>1. CASE NodeNext
  <2>1. PICK n \in Node :
          \/ \E c \in Capacity, now \in Time : RegisterNode(n, c, now)
          \/ \E b \in BOOLEAN : SetNodeSchedulable(n, b)
          \/ \E now \in Time : NodeHeartbeat(n, now)
          \/ \E taints \in SUBSET Taint : SetNodeTaints(n, taints)
          \/ \E t \in Taint : RemoveNodeTaint(n, t.key, t.effect)
          \/ \E expires_at \in Time : EvictNode(n, expires_at)
    BY <1>1 DEF NodeNext
  <2>2. ASSUME NEW c \in Capacity, NEW now \in Time, RegisterNode(n, c, now)
        PROVE  TypeOK'
    BY <2>2 DEF TypeOK, RegisterNode, NodeRecord, NodeStatus
  <2>3. ASSUME NEW b \in BOOLEAN, SetNodeSchedulable(n, b)
        PROVE  TypeOK'
    <3>1. CASE nodes[n] = None
      <4>1. (IF b THEN "Active" ELSE "Cordoned") \in NodeStatus
        BY DEF NodeStatus
      <4> QED
        BY <2>3, <3>1, <4>1, UnknownNodeType DEF TypeOK, SetNodeSchedulable
    <3>2. CASE nodes[n] # None
      <4>1. nodes[n] \in NodeRecord
        BY <3>2 DEF TypeOK
      <4>2. WithSchedulable(nodes[n], b) \in NodeRecord
        BY <4>1 DEF NodeRecord, NodeStatus, WithSchedulable
      <4> QED
        BY <2>3, <3>2, <4>2 DEF TypeOK, SetNodeSchedulable
    <3> QED
      BY <3>1, <3>2
  <2>4. ASSUME NEW now \in Time, NodeHeartbeat(n, now)
        PROVE  TypeOK'
    <3>1. ASSUME nodes[n] # None
          PROVE  [nodes[n] EXCEPT !.last_heartbeat = now] \in NodeRecord
      <4>1. nodes[n] \in NodeRecord
        BY <3>1 DEF TypeOK
      <4> QED
        BY <4>1 DEF NodeRecord
    <3> QED
      BY <2>4, <3>1 DEF TypeOK, NodeHeartbeat
  <2>5. ASSUME NEW taints \in SUBSET Taint, SetNodeTaints(n, taints)
        PROVE  TypeOK'
    BY <2>5 DEF TypeOK, SetNodeTaints
  <2>6. ASSUME NEW t \in Taint, RemoveNodeTaint(n, t.key, t.effect)
        PROVE  TypeOK'
    BY <2>6 DEF TypeOK, RemoveNodeTaint
  <2>7. ASSUME NEW expires_at \in Time, EvictNode(n, expires_at)
        PROVE  TypeOK'
    <3>1. nodes' \in [Node -> NodeRecord \cup {None}]
      <4>1. "Evicted" \in NodeStatus
        BY DEF NodeStatus
      <4> QED
        BY <2>7, <4>1, NodeRecordType, UnknownNodeType DEF TypeOK, EvictNode
    <3>2. placements' \in [PodId -> Placement \cup {None}]
      BY <2>7 DEF TypeOK, EvictNode, Without
    <3> QED
      BY <2>7, <3>1, <3>2 DEF TypeOK, EvictNode, DelegationsOf
  <2> QED
    BY <2>1, <2>2, <2>3, <2>4, <2>5, <2>6, <2>7
<1>2. CASE RevocationNext
  BY <1>2 DEF TypeOK, RevocationNext, PruneExpiredRevokedSvids,
              IssueDelegation, RevokeDelegation
<1>3. CASE WorkloadNext
  <2>1. PICK w \in Workload :
          \/ DeleteWorkload(w)
          \/ \E spec \in WorkloadSpec :
                \/ SubmitWorkloadSpec(w, spec)
                \/ ScaleWorkload(w, spec)
                \/ ResizeWorkload(w, spec)
    BY <1>3 DEF WorkloadNext
  <2>2. CASE DeleteWorkload(w)
    BY <2>2, RemoveAndFreeType, PodsOfType DEF TypeOK, DeleteWorkload, StoreSpec
  <2>3. ASSUME NEW spec \in WorkloadSpec,
               \/ SubmitWorkloadSpec(w, spec)
               \/ ResizeWorkload(w, spec)
        PROVE  TypeOK'
    BY <2>3 DEF TypeOK, SubmitWorkloadSpec, ResizeWorkload, StoreSpec
  <2>4. ASSUME NEW spec \in WorkloadSpec, ScaleWorkload(w, spec)
        PROVE  TypeOK'
    BY <2>4, RemoveAndFreeType, PodsOfType DEF TypeOK, ScaleWorkload, StoreSpec
  <2> QED
    BY <2>1, <2>2, <2>3, <2>4
<1>4. CASE PlacementNext
  <2>1. PICK s \in Slot :
          \/ RecordOrdinalAssignment(s, Freed)
          \/ \E n \in Node : RecordOrdinalAssignment(s, Assigned(PodIdOf(s), n))
          \/ \E n \in Node, r \in Footprint : CommitPlacement(s, n, r)
          \/ RemovePlacement(PodIdOf(s))
          \/ ReassignPodId(s, PodIdOf(s))
    BY <1>4 DEF PlacementNext
  <2>2. ASSUME NEW a \in OrdinalAssignment, RecordOrdinalAssignment(s, a)
        PROVE  TypeOK'
    BY <2>2 DEF TypeOK, RecordOrdinalAssignment
  <2>3. ASSUME NEW n \in Node, NEW r \in Footprint, CommitPlacement(s, n, r)
        PROVE  TypeOK'
    BY <2>3, PodIdOfType DEF TypeOK, CommitPlacement, Placement
  <2>4. CASE RemovePlacement(PodIdOf(s))
    BY <2>4, PodIdOfType DEF TypeOK, RemovePlacement
  <2>5. CASE ReassignPodId(s, PodIdOf(s))
    <3> DEFINE Occupied(p) == placements[p] # None /\ placements[p].slot = s
               old == CHOOSE p \in PodId : Occupied(p)
    <3>1. CASE \E p \in PodId : Occupied(p)
      <4>1. old \in PodId /\ Occupied(old)
        BY <3>1
      <4>2. placements[old] \in Placement
        BY <4>1 DEF TypeOK
      <4>3. placements[old].node_id \in Node
        BY <4>2 DEF Placement
      <4>4. /\ placements' = [placements EXCEPT ![old] = None,
                                       ![PodIdOf(s)] = placements[old]]
            /\ ordinals' = [ordinals EXCEPT ![s] =
                               Assigned(PodIdOf(s), placements[old].node_id)]
        BY <2>5, <3>1 DEF ReassignPodId
      <4>5. placements' \in [PodId -> Placement \cup {None}]
        BY <4>2, <4>4 DEF TypeOK
      <4>6. ordinals' \in [Slot -> OrdinalAssignment \cup {None}]
        BY <4>3, <4>4, PodIdOfType, AssignmentType DEF TypeOK
      <4> QED
        BY <2>5, <4>5, <4>6 DEF TypeOK, ReassignPodId
    <3>2. CASE ~\E p \in PodId : Occupied(p)
      BY <2>5, <3>2 DEF TypeOK, ReassignPodId
    <3> QED
      BY <3>1, <3>2
  <2> QED
    BY <2>1, <2>2, <2>3, <2>4, <2>5, AssignmentType, PodIdOfType
<1>5. CASE UNCHANGED fleetVars
  BY <1>5 DEF TypeOK, fleetVars
<1> QED
  BY <1>1, <1>2, <1>3, <1>4, <1>5 DEF FleetNext

(***************************************************************************)
(* Type correctness: no sequence of commands stores a record of the wrong  *)
(* shape in any of the keyspaces (apply_command, all arms modelled here).  *)
(***************************************************************************)
THEOREM TypeCorrect == FleetSpec => []TypeOK
<1>1. FleetInit => TypeOK
  BY DEF FleetInit, TypeOK
<1> QED
  BY <1>1, FleetTypeStep, PTL DEF FleetSpec

-----------------------------------------------------------------------------
\* The commands that can change a node record, and those that cannot.
LEMMA NodesUntouched ==
    ASSUME RevocationNext \/ WorkloadNext \/ PlacementNext \/ UNCHANGED fleetVars
    PROVE  nodes' = nodes
  BY DEF RevocationNext, PruneExpiredRevokedSvids, IssueDelegation,
         RevokeDelegation, WorkloadNext, DeleteWorkload, SubmitWorkloadSpec,
         ScaleWorkload, ResizeWorkload, PlacementNext, RecordOrdinalAssignment,
         CommitPlacement, RemovePlacement, ReassignPodId, fleetVars, nodeVars

\* What a command does that evicts a node.
LEMMA EvictionCascadeStep ==
    TypeOK /\ [FleetNext]_fleetVars =>
        \A n \in Node : (~IsEvicted(n) /\ IsEvicted(n)') => EvictionStep(n)
<1> SUFFICES ASSUME TypeOK, [FleetNext]_fleetVars,
                    NEW n \in Node, ~IsEvicted(n), IsEvicted(n)'
             PROVE  EvictionStep(n)
  OBVIOUS
<1>1. nodes' # nodes
  BY DEF IsEvicted
<1>2. NodeNext
  BY <1>1, NodesUntouched DEF FleetNext
<1>3. PICK m \in Node :
        \/ \E c \in Capacity, now \in Time : RegisterNode(m, c, now)
        \/ \E b \in BOOLEAN : SetNodeSchedulable(m, b)
        \/ \E now \in Time : NodeHeartbeat(m, now)
        \/ \E taints \in SUBSET Taint : SetNodeTaints(m, taints)
        \/ \E t \in Taint : RemoveNodeTaint(m, t.key, t.effect)
        \/ \E expires_at \in Time : EvictNode(m, expires_at)
  BY <1>2 DEF NodeNext
<1>4. ASSUME NEW c \in Capacity, NEW now \in Time, RegisterNode(m, c, now)
      PROVE  FALSE
  BY <1>4 DEF RegisterNode, TypeOK, IsEvicted
<1>5. ASSUME NEW b \in BOOLEAN, SetNodeSchedulable(m, b)
      PROVE  FALSE
  <2>1. nodes[m] # None => WithSchedulable(nodes[m], b).status \in {"Active", nodes[m].status}
    BY DEF TypeOK, NodeRecord, WithSchedulable
  <2> QED
    BY <1>5, <2>1 DEF SetNodeSchedulable, TypeOK, IsEvicted, UnknownNode
<1>6. ASSUME NEW now \in Time, NodeHeartbeat(m, now)
      PROVE  FALSE
  BY <1>6 DEF NodeHeartbeat, TypeOK, IsEvicted, NodeRecord
<1>7. ASSUME NEW expires_at \in Time, EvictNode(m, expires_at)
      PROVE  EvictionStep(n)
  <2>1. m = n
    BY <1>7 DEF EvictNode, TypeOK, IsEvicted
  <2>2. revoked_svids'[n] # None
    BY <1>7, <2>1, NoneAssumption DEF EvictNode, TypeOK
  <2>3. HoldsNothing(n)'
    BY <1>7, <2>1 DEF EvictNode, TypeOK, HoldsNothing, Without, PodsOn, DelegationsOf
  <2> QED
    BY <1>7, <2>1, <2>2, <2>3 DEF EvictNode, EvictionStep
<1> QED
  BY <1>1, <1>3, <1>4, <1>5, <1>6, <1>7 DEF SetNodeTaints, RemoveNodeTaint

(***************************************************************************)
(* Eviction is atomic whatever else the fleet is doing: in every behaviour *)
(* the step that marks a node evicted removes all its delegations and      *)
(* placements, files the delegations as revoked and revokes its SVID.      *)
(***************************************************************************)
THEOREM EvictionIsAtomic == FleetSpec => EvictionCascade
  BY EvictionCascadeStep, TypeCorrect, PTL DEF FleetSpec, EvictionCascade

\* What a command does that brings an evicted node back.
LEMMA EvictionLiftStep ==
    TypeOK /\ [FleetNext]_fleetVars =>
        \A n \in Node : (IsEvicted(n) /\ ~IsEvicted(n)') => Registered(nodes'[n])
<1> SUFFICES ASSUME TypeOK, [FleetNext]_fleetVars,
                    NEW n \in Node, IsEvicted(n), ~IsEvicted(n)'
             PROVE  Registered(nodes'[n])
  OBVIOUS
<1>1. nodes' # nodes
  BY DEF IsEvicted
<1>2. NodeNext
  BY <1>1, NodesUntouched DEF FleetNext
<1>3. PICK m \in Node :
        \/ \E c \in Capacity, now \in Time : RegisterNode(m, c, now)
        \/ \E b \in BOOLEAN : SetNodeSchedulable(m, b)
        \/ \E now \in Time : NodeHeartbeat(m, now)
        \/ \E taints \in SUBSET Taint : SetNodeTaints(m, taints)
        \/ \E t \in Taint : RemoveNodeTaint(m, t.key, t.effect)
        \/ \E expires_at \in Time : EvictNode(m, expires_at)
  BY <1>2 DEF NodeNext
<1>4. ASSUME NEW c \in Capacity, NEW now \in Time, RegisterNode(m, c, now)
      PROVE  Registered(nodes'[n])
  BY <1>4 DEF RegisterNode, TypeOK, IsEvicted, Registered
<1>5. ASSUME NEW b \in BOOLEAN, SetNodeSchedulable(m, b)
      PROVE  FALSE
  <2>1. nodes[n] \in NodeRecord
    BY DEF TypeOK, IsEvicted
  <2>2. WithSchedulable(nodes[n], b).status = "Evicted"
    BY <2>1 DEF NodeRecord, WithSchedulable, IsEvicted
  <2>3. WithSchedulable(nodes[n], b) # None
    BY <2>1, NoneAssumption DEF NodeRecord, NodeStatus, WithSchedulable
  <2> QED
    BY <1>5, <2>2, <2>3 DEF SetNodeSchedulable, TypeOK, IsEvicted
<1>6. ASSUME NEW now \in Time, NodeHeartbeat(m, now)
      PROVE  FALSE
  <2>1. nodes[n] \in NodeRecord
    BY DEF TypeOK, IsEvicted
  <2>2. /\ [nodes[n] EXCEPT !.last_heartbeat = now] \in NodeRecord
        /\ [nodes[n] EXCEPT !.last_heartbeat = now].status = "Evicted"
    BY <2>1 DEF NodeRecord, IsEvicted
  <2> QED
    BY <1>6, <2>2, NoneAssumption DEF NodeHeartbeat, TypeOK, IsEvicted
<1>7. ASSUME NEW expires_at \in Time, EvictNode(m, expires_at)
      PROVE  FALSE
  <2>1. nodes[n] \in NodeRecord
    BY DEF TypeOK, IsEvicted
  <2>2. /\ [nodes[n] EXCEPT !.status = "Evicted", !.schedulable = FALSE] \in NodeRecord
        /\ [nodes[n] EXCEPT !.status = "Evicted", !.schedulable = FALSE].status = "Evicted"
    BY <2>1 DEF NodeRecord, NodeStatus
  <2> QED
    BY <1>7, <2>2, NoneAssumption DEF EvictNode, TypeOK, IsEvicted
<1> QED
  BY <1>1, <1>3, <1>4, <1>5, <1>6, <1>7 DEF SetNodeTaints, RemoveNodeTaint

(***************************************************************************)
(* An evicted node stays evicted until it registers again: no late         *)
(* heartbeat, cordon, taint or second eviction revives its record.         *)
(***************************************************************************)
THEOREM EvictionIsSticky == FleetSpec => OnlyRegistrationLiftsEviction
  BY EvictionLiftStep, TypeCorrect, PTL DEF FleetSpec, OnlyRegistrationLiftsEviction

\* What a command does to the delegations.
LEMMA DelegationStep ==
    [FleetNext]_fleetVars =>
        /\ active_delegations \subseteq active_delegations' \cup revoked_delegations'
        /\ revoked_delegations \subseteq revoked_delegations'
<1> DEFINE A == /\ active_delegations \subseteq active_delegations' \cup revoked_delegations'
                /\ revoked_delegations \subseteq revoked_delegations'
<1> SUFFICES ASSUME [FleetNext]_fleetVars PROVE A
  OBVIOUS
<1> USE DEF revocationVars
<1>1. CASE NodeNext
  BY <1>1 DEF NodeNext, RegisterNode, SetNodeSchedulable, NodeHeartbeat,
              SetNodeTaints, RemoveNodeTaint, EvictNode, DelegationsOf
<1>2. CASE RevocationNext
  BY <1>2 DEF RevocationNext, PruneExpiredRevokedSvids, IssueDelegation,
              RevokeDelegation
<1>3. CASE WorkloadNext
  BY <1>3 DEF WorkloadNext, DeleteWorkload, SubmitWorkloadSpec,
              ScaleWorkload, ResizeWorkload
<1>4. CASE PlacementNext
  BY <1>4 DEF PlacementNext, RecordOrdinalAssignment, CommitPlacement,
              RemovePlacement, ReassignPodId
<1>5. CASE UNCHANGED fleetVars
  BY <1>5 DEF fleetVars
<1> QED
  BY <1>1, <1>2, <1>3, <1>4, <1>5 DEF FleetNext

(***************************************************************************)
(* No command ever loses a delegation: it is active until it is filed as   *)
(* revoked, and stays filed (IssueDelegation, RevokeDelegation and the     *)
(* cascade of EvictNode are the only writers).                             *)
(***************************************************************************)
THEOREM NoDelegationLost == FleetSpec => DelegationsAccounted
  BY DelegationStep, PTL DEF FleetSpec, DelegationsAccounted

\* Removing placements of w frees slots of w only and keeps the others'.
LEMMA RemoveAndFreeIsLocal ==
    ASSUME TypeOK, NEW w \in Workload, NEW P \in SUBSET PodsOf(w), RemoveAndFree(P)
    PROVE  Untouched(w)
  BY DEF TypeOK, RemoveAndFree, Without, PodsOf, Untouched

\* What a command that stores a spec does to other workloads.
LEMMA IsolationStep ==
    TypeOK /\ [FleetNext]_fleetVars =>
        \A w \in Workload : workloads'[w] # workloads[w] => Untouched(w)
<1> SUFFICES ASSUME TypeOK, [FleetNext]_fleetVars,
                    NEW w \in Workload, workloads'[w] # workloads[w]
             PROVE  Untouched(w)
  OBVIOUS
<1>1. ~(NodeNext \/ RevocationNext \/ PlacementNext \/ UNCHANGED fleetVars)
  <2> USE DEF placementVars
  <2>1. ~NodeNext
    BY DEF NodeNext, RegisterNode, SetNodeSchedulable, NodeHeartbeat,
           SetNodeTaints, RemoveNodeTaint, EvictNode
  <2>2. ~RevocationNext
    BY DEF RevocationNext, PruneExpiredRevokedSvids, IssueDelegation,
           RevokeDelegation
  <2>3. ~PlacementNext
    BY DEF PlacementNext, RecordOrdinalAssignment, CommitPlacement,
           RemovePlacement, ReassignPodId
  <2> QED
    BY <2>1, <2>2, <2>3 DEF fleetVars
<1>2. PICK v \in Workload :
        \/ DeleteWorkload(v)
        \/ \E spec \in WorkloadSpec :
              \/ SubmitWorkloadSpec(v, spec)
              \/ ScaleWorkload(v, spec)
              \/ ResizeWorkload(v, spec)
  BY <1>1 DEF FleetNext, WorkloadNext
<1>3. v = w
  BY <1>2 DEF TypeOK, DeleteWorkload, SubmitWorkloadSpec, ScaleWorkload,
              ResizeWorkload, StoreSpec
<1>4. CASE DeleteWorkload(v)
  BY <1>3, <1>4, RemoveAndFreeIsLocal DEF DeleteWorkload
<1>5. ASSUME NEW spec \in WorkloadSpec, ScaleWorkload(v, spec)
      PROVE  Untouched(w)
  BY <1>3, <1>5, RemoveAndFreeIsLocal, PodsOfType DEF ScaleWorkload
<1>6. ASSUME NEW spec \in WorkloadSpec,
             SubmitWorkloadSpec(v, spec) \/ ResizeWorkload(v, spec)
      PROVE  Untouched(w)
  BY <1>6 DEF SubmitWorkloadSpec, ResizeWorkload, Untouched
<1> QED
  BY <1>2, <1>4, <1>5, <1>6

(***************************************************************************)
(* Tenants do not disturb each other through their specs: storing, scaling *)
(* or deleting one workload leaves the placements and slot records of      *)
(* every other workload as they were, although pod ids carry no tenant.    *)
(***************************************************************************)
THEOREM WorkloadsAreIsolated == FleetSpec => WorkloadIsolation
  BY IsolationStep, TypeCorrect, PTL DEF FleetSpec, WorkloadIsolation

-----------------------------------------------------------------------------
(* The controllers that propose them.                                      *)

\* Every placement, under whatever key, has a slot record.
AllRecorded ==
    \A p \in PodId : placements[p] # None => ordinals[placements[p].slot] # None

\* A job that is about to commit a placement has recorded the slot before.
Recorded(j, k) ==
    (j.kind = "place" /\ j.victims = {} /\ k = 2) => ordinals[j.slot] # None

\* The inductive invariant.
PInv ==
    /\ ControllersTypeOK
    /\ (behind \/ failovers < MaxFailovers) => replica # None
    /\ AllRecorded
    /\ \A q \in Proposer : cur[q] # None => Recorded(cur[q], step[q])
    /\ \A o \in orphans : Recorded(o[1], o[2])

-----------------------------------------------------------------------------
(* What proposers read and what they make of it.                           *)

\* A read returns well-typed keyspaces, from the leader's or a lagging replica.
LEMMA AppliedType == ASSUME TypeOK PROVE Applied \in View /\ Applied # None
<1>1. Applied \in View
  BY DEF TypeOK, Applied, View
<1> QED
  BY <1>1, ViewAssumption

\* What a leader reads is a state of the fleet, also while it lags.
LEMMA SeenType == ASSUME PInv PROVE Seen \in View
<1>1. Applied \in View
  BY AppliedType DEF PInv, ControllersTypeOK
<1>2. behind => replica \in View
  BY DEF PInv, ControllersTypeOK
<1> QED
  BY <1>1, <1>2 DEF Seen

\* The kind of a job says which fields it has.
LEMMA JobKinds ==
    ASSUME NEW j \in Job
    PROVE  /\ j.kind = "place" => j \in PlaceJob
           /\ j.kind = "vacate" => j \in VacateJob
           /\ j.kind = "resize" => j \in ResizeJob
           /\ j.kind \in {"scale", "trigger"} => j \in SpecJob
           /\ j.kind = "reassign" => j \in ReassignJob
           /\ j.kind \in {"expire", "evict", "cordon"} => j \in NodeJob
  BY DEF Job, PlaceJob, VacateJob, ResizeJob, SpecJob, ReassignJob, NodeJob

\* The slot of a placement that was read is a slot.
LEMMA PlacedSlot ==
    ASSUME NEW v \in View, NEW p \in PodId, v.placements[p] # None
    PROVE  v.placements[p].slot \in Slot
<1>1. v.placements[p] \in Placement
  BY DEF View
<1> QED
  BY <1>1 DEF Placement

\* A slot belongs to a workload.
LEMMA WorkloadOfType == \A s \in Slot : WorkloadOf(s) \in Workload
  BY DEF Slot, Workload, WorkloadOf

\* A preemption plan names a node and placed pods.
LEMMA PlanType ==
    ASSUME NEW v \in View, NEW specs, NEW s,
           NEW plan \in FindPreemptionPlan(v, specs, s)
    PROVE  /\ plan.node \in Node
           /\ \A p \in plan.victims : p \in PodId /\ v.placements[p] # None
<1>1. plan \in PreemptionPlans(v, specs, s)
  BY DEF FindPreemptionPlan
<1>2. PICK n \in Node : \E V \in VictimSets(v, specs, specs[WorkloadOf(s)], n) :
         plan = [node |-> n, victims |-> V]
  BY <1>1 DEF PreemptionPlans
<1>3. PICK V \in VictimSets(v, specs, specs[WorkloadOf(s)], n) :
         plan = [node |-> n, victims |-> V]
  BY <1>2
<1>4. V \subseteq PlacedOn(v, n)
  BY <1>3 DEF VictimSets
<1> QED
  BY <1>2, <1>3, <1>4 DEF PlacedOn

\* Scheduling one slot ends in a node, a preemption plan or nothing.
LEMMA DecisionType ==
    ASSUME NEW v \in View, NEW specs, NEW s
    PROVE  Decisions(v, specs, s) \subseteq Decision \cup {None}
<1> DEFINE spec  == specs[WorkloadOf(s)]
           plans == IF spec.priority > 0 THEN FindPreemptionPlan(v, specs, s) ELSE {}
<1>1. \A n \in Candidates(v, spec, s) : [node |-> n, victims |-> {}, pass |-> 3] \in Decision
  <2>1. Candidates(v, spec, s) \subseteq Node
    BY DEF Candidates
  <2> QED
    BY <2>1 DEF Decision
<1>2. ASSUME NEW plan \in plans
      PROVE  [node |-> plan.node, victims |-> {v.placements[p].slot : p \in plan.victims},
              pass |-> 4] \in Decision
  <2>1. plan \in FindPreemptionPlan(v, specs, s)
    BY <1>2
  <2>2. plan.node \in Node
    BY <2>1, PlanType
  <2>3. {v.placements[p].slot : p \in plan.victims} \in SUBSET Slot
    BY <2>1, PlanType, PlacedSlot
  <2> QED
    BY <2>2, <2>3 DEF Decision
<1> QED
  BY <1>1, <1>2 DEF Decisions

\* A reconcile pass makes well-formed jobs.
LEMMA ScheduleType ==
    ASSUME NEW v \in View, NEW specs \in [Workload -> WorkloadSpec \cup {None}],
           NEW d \in Schedules(v, specs)
    PROVE  ReconcileJobs(specs, d) \in SUBSET PlaceJob
<1> SUFFICES ASSUME NEW s \in DOMAIN d, d[s] # None
             PROVE  Place(specs, s, d[s]) \in PlaceJob
  BY DEF ReconcileJobs
<1>1. s \in Pending(v, specs) /\ d[s] \in Decisions(v, specs, s)
  BY DEF Schedules
<1>2. d[s] \in Decision
  BY <1>1, DecisionType
<1>3. s \in Slot /\ specs[WorkloadOf(s)] # None
  BY <1>1 DEF Pending
<1>4. specs[WorkloadOf(s)] \in WorkloadSpec
  BY <1>3, WorkloadOfType
<1>5. specs[WorkloadOf(s)].footprint \in Footprint /\ specs[WorkloadOf(s)].priority \in Priority
  BY <1>4 DEF WorkloadSpec
<1> QED
  BY <1>2, <1>3, <1>5 DEF Place, PlaceJob, Decision

-----------------------------------------------------------------------------
(* What the commands do to slot records and placements.                    *)

\* No command removes a slot record.
LEMMA RecordsStay ==
    ASSUME TypeOK, [FleetNext]_fleetVars, NEW s \in Slot, ordinals[s] # None
    PROVE  ordinals'[s] # None
<1> USE DEF placementVars
<1>1. Freed # None
  BY AssignmentType, NoneAssumption
<1>2. \A p \in PodId, n \in Node : Assigned(p, n) # None
  BY AssignmentType, NoneAssumption
<1>3. CASE NodeNext
  BY <1>3 DEF NodeNext, RegisterNode, SetNodeSchedulable, NodeHeartbeat,
              SetNodeTaints, RemoveNodeTaint, EvictNode
<1>4. CASE RevocationNext
  BY <1>4 DEF RevocationNext, PruneExpiredRevokedSvids, IssueDelegation, RevokeDelegation
<1>5. CASE WorkloadNext
  <2>1. \A P : RemoveAndFree(P) => ordinals'[s] # None
    BY <1>1 DEF RemoveAndFree
  <2> QED
    BY <1>5, <2>1 DEF WorkloadNext, DeleteWorkload, SubmitWorkloadSpec,
                      ScaleWorkload, ResizeWorkload
<1>6. CASE PlacementNext
  <2>1. PICK t \in Slot :
          \/ RecordOrdinalAssignment(t, Freed)
          \/ \E n \in Node : RecordOrdinalAssignment(t, Assigned(PodIdOf(t), n))
          \/ \E n \in Node, r \in Footprint : CommitPlacement(t, n, r)
          \/ RemovePlacement(PodIdOf(t))
          \/ ReassignPodId(t, PodIdOf(t))
    BY <1>6 DEF PlacementNext
  <2>2. ASSUME NEW a, a # None, RecordOrdinalAssignment(t, a)
        PROVE  ordinals'[s] # None
    BY <2>2 DEF RecordOrdinalAssignment, TypeOK
  <2>3. CASE ReassignPodId(t, PodIdOf(t))
    <3> DEFINE Occupied(p) == placements[p] # None /\ placements[p].slot = t
               old == CHOOSE p \in PodId : Occupied(p)
    <3>1. CASE \E p \in PodId : Occupied(p)
      <4>1. old \in PodId /\ Occupied(old)
        BY <3>1
      <4>2. placements[old].node_id \in Node
        BY <4>1 DEF TypeOK, Placement
      <4>3. ordinals' = [ordinals EXCEPT ![t] = Assigned(PodIdOf(t), placements[old].node_id)]
        BY <2>3, <3>1 DEF ReassignPodId
      <4> QED
        BY <1>2, <4>2, <4>3, PodIdOfType DEF TypeOK
    <3>2. CASE ~\E p \in PodId : Occupied(p)
      BY <2>3, <3>2 DEF ReassignPodId
    <3> QED
      BY <3>1, <3>2
  <2> QED
    BY <1>1, <1>2, <2>1, <2>2, <2>3, PodIdOfType DEF CommitPlacement, RemovePlacement
<1>7. CASE UNCHANGED fleetVars
  BY <1>7 DEF fleetVars
<1> QED
  BY <1>3, <1>4, <1>5, <1>6, <1>7 DEF FleetNext

\* A step after which every placement has the slot of an earlier one, or a slot
\* that is recorded, leaves every placement recorded.
LEMMA PlacedStay ==
    ASSUME TypeOK, [FleetNext]_fleetVars, AllRecorded,
           \A p \in PodId : placements'[p] # None =>
               \/ \E q \in PodId : /\ placements[q] # None
                                   /\ placements'[p].slot = placements[q].slot
               \/ placements'[p].slot \in Slot /\ ordinals[placements'[p].slot] # None
    PROVE  AllRecorded'
<1> SUFFICES ASSUME NEW p \in PodId, placements'[p] # None
             PROVE  ordinals'[placements'[p].slot] # None
  BY DEF AllRecorded
<1>1. \A q \in PodId : placements[q] # None => placements[q].slot \in Slot
  BY DEF TypeOK, Placement
<1>2. placements'[p].slot \in Slot /\ ordinals[placements'[p].slot] # None
  BY <1>1 DEF AllRecorded
<1> QED
  BY <1>2, RecordsStay

\* Commands that commit no placement.
LEMMA OtherCommands ==
    ASSUME TypeOK, AllRecorded,
           \/ NodeNext \/ RevocationNext \/ WorkloadNext
           \/ \E s \in Slot :
                \/ RecordOrdinalAssignment(s, Freed)
                \/ \E n \in Node : RecordOrdinalAssignment(s, Assigned(PodIdOf(s), n))
                \/ RemovePlacement(PodIdOf(s))
                \/ ReassignPodId(s, PodIdOf(s))
    PROVE  FleetNext /\ AllRecorded'
<1> USE DEF placementVars
<1>1. FleetNext
  BY DEF FleetNext, PlacementNext
<1> SUFFICES AllRecorded'
  BY <1>1
<1>2. (\A p \in PodId : placements'[p] \in {placements[p], None}) => AllRecorded'
  BY <1>1, PlacedStay
<1>2a. \A P : placements' = Without(P) => AllRecorded'
  <2> SUFFICES ASSUME NEW P, placements' = Without(P) PROVE AllRecorded'
    OBVIOUS
  <2>1. \A p \in PodId : placements'[p] \in {placements[p], None}
    BY DEF Without
  <2> QED
    BY <1>2, <2>1
<1>2b. placements' = placements => AllRecorded'
  BY <1>2
<1>3. CASE NodeNext
  <2>1. placements' = placements \/ \E n \in Node : placements' = Without(PodsOn(n))
    BY <1>3 DEF NodeNext, RegisterNode, SetNodeSchedulable, NodeHeartbeat,
                SetNodeTaints, RemoveNodeTaint, EvictNode
  <2> QED
    BY <1>2a, <1>2b, <2>1
<1>4. CASE RevocationNext
  <2>1. placements' = placements
    BY <1>4 DEF RevocationNext, PruneExpiredRevokedSvids, IssueDelegation, RevokeDelegation
  <2> QED
    BY <1>2b, <2>1
<1>5. CASE WorkloadNext
  <2>1. placements' = placements \/ \E P : placements' = Without(P)
    BY <1>5 DEF WorkloadNext, DeleteWorkload, SubmitWorkloadSpec,
                ScaleWorkload, ResizeWorkload, RemoveAndFree
  <2> QED
    BY <1>2a, <1>2b, <2>1
<1>6. ASSUME NEW s \in Slot,
             \/ \E a : RecordOrdinalAssignment(s, a)
             \/ RemovePlacement(PodIdOf(s))
      PROVE  AllRecorded'
  BY <1>2, <1>6, PodIdOfType DEF RecordOrdinalAssignment, RemovePlacement, TypeOK
<1>7. ASSUME NEW s \in Slot, ReassignPodId(s, PodIdOf(s))
      PROVE  AllRecorded'
  <2> DEFINE Occupied(p) == placements[p] # None /\ placements[p].slot = s
             old == CHOOSE p \in PodId : Occupied(p)
  <2>1. CASE \E p \in PodId : Occupied(p)
    <3>1. old \in PodId /\ Occupied(old)
      BY <2>1
    <3>2. placements' = [placements EXCEPT ![old] = None, ![PodIdOf(s)] = placements[old]]
      BY <1>7, <2>1 DEF ReassignPodId
    <3>3. \A p \in PodId : placements'[p] \in {placements[p], None, placements[old]}
      BY <3>1, <3>2, PodIdOfType DEF TypeOK
    <3> QED
      BY <1>1, <3>1, <3>3, PlacedStay
  <2>2. CASE ~\E p \in PodId : Occupied(p)
    BY <1>2, <1>7, <2>2 DEF ReassignPodId
  <2> QED
    BY <2>1, <2>2
<1> QED
  BY <1>1, <1>3, <1>4, <1>5, <1>6, <1>7

\* Committing the placement of a recorded slot.
LEMMA CommitCommand ==
    ASSUME TypeOK, AllRecorded, NEW s \in Slot, NEW n \in Node, NEW r \in Footprint,
           CommitPlacement(s, n, r), ordinals[s] # None
    PROVE  FleetNext /\ AllRecorded'
<1>1. FleetNext
  BY DEF FleetNext, PlacementNext
<1>2. \A p \in PodId : placements'[p] = placements[p] \/ placements'[p].slot = s
  BY PodIdOfType DEF CommitPlacement, TypeOK
<1> QED
  BY <1>1, <1>2, PlacedStay

-----------------------------------------------------------------------------
(* Carrying out a job.                                                     *)

\* Each step of a job is a command that leaves every placement recorded.
LEMMA CarryCommand ==
    ASSUME TypeOK, AllRecorded, NEW j \in Job, NEW k \in 1 .. 3, Recorded(j, k), Carry(j, k)
    PROVE  FleetNext /\ AllRecorded'
<1>1. \A s \in Slot : \A i : Vacate(s, i) => FleetNext /\ AllRecorded'
  BY OtherCommands DEF Vacate
<1>2. CASE j.kind = "place" /\ j.victims # {} /\ Vacate(Victim(j), k)
  <2>1. Victim(j) \in Slot
    BY <1>2, JobKinds DEF Victim, PlaceJob
  <2> QED
    BY <1>1, <1>2, <2>1
<1>3. CASE j.kind = "place" /\ j.victims = {} /\ CommitScheduling(j, k)
  <2>1. j.slot \in Slot /\ j.node \in Node /\ j.resources \in Footprint
    BY <1>3, JobKinds DEF PlaceJob
  <2>2. CASE RecordOrdinalAssignment(j.slot, Assigned(PodIdOf(j.slot), j.node))
    BY <2>1, <2>2, OtherCommands
  <2>3. CASE k = 2 /\ CommitPlacement(j.slot, j.node, j.resources)
    BY <1>3, <2>1, <2>3, CommitCommand DEF Recorded
  <2> QED
    BY <1>3, <2>2, <2>3 DEF CommitScheduling
<1>4. CASE j.kind = "vacate" /\ Vacate(j.slot, k)
  <2>1. j.slot \in Slot
    BY <1>4, JobKinds DEF VacateJob
  <2> QED
    BY <1>1, <1>4, <2>1
<1>5. CASE j.kind = "resize" /\ ReplaceStalePod(j, k)
  <2>1. j.slot \in Slot /\ j.spec \in WorkloadSpec
    BY <1>5, JobKinds DEF ResizeJob
  <2>2. WorkloadOf(j.slot) \in Workload
    BY <2>1, WorkloadOfType
  <2>3. CASE ResizeWorkload(WorkloadOf(j.slot), j.spec)
    <3>1. WorkloadNext
      BY <2>1, <2>2, <2>3 DEF WorkloadNext
    <3> QED
      BY <3>1, OtherCommands
  <2>4. CASE RecordOrdinalAssignment(j.slot, Freed) \/ RemovePlacement(PodIdOf(j.slot))
    BY <2>1, <2>4, OtherCommands
  <2> QED
    BY <1>5, <2>3, <2>4 DEF ReplaceStalePod
<1>6. CASE j.kind = "reassign" /\ ReassignPodId(j.slot, PodIdOf(j.slot))
  <2>1. j.slot \in Slot
    BY <1>6, JobKinds DEF ReassignJob
  <2> QED
    BY <1>6, <2>1, OtherCommands
<1>7. CASE \/ j.kind = "scale" /\ ScaleWorkload(j.workload, j.spec)
           \/ j.kind = "trigger" /\ SubmitWorkloadSpec(j.workload, j.spec)
  <2>1. j.workload \in Workload /\ j.spec \in WorkloadSpec
    BY <1>7, JobKinds DEF SpecJob
  <2>2. WorkloadNext
    BY <1>7, <2>1 DEF WorkloadNext
  <2> QED
    BY <2>2, OtherCommands
<1>8. CASE \/ j.kind = "cordon" /\ SetNodeSchedulable(j.node, FALSE)
           \/ j.kind = "evict" /\ EvictNode(j.node, MaxTime)
           \/ j.kind = "expire" /\ ExpireNode(j.node, k)
  <2>1. j.node \in Node
    BY <1>8, JobKinds DEF NodeJob
  <2>2. MaxTime \in Time /\ 0 \in Time
    BY ConstantsAssumption, SMTT(30) DEF Time
  <2>3. NodeNext \/ RevocationNext
    BY <1>8, <2>1, <2>2 DEF NodeNext, RevocationNext, ExpireNode
  <2> QED
    BY <2>3, OtherCommands
<1> QED
  BY <1>2, <1>3, <1>4, <1>5, <1>6, <1>7, <1>8 DEF Carry

-----------------------------------------------------------------------------
(* Steps of the proposers.                                                 *)

\* Going on with a set of well-formed jobs, q stands before its first command.
LEMMA TakeType ==
    ASSUME ControllersTypeOK, NEW q \in Proposer, NEW jobs \in SUBSET Job, Take(q, jobs)
    PROVE  /\ todo' \in [Proposer -> SUBSET Job]
           /\ cur' \in [Proposer -> Job \cup {None}]
           /\ step' \in [Proposer -> 1 .. 3]
           /\ step'[q] = 1
           /\ \A r \in Proposer \ {q} : cur'[r] = cur[r] /\ step'[r] = step[r]
<1>1. PICK j \in Job \cup {None} :
        /\ cur' = [cur EXCEPT ![q] = j]
        /\ todo' = [todo EXCEPT ![q] = jobs \ {j}]
  BY DEF Take
<1>2. step' = [step EXCEPT ![q] = 1]
  BY SMTT(30) DEF Take
<1> QED
  BY <1>1, <1>2, SMTT(30) DEF ControllersTypeOK

\* A proposer that starts on a batch of well-formed jobs.
LEMMA StartStep ==
    ASSUME PInv, NEW q \in Proposer, NEW jobs \in SUBSET Job, StartBatch(q, jobs),
           triggered' \in SpecJob \cup {None},
           enforcing' \in [Node -> SUBSET Taint],
           ops' \in 0 .. MaxOps
    PROVE  PInv' /\ UNCHANGED fleetVars
<1> USE DEF leaderVars
<1>1. UNCHANGED <<fleetVars, orphans, replica, behind, failovers>> /\ Take(q, jobs)
  BY DEF StartBatch
<1>2. UNCHANGED <<nodes, node_taints, workloads, ordinals, placements,
                  active_delegations, revoked_delegations, revoked_svids>>
  BY <1>1 DEF fleetVars, nodeVars, placementVars, revocationVars
<1>3. ControllersTypeOK'
  BY <1>1, <1>2, TakeType DEF PInv, ControllersTypeOK, TypeOK
<1>4. AllRecorded'
  BY <1>2 DEF PInv, AllRecorded
<1>5. ASSUME NEW r \in Proposer, cur'[r] # None
      PROVE  Recorded(cur[r], step[r])'
  <2>1. CASE r = q
    <3>1. step'[q] = 1
      BY <1>1, TakeType DEF PInv
    <3> QED
      BY <2>1, <3>1, SMTT(30) DEF Recorded
  <2>2. CASE r # q
    <3>1. cur'[r] = cur[r] /\ step'[r] = step[r]
      BY <1>1, <2>2, TakeType DEF PInv
    <3> QED
      BY <1>2, <1>5, <3>1 DEF PInv, Recorded
  <2> QED
    BY <2>1, <2>2
<1>6. \A o \in orphans' : Recorded(o[1], o[2])'
  BY <1>1, <1>2 DEF PInv, Recorded
<1> QED
  BY <1>1, <1>3, <1>4, <1>5, <1>6 DEF PInv

\* A step that leaves the jobs and the state machine alone.
LEMMA QuietStep ==
    ASSUME PInv, UNCHANGED <<fleetVars, leaderVars, todo, cur, step>>,
           triggered' \in SpecJob \cup {None},
           enforcing' \in [Node -> SUBSET Taint],
           ops' \in 0 .. MaxOps
    PROVE  PInv'
<1>1. UNCHANGED <<nodes, node_taints, workloads, ordinals, placements,
                  active_delegations, revoked_delegations, revoked_svids,
                  orphans, replica, behind, failovers, todo, cur, step>>
  BY DEF fleetVars, nodeVars, placementVars, revocationVars, leaderVars
<1>2. ControllersTypeOK'
  BY <1>1 DEF PInv, ControllersTypeOK, TypeOK
<1> QED
  BY <1>1, <1>2 DEF PInv, AllRecorded, Recorded

\* A command that is applied for q, after which q goes on.
LEMMA AwaitStep ==
    ASSUME PInv, NEW q \in Proposer, Await(q)
    PROVE  PInv' /\ FleetNext
<1> DEFINE j == cur[q]
<1> USE DEF leaderVars
<1>1. j \in Job /\ step[q] \in 1 .. 3
  BY DEF Await, PInv, ControllersTypeOK
<1>2. Recorded(j, step[q]) /\ Carry(j, step[q]) /\ TypeOK /\ AllRecorded
  BY DEF Await, PInv, ControllersTypeOK
<1>3. FleetNext /\ AllRecorded'
  BY <1>1, <1>2, CarryCommand
<1>4. TypeOK'
  BY <1>2, <1>3, FleetTypeStep
<1>5. UNCHANGED <<enforcing, orphans, replica, behind, failovers, ops>>
  BY DEF Await
<1>6. /\ todo' \in [Proposer -> SUBSET Job]
      /\ cur' \in [Proposer -> Job \cup {None}]
      /\ step' \in [Proposer -> 1 .. 3]
      /\ triggered' \in SpecJob \cup {None}
      /\ cur'[q] # None => Recorded(cur[q], step[q])'
      /\ \A r \in Proposer \ {q} : cur'[r] = cur[r] /\ step'[r] = step[r]
  <2>1. CASE /\ step[q] < Steps(j)
             /\ step' = [step EXCEPT ![q] = @ + 1]
             /\ UNCHANGED <<todo, cur, triggered>>
    <3>1. Steps(j) \in 1 .. 3
      BY SMTT(30) DEF Steps
    <3>2. step[q] + 1 \in 1 .. 3
      BY <1>1, <2>1, <3>1, SMTT(30)
    <3>3. step' \in [Proposer -> 1 .. 3] /\ step'[q] = step[q] + 1 /\ cur'[q] = j
      BY <2>1, <3>2, SMTT(30) DEF PInv, ControllersTypeOK
    <3>4. Recorded(cur[q], step[q])'
      <4> SUFFICES ASSUME j.kind = "place", j.victims = {}, step[q] = 1
                   PROVE  ordinals'[j.slot] # None
        BY <1>1, <3>3, SMTT(30) DEF Recorded
      <4>1. j.slot \in Slot /\ j.node \in Node
        BY <1>1, JobKinds DEF PlaceJob
      <4>2. RecordOrdinalAssignment(j.slot, Assigned(PodIdOf(j.slot), j.node))
        <5>1. CommitScheduling(j, 1)
          BY <1>2 DEF Carry
        <5> QED
          BY <5>1, SMTT(30) DEF CommitScheduling
      <4>3. Assigned(PodIdOf(j.slot), j.node) # None
        BY <4>1, PodIdOfType, AssignmentType, NoneAssumption
      <4> QED
        BY <1>2, <4>1, <4>2, <4>3 DEF RecordOrdinalAssignment, TypeOK
    <3> QED
      BY <2>1, <3>3, <3>4 DEF PInv, ControllersTypeOK
  <2>2. CASE /\ j.kind = "place" /\ j.victims # {}
             /\ cur' = [cur EXCEPT ![q].victims = @ \ {Victim(j)}]
             /\ step' = [step EXCEPT ![q] = 1]
             /\ UNCHANGED <<todo, triggered>>
    <3>1. [j EXCEPT !.victims = @ \ {Victim(j)}] \in Job
      BY <1>1, <2>2, JobKinds DEF PlaceJob, Job
    <3>2. cur' = [cur EXCEPT ![q] = [j EXCEPT !.victims = @ \ {Victim(j)}]]
      BY <2>2
    <3>3. step'[q] = 1 /\ step' \in [Proposer -> 1 .. 3]
      BY <2>2, SMTT(30) DEF PInv, ControllersTypeOK
    <3> QED
      BY <2>2, <3>1, <3>2, <3>3, SMTT(30) DEF PInv, ControllersTypeOK, Recorded
  <2>3. CASE /\ Take(q, todo[q])
             /\ triggered' = IF j.kind = "trigger" THEN j ELSE triggered
    <3>1. todo[q] \in SUBSET Job /\ ControllersTypeOK
      BY DEF PInv, ControllersTypeOK
    <3>2. triggered' \in SpecJob \cup {None}
      BY <1>1, <2>3, <3>1, JobKinds DEF ControllersTypeOK
    <3>3. step'[q] = 1
      BY <2>3, <3>1, TakeType
    <3> QED
      BY <2>3, <3>1, <3>2, <3>3, TakeType, SMTT(30) DEF Recorded
  <2> QED
    BY <2>1, <2>2, <2>3 DEF Await
<1>7. ControllersTypeOK'
  BY <1>4, <1>5, <1>6 DEF PInv, ControllersTypeOK
<1>8. ASSUME NEW r \in Proposer, cur'[r] # None
      PROVE  Recorded(cur[r], step[r])'
  <2>1. CASE r = q
    BY <1>6, <1>8, <2>1
  <2>2. CASE r # q
    <3>1. cur'[r] = cur[r] /\ step'[r] = step[r]
      BY <1>6, <2>2
    <3>2. cur[r] \in Job /\ Recorded(cur[r], step[r])
      BY <1>8, <3>1 DEF PInv, ControllersTypeOK
    <3>3. cur[r].kind = "place" => cur[r].slot \in Slot
      BY <3>2, JobKinds DEF PlaceJob
    <3> QED
      BY <1>2, <1>3, <3>1, <3>2, <3>3, RecordsStay DEF Recorded
  <2> QED
    BY <2>1, <2>2
<1>9. \A o \in orphans' : Recorded(o[1], o[2])'
  <2> SUFFICES ASSUME NEW o \in orphans PROVE Recorded(o[1], o[2])'
    BY <1>5
  <2>1. o[1] \in Job /\ Recorded(o[1], o[2])
    BY DEF PInv, ControllersTypeOK
  <2>2. o[1].kind = "place" => o[1].slot \in Slot
    BY <2>1, JobKinds DEF PlaceJob
  <2> QED
    BY <1>2, <1>3, <1>5, <2>1, <2>2, RecordsStay DEF Recorded
<1> QED
  BY <1>3, <1>5, <1>7, <1>8, <1>9 DEF PInv

\* The controllers: what they read makes well-formed jobs.
LEMMA ControllersStep ==
    ASSUME PInv, ControllersNext
    PROVE  PInv' /\ UNCHANGED fleetVars
<1> USE DEF Proposer
<1>0. /\ Seen \in View
      /\ triggered \in SpecJob \cup {None}
      /\ enforcing \in [Node -> SUBSET Taint]
      /\ ops \in 0 .. MaxOps
      /\ PlaceJob \subseteq Job /\ VacateJob \subseteq Job /\ ResizeJob \subseteq Job
      /\ SpecJob \subseteq Job /\ ReassignJob \subseteq Job /\ NodeJob \subseteq Job
  BY SeenType DEF PInv, ControllersTypeOK, Job
<1>1. CASE ReconcileAll
  <2>1. PICK d \in Schedules(Seen, Seen.workloads) :
          StartBatch("workload", ReconcileJobs(Seen.workloads, d))
    BY <1>1 DEF ReconcileAll
  <2>2. Seen.workloads \in [Workload -> WorkloadSpec \cup {None}]
    BY <1>0 DEF View
  <2>3. ReconcileJobs(Seen.workloads, d) \in SUBSET Job
    BY <1>0, <2>2, ScheduleType
  <2>4. UNCHANGED <<triggered, enforcing, ops>>
    BY <1>1 DEF ReconcileAll
  <2> QED
    BY <1>0, <2>1, <2>3, <2>4, StartStep
<1>2. ASSUME NEW w \in Workload, NEW spec \in WorkloadSpec, TriggerCron(w, spec)
      PROVE  PInv' /\ UNCHANGED fleetVars
  <2>1. {[kind |-> "trigger", workload |-> w, spec |-> spec, pass |-> 3]} \in SUBSET Job
    BY <1>0 DEF SpecJob
  <2> QED
    BY <1>0, <1>2, <2>1, StartStep DEF TriggerCron
<1>3. CASE ReconcileRun
  <2> DEFINE specs == [w \in Workload |->
                         IF w = triggered.workload THEN triggered.spec ELSE None]
  <2>1. specs \in [Workload -> WorkloadSpec \cup {None}]
    BY <1>0, <1>3 DEF ReconcileRun, SpecJob
  <2>2. PICK d \in Schedules(Seen, specs) :
          \/ StartBatch("cron", ReconcileJobs(specs, d))
          \/ UNCHANGED <<fleetVars, leaderVars, todo, cur, step>>
    BY <1>3 DEF ReconcileRun
  <2>3. ReconcileJobs(specs, d) \in SUBSET Job
    <3> HIDE DEF specs
    <3> QED
      BY <1>0, <2>1, ScheduleType
  <2>4. triggered' = None /\ UNCHANGED <<enforcing, ops>>
    BY <1>3 DEF ReconcileRun
  <2> HIDE DEF specs
  <2> QED
    BY <1>0, <2>2, <2>3, <2>4, StartStep, QuietStep, SMTT(30)
<1>4. ASSUME NEW s \in Slot, ReconcileDeadPod(s)
      PROVE  PInv' /\ UNCHANGED fleetVars
  <2>1. {[kind |-> "reassign", slot |-> s, pass |-> 3]} \in SUBSET Job
    BY <1>0 DEF ReassignJob
  <2> QED
    BY <1>0, <1>4, <2>1, StartStep DEF ReconcileDeadPod
<1>5. ASSUME NEW S \in SUBSET Node, ExpireNodes(S)
      PROVE  PInv' /\ UNCHANGED fleetVars
  <2>1. {[kind |-> "expire", node |-> n, pass |-> 2] : n \in S} \in SUBSET Job
    BY <1>0 DEF NodeJob
  <2> QED
    BY <1>0, <1>5, <2>1, StartStep DEF ExpireNodes
<1>6. CASE ListTaints
  <2>1. Seen.node_taints \in [Node -> SUBSET Taint]
    BY <1>0 DEF View
  <2>2. enforcing' \in [Node -> SUBSET Taint]
    BY <1>6, <2>1 DEF ListTaints, NoExecute
  <2> QED
    BY <1>0, <1>6, <2>2, QuietStep DEF ListTaints
<1>7. ASSUME NEW n \in Node, NEW late \in SUBSET PodId, EnforceNoExecute(n, late)
      PROVE  PInv' /\ UNCHANGED fleetVars
  <2> DEFINE out  == PlanEvictions(Seen, n, enforcing[n], late)
             jobs == {[kind |-> "vacate", slot |-> Seen.placements[p].slot, pass |-> 3] : p \in out}
  <2>1. \A p \in out : p \in PodId /\ Seen.placements[p] # None
    BY DEF PlanEvictions, PlacedOn
  <2>2. \A p \in out : Seen.placements[p].slot \in Slot
    BY <1>0, <2>1, PlacedSlot
  <2>3. jobs \in SUBSET Job
    BY <1>0, <2>2 DEF VacateJob
  <2>4. enforcing' \in [Node -> SUBSET Taint]
    BY <1>0, <1>7 DEF EnforceNoExecute
  <2>5. /\ StartBatch("node", jobs) \/ UNCHANGED <<fleetVars, leaderVars, todo, cur, step>>
        /\ UNCHANGED <<triggered, ops>>
    BY <1>7 DEF EnforceNoExecute
  <2> HIDE DEF jobs
  <2> QED
    BY <1>0, <2>3, <2>4, <2>5, StartStep, QuietStep
<1>8. ASSUME NEW W \in SUBSET Workload, NEW replicas \in [W -> Replicas], Autoscale(replicas)
      PROVE  PInv' /\ UNCHANGED fleetVars
  <2>1. {ScaleJob(w, replicas[w]) : w \in DOMAIN replicas} \in SUBSET Job
    <3> SUFFICES ASSUME NEW w \in W PROVE ScaleJob(w, replicas[w]) \in SpecJob
      BY <1>0
    <3>1. Seen.workloads[w] # None
      BY <1>8 DEF Autoscale
    <3>2. Seen.workloads[w] \in WorkloadSpec
      BY <1>0, <3>1 DEF View
    <3> QED
      BY <3>2, SMTT(30) DEF ScaleJob, SpecJob, WorkloadSpec, Replicas
  <2> QED
    BY <1>0, <1>8, <2>1, StartStep DEF Autoscale
<1>9. ASSUME NEW W \in SUBSET Workload, NEW pod \in [W -> PodId],
             NEW footprint \in [W -> Footprint], Resize(pod, footprint)
      PROVE  PInv' /\ UNCHANGED fleetVars
  <2> DEFINE job(w) == [kind |-> "resize", slot |-> Seen.placements[pod[w]].slot, pass |-> 3,
                        spec |-> [Seen.workloads[w] EXCEPT !.footprint = footprint[w]]]
             jobs == {job(w) : w \in DOMAIN pod}
  <2>1. ASSUME NEW w \in W PROVE job(w) \in ResizeJob
    <3>1. /\ Seen.workloads[w] # None
          /\ pod[w] \in PlacedPodsOf(Seen, w)
      BY <1>9 DEF Resize
    <3>2. Seen.workloads[w] \in WorkloadSpec
      BY <1>0, <3>1 DEF View
    <3>3. Seen.placements[pod[w]].slot \in Slot
      BY <1>0, <3>1, PlacedSlot DEF PlacedPodsOf
    <3>4. [Seen.workloads[w] EXCEPT !.footprint = footprint[w]] \in WorkloadSpec
      BY <3>2 DEF WorkloadSpec
    <3> QED
      BY <3>3, <3>4 DEF ResizeJob
  <2>2. jobs \in SUBSET Job
    BY <1>0, <2>1
  <2>3. StartBatch("vpa", jobs) /\ UNCHANGED <<triggered, enforcing, ops>>
    BY <1>9 DEF Resize
  <2> HIDE DEF jobs
  <2> QED
    BY <1>0, <2>2, <2>3, StartStep
<1> QED
  BY <1>1, <1>2, <1>3, <1>4, <1>5, <1>6, <1>7, <1>8, <1>9, SMTT(30) DEF ControllersNext

\* Admin operations that propose what they have read ...
LEMMA AdminStep ==
    ASSUME PInv,
           \/ \E w \in Workload, replicas \in Replicas : ScaleOne(w, replicas)
           \/ \E n \in Node, S \in SUBSET Slot : DrainPart(n, S)
           \/ \E n \in Node : EvictWhole(n)
    PROVE  PInv' /\ UNCHANGED fleetVars
<1> USE DEF Proposer
<1>0. /\ Seen \in View
      /\ triggered \in SpecJob \cup {None}
      /\ enforcing \in [Node -> SUBSET Taint]
      /\ SpecJob \subseteq Job /\ VacateJob \subseteq Job /\ NodeJob \subseteq Job
  BY SeenType DEF PInv, ControllersTypeOK, Job
<1>1. (ops < MaxOps /\ ops' = ops + 1) => ops' \in 0 .. MaxOps
  BY ControllersAssumption, SMTT(30) DEF PInv, ControllersTypeOK
<1>2. ASSUME NEW w \in Workload, NEW replicas \in Replicas, ScaleOne(w, replicas)
      PROVE  PInv' /\ UNCHANGED fleetVars
  <2>1. Seen.workloads[w] \in WorkloadSpec
    BY <1>0, <1>2 DEF ScaleOne, View
  <2>2. ScaleJob(w, replicas) \in SpecJob
    BY <2>1 DEF ScaleJob, SpecJob, WorkloadSpec, Replicas
  <2>3. {ScaleJob(w, replicas)} \in SUBSET Job
    BY <1>0, <2>2
  <2> QED
    BY <1>0, <1>1, <1>2, <2>3, StartStep DEF ScaleOne
<1>3. ASSUME NEW n \in Node, NEW S \in SUBSET Slot, DrainPart(n, S)
      PROVE  PInv' /\ UNCHANGED fleetVars
  <2>1. {[kind |-> "cordon", node |-> n, pass |-> 2]} \cup
        {[kind |-> "vacate", slot |-> s, pass |-> 3] : s \in S} \in SUBSET Job
    BY <1>0 DEF NodeJob, VacateJob
  <2> QED
    BY <1>0, <1>1, <1>3, <2>1, StartStep DEF DrainPart
<1>4. ASSUME NEW n \in Node, EvictWhole(n)
      PROVE  PInv' /\ UNCHANGED fleetVars
  <2>1. {[kind |-> "evict", node |-> n, pass |-> 2]} \in SUBSET Job
    BY <1>0 DEF NodeJob
  <2> QED
    BY <1>0, <1>1, <1>4, <2>1, StartStep DEF EvictWhole
<1> QED
  BY <1>2, <1>3, <1>4, SMTT(30)

\* A command that leaves the proposers' jobs alone and every placement recorded.
LEMMA CommandStep ==
    ASSUME PInv, FleetNext, AllRecorded', UNCHANGED <<taskVars, replica, behind, failovers>>,
           ops' \in 0 .. MaxOps, orphans' \subseteq orphans
    PROVE  PInv'
<1> USE DEF taskVars
<1>1. TypeOK /\ TypeOK'
  BY FleetTypeStep DEF PInv, ControllersTypeOK
<1>2. ControllersTypeOK'
  BY <1>1 DEF PInv, ControllersTypeOK
<1>3. ASSUME NEW j \in Job, NEW k, Recorded(j, k)
      PROVE  (j.kind = "place" /\ j.victims = {} /\ k = 2) => ordinals'[j.slot] # None
  <2>1. j.kind = "place" => j.slot \in Slot
    BY JobKinds, SMTT(30) DEF PlaceJob
  <2> QED
    BY <1>1, <1>3, <2>1, RecordsStay DEF Recorded
<1>4. ASSUME NEW r \in Proposer, cur'[r] # None
      PROVE  Recorded(cur[r], step[r])'
  <2>1. cur[r] \in Job /\ Recorded(cur[r], step[r]) /\ cur'[r] = cur[r] /\ step'[r] = step[r]
    BY <1>4 DEF PInv, ControllersTypeOK
  <2> QED
    BY <1>3, <2>1 DEF Recorded
<1>5. ASSUME NEW o \in orphans'
      PROVE  Recorded(o[1], o[2])'
  <2>1. o[1] \in Job /\ Recorded(o[1], o[2])
    BY <1>5 DEF PInv, ControllersTypeOK
  <2> QED
    BY <1>3, <2>1 DEF Recorded
<1> QED
  BY <1>2, <1>4, <1>5 DEF PInv

\* ... and those that do not depend on a read.
LEMMA OperatorStep ==
    ASSUME PInv, Operator
    PROVE  PInv' /\ FleetNext
<1>1. ops' \in 0 .. MaxOps
  BY ControllersAssumption, SMTT(30) DEF Operator, PInv, ControllersTypeOK
<1>2. TypeOK /\ AllRecorded
  BY DEF PInv, ControllersTypeOK
<1>3. 0 \in Time
  BY ConstantsAssumption, SMTT(30) DEF Time
<1>4. NodeNext \/ WorkloadNext
  BY <1>3 DEF Operator, NodeNext, WorkloadNext
<1>5. FleetNext /\ AllRecorded'
  BY <1>2, <1>4, OtherCommands
<1> QED
  BY <1>1, <1>5, CommandStep DEF Operator, leaderVars

-----------------------------------------------------------------------------
(* Changes of leader.                                                      *)

\* A change of leader, a follower that applies and a command of an earlier
\* leader keep the invariant (LeaderGate::run).
LEMMA LeaderStep ==
    ASSUME PInv, LeaderNext
    PROVE  PInv' /\ [FleetNext]_fleetVars
<1>0. Applied \in View /\ Applied # None
  BY AppliedType DEF PInv, ControllersTypeOK
<1> DEFINE Same == UNCHANGED <<nodes, node_taints, workloads, ordinals, placements,
                               active_delegations, revoked_delegations, revoked_svids>>
<1>1. UNCHANGED fleetVars => Same
  BY DEF fleetVars, nodeVars, placementVars, revocationVars
<1>2. CASE FollowerApplies \/ CatchUp
  <2>1. /\ UNCHANGED <<fleetVars, taskVars, orphans, ops, failovers>>
        /\ replica' \in View \cup {None}
        /\ behind' = FALSE
        /\ failovers < MaxFailovers => replica' # None
    BY <1>0, <1>2 DEF FollowerApplies, CatchUp, PInv, ControllersTypeOK
  <2>2. ControllersTypeOK'
    BY <1>1, <2>1 DEF PInv, ControllersTypeOK, TypeOK, taskVars
  <2>3. AllRecorded'
    BY <1>1, <2>1 DEF PInv, AllRecorded
  <2>4. ASSUME NEW r \in Proposer, cur'[r] # None
        PROVE  Recorded(cur[r], step[r])'
    BY <1>1, <2>1, <2>4 DEF PInv, Recorded, taskVars
  <2>5. \A o \in orphans' : Recorded(o[1], o[2])'
    BY <1>1, <2>1, SMTT(30) DEF PInv, Recorded
  <2> QED
    BY <2>1, <2>2, <2>3, <2>4, <2>5 DEF PInv
<1>3. ASSUME NEW kept \in SUBSET (orphans \cup InFlight), Failover(kept)
      PROVE  PInv' /\ UNCHANGED fleetVars
  <2>1. ASSUME NEW o \in orphans \cup InFlight
        PROVE  o \in Job \X (1 .. 3) /\ Recorded(o[1], o[2])
    <3>1. CASE o \in orphans
      BY <3>1, SMTT(30) DEF PInv, ControllersTypeOK
    <3>2. CASE o \in InFlight
      <4>1. PICK r \in Proposer : cur[r] # None /\ o = <<cur[r], step[r]>>
        BY <3>2 DEF InFlight
      <4>2. cur[r] \in Job /\ step[r] \in 1 .. 3 /\ Recorded(cur[r], step[r])
        BY <4>1 DEF PInv, ControllersTypeOK
      <4> QED
        BY <4>1, <4>2
    <3> QED
      BY <3>1, <3>2
  <2>2. Same
    BY <1>1, <1>3 DEF Failover
  <2>3. failovers' \in 0 .. MaxFailovers /\ replica' = replica /\ replica # None
    BY <1>3, ControllersAssumption, SMTT(30) DEF Failover, PInv, ControllersTypeOK
  <2>4. ControllersTypeOK'
    <3>1. orphans' \subseteq Job \X (1 .. 3)
      BY <1>3, <2>1 DEF Failover
    <3>2. TypeOK'
      BY <2>2 DEF PInv, ControllersTypeOK, TypeOK
    <3>3. /\ todo' \in [Proposer -> SUBSET Job]
          /\ cur' \in [Proposer -> Job \cup {None}]
          /\ step' \in [Proposer -> 1 .. 3]
      BY <1>3, SMTT(30) DEF Failover
    <3>4. /\ triggered' \in SpecJob \cup {None}
          /\ enforcing' \in [Node -> SUBSET Taint]
          /\ behind' \in BOOLEAN
      BY <1>3, SMTT(30) DEF Failover
    <3>5. ops' \in 0 .. MaxOps /\ replica' \in View \cup {None}
      BY <1>3, <2>3 DEF Failover, PInv, ControllersTypeOK
    <3> QED
      BY <2>3, <3>1, <3>2, <3>3, <3>4, <3>5 DEF ControllersTypeOK
  <2>5. AllRecorded'
    BY <2>2 DEF PInv, AllRecorded
  <2>6. \A r \in Proposer : cur'[r] = None
    BY <1>3 DEF Failover
  <2>7. \A o \in orphans' : Recorded(o[1], o[2])'
    BY <1>3, <2>1, <2>2 DEF Failover, Recorded
  <2> QED
    BY <1>3, <2>3, <2>4, <2>5, <2>6, <2>7 DEF PInv, Failover
<1>4. ASSUME NEW o \in orphans, ApplyOrphan(o)
      PROVE  PInv' /\ FleetNext
  <2>1. o[1] \in Job /\ o[2] \in 1 .. 3 /\ Recorded(o[1], o[2])
    BY DEF PInv, ControllersTypeOK
  <2>2. TypeOK /\ AllRecorded /\ ops \in 0 .. MaxOps
    BY DEF PInv, ControllersTypeOK
  <2>3. Carry(o[1], o[2])
    BY <1>4 DEF ApplyOrphan
  <2>4. FleetNext /\ AllRecorded'
    BY <2>1, <2>2, <2>3, CarryCommand
  <2> QED
    BY <1>4, <2>2, <2>4, CommandStep DEF ApplyOrphan
<1> QED
  BY <1>2, <1>3, <1>4 DEF LeaderNext, FollowerApplies, CatchUp

-----------------------------------------------------------------------------
(* The invariant, and what follows from it.                                *)

\* Nothing is stored and nobody has read anything at first.
LEMMA PInvInit == Init => PInv
<1> SUFFICES ASSUME Init PROVE PInv
  OBVIOUS
<1>1. TypeOK
  <2>1. 0 \in Time
    BY ConstantsAssumption, SMTT(30) DEF Time
  <2>2. nodes \in [Node -> NodeRecord \cup {None}]
    BY <2>1, SMTT(30) DEF Init, NodeRecord, NodeStatus
  <2> QED
    BY <2>2 DEF Init, TypeOK
<1>2. Applied \in View /\ Applied # None
  BY <1>1, AppliedType
<1>3. ControllersTypeOK
  <2>1. /\ todo \in [Proposer -> SUBSET Job]
        /\ cur \in [Proposer -> Job \cup {None}]
        /\ step \in [Proposer -> 1 .. 3]
    BY SMTT(30) DEF Init
  <2>2. /\ triggered \in SpecJob \cup {None}
        /\ enforcing \in [Node -> SUBSET Taint]
        /\ behind \in BOOLEAN
        /\ orphans \subseteq Job \X (1 .. 3)
    BY DEF Init
  <2>3. ops \in 0 .. MaxOps /\ failovers \in 0 .. MaxFailovers
    BY ControllersAssumption, SMTT(30) DEF Init
  <2>4. replica \in View \cup {None}
    BY <1>2 DEF Init
  <2> QED
    BY <1>1, <2>1, <2>2, <2>3, <2>4 DEF ControllersTypeOK
<1>4. failovers < MaxFailovers => replica # None
  BY <1>2, SMTT(30) DEF Init
<1>5. AllRecorded
  BY DEF Init, AllRecorded
<1>6. /\ \A q \in Proposer : cur[q] = None
      /\ orphans = {}
      /\ ~behind
  BY DEF Init
<1> QED
  BY <1>3, <1>4, <1>5, <1>6 DEF PInv

\* Every step keeps the invariant and is a command or leaves the fleet alone.
LEMMA PInvStep == PInv /\ [Next]_vars => PInv' /\ [FleetNext]_fleetVars
<1> SUFFICES ASSUME PInv, [Next]_vars PROVE PInv' /\ [FleetNext]_fleetVars
  OBVIOUS
<1>1. ASSUME NEW q \in Proposer, Await(q)
      PROVE  PInv' /\ [FleetNext]_fleetVars
  BY <1>1, AwaitStep
<1>2. CASE ControllersNext
  BY <1>2, ControllersStep
<1>3. CASE AdminNext
  BY <1>3, AdminStep, OperatorStep DEF AdminNext
<1>4. CASE LeaderNext
  BY <1>4, LeaderStep
<1>5. CASE UNCHANGED vars
  <2>1. /\ UNCHANGED <<fleetVars, leaderVars, todo, cur, step>>
        /\ UNCHANGED <<triggered, enforcing, ops>>
    BY <1>5 DEF vars, controlVars, taskVars
  <2>2. /\ triggered \in SpecJob \cup {None}
        /\ enforcing \in [Node -> SUBSET Taint]
        /\ ops \in 0 .. MaxOps
    BY DEF PInv, ControllersTypeOK
  <2> QED
    BY <2>1, <2>2, QuietStep
<1> QED
  BY <1>1, <1>2, <1>3, <1>4, <1>5 DEF Next

(***************************************************************************)
(* The inductive invariant holds in every reachable state.                 *)
(***************************************************************************)
THEOREM PlacementInductive == Spec => []PInv
  BY PInvInit, PInvStep, PTL DEF Spec

(***************************************************************************)
(* Type correctness: whatever is read, stale or not, every job that a      *)
(* proposer derives from it names slots, nodes and specs of the right      *)
(* shape, through any number of leader changes.                            *)
(***************************************************************************)
THEOREM ControllersTypeCorrect == Spec => []ControllersTypeOK
<1>1. PInv => ControllersTypeOK
  BY DEF PInv
<1> QED
  BY <1>1, PlacementInductive, PTL

(***************************************************************************)
(* No placement without a slot record, for any number of nodes, workloads, *)
(* proposers and leader changes: batches that are aborted between          *)
(* RecordOrdinalAssignment and CommitPlacement, commands that outlive      *)
(* their leader and controllers that read an old replica included.         *)
(***************************************************************************)
THEOREM PlacedSlotsAreRecorded == Spec => []PlacedSlotIsRecorded
<1>1. PInv => PlacedSlotIsRecorded
  <2> SUFFICES ASSUME PInv, NEW s \in Slot, Hosted(s) PROVE ordinals[s] # None
    BY DEF PlacedSlotIsRecorded
  <2> QED
    BY PodIdOfType DEF PInv, AllRecorded, Hosted, PlacementOf
<1> QED
  BY <1>1, PlacementInductive, PTL

(***************************************************************************)
(* The proposers never take the state machine anywhere but along its own   *)
(* commands: every step of the whole system is one FleetState command or   *)
(* leaves the keyspaces alone.                                             *)
(***************************************************************************)
THEOREM StepsAreCommands == Spec => [][FleetNext]_fleetVars
  BY PlacementInductive, PInvStep, PTL DEF Spec

(***************************************************************************)
(* So what was proved of the commands holds of the system with its         *)
(* proposers: evictions cascade as a whole, only a registration lifts one, *)
(* delegations stay accounted for, and specs do not disturb each other.    *)
(***************************************************************************)
THEOREM SystemKeepsCommandProperties ==
    Spec => /\ EvictionCascade
            /\ OnlyRegistrationLiftsEviction
            /\ DelegationsAccounted
            /\ WorkloadIsolation
<1>1. Spec => []TypeOK
  <2>1. ControllersTypeOK => TypeOK
    BY DEF ControllersTypeOK
  <2> QED
    BY <2>1, ControllersTypeCorrect, PTL
<1>2. Spec => EvictionCascade
  BY <1>1, StepsAreCommands, EvictionCascadeStep, PTL DEF EvictionCascade
<1>3. Spec => OnlyRegistrationLiftsEviction
  BY <1>1, StepsAreCommands, EvictionLiftStep, PTL DEF OnlyRegistrationLiftsEviction
<1>4. Spec => DelegationsAccounted
  BY <1>1, StepsAreCommands, DelegationStep, PTL DEF DelegationsAccounted
<1>5. Spec => WorkloadIsolation
  BY <1>1, StepsAreCommands, IsolationStep, PTL DEF WorkloadIsolation
<1> QED
  BY <1>2, <1>3, <1>4, <1>5

=============================================================================
