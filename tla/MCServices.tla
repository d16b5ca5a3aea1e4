----------------------------- MODULE MCServices -----------------------------
(***************************************************************************)
(* The services of a control node on small instances.  They share storage  *)
(* but no record, so each is checked in scenarios of its own: a behaviour  *)
(* belongs to one scenario, in which the other services stay as they are.  *)
(* The two ways to join share the nonces of NonceManager.                  *)
(***************************************************************************)
EXTENDS TenantAdmission, ServerSideApply, JoinTokens, EkActivation, SecretDelivery, NodeDelegations,
        OperatorAccess, WatchStreams, PodEventStore, MetricsStore

VARIABLE scenario

\* Values of the constants.
Quotas == {[units |-> 2, workloads |-> 1], [units |-> 3, workloads |-> 2]}
Manifests == {[a |-> "v", b |-> Absent], [a |-> "w", b |-> "v"], [a |-> Absent, b |-> "w"]}
Kinds == {{"Secret"}, {"NodePool"}, {"Workload"}, {"Workload", "SagRule"}, {"SagRule", "NodePool"}}
Rule == [f \in Field |-> "v"]
Given == [j \in Joiner |-> CHOOSE t \in Token : TRUE]
AllFit == Token \X Joiner
OneReader == {{CHOOSE r \in Reader : TRUE}}

TwoServices == Service \ {CHOOSE s \in Service : TRUE}
OneTenant == {CHOOSE t \in Tenant : TRUE}
OneJoiner == {CHOOSE j \in Joiner : TRUE}

\* Joiners, and the restarts and elections or crashes of a scenario: a
\* restarted joiner overlaps with itself, two joiners with each other.
Faults ==
    CASE scenario = "join"     -> {<<Joiner, 1, 0>>, <<OneJoiner, 1, 1>>, <<Joiner, 0, 1>>}
      [] scenario = "activate" -> {<<{}, 1, 0>>, <<{}, 0, 1>>}
      [] OTHER                 -> {<<{}, 0, 0>>}

Init ==
    /\ scenario \in {"addresses", "quota", "apply", "join", "activate", "secrets", "delegations",
                    "access", "watch", "events", "metrics"}
    /\ AdmissionInit([k \in Tenant \X Service |-> IF scenario = "addresses" THEN 1 ELSE Absent])
    /\ ApplyInit
    /\ leader = CHOOSE h \in Host : TRUE
    /\ \E f \in Faults : JoinInit(f[1], f[2], f[3]) /\ EkInit(f[2], f[3])
    /\ SecretInit
    /\ DelegationInit
    /\ AccessInit
    /\ WatchInit /\ EventInit /\ MetricsInit

joinOwn == <<tokens, claims, quotes, grants, csrs, versions, client, admitted, granted, signed>>
ekOwn == <<eks, policy, activations, proofs, changes, machine, asks>>

servedVars == <<admissionVars, applyVars, joinVars, ekOwn, secretVars, delegationVars>>
nodeVars == <<accessVars, watchVars, eventVars, metricsVars>>

Admission ==
    /\ \/ scenario = "addresses" /\ AllocationOf(Tenant)
       \/ scenario = "quota" /\ AdmissionOf(OneTenant, TwoServices)
       \/ scenario = "quota" /\ \E t \in OneTenant : create_tenant(t)
       \/ ApplyAny
    /\ UNCHANGED <<applyVars, joinVars, ekOwn, secretVars, delegationVars>>

Served ==
    \/ Admission
    \/ scenario = "apply" /\ ApplyNext /\ UNCHANGED <<admissionVars, joinVars, ekOwn, secretVars, delegationVars>>
    \/ scenario = "join" /\ JoinNext /\ UNCHANGED <<admissionVars, applyVars, ekOwn, secretVars, delegationVars>>
    \/ scenario = "activate" /\ EkNext /\ UNCHANGED <<admissionVars, applyVars, joinOwn, secretVars, delegationVars>>
    \/ scenario = "secrets" /\ SecretNext /\ UNCHANGED <<admissionVars, applyVars, joinVars, ekOwn, delegationVars>>
    \/ scenario = "delegations" /\ DelegationNext /\ UNCHANGED <<admissionVars, applyVars, joinVars, ekOwn, secretVars>>

OnTheNode ==
    \/ scenario = "access" /\ AccessNext /\ UNCHANGED <<watchVars, eventVars, metricsVars>>
    \/ scenario = "watch" /\ WatchNext /\ UNCHANGED <<accessVars, eventVars, metricsVars>>
    \/ scenario = "events" /\ EventNext /\ UNCHANGED <<accessVars, watchVars, metricsVars>>
    \/ scenario = "metrics" /\ MetricsNext /\ UNCHANGED <<accessVars, watchVars, eventVars>>

Next ==
    /\ UNCHANGED scenario
    /\ (Served /\ UNCHANGED nodeVars) \/ (OnTheNode /\ UNCHANGED servedVars)

ServicesSpec == Init /\ [][Next]_<<scenario, servedVars, nodeVars>>

\* Every service's state has its type; in particular no block gives out more
\* addresses than it has.
ServicesTypeOK ==
    /\ AdmissionTypeOK
    /\ ApplyTypeOK
    /\ JoinTypeOK
    /\ EkTypeOK
    /\ SecretTypeOK
    /\ DelegationTypeOK
    /\ AccessTypeOK
    /\ WatchTypeOK
    /\ EventTypeOK
    /\ MetricsTypeOK

=============================================================================
