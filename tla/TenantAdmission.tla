-------------------------- MODULE TenantAdmission --------------------------
(***************************************************************************)
(* Tenants, their blocks and service addresses in 240.0.0.0/4, and the     *)
(* quota that workloads are admitted under.                                *)
(*                                                                         *)
(* Creation of tenants, admission and the allocator all read storage and   *)
(* propose what they computed; the state machine writes it as it is.       *)
(***************************************************************************)
EXTENDS Proposals
LOCAL INSTANCE Folds

CONSTANTS
    Tenant,
    Service,       \* workloads, of one role each
    MaxBlocks,     \* blocks in the space
    MaxHosts,      \* addresses of a block
    Replicas,      \* replica counts of a request
    QuotaOf,       \* quotas a tenant may get: [units, workloads]
    MaxRequests    \* bound on requests

\* A tenant's block.
BlockRecord == [index : 0 .. MaxBlocks - 1, next_offset : 0 .. MaxHosts]

ASSUME AdmissionAssumption == MaxBlocks \in Nat /\ MaxHosts \in Nat /\ Absent \notin Int /\ Absent \notin BlockRecord

VARIABLES
    tenants,    \* tenant records
    block,      \* blocks: [index, next_offset] or Absent
    address,    \* service addresses, or Absent
    catalog,    \* replicas of the stored workloads, or Absent
    crons,      \* tenants' cron records, which share the keyspace of workloads
    quota,      \* quotas, or Absent
    asked,      \* commands in flight
    requests,   \* requests so far
    overtaken   \* observation: a command was applied that was computed from older state

admissionVars == <<tenants, block, address, catalog, crons, quota, asked, requests, overtaken>>

Request(c) ==
    /\ requests < MaxRequests /\ Cardinality(asked) < MaxFlight
    /\ requests' = requests + 1
    /\ asked' = Propose(asked, c)
    /\ UNCHANGED <<tenants, block, address, catalog, crons, quota, overtaken>>

AdmissionInit(pods) ==
    /\ tenants = {}
    /\ block = [t \in Tenant |-> Absent]
    /\ address = [k \in Tenant \X Service |-> Absent]
    /\ catalog = pods
    /\ crons = {}
    /\ quota = [t \in Tenant |-> Absent]
    /\ asked = {} /\ requests = 0 /\ overtaken = FALSE

-----------------------------------------------------------------------------
\* The allocator.

block_base(i) == i * MaxHosts

\* Mutation: a block nobody has an address in yet is taken for free.
BlocksWithHosts == {block[t].index : t \in {u \in Tenant : block[u] # Absent /\ block[u].next_offset > 0}}

used_block_indices == {block[t].index : t \in {u \in Tenant : block[u] # Absent}}

\* create_tenant and the first unused block.
create_tenant(t) ==
    /\ t \notin tenants /\ block[t] = Absent
    /\ \E i \in (0 .. MaxBlocks - 1) \ used_block_indices :
          /\ \A j \in (0 .. MaxBlocks - 1) \ used_block_indices : i <= j
          /\ Request([cmd |-> "CreateTenant", clean |-> TRUE, tenant |-> t,
                      block |-> [index |-> i, next_offset |-> 0]])

HasRoom(t) == block[t] # Absent /\ block[t].next_offset < MaxHosts

\* The last pass of a reconciliation, for one workload: without a block, or
\* with a full one, there is no address.
allocate_service_addresses(t, s) ==
    /\ catalog[<<t, s>>] # Absent
    /\ address[<<t, s>>] = Absent
    /\ HasRoom(t)
    /\ Request([cmd |-> "AllocateServiceAddress", clean |-> TRUE, tenant |-> t, service |-> s,
                block |-> [block[t] EXCEPT !.next_offset = @ + 1],
                address |-> block_base(block[t].index) + block[t].next_offset])

-----------------------------------------------------------------------------
\* Admission of workloads under the quota.

\* compute_tenant_usage: a cron record decodes as a workload without a spec.
UnitsOf(t) ==
    LET stored == {k \in {t} \X Service : catalog[k] # Absent}
    IN  MapThenFoldSet(+, 0, LAMBDA k : catalog[k], LAMBDA K : CHOOSE k \in K : TRUE, stored)

WorkloadsOf(t) == Cardinality({k \in {t} \X Service : catalog[k] # Absent}) + (IF t \in crons THEN 1 ELSE 0)

\* A workload counts as new even where it replaces a stored one.
check_tenant_quota(t, n) ==
    quota[t] # Absent => UnitsOf(t) + n <= quota[t].units /\ WorkloadsOf(t) + 1 <= quota[t].workloads

\* Neither of them asks for the tenant's record.
submit_workload_spec(t, s, n) ==
    /\ n > 0
    /\ check_tenant_quota(t, n)
    /\ Request([cmd |-> "SubmitWorkloadSpec", clean |-> TRUE, tenant |-> t, service |-> s, replicas |-> n])

scale_workload(t, s, n) ==
    /\ catalog[<<t, s>>] # Absent
    /\ check_tenant_quota(t, n)
    /\ Request([cmd |-> "ScaleWorkload", clean |-> TRUE, tenant |-> t, service |-> s, replicas |-> n])

delete_workload(t, s) ==
    Request([cmd |-> "DeleteWorkload", clean |-> TRUE, tenant |-> t, service |-> s])

submit_cron_workload(t) ==
    Request([cmd |-> "SubmitCronWorkload", clean |-> TRUE, tenant |-> t])

set_quota(t, q) ==
    /\ t \in tenants
    /\ Request([cmd |-> "SetTenantQuota", clean |-> TRUE, tenant |-> t, quota |-> q])

-----------------------------------------------------------------------------
\* The state machine.

ApplyCreateTenant(c) ==
    /\ c.cmd = "CreateTenant"
    /\ tenants' = tenants \cup {c.tenant}
    /\ block' = [block EXCEPT ![c.tenant] = c.block]
    /\ UNCHANGED <<address, catalog, crons, quota>>

ApplyServiceAddress(c) ==
    /\ c.cmd = "AllocateServiceAddress"
    /\ block' = [block EXCEPT ![c.tenant] = c.block]
    /\ address' = [address EXCEPT ![<<c.tenant, c.service>>] = c.address]
    /\ UNCHANGED <<tenants, catalog, crons, quota>>

\* Scaling writes a spec whether or not it is still there.
ApplyWorkload(c) ==
    /\ c.cmd \in {"SubmitWorkloadSpec", "ScaleWorkload", "DeleteWorkload"}
    /\ catalog' = [catalog EXCEPT ![<<c.tenant, c.service>>] = IF c.cmd = "DeleteWorkload" THEN Absent ELSE c.replicas]
    /\ UNCHANGED <<tenants, block, address, crons, quota>>

ApplyCronRecord(c) ==
    /\ c.cmd = "SubmitCronWorkload"
    /\ crons' = crons \cup {c.tenant}
    /\ UNCHANGED <<tenants, block, address, catalog, quota>>

ApplyTenantQuota(c) ==
    /\ c.cmd = "SetTenantQuota"
    /\ quota' = [quota EXCEPT ![c.tenant] = c.quota]
    /\ UNCHANGED <<tenants, block, address, catalog, crons>>

ApplyAsked(c) ==
    /\ \/ ApplyCreateTenant(c)
       \/ ApplyServiceAddress(c)
       \/ ApplyWorkload(c)
       \/ ApplyCronRecord(c)
       \/ ApplyTenantQuota(c)
    /\ asked' = Overtake(asked, c)
    /\ overtaken' = (overtaken \/ ~c.clean)
    /\ UNCHANGED requests

AdmissionOf(T, S) ==
    \/ \E t \in T : submit_cron_workload(t)
    \/ \E t \in T, q \in QuotaOf : set_quota(t, q)
    \/ \E t \in T, s \in S : delete_workload(t, s)
    \/ \E t \in T, s \in S, n \in Replicas : submit_workload_spec(t, s, n) \/ scale_workload(t, s, n)

AllocationOf(T) ==
    \/ \E t \in T : create_tenant(t)
    \/ \E t \in T, s \in Service : allocate_service_addresses(t, s)

ApplyAny == \E c \in asked : ApplyAsked(c)

AdmissionNext == AdmissionOf(Tenant, Service) \/ AllocationOf(Tenant) \/ ApplyAny

\* Workloads may be stored before there are tenants.
AdmissionStart == \E pods \in [Tenant \X Service -> {Absent} \cup Replicas] : AdmissionInit(pods)

AdmissionSpec == AdmissionStart /\ [][AdmissionNext]_admissionVars

-----------------------------------------------------------------------------
AdmissionTypeOK ==
    /\ tenants \subseteq Tenant /\ crons \subseteq Tenant
    /\ block \in [Tenant -> {Absent} \cup BlockRecord]
    /\ address \in [Tenant \X Service -> {Absent} \cup 0 .. MaxBlocks * MaxHosts - 1]
    /\ catalog \in [Tenant \X Service -> {Absent} \cup Replicas]
    /\ quota \in [Tenant -> {Absent} \cup QuotaOf]
    /\ \A c \in asked : c.tenant \in Tenant /\ c.clean \in BOOLEAN

\* As long as every command was applied to the state it was computed from, no
\* two services have the same address and every address lies in the block of
\* its tenant, also where blocks and the space are used up.  Creation and
\* allocation overlap freely in the code: then a block or an address may be
\* given twice, and a repeated creation starts a block over.
AddressesAreSeparate ==
    overtaken \/
    \A j, k \in {k \in Tenant \X Service : address[k] # Absent} :
        /\ j # k => address[j] # address[k]
        /\ block[k[1]] # Absent
        /\ address[k] \in block_base(block[k[1]].index) .. block_base(block[k[1]].index) + block[k[1]].next_offset - 1

\* A workload admitted by a check that nothing overtook leaves its tenant
\* within the quota, in units and in number, replaced workloads and cron
\* records included.  Growth by overlapping requests, by the autoscaler or by
\* crons is not checked.
AdmittedFitsQuota ==
    [][\A c \in asked :
          /\ c.clean /\ c.cmd \in {"SubmitWorkloadSpec", "ScaleWorkload"} /\ quota[c.tenant] # Absent
          /\ asked' = Overtake(asked, c)
          => UnitsOf(c.tenant)' <= quota[c.tenant].units /\ WorkloadsOf(c.tenant)' <= quota[c.tenant].workloads]_admissionVars

=============================================================================
