---------------------------- MODULE AdminProofs -----------------------------
(***************************************************************************)
(* The admin and node services, for any number of operators, nodes,        *)
(* tenants and requests in flight: where access comes from, what           *)
(* an eviction means for delegated keys, addresses of services,            *)
(* deliveries of secrets, and what an apply changes.                       *)
(***************************************************************************)
EXTENDS OperatorAccess, NodeDelegations, TenantAdmission, SecretDelivery, ServerSideApply,
        TLAPS

\* Steps that name no prover are tried with Zenon, then with the SMT solver.
USE ZenonT(20), SMTT(30)

-----------------------------------------------------------------------------
(* Access of operators.                                                    *)

\* A grant with support among those applied so far.
Rooted(g) == g.granted_by \in Root \/ \E k \in history : Supports(k.grant, g)

(***************************************************************************)
(* The property is not inductive: a request is checked when it is made and *)
(* stored when it is applied, and the grant it was made with may be        *)
(* revoked in between.  So requests in flight must have their support      *)
(* among the grants ever applied, which only grow, and those must be       *)
(* supported by lower numbers.                                             *)
(***************************************************************************)
AccessInv ==
    /\ applied \in Int /\ now \in Int
    /\ \A h \in history : h.number \in Int /\ h.number <= applied
    /\ \A g \in operator_grants : g.granted_at \in Int /\ g.granted_at <= now
    /\ \A g \in operator_grants : \E h \in history : h.grant = g
    /\ \A c \in accessAsked : c.op = "grant" =>
          /\ c.record.granted_at \in Int /\ c.record.granted_at <= now
          /\ Rooted(c.record)
    /\ \A h \in history : h.grant.granted_by \in Root \/
          \E k \in history : k.number < h.number /\ Supports(k.grant, h.grant)

\* Nothing is granted at first.
LEMMA InitRooted == AccessInit => AccessInv
  BY SMTT(30) DEF AccessInit, AccessInv

\* A request to grant was let through: its caller is a root, or one of its
\* stored grants supports the new one.
LEMMA LetThrough ==
    ASSUME AccessInv, NEW caller, NEW g, require_cluster_admin_write(caller),
           g.granted_by = caller, g.granted_at = now
    PROVE  Rooted(g)
  <1>1. CASE caller \in Root
    BY <1>1 DEF Rooted
  <1>2. CASE caller \notin Root
    <2>1. PICK k \in active_grants_for_operator(caller) : k.scope.cluster_admin /\ ~k.scope.read_only
      BY <1>2 DEF require_cluster_admin_write, Root
    <2>2. k \in operator_grants /\ k.operator_id = caller /\ k.expires_at > now
      BY <2>1 DEF active_grants_for_operator
    <2>3. k.granted_at <= now
      BY <2>2 DEF AccessInv
    <2>4. Supports(k, g)
      BY <2>1, <2>2, <2>3 DEF Supports
    <2>5. PICK h \in history : h.grant = k
      BY <2>2 DEF AccessInv
    <2>. QED  BY <2>4, <2>5 DEF Rooted
  <1>. QED  BY <1>1, <1>2

\* What is proposed is supported when it is proposed.
LEMMA AskKeeps ==
    ASSUME AccessInv, NEW c, AskAccess(c),
           c.op = "grant" => /\ c.record.granted_at \in Int /\ c.record.granted_at <= now
                             /\ Rooted(c.record)
    PROVE  AccessInv'
  <1>1. UNCHANGED <<now, operator_grants, applied, history>> /\ accessAsked' = accessAsked \cup {c}
    BY DEF AskAccess, Propose
  <1>. QED  BY <1>1 DEF AccessInv, Rooted

\* Applying a grant adds its record under a number above all others.
LEMMA ApplyKeeps ==
    ASSUME AccessInv, NEW c \in accessAsked, ApplyAccess(c)
    PROVE  AccessInv'
  <1>1. /\ applied' = applied + 1 /\ accessAsked' = accessAsked \ {c} /\ now' = now
    BY DEF ApplyAccess
  <1>2. CASE GrantOperatorAccess(c)
    <2>. DEFINE new == [grant |-> c.record, number |-> applied + 1]
    <2>1. /\ c.op = "grant" /\ operator_grants' = operator_grants \cup {c.record}
          /\ history' = history \cup {new}
      BY <1>2 DEF GrantOperatorAccess
    <2>2. new.grant = c.record /\ new.number = applied + 1
      OBVIOUS
    <2>. HIDE DEF new
    <2>3. /\ applied' \in Int /\ now' \in Int
          /\ \A h \in history' : h.number \in Int /\ h.number <= applied'
          /\ \A g \in operator_grants' : g.granted_at \in Int /\ g.granted_at <= now'
      BY <1>1, <2>1, <2>2, SMTT(30) DEF AccessInv
    <2>4. \A g \in operator_grants' : \E h \in history' : h.grant = g
      BY <2>1, <2>2 DEF AccessInv
    <2>5. \A d \in accessAsked' : d.op = "grant" =>
            d.record.granted_at \in Int /\ d.record.granted_at <= now' /\ Rooted(d.record)'
      BY <1>1, <2>1 DEF AccessInv, Rooted
    <2>6. ASSUME NEW h \in history'
          PROVE  h.grant.granted_by \in Root \/
                 \E k \in history' : k.number < h.number /\ Supports(k.grant, h.grant)
      <3>1. CASE h \in history
        BY <2>1, <3>1 DEF AccessInv
      <3>2. CASE h = new
        <4>1. Rooted(c.record)
          BY <2>1 DEF AccessInv
        <4>2. \A k \in history : k.number < h.number
          BY <2>2, <3>2, SMTT(30) DEF AccessInv
        <4>. QED  BY <2>1, <2>2, <3>2, <4>1, <4>2 DEF Rooted
      <3>. QED  BY <2>1, <3>1, <3>2
    <2>. QED  BY <2>3, <2>4, <2>5, <2>6 DEF AccessInv
  <1>3. CASE RevokeOperatorAccess(c)
    <2>1. operator_grants' \subseteq operator_grants /\ history' = history
      BY <1>3 DEF RevokeOperatorAccess
    <2>. QED  BY <1>1, <2>1, SMTT(30) DEF AccessInv, Rooted
  <1>. QED  BY <1>2, <1>3 DEF ApplyAccess

\* Every step keeps the invariant.
LEMMA StepRooted == AccessInv /\ [AccessNext]_accessVars => AccessInv'
  <1>. SUFFICES ASSUME AccessInv, [AccessNext]_accessVars PROVE AccessInv'
    OBVIOUS
  <1>1. ASSUME NEW caller, NEW o, NEW scope, NEW ttl, grant_operator_access(caller, o, scope, ttl)
        PROVE  AccessInv'
    <2>. DEFINE g == [operator_id |-> o, granted_by |-> caller, granted_at |-> now,
                      expires_at |-> now + ttl, scope |-> scope]
                c == [op |-> "grant", record |-> g]
    <2>1. require_cluster_admin_write(caller) /\ AskAccess(c)
      BY <1>1 DEF grant_operator_access
    <2>2. g.granted_by = caller /\ g.granted_at = now /\ c.record = g
      OBVIOUS
    <2>. HIDE DEF g, c
    <2>3. Rooted(g)
      BY <2>1, <2>2, LetThrough
    <2>4. c.record.granted_at \in Int /\ c.record.granted_at <= now /\ Rooted(c.record)
      BY <2>2, <2>3, SMTT(30) DEF AccessInv
    <2>. QED  BY <2>1, <2>4, AskKeeps
  <1>2. ASSUME NEW caller, NEW g, revoke_operator_access(caller, g)
        PROVE  AccessInv'
    <2>. DEFINE c == [op |-> "revoke", record |-> g]
    <2>1. AskAccess(c) /\ c.op # "grant"
      BY <1>2 DEF revoke_operator_access
    <2>. HIDE DEF c
    <2>. QED  BY <2>1, AskKeeps
  <1>3. ASSUME NEW c \in accessAsked, ApplyAccess(c)
        PROVE  AccessInv'
    BY <1>3, ApplyKeeps
  <1>4. CASE AccessTick
    <2>1. now' = now + 1 /\ UNCHANGED <<operator_grants, accessAsked, applied, history>>
      BY <1>4 DEF AccessTick
    <2>. QED  BY <2>1, SMTT(30) DEF AccessInv, Rooted
  <1>5. CASE UNCHANGED accessVars
    BY <1>5 DEF AccessInv, Rooted, accessVars
  <1>. QED  BY <1>1, <1>2, <1>3, <1>4, <1>5 DEF AccessNext

\* Every stored grant leads back to the control plane or to a configured
\* administrator through grants that were applied earlier and had not ended
\* when the next one was requested (grant_operator_access, apply_command).
THEOREM GrantsAreRooted == AccessSpec => []EveryGrantHasARoot
  <1>1. AccessInv => EveryGrantHasARoot
    BY DEF AccessInv, EveryGrantHasARoot
  <1>. QED  BY InitRooted, StepRooted, <1>1, PTL DEF AccessSpec

-----------------------------------------------------------------------------
(* Delegations and evictions.                                              *)

Id == [node : Machine, ordinal : Ordinal \cup {Absent}, at : Int]

DelegationRequest == [cmd : {"IssueDelegation", "UpsertSvidVersion"}, id : Id, clean : BOOLEAN]

\* The inductive invariant.  A request that nothing overtook is still backed by
\* a placement, and a placement is never on an evicted node; so what such a
\* request records is held by a node that is not evicted.
DelegationInv ==
    /\ second \in Int
    /\ hosted \in [Ordinal -> Machine \cup {Absent}]
    /\ wanted \subseteq DelegationRequest
    /\ active \subseteq Id
    /\ \A o \in Ordinal : hosted[o] # Absent => hosted[o] \notin evicted
    /\ \A c \in wanted : c.clean => verify_placement(c.id.node, c.id.ordinal)
    /\ EvictedHoldsNone
    /\ KeyIsOnRecord

\* Nobody hosts or holds anything at first.
LEMMA InitHolds == DelegationInit => DelegationInv
  BY SMTT(30) DEF DelegationInit, DelegationInv, EvictedHoldsNone, KeyIsOnRecord

\* A request that is still backed asks for a node that is not evicted.
LEMMA BackedIsNotEvicted ==
    ASSUME DelegationInv, NEW c \in wanted, c.clean
    PROVE  c.id.node \notin evicted
  <1>1. PICK p \in Ordinal : hosted[p] = c.id.node
    BY DEF DelegationInv, verify_placement
  <1>2. c.id.node # Absent
    BY MachineAssumption DEF DelegationInv, DelegationRequest, Id
  <1>. QED  BY <1>1, <1>2 DEF DelegationInv

\* A request is accepted on a placement that it finds (verify_placement).
LEMMA WantKeeps ==
    ASSUME DelegationInv, NEW c \in DelegationRequest, Want(c)
    PROVE  DelegationInv'
  <1>1. UNCHANGED <<hosted, evicted, active, revokedSet, keys, late, second>> /\ wanted' = wanted \cup {c}
    BY DEF Want, Propose
  <1>2. verify_placement(c.id.node, c.id.ordinal)
    BY DEF Want
  <1>. QED  BY <1>1, <1>2 DEF DelegationInv, EvictedHoldsNone, KeyIsOnRecord, verify_placement

\* The requests a change of placements overtakes are requests; those it does
\* not are for other nodes.
LEMMA OvertakenIs ==
    ASSUME DelegationInv, NEW n
    PROVE  /\ Overtaken(n) \subseteq DelegationRequest
           /\ \A d \in Overtaken(n) : d.clean =>
                 \E c \in wanted : c.clean /\ c.id.node # n /\ d.id = c.id
  <1>1. \A d \in Overtaken(n) : \E c \in wanted : d = [c EXCEPT !.clean = c.clean /\ c.id.node # n]
    BY DEF Overtaken
  <1>2. \A c \in wanted : c \in DelegationRequest
    BY DEF DelegationInv
  <1>. QED  BY <1>1, <1>2 DEF DelegationRequest

\* What is recorded was backed until now, or is marked as late.
LEMMA IssueKeeps ==
    ASSUME DelegationInv, NEW c \in wanted, IssueDelegation(c)
    PROVE  DelegationInv'
  <1>1. UNCHANGED <<hosted, evicted, revokedSet, second>> /\ wanted' = wanted \ {c}
    BY DEF IssueDelegation
  <1>2. c \in DelegationRequest
    BY DEF DelegationInv
  <1>3. CASE c.cmd = "IssueDelegation"
    <2>1. active' = active \cup {c.id} /\ keys' = keys \cup {c.id}
          /\ late' = IF c.clean THEN late ELSE late \cup {c.id}
      BY <1>3 DEF IssueDelegation
    <2>2. c.clean => c.id.node \notin evicted
      BY BackedIsNotEvicted
    <2>3. EvictedHoldsNone'
      BY <1>1, <2>1, <2>2 DEF DelegationInv, EvictedHoldsNone
    <2>4. active' \subseteq Id
      BY <1>2, <2>1 DEF DelegationInv, DelegationRequest
    <2>5. KeyIsOnRecord'
      BY <1>1, <2>1 DEF DelegationInv, KeyIsOnRecord
    <2>. QED  BY <1>1, <2>3, <2>4, <2>5 DEF DelegationInv, verify_placement
  <1>4. CASE c.cmd # "IssueDelegation"
    <2>1. UNCHANGED <<active, keys, late>>
      BY <1>4 DEF IssueDelegation
    <2>. QED  BY <1>1, <2>1 DEF DelegationInv, EvictedHoldsNone, KeyIsOnRecord, verify_placement
  <1>. QED  BY <1>3, <1>4

\* A pod is placed on a node that is not evicted, in a slot nobody relied on.
LEMMA PlaceKeeps ==
    ASSUME DelegationInv, NEW o \in Ordinal, NEW n \in Machine, Place(o, n)
    PROVE  DelegationInv'
  <1>1. UNCHANGED <<evicted, active, revokedSet, wanted, keys, late, second>>
        /\ hosted' = [hosted EXCEPT ![o] = n] /\ hosted[o] = Absent /\ n \notin evicted
    BY DEF Place
  <1>2. hosted' \in [Ordinal -> Machine \cup {Absent}]
    BY <1>1 DEF DelegationInv
  <1>3. \A p \in Ordinal : hosted'[p] # Absent => hosted'[p] \notin evicted
    BY <1>1 DEF DelegationInv
  <1>4. ASSUME NEW c \in wanted, c.clean
        PROVE  verify_placement(c.id.node, c.id.ordinal)'
    <2>1. PICK p \in Ordinal : hosted[p] = c.id.node /\ (c.id.ordinal # Absent => p = c.id.ordinal)
      BY <1>4 DEF DelegationInv, verify_placement
    <2>2. p # o
      BY <1>1, <2>1, MachineAssumption DEF DelegationInv, DelegationRequest, Id
    <2>3. hosted'[p] = hosted[p]
      BY <1>1, <2>2 DEF DelegationInv
    <2>. QED  BY <2>1, <2>3 DEF verify_placement
  <1>. QED  BY <1>1, <1>2, <1>3, <1>4 DEF DelegationInv, EvictedHoldsNone, KeyIsOnRecord

\* Pods that leave a node overtake the requests for it, and no others.
LEMMA LeaveKeeps ==
    ASSUME DelegationInv, NEW n, NEW P \in SUBSET Ordinal,
           \A p \in P : hosted[p] = n,
           hosted' = [p \in Ordinal |-> IF p \in P THEN Absent ELSE hosted[p]],
           wanted' = Overtaken(n)
    PROVE  /\ hosted' \in [Ordinal -> Machine \cup {Absent}] /\ wanted' \subseteq DelegationRequest
           /\ \A d \in wanted' : d.clean => verify_placement(d.id.node, d.id.ordinal)'
  <1>1. hosted' \in [Ordinal -> Machine \cup {Absent}]
    BY DEF DelegationInv
  <1>2. ASSUME NEW d \in wanted', d.clean
        PROVE  verify_placement(d.id.node, d.id.ordinal)'
    <2>1. PICK c \in wanted : c.clean /\ c.id.node # n /\ d.id = c.id
      BY <1>2, OvertakenIs
    <2>2. PICK p \in Ordinal : hosted[p] = c.id.node /\ (c.id.ordinal # Absent => p = c.id.ordinal)
      BY <2>1 DEF DelegationInv, verify_placement
    <2>3. hosted'[p] = hosted[p]
      BY <2>1, <2>2
    <2>. QED  BY <2>1, <2>2, <2>3 DEF verify_placement
  <1>. QED  BY <1>1, <1>2, OvertakenIs

\* A pod leaves its node.
LEMMA UnplaceKeeps ==
    ASSUME DelegationInv, NEW o \in Ordinal, Unplace(o)
    PROVE  DelegationInv'
  <1>1. UNCHANGED <<evicted, active, revokedSet, keys, late, second>>
        /\ hosted' = [hosted EXCEPT ![o] = Absent] /\ wanted' = Overtaken(hosted[o])
    BY DEF Unplace
  <1>2. hosted' = [p \in Ordinal |-> IF p \in {o} THEN Absent ELSE hosted[p]]
    BY <1>1 DEF DelegationInv
  <1>3. /\ hosted' \in [Ordinal -> Machine \cup {Absent}] /\ wanted' \subseteq DelegationRequest
        /\ \A d \in wanted' : d.clean => verify_placement(d.id.node, d.id.ordinal)'
    <2>1. {o} \in SUBSET Ordinal /\ \A p \in {o} : hosted[p] = hosted[o]
      OBVIOUS
    <2>. QED  BY <1>1, <1>2, <2>1, LeaveKeeps
  <1>4. \A p \in Ordinal : hosted'[p] # Absent => hosted'[p] \notin evicted
    BY <1>2 DEF DelegationInv
  <1>. QED  BY <1>1, <1>3, <1>4 DEF DelegationInv, EvictedHoldsNone, KeyIsOnRecord

\* An eviction takes pods and delegations of the node, and overtakes what it
\* has asked for (EvictNode of apply_command).
LEMMA EvictKeeps ==
    ASSUME DelegationInv, NEW n \in Machine, EvictNode(n)
    PROVE  DelegationInv'
  <1>1. /\ UNCHANGED <<keys, late, second>> /\ evicted' = evicted \cup {n}
        /\ active' = active \ HeldBy(n) /\ revokedSet' = revokedSet \cup HeldBy(n)
        /\ hosted' = [p \in Ordinal |-> IF hosted[p] = n THEN Absent ELSE hosted[p]]
        /\ wanted' = Overtaken(n)
    BY DEF EvictNode, ToRevoke, Kept
  <1>2. hosted' = [p \in Ordinal |-> IF p \in {q \in Ordinal : hosted[q] = n} THEN Absent ELSE hosted[p]]
    BY <1>1
  <1>3. /\ hosted' \in [Ordinal -> Machine \cup {Absent}] /\ wanted' \subseteq DelegationRequest
        /\ \A d \in wanted' : d.clean => verify_placement(d.id.node, d.id.ordinal)'
    BY <1>1, <1>2, LeaveKeeps
  <1>4. \A p \in Ordinal : hosted'[p] # Absent => hosted'[p] \notin evicted'
    BY <1>1 DEF DelegationInv
  <1>5. EvictedHoldsNone'
    BY <1>1 DEF DelegationInv, EvictedHoldsNone, HeldBy
  <1>6. KeyIsOnRecord' /\ active' \subseteq Id
    BY <1>1 DEF DelegationInv, KeyIsOnRecord
  <1>. QED  BY <1>1, <1>3, <1>4, <1>5, <1>6 DEF DelegationInv

\* Every step keeps the invariant.
LEMMA StepHolds == DelegationInv /\ [DelegationNext]_delegationVars => DelegationInv'
  <1> SUFFICES ASSUME DelegationInv, [DelegationNext]_delegationVars PROVE DelegationInv'
    OBVIOUS
  <1>1. ASSUME NEW n \in Machine, NEW o \in Ordinal \cup {Absent},
               request_delegated_key(n, o) \/ admin_request_delegated_key(n, o)
        PROVE  DelegationInv'
    <2>1. compute_delegation_id(n, o) \in Id
      BY DEF compute_delegation_id, Id, DelegationInv
    <2>2. [cmd |-> "IssueDelegation", id |-> compute_delegation_id(n, o), clean |-> TRUE] \in DelegationRequest
      BY <2>1 DEF DelegationRequest
    <2>. QED  BY <1>1, <2>2, WantKeeps DEF request_delegated_key, admin_request_delegated_key
  <1>2. ASSUME NEW n \in Machine, NEW o \in Ordinal, authorize_authenticated(n, o)
        PROVE  DelegationInv'
    <2>1. compute_delegation_id(n, o) \in Id
      BY DEF compute_delegation_id, Id, DelegationInv
    <2>2. [cmd |-> "UpsertSvidVersion", id |-> compute_delegation_id(n, o), clean |-> TRUE] \in DelegationRequest
      BY <2>1 DEF DelegationRequest
    <2>. QED  BY <1>2, <2>2, WantKeeps DEF authorize_authenticated
  <1>3. CASE Second
    BY <1>3, SMTT(30) DEF Second, DelegationInv, EvictedHoldsNone, KeyIsOnRecord, verify_placement
  <1>4. CASE UNCHANGED delegationVars
    BY <1>4 DEF delegationVars, DelegationInv, EvictedHoldsNone, KeyIsOnRecord, verify_placement
  <1>. QED  BY <1>1, <1>2, <1>3, <1>4, IssueKeeps, PlaceKeeps, UnplaceKeeps, EvictKeeps DEF DelegationNext

\* An evicted node holds no delegation but those that were under way when it
\* lost its pods, and every key handed out is on record as active or revoked
\* (EvictNode, request_delegated_key).
THEOREM EvictionEndsDelegations == DelegationSpec => [](EvictedHoldsNone /\ KeyIsOnRecord)
  <1>1. DelegationInv => EvictedHoldsNone /\ KeyIsOnRecord
    BY DEF DelegationInv
  <1>. QED  BY <1>1, InitHolds, StepHolds, PTL DEF DelegationSpec

\* A delegation or certificate that nothing overtook is recorded while the node
\* hosts the pod it is for (verify_placement, IssueDelegation).
THEOREM IssuedWhereHosted == DelegationSpec => HostedWhenIssued
  <1>1. ASSUME DelegationInv, NEW c \in wanted, c.clean
        PROVE  IF c.id.ordinal = Absent THEN \E o \in Ordinal : hosted[o] = c.id.node
               ELSE hosted[c.id.ordinal] = c.id.node
    BY <1>1 DEF DelegationInv, verify_placement
  <1>2. DelegationInv =>
          \A c \in wanted : IssueDelegation(c) /\ c.clean =>
              IF c.id.ordinal = Absent THEN \E o \in Ordinal : hosted[o] = c.id.node
              ELSE hosted[c.id.ordinal] = c.id.node
    BY <1>1
  <1>. QED  BY <1>2, InitHolds, StepHolds, PTL DEF DelegationSpec, HostedWhenIssued

-----------------------------------------------------------------------------
(* Blocks and addresses.                                                   *)

\* Blocks do not overlap.
LEMMA BlocksAreApart ==
    ASSUME NEW i \in Nat, NEW j \in Nat, NEW M \in Nat, NEW a \in 0 .. M - 1, NEW b \in 0 .. M - 1, i # j
    PROVE  i * M + a # j * M + b
  <1>1. ASSUME NEW x \in Nat, NEW y \in Nat, x < y PROVE x * M + M <= y * M
    <2>1. PICK d \in Nat : y = x + 1 + d
      <3>1. y - x - 1 \in Nat /\ y = x + 1 + (y - x - 1)
        BY <1>1, SMTT(30)
      <3>. QED  BY <3>1
    <2>2. y * M = x * M + M + d * M
      BY <2>1, SMTT(30)
    <2>3. d * M \in Nat /\ x * M \in Nat
      BY SMTT(30)
    <2>. QED  BY <2>2, <2>3, SMTT(30)
  <1>2. i * M \in Nat /\ j * M \in Nat
    BY SMTT(30)
  <1>3. i < j => i * M + M <= j * M
    BY <1>1
  <1>4. j < i => j * M + M <= i * M
    BY <1>1
  <1>. QED  BY <1>2, <1>3, <1>4, SMTT(30)

\* The addresses given out from a block.
GivenOut(b) == block_base(b.index) .. block_base(b.index) + b.next_offset - 1

\* What is stored: every tenant has a block of its own, and every address is
\* one that its tenant's block has given out, to one service.
Separate ==
    /\ block \in [Tenant -> {Absent} \cup BlockRecord]
    /\ address \in [Tenant \X Service -> {Absent} \cup Nat]
    /\ \A t, u \in Tenant : t # u /\ block[t] # Absent /\ block[u] # Absent => block[t].index # block[u].index
    /\ \A t \in Tenant, s \in Service : address[<<t, s>>] # Absent => block[t] # Absent /\ address[<<t, s>>] \in GivenOut(block[t])
    /\ \A t \in Tenant, r, s \in Service : r # s /\ address[<<t, r>>] # Absent => address[<<t, r>>] # address[<<t, s>>]

\* A command that was computed from the state as it is.
Current(c) ==
    /\ c.cmd = "CreateTenant" =>
          /\ c.tenant \in Tenant /\ block[c.tenant] = Absent
          /\ c.block \in BlockRecord /\ c.block.index \notin used_block_indices
    /\ c.cmd = "AllocateServiceAddress" =>
          /\ c.tenant \in Tenant /\ c.service \in Service
          /\ address[<<c.tenant, c.service>>] = Absent
          /\ HasRoom(c.tenant)
          /\ c.block = [block[c.tenant] EXCEPT !.next_offset = @ + 1]
          /\ c.address = block_base(block[c.tenant].index) + block[c.tenant].next_offset

(***************************************************************************)
(* The state machine writes what it is given, so the property rests on the *)
(* commands in flight: one that nothing overtook fits the state as it is,  *)
(* since whatever is applied overtakes all others.                         *)
(***************************************************************************)
AdmissionInv ==
    /\ overtaken \in BOOLEAN
    /\ \A c \in asked : "clean" \in DOMAIN c /\ c.clean \in BOOLEAN
    /\ overtaken \/ (Separate /\ \A c \in asked : c.clean => Current(c))

\* No tenant has a block at first.
LEMMA AdmissionInitHolds == ASSUME NEW pods, AdmissionInit(pods) PROVE AdmissionInv
  BY DEF AdmissionInit, AdmissionInv, Separate

\* A request changes nothing stored.
LEMMA RequestKeeps ==
    ASSUME AdmissionInv, NEW c, Request(c), "clean" \in DOMAIN c, c.clean \in BOOLEAN, Separate => Current(c)
    PROVE  AdmissionInv'
  <1>1. asked' = asked \cup {c} /\ UNCHANGED <<block, address, overtaken>>
    BY DEF Request, Propose
  <1>2. Separate' <=> Separate
    BY <1>1 DEF Separate, GivenOut, block_base
  <1>3. \A d : Current(d)' <=> Current(d)
    BY <1>1 DEF Current, used_block_indices, HasRoom, block_base
  <1>. QED  BY <1>1, <1>2, <1>3 DEF AdmissionInv

\* A command is applied, which no other command in flight has seen.
LEMMA OvertakeKeeps ==
    ASSUME AdmissionInv, NEW c \in asked, asked' = Overtake(asked, c), overtaken' = (overtaken \/ ~c.clean),
           Separate /\ Current(c) => Separate'
    PROVE  AdmissionInv'
  <1>1. \A d \in asked' : "clean" \in DOMAIN d /\ d.clean = FALSE
    BY DEF Overtake, AdmissionInv
  <1>. QED  BY <1>1 DEF AdmissionInv

\* create_tenant takes an unused block.
LEMMA CreateAsks ==
    ASSUME AdmissionInv, NEW t \in Tenant, create_tenant(t)
    PROVE  AdmissionInv'
  <1>1. PICK i \in (0 .. MaxBlocks - 1) \ used_block_indices :
            Request([cmd |-> "CreateTenant", clean |-> TRUE, tenant |-> t, block |-> [index |-> i, next_offset |-> 0]])
    BY DEF create_tenant
  <1> DEFINE c == [cmd |-> "CreateTenant", clean |-> TRUE, tenant |-> t, block |-> [index |-> i, next_offset |-> 0]]
  <1>2. [index |-> i, next_offset |-> 0] \in BlockRecord
    BY AdmissionAssumption, SMTT(30) DEF BlockRecord
  <1>3. Current(c)
    BY <1>2 DEF Current, create_tenant
  <1>4. "clean" \in DOMAIN c /\ c.clean \in BOOLEAN
    OBVIOUS
  <1> HIDE DEF c
  <1>. QED  BY <1>1, <1>3, <1>4, RequestKeeps DEF c

\* allocate_service_addresses takes the next address of the tenant's block.
LEMMA AllocateAsks ==
    ASSUME AdmissionInv, NEW t \in Tenant, NEW s \in Service, allocate_service_addresses(t, s)
    PROVE  AdmissionInv'
  <1> DEFINE c == [cmd |-> "AllocateServiceAddress", clean |-> TRUE, tenant |-> t, service |-> s,
                   block |-> [block[t] EXCEPT !.next_offset = @ + 1],
                   address |-> block_base(block[t].index) + block[t].next_offset]
  <1>1. Request(c)
    BY DEF allocate_service_addresses
  <1>2. Current(c)
    BY DEF Current, allocate_service_addresses
  <1>3. "clean" \in DOMAIN c /\ c.clean \in BOOLEAN
    OBVIOUS
  <1> HIDE DEF c
  <1>. QED  BY <1>1, <1>2, <1>3, RequestKeeps

\* The other requests are no concern of the allocator.
LEMMA OthersAsk ==
    ASSUME AdmissionInv, AdmissionOf(Tenant, Service)
    PROVE  AdmissionInv'
  <1>1. ASSUME NEW t \in Tenant, submit_cron_workload(t) PROVE AdmissionInv'
    <2> DEFINE c == [cmd |-> "SubmitCronWorkload", clean |-> TRUE, tenant |-> t]
    <2>1. Request(c) /\ "clean" \in DOMAIN c /\ c.clean \in BOOLEAN
      BY <1>1 DEF submit_cron_workload
    <2>2. Current(c)
      BY DEF Current
    <2> HIDE DEF c
    <2>. QED  BY <2>1, <2>2, RequestKeeps
  <1>2. ASSUME NEW t \in Tenant, NEW q \in QuotaOf, set_quota(t, q) PROVE AdmissionInv'
    <2> DEFINE c == [cmd |-> "SetTenantQuota", clean |-> TRUE, tenant |-> t, quota |-> q]
    <2>1. Request(c) /\ "clean" \in DOMAIN c /\ c.clean \in BOOLEAN
      BY <1>2 DEF set_quota
    <2>2. Current(c)
      BY DEF Current
    <2> HIDE DEF c
    <2>. QED  BY <2>1, <2>2, RequestKeeps
  <1>3. ASSUME NEW t \in Tenant, NEW s \in Service, delete_workload(t, s) PROVE AdmissionInv'
    <2> DEFINE c == [cmd |-> "DeleteWorkload", clean |-> TRUE, tenant |-> t, service |-> s]
    <2>1. Request(c) /\ "clean" \in DOMAIN c /\ c.clean \in BOOLEAN
      BY <1>3 DEF delete_workload
    <2>2. Current(c)
      BY DEF Current
    <2> HIDE DEF c
    <2>. QED  BY <2>1, <2>2, RequestKeeps
  <1>4. ASSUME NEW t \in Tenant, NEW s \in Service, NEW n \in Replicas, submit_workload_spec(t, s, n) PROVE AdmissionInv'
    <2> DEFINE c == [cmd |-> "SubmitWorkloadSpec", clean |-> TRUE, tenant |-> t, service |-> s, replicas |-> n]
    <2>1. Request(c) /\ "clean" \in DOMAIN c /\ c.clean \in BOOLEAN
      BY <1>4 DEF submit_workload_spec
    <2>2. Current(c)
      BY DEF Current
    <2> HIDE DEF c
    <2>. QED  BY <2>1, <2>2, RequestKeeps
  <1>5. ASSUME NEW t \in Tenant, NEW s \in Service, NEW n \in Replicas, scale_workload(t, s, n) PROVE AdmissionInv'
    <2> DEFINE c == [cmd |-> "ScaleWorkload", clean |-> TRUE, tenant |-> t, service |-> s, replicas |-> n]
    <2>1. Request(c) /\ "clean" \in DOMAIN c /\ c.clean \in BOOLEAN
      BY <1>5 DEF scale_workload
    <2>2. Current(c)
      BY DEF Current
    <2> HIDE DEF c
    <2>. QED  BY <2>1, <2>2, RequestKeeps
  <1>. QED  BY <1>1, <1>2, <1>3, <1>4, <1>5 DEF AdmissionOf

\* A tenant gets its block.
LEMMA CreateKeeps ==
    ASSUME NEW c, ApplyCreateTenant(c), Separate, Current(c)
    PROVE  Separate'
  <1>1. c.tenant \in Tenant /\ block[c.tenant] = Absent /\ c.block \in BlockRecord /\ c.block.index \notin used_block_indices
    BY DEF Current, ApplyCreateTenant
  <1>2. /\ block' \in [Tenant -> {Absent} \cup BlockRecord]
        /\ \A t \in Tenant : block'[t] = IF t = c.tenant THEN c.block ELSE block[t]
        /\ address' = address
    BY <1>1 DEF Separate, ApplyCreateTenant
  <1>3. \A t \in Tenant : block[t] # Absent => block[t].index # c.block.index
    BY <1>1 DEF used_block_indices
  <1>4. \A t, u \in Tenant : t # u /\ block'[t] # Absent /\ block'[u] # Absent => block'[t].index # block'[u].index
    BY <1>2, <1>3 DEF Separate
  <1>5. \A t \in Tenant, s \in Service : address'[<<t, s>>] # Absent =>
            t # c.tenant /\ block'[t] # Absent /\ address'[<<t, s>>] \in GivenOut(block'[t])
    BY <1>1, <1>2 DEF Separate, GivenOut, block_base
  <1>. QED  BY <1>2, <1>4, <1>5 DEF Separate

\* A service gets its address.
LEMMA AddressKeeps ==
    ASSUME NEW c, ApplyServiceAddress(c), Separate, Current(c)
    PROVE  Separate'
  <1>1. PICK t \in Tenant, s \in Service :
            /\ t = c.tenant /\ s = c.service
            /\ address[<<t, s>>] = Absent
            /\ block[t] # Absent /\ block[t].next_offset < MaxHosts
            /\ c.block = [block[t] EXCEPT !.next_offset = @ + 1]
            /\ c.address = block_base(block[t].index) + block[t].next_offset
    BY DEF Current, ApplyServiceAddress, HasRoom
  <1>2. block[t] \in BlockRecord
    BY <1>1 DEF Separate
  <1>3. PICK base \in Nat, off \in Nat : base = block_base(block[t].index) /\ off = block[t].next_offset
    BY <1>2, AdmissionAssumption, SMTT(30) DEF BlockRecord, block_base
  <1>4. PICK new \in BlockRecord : new = c.block /\ new.index = block[t].index /\ new.next_offset = off + 1
    BY <1>1, <1>2, <1>3, AdmissionAssumption, SMTT(30) DEF BlockRecord
  <1>5. block' = [block EXCEPT ![t] = new] /\ address' = [address EXCEPT ![<<t, s>>] = base + off]
    BY <1>1, <1>3, <1>4 DEF ApplyServiceAddress
  <1>6. /\ block' \in [Tenant -> {Absent} \cup BlockRecord]
        /\ \A u \in Tenant : block'[u] = IF u = t THEN new ELSE block[u]
    BY <1>5 DEF Separate
  <1>7. /\ address' \in [Tenant \X Service -> {Absent} \cup Nat]
        /\ \A u \in Tenant, r \in Service : address'[<<u, r>>] = IF u = t /\ r = s THEN base + off ELSE address[<<u, r>>]
    BY <1>5, SMTT(30) DEF Separate
  <1>8. address[<<t, s>>] = Absent /\ block[t] # Absent /\ new # Absent
    BY <1>1, AdmissionAssumption
  <1>9. \A u, v \in Tenant : u # v /\ block'[u] # Absent /\ block'[v] # Absent => block'[u].index # block'[v].index
    BY <1>4, <1>6, <1>8, SMTT(30) DEF Separate
  <1>10. GivenOut(block[t]) = base .. base + off - 1 /\ GivenOut(new) = base .. base + off
    BY <1>3, <1>4, SMTT(30) DEF GivenOut
  <1>11. \A u \in Tenant, r \in Service : address'[<<u, r>>] # Absent => block'[u] # Absent /\ address'[<<u, r>>] \in GivenOut(block'[u])
    <2> SUFFICES ASSUME NEW u \in Tenant, NEW r \in Service, address'[<<u, r>>] # Absent
                 PROVE  block'[u] # Absent /\ address'[<<u, r>>] \in GivenOut(block'[u])
      OBVIOUS
    <2>1. CASE u # t
      BY <1>6, <1>7, <2>1 DEF Separate
    <2>2. CASE u = t /\ r = s
      BY <1>6, <1>7, <1>8, <1>10, <2>2, SMTT(30)
    <2>3. CASE u = t /\ r # s
      <3>1. address[<<u, r>>] \in base .. base + off - 1
        BY <1>7, <1>10, <2>3 DEF Separate
      <3>. QED  BY <1>6, <1>7, <1>8, <1>10, <2>3, <3>1, SMTT(30)
    <2>. QED  BY <2>1, <2>2, <2>3
  <1>12. \A r \in Service : address[<<t, r>>] # Absent => address[<<t, r>>] # base + off
    BY <1>10, SMTT(30) DEF Separate
  <1>13. \A u \in Tenant, r, q \in Service : r # q /\ address'[<<u, r>>] # Absent => address'[<<u, r>>] # address'[<<u, q>>]
    <2>1. base + off # Absent
      BY AdmissionAssumption, SMTT(30)
    <2>. QED  BY <1>7, <1>8, <1>12, <2>1, SMTT(30) DEF Separate
  <1>. QED  BY <1>6, <1>7, <1>9, <1>11, <1>13 DEF Separate

\* Whatever is applied.
LEMMA ApplyKeepsSeparate ==
    ASSUME AdmissionInv, NEW c \in asked, ApplyAsked(c)
    PROVE  AdmissionInv'
  <1>1. Separate /\ Current(c) => Separate'
    <2>1. CASE ApplyCreateTenant(c)
      BY <2>1, CreateKeeps
    <2>2. CASE ApplyServiceAddress(c)
      BY <2>2, AddressKeeps
    <2>3. CASE UNCHANGED <<block, address>>
      BY <2>3 DEF Separate, GivenOut, block_base
    <2>. QED  BY <2>1, <2>2, <2>3 DEF ApplyAsked, ApplyWorkload, ApplyCronRecord, ApplyTenantQuota
  <1>. QED  BY <1>1, OvertakeKeeps DEF ApplyAsked

\* Blocks of their own and addresses within them make all addresses distinct.
LEMMA SeparateAddresses == Separate => AddressesAreSeparate
  <1> SUFFICES ASSUME Separate, NEW j \in Tenant \X Service, NEW k \in Tenant \X Service,
                      address[j] # Absent, address[k] # Absent
               PROVE  /\ j # k => address[j] # address[k]
                      /\ block[k[1]] # Absent
                      /\ address[k] \in GivenOut(block[k[1]])
    BY DEF AddressesAreSeparate, GivenOut
  <1>1. PICK t \in Tenant, s \in Service : j = <<t, s>>
    BY SMTT(30)
  <1>2. PICK u \in Tenant, r \in Service : k = <<u, r>>
    BY SMTT(30)
  <1>3. /\ block[t] # Absent /\ address[j] \in GivenOut(block[t])
        /\ block[u] # Absent /\ address[k] \in GivenOut(block[u])
    BY <1>1, <1>2 DEF Separate
  <1>4. CASE t = u
    BY <1>1, <1>2, <1>3, <1>4 DEF Separate
  <1>5. CASE t # u
    <2>1. block[t] \in BlockRecord /\ block[u] \in BlockRecord /\ block[t].index # block[u].index
      BY <1>3, <1>5 DEF Separate
    <2>2. /\ block[t].index \in Nat /\ block[u].index \in Nat
          /\ block[t].next_offset \in 0 .. MaxHosts /\ block[u].next_offset \in 0 .. MaxHosts
      BY <2>1, AdmissionAssumption, SMTT(30) DEF BlockRecord
    <2>3. block_base(block[t].index) \in Nat /\ block_base(block[u].index) \in Nat
      BY <2>2, AdmissionAssumption, SMTT(30) DEF block_base
    <2>4. PICK a \in 0 .. MaxHosts - 1 : address[j] = block_base(block[t].index) + a
      <3>1. address[j] - block_base(block[t].index) \in 0 .. MaxHosts - 1
        BY <1>3, <2>2, <2>3, AdmissionAssumption, SMTT(30) DEF GivenOut
      <3>2. address[j] = block_base(block[t].index) + (address[j] - block_base(block[t].index))
        BY <1>3, <2>2, <2>3, SMTT(30) DEF GivenOut
      <3>. QED  BY <3>1, <3>2
    <2>5. PICK b \in 0 .. MaxHosts - 1 : address[k] = block_base(block[u].index) + b
      <3>1. address[k] - block_base(block[u].index) \in 0 .. MaxHosts - 1
        BY <1>3, <2>2, <2>3, AdmissionAssumption, SMTT(30) DEF GivenOut
      <3>2. address[k] = block_base(block[u].index) + (address[k] - block_base(block[u].index))
        BY <1>3, <2>2, <2>3, SMTT(30) DEF GivenOut
      <3>. QED  BY <3>1, <3>2
    <2>6. address[j] # address[k]
      BY <2>1, <2>2, <2>4, <2>5, BlocksAreApart, AdmissionAssumption DEF block_base
    <2>. QED  BY <1>2, <1>3, <2>6
  <1>. QED  BY <1>4, <1>5

\* As long as every command was applied to the state it was computed from, no
\* two services share an address and every address lies in its tenant's block,
\* for any number of tenants, blocks and addresses (the allocator).
THEOREM ServicesHaveOwnAddresses == AdmissionSpec => []AddressesAreSeparate
  <1>1. AdmissionStart => AdmissionInv
    BY AdmissionInitHolds DEF AdmissionStart
  <1>2. AdmissionInv /\ [AdmissionNext]_admissionVars => AdmissionInv'
    <2> SUFFICES ASSUME AdmissionInv, [AdmissionNext]_admissionVars PROVE AdmissionInv'
      OBVIOUS
    <2>1. CASE UNCHANGED admissionVars
      BY <2>1 DEF AdmissionInv, admissionVars, Separate, Current, GivenOut, block_base, used_block_indices, HasRoom
    <2>2. CASE AdmissionOf(Tenant, Service)
      BY <2>2, OthersAsk
    <2>3. CASE AllocationOf(Tenant)
      BY <2>3, CreateAsks, AllocateAsks DEF AllocationOf
    <2>4. CASE ApplyAny
      BY <2>4, ApplyKeepsSeparate DEF ApplyAny
    <2>. QED  BY <2>1, <2>2, <2>3, <2>4 DEF AdmissionNext
  <1>3. AdmissionInv => AddressesAreSeparate
    BY SeparateAddresses DEF AdmissionInv, AddressesAreSeparate
  <1>. QED  BY <1>1, <1>2, <1>3, PTL DEF AdmissionSpec

-----------------------------------------------------------------------------
(* Deliveries of a secret.                                                 *)

IsFetch(f) ==
    /\ DOMAIN f = {"reader", "version", "step", "value", "key", "clean"}
    /\ f.reader \in Reader /\ f.clean \in BOOLEAN

\* What a fetch that nothing overtook has read is what is stored, as far as it
\* has come.
StillRight(f) ==
    /\ svid[f.reader].version = f.version
    /\ f.step \in {"allowed", "opened", "keyed"} => secret # Absent /\ f.reader \in secret.acl
    /\ f.step \in {"opened", "keyed"} => f.value = secret.value
    /\ f.step = "keyed" => f.key = svid[f.reader].key

SecretInv ==
    /\ svid \in [Reader -> [version : Int, key : Int]]
    /\ \A f \in fetches : IsFetch(f)
    /\ \A f \in fetches : f.clean => StillRight(f)

\* Nothing is fetched at first.
LEMMA SecretInitHolds == SecretInit => SecretInv
  BY SMTT(30) DEF SecretInit, SecretInv

\* Steps that touch neither what is stored nor the fetches.
LEMMA FetchesUntouched ==
    ASSUME SecretInv, UNCHANGED <<secret, svid, fetches>>
    PROVE  SecretInv'
  BY DEF SecretInv, IsFetch, StillRight

\* fetch_secret reads the certificate version.
LEMMA FetchStarts ==
    ASSUME SecretInv, NEW r \in Reader, NEW v, fetch_secret(r, v)
    PROVE  SecretInv'
  <1> DEFINE new == [reader |-> r, version |-> v, step |-> "checked", value |-> Absent, key |-> 0, clean |-> TRUE]
  <1>1. fetches' = fetches \cup {new} /\ UNCHANGED <<secret, svid>> /\ svid[r].version = v
    BY DEF fetch_secret
  <1>2. IsFetch(new) /\ StillRight(new)
    BY <1>1 DEF IsFetch, StillRight
  <1> HIDE DEF new
  <1>. QED  BY <1>1, <1>2 DEF SecretInv, IsFetch, StillRight

\* A fetch reads the next record, or gives up.
LEMMA FetchMoves ==
    ASSUME SecretInv, NEW f \in fetches, authorize(f) \/ load_envelope(f) \/ lookup_x25519_pubkey(f)
    PROVE  SecretInv'
  <1>1. UNCHANGED <<secret, svid>>
    BY DEF authorize, load_envelope, lookup_x25519_pubkey, Move
  <1>2. IsFetch(f)
    BY DEF SecretInv
  <1>3. CASE fetches' = fetches \ {f}
    BY <1>1, <1>3 DEF SecretInv, IsFetch, StillRight
  <1>4. CASE f.step = "checked" /\ is_authorized(f.reader) /\ fetches' = (fetches \ {f}) \cup {[f EXCEPT !.step = "allowed"]}
    <2> DEFINE new == [f EXCEPT !.step = "allowed"]
    <2>1. IsFetch(new) /\ (new.clean => f.clean /\ StillRight(new))
      BY <1>2, <1>4 DEF IsFetch, StillRight, is_authorized, SecretInv
    <2>2. fetches' = (fetches \ {f}) \cup {new}
      BY <1>4
    <2> HIDE DEF new
    <2>. QED  BY <1>1, <2>1, <2>2 DEF SecretInv, IsFetch, StillRight
  <1>5. CASE f.step = "allowed" /\ fetches' = (fetches \ {f}) \cup {[f EXCEPT !.step = "opened", !.value = secret.value]}
    <2> DEFINE new == [f EXCEPT !.step = "opened", !.value = secret.value]
    <2>0. f.clean => StillRight(f)
      BY DEF SecretInv
    <2>1. /\ DOMAIN new = DOMAIN f /\ new.reader = f.reader /\ new.version = f.version /\ new.clean = f.clean
          /\ new.step = "opened" /\ new.value = secret.value /\ new.key = f.key
      BY <1>2 DEF IsFetch
    <2>2. fetches' = (fetches \ {f}) \cup {new}
      BY <1>5
    <2> HIDE DEF new
    <2>3. IsFetch(new) /\ (new.clean => StillRight(new))
      BY <1>2, <1>5, <2>0, <2>1 DEF IsFetch, StillRight
    <2>. QED  BY <1>1, <2>2, <2>3 DEF SecretInv, IsFetch, StillRight
  <1>6. CASE f.step = "opened" /\ fetches' = (fetches \ {f}) \cup {[f EXCEPT !.step = "keyed", !.key = svid[f.reader].key]}
    <2> DEFINE new == [f EXCEPT !.step = "keyed", !.key = svid[f.reader].key]
    <2>0. f.clean => StillRight(f)
      BY DEF SecretInv
    <2>1. /\ DOMAIN new = DOMAIN f /\ new.reader = f.reader /\ new.version = f.version /\ new.clean = f.clean
          /\ new.step = "keyed" /\ new.value = f.value /\ new.key = svid[f.reader].key
      BY <1>2 DEF IsFetch
    <2>2. fetches' = (fetches \ {f}) \cup {new}
      BY <1>6
    <2> HIDE DEF new
    <2>3. IsFetch(new) /\ (new.clean => StillRight(new))
      BY <1>2, <1>6, <2>0, <2>1 DEF IsFetch, StillRight
    <2>. QED  BY <1>1, <2>2, <2>3 DEF SecretInv, IsFetch, StillRight
  <1>. QED  BY <1>3, <1>4, <1>5, <1>6 DEF authorize, load_envelope, lookup_x25519_pubkey, Move

\* A change of the secret overtakes every fetch.
LEMMA EditKeepsFetches ==
    ASSUME SecretInv, NEW c \in edits, ApplyEdit(c)
    PROVE  SecretInv'
  <1>1. \A x \in fetches' : IsFetch(x) /\ ~x.clean
    <2> SUFFICES ASSUME NEW x \in fetches' PROVE IsFetch(x) /\ ~x.clean
      OBVIOUS
    <2>1. PICK f \in fetches : x = [f EXCEPT !.clean = FALSE]
      BY DEF ApplyEdit
    <2>2. IsFetch(f)
      BY DEF SecretInv
    <2>. QED  BY <2>1, <2>2 DEF IsFetch
  <1>2. svid' = svid
    BY DEF ApplyEdit
  <1>. QED  BY <1>1, <1>2 DEF SecretInv, IsFetch

\* A new certificate overtakes the fetches of its reader.
LEMMA RotationKeepsFetches ==
    ASSUME SecretInv, NEW r \in Reader, RotateSvid(r)
    PROVE  SecretInv'
  <1>1. /\ svid' \in [Reader -> [version : Int, key : Int]]
        /\ \A q \in Reader : q # r => svid'[q] = svid[q]
        /\ secret' = secret
    BY SMTT(30) DEF RotateSvid, SecretInv
  <1>2. \A x \in fetches' : IsFetch(x) /\ (x.clean => StillRight(x) /\ x.reader # r)
    <2> SUFFICES ASSUME NEW x \in fetches' PROVE IsFetch(x) /\ (x.clean => StillRight(x) /\ x.reader # r)
      OBVIOUS
    <2>1. PICK f \in fetches : x = [f EXCEPT !.clean = f.clean /\ f.reader # r]
      BY DEF RotateSvid
    <2>2. IsFetch(f)
      BY DEF SecretInv
    <2>3. CASE f.clean /\ f.reader # r
      <3>1. x = [f EXCEPT !.clean = TRUE]
        BY <2>1, <2>3
      <3>2. /\ DOMAIN x = DOMAIN f /\ x.reader = f.reader /\ x.version = f.version /\ x.step = f.step
            /\ x.value = f.value /\ x.key = f.key /\ x.clean
        BY <2>2, <3>1 DEF IsFetch
      <3>3. StillRight(f)
        BY <2>3 DEF SecretInv
      <3>4. StillRight(x) /\ x.reader # r
        BY <2>3, <3>2, <3>3 DEF StillRight
      <3>5. x.clean \in BOOLEAN
        BY <3>1, <2>2 DEF IsFetch
      <3>. QED  BY <2>2, <3>2, <3>4, <3>5 DEF IsFetch
    <2>4. CASE ~(f.clean /\ f.reader # r)
      <3>1. x = [f EXCEPT !.clean = FALSE]
        BY <2>1, <2>4
      <3>. QED  BY <2>2, <3>1 DEF IsFetch
    <2>. QED  BY <2>3, <2>4
  <1>3. \A x \in fetches' : x.clean => StillRight(x)'
    BY <1>1, <1>2 DEF SecretInv, StillRight, IsFetch
  <1>. QED  BY <1>1, <1>2, <1>3 DEF SecretInv, IsFetch

\* A fetch that no change of the secret and no rotation of the reader's
\* certificate overtook delivers the current value, to a reader on the current
\* list, sealed to the key of the version it names, although it reads the four
\* records one after the other (fetch_secret).
THEOREM DeliveryIsConsistent == SecretSpec => FetchIsConsistent
  <1>1. SecretInv /\ [SecretNext]_secretVars => SecretInv'
    <2> SUFFICES ASSUME SecretInv, [SecretNext]_secretVars PROVE SecretInv'
      OBVIOUS
    <2>1. CASE UNCHANGED secretVars
      BY <2>1, FetchesUntouched DEF secretVars
    <2>2. ASSUME NEW v \in SecretValue, NEW A \in Acl, store_secret(v, A) PROVE SecretInv'
      BY <2>2, FetchesUntouched DEF store_secret, Edit
    <2>3. ASSUME NEW r \in Reader, grant_secret_access(r) \/ revoke_secret_access(r) PROVE SecretInv'
      BY <2>3, FetchesUntouched DEF grant_secret_access, revoke_secret_access, Edit
    <2>4. ASSUME NEW f \in fetches, seal(f) PROVE SecretInv'
      <3>1. fetches' \subseteq fetches /\ UNCHANGED <<secret, svid>>
        BY <2>4 DEF seal
      <3>. QED  BY <3>1 DEF SecretInv, IsFetch, StillRight
    <2>5. CASE RestartService
      BY <2>5 DEF RestartService, SecretInv
    <2>. QED
      BY <2>1, <2>2, <2>3, <2>4, <2>5, FetchStarts, FetchMoves, EditKeepsFetches, RotationKeepsFetches DEF SecretNext
  <1>2. SecretInv => \A f \in fetches : f.step = "keyed" /\ f.clean /\ seal(f) =>
            /\ f.value = secret.value /\ f.reader \in secret.acl
            /\ svid[f.reader] = [version |-> f.version, key |-> f.key]
    BY DEF SecretInv, StillRight, IsFetch
  <1>. QED  BY <1>1, <1>2, SecretInitHolds, PTL DEF SecretSpec, FetchIsConsistent

-----------------------------------------------------------------------------
(* Declarative apply.                                                      *)

\* u is a record with what m sets in it, in the form merge reads.
Merged(k, m, u) ==
    /\ u \in StoredRecord
    /\ k = "Workload" => u.form # "record"
    /\ \A f \in Sets(m) : u.fields[f] = m[f]

\* There is nothing left to do for m.
AsAsked(k, m) ==
    \/ k = "NodePool" /\ stored[k] = Absent
    \/ \A f \in Sets(m) : Live(k)[f] = m[f]

\* The fields m leaves alone are the stored ones in u.
LeftAlone(k, m, u) == \A f \in Field \ Sets(m) : u.fields[f] = Live(k)[f]

\* A command in flight carries records, and a batch's command the merged ones;
\* as long as nothing overtook it the other manifests have nothing to change.
IsPosted(c) ==
    /\ DOMAIN c = {"cmd", "clean", "batch", "updates"}
    /\ c.clean \in BOOLEAN
    /\ \A k \in DOMAIN c.updates : c.updates[k] \in {Absent} \cup StoredRecord

BatchIsMerged(c) ==
    /\ DOMAIN c.batch \subseteq Kind
    /\ \A k \in DOMAIN c.batch : c.batch[k] \in Manifest
    /\ \A k \in DOMAIN c.batch \ {"Secret"} : k \in DOMAIN c.updates => Merged(k, c.batch[k], c.updates[k])

BatchIsCurrent(c) ==
    \A k \in DOMAIN c.batch \ {"Secret"} :
        IF k \in DOMAIN c.updates THEN LeftAlone(k, c.batch[k], c.updates[k]) ELSE AsAsked(k, c.batch[k])

ApplyInv ==
    /\ stored \in [Kind -> {Absent} \cup StoredRecord]
    /\ \A c \in posted : IsPosted(c)
    /\ \A c \in posted : c.cmd = "ApplyManifests" => BatchIsMerged(c)
    /\ \A c \in posted : c.cmd = "ApplyManifests" /\ c.clean => BatchIsCurrent(c)

\* Nothing is stored and nothing posted at first.
LEMMA ApplyInitHolds == ApplyInit => ApplyInv
  BY DEF ApplyInit, ApplyInv

\* What merge reads is a value for every field.
LEMMA LiveIsTyped ==
    ASSUME ApplyInv, NEW k \in Kind
    PROVE  Live(k) \in [Field -> Value] /\ (stored[k] = Absent \/ stored[k] \in StoredRecord)
  BY DefaultAssumption DEF ApplyInv, Live, Defaults, StoredRecord

\* The three-way merge of one record: what it returns when it changes the
\* record, and when it does not.
LEMMA MergeResult ==
    ASSUME NEW live \in [Field -> Value], NEW last, NEW m \in Manifest, NEW form \in {"record", "spec"},
           NEW p, p = Merge(live, last, m, form)
    PROVE  /\ p.out = "Updated" => /\ p.new \in StoredRecord /\ p.new.form = form
                                   /\ \A f \in Sets(m) : p.new.fields[f] = m[f]
                                   /\ \A f \in Field \ Sets(m) : p.new.fields[f] = live[f]
           /\ p.out = "Unchanged" => \A f \in Sets(m) : live[f] = m[f]
           /\ p.out \in {"Updated", "Unchanged", "Conflicted"}
  <1>1. PICK g : g = MergeFields(live, m)
    OBVIOUS
  <1>2. \A f \in Sets(m) : f \in Field /\ m[f] \in Value
    BY ManifestAssumption DEF Sets
  <1>3. g \in [Field -> Value] /\ (\A f \in Sets(m) : g[f] = m[f]) /\ (\A f \in Field \ Sets(m) : g[f] = live[f])
    BY <1>1, <1>2 DEF MergeFields
  <1>4. CASE p = Conflicted
    BY <1>4, SMTT(30) DEF Conflicted
  <1>5. CASE p = Unchanged /\ g = live
    BY <1>3, <1>5, SMTT(30) DEF Unchanged
  <1>6. CASE p = Updated([form |-> form, fields |-> g])
    <2>1. [form |-> form, fields |-> g] \in StoredRecord
      BY <1>3 DEF StoredRecord
    <2>. QED  BY <1>3, <1>6, <2>1, SMTT(30) DEF Updated
  <1>. QED  BY <1>1, <1>4, <1>5, <1>6 DEF Merge

\* The same of a manifest, against the stored record of its kind.
LEMMA ManifestResult ==
    ASSUME ApplyInv, NEW k \in Kind \ {"Secret"}, NEW m \in Manifest, NEW p, p = process_manifest(k, m)
    PROVE  /\ p.out = "Updated" => Merged(k, m, p.new) /\ LeftAlone(k, m, p.new)
           /\ p.out = "Unchanged" => AsAsked(k, m)
           /\ p.out \in {"Updated", "Unchanged", "Conflicted"}
  <1>1. Live(k) \in [Field -> Value]
    BY LiveIsTyped
  <1>2. CASE k = "NodePool" /\ stored[k] = Absent
    BY <1>2 DEF process_manifest, merge_node_pool, Unchanged, AsAsked
  <1>3. CASE \E last : \E form \in {"record", "spec"} :
                p = Merge(Live(k), last, m, form) /\ (k = "Workload" => form = "spec")
    <2>1. PICK last : \E form \in {"record", "spec"} :
                p = Merge(Live(k), last, m, form) /\ (k = "Workload" => form = "spec")
      BY <1>3
    <2>2. PICK form \in {"record", "spec"} : p = Merge(Live(k), last, m, form) /\ (k = "Workload" => form = "spec")
      BY <2>1
    <2>. QED  BY <1>1, <2>2, MergeResult, SMTT(30) DEF Merged, LeftAlone, AsAsked
  <1>4. k = "Workload" => p = Merge(Live(k), Defaults, m, "spec")
    BY DEF process_manifest, merge_workload, Live
  <1>5. k = "SagRule" => p = Merge(Live(k), Defaults, m, "spec")
    BY DEF process_manifest, merge_sag_rule, Live
  <1>6. k = "NodePool" /\ stored[k] # Absent => p = Merge(Live(k), Live(k), m, "record")
    BY DEF process_manifest, merge_node_pool, Live
  <1>. QED  BY <1>2, <1>3, <1>4, <1>5, <1>6 DEF Kind

\* A secret's manifest writes back a record.
LEMMA SecretResult ==
    ASSUME ApplyInv, NEW m, process_manifest("Secret", m).out = "Updated"
    PROVE  process_manifest("Secret", m).new \in StoredRecord
  <1>1. stored["Secret"] = Absent \/ stored["Secret"] \in StoredRecord
    BY DEF ApplyInv, Kind
  <1>2. [form |-> "empty", fields |-> Defaults] \in StoredRecord
    BY DefaultAssumption DEF StoredRecord, Defaults
  <1>3. process_manifest("Secret", m) = merge_secret(m, stored["Secret"])
    BY DEF process_manifest
  <1>4. Sets(m) # {}
    BY <1>3, SMTT(30) DEF merge_secret, Unchanged
  <1>5. process_manifest("Secret", m).new = IF stored["Secret"] = Absent THEN [form |-> "empty", fields |-> Defaults] ELSE stored["Secret"]
    BY <1>3, <1>4, SMTT(30) DEF merge_secret, Updated
  <1>. QED  BY <1>1, <1>2, <1>5

\* One more command in flight.
LEMMA CallKeeps ==
    ASSUME ApplyInv, NEW c, Call(c), IsPosted(c), c.cmd = "ApplyManifests" => BatchIsMerged(c) /\ BatchIsCurrent(c)
    PROVE  ApplyInv'
  <1>1. posted' = posted \cup {c} /\ stored' = stored
    BY DEF Call, Propose
  <1>2. \A k : Live(k)' = Live(k)
    BY <1>1 DEF Live
  <1>3. ASSUME NEW d PROVE BatchIsCurrent(d)' <=> BatchIsCurrent(d)
    <2>1. \A k, m, u : LeftAlone(k, m, u)' <=> LeftAlone(k, m, u)
      BY <1>2 DEF LeftAlone
    <2>2. \A k, m : AsAsked(k, m)' <=> AsAsked(k, m)
      BY <1>1, <1>2 DEF AsAsked
    <2>. QED  BY <2>1, <2>2 DEF BatchIsCurrent
  <1>4. /\ stored' \in [Kind -> {Absent} \cup StoredRecord]
        /\ \A d \in posted' : IsPosted(d) /\ (d.cmd = "ApplyManifests" => BatchIsMerged(d))
    BY <1>1 DEF ApplyInv
  <1>5. \A d \in posted' : d.cmd = "ApplyManifests" /\ d.clean => BatchIsCurrent(d)'
    BY <1>1, <1>3 DEF ApplyInv
  <1>. QED  BY <1>4, <1>5 DEF ApplyInv, IsPosted, BatchIsMerged, Merged

\* The declarative call.
LEMMA ApplyAsks ==
    ASSUME ApplyInv, NEW K \in Batch, NEW b \in [K -> Manifest], apply(b)
    PROVE  ApplyInv'
  <1>1. PICK U : U = {j \in K : process_manifest(j, b[j]).out = "Updated"}
    OBVIOUS
  <1>2. PICK u : u = [k \in U |-> process_manifest(k, b[k]).new]
    OBVIOUS
  <1> DEFINE new == [cmd |-> "ApplyManifests", clean |-> TRUE, batch |-> b, updates |-> u]
  <1>3. Call(new) /\ Accepted(b)
    BY <1>1, <1>2 DEF apply
  <1>4. new.cmd = "ApplyManifests" /\ new.clean = TRUE /\ new.batch = b /\ new.updates = u /\ DOMAIN new = {"cmd", "clean", "batch", "updates"}
    OBVIOUS
  <1> HIDE DEF new
  <1>5. K \subseteq Kind /\ DOMAIN b = K /\ DOMAIN u = U /\ U \subseteq K
    BY <1>1, <1>2, ManifestAssumption
  <1>6. ASSUME NEW k \in K \ {"Secret"}
        PROVE  /\ k \in U => Merged(k, b[k], u[k]) /\ LeftAlone(k, b[k], u[k])
               /\ k \notin U => AsAsked(k, b[k])
    <2>1. k \in Kind \ {"Secret"} /\ b[k] \in Manifest
      BY <1>5
    <2>2. PICK p : p = process_manifest(k, b[k])
      OBVIOUS
    <2>3. p.out # "Conflicted"
      BY <1>3, <1>5, <2>2 DEF Accepted
    <2>4. k \in U => u[k] = p.new /\ p.out = "Updated"
      BY <1>1, <1>2, <2>2
    <2>5. k \notin U => p.out # "Updated"
      BY <1>1, <2>2
    <2>. QED  BY <2>1, <2>2, <2>3, <2>4, <2>5, ManifestResult
  <1>7. ASSUME NEW k \in U PROVE u[k] \in StoredRecord
    <2>1. CASE k = "Secret"
      BY <1>1, <1>2, <2>1, SecretResult
    <2>2. CASE k # "Secret"
      BY <1>5, <1>6, <2>2 DEF Merged
    <2>. QED  BY <2>1, <2>2
  <1>8. IsPosted(new)
    BY <1>4, <1>5, <1>7 DEF IsPosted
  <1>9. BatchIsMerged(new)
    BY <1>4, <1>5, <1>6 DEF BatchIsMerged
  <1>10. BatchIsCurrent(new)
    BY <1>4, <1>5, <1>6 DEF BatchIsCurrent
  <1>. QED  BY <1>3, <1>8, <1>9, <1>10, CallKeeps

\* The imperative calls.
LEMMA WriteAsks ==
    ASSUME ApplyInv, NEW k, NEW r \in {Absent} \cup StoredRecord, Write(k, r)
    PROVE  ApplyInv'
  <1> DEFINE new == [cmd |-> "Write", clean |-> TRUE, batch |-> <<>>, updates |-> [j \in {k} |-> r]]
  <1>1. Call(new) /\ IsPosted(new) /\ new.cmd # "ApplyManifests"
    BY DEF Write, IsPosted
  <1> HIDE DEF new
  <1>. QED  BY <1>1, CallKeeps

\* What applying a command does to the others in flight.
LEMMA OvertakenPosted ==
    ASSUME ApplyInv, NEW c \in posted, NEW x \in Overtake(posted, c)
    PROVE  IsPosted(x) /\ ~x.clean /\ (x.cmd = "ApplyManifests" => BatchIsMerged(x))
  <1>1. PICK d \in posted : x = [d EXCEPT !.clean = FALSE]
    BY DEF Overtake
  <1>2. IsPosted(d) /\ (d.cmd = "ApplyManifests" => BatchIsMerged(d))
    BY DEF ApplyInv
  <1>3. DOMAIN x = DOMAIN d /\ x.clean = FALSE /\ x.cmd = d.cmd /\ x.batch = d.batch /\ x.updates = d.updates
    BY <1>1, <1>2 DEF IsPosted
  <1>. QED  BY <1>2, <1>3 DEF IsPosted, BatchIsMerged

\* Applying a command.
LEMMA ApplyingKeeps ==
    ASSUME ApplyInv, NEW c \in posted, ApplyManifests(c)
    PROVE  ApplyInv'
  <1>1. IsPosted(c)
    BY DEF ApplyInv
  <1>2. stored' \in [Kind -> {Absent} \cup StoredRecord]
    BY <1>1 DEF ApplyManifests, ApplyInv, IsPosted
  <1>3. \A x \in posted' : IsPosted(x) /\ ~x.clean /\ (x.cmd = "ApplyManifests" => BatchIsMerged(x))
    BY OvertakenPosted DEF ApplyManifests
  <1>. QED  BY <1>2, <1>3 DEF ApplyInv, IsPosted, BatchIsMerged, Merged

\* The invariant is inductive.
LEMMA ApplyStepHolds == ApplyInv /\ [ApplyNext]_applyVars => ApplyInv'
  <1> SUFFICES ASSUME ApplyInv, [ApplyNext]_applyVars PROVE ApplyInv'
    OBVIOUS
  <1>1. CASE UNCHANGED applyVars
    BY <1>1, SMTT(30) DEF ApplyInv, applyVars, IsPosted, BatchIsMerged, BatchIsCurrent, Merged, LeftAlone, AsAsked, Live
  <1>2. ASSUME NEW v \in Value PROVE [form |-> "record", fields |-> [f \in Field |-> v]] \in StoredRecord
    BY DEF StoredRecord
  <1>3. [form |-> "spec", fields |-> RuleContent] \in StoredRecord
    BY ManifestAssumption DEF StoredRecord
  <1>4. ASSUME NEW v \in Value, SubmitWorkload(v) \/ PutSecret(v) \/ create_node_pool(v) PROVE ApplyInv'
    BY <1>2, <1>4, WriteAsks DEF SubmitWorkload, PutSecret, create_node_pool
  <1>5. CASE upsert_sag_rule
    BY <1>3, <1>5, WriteAsks DEF upsert_sag_rule
  <1>6. CASE delete_sag_rule \/ delete_node_pool
    BY <1>6, WriteAsks DEF delete_sag_rule, delete_node_pool
  <1>. QED  BY <1>1, <1>4, <1>5, <1>6, ApplyAsks, ApplyingKeeps DEF ApplyNext, ApplyPosted

\* What a batch leaves behind in one record.
LEMMA AppliedRecord ==
    ASSUME ApplyInv, NEW c \in posted, Applies(c), NEW k \in DOMAIN c.batch \ {"Secret"}
    PROVE  /\ k \in Kind /\ c.batch[k] \in Manifest
           /\ c.clean \/ k \in DOMAIN c.updates => AsAsked(k, c.batch[k])'
           /\ k \in DOMAIN c.updates => stored'[k] # Absent
           /\ k \notin DOMAIN c.updates => stored'[k] = stored[k]
           /\ c.clean => \A f \in Field \ Sets(c.batch[k]) : Live(k)'[f] = Live(k)[f]
  <1>1. BatchIsMerged(c) /\ (c.clean => BatchIsCurrent(c))
    BY DEF ApplyInv, Applies
  <1>2. k \in Kind /\ c.batch[k] \in Manifest
    BY <1>1 DEF BatchIsMerged
  <1>3. stored'[k] = IF k \in DOMAIN c.updates THEN c.updates[k] ELSE stored[k]
    BY <1>2 DEF Applies, ApplyManifests
  <1>4. CASE k \in DOMAIN c.updates
    <2>1. Merged(k, c.batch[k], c.updates[k]) /\ (c.clean => LeftAlone(k, c.batch[k], c.updates[k]))
      BY <1>1, <1>4 DEF BatchIsMerged, BatchIsCurrent
    <2>2. stored'[k] = c.updates[k] /\ stored'[k] # Absent
      BY <1>3, <1>4, <2>1, DefaultAssumption DEF Merged
    <2>3. Live(k)' = c.updates[k].fields
      BY <2>1, <2>2 DEF Live, Merged
    <2>. QED  BY <1>2, <1>4, <2>1, <2>2, <2>3 DEF Merged, LeftAlone, AsAsked
  <1>5. CASE k \notin DOMAIN c.updates
    <2>1. stored'[k] = stored[k] /\ Live(k)' = Live(k)
      BY <1>3, <1>5 DEF Live
    <2>2. c.clean => AsAsked(k, c.batch[k])
      BY <1>1, <1>5 DEF BatchIsCurrent
    <2>. QED  BY <1>2, <1>5, <2>1, <2>2 DEF AsAsked
  <1>. QED  BY <1>4, <1>5

\* With every field as the manifest wants it, the manifest merges to no change.
LEMMA MergedAgain ==
    ASSUME ApplyInv, NEW k \in Kind \ {"Secret"}, NEW m \in Manifest, AsAsked(k, m)
    PROVE  process_manifest(k, m).out = "Unchanged"
  <1>1. Live(k) \in [Field -> Value]
    BY LiveIsTyped
  <1>2. CASE k = "NodePool" /\ stored[k] = Absent
    BY <1>2 DEF process_manifest, merge_node_pool, Unchanged
  <1>3. CASE ~(k = "NodePool" /\ stored[k] = Absent)
    <2>1. \A f \in Sets(m) : Live(k)[f] = m[f]
      BY <1>3 DEF AsAsked
    <2>2. MergeFields(Live(k), m) = Live(k)
      BY <1>1, <2>1 DEF MergeFields
    <2>3. \A last, form : Merge(Live(k), last, m, form) = Unchanged
      BY <2>1, <2>2 DEF Merge, HasConflict
    <2>4. k = "Workload" => process_manifest(k, m) = Merge(Live(k), Defaults, m, "spec")
      BY DEF process_manifest, merge_workload, Live
    <2>5. k = "SagRule" => process_manifest(k, m) = Merge(Live(k), Defaults, m, "spec")
      BY DEF process_manifest, merge_sag_rule, Live
    <2>6. k = "NodePool" => process_manifest(k, m) = Merge(Live(k), Live(k), m, "record")
      BY <1>3 DEF process_manifest, merge_node_pool, Live
    <2>7. process_manifest(k, m) = Unchanged
      BY <2>3, <2>4, <2>5, <2>6 DEF Kind
    <2>. QED  BY <2>7, SMTT(30) DEF Unchanged
  <1>. QED  BY <1>2, <1>3

\* A batch takes effect as a whole once its command is applied (apply,
\* ApplyManifests), and leaves alone what it does not mention; applied again it
\* changes nothing.
THEOREM BatchesTakeEffect == ApplySpec => BatchTakesEffect /\ AbsentFieldsSurvive /\ AppliedTwiceIsNoChange
  <1> DEFINE Again == \A k \in Kind \ {"Secret"}, m \in Manifest : AsAsked(k, m) => process_manifest(k, m).out = "Unchanged"
             Effect == \A c \in posted : Applies(c) =>
                         \A k \in DOMAIN c.batch \ {"Secret"} :
                           \/ ~c.clean /\ k \notin DOMAIN c.updates
                           \/ k = "NodePool" /\ stored[k] = Absent
                           \/ \A f \in Sets(c.batch[k]) : Live(k)'[f] = c.batch[k][f]
             Twice == \A c \in posted : Applies(c) /\ c.clean =>
                        \A k \in DOMAIN c.batch \ {"Secret"} : process_manifest(k, c.batch[k])'.out = "Unchanged"
             Survive == \A c \in posted : Applies(c) /\ c.clean =>
                          \A k \in DOMAIN c.batch \ {"Secret"} : \A f \in Field \ Sets(c.batch[k]) :
                            Live(k)'[f] = Live(k)[f]
  <1>1. ApplyInv => Again
    BY MergedAgain
  <1>2. ApplyInv => Survive
    BY AppliedRecord
  <1>3. ApplyInv => Effect
    <2> SUFFICES ASSUME ApplyInv, NEW c \in posted, Applies(c), NEW k \in DOMAIN c.batch \ {"Secret"},
                        c.clean \/ k \in DOMAIN c.updates, ~(k = "NodePool" /\ stored[k] = Absent)
                 PROVE  \A f \in Sets(c.batch[k]) : Live(k)'[f] = c.batch[k][f]
      OBVIOUS
    <2>1. AsAsked(k, c.batch[k])' /\ ~(k = "NodePool" /\ stored'[k] = Absent)
      BY AppliedRecord
    <2>. QED  BY <2>1 DEF AsAsked
  <1>4. ApplyInv /\ Again' => Twice
    <2> SUFFICES ASSUME ApplyInv, Again', NEW c \in posted, Applies(c), c.clean, NEW k \in DOMAIN c.batch \ {"Secret"}
                 PROVE  process_manifest(k, c.batch[k])'.out = "Unchanged"
      OBVIOUS
    <2>1. AsAsked(k, c.batch[k])' /\ k \in Kind \ {"Secret"} /\ c.batch[k] \in Manifest
      BY AppliedRecord
    <2>. QED  BY <2>1
  <1> HIDE DEF Again, Effect, Twice, Survive
  <1>5. ApplySpec => []ApplyInv
    BY ApplyInitHolds, ApplyStepHolds, PTL DEF ApplySpec
  <1>6. ApplySpec => [][Effect]_applyVars /\ [][Survive]_applyVars /\ [][Twice]_applyVars
    BY <1>1, <1>2, <1>3, <1>4, <1>5, PTL
  <1>. QED  BY <1>6 DEF BatchTakesEffect, AbsentFieldsSurvive, AppliedTwiceIsNoChange, Effect, Twice, Survive

=============================================================================
