-------------------------- MODULE NodeDelegations ---------------------------
(***************************************************************************)
(* Signing keys and certificates that a node gets for the pods it hosts.   *)
(* A request is checked against the placements stored when it arrives; the *)
(* key is handed out once its delegation is replicated.  Meanwhile pods    *)
(* move and nodes are evicted.  One workload, its pods named by ordinal.   *)
(***************************************************************************)
EXTENDS Proposals

CONSTANTS
    Machine,     \* nodes
    Ordinal,     \* pods of the workload
    MaxSecond,   \* bound on the clock, in the seconds delegation ids are made of
    MaxKeys,     \* bound on requests
    MaxPlaced    \* bound on placements and removals

ASSUME MachineAssumption == Absent \notin Machine

VARIABLES
    hosted,      \* node of each pod, or Absent
    evicted,     \* nodes whose certificate is revoked
    active,      \* delegations in force
    revokedSet,  \* delegations revoked
    wanted,      \* requests whose command is in flight
    keys,        \* delegations whose key was handed out
    late,        \* delegations recorded by a request that was overtaken
    second, wishes, placed

delegationVars == <<hosted, evicted, active, revokedSet, wanted, keys, late, second, wishes, placed>>

DelegationInit ==
    /\ hosted = [o \in Ordinal |-> Absent]
    /\ evicted = {} /\ active = {} /\ revokedSet = {} /\ wanted = {} /\ keys = {} /\ late = {}
    /\ second = 0 /\ wishes = 0 /\ placed = 0

-----------------------------------------------------------------------------
\* A request without an ordinal is for any pod of the workload on the node.
verify_placement(n, o) == \E p \in Ordinal : hosted[p] = n /\ (o # Absent => p = o)

compute_delegation_id(n, o) == [node |-> n, ordinal |-> o, at |-> second]

Want(c) ==
    /\ wishes < MaxKeys /\ Cardinality(wanted) < MaxFlight
    /\ verify_placement(c.id.node, c.id.ordinal)
    /\ wishes' = wishes + 1
    /\ wanted' = Propose(wanted, c)
    /\ UNCHANGED <<hosted, evicted, active, revokedSet, keys, late, second, placed>>

\* A node asks for itself; a revoked certificate does not get through.
request_delegated_key(n, o) ==
    /\ n \notin evicted
    /\ Want([cmd |-> "IssueDelegation", id |-> compute_delegation_id(n, o), clean |-> TRUE])

\* An administrator asks for any node.
admin_request_delegated_key(n, o) ==
    Want([cmd |-> "IssueDelegation", id |-> compute_delegation_id(n, o), clean |-> TRUE])

\* A node renews the certificate of a pod it hosts.
authorize_authenticated(n, o) ==
    /\ n \notin evicted
    /\ Want([cmd |-> "UpsertSvidVersion", id |-> compute_delegation_id(n, o), clean |-> TRUE])

\* Two requests of the same second have the same id, and the second record
\* replaces the first.
IssueDelegation(c) ==
    /\ wanted' = wanted \ {c}
    /\ IF c.cmd = "IssueDelegation"
       THEN /\ active' = active \cup {c.id}
            /\ keys' = keys \cup {c.id}
            /\ late' = IF c.clean THEN late ELSE late \cup {c.id}
       ELSE UNCHANGED <<active, keys, late>>
    /\ UNCHANGED <<hosted, evicted, revokedSet, second, wishes, placed>>

-----------------------------------------------------------------------------
\* The requests a change of the node's placements overtakes.
Overtaken(n) == {[c EXCEPT !.clean = c.clean /\ c.id.node # n] : c \in wanted}

Place(o, n) ==
    /\ placed < MaxPlaced /\ hosted[o] = Absent /\ n \notin evicted
    /\ placed' = placed + 1
    /\ hosted' = [hosted EXCEPT ![o] = n]
    /\ UNCHANGED <<evicted, active, revokedSet, wanted, keys, late, second, wishes>>

Unplace(o) ==
    /\ hosted[o] # Absent
    /\ hosted' = [hosted EXCEPT ![o] = Absent]
    /\ wanted' = Overtaken(hosted[o])
    /\ UNCHANGED <<evicted, active, revokedSet, keys, late, second, wishes, placed>>

HeldBy(n) == {d \in active : d.node = n}

\* Mutation: delegations outlive the node.
HeldByNobody(n) == {}

\* What eviction revokes, and where it is kept.
ToRevoke(n) == HeldBy(n)
Kept(n) == revokedSet \cup HeldBy(n)

EvictNode(n) ==
    /\ n \notin evicted
    /\ evicted' = evicted \cup {n}
    /\ active' = active \ ToRevoke(n)
    /\ revokedSet' = Kept(n)
    /\ hosted' = [o \in Ordinal |-> IF hosted[o] = n THEN Absent ELSE hosted[o]]
    /\ wanted' = Overtaken(n)
    /\ UNCHANGED <<keys, late, second, wishes, placed>>

Second ==
    /\ second < MaxSecond
    /\ second' = second + 1
    /\ UNCHANGED <<hosted, evicted, active, revokedSet, wanted, keys, late, wishes, placed>>

DelegationNext ==
    \/ \E n \in Machine, o \in Ordinal \cup {Absent} :
           \/ request_delegated_key(n, o)
           \/ admin_request_delegated_key(n, o)
    \/ \E n \in Machine, o \in Ordinal : authorize_authenticated(n, o) \/ Place(o, n)
    \/ \E c \in wanted : IssueDelegation(c)
    \/ \E o \in Ordinal : Unplace(o)
    \/ \E n \in Machine : EvictNode(n)
    \/ Second

DelegationSpec == DelegationInit /\ [][DelegationNext]_delegationVars

-----------------------------------------------------------------------------
DelegationTypeOK ==
    /\ hosted \in [Ordinal -> Machine \cup {Absent}]
    /\ active \cup revokedSet \cup keys \subseteq [node : Machine, ordinal : Ordinal \cup {Absent}, at : 0 .. MaxSecond]
    /\ evicted \subseteq Machine

\* A delegation or certificate whose request no move of the node's pods
\* overtook is recorded while the node hosts the very pod it is for.
HostedWhenIssued ==
    [][\A c \in wanted : IssueDelegation(c) /\ c.clean =>
          IF c.id.ordinal = Absent THEN \E o \in Ordinal : hosted[o] = c.id.node
          ELSE hosted[c.id.ordinal] = c.id.node]_delegationVars

\* An evicted node holds no delegation, except one that was in flight when the
\* node was evicted or the pod moved away: it is recorded afterwards, and
\* nothing revokes it.
EvictedHoldsNone == \A d \in active : d.node \in evicted => d \in late

\* Every key that was handed out is on record, as active or as revoked, so
\* that it can be revoked and its revocation be told.
KeyIsOnRecord == keys \subseteq active \cup revokedSet

=============================================================================
