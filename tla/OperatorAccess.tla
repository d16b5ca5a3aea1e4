--------------------------- MODULE OperatorAccess ---------------------------
(***************************************************************************)
(* Time-limited access of operators: an administrator grants a scope to an *)
(* operator, the grant is stored by its content, it ends by its time or by *)
(* a revocation, and an operator whose grant lets it administer may grant  *)
(* in turn.  Handlers check the caller's grants when the request arrives;  *)
(* what they propose is applied later.                                     *)
(***************************************************************************)
EXTENDS Proposals

CONSTANTS
    Operator,           \* operators that may be granted access
    bootstrap_admins,   \* administrators named by the configuration
    allowed_operators,  \* who may be granted access; nobody named is everybody
    Ctrl,               \* the control plane's own identity
    MaxTtl,             \* longest time a grant is asked for
    MaxNow,             \* bound on the clock
    MaxGrants           \* bound on applied commands

VARIABLES
    now,           \* the leader's clock
    operator_grants,
    accessAsked,   \* commands in flight
    applied,       \* number of applied commands
    history        \* grants as they were applied, with the number of the command

accessVars == <<now, operator_grants, accessAsked, applied, history>>

\* The scopes that administer.  One over tenants lets its holder grant
\* nothing, as a read-only one does, and is left out.
Scope == {[cluster_admin |-> TRUE, read_only |-> FALSE], [cluster_admin |-> TRUE, read_only |-> TRUE]}

AccessInit ==
    /\ now = 0 /\ applied = 0
    /\ operator_grants = {} /\ accessAsked = {} /\ history = {}

active_grants_for_operator(o) ==
    {g \in operator_grants : g.operator_id = o /\ g.expires_at > now}

\* Mutation: the check for listing stands where writes are checked.
require_cluster_admin(caller) ==
    \/ caller = Ctrl
    \/ caller \in bootstrap_admins
    \/ \E g \in active_grants_for_operator(caller) : g.scope.cluster_admin

require_cluster_admin_write(caller) ==
    \/ caller = Ctrl
    \/ caller \in bootstrap_admins
    \/ \E g \in active_grants_for_operator(caller) : g.scope.cluster_admin /\ ~g.scope.read_only

AskAccess(c) ==
    /\ Cardinality(accessAsked) < MaxFlight
    /\ accessAsked' = Propose(accessAsked, c)
    /\ UNCHANGED <<now, operator_grants, applied, history>>

\* The grant's identity is derived from all of its fields: the record stands
\* for both.  Requests for the same grant within a second ask for one record.
grant_operator_access(caller, o, scope, ttl) ==
    /\ require_cluster_admin_write(caller)
    /\ allowed_operators = {} \/ o \in allowed_operators
    /\ AskAccess([op |-> "grant",
                  record |-> [operator_id |-> o, granted_by |-> caller, granted_at |-> now,
                              expires_at |-> now + ttl, scope |-> scope]])

revoke_operator_access(caller, g) ==
    /\ require_cluster_admin_write(caller)
    /\ g \in operator_grants
    /\ AskAccess([op |-> "revoke", record |-> g])

GrantOperatorAccess(c) ==
    /\ c.op = "grant"
    /\ operator_grants' = operator_grants \cup {c.record}
    /\ history' = history \cup {[grant |-> c.record, number |-> applied + 1]}

RevokeOperatorAccess(c) ==
    /\ c.op = "revoke"
    /\ operator_grants' = operator_grants \ {c.record}
    /\ UNCHANGED history

ApplyAccess(c) ==
    /\ applied < MaxGrants
    /\ applied' = applied + 1
    /\ GrantOperatorAccess(c) \/ RevokeOperatorAccess(c)
    /\ accessAsked' = accessAsked \ {c}
    /\ UNCHANGED now

AccessTick ==
    /\ now < MaxNow
    /\ now' = now + 1
    /\ UNCHANGED <<operator_grants, accessAsked, applied, history>>

AccessNext ==
    \/ \E caller \in Operator \cup bootstrap_admins \cup {Ctrl} :
         \/ \E o \in Operator, scope \in Scope, ttl \in 1 .. MaxTtl : grant_operator_access(caller, o, scope, ttl)
         \/ \E g \in operator_grants : revoke_operator_access(caller, g)
    \/ \E c \in accessAsked : ApplyAccess(c)
    \/ AccessTick

AccessSpec == AccessInit /\ [][AccessNext]_accessVars

-----------------------------------------------------------------------------
AccessTypeOK ==
    /\ now \in 0 .. MaxNow /\ applied \in 0 .. MaxGrants
    /\ \A g \in operator_grants : g.operator_id \in Operator /\ g.expires_at > g.granted_at
    /\ Cardinality(accessAsked) <= MaxFlight

\* The grant g could be made with the grant k.
Supports(k, g) ==
    /\ k.operator_id = g.granted_by
    /\ k.scope.cluster_admin /\ ~k.scope.read_only
    /\ k.granted_at <= g.granted_at
    /\ k.expires_at > g.granted_at

Root == bootstrap_admins \cup {Ctrl}

\* Every stored grant leads back to the control plane or to an administrator
\* named by the configuration: an operator that made a grant had one itself,
\* applied earlier, for writing administration, and not ended by its time when
\* the request was made.  Revocations do not weaken this: a grant outlives the
\* revocation of the one it was made with, but none is made without one.
EveryGrantHasARoot ==
    \A g \in operator_grants : \E h \in history :
        /\ h.grant = g
        /\ g.granted_by \in Root \/ \E k \in history : k.number < h.number /\ Supports(k.grant, g)

=============================================================================
