---------------------------- MODULE NonceManager ----------------------------
(***************************************************************************)
(* The attestation challenges of the control nodes.  Each node keeps its   *)
(* own: a nonce is stored with an expiry, answered once, and swept when a  *)
(* later request finds it expired.  Issuing counts what is stored and      *)
(* inserts afterwards, without a lock around the two.  One node leads; the *)
(* nodes are asked by machines that join, and that may be restarted.       *)
(***************************************************************************)
EXTENDS Proposals

CONSTANTS
    Host,        \* control nodes
    Nonce,       \* the random values ever drawn
    MaxPending   \* nonces a node stores before it refuses to issue more

ASSUME PendingAssumption == MaxPending \in Nat

VARIABLES
    nonces,      \* each value: not drawn yet, stored (pending or lapsed), or gone
    minting,     \* requests that have counted and not inserted yet: <<asker, host>>
    leader,      \* the control node that leads
    restarts,    \* bound: restarts of joining machines left
    moves        \* bound: elections and crashes left

StoredOn(h) == {n \in Nonce : nonces[n].host = h /\ nonces[n].state \in {"pending", "lapsed"}}

NonceInit(r, m) ==
    /\ nonces = [n \in Nonce |-> [state |-> "fresh", host |-> Absent]]
    /\ minting = {}
    /\ leader \in Host /\ restarts = r /\ moves = m

is_nonce_pending(n) == nonces[n].state \in {"pending", "lapsed"}

sweep_expired(h) ==
    [n \in Nonce |-> IF nonces[n] = [state |-> "lapsed", host |-> h]
                     THEN [state |-> "gone", host |-> h] ELSE nonces[n]]

count_pending(h) == Cardinality({n \in StoredOn(h) : nonces[n].state = "pending"})

\* Mutation: the cap is checked against itself plus one.
OneMore(h) == count_pending(h) > MaxPending

\* What generate_nonce finds once it has swept.
Saturated(h) == count_pending(h) >= MaxPending

Fresh == {n \in Nonce : nonces[n].state = "fresh"}

Insert(n, h) == nonces' = [nonces EXCEPT ![n] = [state |-> "pending", host |-> h]]

Forget(n) == nonces' = [nonces EXCEPT ![n].state = "gone"]

\* The clock passes a nonce's expiry.
NonceLapses(n) ==
    /\ nonces[n].state = "pending"
    /\ nonces' = [nonces EXCEPT ![n].state = "lapsed"]
    /\ UNCHANGED <<minting, leader, restarts, moves>>

\* Leadership moves to another node.
Elect(h) ==
    /\ moves > 0 /\ h # leader
    /\ moves' = moves - 1 /\ leader' = h
    /\ UNCHANGED <<nonces, minting, restarts>>

\* The cap is overshot only by the requests that counted before the others
\* inserted: a node never stores more unexpired nonces, and requests about to
\* store one, than the cap allows plus one for each request but one.
PendingIsBounded ==
    \A h \in Host :
        count_pending(h) + Cardinality({m \in minting : m[2] = h}) <= MaxPending + MaxFlight - 1

=============================================================================
