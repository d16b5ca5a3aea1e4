---------------------------- MODULE EkActivation ----------------------------
(***************************************************************************)
(* Joining with a TPM: an operator registers the endorsement key (EK) of a *)
(* machine, which then asks a control node for a challenge, answers it     *)
(* with a proof, and gets its certificate once the key is recorded as      *)
(* joined.  Keys and PCR policies are replicated; nonces and pending       *)
(* activations are local to the control node asked.  The certificate's     *)
(* version is numbered as for any other certificate (JoinTokens).          *)
(***************************************************************************)
EXTENDS NonceManager

CONSTANTS
    Ek,            \* endorsement keys, one of each joining machine
    MaxRedirects,  \* redirects a machine follows
    MaxAdmin       \* bound on registrations and revocations

VARIABLES
    eks,           \* the record of each key, or Absent
    policy,        \* PCR policy of each machine: "none", "active" or "inactive"
    activations,   \* pending activation under each nonce, or Absent
    proofs,        \* submit_activation_proof handlers
    changes,       \* registrations and revocations in flight
    machine,       \* where each machine is
    asks           \* registrations and revocations so far

\* A registration, and whether its command had been overtaken.
EkRecord == [state : {"Pending", "Joined", "Revoked"}, lapsed : BOOLEAN, late : BOOLEAN]

ASSUME EkAssumption == Absent \notin EkRecord

ekVars == <<nonces, minting, leader, restarts, moves, eks, policy, activations, proofs, changes, machine, asks>>

controlFrame == <<leader, restarts, moves>>

\* Machines come up, with r restarts and m elections or crashes to come.
EkInit(r, m) ==
    /\ NonceInit(r, m)
    /\ eks = [e \in Ek |-> Absent]
    /\ policy = [e \in Ek |-> "none"]
    /\ activations = [n \in Nonce |-> Absent]
    /\ proofs = {} /\ changes = {}
    /\ machine = [e \in Ek |-> [at |-> "idle", host |-> leader, nonce |-> Absent, redirects |-> 0]]
    /\ asks = 0

-----------------------------------------------------------------------------
\* Administration.  A registration is refused while the key has a record.
AskFor(c) ==
    /\ asks < MaxAdmin /\ Cardinality(changes) < MaxFlight
    /\ asks' = asks + 1
    /\ changes' = Propose(changes, c)
    /\ UNCHANGED <<nonces, minting, controlFrame, eks, policy, activations, proofs, machine>>

register_node_ek(e) == eks[e] = Absent /\ AskFor([cmd |-> "RegisterNodeEk", ek |-> e, clean |-> TRUE])

revoke_node_ek(e) == eks[e] # Absent /\ AskFor([cmd |-> "RevokeNodeEk", ek |-> e, clean |-> TRUE])

\* The registration replaces whatever is there, the revocation changes the state.
RegisterNodeEk(c) ==
    /\ c.cmd = "RegisterNodeEk"
    /\ eks' = [eks EXCEPT ![c.ek] = [state |-> "Pending", lapsed |-> FALSE, late |-> ~c.clean]]

RevokeNodeEk(c) ==
    /\ c.cmd = "RevokeNodeEk"
    /\ eks' = IF eks[c.ek] = Absent THEN eks ELSE [eks EXCEPT ![c.ek].state = "Revoked"]

ApplyChange(c) ==
    /\ RegisterNodeEk(c) \/ RevokeNodeEk(c)
    /\ changes' = {[d EXCEPT !.clean = d.clean /\ d.ek # c.ek] : d \in changes \ {c}}
    /\ proofs' = {[p EXCEPT !.clean = p.clean /\ p.ek # c.ek] : p \in proofs}
    /\ UNCHANGED <<nonces, minting, controlFrame, policy, activations, machine, asks>>

set_pcr_policy(e, v) ==
    /\ asks < MaxAdmin
    /\ asks' = asks + 1
    /\ policy' = [policy EXCEPT ![e] = v]
    /\ UNCHANGED <<nonces, minting, controlFrame, eks, activations, proofs, changes, machine>>

\* The clock passes the expiry of a registration, of a nonce, or of a pending
\* activation, which is stored after its nonce and lives as long.
Lapse ==
    \/ /\ \E e \in Ek : eks[e] # Absent /\ eks' = [eks EXCEPT ![e].lapsed = TRUE]
       /\ UNCHANGED <<nonces, minting, controlFrame, policy, activations, proofs, changes, machine, asks>>
    \/ /\ \E n \in Nonce : NonceLapses(n)
       /\ UNCHANGED <<eks, policy, activations, proofs, changes, machine, asks>>
    \/ /\ \E n \in Nonce : /\ activations[n] # Absent /\ nonces[n].state # "pending"
                           /\ activations' = [activations EXCEPT ![n].lapsed = TRUE]
       /\ UNCHANGED <<nonces, minting, controlFrame, eks, policy, proofs, changes, machine, asks>>

-----------------------------------------------------------------------------
At(e, s) == machine' = [machine EXCEPT ![e].at = s]

\* The machine goes on, if it still waits for this answer.
AnswerMachine(e, h, from, to) ==
    machine' = IF machine[e].at = from /\ machine[e].host = h THEN [machine EXCEPT ![e].at = to] ELSE machine

\* A redirect starts the exchange over at the leader, a few times.
RedirectMachine(e, h) ==
    machine' =
        IF machine[e].at # "proving" \/ machine[e].host # h THEN machine
        ELSE IF machine[e].redirects >= MaxRedirects THEN [machine EXCEPT ![e].at = "failed"]
        ELSE [machine EXCEPT ![e] = [at |-> "idle", host |-> leader, nonce |-> Absent, redirects |-> @.redirects + 1]]

\* Mutation: a revoked key is let through.
AnyRegistered(e) == eks[e] # Absent /\ ~eks[e].lapsed

\* The check made for the challenge, and again for the proof.
Usable(e) == eks[e] # Absent /\ eks[e].state # "Revoked" /\ ~eks[e].lapsed

request_activation(e) ==
    LET h == machine[e].host IN
    /\ machine[e].at = "idle" /\ <<e, h>> \notin minting
    /\ \/ ~Usable(e) /\ At(e, "failed") /\ UNCHANGED <<nonces, minting>>
       \/ Usable(e) /\ Saturated(h) /\ At(e, "failed") /\ nonces' = sweep_expired(h) /\ UNCHANGED minting
       \/ /\ Usable(e) /\ ~Saturated(h) /\ Cardinality(minting) < MaxFlight
          /\ nonces' = sweep_expired(h)
          /\ minting' = minting \cup {<<e, h>>}
          /\ At(e, "asked")
    /\ UNCHANGED <<controlFrame, eks, policy, activations, proofs, changes, asks>>

\* The activation is stored under the nonce before the TPM makes the challenge,
\* which can fail.
issue_challenge(e, h) ==
    /\ <<e, h>> \in minting /\ Fresh # {}
    /\ LET n == CHOOSE f \in Fresh : TRUE IN
        /\ minting' = minting \ {<<e, h>>}
        /\ Insert(n, h)
        /\ activations' = [activations EXCEPT ![n] = [ek |-> e, lapsed |-> FALSE]]
        /\ \/ AnswerMachine(e, h, "asked", "failed")
           \/ machine' = IF machine[e].at = "asked" /\ machine[e].host = h
                         THEN [machine EXCEPT ![e].at = "challenged", ![e].nonce = n] ELSE machine
    /\ UNCHANGED <<controlFrame, eks, policy, proofs, changes, asks>>

\* The pending activations left on h by a scan for a proof.
Scanned(h) == [n \in Nonce |-> IF activations[n] # Absent /\ nonces[n].host = h /\ activations[n].lapsed
                               THEN Absent ELSE activations[n]]

\* A proof is matched with its pending activation, the key checked again, the
\* activation removed, the quote verified, which may fail, and checked against
\* an active policy, and the certificate signed; then the leader proposes to
\* record the key as joined.
submit_activation_proof(e) ==
    LET h == machine[e].host
        n == machine[e].nonce IN
    /\ machine[e].at = "challenged"
    /\ \/ /\ Scanned(h)[n] = Absent \/ ~Usable(e)
          /\ activations' = Scanned(h)
          /\ At(e, "failed") /\ UNCHANGED proofs
       \/ /\ Scanned(h)[n] # Absent /\ Usable(e)
          /\ activations' = [Scanned(h) EXCEPT ![n] = Absent]
          /\ \/ At(e, "failed") /\ UNCHANGED proofs
             \/ /\ policy[e] = "active" /\ Cardinality(proofs) < MaxFlight
                /\ At(e, "proving")
                /\ proofs' = proofs \cup {[ek |-> e, host |-> h, step |-> "signed", clean |-> TRUE]}
    /\ UNCHANGED <<nonces, minting, controlFrame, eks, policy, changes, asks>>

\* Each of the two commands of the handler is refused by a node that does not lead.
propose_for(p) ==
    /\ p.step \in {"signed", "joined"}
    /\ \/ /\ p.host = leader
          /\ proofs' = (proofs \ {p}) \cup {[p EXCEPT !.step = IF p.step = "signed" THEN "activate" ELSE "version"]}
          /\ UNCHANGED machine
       \/ /\ p.host # leader
          /\ proofs' = proofs \ {p}
          /\ RedirectMachine(p.ek, p.host)
    /\ UNCHANGED <<nonces, minting, controlFrame, eks, policy, activations, changes, asks>>

\* Mutation: the key's record is left as it is.
Untouched(e) == eks

Joined(e) == IF eks[e] = Absent THEN eks ELSE [eks EXCEPT ![e].state = "Joined", ![e].late = FALSE]

\* Applied to whatever state the key is in by then.
ActivateNodeEk(p) ==
    /\ p.step \in {"activate", "orphan"}
    /\ eks' = Joined(p.ek)
    /\ proofs' = (proofs \ {p}) \cup (IF p.step = "orphan" THEN {} ELSE {[p EXCEPT !.step = "joined"]})
    /\ UNCHANGED <<nonces, minting, controlFrame, policy, activations, changes, machine, asks>>

\* The certificate is handed out once its version is recorded, too.
finish_activation(p) ==
    /\ p.step = "version"
    /\ proofs' = proofs \ {p}
    /\ AnswerMachine(p.ek, p.host, "proving", "joined")
    /\ UNCHANGED <<nonces, minting, controlFrame, eks, policy, activations, changes, asks>>

-----------------------------------------------------------------------------
RestartMachine(e) ==
    /\ machine[e].at \notin {"joined", "idle"} /\ restarts > 0
    /\ restarts' = restarts - 1
    /\ \E h \in Host : machine' = [machine EXCEPT ![e] = [at |-> "idle", host |-> h, nonce |-> Absent, redirects |-> 0]]
    /\ UNCHANGED <<nonces, minting, leader, moves, eks, policy, activations, proofs, changes, asks>>

CrashWithProofs(h) ==
    /\ moves > 0
    /\ moves' = moves - 1
    /\ minting' = {m \in minting : m[2] # h}
    /\ proofs' = {IF p.host = h THEN [p EXCEPT !.step = "orphan"] ELSE p :
                     p \in {q \in proofs : q.host = h => q.step = "activate"}}
    /\ machine' = [e \in Ek |-> IF machine[e].host = h /\ machine[e].at \in {"asked", "proving"}
                                THEN [machine[e] EXCEPT !.at = "failed"] ELSE machine[e]]
    /\ UNCHANGED <<nonces, leader, restarts, eks, policy, activations, changes, asks>>

OrphanProofIsLost ==
    /\ \E p \in proofs : p.step = "orphan" /\ proofs' = proofs \ {p}
    /\ UNCHANGED <<nonces, minting, controlFrame, eks, policy, activations, changes, machine, asks>>

EkNext ==
    \/ \E e \in Ek : \/ register_node_ek(e) \/ revoke_node_ek(e)
                     \/ \E v \in {"active", "inactive"} : set_pcr_policy(e, v)
                     \/ request_activation(e) \/ submit_activation_proof(e) \/ RestartMachine(e)
                     \/ \E h \in Host : issue_challenge(e, h)
    \/ \E c \in changes : ApplyChange(c)
    \/ \E p \in proofs : propose_for(p) \/ ActivateNodeEk(p) \/ finish_activation(p)
    \/ \E h \in Host : \/ CrashWithProofs(h)
                       \/ Elect(h) /\ UNCHANGED <<eks, policy, activations, proofs, changes, machine, asks>>
    \/ Lapse
    \/ OrphanProofIsLost

EkSpec == (\E r, m \in Nat : EkInit(r, m)) /\ [][EkNext]_ekVars

-----------------------------------------------------------------------------
EkTypeOK ==
    /\ eks \in [Ek -> {Absent} \cup EkRecord]
    /\ activations \in [Nonce -> {Absent} \cup [ek : Ek, lapsed : BOOLEAN]]
    /\ \A p \in proofs : p.step \in {"signed", "activate", "joined", "version", "orphan"}
    /\ \A e \in Ek : machine[e].redirects <= MaxRedirects

\* A revocation is final.  The key is checked when the proof arrives and not
\* when it is recorded as joined, so only a proof, or a registration, that a
\* change of the key overtook can undo one.
RevocationSticks ==
    [][\A e \in Ek : eks[e] # Absent /\ eks[e].state = "Revoked" /\ eks'[e].state # "Revoked" =>
          \/ \E p \in proofs : p.ek = e /\ ~p.clean /\ ActivateNodeEk(p)
          \/ \E c \in changes : c.ek = e /\ ~c.clean /\ ApplyChange(c)]_ekVars

\* A machine with a certificate is on record: its key is stored as joined, or
\* was revoked since, unless a registration that was overtaken reset it.
JoinedIsRecorded ==
    \A e \in Ek : machine[e].at = "joined" =>
        eks[e] # Absent /\ (eks[e].state \in {"Joined", "Revoked"} \/ eks[e].late)

=============================================================================
