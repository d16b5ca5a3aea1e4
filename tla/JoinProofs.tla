----------------------------- MODULE JoinProofs -----------------------------
(***************************************************************************)
(* Joining, for any number of control nodes, machines, tokens and keys:    *)
(* the cap on challenges that counting and inserting without a lock        *)
(* leaves, the one admission of a token, and the finality of a revocation. *)
(***************************************************************************)
EXTENDS JoinTokens, EkActivation, FiniteSetTheorems, TLAPS

\* Steps that name no prover are tried with Zenon, then with the SMT solver.
USE ZenonT(20), SMTT(30)

-----------------------------------------------------------------------------
(* The nonces, whoever asks for them.                                      *)

PendingOn(h) == {n \in StoredOn(h) : nonces[n].state = "pending"}
MintingOn(h) == {m \in minting : m[2] = h}

(***************************************************************************)
(* The bound alone is not inductive: a request that finds room on its node *)
(* adds to the requests under way, and only their number in all is known   *)
(* to be limited.                                                          *)
(***************************************************************************)
NonceInv ==
    /\ nonces \in [Nonce -> [state : {"fresh", "pending", "lapsed", "gone"}, host : Host \cup {Absent}]]
    /\ IsFiniteSet(minting) /\ Cardinality(minting) <= MaxFlight
    /\ \A h \in Host : IsFiniteSet(PendingOn(h))
    /\ PendingIsBounded

\* Nothing is stored at first (NonceManager::new).
LEMMA NonceInitHolds == ASSUME NEW r, NEW m, NonceInit(r, m) PROVE NonceInv
  <1>1. minting = {} /\ \A h : PendingOn(h) = {} /\ MintingOn(h) = {}
    BY DEF NonceInit, PendingOn, MintingOn, StoredOn
  <1>2. nonces \in [Nonce -> [state : {"fresh", "pending", "lapsed", "gone"}, host : Host \cup {Absent}]]
    BY DEF NonceInit
  <1>3. IsFiniteSet({}) /\ Cardinality({}) = 0
    BY FS_EmptySet
  <1>4. \A h \in Host : count_pending(h) = 0 /\ Cardinality({k \in minting : k[2] = h}) = 0
    BY <1>1, <1>3 DEF count_pending, PendingOn, MintingOn
  <1>. QED  BY <1>1, <1>2, <1>3, <1>4, FlightAssumption, PendingAssumption, SMTT(30) DEF NonceInv, PendingIsBounded

\* A step that stores no nonce and starts no request keeps the bound.
LEMMA FewerKeeps ==
    ASSUME NonceInv,
           nonces' \in [Nonce -> [state : {"fresh", "pending", "lapsed", "gone"}, host : Host \cup {Absent}]],
           minting' \subseteq minting,
           \A h \in Host : PendingOn(h)' \subseteq PendingOn(h)
    PROVE  NonceInv'
  <1>1. IsFiniteSet(minting') /\ Cardinality(minting') <= MaxFlight
    BY FS_Subset, FS_CardinalityType, FlightAssumption, SMTT(30) DEF NonceInv
  <1>2. ASSUME NEW h \in Host
        PROVE  /\ IsFiniteSet(PendingOn(h)')
               /\ Cardinality(PendingOn(h)') + Cardinality(MintingOn(h)') <= MaxPending + MaxFlight - 1
    <2>1. IsFiniteSet(MintingOn(h)) /\ MintingOn(h)' \subseteq MintingOn(h)
      BY FS_Subset DEF NonceInv, MintingOn
    <2>2. IsFiniteSet(MintingOn(h)') /\ Cardinality(MintingOn(h)') <= Cardinality(MintingOn(h))
      BY <2>1, FS_Subset
    <2>3. IsFiniteSet(PendingOn(h)') /\ Cardinality(PendingOn(h)') <= Cardinality(PendingOn(h))
      BY FS_Subset DEF NonceInv
    <2>4. Cardinality(PendingOn(h)) + Cardinality(MintingOn(h)) <= MaxPending + MaxFlight - 1
      BY DEF NonceInv, PendingIsBounded, count_pending, PendingOn, MintingOn
    <2>5. /\ Cardinality(PendingOn(h)) \in Nat /\ Cardinality(PendingOn(h)') \in Nat
          /\ Cardinality(MintingOn(h)) \in Nat /\ Cardinality(MintingOn(h)') \in Nat
      BY <2>1, <2>2, <2>3, FS_CardinalityType DEF NonceInv
    <2>. QED  BY <2>2, <2>3, <2>4, <2>5, FlightAssumption, PendingAssumption, SMTT(30)
  <1>3. PendingIsBounded'
    BY <1>2 DEF PendingIsBounded, count_pending, PendingOn, MintingOn
  <1>. QED  BY <1>1, <1>2, <1>3 DEF NonceInv

\* Sweeping removes no unexpired nonce.
LEMMA SweepKeepsPending ==
    ASSUME NonceInv, NEW g, nonces' = sweep_expired(g)
    PROVE  /\ nonces' \in [Nonce -> [state : {"fresh", "pending", "lapsed", "gone"}, host : Host \cup {Absent}]]
           /\ \A h \in Host : PendingOn(h)' = PendingOn(h)
  <1>1. \A n \in Nonce : nonces[n] \in [state : {"fresh", "pending", "lapsed", "gone"}, host : Host \cup {Absent}]
    BY DEF NonceInv
  <1>2. \A n \in Nonce : nonces'[n] = IF nonces[n] = [state |-> "lapsed", host |-> g]
                                      THEN [state |-> "gone", host |-> g] ELSE nonces[n]
    BY DEF sweep_expired
  <1>3. \A n \in Nonce : nonces'[n] \in [state : {"fresh", "pending", "lapsed", "gone"}, host : Host \cup {Absent}]
    BY <1>1, <1>2, SMTT(30)
  <1>4. \A n \in Nonce : nonces'[n].state = "pending" <=> nonces[n].state = "pending"
    BY <1>1, <1>2, SMTT(30)
  <1>5. \A n \in Nonce : nonces'[n].state = "pending" => nonces'[n] = nonces[n]
    BY <1>1, <1>2, SMTT(30)
  <1>. QED  BY <1>3, <1>4, <1>5 DEF PendingOn, StoredOn, sweep_expired

\* generate_nonce counts, finds room and goes on to draw: with the requests
\* already under way the bound is reached at most.
LEMMA MintKeeps ==
    ASSUME NonceInv, NEW x, NEW g, ~Saturated(g), Cardinality(minting) < MaxFlight,
           x[2] = g, nonces' = sweep_expired(g), minting' = minting \cup {x}
    PROVE  NonceInv'
  <1>0. IsFiniteSet(minting) /\ Cardinality(minting) \in Nat
    BY FS_CardinalityType DEF NonceInv
  <1>1. IsFiniteSet(minting') /\ Cardinality(minting') <= MaxFlight
    <2>1. IsFiniteSet(minting \cup {x})
      BY <1>0, FS_AddElement
    <2>2. Cardinality(minting \cup {x}) = IF x \in minting THEN Cardinality(minting) ELSE Cardinality(minting) + 1
      BY <1>0, FS_AddElement
    <2>. QED  BY <1>0, <2>1, <2>2, FlightAssumption, SMTT(30)
  <1>2. ASSUME NEW h \in Host
        PROVE  Cardinality(PendingOn(h)') + Cardinality(MintingOn(h)') <= MaxPending + MaxFlight - 1
    <2>1. PendingOn(h)' = PendingOn(h)
      BY SweepKeepsPending
    <2>2. Cardinality(PendingOn(h)) \in Nat
      BY FS_CardinalityType DEF NonceInv
    <2>3. CASE h = g
      <3>1. Cardinality(PendingOn(h)) < MaxPending
        BY <2>2, <2>3, PendingAssumption, SMTT(30) DEF Saturated, count_pending, PendingOn
      <3>2. Cardinality(MintingOn(h)') <= Cardinality(minting') /\ Cardinality(MintingOn(h)') \in Nat
        BY <1>1, FS_Subset, FS_CardinalityType DEF MintingOn
      <3>3. Cardinality(minting') \in Nat
        BY <1>1, FS_CardinalityType
      <3>. QED  BY <1>1, <2>1, <2>2, <3>1, <3>2, <3>3, FlightAssumption, PendingAssumption, SMTT(30)
    <2>4. CASE h # g
      <3>1. MintingOn(h)' = MintingOn(h)
        BY <2>4 DEF MintingOn
      <3>. QED  BY <2>1, <3>1 DEF NonceInv, PendingIsBounded, count_pending, PendingOn, MintingOn
    <2>. QED  BY <2>3, <2>4
  <1>3. PendingIsBounded'
    BY <1>2 DEF PendingIsBounded, count_pending, PendingOn, MintingOn
  <1>. QED  BY <1>1, <1>3, SweepKeepsPending DEF NonceInv

\* The nonce drawn is stored: one request less under way, one nonce more.
LEMMA InsertKeeps ==
    ASSUME NonceInv, NEW x, NEW h \in Host, NEW n \in Fresh, x \in minting, x[2] = h,
           Insert(n, h), minting' = minting \ {x}
    PROVE  NonceInv'
  <1>1. IsFiniteSet(minting') /\ Cardinality(minting') <= MaxFlight
    <2>1. IsFiniteSet(minting) /\ minting' \subseteq minting
      BY DEF NonceInv
    <2>2. IsFiniteSet(minting') /\ Cardinality(minting') <= Cardinality(minting)
      BY <2>1, FS_Subset
    <2>3. Cardinality(minting) \in Nat /\ Cardinality(minting') \in Nat
      BY <2>1, <2>2, FS_CardinalityType
    <2>. QED  BY <2>2, <2>3, FlightAssumption, SMTT(30) DEF NonceInv
  <1>2. n \in Nonce /\ nonces[n].state = "fresh"
    BY DEF Fresh
  <1>3. nonces' = [nonces EXCEPT ![n] = [state |-> "pending", host |-> h]]
    BY DEF Insert
  <1>4. /\ nonces' \in [Nonce -> [state : {"fresh", "pending", "lapsed", "gone"}, host : Host \cup {Absent}]]
        /\ \A k \in Nonce : nonces'[k] = IF k = n THEN [state |-> "pending", host |-> h] ELSE nonces[k]
    BY <1>2, <1>3 DEF NonceInv
  <1>5. PendingOn(h)' = PendingOn(h) \cup {n} /\ n \notin PendingOn(h)
    BY <1>2, <1>4, SMTT(30) DEF PendingOn, StoredOn
  <1>6. \A g \in Host : g # h => PendingOn(g)' = PendingOn(g) /\ MintingOn(g)' = MintingOn(g)
    BY <1>2, <1>4, SMTT(30) DEF PendingOn, StoredOn, MintingOn
  <1>7. MintingOn(h)' = MintingOn(h) \ {x} /\ x \in MintingOn(h) /\ IsFiniteSet(MintingOn(h))
    BY FS_Subset DEF NonceInv, MintingOn
  <1>8. IsFiniteSet(PendingOn(h)') /\ Cardinality(PendingOn(h)') = Cardinality(PendingOn(h)) + 1
    BY <1>5, FS_AddElement, SMTT(30) DEF NonceInv
  <1>9. Cardinality(MintingOn(h)') = Cardinality(MintingOn(h)) - 1
    BY <1>7, FS_RemoveElement
  <1>10. Cardinality(PendingOn(h)) \in Nat /\ Cardinality(MintingOn(h)) \in Nat
    BY <1>7, FS_CardinalityType DEF NonceInv
  <1>11. \A g \in Host : Cardinality(PendingOn(g)) + Cardinality(MintingOn(g)) <= MaxPending + MaxFlight - 1
    BY DEF NonceInv, PendingIsBounded, count_pending, PendingOn, MintingOn
  <1>12. \A g \in Host : Cardinality(PendingOn(g)') + Cardinality(MintingOn(g)') <= MaxPending + MaxFlight - 1
    <2>1. Cardinality(PendingOn(h)') + Cardinality(MintingOn(h)') = Cardinality(PendingOn(h)) + Cardinality(MintingOn(h))
      BY <1>8, <1>9, <1>10, SMTT(30)
    <2>. QED  BY <1>6, <1>11, <2>1
  <1>13. PendingIsBounded'
    BY <1>12 DEF PendingIsBounded, count_pending, PendingOn, MintingOn
  <1>14. \A g \in Host : IsFiniteSet(PendingOn(g)')
    BY <1>6, <1>8 DEF NonceInv
  <1>. QED  BY <1>1, <1>4, <1>13, <1>14 DEF NonceInv

\* An answered nonce is removed.
LEMMA ForgetKeeps ==
    ASSUME NonceInv, NEW n, Forget(n), UNCHANGED minting
    PROVE  NonceInv'
  <1>1. nonces' \in [Nonce -> [state : {"fresh", "pending", "lapsed", "gone"}, host : Host \cup {Absent}]]
    BY DEF NonceInv, Forget
  <1>2. \A k \in Nonce : nonces'[k] = nonces[k] \/ nonces'[k].state = "gone"
    BY DEF NonceInv, Forget
  <1>3. \A h \in Host : PendingOn(h)' \subseteq PendingOn(h)
    BY <1>2 DEF PendingOn, StoredOn
  <1>. QED  BY <1>1, <1>3, FewerKeeps

\* A nonce expires.
LEMMA LapseKeeps ==
    ASSUME NonceInv, NEW n \in Nonce, NonceLapses(n)
    PROVE  NonceInv'
  <1>1. nonces' \in [Nonce -> [state : {"fresh", "pending", "lapsed", "gone"}, host : Host \cup {Absent}]]
    BY DEF NonceInv, NonceLapses
  <1>2. \A k \in Nonce : nonces'[k] = nonces[k] \/ nonces'[k].state = "lapsed"
    BY DEF NonceInv, NonceLapses
  <1>3. \A h \in Host : PendingOn(h)' \subseteq PendingOn(h)
    BY <1>2 DEF PendingOn, StoredOn
  <1>4. minting' = minting
    BY DEF NonceLapses
  <1>. QED  BY <1>1, <1>3, <1>4, FewerKeeps

\* Steps that touch neither nonces nor requests for one.
LEMMA UntouchedKeeps ==
    ASSUME NonceInv, UNCHANGED <<nonces, minting>>
    PROVE  NonceInv'
  BY DEF NonceInv, PendingIsBounded, count_pending, PendingOn, MintingOn, StoredOn

\* Joining with a token: the handlers of request_nonce and submit_quote, and crashes.
LEMMA JoinKeepsNonces == NonceInv /\ [JoinNext]_joinVars => NonceInv'
  <1> SUFFICES ASSUME NonceInv, [JoinNext]_joinVars PROVE NonceInv'
    OBVIOUS
  <1>1. CASE UNCHANGED joinVars
    BY <1>1, UntouchedKeeps DEF joinVars
  <1>2. ASSUME NEW t \in Token, generate_join_token(t) \/ TokenLapses(t) PROVE NonceInv'
    BY <1>2, UntouchedKeeps DEF generate_join_token, TokenLapses
  <1>3. ASSUME NEW j \in Joiner, request_nonce(j) PROVE NonceInv'
    <2> DEFINE h == client[j].host
    <2>1. nonces' = sweep_expired(h)
      BY <1>3 DEF request_nonce
    <2>2. CASE Saturated(h)
      <3>1. minting' = minting
        BY <1>3, <2>2 DEF request_nonce
      <3>. QED  BY <2>1, <3>1, SweepKeepsPending, FewerKeeps
    <2>3. CASE ~Saturated(h)
      <3>1. Cardinality(minting) < MaxFlight /\ minting' = minting \cup {<<j, h>>}
        BY <1>3, <2>3 DEF request_nonce
      <3>2. <<j, h>>[2] = h
        OBVIOUS
      <3>. QED  BY <2>1, <2>3, <3>1, <3>2, MintKeeps
    <2>. QED  BY <2>2, <2>3
  <1>4. ASSUME NEW j \in Joiner, NEW h \in Host, issue_nonce(j, h) PROVE NonceInv'
    <2> DEFINE n == CHOOSE f \in Fresh : TRUE
    <2>1. n \in Fresh
      BY <1>4 DEF issue_nonce
    <2>2. <<j, h>> \in minting /\ minting' = minting \ {<<j, h>>} /\ Insert(n, h)
      BY <1>4 DEF issue_nonce
    <2>3. <<j, h>>[2] = h
      OBVIOUS
    <2> HIDE DEF n
    <2>. QED  BY <2>1, <2>2, <2>3, InsertKeeps
  <1>5. ASSUME NEW j \in Joiner, submit_quote(j) PROVE NonceInv'
    <2>1. minting' = minting /\ (nonces' = nonces \/ Forget(client[j].nonce))
      BY <1>5 DEF submit_quote
    <2>. QED  BY <2>1, UntouchedKeeps, ForgetKeeps
  <1>6. ASSUME NEW j \in Joiner, submit_csr(j) \/ renew_svid(j) \/ Restart(j) PROVE NonceInv'
    BY <1>6, UntouchedKeeps DEF submit_csr, renew_svid, Restart, csrFrame
  <1>7. ASSUME NEW j \in Joiner, NEW h \in Host, GrantLapses(h, j) PROVE NonceInv'
    BY <1>7, UntouchedKeeps DEF GrantLapses, csrFrame
  <1>8. ASSUME NEW q \in quotes, check_quote(q) \/ ConsumeJoinToken(q) \/ grant_csr(q) PROVE NonceInv'
    BY <1>8, UntouchedKeeps DEF check_quote, ConsumeJoinToken, grant_csr
  <1>9. ASSUME NEW c \in csrs, authorize_via_grant(c) \/ propose_svid(c) \/ UpsertSvidVersion(c) \/ sign_csr(c)
        PROVE  NonceInv'
    BY <1>9, UntouchedKeeps DEF authorize_via_grant, propose_svid, UpsertSvidVersion, sign_csr, csrFrame
  <1>10. ASSUME NEW h \in Host, ElectForJoin(h) PROVE NonceInv'
    BY <1>10, UntouchedKeeps DEF ElectForJoin, Elect
  <1>11. ASSUME NEW h \in Host, Crash(h) PROVE NonceInv'
    <2>1. nonces' = nonces /\ minting' \subseteq minting
      BY <1>11 DEF Crash
    <2>2. \A g \in Host : PendingOn(g)' = PendingOn(g)
      BY <2>1 DEF PendingOn, StoredOn
    <2>. QED  BY <2>1, <2>2, FewerKeeps DEF NonceInv
  <1>12. CASE OrphanIsLost
    BY <1>12, UntouchedKeeps DEF OrphanIsLost
  <1>13. ASSUME NEW n \in Nonce, NonceLapses(n) PROVE NonceInv'
    BY <1>13, LapseKeeps
  <1>. QED
    BY <1>1, <1>2, <1>3, <1>4, <1>5, <1>6, <1>7, <1>8, <1>9, <1>10, <1>11, <1>12, <1>13 DEF JoinNext

\* Joining with a TPM: request_activation, the challenge, and crashes.
LEMMA EkKeepsNonces == NonceInv /\ [EkNext]_ekVars => NonceInv'
  <1> SUFFICES ASSUME NonceInv, [EkNext]_ekVars PROVE NonceInv'
    OBVIOUS
  <1>1. CASE UNCHANGED ekVars
    BY <1>1, UntouchedKeeps DEF ekVars
  <1>2. ASSUME NEW e \in Ek, register_node_ek(e) \/ revoke_node_ek(e) PROVE NonceInv'
    BY <1>2, UntouchedKeeps DEF register_node_ek, revoke_node_ek, AskFor
  <1>3. ASSUME NEW e \in Ek, NEW v, set_pcr_policy(e, v) PROVE NonceInv'
    BY <1>3, UntouchedKeeps DEF set_pcr_policy
  <1>4. ASSUME NEW e \in Ek, request_activation(e) PROVE NonceInv'
    <2> DEFINE h == machine[e].host
    <2>1. CASE UNCHANGED <<nonces, minting>>
      BY <2>1, UntouchedKeeps
    <2>2. CASE nonces' = sweep_expired(h) /\ UNCHANGED minting
      BY <2>2, SweepKeepsPending, FewerKeeps
    <2>3. CASE /\ ~Saturated(h) /\ Cardinality(minting) < MaxFlight
               /\ nonces' = sweep_expired(h)
               /\ minting' = minting \cup {<<e, h>>}
      <3>1. <<e, h>>[2] = h
        OBVIOUS
      <3>. QED  BY <2>3, <3>1, MintKeeps
    <2>. QED  BY <1>4, <2>1, <2>2, <2>3 DEF request_activation
  <1>5. ASSUME NEW e \in Ek, NEW h \in Host, issue_challenge(e, h) PROVE NonceInv'
    <2> DEFINE n == CHOOSE f \in Fresh : TRUE
    <2>1. n \in Fresh
      BY <1>5 DEF issue_challenge
    <2>2. <<e, h>> \in minting /\ minting' = minting \ {<<e, h>>} /\ Insert(n, h)
      BY <1>5 DEF issue_challenge
    <2>3. <<e, h>>[2] = h
      OBVIOUS
    <2> HIDE DEF n
    <2>. QED  BY <2>1, <2>2, <2>3, InsertKeeps
  <1>6. ASSUME NEW e \in Ek, submit_activation_proof(e) \/ RestartMachine(e) PROVE NonceInv'
    BY <1>6, UntouchedKeeps DEF submit_activation_proof, RestartMachine
  <1>7. ASSUME NEW c \in changes, ApplyChange(c) PROVE NonceInv'
    BY <1>7, UntouchedKeeps DEF ApplyChange
  <1>8. ASSUME NEW p \in proofs, propose_for(p) \/ ActivateNodeEk(p) \/ finish_activation(p) PROVE NonceInv'
    BY <1>8, UntouchedKeeps DEF propose_for, ActivateNodeEk, finish_activation
  <1>9. ASSUME NEW h \in Host, CrashWithProofs(h) PROVE NonceInv'
    <2>1. nonces' = nonces /\ minting' \subseteq minting
      BY <1>9 DEF CrashWithProofs
    <2>2. \A g \in Host : PendingOn(g)' = PendingOn(g)
      BY <2>1 DEF PendingOn, StoredOn
    <2>. QED  BY <2>1, <2>2, FewerKeeps DEF NonceInv
  <1>10. ASSUME NEW h \in Host, Elect(h) PROVE NonceInv'
    BY <1>10, UntouchedKeeps DEF Elect
  <1>11. CASE Lapse
    BY <1>11, LapseKeeps, UntouchedKeeps DEF Lapse
  <1>12. CASE OrphanProofIsLost
    BY <1>12, UntouchedKeeps DEF OrphanProofIsLost
  <1>. QED
    BY <1>1, <1>2, <1>3, <1>4, <1>5, <1>6, <1>7, <1>8, <1>9, <1>10, <1>11, <1>12 DEF EkNext

\* However many nodes join with tokens or with a TPM, crash and start again, a
\* control node's unexpired nonces and the requests about to store one exceed
\* the cap by at most the requests in flight but one (generate_nonce).
THEOREM NoncesAreBounded == (JoinSpec => []PendingIsBounded) /\ (EkSpec => []PendingIsBounded)
  <1>1. (\E J \in SUBSET Joiner, r, m \in Nat : JoinInit(J, r, m)) => NonceInv
    BY NonceInitHolds DEF JoinInit
  <1>2. (\E r, m \in Nat : EkInit(r, m)) => NonceInv
    BY NonceInitHolds DEF EkInit
  <1>3. NonceInv => PendingIsBounded
    BY DEF NonceInv
  <1>4. JoinSpec => []PendingIsBounded
    BY <1>1, <1>3, JoinKeepsNonces, PTL DEF JoinSpec
  <1>5. EkSpec => []PendingIsBounded
    BY <1>2, <1>3, EkKeepsNonces, PTL DEF EkSpec
  <1>. QED  BY <1>4, <1>5

-----------------------------------------------------------------------------
(* Tokens.                                                                 *)

IsQuote(q) ==
    /\ q = [id |-> q.id, host |-> q.host, nonce |-> q.nonce, token |-> q.token, step |-> q.step, clean |-> q.clean]
    /\ q.token \in Token /\ q.step \in {"taken", "proposed", "applied", "orphan"} /\ q.clean \in BOOLEAN

(***************************************************************************)
(* Why one: a quote is let through while the token is stored, and when a   *)
(* command removes the token every other quote for it has been overtaken.  *)
(* So once the token is gone, a quote that nothing overtook is the one     *)
(* whose command removed it, there is one such quote, and only until it    *)
(* has led to its grant.                                                   *)
(***************************************************************************)
TokenInv ==
    /\ tokens \in [Token -> {"none", "live", "lapsed", "gone"}]
    /\ admitted \in [Token -> {0, 1}]
    /\ \A q \in quotes : IsQuote(q)
    /\ \A q \in quotes : q.step = "applied" => tokens[q.token] = "gone"
    /\ \A t \in Token : admitted[t] = 1 => tokens[t] = "gone"
    /\ \A q \in quotes : q.clean /\ tokens[q.token] = "gone" => q.step = "applied" /\ admitted[q.token] = 0
    /\ \A p, q \in quotes : p.clean /\ q.clean /\ p.step = "applied" /\ q.step = "applied" /\ p.token = q.token => p = q

\* No token is consumed at first.
LEMMA TokenInitHolds == ASSUME NEW J, NEW r, NEW m, JoinInit(J, r, m) PROVE TokenInv
  BY SMTT(30) DEF JoinInit, TokenInv

\* Steps that touch neither tokens nor quotes.
LEMMA TokensUntouched ==
    ASSUME TokenInv, UNCHANGED <<tokens, quotes, admitted>>
    PROVE  TokenInv'
  BY DEF TokenInv, IsQuote

\* A quote gives up, or its handler dies with its node (check_quote's
\* rejections, OrphanIsLost).
LEMMA QuoteDropped ==
    ASSUME TokenInv, UNCHANGED <<tokens, admitted>>, quotes' \subseteq quotes
    PROVE  TokenInv'
  BY DEF TokenInv, IsQuote

\* A token is minted or expires.
LEMMA TokenAges ==
    ASSUME TokenInv, NEW t \in Token, generate_join_token(t) \/ TokenLapses(t)
    PROVE  TokenInv'
  <1>1. /\ tokens' \in [Token -> {"none", "live", "lapsed", "gone"}]
        /\ \A u \in Token : tokens'[u] = "gone" <=> tokens[u] = "gone"
        /\ UNCHANGED <<quotes, admitted>>
    BY DEF TokenInv, generate_join_token, TokenLapses
  <1>. QED  BY <1>1 DEF TokenInv, IsQuote

\* submit_quote lets a quote through while its token is stored.
LEMMA SubmitKeepsTokens ==
    ASSUME TokenInv, NEW j \in Joiner, submit_quote(j)
    PROVE  TokenInv'
  <1>1. CASE UNCHANGED quotes
    BY <1>1, TokensUntouched DEF submit_quote
  <1>2. CASE validate_only(TokenOf[j]) /\
             quotes' = quotes \cup {[id |-> j, host |-> client[j].host, nonce |-> client[j].nonce,
                                     token |-> TokenOf[j], step |-> "taken", clean |-> TRUE]}
    <2> DEFINE new == [id |-> j, host |-> client[j].host, nonce |-> client[j].nonce,
                       token |-> TokenOf[j], step |-> "taken", clean |-> TRUE]
    <2>1. TokenOf[j] \in Token
      BY TokenAssumption
    <2>2. IsQuote(new) /\ new.token = TokenOf[j] /\ new.step = "taken"
      BY <2>1 DEF IsQuote
    <2>3. tokens[TokenOf[j]] = "live"
      BY <1>2 DEF validate_only
    <2>4. UNCHANGED <<tokens, admitted>>
      BY DEF submit_quote
    <2>5. quotes' = quotes \cup {new}
      BY <1>2
    <2> HIDE DEF new
    <2>. QED  BY <2>1, <2>2, <2>3, <2>4, <2>5 DEF TokenInv, IsQuote
  <1>. QED  BY <1>1, <1>2 DEF submit_quote

\* check_quote moves a quote on, or drops it.
LEMMA CheckKeepsTokens ==
    ASSUME TokenInv, NEW q \in quotes, check_quote(q)
    PROVE  TokenInv'
  <1>1. CASE quotes' = quotes \ {q}
    BY <1>1, QuoteDropped DEF check_quote
  <1>2. CASE quotes' = (quotes \ {q}) \cup {[q EXCEPT !.step = "proposed"]}
    <2> DEFINE new == [q EXCEPT !.step = "proposed"]
    <2>1. IsQuote(new) /\ new.token = q.token /\ new.step = "proposed" /\ new.clean = q.clean
      BY SMTT(30) DEF TokenInv, IsQuote
    <2>2. q.step = "taken" /\ UNCHANGED <<tokens, admitted>>
      BY DEF check_quote
    <2>3. quotes' = (quotes \ {q}) \cup {new}
      BY <1>2
    <2> HIDE DEF new
    <2>. QED  BY <2>1, <2>2, <2>3, SMTT(30) DEF TokenInv, IsQuote
  <1>. QED  BY <1>1, <1>2 DEF check_quote

\* ConsumeJoinToken removes the token and overtakes the other quotes for it.
LEMMA ConsumeKeepsTokens ==
    ASSUME TokenInv, NEW q \in quotes, ConsumeJoinToken(q)
    PROVE  TokenInv'
  <1> DEFINE aged(d) == [d EXCEPT !.clean = d.clean /\ d.token # q.token]
             new == [q EXCEPT !.step = "applied"]
  <1>1. IsQuote(q) /\ q.step \in {"proposed", "orphan"} /\ UNCHANGED admitted
    BY DEF TokenInv, ConsumeJoinToken
  <1>2. IsQuote(new) /\ new.token = q.token /\ new.step = "applied" /\ new.clean = q.clean
    BY <1>1, SMTT(30) DEF IsQuote
  <1>3. \A d \in quotes : /\ IsQuote(aged(d)) /\ aged(d).token = d.token /\ aged(d).step = d.step
                          /\ aged(d).clean = (d.clean /\ d.token # q.token)
                          /\ d.token # q.token => aged(d) = d
    BY SMTT(30) DEF TokenInv, IsQuote
  <1>4. /\ tokens' \in [Token -> {"none", "live", "lapsed", "gone"}]
        /\ \A t \in Token : tokens'[t] = IF t = q.token THEN "gone" ELSE tokens[t]
    BY <1>1 DEF TokenInv, ConsumeJoinToken, IsQuote
  <1>5. \A x \in quotes' : x = new \/ \E d \in quotes \ {q} : x = aged(d)
    BY DEF ConsumeJoinToken
  <1>6. q.clean => admitted[q.token] = 0
    BY <1>1 DEF TokenInv, IsQuote
  <1> HIDE DEF aged, new
  <1>7. \A x \in quotes' : IsQuote(x)
    BY <1>2, <1>3, <1>5
  <1>8. \A x \in quotes' : x.step = "applied" => tokens'[x.token] = "gone"
    BY <1>1, <1>2, <1>3, <1>4, <1>5, SMTT(30) DEF TokenInv, IsQuote
  <1>9. \A t \in Token : admitted'[t] = 1 => tokens'[t] = "gone"
    BY <1>1, <1>4 DEF TokenInv
  <1>10. \A x \in quotes' : x.clean => x = new \/ (x \in quotes /\ x.token # q.token)
    BY <1>3, <1>5
  <1>11. \A x \in quotes' : x.clean /\ tokens'[x.token] = "gone" => x.step = "applied" /\ admitted'[x.token] = 0
    BY <1>1, <1>2, <1>4, <1>6, <1>10, SMTT(30) DEF TokenInv, IsQuote
  <1>12. \A x, y \in quotes' : x.clean /\ y.clean /\ x.step = "applied" /\ y.step = "applied" /\ x.token = y.token => x = y
    BY <1>2, <1>10, SMTT(30) DEF TokenInv
  <1>13. admitted' \in [Token -> {0, 1}]
    BY <1>1 DEF TokenInv
  <1>. QED  BY <1>4, <1>7, <1>8, <1>9, <1>11, <1>12, <1>13 DEF TokenInv, IsQuote

\* grant_csr counts an admission: the first one of its token, if nothing
\* overtook the quote.
LEMMA GrantKeepsTokens ==
    ASSUME TokenInv, NEW q \in quotes, grant_csr(q)
    PROVE  TokenInv'
  <1>1. quotes' = quotes \ {q} /\ tokens' = tokens /\ q.step = "applied"
    BY DEF grant_csr
  <1>2. CASE ~q.clean
    BY <1>1, <1>2, QuoteDropped DEF grant_csr
  <1>3. CASE q.clean
    <2>1. tokens[q.token] = "gone" /\ admitted[q.token] = 0 /\ q.token \in Token
      BY <1>1, <1>3 DEF TokenInv, IsQuote
    <2>2. /\ admitted' \in [Token -> {0, 1}]
          /\ \A t \in Token : admitted'[t] = IF t = q.token THEN 1 ELSE admitted[t]
      BY <1>3, <2>1, SMTT(30) DEF grant_csr, TokenInv
    <2>3. \A p \in quotes' : p.clean /\ p.token = q.token => p.step # "applied"
      BY <1>1, <1>3 DEF TokenInv
    <2>. QED  BY <1>1, <2>1, <2>2, <2>3 DEF TokenInv, IsQuote
  <1>. QED  BY <1>2, <1>3 DEF TokenInv, IsQuote

\* A crash leaves of the node's quotes those whose command is under way.
LEMMA CrashKeepsTokens ==
    ASSUME TokenInv, NEW h \in Host, Crash(h)
    PROVE  TokenInv'
  <1>1. UNCHANGED <<tokens, admitted>>
    BY DEF Crash
  <1>2. ASSUME NEW x \in quotes'
        PROVE  \/ x \in quotes
               \/ \E d \in quotes : /\ d.step = "proposed" /\ IsQuote(x) /\ x.token = d.token
                                    /\ x.clean = d.clean /\ x.step = "orphan"
    <2>1. PICK d \in quotes : /\ d.host = h => d.step = "proposed"
                              /\ x = IF d.host = h THEN [d EXCEPT !.step = "orphan"] ELSE d
      BY DEF Crash, Lost
    <2>. QED  BY <2>1, SMTT(30) DEF TokenInv, IsQuote
  <1>. QED  BY <1>1, <1>2 DEF TokenInv, IsQuote

\* A join token admits one node, although control nodes crash, machines start
\* again and quotes overlap: of the quotes a token led to a grant for, all but
\* one had been validated before the token was consumed (submit_quote).
THEOREM TokenIsSpentOnce == JoinSpec => []TokenAdmitsOnce
  <1>1. (\E J \in SUBSET Joiner, r, m \in Nat : JoinInit(J, r, m)) => TokenInv
    BY TokenInitHolds
  <1>2. TokenInv /\ [JoinNext]_joinVars => TokenInv'
    <2> SUFFICES ASSUME TokenInv, [JoinNext]_joinVars PROVE TokenInv'
      OBVIOUS
    <2>1. CASE UNCHANGED joinVars
      BY <2>1, TokensUntouched DEF joinVars
    <2>2. ASSUME NEW j \in Joiner, request_nonce(j) \/ submit_csr(j) \/ renew_svid(j) \/ Restart(j) PROVE TokenInv'
      BY <2>2, TokensUntouched DEF request_nonce, submit_csr, renew_svid, Restart, csrFrame
    <2>3. ASSUME NEW j \in Joiner, NEW h \in Host, issue_nonce(j, h) \/ GrantLapses(h, j) PROVE TokenInv'
      BY <2>3, TokensUntouched DEF issue_nonce, GrantLapses, csrFrame
    <2>4. ASSUME NEW q \in quotes, check_quote(q) \/ ConsumeJoinToken(q) \/ grant_csr(q) PROVE TokenInv'
      BY <2>4, CheckKeepsTokens, ConsumeKeepsTokens, GrantKeepsTokens
    <2>5. ASSUME NEW c \in csrs, authorize_via_grant(c) \/ propose_svid(c) \/ UpsertSvidVersion(c) \/ sign_csr(c)
          PROVE  TokenInv'
      BY <2>5, TokensUntouched DEF authorize_via_grant, propose_svid, UpsertSvidVersion, sign_csr, csrFrame
    <2>6. ASSUME NEW h \in Host, ElectForJoin(h) PROVE TokenInv'
      BY <2>6, TokensUntouched DEF ElectForJoin
    <2>7. CASE OrphanIsLost
      BY <2>7, QuoteDropped DEF OrphanIsLost
    <2>8. ASSUME NEW n \in Nonce, UNCHANGED <<quotes, tokens, admitted>> PROVE TokenInv'
      BY <2>8, TokensUntouched
    <2>. QED
      BY <2>1, <2>2, <2>3, <2>4, <2>5, <2>6, <2>7, <2>8, TokenAges, SubmitKeepsTokens, CrashKeepsTokens DEF JoinNext
  <1>3. TokenInv => TokenAdmitsOnce
    BY SMTT(30) DEF TokenInv, TokenAdmitsOnce
  <1>. QED  BY <1>1, <1>2, <1>3, PTL DEF JoinSpec

-----------------------------------------------------------------------------
(* Endorsement keys.                                                       *)

EkChange == [cmd : {"RegisterNodeEk", "RevokeNodeEk"}, ek : Ek, clean : BOOLEAN]

IsProof(p) ==
    /\ p = [ek |-> p.ek, host |-> p.host, step |-> p.step, clean |-> p.clean]
    /\ p.ek \in Ek /\ p.clean \in BOOLEAN

\* A registration that nothing overtook finds no record, a proof that nothing
\* overtook finds a key in use.
EkInv ==
    /\ eks \in [Ek -> {Absent} \cup EkRecord]
    /\ changes \subseteq EkChange
    /\ \A p \in proofs : IsProof(p)
    /\ \A c \in changes : c.clean /\ c.cmd = "RegisterNodeEk" => eks[c.ek] = Absent
    /\ \A p \in proofs : p.clean => eks[p.ek] # Absent /\ eks[p.ek].state # "Revoked"

\* No key is registered at first.
LEMMA EkInitHolds == ASSUME NEW r, NEW m, EkInit(r, m) PROVE EkInv
  BY DEF EkInit, EkInv

\* Steps that touch neither keys, changes of them nor proofs.
LEMMA EksUntouched ==
    ASSUME EkInv, UNCHANGED <<eks, changes, proofs>>
    PROVE  EkInv'
  BY DEF EkInv, IsProof

\* A step moves proofs on or drops them, without a change of their mark.
LEMMA ProofsMoveOn ==
    ASSUME EkInv, UNCHANGED <<eks, changes>>,
           \A x \in proofs' : \/ x \in proofs
                              \/ IsProof(x) /\ \E p \in proofs : x.ek = p.ek /\ x.clean = p.clean
    PROVE  EkInv'
  BY DEF EkInv, IsProof

\* register_node_ek is refused while the key has a record.
LEMMA AskKeepsEks ==
    ASSUME EkInv, NEW e \in Ek, register_node_ek(e) \/ revoke_node_ek(e)
    PROVE  EkInv'
  <1>1. PICK k \in {"RegisterNodeEk", "RevokeNodeEk"} :
            /\ changes' = changes \cup {[cmd |-> k, ek |-> e, clean |-> TRUE]}
            /\ k = "RegisterNodeEk" => eks[e] = Absent
            /\ UNCHANGED <<eks, proofs>>
    BY DEF register_node_ek, revoke_node_ek, AskFor, Propose
  <1> DEFINE new == [cmd |-> k, ek |-> e, clean |-> TRUE]
  <1>2. new \in EkChange /\ new.cmd = k /\ new.ek = e
    BY DEF EkChange
  <1>3. changes' = changes \cup {new}
    BY <1>1
  <1> HIDE DEF new
  <1>4. changes' \subseteq EkChange
    BY <1>2, <1>3 DEF EkInv
  <1>5. \A c \in changes' : c.clean /\ c.cmd = "RegisterNodeEk" => eks'[c.ek] = Absent
    BY <1>1, <1>2, <1>3 DEF EkInv
  <1>. QED  BY <1>1, <1>4, <1>5 DEF EkInv, IsProof

\* A change is applied and overtakes what is under way for its key.
LEMMA ChangeKeepsEks ==
    ASSUME EkInv, NEW c \in changes, ApplyChange(c)
    PROVE  EkInv'
  <1>1. c \in EkChange
    BY DEF EkInv
  <1>2. eks' \in [Ek -> {Absent} \cup EkRecord] /\ \A e \in Ek : e # c.ek => eks'[e] = eks[e]
    <2>1. CASE RegisterNodeEk(c)
      BY <1>1, <2>1 DEF RegisterNodeEk, EkInv, EkChange, EkRecord
    <2>2. CASE RevokeNodeEk(c) /\ eks[c.ek] = Absent
      BY <1>1, <2>2 DEF RevokeNodeEk, EkInv
    <2>3. CASE RevokeNodeEk(c) /\ eks[c.ek] # Absent
      <3>1. eks[c.ek] \in EkRecord
        BY <1>1, <2>3 DEF EkInv, EkChange
      <3>2. [eks[c.ek] EXCEPT !.state = "Revoked"] \in EkRecord
        BY <3>1 DEF EkRecord
      <3>. QED  BY <1>1, <2>3, <3>2 DEF RevokeNodeEk, EkInv
    <2>. QED  BY <2>1, <2>2, <2>3 DEF ApplyChange
  <1>3. \A x \in changes' : /\ x \in EkChange
                            /\ x.clean => x \in changes /\ x.ek # c.ek
    <2>1. TAKE x \in changes'
    <2>2. PICK d \in changes : x = [d EXCEPT !.clean = d.clean /\ d.ek # c.ek]
      BY DEF ApplyChange
    <2>3. d \in EkChange
      BY DEF EkInv
    <2>. QED  BY <2>2, <2>3 DEF EkChange
  <1>4. \A x \in proofs' : /\ IsProof(x)
                           /\ x.clean => x \in proofs /\ x.ek # c.ek
    <2>1. TAKE x \in proofs'
    <2>2. PICK p \in proofs : x = [p EXCEPT !.clean = p.clean /\ p.ek # c.ek]
      BY DEF ApplyChange
    <2>3. IsProof(p)
      BY DEF EkInv
    <2>. QED  BY <2>2, <2>3 DEF IsProof
  <1>5. \A x \in changes' : x.clean /\ x.cmd = "RegisterNodeEk" => eks'[x.ek] = Absent
    BY <1>2, <1>3 DEF EkInv, EkChange
  <1>6. \A x \in proofs' : x.clean => eks'[x.ek] # Absent /\ eks'[x.ek].state # "Revoked"
    BY <1>2, <1>4 DEF EkInv, IsProof
  <1>7. changes' \subseteq EkChange
    BY <1>3
  <1>8. \A x \in proofs' : IsProof(x)
    BY <1>4
  <1>. QED  BY <1>2, <1>5, <1>6, <1>7, <1>8 DEF EkInv, IsProof

\* A registration expires: its state stays.
LEMMA LapseKeepsEks ==
    ASSUME EkInv, NEW e \in Ek, eks[e] # Absent, eks' = [eks EXCEPT ![e].lapsed = TRUE],
           UNCHANGED <<changes, proofs>>
    PROVE  EkInv' /\ \A k \in Ek : eks[k] # Absent => eks'[k] # Absent /\ eks'[k].state = eks[k].state
  <1>1. eks[e] \in EkRecord
    BY DEF EkInv
  <1>2. [eks[e] EXCEPT !.lapsed = TRUE] \in EkRecord /\ [eks[e] EXCEPT !.lapsed = TRUE].state = eks[e].state
    BY <1>1 DEF EkRecord
  <1>3. eks' = [eks EXCEPT ![e] = [eks[e] EXCEPT !.lapsed = TRUE]]
    BY DEF EkInv
  <1>4. /\ eks' \in [Ek -> {Absent} \cup EkRecord]
        /\ \A k \in Ek : k # e => eks'[k] = eks[k]
        /\ eks'[e] # Absent /\ eks'[e].state = eks[e].state
    BY <1>2, <1>3, EkAssumption DEF EkInv
  <1>. QED  BY <1>4, SMTT(30) DEF EkInv, IsProof, EkChange

\* submit_activation_proof checks the key again.
LEMMA SubmitKeepsEks ==
    ASSUME EkInv, NEW e \in Ek, submit_activation_proof(e)
    PROVE  EkInv'
  <1>1. CASE UNCHANGED proofs
    BY <1>1, EksUntouched DEF submit_activation_proof
  <1>2. CASE Usable(e) /\ proofs' = proofs \cup {[ek |-> e, host |-> machine[e].host, step |-> "signed", clean |-> TRUE]}
    <2> DEFINE new == [ek |-> e, host |-> machine[e].host, step |-> "signed", clean |-> TRUE]
    <2>1. IsProof(new) /\ new.ek = e
      BY DEF IsProof
    <2>2. proofs' = proofs \cup {new} /\ UNCHANGED <<eks, changes>>
      BY <1>2 DEF submit_activation_proof
    <2> HIDE DEF new
    <2>. QED  BY <1>2, <2>1, <2>2 DEF EkInv, Usable, IsProof
  <1>. QED  BY <1>1, <1>2 DEF submit_activation_proof

\* ActivateNodeEk records a key as joined, whatever state it is in by then.
LEMMA ActivateKeepsEks ==
    ASSUME EkInv, NEW p \in proofs, ActivateNodeEk(p)
    PROVE  /\ EkInv'
           /\ \A k \in Ek : k # p.ek => eks'[k] = eks[k]
  <1>1. IsProof(p)
    BY DEF EkInv
  <1>2. CASE eks[p.ek] = Absent
    BY <1>2, ProofsMoveOn, <1>1, SMTT(30) DEF ActivateNodeEk, Joined, IsProof
  <1>3. CASE eks[p.ek] # Absent
    <2> DEFINE rec == [eks[p.ek] EXCEPT !.state = "Joined", !.late = FALSE]
    <2>1. eks[p.ek] \in EkRecord
      BY <1>1, <1>3 DEF EkInv, IsProof
    <2>2. rec \in EkRecord /\ rec.state = "Joined"
      BY <2>1 DEF EkRecord
    <2>3. eks' = [eks EXCEPT ![p.ek] = rec]
      BY <1>1, <1>3 DEF ActivateNodeEk, Joined, EkInv, IsProof
    <2> HIDE DEF rec
    <2>4. eks' \in [Ek -> {Absent} \cup EkRecord] /\ \A k \in Ek : eks'[k] = IF k = p.ek THEN rec ELSE eks[k]
      BY <1>1, <2>2, <2>3 DEF EkInv, IsProof
    <2>5. \A x \in proofs' : IsProof(x) /\ \E d \in proofs : x.ek = d.ek /\ x.clean = d.clean
      <3>1. IsProof([p EXCEPT !.step = "joined"]) /\ [p EXCEPT !.step = "joined"].ek = p.ek
            /\ [p EXCEPT !.step = "joined"].clean = p.clean
        BY <1>1, SMTT(30) DEF IsProof
      <3>2. \A x \in proofs' : x \in proofs \/ x = [p EXCEPT !.step = "joined"]
        BY DEF ActivateNodeEk
      <3>. QED  BY <3>1, <3>2 DEF EkInv
    <2>6. \A x \in proofs' : x.clean => eks'[x.ek] # Absent /\ eks'[x.ek].state # "Revoked"
      BY <2>2, <2>4, <2>5, EkAssumption, SMTT(30) DEF EkInv, IsProof
    <2>7. UNCHANGED changes
      BY DEF ActivateNodeEk
    <2>8. \A c \in changes' : c.clean /\ c.cmd = "RegisterNodeEk" => eks'[c.ek] = Absent
      BY <1>3, <2>4, <2>7 DEF EkInv, EkChange
    <2>. QED  BY <2>4, <2>5, <2>6, <2>7, <2>8 DEF EkInv, IsProof
  <1>. QED  BY <1>2, <1>3

\* Every step keeps it.
LEMMA StepKeepsEks == EkInv /\ [EkNext]_ekVars => EkInv'
  <1> SUFFICES ASSUME EkInv, [EkNext]_ekVars PROVE EkInv'
    OBVIOUS
  <1>1. CASE UNCHANGED ekVars
    BY <1>1, EksUntouched DEF ekVars
  <1>2. ASSUME NEW e \in Ek, NEW v, set_pcr_policy(e, v) PROVE EkInv'
    BY <1>2, EksUntouched DEF set_pcr_policy
  <1>3. ASSUME NEW e \in Ek, request_activation(e) \/ RestartMachine(e) PROVE EkInv'
    BY <1>3, EksUntouched DEF request_activation, RestartMachine
  <1>4. ASSUME NEW e \in Ek, NEW h \in Host, issue_challenge(e, h) PROVE EkInv'
    BY <1>4, EksUntouched DEF issue_challenge
  <1>5. ASSUME NEW p \in proofs, propose_for(p) \/ finish_activation(p) PROVE EkInv'
    <2>1. UNCHANGED <<eks, changes>>
      BY <1>5 DEF propose_for, finish_activation
    <2>2. IsProof(p)
      BY DEF EkInv
    <2>3. \A s : IsProof([p EXCEPT !.step = s]) /\ [p EXCEPT !.step = s].ek = p.ek /\ [p EXCEPT !.step = s].clean = p.clean
      BY <2>2, SMTT(30) DEF IsProof
    <2>4. \A x \in proofs' : x \in proofs \/ \E s : x = [p EXCEPT !.step = s]
      BY <1>5 DEF propose_for, finish_activation
    <2>. QED  BY <2>1, <2>3, <2>4, ProofsMoveOn
  <1>6. ASSUME NEW h \in Host, CrashWithProofs(h) PROVE EkInv'
    <2>1. UNCHANGED <<eks, changes>>
      BY <1>6 DEF CrashWithProofs
    <2>2. ASSUME NEW x \in proofs' PROVE x \in proofs \/ (IsProof(x) /\ \E p \in proofs : x.ek = p.ek /\ x.clean = p.clean)
      <3>1. PICK p \in proofs : x = IF p.host = h THEN [p EXCEPT !.step = "orphan"] ELSE p
        BY <1>6 DEF CrashWithProofs
      <3>2. IsProof(p)
        BY DEF EkInv
      <3>. QED  BY <3>1, <3>2 DEF IsProof
    <2>. QED  BY <2>1, <2>2, ProofsMoveOn
  <1>7. ASSUME NEW h \in Host, UNCHANGED <<eks, proofs, changes>> PROVE EkInv'
    BY <1>7, EksUntouched
  <1>8. CASE Lapse
    BY <1>8, LapseKeepsEks, EksUntouched DEF Lapse
  <1>9. CASE OrphanProofIsLost
    BY <1>9, ProofsMoveOn DEF OrphanProofIsLost
  <1>. QED
    BY <1>1, <1>2, <1>3, <1>4, <1>5, <1>6, <1>7, <1>8, <1>9,
       AskKeepsEks, ChangeKeepsEks, SubmitKeepsEks, ActivateKeepsEks DEF EkNext

\* A revocation of an endorsement key is final, unless a proof or a
\* registration undoes it that a change of the key overtook: ActivateNodeEk
\* and RegisterNodeEk are applied to whatever state the key is in.
THEOREM RevocationIsFinal == EkSpec => RevocationSticks
  <1>1. (\E r, m \in Nat : EkInit(r, m)) => EkInv
    BY EkInitHolds
  <1> DEFINE Sticks ==
        \A e \in Ek : eks[e] # Absent /\ eks[e].state = "Revoked" /\ eks'[e].state # "Revoked" =>
          \/ \E p \in proofs : p.ek = e /\ ~p.clean /\ ActivateNodeEk(p)
          \/ \E c \in changes : c.ek = e /\ ~c.clean /\ ApplyChange(c)
  <1>2. EkInv /\ [EkNext]_ekVars => [Sticks]_ekVars
    <2> SUFFICES ASSUME EkInv, EkNext, NEW e \in Ek, eks[e] # Absent, eks[e].state = "Revoked", eks'[e].state # "Revoked"
                 PROVE  \/ \E p \in proofs : p.ek = e /\ ~p.clean /\ ActivateNodeEk(p)
                        \/ \E c \in changes : c.ek = e /\ ~c.clean /\ ApplyChange(c)
      OBVIOUS
    <2>1. eks' # eks
      OBVIOUS
    <2>2. ASSUME NEW p \in proofs, ActivateNodeEk(p) PROVE p.ek = e /\ ~p.clean
      BY <2>2, ActivateKeepsEks DEF EkInv
    <2>3. ASSUME NEW c \in changes, ApplyChange(c) PROVE c.ek = e /\ ~c.clean
      <3>1. c \in EkChange
        BY DEF EkInv
      <3>2. eks'[e] # eks[e] => c.ek = e
        BY <2>3, <3>1 DEF ApplyChange, RegisterNodeEk, RevokeNodeEk, EkInv, EkChange
      <3>3. c.ek = e
        BY <3>2
      <3>4. c.cmd = "RegisterNodeEk"
        <4>1. eks[e] \in EkRecord
          BY DEF EkInv
        <4>2. [eks[e] EXCEPT !.state = "Revoked"].state = "Revoked"
          BY <4>1 DEF EkRecord
        <4>3. RevokeNodeEk(c) => eks'[e] = [eks[e] EXCEPT !.state = "Revoked"]
          BY <3>3 DEF RevokeNodeEk, EkInv
        <4>. QED  BY <2>3, <4>2, <4>3 DEF ApplyChange, RegisterNodeEk
      <3>. QED  BY <3>3, <3>4 DEF EkInv
    <2>4. ~Lapse
      BY LapseKeepsEks, <2>1 DEF Lapse
    <2>5. CASE \E k \in Ek : register_node_ek(k) \/ revoke_node_ek(k)
      BY <2>1, <2>5 DEF register_node_ek, revoke_node_ek, AskFor
    <2>6. CASE \E k \in Ek : \/ \E v \in {"active", "inactive"} : set_pcr_policy(k, v)
                            \/ request_activation(k) \/ submit_activation_proof(k) \/ RestartMachine(k)
                            \/ \E h \in Host : issue_challenge(k, h)
      BY <2>1, <2>6 DEF set_pcr_policy, request_activation, submit_activation_proof, RestartMachine, issue_challenge
    <2>7. CASE \E p \in proofs : propose_for(p) \/ finish_activation(p)
      BY <2>1, <2>7 DEF propose_for, finish_activation
    <2>8. CASE \E h \in Host : CrashWithProofs(h)
      BY <2>1, <2>8 DEF CrashWithProofs
    <2>9. CASE OrphanProofIsLost
      BY <2>1, <2>9 DEF OrphanProofIsLost
    <2>. QED  BY <2>1, <2>2, <2>3, <2>4, <2>5, <2>6, <2>7, <2>8, <2>9 DEF EkNext
  <1>. QED  BY <1>1, <1>2, StepKeepsEks, PTL DEF EkSpec, RevocationSticks

=============================================================================
