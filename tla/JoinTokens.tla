---------------------------- MODULE JoinTokens -----------------------------
(***************************************************************************)
(* Joining with a token: a node asks for a nonce, answers it with a quote  *)
(* and a join token, and exchanges the grant it gets for a certificate.    *)
(* Nonces, claims and grants are local to the control node that is asked;  *)
(* tokens and certificate versions are replicated, and only the leader     *)
(* can write them: any other node answers with a redirect.  The joining    *)
(* process may be restarted, and asks again while a control node is still  *)
(* working on its earlier request.                                         *)
(***************************************************************************)
EXTENDS NonceManager

CONSTANTS
    Joiner,       \* joining nodes; each claims the identity it is named for
    Token,        \* join tokens
    TokenOf,      \* the token each joiner was given
    Fits,         \* pairs <<token, joiner>> of one node kind
    MaxVersion    \* bound on renewals

ASSUME TokenAssumption == TokenOf \in [Joiner -> Token]

VARIABLES
    tokens,      \* each token: "none", "live", "lapsed" or "gone"
    claims,      \* identity claimed for a nonce, or Absent
    quotes,      \* submit_quote handlers
    grants,      \* per control node and identity: Absent, "live" or "lapsed"
    csrs,        \* submit_csr handlers
    versions,    \* certificate version of each identity
    client,      \* where each joiner is, and whom it talks to
    admitted,    \* per token: quotes that led to a grant, and that no other consumption of it overtook
    granted,     \* per joiner: grants written
    signed       \* per joiner: certificates signed on a grant no other request took meanwhile

joinVars == <<nonces, minting, leader, tokens, claims, quotes, grants, csrs, versions,
              client, admitted, granted, signed, restarts, moves>>

\* What the steps of a quote, and what those of a signing request leave alone.
quoteFrame == <<csrs, versions, signed, leader, restarts, moves>>
csrFrame == <<nonces, minting, claims, quotes, tokens, admitted, granted, leader, restarts, moves>>

\* The joiners J come up, with r restarts and m elections or crashes to come.
JoinInit(J, r, m) ==
    /\ NonceInit(r, m)
    /\ tokens = [t \in Token |-> "none"]
    /\ claims = [n \in Nonce |-> Absent]
    /\ quotes = {} /\ csrs = {}
    /\ grants = [h \in Host |-> [j \in Joiner |-> Absent]]
    /\ versions = [j \in Joiner |-> 0]
    /\ client = [j \in Joiner |-> [at |-> IF j \in J THEN "idle" ELSE "off", host |-> leader, nonce |-> Absent]]
    /\ admitted = [t \in Token |-> 0]
    /\ granted = [j \in Joiner |-> 0] /\ signed = [j \in Joiner |-> 0]

\* The joiner goes on, if it still waits for this answer.
Answer(j, h, from, to) ==
    client' = IF client[j].at = from /\ client[j].host = h
              THEN [client EXCEPT ![j].at = to] ELSE client

\* The answer names the leader, and the joiner starts over there.
Redirect(j, h, from) ==
    client' = IF client[j].at = from /\ client[j].host = h
              THEN [client EXCEPT ![j] = [at |-> "idle", host |-> leader, nonce |-> Absent]]
              ELSE client

-----------------------------------------------------------------------------
\* An operator mints a token; its time runs out.
generate_join_token(t) ==
    /\ tokens[t] = "none"
    /\ tokens' = [tokens EXCEPT ![t] = "live"]
    /\ UNCHANGED <<nonces, minting, claims, quotes, grants, client, admitted, granted, quoteFrame>>

TokenLapses(t) ==
    /\ tokens[t] = "live"
    /\ tokens' = [tokens EXCEPT ![t] = "lapsed"]
    /\ UNCHANGED <<nonces, minting, claims, quotes, grants, client, admitted, granted, quoteFrame>>

-----------------------------------------------------------------------------
\* The first half of request_nonce: claims whose nonce is not stored any more
\* are dropped, expired nonces swept, the rest counted.
request_nonce(j) ==
    LET h == client[j].host IN
    /\ client[j].at = "idle" /\ <<j, h>> \notin minting
    /\ claims' = [n \in Nonce |-> IF nonces[n].host = h /\ ~is_nonce_pending(n) THEN Absent ELSE claims[n]]
    /\ nonces' = sweep_expired(h)
    /\ IF Saturated(h)
       THEN UNCHANGED minting /\ client' = [client EXCEPT ![j].at = "failed"]
       ELSE /\ Cardinality(minting) < MaxFlight
            /\ minting' = minting \cup {<<j, h>>}
            /\ client' = [client EXCEPT ![j].at = "nonce"]
    /\ UNCHANGED <<tokens, quotes, grants, admitted, granted, quoteFrame>>

\* The second half stores the nonce with its claim and answers.
issue_nonce(j, h) ==
    /\ <<j, h>> \in minting /\ Fresh # {}
    /\ LET n == CHOOSE f \in Fresh : TRUE IN
        /\ minting' = minting \ {<<j, h>>}
        /\ Insert(n, h)
        /\ claims' = [claims EXCEPT ![n] = j]
        /\ client' = IF client[j].at = "nonce" /\ client[j].host = h
                     THEN [client EXCEPT ![j].at = "quote", ![j].nonce = n] ELSE client
        /\ UNCHANGED <<tokens, quotes, grants, admitted, granted, quoteFrame>>

\* Mutation: a consumed token still validates.
ValidateStored(t) == tokens[t] \in {"live", "gone"}

validate_only(t) == tokens[t] = "live"

Fail(j) == client' = [client EXCEPT ![j].at = "failed"]

\* submit_quote looks the token up, then takes the nonce out of the store.
submit_quote(j) ==
    LET h == client[j].host
        n == client[j].nonce
        t == TokenOf[j] IN
    /\ client[j].at = "quote"
    /\ \/ ~validate_only(t) /\ Fail(j) /\ UNCHANGED <<nonces, quotes>>
       \/ validate_only(t) /\ nonces[n].state = "gone" /\ Fail(j) /\ UNCHANGED <<nonces, quotes>>
       \/ validate_only(t) /\ nonces[n].state = "lapsed" /\ Fail(j) /\ Forget(n) /\ UNCHANGED quotes
       \/ /\ validate_only(t) /\ nonces[n].state = "pending"
          /\ Cardinality(quotes) < MaxFlight
          /\ Forget(n)
          /\ quotes' = quotes \cup {[id |-> j, host |-> h, nonce |-> n, token |-> t,
                                     step |-> "taken", clean |-> TRUE]}
          /\ client' = [client EXCEPT ![j].at = "quoted"]
    /\ UNCHANGED <<tokens, claims, minting, grants, admitted, granted, quoteFrame>>

\* It then reads the claim, checks the quote and the kind, and proposes to
\* consume the token; a node that does not lead answers with a redirect.
check_quote(q) ==
    /\ q.step = "taken"
    /\ \/ /\ claims[q.nonce] = Absent \/ <<q.token, q.id>> \notin Fits
          /\ quotes' = quotes \ {q}
          /\ Answer(q.id, q.host, "quoted", "failed")
       \/ /\ claims[q.nonce] # Absent /\ <<q.token, q.id>> \in Fits /\ q.host # leader
          /\ quotes' = quotes \ {q}
          /\ Redirect(q.id, q.host, "quoted")
       \/ /\ claims[q.nonce] # Absent /\ <<q.token, q.id>> \in Fits /\ q.host = leader
          /\ quotes' = (quotes \ {q}) \cup {[q EXCEPT !.step = "proposed"]}
          /\ UNCHANGED client
    /\ UNCHANGED <<tokens, nonces, claims, minting, grants, admitted, granted, quoteFrame>>

\* Consuming a token that is gone succeeds like the first time.
ConsumeJoinToken(q) ==
    /\ q.step \in {"proposed", "orphan"}
    /\ tokens' = [tokens EXCEPT ![q.token] = "gone"]
    /\ quotes' = {[d EXCEPT !.clean = d.clean /\ d.token # q.token] : d \in quotes \ {q}}
                     \cup (IF q.step = "orphan" THEN {} ELSE {[q EXCEPT !.step = "applied"]})
    /\ UNCHANGED <<nonces, minting, claims, grants, client, admitted, granted, quoteFrame>>

\* The handler drops the claim, leaves a grant on its node and answers.
grant_csr(q) ==
    /\ q.step = "applied"
    /\ quotes' = quotes \ {q}
    /\ claims' = [claims EXCEPT ![q.nonce] = Absent]
    /\ grants' = [grants EXCEPT ![q.host][q.id] = "live"]
    /\ granted' = [granted EXCEPT ![q.id] = @ + 1]
    /\ admitted' = IF q.clean THEN [admitted EXCEPT ![q.token] = @ + 1] ELSE admitted
    /\ Answer(q.id, q.host, "quoted", "csr")
    /\ UNCHANGED <<nonces, minting, tokens, quoteFrame>>

GrantLapses(h, j) ==
    /\ grants[h][j] = "live"
    /\ grants' = [grants EXCEPT ![h][j] = "lapsed"]
    /\ UNCHANGED <<csrFrame, csrs, versions, signed, client>>

-----------------------------------------------------------------------------
\* submit_csr without a certificate reads the grant of the identity,
submit_csr(j) ==
    LET h == client[j].host IN
    /\ client[j].at = "csr"
    /\ \/ grants[h][j] = Absent /\ Fail(j) /\ UNCHANGED csrs
       \/ /\ grants[h][j] # Absent /\ Cardinality(csrs) < MaxFlight
          /\ csrs' = csrs \cup {[id |-> j, host |-> h, step |-> "read", copy |-> grants[h][j],
                                 version |-> 0, clean |-> TRUE, fresh |-> TRUE]}
          /\ client' = [client EXCEPT ![j].at = "signing"]
    /\ UNCHANGED <<csrFrame, grants, versions, signed>>

\* with one it renews its own;
renew_svid(j) ==
    /\ client[j].at = "joined" /\ Cardinality(csrs) < MaxFlight /\ versions[j] < MaxVersion
    /\ csrs' = csrs \cup {[id |-> j, host |-> client[j].host, step |-> "allowed", copy |-> Absent,
                           version |-> 0, clean |-> TRUE, fresh |-> TRUE]}
    /\ UNCHANGED <<csrFrame, grants, versions, signed, client>>

TakeGrant(h, j) == [grants EXCEPT ![h][j] = Absent]

\* the grant is removed whatever its age, and one that has expired by then refused;
authorize_via_grant(c) ==
    /\ c.step = "read"
    /\ grants' = TakeGrant(c.host, c.id)
    /\ LET others == {IF d.id = c.id /\ d.host = c.host /\ d.step = "read"
                      THEN [d EXCEPT !.clean = FALSE] ELSE d : d \in csrs \ {c}} IN
       \/ csrs' = others /\ Answer(c.id, c.host, "signing", "failed")
       \/ c.copy = "live" /\ csrs' = others \cup {[c EXCEPT !.step = "allowed"]} /\ UNCHANGED client
    /\ UNCHANGED <<csrFrame, versions, signed>>

NextVersion(j) == versions[j] + 1

\* the version after the stored one is proposed, by the leader.
propose_svid(c) ==
    /\ c.step = "allowed"
    /\ \/ /\ c.host = leader
          /\ csrs' = (csrs \ {c}) \cup {[c EXCEPT !.step = "proposed", !.version = NextVersion(c.id), !.fresh = TRUE]}
          /\ UNCHANGED client
       \/ /\ c.host # leader
          /\ csrs' = csrs \ {c}
          /\ Answer(c.id, c.host, "signing", "failed")
    /\ UNCHANGED <<csrFrame, grants, versions, signed>>

UpsertSvidVersion(c) ==
    /\ c.step \in {"proposed", "orphan"}
    /\ versions' = [versions EXCEPT ![c.id] = c.version]
    /\ csrs' = {[d EXCEPT !.fresh = d.fresh /\ d.id # c.id] : d \in csrs \ {c}}
                   \cup (IF c.step = "orphan" THEN {} ELSE {[c EXCEPT !.step = "applied"]})
    /\ UNCHANGED <<csrFrame, grants, signed, client>>

\* Only then is the certificate signed.
sign_csr(c) ==
    /\ c.step = "applied"
    /\ csrs' = csrs \ {c}
    /\ signed' = IF c.copy # Absent /\ c.clean THEN [signed EXCEPT ![c.id] = @ + 1] ELSE signed
    /\ Answer(c.id, c.host, "signing", "joined")
    /\ UNCHANGED <<csrFrame, grants, versions>>

-----------------------------------------------------------------------------
\* A joiner that failed, or that is killed, starts again at any control node.
Restart(j) ==
    /\ client[j].at \notin {"joined", "idle", "off"} /\ restarts > 0
    /\ restarts' = restarts - 1
    /\ \E h \in Host : client' = [client EXCEPT ![j] = [at |-> "idle", host |-> h, nonce |-> Absent]]
    /\ UNCHANGED <<nonces, minting, claims, quotes, tokens, grants, admitted, granted,
                   csrs, versions, signed, leader, moves>>

\* Leadership moves.  A control node that crashes loses its handlers, not what
\* it stored; a command it proposed may be applied later, or be lost.
ElectForJoin(h) ==
    /\ Elect(h)
    /\ UNCHANGED <<claims, quotes, tokens, grants, admitted, granted, csrs, versions, signed, client>>

\* The handlers of a node that crashes.
Lost(S, h) ==
    {IF d.host = h THEN [d EXCEPT !.step = "orphan"] ELSE d :
        d \in {e \in S : e.host = h => e.step = "proposed"}}

Crash(h) ==
    /\ moves > 0
    /\ moves' = moves - 1
    /\ minting' = {m \in minting : m[2] # h}
    /\ quotes' = Lost(quotes, h)
    /\ csrs' = Lost(csrs, h)
    /\ client' = [j \in Joiner |-> IF client[j].host = h /\ client[j].at \in {"nonce", "quoted", "signing"}
                                   THEN [client[j] EXCEPT !.at = "failed"] ELSE client[j]]
    /\ UNCHANGED <<nonces, claims, tokens, grants, admitted, granted, versions, signed, leader, restarts>>

OrphanIsLost ==
    \/ /\ \E q \in quotes : q.step = "orphan" /\ quotes' = quotes \ {q}
       /\ UNCHANGED csrs
       /\ UNCHANGED <<nonces, minting, claims, tokens, grants, admitted, granted, versions, signed,
                      leader, client, restarts, moves>>
    \/ /\ \E c \in csrs : c.step = "orphan" /\ csrs' = csrs \ {c}
       /\ UNCHANGED quotes
       /\ UNCHANGED <<nonces, minting, claims, tokens, grants, admitted, granted, versions, signed,
                      leader, client, restarts, moves>>

JoinNext ==
    \/ \E t \in Token : generate_join_token(t) \/ TokenLapses(t)
    \/ \E j \in Joiner : \/ request_nonce(j) \/ submit_quote(j) \/ submit_csr(j) \/ renew_svid(j)
                         \/ Restart(j)
                         \/ \E h \in Host : issue_nonce(j, h) \/ GrantLapses(h, j)
    \/ \E q \in quotes : check_quote(q) \/ ConsumeJoinToken(q) \/ grant_csr(q)
    \/ \E c \in csrs : authorize_via_grant(c) \/ propose_svid(c) \/ UpsertSvidVersion(c) \/ sign_csr(c)
    \/ \E h \in Host : ElectForJoin(h) \/ Crash(h)
    \/ OrphanIsLost
    \/ \E n \in Nonce : NonceLapses(n) /\ UNCHANGED <<claims, quotes, tokens, grants, admitted, granted,
                                                      csrs, versions, signed, client>>

JoinSpec == (\E J \in SUBSET Joiner, r, m \in Nat : JoinInit(J, r, m)) /\ [][JoinNext]_joinVars

-----------------------------------------------------------------------------
JoinTypeOK ==
    /\ leader \in Host
    /\ tokens \in [Token -> {"none", "live", "lapsed", "gone"}]
    /\ claims \in [Nonce -> Joiner \cup {Absent}]
    /\ grants \in [Host -> [Joiner -> {Absent, "live", "lapsed"}]]
    /\ versions \in [Joiner -> Nat]
    /\ \A q \in quotes : q.step \in {"taken", "proposed", "applied", "orphan"} /\ q.clean \in BOOLEAN
    /\ \A c \in csrs : c.step \in {"read", "allowed", "proposed", "applied", "orphan"} /\ c.clean \in BOOLEAN

\* A join token admits one node: of the quotes a token led to a grant for, all
\* but one had been validated before the token was consumed.  Consuming it is
\* a removal that also succeeds when it is gone, so two quotes that overlap
\* are both admitted.
TokenAdmitsOnce == \A t \in Token : admitted[t] <= 1

\* A grant is spent once: the grants stored, the requests that took one and
\* the certificates signed on one are together no more than the grants ever
\* written, except for requests that read a grant before another one took it.
GrantSignsOnce ==
    \A j \in Joiner :
        Cardinality({h \in Host : grants[h][j] # Absent})
            + Cardinality({c \in csrs : c.id = j /\ c.copy # Absent /\ c.step # "read" /\ c.clean})
            + signed[j] <= granted[j]

\* Certificates are numbered in sequence: the stored version never advances by
\* more than one, and an issuance that no other one of the same identity
\* overtook advances it by one.  One that was overtaken may set it back.
VersionsAdvance ==
    [][\A c \in csrs : c.step \in {"proposed", "orphan"} /\ UpsertSvidVersion(c) =>
          /\ versions'[c.id] <= versions[c.id] + 1
          /\ c.fresh => versions'[c.id] = versions[c.id] + 1]_joinVars

-----------------------------------------------------------------------------
(* What a comment of the code says and the code does not keep.             *)

\* A claim outlives its nonce only until it is swept, and a sweep is meant for
\* the claims of nonces that expired unanswered: a quote whose nonce was
\* accepted finds the claim.
ClaimIsKept == \A q \in quotes : q.step = "taken" => claims[q.nonce] # Absent

=============================================================================
