--------------------------- MODULE SecretDelivery ---------------------------
(***************************************************************************)
(* One secret: stored under an access list, fetched by readers, and sealed *)
(* for delivery to the key on record for the reader's certificate.  A      *)
(* fetch reads four records one after the other, while commands are        *)
(* applied.  Deliveries are numbered per certificate version, in memory.   *)
(***************************************************************************)
EXTENDS Proposals

CONSTANTS
    Reader,      \* identities
    SecretValue, \* contents
    Acl,         \* access lists a secret is stored with
    MaxSvid,     \* bound on certificate versions
    MaxSequence, \* bound on deliveries per version between restarts
    MaxEdits,    \* bound on changes of the secret
    MaxReboots   \* bound on restarts of the control node

VARIABLES
    secret,      \* value and access list, or Absent
    svid,        \* certificate version of each reader
    tracker,     \* last sequence number per version; forgotten in a restart
    fetches,     \* fetch_secret handlers
    edits,       \* changes in flight
    delivered,   \* <<version, sequence>> delivered since the last restart
    changed,     \* changes so far
    reboots      \* restarts so far

secretVars == <<secret, svid, tracker, fetches, edits, delivered, changed, reboots>>

Sequences0 == [v \in 1 .. MaxSvid |-> 0]

SecretInit ==
    /\ secret = Absent
    /\ svid = [r \in Reader |-> [version |-> 1, key |-> 1]]
    /\ tracker = Sequences0
    /\ fetches = {} /\ edits = {} /\ delivered = {}
    /\ changed = 0 /\ reboots = 0

-----------------------------------------------------------------------------
Edit(c) ==
    /\ changed < MaxEdits /\ Cardinality(edits) < MaxFlight
    /\ changed' = changed + 1
    /\ edits' = Propose(edits, c)
    /\ UNCHANGED <<secret, svid, tracker, fetches, delivered, reboots>>

\* The envelope and the list are prepared by the leader.
store_secret(v, A) == Edit([cmd |-> "StoreSecret", value |-> v, acl |-> A, clean |-> TRUE])

\* A list is changed only while there is a secret.
grant_secret_access(r) == secret # Absent /\ Edit([cmd |-> "GrantSecretAccess", reader |-> r, clean |-> TRUE])
revoke_secret_access(r) == secret # Absent /\ Edit([cmd |-> "RevokeSecretAccess", reader |-> r, clean |-> TRUE])

\* The change is made to the list in the state machine, not to one read earlier.
WithAccess(r) == secret.acl \cup {r}

StoreSecret(c) == c.cmd = "StoreSecret" /\ secret' = [value |-> c.value, acl |-> c.acl]
GrantSecretAccess(c) == c.cmd = "GrantSecretAccess" /\ secret' = [secret EXCEPT !.acl = WithAccess(c.reader)]
RevokeSecretAccess(c) == c.cmd = "RevokeSecretAccess" /\ secret' = [secret EXCEPT !.acl = @ \ {c.reader}]

ApplyEdit(c) ==
    /\ StoreSecret(c) \/ GrantSecretAccess(c) \/ RevokeSecretAccess(c)
    /\ edits' = Overtake(edits, c)
    /\ fetches' = {[f EXCEPT !.clean = FALSE] : f \in fetches}
    /\ UNCHANGED <<svid, tracker, delivered, changed, reboots>>

\* A reader gets a new certificate: renewed for the same sealing key, or
\* with another key when it joins again.
RotateSvid(r) ==
    /\ svid[r].version < MaxSvid
    /\ \E k \in {svid[r].key, svid[r].key + 1} : svid' = [svid EXCEPT ![r] = [version |-> @.version + 1, key |-> k]]
    /\ fetches' = {[f EXCEPT !.clean = f.clean /\ f.reader # r] : f \in fetches}
    /\ UNCHANGED <<secret, tracker, edits, delivered, changed, reboots>>

-----------------------------------------------------------------------------
Move(f, g) ==
    /\ fetches' = (fetches \ {f}) \cup g
    /\ UNCHANGED <<secret, svid, tracker, edits, delivered, changed, reboots>>

\* The request names the version the delivery is sealed for.
fetch_secret(r, v) ==
    /\ Cardinality(fetches) < MaxFlight
    /\ svid[r].version = v
    /\ tracker[v] + Cardinality(fetches) < MaxSequence
    /\ fetches' = fetches \cup {[reader |-> r, version |-> v, step |-> "checked", value |-> Absent, key |-> 0,
                                clean |-> TRUE]}
    /\ UNCHANGED <<secret, svid, tracker, edits, delivered, changed, reboots>>

\* Mutation: whoever asks is let through.
Everybody(r) == TRUE

\* Without a list nobody is.
is_authorized(r) == secret # Absent /\ r \in secret.acl

authorize(f) ==
    /\ f.step = "checked"
    /\ IF is_authorized(f.reader) THEN Move(f, {[f EXCEPT !.step = "allowed"]}) ELSE Move(f, {})

load_envelope(f) ==
    /\ f.step = "allowed"
    /\ IF secret = Absent THEN Move(f, {}) ELSE Move(f, {[f EXCEPT !.step = "opened", !.value = secret.value]})

lookup_x25519_pubkey(f) ==
    /\ f.step = "opened"
    /\ Move(f, {[f EXCEPT !.step = "keyed", !.key = svid[f.reader].key]})

next_sequence(v) == tracker[v] + 1

seal(f) ==
    /\ f.step = "keyed"
    /\ fetches' = fetches \ {f}
    /\ tracker' = [tracker EXCEPT ![f.version] = next_sequence(f.version)]
    /\ delivered' = delivered \cup {<<f.version, next_sequence(f.version)>>}
    /\ UNCHANGED <<secret, svid, edits, changed, reboots>>

\* The numbers start over, and handlers are gone; what is stored is kept.
RestartService ==
    /\ reboots < MaxReboots
    /\ reboots' = reboots + 1
    /\ tracker' = Sequences0
    /\ fetches' = {} /\ delivered' = {}
    /\ UNCHANGED <<secret, svid, edits, changed>>

SecretNext ==
    \/ \E v \in SecretValue, A \in Acl : store_secret(v, A)
    \/ \E r \in Reader : grant_secret_access(r) \/ revoke_secret_access(r) \/ RotateSvid(r)
    \/ \E r \in Reader, v \in 1 .. MaxSvid : fetch_secret(r, v)
    \/ \E c \in edits : ApplyEdit(c)
    \/ \E f \in fetches : authorize(f) \/ load_envelope(f) \/ lookup_x25519_pubkey(f) \/ seal(f)
    \/ RestartService

SecretSpec == SecretInit /\ [][SecretNext]_secretVars

-----------------------------------------------------------------------------
SecretTypeOK ==
    /\ secret \in {Absent} \cup [value : SecretValue, acl : SUBSET Reader]
    /\ svid \in [Reader -> [version : 1 .. MaxSvid, key : 1 .. MaxSvid]]
    /\ \A f \in fetches : f.step \in {"checked", "allowed", "opened", "keyed"} /\ f.clean \in BOOLEAN

\* A fetch that no change of the secret and no rotation of the reader's
\* certificate overtook delivers the current value to somebody on the current
\* list, sealed to the key on record for the version it names.  The list is
\* read before the value and the version before the key, so one that was
\* overtaken may deliver a value stored under a list that excludes the reader.
FetchIsConsistent ==
    [][\A f \in fetches : f.step = "keyed" /\ f.clean /\ seal(f) =>
          /\ f.value = secret.value /\ f.reader \in secret.acl
          /\ svid[f.reader] = [version |-> f.version, key |-> f.key]]_secretVars

\* A reader keeps its access until it is revoked or the secret is stored anew:
\* a grant or revocation for somebody else never takes it away, in whatever
\* order they are applied.
NoGrantLost ==
    [][\A r \in Reader : secret # Absent /\ r \in secret.acl /\ r \notin secret'.acl =>
          \E c \in edits : ApplyEdit(c) /\ (c.cmd = "StoreSecret" \/ (c.cmd = "RevokeSecretAccess" /\ c.reader = r))]_secretVars

\* No two deliveries for one version have the same number, until the control
\* node restarts and counts from the start again.
SequenceIsFresh ==
    [][\A f \in fetches : f.step = "keyed" /\ seal(f) =>
          <<f.version, tracker'[f.version]>> \notin delivered]_secretVars

=============================================================================
