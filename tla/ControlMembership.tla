------------------------- MODULE ControlMembership -------------------------
(***************************************************************************)
(* How a control node becomes and stays a member of the raft cluster: the  *)
(* joiner's start (attest or resume), its request for membership with      *)
(* redirects and retries, the leader's request_join, and the provisioning  *)
(* loop that adds and removes the nodes of a CONTROL pool.                 *)
(***************************************************************************)
EXTENDS Naturals, FiniteSets

CONSTANTS
    Founders,     \* the control nodes of the running cluster, all voters
    Joiner,       \* the node that joins by itself
    Pooled,       \* the nodes of a CONTROL pool
    JoinTarget,   \* join_raft_target of the joiner's configuration
    NoOne,
    MaxFaults,    \* bound on changes of leader and failed calls
    MaxCrashes    \* bound on crashes of the joiner

Member == Founders \cup Pooled \cup {Joiner}

ASSUME MemberAssumption == IsFiniteSet(Member)

VARIABLES
    head,       \* the leader, or NoOne
    believed,   \* [Founders -> leader it would forward to, or NoOne]
    faults,     \* changes of leader and failed calls so far
    purged,     \* the leader's log no longer goes back to the first entry
    standing,   \* [Member -> "none", "learner" or "voter"]
    registered, \* the joiner has its ControlNodeAddressRecord
    phase,      \* of the joiner's process
    target,     \* the control node the joiner asks next
    handler,    \* request_join in progress: [at, step] or NoOne
    disk,       \* of the joiner: [log, ca, token]
    caught,     \* the joiner has the whole log
    crashes,    \* of the joiner so far
    lifecycle,  \* [Pooled -> what the provider reports of the node]
    polled      \* per control node and node of the pool: its status in the loop's
                \* cycle, "done" once handled

raftVars   == <<head, believed, purged>>
joinerVars == <<phase, target, handler, disk, caught, crashes>>
poolVars   == <<lifecycle, polled>>
memberVars == <<raftVars, faults, standing, registered, joinerVars, poolVars>>

Lifecycle == {"pending", "running", "terminated"}

\* disk.log: raft_log is not empty; disk.ca: trust_bundles holds the roots;
\* disk.token: the configured join token has not been consumed.
MembershipTypeOK ==
    /\ head \in Founders \cup {NoOne}
    /\ believed \in [Founders -> Founders \cup {NoOne}]
    /\ faults \in 0 .. MaxFaults
    /\ standing \in [Member -> {"none", "learner", "voter"}]
    /\ purged \in BOOLEAN /\ registered \in BOOLEAN /\ caught \in BOOLEAN
    /\ phase \in {"start", "asking", "waiting", "backoff", "joined", "resumed",
                  "down", "refused", "panicked"}
    /\ target \in Founders
    /\ handler \in [at : Founders, step : {"received", "replicating", "promoting", "registering"}]
                   \cup {NoOne}
    /\ disk \in [log : BOOLEAN, ca : BOOLEAN, token : BOOLEAN]
    /\ crashes \in 0 .. MaxCrashes
    /\ lifecycle \in [Pooled -> Lifecycle]
    /\ polled \in [Founders -> [Pooled -> Lifecycle \cup {"done"}]]

MembershipInit ==
    /\ head \in Founders
    /\ believed = [n \in Founders |-> head]
    /\ faults = 0
    /\ purged = FALSE
    /\ standing = [n \in Member |-> IF n \in Founders THEN "voter" ELSE "none"]
    /\ registered = FALSE
    /\ phase = "start"
    /\ target = JoinTarget
    /\ handler = NoOne
    /\ disk = [log |-> FALSE, ca |-> FALSE, token |-> TRUE]
    /\ caught = FALSE
    /\ crashes = 0
    /\ lifecycle = [n \in Pooled |-> "pending"]
    /\ polled = [l \in Founders |-> [n \in Pooled |-> "done"]]

-----------------------------------------------------------------------------
\* Raft, external: leaders come and go, the others learn of it late, and logs
\* are purged behind snapshots.

LoseLeader ==
    /\ head # NoOne
    /\ faults < MaxFaults
    /\ faults' = faults + 1
    /\ head' = NoOne
    /\ believed' = [believed EXCEPT ![head] = NoOne]
    /\ UNCHANGED <<purged, standing, registered, joinerVars, poolVars>>

Elect(n) ==
    /\ head = NoOne
    /\ head' = n
    /\ believed' = [believed EXCEPT ![n] = n]
    /\ UNCHANGED <<faults, purged, standing, registered, joinerVars, poolVars>>

LearnLeader(n) ==
    /\ head # NoOne /\ believed[n] # head
    /\ believed' = [believed EXCEPT ![n] = head]
    /\ UNCHANGED <<head, faults, purged, standing, registered, joinerVars, poolVars>>

LeaderPurges ==
    /\ head # NoOne /\ ~purged
    /\ purged' = TRUE
    /\ UNCHANGED <<head, believed, faults, standing, registered, joinerVars, poolVars>>

\* The joiner, once a member, gets the entries it misses, or a snapshot when
\* the leader has purged them.  The snapshot brings the trust bundles, which
\* no log entry does, and leaves raft_log empty until the next entry.
JoinerCatchesUp ==
    /\ head # NoOne
    /\ standing[Joiner] # "none"
    /\ phase \in {"asking", "waiting", "backoff", "joined", "resumed"}
    /\ \/ /\ ~caught /\ (disk.log \/ ~purged)
          /\ disk' = [disk EXCEPT !.log = TRUE]
       \/ /\ ~caught /\ purged
          /\ disk' = [disk EXCEPT !.log = FALSE, !.ca = TRUE]
       \/ /\ caught /\ ~disk.log
          /\ disk' = [disk EXCEPT !.log = TRUE]
    /\ caught' = TRUE
    /\ UNCHANGED <<raftVars, faults, standing, registered, phase, target, handler, crashes, poolVars>>

-----------------------------------------------------------------------------
\* The joiner's process.

\* init_raft_cluster in join mode, restart: a node whose raft_log holds an
\* entry resumes, and needs the CA for it (expect).
ResumeMembership ==
    /\ phase = "start"
    /\ disk.log
    /\ phase' = IF disk.ca THEN "resumed" ELSE "panicked"
    /\ UNCHANGED <<raftVars, faults, standing, registered, target, handler, disk, caught, crashes, poolVars>>

\* init_raft_cluster in join mode, first boot: the node attests with its join
\* token, which the cluster consumes, and then asks for membership.
FirstBoot ==
    /\ phase = "start"
    /\ ~disk.log
    /\ phase' = IF disk.token THEN "asking" ELSE "refused"
    /\ disk' = [disk EXCEPT !.token = FALSE]
    /\ UNCHANGED <<raftVars, faults, standing, registered, target, handler, caught, crashes, poolVars>>

\* request_membership: one request, its answer, and the retries.
SendJoin ==
    /\ phase = "asking"
    /\ handler' = [at |-> target, step |-> "received"]
    /\ phase' = "waiting"
    /\ UNCHANGED <<raftVars, faults, standing, registered, target, disk, caught, crashes, poolVars>>

NeverRedirected(success, leader_address) ==
    /\ handler' = NoOne
    /\ phase' = IF phase # "waiting" THEN phase ELSE IF success THEN "joined" ELSE "backoff"
    /\ UNCHANGED target

\* Success ends it, a redirect to another address is followed at once, and
\* anything else waits and asks the same node again.
Answer(success, leader_address) ==
    LET redirected == ~success /\ leader_address \notin {NoOne, target}
    IN  /\ handler' = NoOne
        /\ phase' = IF phase # "waiting" THEN phase
                    ELSE IF success THEN "joined"
                    ELSE IF redirected THEN "asking" ELSE "backoff"
        /\ target' = IF phase = "waiting" /\ redirected THEN leader_address ELSE target

\* The call fails half way; what the handler has done stays done.
JoinCallFails ==
    /\ phase = "waiting"
    /\ faults < MaxFaults
    /\ faults' = faults + 1
    /\ handler' = NoOne
    /\ phase' = "backoff"
    /\ UNCHANGED <<raftVars, standing, registered, target, disk, caught, crashes, poolVars>>

Backoff ==
    /\ phase = "backoff"
    /\ phase' = "asking"
    /\ UNCHANGED <<raftVars, faults, standing, registered, target, handler, disk, caught, crashes, poolVars>>

\* The handler of a joiner that is gone is dropped, or runs on for a while.
CrashJoiner ==
    /\ crashes < MaxCrashes
    /\ phase \notin {"down", "refused", "panicked"}
    /\ phase' = "down"
    /\ handler' \in {handler, NoOne}
    /\ crashes' = crashes + 1
    /\ UNCHANGED <<raftVars, faults, standing, registered, target, disk, caught, poolVars>>

\* While it was down the log may have grown.
RestartJoiner ==
    /\ phase = "down"
    /\ phase' = "start"
    /\ target' = JoinTarget
    /\ caught' \in {FALSE, caught}
    /\ UNCHANGED <<raftVars, faults, standing, registered, handler, disk, crashes, poolVars>>

-----------------------------------------------------------------------------
\* request_join on a control node.

At(n, step) == handler # NoOne /\ handler.at = n /\ handler.step = step

\* add_learner, which also blocks until the learner has caught up; a node that
\* does not lead answers with the leader it knows.
AddLearner(n) ==
    /\ At(n, "received")
    /\ IF head = n
       THEN /\ standing' = [standing EXCEPT ![Joiner] = IF @ = "none" THEN "learner" ELSE @]
            /\ handler' = [handler EXCEPT !.step = "replicating"]
            /\ UNCHANGED <<phase, target>>
       ELSE Answer(FALSE, believed[n]) /\ UNCHANGED standing
    /\ UNCHANGED <<raftVars, faults, registered, disk, caught, crashes, poolVars>>

LearnerCaughtUp(n) ==
    /\ At(n, "replicating")
    /\ IF head = n
       THEN /\ caught
            /\ handler' = [handler EXCEPT !.step = "promoting"]
            /\ UNCHANGED <<phase, target>>
       ELSE Answer(FALSE, believed[n])
    /\ UNCHANGED <<raftVars, faults, standing, registered, disk, caught, crashes, poolVars>>

\* change_membership: without success the answer names no leader.
Promote(n) ==
    /\ At(n, "promoting")
    /\ IF head = n
       THEN /\ standing' = [standing EXCEPT ![Joiner] = "voter"]
            /\ handler' = [handler EXCEPT !.step = "registering"]
            /\ UNCHANGED <<phase, target>>
       ELSE Answer(FALSE, NoOne) /\ UNCHANGED standing
    /\ UNCHANGED <<raftVars, faults, registered, disk, caught, crashes, poolVars>>

\* The address record is best effort: the answer is success without it too.
RegisterAddress(n) ==
    /\ At(n, "registering")
    /\ registered' = (registered \/ head = n)
    /\ Answer(TRUE, NoOne)
    /\ UNCHANGED <<raftVars, faults, standing, disk, caught, crashes, poolVars>>

-----------------------------------------------------------------------------
\* The provisioning loops, for the nodes of a CONTROL pool.  Every control node
\* runs one; only the leader's changes of the membership succeed.

ProviderReports(n, s) ==
    /\ lifecycle[n] # s
    /\ lifecycle[n] # "terminated" /\ s # "pending"
    /\ lifecycle' = [lifecycle EXCEPT ![n] = s]
    /\ UNCHANGED <<raftVars, faults, standing, registered, joinerVars, polled>>

\* reconcile_pool: the status the cycle works with is polled once.
reconcile_pool(l) ==
    /\ \A n \in Pooled : polled[l][n] = "done"
    /\ polled' = [polled EXCEPT ![l] = lifecycle]
    /\ UNCHANGED <<raftVars, faults, standing, registered, joinerVars, lifecycle>>

Voters == {n \in Member : standing[n] = "voter"}

GuardsMajorityOnly(current_voters) == current_voters - 1 >= current_voters \div 2 + 1

removal_preserves_quorum(current_voters) ==
    /\ current_voters > 3
    /\ current_voters - 1 >= current_voters \div 2 + 1

\* The membership is what the status asks for, or the node is still pending.
Settled(l, n) ==
    \/ polled[l][n] = "pending"
    \/ polled[l][n] = "running" /\ standing[n] = "voter"
    \/ polled[l][n] = "terminated" /\ standing[n] = "none"

\* ensure_raft_membership: a stranger becomes a learner, a learner a voter.
ensure_raft_membership(l, n) ==
    /\ polled[l][n] = "running"
    /\ standing' = [standing EXCEPT ![n] = IF @ = "none" THEN "learner" ELSE "voter"]

remove_raft_membership(l, n) ==
    /\ polled[l][n] = "terminated"
    /\ standing[n] = "voter" => removal_preserves_quorum(Cardinality(Voters))
    /\ standing' = [standing EXCEPT ![n] = "none"]

\* handle_control_pool_status: a refusal, or a change that openraft rejects,
\* ends the cycle for the nodes that are still to come.
handle_control_pool_status(l, n) ==
    /\ polled[l][n] # "done"
    /\ \/ /\ \/ Settled(l, n) /\ UNCHANGED standing
             \/ /\ ~Settled(l, n) /\ head = l
                /\ ensure_raft_membership(l, n) \/ remove_raft_membership(l, n)
          /\ polled' = [polled EXCEPT ![l][n] = "done"]
       \/ /\ ~Settled(l, n)
          /\ polled' = [polled EXCEPT ![l] = [m \in Pooled |-> "done"]]
          /\ UNCHANGED standing
    /\ UNCHANGED <<raftVars, faults, registered, joinerVars, lifecycle>>

-----------------------------------------------------------------------------
RequestJoin(n) ==
    AddLearner(n) \/ LearnerCaughtUp(n) \/ Promote(n) \/ RegisterAddress(n)

\* What goes on without faults.
Joining ==
    \/ JoinerCatchesUp
    \/ \E n \in Founders : Elect(n) \/ LearnLeader(n) \/ RequestJoin(n)
    \/ ResumeMembership \/ FirstBoot \/ SendJoin \/ Backoff

JoinFaults == LoseLeader \/ LeaderPurges \/ JoinCallFails \/ CrashJoiner \/ RestartJoiner

Provisioning ==
    \/ \E l \in Founders : \/ reconcile_pool(l)
                            \/ \E n \in Pooled : handle_control_pool_status(l, n)
    \/ \E n \in Pooled, s \in Lifecycle : ProviderReports(n, s)

MembershipSpec == MembershipInit /\ [][Joining \/ JoinFaults \/ Provisioning]_memberVars

-----------------------------------------------------------------------------
\* A node that asks for membership becomes a voter, through changes of leader,
\* stale redirects, failed promotions and lost answers, unless it crashes
\* (request_membership: "must eventually succeed or keep trying").
JoinerBecomesVoter == phase = "asking" ~> standing[Joiner] = "voter" \/ phase = "down"

\* request_join promotes a learner only after it has persisted the log or a
\* snapshot, also when the call that asked for it has died meanwhile: what
\* counts towards the quorum has something to answer with.
PromotedCaughtUp ==
    [][standing[Joiner] # "voter" /\ standing'[Joiner] = "voter" => disk.log \/ disk.ca]_memberVars

\* No provisioning loop ever takes a voter away when that leaves fewer than
\* three or less than a majority of those that were there, whatever the
\* provider reports, although every control node runs a loop and each works
\* from its own, possibly outdated, poll (removal_preserves_quorum).
RemovalKeepsQuorum ==
    [][Voters' \subseteq Voters /\ Voters' # Voters =>
          /\ Cardinality(Voters') >= 3
          /\ 2 * Cardinality(Voters') > Cardinality(Voters)]_memberVars

\* What main.rs says of a restart: "Restart: CA is already replicated and
\* persisted; resume membership. No attestation (and no join token) is needed
\* on restart."  A node the cluster counts as a voter starts again on its own.
RestartResumes == standing[Joiner] = "voter" => phase \notin {"panicked", "refused"}

=============================================================================
