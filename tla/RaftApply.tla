----------------------------- MODULE RaftApply -----------------------------
(***************************************************************************)
(* How a replica turns committed log entries into durable state, and how   *)
(* it survives crashes and snapshots: FjallStateMachine::apply,            *)
(* install_snapshot, FjallSnapshotBuilder::build_snapshot and the version  *)
(* counter VersionedState.                                                 *)
(*                                                                         *)
(* The log itself is openraft's: a fixed sequence of entries of which a    *)
(* growing prefix is committed.  What a command does is abstracted to the  *)
(* fact that it was applied; FleetState says what the commands do.         *)
(*                                                                         *)
(* A replica keeps a database (db, durable) and a version counter in       *)
(* memory.  Applying an entry takes three steps between which a crash may  *)
(* fall: the counter is advanced and the batch built, the batch commits,   *)
(* the subscribers are notified.                                           *)
(***************************************************************************)
EXTENDS Naturals, FiniteSets

CONSTANTS
    Replica,       \* control nodes
    MaxLog,        \* length of the log
    MaxCrashes,    \* bound on crashes
    MaxInstalls,   \* bound on the snapshots a replica installs
    MaxSnapshots,  \* no snapshot is begun when so many exist
    None           \* nothing in progress

Index == 1 .. MaxLog
Kind  == {"normal", "blank", "membership"}

ASSUME RaftAssumption ==
    /\ MaxLog \in Nat
    /\ MaxCrashes \in Nat
    /\ MaxInstalls \in Nat
    /\ MaxSnapshots \in Nat

\* The keyspaces of a replica, all of which one batch can write.
Database == [last_applied    : 0 .. MaxLog,
             last_membership : 0 .. MaxLog,
             version         : Nat,
             times           : [Index -> Nat],        \* how often an entry was applied
             audit           : SUBSET (Nat \X Index)] \* audit record of an entry, by version

\* The entry being applied; durable once its batch has committed.
Applying == [index : Index, version : Nat, durable : BOOLEAN]

\* A snapshot holds a database and the log index that its meta data claims.
\* Ghost: clean says that its replica had installed none when it was finished.
View     == [data : Database, clean : BOOLEAN]
Snapshot == [data : Database, clean : BOOLEAN, last_log_id : 0 .. MaxLog]

ASSUME NoneIsNothing == None \notin Applying /\ None \notin View

VARIABLES
    log,           \* [Index -> Kind], fixed
    committed,     \* length of the committed prefix
    db,            \* [Replica -> Database]
    version,       \* [Replica -> counter in memory]
    raft_applied,  \* [Replica -> last entry that openraft has handed over]
    applying,      \* [Replica -> Applying or None]
    up,            \* [Replica -> BOOLEAN]
    view,          \* [Replica -> View that a snapshot builder reads, or None]
    snapshots,     \* snapshots that have been built
    told,          \* [Replica -> last entry that subscribers were notified of]
    crashes,
    installs       \* [Replica -> snapshots installed]

vars == <<log, committed, db, version, raft_applied, applying, up, view,
          snapshots, told, crashes, installs>>

TypeOK ==
    /\ log \in [Index -> Kind]
    /\ committed \in 0 .. MaxLog
    /\ db \in [Replica -> Database]
    /\ version \in [Replica -> Nat]
    /\ raft_applied \in [Replica -> 0 .. MaxLog]
    /\ applying \in [Replica -> Applying \cup {None}]
    /\ up \in [Replica -> BOOLEAN]
    /\ view \in [Replica -> View \cup {None}]
    /\ snapshots \subseteq Snapshot
    /\ told \in [Replica -> 0 .. MaxLog]
    /\ crashes \in 0 .. MaxCrashes
    /\ installs \in [Replica -> 0 .. MaxInstalls]

Empty == [last_applied |-> 0, last_membership |-> 0, version |-> 0,
          times |-> [i \in Index |-> 0], audit |-> {}]

Init ==
    /\ log \in [Index -> Kind]
    /\ committed = 0
    /\ db = [r \in Replica |-> Empty]
    /\ version = [r \in Replica |-> 0]
    /\ raft_applied = [r \in Replica |-> 0]
    /\ applying = [r \in Replica |-> None]
    /\ up = [r \in Replica |-> TRUE]
    /\ view = [r \in Replica |-> None]
    /\ snapshots = {}
    /\ told = [r \in Replica |-> 0]
    /\ crashes = 0
    /\ installs = [r \in Replica |-> 0]

-----------------------------------------------------------------------------
(* Applying an entry.                                                      *)

\* openraft: a majority has the next entry.
Replicate ==
    /\ committed < MaxLog
    /\ committed' = committed + 1
    /\ UNCHANGED <<log, db, version, raft_applied, applying, up, view, snapshots,
                   told, crashes, installs>>

\* The batch is built and the version counter advanced, in memory.
AllocateVersion(r) ==
    /\ up[r] /\ applying[r] = None
    /\ raft_applied[r] < committed
    /\ version' = [version EXCEPT ![r] = @ + 1]
    /\ applying' = [applying EXCEPT ![r] =
          [index |-> raft_applied[r] + 1, version |-> version[r] + 1, durable |-> FALSE]]
    /\ UNCHANGED <<log, committed, db, raft_applied, up, view, snapshots, told,
                   crashes, installs>>

\* The database after entry i, of kind k, has been committed under version v.
WithEntry(d, i, k, v) ==
    [last_applied    |-> i,
     last_membership |-> IF k = "membership" THEN i ELSE d.last_membership,
     version         |-> v,
     times           |-> [d.times EXCEPT ![i] = @ + 1],
     audit           |-> IF k = "normal"
                         THEN {a \in d.audit : a[1] # v} \cup {<<v, i>>}
                         ELSE d.audit]

\* Mutation, action, version and audit record: one batch.
CommitBatch(r) ==
    LET a == applying[r] IN
    /\ up[r] /\ a # None /\ ~a.durable
    /\ db' = [db EXCEPT ![r] = WithEntry(@, a.index, log[a.index], a.version)]
    /\ applying' = [applying EXCEPT ![r].durable = TRUE]
    /\ UNCHANGED <<log, committed, version, raft_applied, up, view, snapshots, told,
                   crashes, installs>>

\* Mutation: subscribers hear of an entry before its batch commits.
NotifyEarly(r) ==
    /\ up[r] /\ applying[r] # None /\ told[r] < applying[r].index
    /\ told' = [told EXCEPT ![r] = applying[r].index]
    /\ UNCHANGED <<log, committed, db, version, raft_applied, applying, up, view,
                   snapshots, crashes, installs>>

\* Watch streams and version subscribers are told; apply goes on or returns.
Notify(r) ==
    LET a == applying[r] IN
    /\ up[r] /\ a # None /\ a.durable
    /\ told' = [told EXCEPT ![r] = a.index]
    /\ raft_applied' = [raft_applied EXCEPT ![r] = a.index]
    /\ applying' = [applying EXCEPT ![r] = None]
    /\ UNCHANGED <<log, committed, db, version, up, view, snapshots, crashes, installs>>

-----------------------------------------------------------------------------
(* Crashes.                                                                *)

Crash(r) ==
    /\ up[r]
    /\ crashes < MaxCrashes /\ crashes' = crashes + 1
    /\ up' = [up EXCEPT ![r] = FALSE]
    /\ applying' = [applying EXCEPT ![r] = None]
    /\ view' = [view EXCEPT ![r] = None]
    /\ UNCHANGED <<log, committed, db, version, raft_applied, snapshots, told, installs>>

\* Mutation: the version counter restarts from zero.
RestartFromZero(r) ==
    /\ ~up[r]
    /\ up' = [up EXCEPT ![r] = TRUE]
    /\ version' = [version EXCEPT ![r] = 0]
    /\ raft_applied' = [raft_applied EXCEPT ![r] = db[r].last_applied]
    /\ UNCHANGED <<log, committed, db, applying, view, snapshots, told, crashes, installs>>

\* VersionedState::new and applied_state: both read what the last batch left.
Restart(r) ==
    /\ ~up[r]
    /\ up' = [up EXCEPT ![r] = TRUE]
    /\ version' = [version EXCEPT ![r] = db[r].version]
    /\ raft_applied' = [raft_applied EXCEPT ![r] = db[r].last_applied]
    /\ UNCHANGED <<log, committed, db, applying, view, snapshots, told, crashes, installs>>

-----------------------------------------------------------------------------
(* Snapshots.  The builder runs beside apply.                              *)

\* A consistent view of all keyspaces.
BuildView(r) ==
    /\ up[r] /\ view[r] = None
    /\ Cardinality(snapshots) < MaxSnapshots
    /\ view' = [view EXCEPT ![r] = [data |-> db[r], clean |-> installs[r] = 0]]
    /\ UNCHANGED <<log, committed, db, version, raft_applied, applying, up, snapshots,
                   told, crashes, installs>>

\* Mutation: the keyspaces are read one after the other, without a view.
BuildFinishWithoutView(r) ==
    /\ up[r] /\ view[r] # None
    /\ snapshots' = snapshots \cup
          {[data |-> [view[r].data EXCEPT !.version = db[r].version],
            clean |-> view[r].clean /\ installs[r] = 0, last_log_id |-> db[r].last_applied]}
    /\ view' = [view EXCEPT ![r] = None]
    /\ UNCHANGED <<log, committed, db, version, raft_applied, applying, up, told,
                   crashes, installs>>

\* The meta data is read afterwards, from the live keyspace.
BuildFinish(r) ==
    /\ up[r] /\ view[r] # None
    /\ snapshots' = snapshots \cup
          {[data |-> view[r].data, clean |-> view[r].clean /\ installs[r] = 0,
            last_log_id |-> db[r].last_applied]}
    /\ view' = [view EXCEPT ![r] = None]
    /\ UNCHANGED <<log, committed, db, version, raft_applied, applying, up, told,
                   crashes, installs>>

\* openraft installs a snapshot that is ahead of the replica, between two calls
\* of apply.  The database is replaced as a whole, the counter in memory is not.
Install(r, s) ==
    /\ up[r] /\ applying[r] = None
    /\ s.last_log_id > raft_applied[r]
    /\ installs[r] < MaxInstalls /\ installs' = [installs EXCEPT ![r] = @ + 1]
    /\ db' = [db EXCEPT ![r] = s.data]
    /\ raft_applied' = [raft_applied EXCEPT ![r] = s.last_log_id]
    /\ UNCHANGED <<log, committed, version, applying, up, view, snapshots, told, crashes>>

-----------------------------------------------------------------------------
Next ==
    \/ Replicate
    \/ \E r \in Replica :
         \/ AllocateVersion(r) \/ CommitBatch(r) \/ Notify(r)
         \/ Crash(r) \/ Restart(r)
         \/ BuildView(r) \/ BuildFinish(r)
         \/ \E s \in snapshots : Install(r, s)

Spec == Init /\ [][Next]_vars

-----------------------------------------------------------------------------
(* What holds.                                                             *)

\* d is what the first i entries of the log make of an empty database: every
\* entry applied once, versions counted from one without gaps, one audit record
\* per command and under the command's version.
IsStateAt(d, i) ==
    /\ d.last_applied = i
    /\ d.version = i
    /\ \A j \in Index : d.times[j] = IF j <= i THEN 1 ELSE 0
    /\ d.audit = {<<j, j>> : j \in {k \in Index : k <= i /\ log[k] = "normal"}}
    /\ d.last_membership # 0 => log[d.last_membership] = "membership"
    /\ d.last_membership <= i
    /\ \A j \in Index : (d.last_membership < j /\ j <= i) => log[j] # "membership"

(***************************************************************************)
(* A replica that has caught up from the log alone is, at every moment and *)
(* across crashes between any two steps of apply, in exactly the state     *)
(* that some prefix of the log determines: no entry lost or applied twice, *)
(* no version skipped or reused, no command without its audit record       *)
(* ("Each applied entry commits mutation + MonotonicVersion increment +    *)
(* audit record in one fjall write batch").                                *)
(***************************************************************************)
FollowsLog ==
    \A r \in Replica : installs[r] = 0 => IsStateAt(db[r], db[r].last_applied)

(***************************************************************************)
(* Subscribers never hear of an entry that is not durable, so a crash      *)
(* cannot take back what they were told ("Watch streams are notified only  *)
(* after commit").                                                         *)
(***************************************************************************)
ToldIsDurable ==
    \A r \in Replica : installs[r] = 0 => told[r] <= db[r].last_applied

(***************************************************************************)
(* The data of a snapshot is a state of the log, at an index that its meta *)
(* data does not fall short of, although entries are applied while it is   *)
(* being built (db.snapshot(), "consistent point-in-time view").           *)
(***************************************************************************)
SnapshotIsConsistent ==
    \A s \in snapshots : s.clean =>
        /\ IsStateAt(s.data, s.data.last_applied)
        /\ s.data.last_applied <= s.last_log_id

-----------------------------------------------------------------------------
(* What the comments of the code say and the code does not keep.           *)

(***************************************************************************)
(* "state-machine application is bit-for-bit deterministic across every    *)
(* node" (raft/records.rs): two replicas that have applied the same        *)
(* entries have the same database.                                         *)
(***************************************************************************)
ReplicasAgree ==
    \A q, r \in Replica : db[q].last_applied = db[r].last_applied => db[q] = db[r]

(***************************************************************************)
(* "This prevents torn reads if concurrent writes happen during snapshot   *)
(* build." (raft/snapshot.rs): what openraft takes for applied is in the   *)
(* database, whether it came through the log or in a snapshot.             *)
(***************************************************************************)
NothingSkipped ==
    \A r \in Replica : up[r] =>
        \A i \in Index : i <= raft_applied[r] => db[r].times[i] > 0

=============================================================================
