------------------------------ MODULE LogStore ------------------------------
(***************************************************************************)
(* The raft log on disk (FjallLogStorage), the calls openraft makes to it, *)
(* crashes at any point and the recovery of the log's ends.                *)
(*                                                                         *)
(* Every call writes one fjall batch and is acknowledged afterwards; a     *)
(* crash in between leaves the batch and loses the acknowledgement.  What  *)
(* openraft knows of the log (core) is lost in a crash and rebuilt from    *)
(* get_log_state, read_vote and the state machine's last_applied.          *)
(***************************************************************************)
EXTENDS Integers, FiniteSets

CONSTANTS
    MaxIndex,   \* bound on log indexes
    MaxTerm,    \* bound on terms
    Down        \* what openraft knows while the process is down

ASSUME LogStoreAssumption ==
    /\ MaxIndex \in Nat \ {0} /\ MaxTerm \in Nat \ {0}
    /\ Down \notin [first : Nat, last : Nat, vote : Nat]

LogIndex == 1 .. MaxIndex
Terms == 1 .. MaxTerm

VARIABLES
    raft_log,      \* keyspace: [LogIndex -> term of the entry, 0 if absent]
    last_purged,   \* raft_log_meta: index of the last purged entry, 0 if none
    vote,          \* raft_log_meta: the vote, 0 if none
    last_applied,  \* the state machine's, durable
    core,          \* [first, last, vote] as openraft knows them, or Down
    unacked        \* core once the committed batch is acknowledged, or Down

onDisk  == <<raft_log, last_purged, vote, last_applied>>
logVars == <<onDisk, core, unacked>>

Known == [first : 0 .. MaxIndex, last : 0 .. MaxIndex, vote : 0 .. MaxTerm]

LogStoreTypeOK ==
    /\ raft_log \in [LogIndex -> 0 .. MaxTerm]
    /\ last_purged \in 0 .. MaxIndex
    /\ vote \in 0 .. MaxTerm
    /\ last_applied \in 0 .. MaxIndex
    /\ core \in Known \cup {Down}
    /\ unacked \in Known \cup {Down}

Larger(a, b) == IF a < b THEN b ELSE a

PresentIn(log) == {i \in LogIndex : log[i] # 0}

LastOf(log) ==
    IF PresentIn(log) = {} THEN 0
    ELSE CHOOSE i \in PresentIn(log) : \A j \in PresentIn(log) : j <= i

\* get_log_state: the last entry present, 0 (None) if the keyspace is empty,
\* as it is after a purge of everything.
get_log_state == [last_purged |-> last_purged, last |-> LastOf(raft_log)]

\* Where a log ends, whether or not its last entry is still there.
EndOf(log, purged) == Larger(LastOf(log), purged)

DurableEnd == EndOf(raft_log, last_purged)

LogStoreInit ==
    /\ raft_log = [i \in LogIndex |-> 0]
    /\ last_purged = 0
    /\ vote = 0
    /\ last_applied = 0
    /\ core = [first |-> 0, last |-> 0, vote |-> 0]
    /\ unacked = Down

-----------------------------------------------------------------------------
\* The calls.  openraft makes one at a time, and none while a snapshot is
\* installed and the log behind it not yet purged.

Ready == core # Down /\ unacked = Down /\ last_applied <= core.last

\* append: all entries of the call in one batch, then log_io_completed.
append(n, t) ==
    /\ Ready
    /\ n \in 1 .. MaxIndex - core.last
    /\ t <= vote
    /\ raft_log' = [i \in LogIndex |-> IF i \in core.last + 1 .. core.last + n THEN t ELSE raft_log[i]]
    /\ unacked' = [core EXCEPT !.last = @ + n]
    /\ UNCHANGED <<last_purged, vote, last_applied, core>>

TruncateOne(i) ==
    /\ Ready
    /\ i \in last_applied + 1 .. core.last
    /\ raft_log' = [raft_log EXCEPT ![i] = 0]
    /\ unacked' = [core EXCEPT !.last = i - 1]
    /\ UNCHANGED <<last_purged, vote, last_applied, core>>

\* truncate: the entries from index i on, which openraft has never applied.
truncate(i) ==
    /\ Ready
    /\ i \in last_applied + 1 .. core.last
    /\ raft_log' = [j \in LogIndex |-> IF i <= j THEN 0 ELSE raft_log[j]]
    /\ unacked' = [core EXCEPT !.last = i - 1]
    /\ UNCHANGED <<last_purged, vote, last_applied, core>>

\* purge: the entries up to i and the watermark, in one batch.  A snapshot
\* covers what goes, and may be ahead of the whole log.
purge(i) ==
    /\ core # Down /\ unacked = Down
    /\ i \in last_purged + 1 .. last_applied
    /\ last_applied <= core.last \/ i = last_applied
    /\ raft_log' = [j \in LogIndex |-> IF j <= i THEN 0 ELSE raft_log[j]]
    /\ last_purged' = i
    /\ unacked' = [core EXCEPT !.first = i, !.last = Larger(@, i)]
    /\ UNCHANGED <<vote, last_applied, core>>

save_vote(v) ==
    /\ Ready
    /\ core.vote < v
    /\ vote' = v
    /\ unacked' = [core EXCEPT !.vote = v]
    /\ UNCHANGED <<raft_log, last_purged, last_applied, core>>

Acknowledge ==
    /\ unacked # Down
    /\ core' = unacked
    /\ unacked' = Down
    /\ UNCHANGED onDisk

-----------------------------------------------------------------------------
\* The state machine's own batches, which the log store is compared with when
\* the process starts.

ApplyEntry ==
    /\ Ready
    /\ last_applied < core.last
    /\ last_applied' = last_applied + 1
    /\ UNCHANGED <<raft_log, last_purged, vote, core, unacked>>

\* install_snapshot: the purge that follows is a call of its own.
SnapshotInstalled(i) ==
    /\ Ready
    /\ i \in last_applied + 1 .. MaxIndex
    /\ last_applied' = i
    /\ UNCHANGED <<raft_log, last_purged, vote, core, unacked>>

-----------------------------------------------------------------------------
CrashNode ==
    /\ core # Down
    /\ core' = Down
    /\ unacked' = Down
    /\ UNCHANGED onDisk

StartWithLogState ==
    /\ core = Down
    /\ core' = [first |-> last_purged, last |-> get_log_state.last, vote |-> vote]
    /\ UNCHANGED <<onDisk, unacked>>

\* The start of a node: get_log_state, read_vote and applied_state.  openraft
\* takes a log that ends before last_applied for one a snapshot has overtaken
\* and purges it.
Start ==
    /\ core = Down
    /\ LET overtaken == get_log_state.last < last_applied
       IN  /\ core' = [first |-> IF overtaken THEN last_applied ELSE get_log_state.last_purged,
                       last  |-> IF overtaken THEN last_applied ELSE get_log_state.last,
                       vote  |-> vote]
           /\ raft_log' = IF overtaken THEN [i \in LogIndex |-> IF i <= last_applied THEN 0 ELSE raft_log[i]]
                          ELSE raft_log
           /\ last_purged' = IF overtaken THEN last_applied ELSE last_purged
    /\ UNCHANGED <<vote, last_applied, unacked>>

LogStoreNext ==
    \/ \E n \in LogIndex, t \in Terms : append(n, t)
    \/ \E i \in LogIndex : truncate(i) \/ purge(i) \/ SnapshotInstalled(i)
    \/ \E v \in Terms : save_vote(v)
    \/ Acknowledge
    \/ ApplyEntry
    \/ CrashNode
    \/ Start

LogStoreSpec == LogStoreInit /\ [][LogStoreNext]_logVars

-----------------------------------------------------------------------------
\* Between two calls, and also when it has just been restarted, openraft knows
\* where the log on disk begins and ends and what it voted: no acknowledged
\* entry or vote is forgotten, and a log that was purged to the last entry
\* does not restart at index 0 (store.rs get_log_state reports None there).
KnowsItsLog ==
    core # Down /\ unacked = Down =>
        core = [first |-> last_purged, last |-> DurableEnd, vote |-> vote]

\* The keyspace has no gap: every index behind the watermark up to the end has
\* its entry, and no purged entry is left (append, truncate, purge).
NoGap == \A i \in LogIndex : raft_log[i] # 0 <=> last_purged < i /\ i <= DurableEnd

\* The keyspace with its watermark, through every call, crash and restart, is
\* the gapless log with a rising vote that openraft asks for.
Abstract == INSTANCE AbstractLog WITH
    base <- last_purged,
    entries <- [i \in last_purged + 1 .. DurableEnd |-> raft_log[i]],
    ballot <- vote

ImplementsLog == Abstract!AbstractSpec

=============================================================================
