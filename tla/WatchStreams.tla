---------------------------- MODULE WatchStreams ----------------------------
(***************************************************************************)
(* The watch streams of one control node.  The state machine applies an    *)
(* entry, commits it and publishes what changed as full states to bounded  *)
(* broadcast channels; a new subscriber gets a first frame read from       *)
(* storage and then drains its channel.  Storage is read part by part,     *)
(* while entries are applied.                                              *)
(*                                                                         *)
(* A part of the state (rules with revocations, placements, addresses) is  *)
(* the number of the last change made to it.                               *)
(***************************************************************************)
EXTENDS Proposals, Sequences

CONSTANTS
    Watcher,     \* subscribers
    Capacity,    \* messages a channel keeps
    MaxEntries   \* bound on changes of the state

\* CHANNEL_CAPACITY: a broadcast channel keeps at least one message.
ASSUME CapacityAssumption == Capacity \in Nat \ {0}

VARIABLES
    store,      \* the last change of each part
    count,      \* changes so far
    version,    \* the counter versions are allocated from
    entry,      \* the entry being applied, or Absent
    watcher,    \* where each subscriber is, and what it has seen
    queue,      \* messages waiting for each subscriber
    untold,     \* per stream: its parts were changed, and nothing was published to it since
    installed   \* a snapshot was installed

watchVars == <<store, count, version, entry, watcher, queue, untold, installed>>

Part == {"rules", "placed", "addressed"}
Stream == {"sag", "schedule", "routes"}

\* What the frames of a stream are built from, in the order it is read.
PartsOf(st) ==
    CASE st = "sag"      -> <<"rules">>
      [] st = "schedule" -> <<"placed">>
      [] st = "routes"   -> <<"rules", "placed", "addressed">>

Has(st, p) == \E i \in 1 .. Len(PartsOf(st)) : PartsOf(st)[i] = p

Snapshot(st) == [i \in 1 .. Len(PartsOf(st)) |-> store[PartsOf(st)[i]]]

WatchInit ==
    /\ store = [p \in Part |-> 0]
    /\ count = 0 /\ version = 0 /\ entry = Absent
    /\ watcher = [w \in Watcher |-> [at |-> "off", stream |-> Absent, frame |-> <<>>, label |-> 0]]
    /\ queue = [w \in Watcher |-> <<>>]
    /\ untold = [st \in Stream |-> FALSE]
    /\ installed = FALSE

-----------------------------------------------------------------------------
\* What commands change, and the kind of change they report: a batch of
\* manifests reports scheduling, whatever it holds, and an entry without a
\* command reports rules.
Command == {"Blank", "UpsertSagRule", "CommitPlacement", "AllocateServiceAddress", "ApplyManifests",
            "EvictNode"}

Changes(cmd) ==
    CASE cmd = "Blank"                  -> {}
      [] cmd = "UpsertSagRule"          -> {"rules"}
      [] cmd = "CommitPlacement"        -> {"placed"}
      [] cmd = "AllocateServiceAddress" -> {"addressed"}
      [] cmd = "ApplyManifests"         -> {"rules", "placed"}
      [] cmd = "EvictNode"              -> {"rules", "placed"}

change_kind(cmd) ==
    CASE cmd \in {"Blank", "UpsertSagRule"}             -> "SagUpdate"
      [] cmd \in {"CommitPlacement", "ApplyManifests"}  -> "SchedulingUpdate"
      [] cmd = "AllocateServiceAddress"                 -> "DummyIpUpdate"
      [] cmd = "EvictNode"                              -> "Eviction"

\* The streams told of a change, one after the other.
publish_event(kind) ==
    CASE kind = "Eviction"         -> <<"sag", "schedule", "routes">>
      [] kind = "SagUpdate"        -> <<"sag", "routes">>
      [] kind = "SchedulingUpdate" -> <<"schedule", "routes">>
      [] kind = "DummyIpUpdate"    -> <<>>

allocate_version == version + 1

\* The version is allocated before the batch is committed.
ApplyEntry(cmd) ==
    /\ entry = Absent /\ count < MaxEntries
    /\ version' = version + 1
    /\ entry' = [cmd |-> cmd, version |-> allocate_version, committed |-> FALSE,
                 todo |-> publish_event(change_kind(cmd))]
    /\ UNCHANGED <<store, count, watcher, queue, untold, installed>>

CommitEntry ==
    /\ entry # Absent /\ ~entry.committed
    /\ count' = count + 1
    /\ store' = [p \in Part |-> IF p \in Changes(entry.cmd) THEN count + 1 ELSE store[p]]
    /\ untold' = [st \in Stream |-> untold[st] \/ \E p \in Changes(entry.cmd) : Has(st, p)]
    /\ entry' = IF entry.todo = <<>> THEN Absent ELSE [entry EXCEPT !.committed = TRUE]
    /\ UNCHANGED <<version, watcher, queue, installed>>

\* Mutation: a subscriber subscribes once its first frame is built.
ListensLate(w) == watcher[w].at = "streaming"

Listens(w) == watcher[w].at # "off"

\* A receiver that falls behind loses the oldest messages.
Send(q, msg) == IF Len(q) = Capacity THEN Append(Tail(q), msg) ELSE Append(q, msg)

PublishUpdate ==
    /\ entry # Absent /\ entry.committed
    /\ LET st == Head(entry.todo) IN
        /\ queue' = [w \in Watcher |->
               IF Listens(w) /\ watcher[w].stream = st
               THEN Send(queue[w], [frame |-> Snapshot(st), label |-> entry.version]) ELSE queue[w]]
        /\ untold' = [untold EXCEPT ![st] = FALSE]
    /\ entry' = IF Len(entry.todo) = 1 THEN Absent ELSE [entry EXCEPT !.todo = Tail(@)]
    /\ UNCHANGED <<store, count, version, watcher, installed>>

\* A snapshot replaces the state: nothing is published, and the counter keeps
\* its value.
install_snapshot ==
    /\ entry = Absent /\ ~installed /\ count < MaxEntries
    /\ count' = count + 1 /\ installed' = TRUE
    /\ store' = [p \in Part |-> count + 1]
    /\ untold' = [st \in Stream |-> TRUE]
    /\ UNCHANGED <<version, entry, watcher, queue>>

-----------------------------------------------------------------------------
\* A subscriber subscribes first, then storage is read, then the version.
subscribe(w, st) ==
    /\ watcher[w].at = "off"
    /\ watcher' = [watcher EXCEPT ![w] = [at |-> "building", stream |-> st, frame |-> <<>>, label |-> 0]]
    /\ queue' = [queue EXCEPT ![w] = <<>>]
    /\ UNCHANGED <<store, count, version, entry, untold, installed>>

read_part(w) ==
    /\ watcher[w].at = "building" /\ Len(watcher[w].frame) < Len(PartsOf(watcher[w].stream))
    /\ LET p == PartsOf(watcher[w].stream)[Len(watcher[w].frame) + 1]
       IN  watcher' = [watcher EXCEPT ![w].frame = Append(@, store[p])]
    /\ UNCHANGED <<store, count, version, entry, queue, untold, installed>>

yield_frame_one(w) ==
    /\ watcher[w].at = "building" /\ Len(watcher[w].frame) = Len(PartsOf(watcher[w].stream))
    /\ watcher' = [watcher EXCEPT ![w].at = "streaming", ![w].label = version]
    /\ UNCHANGED <<store, count, version, entry, queue, untold, installed>>

recv(w) ==
    /\ watcher[w].at = "streaming" /\ queue[w] # <<>>
    /\ watcher' = [watcher EXCEPT ![w].frame = Head(queue[w]).frame, ![w].label = Head(queue[w]).label]
    /\ queue' = [queue EXCEPT ![w] = Tail(@)]
    /\ UNCHANGED <<store, count, version, entry, untold, installed>>

disconnect(w) ==
    /\ watcher[w].at # "off"
    /\ watcher' = [watcher EXCEPT ![w] = [at |-> "off", stream |-> Absent, frame |-> <<>>, label |-> 0]]
    /\ queue' = [queue EXCEPT ![w] = <<>>]
    /\ UNCHANGED <<store, count, version, entry, untold, installed>>

WatchNext ==
    \/ \E cmd \in Command : ApplyEntry(cmd)
    \/ CommitEntry
    \/ PublishUpdate
    \/ install_snapshot
    \/ \E w \in Watcher : \/ \E st \in Stream : subscribe(w, st)
                          \/ read_part(w) \/ yield_frame_one(w) \/ recv(w) \/ disconnect(w)

WatchSpec == WatchInit /\ [][WatchNext]_watchVars

-----------------------------------------------------------------------------
WatchTypeOK ==
    /\ store \in [Part -> 0 .. count]
    /\ \A w \in Watcher : /\ watcher[w].at \in {"off", "building", "streaming"}
                          /\ Len(queue[w]) <= Capacity
    /\ untold \in [Stream -> BOOLEAN]

\* A subscriber that has drained its channel has seen the committed state,
\* however its first frame and the entries interleaved and however far it fell
\* behind, unless the stream was not told of the last change: addresses are
\* never published, rules that come with manifests only to the other two
\* streams, and an installed snapshot to none.
CaughtUpIsCurrent ==
    \A w \in Watcher :
        /\ watcher[w].at = "streaming" /\ queue[w] = <<>> /\ entry = Absent
        => watcher[w].frame = Snapshot(watcher[w].stream) \/ untold[watcher[w].stream]

\* A frame never shows a change later than the version it is labelled with, as
\* far as this node applied the changes itself.  A first frame may show less:
\* its label can be that of an entry which is not committed yet.
FrameWithinLabel ==
    installed \/
    \A w \in Watcher : watcher[w].at = "streaming" =>
        \A i \in 1 .. Len(watcher[w].frame) : watcher[w].frame[i] <= watcher[w].label

=============================================================================
