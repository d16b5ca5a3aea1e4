--------------------------- MODULE StreamProofs -----------------------------
(***************************************************************************)
(* What subscribers of the watch streams can rely on, for any number of    *)
(* subscribers, any capacity of the channels and any sequence of entries;  *)
(* what the two stores fed by the nodes keep, for any number of reports    *)
(* at once: metrics windows and pod events.                                *)
(***************************************************************************)
EXTENDS WatchStreams, MetricsStore, PodEventStore, FiniteSetTheorems, TLAPS

\* Steps that name no prover are tried with Zenon, then with the SMT solver.
USE ZenonT(20), SMTT(30)

-----------------------------------------------------------------------------
(* Watch streams.                                                          *)

Message == [frame : Seq(Int), label : Int]

Subscriber == [at : {"off", "building", "streaming"}, stream : Stream \cup {Absent},
               frame : Seq(Int), label : Int]

Entry == [cmd : Command, version : Int, committed : BOOLEAN, todo : Seq(Stream)]

Typed ==
    /\ store \in [Part -> Int]
    /\ count \in Int /\ version \in Int
    /\ watcher \in [Watcher -> Subscriber]
    /\ queue \in [Watcher -> Seq(Message)]
    /\ untold \in [Stream -> BOOLEAN]
    /\ installed \in BOOLEAN
    /\ entry # Absent => entry \in Entry /\ (entry.committed => entry.todo # <<>>)
    /\ \A w \in Watcher : watcher[w].at # "off" => watcher[w].stream \in Stream

-----------------------------------------------------------------------------
\* The streams' parts are parts of the state.
LEMMA PartsOfType == ASSUME NEW st \in Stream PROVE PartsOf(st) \in Seq(Part) /\ Len(PartsOf(st)) \in Nat
  <1>1. CASE st = "sag"
    <2>1. PartsOf(st) = <<"rules">>
      BY <1>1 DEF PartsOf
    <2>. QED  BY <2>1, SMTT(30) DEF Part
  <1>2. CASE st = "schedule"
    <2>1. PartsOf(st) = <<"placed">>
      BY <1>2 DEF PartsOf
    <2>. QED  BY <2>1, SMTT(30) DEF Part
  <1>3. CASE st = "routes"
    <2>1. PartsOf(st) = <<"rules", "placed", "addressed">>
      BY <1>3 DEF PartsOf
    <2>. QED  BY <2>1, SMTT(30) DEF Part
  <1>. QED  BY <1>1, <1>2, <1>3 DEF Stream

\* A frame built in one step holds the last change of each part.
LEMMA SnapshotType ==
    ASSUME Typed, NEW st \in Stream
    PROVE  /\ Snapshot(st) \in Seq(Int) /\ Len(Snapshot(st)) = Len(PartsOf(st))
           /\ \A i \in 1 .. Len(PartsOf(st)) : Snapshot(st)[i] = store[PartsOf(st)[i]]
  BY PartsOfType, SMTT(30) DEF Typed, Snapshot

\* Streams are told in the order publish_event lists them.
LEMMA PublishType == ASSUME NEW cmd \in Command PROVE publish_event(change_kind(cmd)) \in Seq(Stream)
  <1>1. change_kind(cmd) \in {"SagUpdate", "SchedulingUpdate", "DummyIpUpdate", "Eviction"}
    BY DEF Command, change_kind
  <1>2. CASE change_kind(cmd) = "SagUpdate"
    <2>1. publish_event(change_kind(cmd)) = <<"sag", "routes">>
      BY <1>2 DEF publish_event
    <2>. QED  BY <2>1, SMTT(30) DEF Stream
  <1>3. CASE change_kind(cmd) = "SchedulingUpdate"
    <2>1. publish_event(change_kind(cmd)) = <<"schedule", "routes">>
      BY <1>3 DEF publish_event
    <2>. QED  BY <2>1, SMTT(30) DEF Stream
  <1>4. CASE change_kind(cmd) = "DummyIpUpdate"
    <2>1. publish_event(change_kind(cmd)) = <<>>
      BY <1>4 DEF publish_event
    <2>. QED  BY <2>1, SMTT(30) DEF Stream
  <1>5. CASE change_kind(cmd) = "Eviction"
    <2>1. publish_event(change_kind(cmd)) = <<"sag", "schedule", "routes">>
      BY <1>5 DEF publish_event
    <2>. QED  BY <2>1, SMTT(30) DEF Stream
  <1>. QED  BY <1>1, <1>2, <1>3, <1>4, <1>5

\* The last message of a channel after a publication is the published one.
LEMMA SendLast ==
    ASSUME NEW q \in Seq(Message), NEW msg \in Message
    PROVE  /\ Send(q, msg) \in Seq(Message) /\ Send(q, msg) # <<>>
           /\ Send(q, msg)[Len(Send(q, msg))] = msg
  <1>1. CASE Len(q) = Capacity
    <2>1. q # <<>> /\ Tail(q) \in Seq(Message)
      BY <1>1, CapacityAssumption, SMTT(30)
    <2>. QED  BY <1>1, <2>1, SMTT(30) DEF Send
  <1>2. CASE Len(q) # Capacity
    BY <1>2, SMTT(30) DEF Send
  <1>. QED  BY <1>1, <1>2

\* It holds nothing but the published message and earlier ones.
LEMMA SendHolds ==
    ASSUME NEW q \in Seq(Message), NEW msg \in Message
    PROVE  \A i \in 1 .. Len(Send(q, msg)) :
               Send(q, msg)[i] = msg \/ \E j \in 1 .. Len(q) : Send(q, msg)[i] = q[j]
  <1>. SUFFICES ASSUME NEW i \in 1 .. Len(Send(q, msg)), Send(q, msg)[i] # msg
                PROVE  \E j \in 1 .. Len(q) : Send(q, msg)[i] = q[j]
    OBVIOUS
  <1>1. CASE Len(q) = Capacity
    <2>1. q # <<>> /\ Tail(q) \in Seq(Message) /\ Send(q, msg) = Append(Tail(q), msg)
      BY <1>1, CapacityAssumption, SMTT(30) DEF Send
    <2>2. i + 1 \in 1 .. Len(q) /\ Send(q, msg)[i] = q[i + 1]
      BY <2>1, SMTT(30)
    <2>. QED  BY <2>2
  <1>2. CASE Len(q) # Capacity
    <2>1. Send(q, msg) = Append(q, msg)
      BY <1>2 DEF Send
    <2>2. i \in 1 .. Len(q) /\ Send(q, msg)[i] = q[i]
      BY <2>1, SMTT(30)
    <2>. QED  BY <2>2
  <1>. QED  BY <1>1, <1>2

\* A list with more than one element has a tail.
LEMMA LongTail ==
    ASSUME NEW s \in Seq(Stream), s # <<>>, Len(s) # 1
    PROVE  Tail(s) \in Seq(Stream) /\ Tail(s) # <<>>
  <1>1. Len(s) \in Nat /\ Len(s) # 0
    BY SMTT(30)
  <1>2. Tail(s) \in Seq(Stream) /\ Len(Tail(s)) = Len(s) - 1
    BY <1>1, SMTT(30)
  <1>3. Len(Tail(s)) # 0
    BY <1>1, <1>2, SMTT(30)
  <1>4. Len(<<>>) = 0
    OBVIOUS
  <1>5. Tail(s) # <<>>
    BY <1>3, <1>4
  <1>. QED  BY <1>2, <1>5

-----------------------------------------------------------------------------
\* The state has its type at first.
LEMMA InitTyped == WatchInit => Typed
  <1>. SUFFICES ASSUME WatchInit PROVE Typed
    OBVIOUS
  <1>1. [at |-> "off", stream |-> Absent, frame |-> <<>>, label |-> 0] \in Subscriber
    BY SMTT(30) DEF Subscriber
  <1>2. watcher \in [Watcher -> Subscriber] /\ \A w \in Watcher : watcher[w].at = "off"
    BY <1>1 DEF WatchInit
  <1>3. queue \in [Watcher -> Seq(Message)] /\ untold \in [Stream -> BOOLEAN] /\ store \in [Part -> Int]
    BY SMTT(30) DEF WatchInit
  <1>4. count = 0 /\ version = 0 /\ entry = Absent /\ installed = FALSE
    BY DEF WatchInit
  <1>5. count \in Int /\ version \in Int
    BY <1>4, SMTT(30)
  <1>6. installed \in BOOLEAN
    BY <1>4
  <1>. QED  BY <1>2, <1>3, <1>4, <1>5, <1>6 DEF Typed

\* And every step keeps it.
LEMMA StepTyped == Typed /\ [WatchNext]_watchVars => Typed'
  <1>. SUFFICES ASSUME Typed, [WatchNext]_watchVars PROVE Typed'
    OBVIOUS
  <1>. USE DEF Typed
  <1>1. ASSUME NEW cmd \in Command, ApplyEntry(cmd) PROVE Typed'
    BY <1>1, PublishType, SMTT(30) DEF ApplyEntry, Entry, allocate_version
  <1>2. CASE CommitEntry
    <2>1. entry \in Entry /\ ~entry.committed
      BY <1>2 DEF CommitEntry
    <2>2. store' \in [Part -> Int] /\ count' \in Int
      BY <1>2, SMTT(30) DEF CommitEntry
    <2>3. untold' \in [Stream -> BOOLEAN]
      BY <1>2 DEF CommitEntry
    <2>4. entry' # Absent => entry' \in Entry /\ entry'.todo # <<>>
      BY <1>2, <2>1 DEF CommitEntry, Entry
    <2>. QED  BY <1>2, <2>2, <2>3, <2>4 DEF CommitEntry
  <1>3. CASE PublishUpdate
    <2>1. /\ entry \in Entry /\ entry.committed /\ entry.todo # <<>> /\ entry.todo \in Seq(Stream)
          /\ Head(entry.todo) \in Stream
      BY <1>3, SMTT(30) DEF PublishUpdate, Entry
    <2>2. [frame |-> Snapshot(Head(entry.todo)), label |-> entry.version] \in Message
      BY <2>1, SnapshotType DEF Message, Entry
    <2>3. queue' \in [Watcher -> Seq(Message)]
      BY <1>3, <2>2, SendLast DEF PublishUpdate
    <2>4. untold' \in [Stream -> BOOLEAN]
      BY <1>3 DEF PublishUpdate
    <2>5. entry' # Absent => entry' \in Entry /\ entry'.todo # <<>>
      <3>1. SUFFICES ASSUME entry' # Absent PROVE entry' \in Entry /\ entry'.todo # <<>>
        OBVIOUS
      <3>2. Len(entry.todo) # 1 /\ entry' = [entry EXCEPT !.todo = Tail(entry.todo)]
        BY <1>3, <3>1 DEF PublishUpdate
      <3>3. Tail(entry.todo) \in Seq(Stream) /\ Tail(entry.todo) # <<>>
        BY <2>1, <3>2, LongTail
      <3>. QED  BY <2>1, <3>2, <3>3 DEF Entry
    <2>. QED  BY <1>3, <2>3, <2>4, <2>5 DEF PublishUpdate
  <1>4. CASE install_snapshot
    BY <1>4, SMTT(30) DEF install_snapshot
  <1>5. ASSUME NEW w \in Watcher, NEW st \in Stream, subscribe(w, st) PROVE Typed'
    BY <1>5, SMTT(30) DEF subscribe, Subscriber
  <1>6. ASSUME NEW w \in Watcher, read_part(w) PROVE Typed'
    <2>. DEFINE p == PartsOf(watcher[w].stream)[Len(watcher[w].frame) + 1]
    <2>1. watcher[w].stream \in Stream /\ watcher[w] \in Subscriber
      BY <1>6 DEF read_part
    <2>2. p \in Part
      BY <1>6, <2>1, PartsOfType, SMTT(30) DEF read_part, Subscriber
    <2>. DEFINE new == [watcher[w] EXCEPT !.frame = Append(watcher[w].frame, store[p])]
    <2>3. watcher' = [watcher EXCEPT ![w] = new]
      BY <1>6 DEF read_part
    <2>4. new \in Subscriber /\ new.stream = watcher[w].stream
      <3>1. Append(watcher[w].frame, store[p]) \in Seq(Int)
        BY <2>1, <2>2, SMTT(30) DEF Subscriber
      <3>. HIDE DEF p
      <3>. QED  BY <2>1, <3>1 DEF Subscriber
    <2>. HIDE DEF p, new
    <2>. QED  BY <1>6, <2>1, <2>3, <2>4 DEF read_part
  <1>7. ASSUME NEW w \in Watcher, yield_frame_one(w) PROVE Typed'
    BY <1>7 DEF yield_frame_one, Subscriber
  <1>8. ASSUME NEW w \in Watcher, recv(w) PROVE Typed'
    <2>1. Head(queue[w]) \in Message /\ Tail(queue[w]) \in Seq(Message)
      BY <1>8, SMTT(30) DEF recv
    <2>. DEFINE new == [watcher[w] EXCEPT !.frame = Head(queue[w]).frame, !.label = Head(queue[w]).label]
    <2>2. watcher' = [watcher EXCEPT ![w] = new] /\ queue' = [queue EXCEPT ![w] = Tail(queue[w])]
      BY <1>8 DEF recv
    <2>3. new \in Subscriber /\ new.stream = watcher[w].stream /\ new.at = watcher[w].at
      BY <2>1 DEF Subscriber, Message
    <2>. HIDE DEF new
    <2>. QED  BY <1>8, <2>1, <2>2, <2>3 DEF recv
  <1>9. ASSUME NEW w \in Watcher, disconnect(w) PROVE Typed'
    BY <1>9, SMTT(30) DEF disconnect, Subscriber
  <1>10. CASE UNCHANGED watchVars
    BY <1>10 DEF watchVars
  <1>. QED  BY <1>1, <1>2, <1>3, <1>4, <1>5, <1>6, <1>7, <1>8, <1>9, <1>10 DEF WatchNext

-----------------------------------------------------------------------------
Seen(w) == watcher[w].frame
Width(w) == Len(PartsOf(watcher[w].stream))

\* Frames are as wide as their stream, and a first frame grows to that.
Fits(w) ==
    watcher[w].at # "off" =>
        /\ Len(Seen(w)) <= Width(w)
        /\ watcher[w].at = "streaming" => Len(Seen(w)) = Width(w)
        /\ \A i \in 1 .. Len(queue[w]) : Len(queue[w][i].frame) = Width(w)

(***************************************************************************)
(* The inductive invariant behind CaughtUpIsCurrent: as long as nothing    *)
(* was changed since the last publication to its stream, the newest thing  *)
(* a subscriber has is the committed state.  That is the last message of   *)
(* its channel; when the channel is empty it is what the subscriber has    *)
(* seen, or has read so far of its first frame.                            *)
(***************************************************************************)
Current(w) ==
    watcher[w].at # "off" /\ ~untold[watcher[w].stream] =>
        IF queue[w] = <<>>
        THEN \A i \in 1 .. Len(Seen(w)) : Seen(w)[i] = store[PartsOf(watcher[w].stream)[i]]
        ELSE queue[w][Len(queue[w])].frame = Snapshot(watcher[w].stream)

WatchInv == Typed /\ \A w \in Watcher : Fits(w) /\ Current(w)

\* A subscriber that an action leaves alone keeps its frames' width.
LEMMA FitsKept ==
    ASSUME NEW w \in Watcher, Fits(w), watcher'[w] = watcher[w], queue'[w] = queue[w]
    PROVE  Fits(w)'
  BY DEF Fits, Seen, Width

\* Nor does it lose its place while its parts are what they were.
LEMMA CurrentKept ==
    ASSUME NEW w \in Watcher, Typed, Current(w), watcher'[w] = watcher[w], queue'[w] = queue[w],
           watcher[w].at # "off" =>
               \/ untold'[watcher[w].stream]
               \/ /\ ~untold[watcher[w].stream]
                  /\ \A p \in Part : Has(watcher[w].stream, p) => store'[p] = store[p],
           Fits(w)
    PROVE  Current(w)'
  <1>. SUFFICES ASSUME watcher[w].at # "off", ~untold'[watcher[w].stream]
                PROVE  IF queue[w] = <<>>
                       THEN \A i \in 1 .. Len(Seen(w)) : Seen(w)[i] = store'[PartsOf(watcher[w].stream)[i]]
                       ELSE queue[w][Len(queue[w])].frame = Snapshot(watcher[w].stream)'
    BY DEF Current, Seen, Snapshot
  <1>. DEFINE st == watcher[w].stream
  <1>1. st \in Stream /\ PartsOf(st) \in Seq(Part)
    BY PartsOfType DEF Typed
  <1>2. \A i \in 1 .. Len(PartsOf(st)) : store'[PartsOf(st)[i]] = store[PartsOf(st)[i]]
    <2>. SUFFICES ASSUME NEW i \in 1 .. Len(PartsOf(st)) PROVE store'[PartsOf(st)[i]] = store[PartsOf(st)[i]]
      OBVIOUS
    <2>1. PartsOf(st)[i] \in Part /\ Has(st, PartsOf(st)[i])
      BY <1>1, SMTT(30) DEF Has
    <2>. QED  BY <2>1
  <1>3. Snapshot(st)' = Snapshot(st)
    BY <1>2 DEF Snapshot
  <1>4. \A i \in 1 .. Len(Seen(w)) : i \in 1 .. Len(PartsOf(st))
    BY <1>1, SMTT(30) DEF Fits, Seen, Width, Typed, Subscriber
  <1>5. IF queue[w] = <<>> THEN \A i \in 1 .. Len(Seen(w)) : Seen(w)[i] = store[PartsOf(st)[i]]
                           ELSE queue[w][Len(queue[w])].frame = Snapshot(st)
    BY DEF Current
  <1>. QED  BY <1>2, <1>3, <1>4, <1>5

\* A subscriber of a stream that is published to has the state last.
LEMMA PublishKeeps ==
    ASSUME WatchInv, PublishUpdate, NEW w \in Watcher
    PROVE  Fits(w)' /\ Current(w)'
  <1>. DEFINE st == Head(entry.todo)
              msg == [frame |-> Snapshot(st), label |-> entry.version]
  <1>1. entry \in Entry /\ st \in Stream
    BY SMTT(30) DEF PublishUpdate, WatchInv, Typed, Entry
  <1>2. msg \in Message /\ msg.frame = Snapshot(st) /\ Len(msg.frame) = Len(PartsOf(st))
    BY <1>1, SnapshotType DEF WatchInv, Message, Entry
  <1>3. /\ watcher' = watcher /\ store' = store /\ untold' = [untold EXCEPT ![st] = FALSE]
        /\ queue'[w] = IF Listens(w) /\ watcher[w].stream = st THEN Send(queue[w], msg) ELSE queue[w]
    BY DEF PublishUpdate
  <1>4. queue[w] \in Seq(Message) /\ untold \in [Stream -> BOOLEAN]
    BY DEF WatchInv, Typed
  <1>5. CASE Listens(w) /\ watcher[w].stream = st
    <2>1. queue'[w] = Send(queue[w], msg)
      BY <1>3, <1>5
    <2>2. /\ Send(queue[w], msg) \in Seq(Message) /\ Send(queue[w], msg) # <<>>
          /\ Send(queue[w], msg)[Len(Send(queue[w], msg))] = msg
      BY <1>2, <1>4, SendLast
    <2>3. \A i \in 1 .. Len(Send(queue[w], msg)) :
              Send(queue[w], msg)[i] = msg \/ \E j \in 1 .. Len(queue[w]) : Send(queue[w], msg)[i] = queue[w][j]
      BY <1>2, <1>4, SendHolds
    <2>. HIDE DEF msg
    <2>4. Fits(w)'
      <3>1. \A i \in 1 .. Len(queue'[w]) : Len(queue'[w][i].frame) = Width(w)
        <4>1. \A j \in 1 .. Len(queue[w]) : Len(queue[w][j].frame) = Width(w)
          BY <1>5 DEF WatchInv, Fits, Listens
        <4>2. Len(msg.frame) = Width(w)
          BY <1>2, <1>5 DEF Width
        <4>. QED  BY <2>1, <2>3, <4>1, <4>2
      <3>. QED  BY <1>3, <3>1 DEF WatchInv, Fits, Seen, Width
    <2>5. Current(w)'
      <3>1. queue'[w] # <<>> /\ queue'[w][Len(queue'[w])].frame = Snapshot(st)
        BY <1>2, <2>1, <2>2
      <3>2. queue'[w][Len(queue'[w])].frame = Snapshot(watcher[w].stream)'
        BY <1>3, <1>5, <3>1 DEF Snapshot
      <3>. QED  BY <3>1, <3>2 DEF Current
    <2>. QED  BY <2>4, <2>5
  <1>6. CASE ~(Listens(w) /\ watcher[w].stream = st)
    <2>1. queue'[w] = queue[w] /\ watcher'[w] = watcher[w]
      BY <1>3, <1>6
    <2>2. watcher[w].at # "off" => untold'[watcher[w].stream] = untold[watcher[w].stream]
      <3>. SUFFICES ASSUME watcher[w].at # "off" PROVE untold'[watcher[w].stream] = untold[watcher[w].stream]
        OBVIOUS
      <3>1. watcher[w].stream # st /\ watcher[w].stream \in Stream
        BY <1>6 DEF Listens, WatchInv, Typed
      <3>. HIDE DEF st
      <3>. QED  BY <1>3, <1>4, <3>1
    <2>. QED  BY <1>3, <2>1, <2>2, FitsKept, CurrentKept DEF WatchInv
  <1>. QED  BY <1>5, <1>6

\* What a commit changes is not told yet to the streams that show it.
LEMMA CommitKeeps ==
    ASSUME WatchInv, CommitEntry, NEW w \in Watcher
    PROVE  Fits(w)' /\ Current(w)'
  <1>1. watcher' = watcher /\ queue' = queue
    BY DEF CommitEntry
  <1>2. untold \in [Stream -> BOOLEAN] /\ store \in [Part -> Int]
    BY DEF WatchInv, Typed
  <1>3. ASSUME watcher[w].at # "off", ~untold'[watcher[w].stream]
        PROVE  /\ ~untold[watcher[w].stream]
               /\ \A p \in Part : Has(watcher[w].stream, p) => store'[p] = store[p]
    <2>1. watcher[w].stream \in Stream
      BY <1>3 DEF WatchInv, Typed
    <2>2. ~(untold[watcher[w].stream] \/ \E p \in Changes(entry.cmd) : Has(watcher[w].stream, p))
      BY <1>3, <2>1 DEF CommitEntry
    <2>3. \A p \in Part : p \notin Changes(entry.cmd) => store'[p] = store[p]
      BY DEF CommitEntry
    <2>. QED  BY <2>2, <2>3
  <1>. QED  BY <1>1, <1>3, FitsKept, CurrentKept DEF WatchInv

\* A part that is read is read from the committed state.
LEMMA ReadKeeps ==
    ASSUME WatchInv, NEW w \in Watcher, read_part(w)
    PROVE  Fits(w)' /\ Current(w)'
  <1>. DEFINE st == watcher[w].stream
              n == Len(watcher[w].frame)
              new == Append(watcher[w].frame, store[PartsOf(st)[n + 1]])
  <1>1. watcher[w] \in Subscriber /\ st \in Stream /\ watcher[w].at = "building" /\ n < Len(PartsOf(st))
    BY DEF read_part, WatchInv, Typed
  <1>2. PartsOf(st) \in Seq(Part) /\ watcher[w].frame \in Seq(Int) /\ n \in Nat
    BY <1>1, PartsOfType, SMTT(30) DEF Subscriber
  <1>3. PartsOf(st)[n + 1] \in Part
    BY <1>1, <1>2, SMTT(30)
  <1>4. /\ Len(new) = n + 1 /\ new[n + 1] = store[PartsOf(st)[n + 1]]
        /\ \A i \in 1 .. n : new[i] = watcher[w].frame[i]
    BY <1>2, <1>3, SMTT(30) DEF WatchInv, Typed
  <1>5. /\ watcher' = [watcher EXCEPT ![w] = [watcher[w] EXCEPT !.frame = new]]
        /\ queue' = queue /\ store' = store /\ untold' = untold
    BY DEF read_part
  <1>6. watcher'[w].at = "building" /\ watcher'[w].stream = st /\ watcher'[w].frame = new
    BY <1>1, <1>5 DEF WatchInv, Typed, Subscriber
  <1>. HIDE DEF new
  <1>7. Fits(w)'
    BY <1>1, <1>2, <1>4, <1>5, <1>6, SMTT(30) DEF WatchInv, Fits, Seen, Width
  <1>8. Current(w)'
    <2>. SUFFICES ASSUME ~untold[st]
                  PROVE  IF queue[w] = <<>> THEN \A i \in 1 .. Len(new) : new[i] = store[PartsOf(st)[i]]
                                           ELSE queue[w][Len(queue[w])].frame = Snapshot(st)
      BY <1>5, <1>6 DEF Current, Seen, Snapshot
    <2>1. IF queue[w] = <<>> THEN \A i \in 1 .. n : watcher[w].frame[i] = store[PartsOf(st)[i]]
                             ELSE queue[w][Len(queue[w])].frame = Snapshot(st)
      BY <1>1 DEF WatchInv, Current, Seen
    <2>2. \A i \in 1 .. Len(new) : i = n + 1 \/ i \in 1 .. n
      BY <1>2, <1>4, SMTT(30)
    <2>. QED  BY <1>4, <2>1, <2>2
  <1>. QED  BY <1>7, <1>8

\* The first frame is what was read.
LEMMA YieldKeeps ==
    ASSUME WatchInv, NEW w \in Watcher, yield_frame_one(w)
    PROVE  Fits(w)' /\ Current(w)'
  <1>1. watcher[w] \in Subscriber /\ watcher[w].at = "building" /\ Len(Seen(w)) = Width(w)
    BY DEF yield_frame_one, WatchInv, Typed, Seen, Width
  <1>. DEFINE new == [watcher[w] EXCEPT !.at = "streaming", !.label = version]
  <1>2. /\ watcher' = [watcher EXCEPT ![w] = new]
        /\ queue' = queue /\ store' = store /\ untold' = untold
    BY DEF yield_frame_one
  <1>3. new.at = "streaming" /\ new.stream = watcher[w].stream /\ new.frame = watcher[w].frame
    BY <1>1 DEF Subscriber
  <1>. HIDE DEF new
  <1>4. /\ watcher'[w].at = "streaming" /\ watcher'[w].stream = watcher[w].stream
        /\ watcher'[w].frame = watcher[w].frame
    <2>1. watcher'[w] = new
      BY <1>2 DEF WatchInv, Typed
    <2>. QED  BY <1>3, <2>1
  <1>5. Fits(w)'
    BY <1>1, <1>2, <1>4 DEF WatchInv, Fits, Seen, Width
  <1>6. Current(w)'
    <2>1. Current(w) /\ watcher[w].at # "off"
      BY <1>1 DEF WatchInv
    <2>2. Snapshot(watcher[w].stream)' = Snapshot(watcher[w].stream)
      BY <1>2, <1>4, SMTT(30) DEF Snapshot
    <2>. QED  BY <1>2, <1>4, <2>1, <2>2 DEF Current, Seen
  <1>. QED  BY <1>5, <1>6

\* What is received last was last in the channel.
LEMMA RecvKeeps ==
    ASSUME WatchInv, NEW w \in Watcher, recv(w)
    PROVE  Fits(w)' /\ Current(w)'
  <1>. DEFINE q == queue[w]
              st == watcher[w].stream
              new == [watcher[w] EXCEPT !.frame = Head(q).frame, !.label = Head(q).label]
  <1>1. watcher[w] \in Subscriber /\ watcher[w].at = "streaming" /\ st \in Stream
    BY DEF recv, WatchInv, Typed
  <1>2. q \in Seq(Message) /\ q # <<>> /\ Tail(q) \in Seq(Message) /\ Head(q) = q[1]
    BY SMTT(30) DEF recv, WatchInv, Typed
  <1>3. /\ watcher' = [watcher EXCEPT ![w] = new] /\ queue' = [queue EXCEPT ![w] = Tail(q)]
        /\ store' = store /\ untold' = untold
    BY DEF recv
  <1>4. new.at = "streaming" /\ new.stream = st /\ new.frame = Head(q).frame
    BY <1>1 DEF Subscriber
  <1>. HIDE DEF new
  <1>5. /\ watcher'[w].at = "streaming" /\ watcher'[w].stream = st /\ watcher'[w].frame = q[1].frame
        /\ queue'[w] = Tail(q)
    BY <1>2, <1>3, <1>4 DEF WatchInv, Typed
  <1>6. /\ Len(q) \in Nat /\ Len(q) >= 1 /\ Len(Tail(q)) = Len(q) - 1
        /\ \A i \in 1 .. Len(Tail(q)) : i + 1 \in 1 .. Len(q) /\ Tail(q)[i] = q[i + 1]
    BY <1>2, SMTT(30)
  <1>7. Fits(w)'
    <2>1. \A i \in 1 .. Len(q) : Len(q[i].frame) = Len(PartsOf(st))
      BY <1>1 DEF WatchInv, Fits, Width
    <2>2. Len(q[1].frame) = Len(PartsOf(st)) /\ Len(PartsOf(st)) \in Nat
      BY <1>1, <1>6, <2>1, PartsOfType, SMTT(30)
    <2>3. \A i \in 1 .. Len(Tail(q)) : Len(Tail(q)[i].frame) = Len(PartsOf(st))
      BY <1>6, <2>1
    <2>. HIDE DEF q, st
    <2>. QED  BY <1>5, <2>2, <2>3, SMTT(30) DEF Fits, Seen, Width
  <1>8. Current(w)'
    <2>. SUFFICES ASSUME ~untold[st]
                  PROVE  IF Tail(q) = <<>>
                         THEN \A i \in 1 .. Len(q[1].frame) : q[1].frame[i] = store[PartsOf(st)[i]]
                         ELSE Tail(q)[Len(Tail(q))].frame = Snapshot(st)
      BY <1>3, <1>5 DEF Current, Seen, Snapshot
    <2>1. q[Len(q)].frame = Snapshot(st)
      BY <1>1, <1>2 DEF WatchInv, Current
    <2>2. CASE Tail(q) = <<>>
      <3>1. Len(<<>>) = 0
        OBVIOUS
      <3>2. Len(Tail(q)) = 0
        BY <2>2, <3>1
      <3>3. q[1].frame = Snapshot(st)
        BY <1>6, <2>1, <3>2, SMTT(30)
      <3>4. /\ Len(Snapshot(st)) = Len(PartsOf(st))
            /\ \A i \in 1 .. Len(PartsOf(st)) : Snapshot(st)[i] = store[PartsOf(st)[i]]
        BY <1>1, SnapshotType DEF WatchInv
      <3>. QED  BY <2>2, <3>3, <3>4
    <2>3. CASE Tail(q) # <<>>
      <3>1. Len(Tail(q)) \in 1 .. Len(Tail(q))
        BY <1>2, <2>3, SMTT(30)
      <3>2. Tail(q)[Len(Tail(q))] = q[Len(q)]
        BY <1>6, <3>1, SMTT(30)
      <3>. QED  BY <2>1, <2>3, <3>2
    <2>. QED  BY <2>2, <2>3
  <1>. QED  BY <1>7, <1>8

\* Every step keeps the invariant.
LEMMA StepCurrent == WatchInv /\ [WatchNext]_watchVars => WatchInv'
  <1>. SUFFICES ASSUME WatchInv, [WatchNext]_watchVars PROVE WatchInv'
    OBVIOUS
  <1>0. Typed'
    BY StepTyped DEF WatchInv
  <1>. SUFFICES ASSUME NEW v \in Watcher PROVE Fits(v)' /\ Current(v)'
    BY <1>0 DEF WatchInv
  <1>. DEFINE Alone == watcher'[v] = watcher[v] /\ queue'[v] = queue[v]
  <1>1. ASSUME Alone, UNCHANGED <<store, untold>> PROVE Fits(v)' /\ Current(v)'
    BY <1>1, FitsKept, CurrentKept DEF WatchInv
  <1>2. ASSUME NEW w \in Watcher, w # v, \E x : watcher' = [watcher EXCEPT ![w] = x],
               queue' = queue \/ \E x : queue' = [queue EXCEPT ![w] = x]
        PROVE  Alone
    BY <1>2 DEF WatchInv, Typed
  <1>3. ASSUME NEW cmd \in Command, ApplyEntry(cmd) PROVE Fits(v)' /\ Current(v)'
    BY <1>1, <1>3 DEF ApplyEntry
  <1>4. CASE CommitEntry
    BY <1>4, CommitKeeps
  <1>5. CASE PublishUpdate
    BY <1>5, PublishKeeps
  <1>6. CASE install_snapshot
    <2>1. Alone /\ (watcher[v].at # "off" => untold'[watcher[v].stream])
      BY <1>6 DEF install_snapshot, WatchInv, Typed
    <2>. QED  BY <2>1, FitsKept, CurrentKept DEF WatchInv
  <1>7. ASSUME NEW w \in Watcher, NEW st \in Stream, subscribe(w, st) PROVE Fits(v)' /\ Current(v)'
    <2>1. CASE w = v
      <3>1. /\ watcher'[v] = [at |-> "building", stream |-> st, frame |-> <<>>, label |-> 0]
            /\ queue'[v] = <<>>
        BY <1>7, <2>1 DEF subscribe, WatchInv, Typed
      <3>2. Len(PartsOf(st)) \in Nat
        BY PartsOfType
      <3>. QED  BY <3>1, <3>2, SMTT(30) DEF Fits, Current, Seen, Width
    <2>2. CASE w # v
      BY <1>1, <1>2, <1>7, <2>2 DEF subscribe
    <2>. QED  BY <2>1, <2>2
  <1>8. ASSUME NEW w \in Watcher, read_part(w) PROVE Fits(v)' /\ Current(v)'
    <2>1. \E x : watcher' = [watcher EXCEPT ![w] = x]
      BY <1>8 DEF read_part
    <2>. QED  BY <1>1, <1>2, <1>8, <2>1, ReadKeeps DEF read_part
  <1>9. ASSUME NEW w \in Watcher, yield_frame_one(w) PROVE Fits(v)' /\ Current(v)'
    <2>1. \E x : watcher' = [watcher EXCEPT ![w] = x]
      BY <1>9 DEF yield_frame_one
    <2>. QED  BY <1>1, <1>2, <1>9, <2>1, YieldKeeps DEF yield_frame_one
  <1>10. ASSUME NEW w \in Watcher, recv(w) PROVE Fits(v)' /\ Current(v)'
    <2>1. \E x : watcher' = [watcher EXCEPT ![w] = x]
      BY <1>10 DEF recv
    <2>. QED  BY <1>1, <1>2, <1>10, <2>1, RecvKeeps DEF recv
  <1>11. ASSUME NEW w \in Watcher, disconnect(w) PROVE Fits(v)' /\ Current(v)'
    <2>1. CASE w = v
      <3>1. watcher'[v].at = "off"
        BY <1>11, <2>1 DEF disconnect, WatchInv, Typed
      <3>. QED  BY <3>1 DEF Fits, Current
    <2>2. CASE w # v
      BY <1>1, <1>2, <1>11, <2>2 DEF disconnect
    <2>. QED  BY <2>1, <2>2
  <1>12. CASE UNCHANGED watchVars
    BY <1>1, <1>12 DEF watchVars
  <1>. QED  BY <1>3, <1>4, <1>5, <1>6, <1>7, <1>8, <1>9, <1>10, <1>11, <1>12 DEF WatchNext

\* A subscriber that has drained its channel has seen the committed state,
\* unless its stream was not told of the last change: subscribing before the
\* first frame is built and publishing whole states makes up for frames read
\* while entries are applied, and for messages lost by a slow subscriber
\* (watch_sag, watch_schedule, watch_routes, publish_event).
THEOREM SubscribersCatchUp == WatchSpec => []CaughtUpIsCurrent
  <1>1. WatchInit => WatchInv
    <2>. SUFFICES ASSUME WatchInit PROVE WatchInv
      OBVIOUS
    <2>1. \A w \in Watcher : watcher[w].at = "off"
      BY DEF WatchInit
    <2>. QED  BY <2>1, InitTyped DEF WatchInv, Fits, Current
  <1>2. WatchInv => CaughtUpIsCurrent
    <2>. SUFFICES ASSUME WatchInv, NEW w \in Watcher, watcher[w].at = "streaming", queue[w] = <<>>,
                         ~untold[watcher[w].stream]
                  PROVE  watcher[w].frame = Snapshot(watcher[w].stream)
      BY DEF CaughtUpIsCurrent
    <2>1. watcher[w].stream \in Stream /\ watcher[w].frame \in Seq(Int)
      BY DEF WatchInv, Typed, Subscriber
    <2>2. /\ Len(watcher[w].frame) = Len(PartsOf(watcher[w].stream))
          /\ \A i \in 1 .. Len(watcher[w].frame) : watcher[w].frame[i] = store[PartsOf(watcher[w].stream)[i]]
      BY DEF WatchInv, Fits, Current, Seen, Width
    <2>3. watcher[w].frame = [i \in 1 .. Len(watcher[w].frame) |-> watcher[w].frame[i]]
      BY <2>1, SMTT(30)
    <2>. QED  BY <2>2, <2>3 DEF Snapshot
  <1>. QED  BY <1>1, <1>2, StepCurrent, PTL DEF WatchSpec

-----------------------------------------------------------------------------
(* Metrics windows.                                                        *)

\* A report about to insert the first record of a pod finds none, unless
\* another one wrote the record meanwhile.
MetricsInv ==
    /\ windows \in [MetricsPod -> Seq(Int)]
    /\ report \in [Reporter -> {Absent} \cup MetricsReport]
    /\ \A r \in Reporter : report[r] # Absent /\ report[r].at = "insert" /\ report[r].alone => windows[report[r].pod] = <<>>

\* Nothing is reported at first.
LEMMA MetricsInitHolds == MetricsInit => MetricsInv
  BY SMTT(30) DEF MetricsInit, MetricsInv

\* Appending a newer window, and dropping the oldest when there are too many,
\* leaves the newer one as the last.
LEMMA NewestIsLast ==
    ASSUME NEW s \in Seq(Int), s # <<>>, NEW w \in Int
    PROVE  /\ Append(s, w) \in Seq(Int) /\ Newest(Append(s, w)) = w
           /\ Tail(Append(s, w)) \in Seq(Int) /\ Newest(Tail(Append(s, w))) = w
  BY SMTT(30) DEF Newest

\* The mark of the reports that another one overtook.
LEMMA MetKeeps ==
    ASSUME MetricsInv, NEW p \in MetricsPod
    PROVE  /\ Met(p) \in [Reporter -> {Absent} \cup MetricsReport]
           /\ \A r \in Reporter : /\ Met(p)[r] = Absent <=> report[r] = Absent
                                  /\ Met(p)[r] # Absent /\ Met(p)[r].at = "insert" /\ Met(p)[r].alone
                                        => Met(p)[r] = report[r] /\ report[r].pod # p
  <1> SUFFICES ASSUME NEW r \in Reporter
               PROVE  /\ Met(p)[r] \in {Absent} \cup MetricsReport
                      /\ Met(p)[r] = Absent <=> report[r] = Absent
                      /\ Met(p)[r] # Absent /\ Met(p)[r].at = "insert" /\ Met(p)[r].alone
                            => Met(p)[r] = report[r] /\ report[r].pod # p
    BY DEF Met
  <1>1. report[r] \in {Absent} \cup MetricsReport
    BY DEF MetricsInv
  <1>2. Met(p)[r] = IF report[r] # Absent /\ report[r].at = "insert" /\ report[r].pod = p
                    THEN [report[r] EXCEPT !.alone = FALSE] ELSE report[r]
    BY DEF Met
  <1>3. CASE report[r] # Absent /\ report[r].at = "insert" /\ report[r].pod = p
    <2> DEFINE new == [report[r] EXCEPT !.alone = FALSE]
    <2>1. new \in MetricsReport /\ ~new.alone
      BY <1>1, <1>3 DEF MetricsReport
    <2>2. Met(p)[r] = new
      BY <1>2, <1>3
    <2> HIDE DEF new
    <2>. QED  BY <1>3, <2>1, <2>2, MetricsAssumption
  <1>4. CASE ~(report[r] # Absent /\ report[r].at = "insert" /\ report[r].pod = p)
    <2>1. Met(p)[r] = report[r]
      BY <1>2, <1>4
    <2>. QED  BY <1>1, <1>4, <2>1
  <1>. QED  BY <1>3, <1>4

\* The newest window of a pod never goes back while the pod keeps its record,
\* unless a first report that another one overtook overwrites the record: a
\* report looks for the record, updates it or inserts one in separate steps
\* (report_metrics).
THEOREM NewestNeverGoesBack == MetricsSpec => NewestAdvances
  <1> DEFINE Advances ==
        \A p \in MetricsPod :
          /\ windows'[p] # windows[p] /\ windows[p] # <<>> /\ windows'[p] # <<>>
          => \/ Newest(windows'[p]) > Newest(windows[p])
             \/ \E r \in Reporter : report[r] # Absent /\ report'[r] = Absent /\ ~report[r].alone
  <1>1. ASSUME MetricsInv, MetricsNext PROVE MetricsInv' /\ Advances
    <2>1. ASSUME NEW r \in Reporter, NEW p \in MetricsPod, NEW w \in 1 .. MaxWindow, report_metrics(r, p, w)
          PROVE  MetricsInv' /\ Advances
      <3> DEFINE new == [at |-> "update", pod |-> p, window |-> w, alone |-> TRUE]
      <3>1. new \in MetricsReport /\ new.at = "update"
        BY SMTT(30) DEF MetricsReport
      <3>2. report' = [report EXCEPT ![r] = new] /\ windows' = windows
        BY <2>1 DEF report_metrics
      <3> HIDE DEF new
      <3>. QED  BY <1>1, <3>1, <3>2 DEF MetricsInv
    <2>2. ASSUME NEW r \in Reporter, update_record(r) PROVE MetricsInv' /\ Advances
      <3>1. report[r] \in MetricsReport /\ report[r].at = "update"
        BY <1>1, <2>2 DEF MetricsInv, update_record
      <3>2. PICK p \in MetricsPod, w \in Int : p = report[r].pod /\ w = report[r].window
        BY <3>1 DEF MetricsReport
      <3>3. CASE windows' = windows /\ report' = [report EXCEPT ![r] = Absent]
        BY <1>1, <3>3 DEF MetricsInv
      <3>4. CASE windows' = windows /\ windows[p] = <<>> /\ report' = [report EXCEPT ![r].at = "insert"]
        <4> DEFINE new == [report[r] EXCEPT !.at = "insert"]
        <4>1. new \in MetricsReport /\ new.pod = p
          BY <3>1, <3>2 DEF MetricsReport
        <4>2. report' = [report EXCEPT ![r] = new]
          BY <1>1, <3>4 DEF MetricsInv
        <4> HIDE DEF new
        <4>. QED  BY <1>1, <3>4, <4>1, <4>2 DEF MetricsInv
      <3>5. CASE /\ windows[p] # <<>> /\ w > Newest(windows[p])
                 /\ \/ windows' = [windows EXCEPT ![p] = Append(windows[p], w)]
                    \/ windows' = [windows EXCEPT ![p] = Tail(Append(windows[p], w))]
                 /\ report' = [Met(p) EXCEPT ![r] = Absent]
        <4>0. windows[p] \in Seq(Int)
          BY <1>1 DEF MetricsInv
        <4>1. windows' \in [MetricsPod -> Seq(Int)] /\ Newest(windows'[p]) = w
          <5>1. PICK s \in Seq(Int) : Newest(s) = w /\ windows' = [windows EXCEPT ![p] = s]
            BY <3>5, <4>0, NewestIsLast
          <5>. QED  BY <1>1, <5>1 DEF MetricsInv
        <4>2. \A q \in MetricsPod : q # p => windows'[q] = windows[q]
          BY <1>1, <3>5 DEF MetricsInv
        <4>3. Advances
          BY <3>5, <4>1, <4>2
        <4>4. /\ report' \in [Reporter -> {Absent} \cup MetricsReport]
              /\ \A x \in Reporter : report'[x] # Absent /\ report'[x].at = "insert" /\ report'[x].alone
                    => report'[x] = report[x] /\ report[x].pod # p
          BY <1>1, <3>5, MetKeeps
        <4>5. \A x \in Reporter : report'[x] # Absent => report'[x].pod \in MetricsPod
          BY <4>4 DEF MetricsReport
        <4>. QED  BY <1>1, <4>1, <4>2, <4>3, <4>4, <4>5, SMTT(30) DEF MetricsInv
      <3>. QED  BY <2>2, <3>2, <3>3, <3>4, <3>5 DEF update_record, IsNewer
    <2>3. ASSUME NEW r \in Reporter, insert_record(r) PROVE MetricsInv' /\ Advances
      <3>1. report[r] \in MetricsReport /\ report[r].at = "insert" /\ report[r] # Absent
        BY <1>1, <2>3 DEF MetricsInv, insert_record
      <3>2. PICK p \in MetricsPod, w \in Int : p = report[r].pod /\ w = report[r].window
        BY <3>1 DEF MetricsReport
      <3>3. windows' = [windows EXCEPT ![p] = <<w>>] /\ report' = [Met(p) EXCEPT ![r] = Absent]
        BY <2>3, <3>2 DEF insert_record
      <3>4. windows' \in [MetricsPod -> Seq(Int)] /\ \A q \in MetricsPod : q # p => windows'[q] = windows[q]
        <4>1. <<w>> \in Seq(Int)
          BY SMTT(30)
        <4>. QED  BY <1>1, <3>3, <4>1 DEF MetricsInv
      <3>5. /\ report' \in [Reporter -> {Absent} \cup MetricsReport]
            /\ report'[r] = Absent
            /\ \A x \in Reporter : report'[x] # Absent /\ report'[x].at = "insert" /\ report'[x].alone
                  => report'[x] = report[x] /\ report[x].pod # p
        BY <1>1, <3>3, MetKeeps
      <3>6. windows[p] # <<>> => ~report[r].alone
        BY <1>1, <3>1, <3>2 DEF MetricsInv
      <3>7. Advances
        BY <3>1, <3>4, <3>5, <3>6
      <3>8. \A x \in Reporter : report'[x] # Absent => report'[x].pod \in MetricsPod
        BY <3>5 DEF MetricsReport
      <3>. QED  BY <1>1, <3>4, <3>5, <3>7, <3>8, SMTT(30) DEF MetricsInv
    <2>4. ASSUME NEW p \in MetricsPod, sweep_metrics(p) PROVE MetricsInv' /\ Advances
      <3>1. report' = report /\ windows' = [windows EXCEPT ![p] = <<>>]
        BY <2>4 DEF sweep_metrics
      <3>2. windows' \in [MetricsPod -> Seq(Int)] /\ \A q \in MetricsPod : windows'[q] = windows[q] \/ windows'[q] = <<>>
        <4>1. <<>> \in Seq(Int)
          BY SMTT(30)
        <4>. QED  BY <1>1, <3>1, <4>1 DEF MetricsInv
      <3>3. \A x \in Reporter : report[x] # Absent => report[x].pod \in MetricsPod
        BY <1>1 DEF MetricsReport, MetricsInv
      <3>. QED  BY <1>1, <3>1, <3>2, <3>3 DEF MetricsInv
    <2>. QED  BY <1>1, <2>1, <2>2, <2>3, <2>4 DEF MetricsNext
  <1>2. MetricsInv /\ UNCHANGED metricsVars => MetricsInv'
    BY DEF MetricsInv, metricsVars
  <1>3. MetricsInv /\ [MetricsNext]_metricsVars => MetricsInv' /\ [Advances]_metricsVars
    BY <1>1, <1>2
  <1> HIDE DEF Advances
  <1>4. MetricsSpec => []MetricsInv
    BY <1>3, MetricsInitHolds, PTL DEF MetricsSpec
  <1>5. MetricsSpec => [][Advances]_metricsVars
    BY <1>3, <1>4, PTL DEF MetricsSpec
  <1>. QED  BY <1>5 DEF NewestAdvances, Advances

-----------------------------------------------------------------------------
(* How much queues of given lengths hold.                                  *)

\* The places of queues with the lengths len.
Places(len) == UNION {{p} \X (1 .. len[p]) : p \in EventPod}

\* They are finitely many.
LEMMA PlacesAreFinite ==
    ASSUME NEW len \in [EventPod -> Nat], NEW P \in SUBSET EventPod
    PROVE  IsFiniteSet(UNION {{p} \X (1 .. len[p]) : p \in P})
  <1> DEFINE S == {{p} \X (1 .. len[p]) : p \in P}
             f == [p \in P |-> {p} \X (1 .. len[p])]
  <1>1. IsFiniteSet(P)
    BY EventAssumption, FS_Subset
  <1>2. f \in Surjection(P, S)
    BY DEF Surjection
  <1>3. IsFiniteSet(S)
    BY <1>1, <1>2, FS_Surjection DEF ExistsSurjection
  <1>4. ASSUME NEW T \in S PROVE IsFiniteSet(T)
    <2>1. PICK p \in P : T = {p} \X (1 .. len[p])
      OBVIOUS
    <2>2. IsFiniteSet(1 .. len[p])
      BY FS_Interval, SMTT(30)
    <2>. QED  BY <2>1, <2>2, FS_Singleton, FS_Product
  <1>. QED  BY <1>3, <1>4, FS_UNION

\* One queue holds as much as it is long.
LEMMA PlacesOfOne ==
    ASSUME NEW p, NEW n \in Nat
    PROVE  IsFiniteSet({p} \X (1 .. n)) /\ Cardinality({p} \X (1 .. n)) = n
  <1>1. IsFiniteSet(1 .. n) /\ Cardinality(1 .. n) = n
    BY FS_Interval, SMTT(30)
  <1>2. IsFiniteSet({p}) /\ Cardinality({p}) = 1
    BY FS_Singleton
  <1>3. IsFiniteSet({p} \X (1 .. n)) /\ Cardinality({p} \X (1 .. n)) = Cardinality({p}) * Cardinality(1 .. n)
    BY <1>1, <1>2, FS_Product
  <1>. QED  BY <1>1, <1>2, <1>3, SMTT(30)

\* When no queue grows, no more is held.
LEMMA PlacesShrink ==
    ASSUME NEW f \in [EventPod -> Nat], NEW g \in [EventPod -> Nat],
           \A p \in EventPod : g[p] <= f[p]
    PROVE  Cardinality(Places(g)) <= Cardinality(Places(f))
  <1>1. Places(g) \subseteq Places(f)
    <2> SUFFICES ASSUME NEW p \in EventPod, NEW i \in 1 .. g[p] PROVE i \in 1 .. f[p]
      BY SMTT(30) DEF Places
    <2>1. g[p] \in Nat /\ f[p] \in Nat /\ g[p] <= f[p]
      OBVIOUS
    <2>. QED  BY <2>1, SMTT(30)
  <1>2. IsFiniteSet(Places(f))
    BY PlacesAreFinite DEF Places
  <1>. QED  BY <1>1, <1>2, FS_Subset

\* When all queues but one do not grow, what is held changes by that one at most.
LEMMA PlacesChange ==
    ASSUME NEW f \in [EventPod -> Nat], NEW g \in [EventPod -> Nat], NEW p \in EventPod,
           \A q \in EventPod \ {p} : g[q] <= f[q]
    PROVE  Cardinality(Places(g)) <= Cardinality(Places(f)) - f[p] + g[p]
  <1> DEFINE Others(h) == UNION {{q} \X (1 .. h[q]) : q \in EventPod \ {p}}
             Own(h)    == {p} \X (1 .. h[p])
  <1>1. ASSUME NEW h \in [EventPod -> Nat]
        PROVE  /\ IsFiniteSet(Others(h)) /\ Cardinality(Others(h)) \in Nat
               /\ Cardinality(Places(h)) = Cardinality(Others(h)) + h[p]
    <2>1. IsFiniteSet(Others(h))
      BY PlacesAreFinite
    <2>2. Cardinality(Others(h)) \in Nat
      BY <2>1, FS_CardinalityType
    <2>3. IsFiniteSet(Own(h)) /\ Cardinality(Own(h)) = h[p]
      BY PlacesOfOne
    <2>4. Places(h) = Others(h) \cup Own(h)
      BY DEF Places
    <2>5. Others(h) \cap Own(h) = {}
      BY SMTT(30)
    <2>6. Cardinality(Places(h)) = Cardinality(Others(h)) + Cardinality(Own(h)) - Cardinality({})
      BY <2>1, <2>3, <2>4, <2>5, FS_Union, SMTT(30)
    <2>. QED  BY <2>1, <2>2, <2>3, <2>6, FS_EmptySet, SMTT(30)
  <1>2. Others(g) \subseteq Others(f)
    <2> SUFFICES ASSUME NEW q \in EventPod \ {p}, NEW i \in 1 .. g[q] PROVE i \in 1 .. f[q]
      BY SMTT(30)
    <2>1. g[q] \in Nat /\ f[q] \in Nat /\ g[q] <= f[q]
      OBVIOUS
    <2>. QED  BY <2>1, SMTT(30)
  <1>3. Cardinality(Others(g)) <= Cardinality(Others(f))
    BY <1>1, <1>2, FS_Subset
  <1> HIDE DEF Others
  <1>4. f[p] \in Nat /\ g[p] \in Nat
    OBVIOUS
  <1>. QED  BY <1>1, <1>3, <1>4, SMTT(30)

-----------------------------------------------------------------------------
(* Queues.                                                                 *)

IsQueue(q) == \E S : q \in Seq(S)

Lengths == [p \in EventPod |-> Len(Queue(p))]

\* A new event makes a queue longer by one, and dropping the oldest ones
\* shorter by their number.
LEMMA QueueGrows ==
    ASSUME NEW q, IsQueue(q), NEW e, NEW over \in Nat, over <= Len(q) + 1
    PROVE  LET new == SubSeq(Append(q, e), over + 1, Len(Append(q, e)))
           IN  IsQueue(new) /\ Len(new) = Len(q) + 1 - over
  <1>1. PICK S : q \in Seq(S)
    BY DEF IsQueue
  <1> DEFINE T == S \cup {e}
             a == Append(q, e)
  <1>2. a \in Seq(T) /\ Len(a) = Len(q) + 1 /\ Len(q) \in Nat
    BY <1>1, SMTT(30)
  <1> HIDE DEF a
  <1>3. SubSeq(a, over + 1, Len(a)) \in Seq(T) /\ Len(SubSeq(a, over + 1, Len(a))) = Len(a) - over
    BY <1>2, SMTT(30)
  <1>4. IsQueue(SubSeq(a, over + 1, Len(a)))
    BY <1>3 DEF IsQueue
  <1>. QED  BY <1>2, <1>3, <1>4, SMTT(30) DEF a

\* Taking the oldest event of a queue makes it shorter by one.
LEMMA QueueShrinks ==
    ASSUME NEW q, IsQueue(q), q # <<>>
    PROVE  IsQueue(Tail(q)) /\ Len(Tail(q)) = Len(q) - 1
  <1>1. PICK S : q \in Seq(S)
    BY DEF IsQueue
  <1>2. Tail(q) \in Seq(S) /\ Len(Tail(q)) = Len(q) - 1
    BY <1>1, SMTT(30)
  <1>. QED  BY <1>2 DEF IsQueue

\* The empty queue.
LEMMA EmptyQueue == IsQueue(<<>>) /\ Len(<<>>) = 0
  <1>1. <<>> \in Seq({})
    BY SMTT(30)
  <1>. QED  BY <1>1 DEF IsQueue

\* What expires only makes a queue shorter.
LEMMA RetainShrinks ==
    ASSUME NEW q, IsQueue(q), NEW expired
    PROVE  IsQueue(retain(q, expired)) /\ Len(retain(q, expired)) <= Len(q)
  <1>1. PICK S : q \in Seq(S)
    BY DEF IsQueue
  <1> DEFINE kept  == {i \in DOMAIN q : q[i] \notin expired}
             at(k) == CHOOSE i \in kept : Cardinality({j \in kept : j <= i}) = k
             n     == Cardinality(kept)
             r     == [k \in 1 .. n |-> q[at(k)]]
             R     == {r[k] : k \in 1 .. n}
  <1>2. Len(q) \in Nat /\ DOMAIN q = 1 .. Len(q)
    BY <1>1, SMTT(30)
  <1>3. IsFiniteSet(1 .. Len(q)) /\ Cardinality(1 .. Len(q)) = Len(q)
    <2>1. \A m \in Nat : IsFiniteSet(1 .. m) /\ Cardinality(1 .. m) = m
      BY FS_Interval, SMTT(30)
    <2>. QED  BY <1>2, <2>1
  <1>4. kept \subseteq 1 .. Len(q)
    BY <1>2
  <1>5. n \in Nat /\ n <= Len(q)
    <2> HIDE DEF kept
    <2>1. IsFiniteSet(kept) /\ Cardinality(kept) <= Cardinality(1 .. Len(q))
      BY <1>3, <1>4, FS_Subset
    <2>2. n \in Nat
      BY <2>1, FS_CardinalityType
    <2>. QED  BY <1>3, <2>1, <2>2
  <1>6. retain(q, expired) = r
    BY DEF retain
  <1>7. DOMAIN r = 1 .. n /\ r = [k \in 1 .. n |-> r[k]]
    BY SMTT(30)
  <1> HIDE DEF r, n
  <1>8. r \in [1 .. n -> R]
    BY <1>7
  <1>9. r \in Seq(R) /\ Len(r) = n
    BY <1>5, <1>7, <1>8, SMTT(30)
  <1>. QED  BY <1>5, <1>6, <1>9 DEF IsQueue

-----------------------------------------------------------------------------
(* The counter is never below what it counts, unless it was set too low.   *)

\* Evictions that owe the counter the event they took.
Owing == {t \in Thread : thread[t].at \in {"empty", "sub"} /\ thread[t].popped}

\* Tasks that will look at the counter again before they leave the store.
Evicting == {t \in Thread : thread[t].at \in {"check", "pop", "empty", "sub"}}

AllQueues == \A p \in EventPod : IsQueue(Queue(p))

EventTyped ==
    /\ events = [p \in EventPod |-> events[p]]
    /\ AllQueues
    /\ thread = [t \in Thread |-> thread[t]]
    /\ \A t \in Thread :
          /\ thread[t].at \in {"pop", "empty"} => thread[t].pod \in EventPod
          /\ thread[t].at \in {"empty", "sub"} => thread[t].popped \in BOOLEAN
          /\ thread[t].at = "store" => thread[t].n \in Int
    /\ total \in Int /\ skewed \in BOOLEAN

\* The inductive invariant: the counter covers the stored events and the ones
\* that are still owed to it, and over the cap somebody is evicting.
EventInv ==
    /\ EventTyped
    /\ skewed \/ Stored + Uncounted <= total
    /\ skewed \/ Evicting # {} \/ Stored <= MAX_EVENTS

-----------------------------------------------------------------------------
\* The size of the store is a number, and determined by the queues' lengths.
LEMMA StoredIs ==
    AllQueues => /\ Lengths \in [EventPod -> Nat]
                 /\ Stored = Cardinality(Places(Lengths))
                 /\ Stored \in Nat
  <1> SUFFICES ASSUME AllQueues
               PROVE  /\ Lengths \in [EventPod -> Nat]
                      /\ Stored = Cardinality(Places(Lengths))
                      /\ Stored \in Nat
    OBVIOUS
  <1>1. ASSUME NEW p \in EventPod PROVE Len(Queue(p)) \in Nat /\ DOMAIN Queue(p) = 1 .. Len(Queue(p))
    <2>1. PICK S : Queue(p) \in Seq(S)
      BY DEF IsQueue, AllQueues
    <2>. QED  BY <2>1, SMTT(30)
  <1>2. Lengths \in [EventPod -> Nat]
    BY <1>1 DEF Lengths
  <1>3. Held = Places(Lengths)
    BY <1>1 DEF Held, Places, Lengths
  <1>4. IsFiniteSet(Places(Lengths))
    BY <1>2, PlacesAreFinite DEF Places
  <1>. QED  BY <1>2, <1>3, <1>4, FS_CardinalityType DEF Stored

\* When no queue grows, the store does not.
LEMMA StoreShrinks ==
    ASSUME \A p \in EventPod : /\ IsQueue(Queue(p)) /\ IsQueue(Queue(p)')
                               /\ Len(Queue(p)') <= Len(Queue(p))
    PROVE  Stored \in Nat /\ Stored' \in Nat /\ Stored' <= Stored
  <1>1. Lengths \in [EventPod -> Nat] /\ Stored = Cardinality(Places(Lengths)) /\ Stored \in Nat
    BY StoredIs DEF AllQueues
  <1>2. /\ Lengths' \in [EventPod -> Nat] /\ Stored' = Cardinality(Places(Lengths'))
        /\ Stored' \in Nat
    <2>1. AllQueues'
      BY DEF AllQueues
    <2>2. (AllQueues => /\ Lengths \in [EventPod -> Nat]
                        /\ Stored = Cardinality(Places(Lengths))
                        /\ Stored \in Nat)'
      BY StoredIs, PTL
    <2>. QED  BY <2>1, <2>2 DEF Places
  <1>3. \A p \in EventPod : Lengths'[p] <= Lengths[p]
    BY DEF Lengths
  <1>. QED  BY <1>1, <1>2, <1>3, PlacesShrink

\* When one queue changes, the store grows by as much at most.
LEMMA StoreChanges ==
    ASSUME NEW p \in EventPod,
           \A q \in EventPod : IsQueue(Queue(q)) /\ IsQueue(Queue(q)'),
           \A q \in EventPod \ {p} : Queue(q)' = Queue(q)
    PROVE  /\ Stored \in Nat /\ Stored' \in Nat
           /\ Len(Queue(p)) \in Nat /\ Len(Queue(p)') \in Nat
           /\ Stored' <= Stored - Len(Queue(p)) + Len(Queue(p)')
  <1>1. Lengths \in [EventPod -> Nat] /\ Stored = Cardinality(Places(Lengths)) /\ Stored \in Nat
    BY StoredIs DEF AllQueues
  <1>2. /\ Lengths' \in [EventPod -> Nat] /\ Stored' = Cardinality(Places(Lengths'))
        /\ Stored' \in Nat
    <2>1. AllQueues'
      BY DEF AllQueues
    <2>2. (AllQueues => /\ Lengths \in [EventPod -> Nat]
                        /\ Stored = Cardinality(Places(Lengths))
                        /\ Stored \in Nat)'
      BY StoredIs, PTL
    <2>. QED  BY <2>1, <2>2 DEF Places
  <1>3. Lengths[p] = Len(Queue(p)) /\ Lengths'[p] = Len(Queue(p)')
    BY DEF Lengths
  <1>4. \A q \in EventPod \ {p} : Lengths'[q] <= Lengths[q]
    <2> SUFFICES ASSUME NEW q \in EventPod \ {p} PROVE Lengths'[q] <= Lengths[q]
      OBVIOUS
    <2>1. Lengths'[q] = Lengths[q] /\ Lengths[q] \in Nat
      BY <1>1 DEF Lengths
    <2>. QED  BY <2>1, SMTT(30)
  <1>. QED  BY <1>1, <1>2, <1>3, <1>4, PlacesChange

-----------------------------------------------------------------------------
(* What one task does next.                                                *)

Owes(x) == x.at \in {"empty", "sub"} /\ x.popped

TaskOK(x) ==
    /\ x.at \in {"pop", "empty"} => x.pod \in EventPod
    /\ x.at \in {"empty", "sub"} => x.popped \in BOOLEAN
    /\ x.at = "store" => x.n \in Int

\* The step of a task changes what is owed by that task's part.
LEMMA OwedByOne ==
    ASSUME EventTyped, NEW t \in Thread, NEW x, Step(t, x)
    PROVE  /\ Uncounted \in Nat /\ Uncounted' \in Nat
           /\ Uncounted' = (IF t \in Owing THEN Uncounted - 1 ELSE Uncounted) + (IF Owes(x) THEN 1 ELSE 0)
  <1>1. Uncounted = Cardinality(Owing) /\ Uncounted' = Cardinality(Owing')
    BY DEF Uncounted, Owing
  <1>2. IsFiniteSet(Owing)
    BY EventAssumption, FS_Subset DEF Owing
  <1>3. thread'[t] = x /\ \A u \in Thread \ {t} : thread'[u] = thread[u]
    BY DEF Step, EventTyped
  <1>4. Owing' = IF Owes(x) THEN (Owing \ {t}) \cup {t} ELSE Owing \ {t}
    BY <1>3 DEF Owing, Owes
  <1>5. /\ IsFiniteSet(Owing \ {t})
        /\ Cardinality(Owing \ {t}) = IF t \in Owing THEN Cardinality(Owing) - 1 ELSE Cardinality(Owing)
    BY <1>2, FS_RemoveElement
  <1>6. t \notin Owing \ {t}
    OBVIOUS
  <1>7. /\ IsFiniteSet((Owing \ {t}) \cup {t})
        /\ Cardinality((Owing \ {t}) \cup {t}) = Cardinality(Owing \ {t}) + 1
    BY <1>5, <1>6, FS_AddElement
  <1>8. Cardinality(Owing) \in Nat /\ Cardinality(Owing \ {t}) \in Nat
    BY <1>2, <1>5, FS_CardinalityType
  <1>9. CASE Owes(x)
    BY <1>1, <1>4, <1>5, <1>7, <1>8, <1>9, SMTT(30)
  <1>10. CASE ~Owes(x)
    BY <1>1, <1>4, <1>5, <1>8, <1>10, SMTT(30)
  <1>. QED  BY <1>9, <1>10

\* The step of a task leaves the others as they are.
LEMMA TaskSteps ==
    ASSUME EventTyped, NEW t \in Thread, NEW x, TaskOK(x), Step(t, x),
           events' = [p \in EventPod |-> events'[p]], AllQueues', total' \in Int, skewed' \in BOOLEAN
    PROVE  /\ EventTyped'
           /\ Evicting' \ {t} = Evicting \ {t}
           /\ t \in Evicting' <=> x.at \in {"check", "pop", "empty", "sub"}
  <1>1. thread'[t] = x /\ \A u \in Thread \ {t} : thread'[u] = thread[u]
    BY DEF Step, EventTyped
  <1>2. thread' = [u \in Thread |-> thread'[u]]
    BY DEF Step, EventTyped
  <1>3. ASSUME NEW u \in Thread
        PROVE  /\ thread'[u].at \in {"pop", "empty"} => thread'[u].pod \in EventPod
               /\ thread'[u].at \in {"empty", "sub"} => thread'[u].popped \in BOOLEAN
               /\ thread'[u].at = "store" => thread'[u].n \in Int
    <2>1. CASE u = t
      BY <1>1, <2>1 DEF TaskOK
    <2>2. CASE u # t
      BY <1>1, <2>2 DEF EventTyped
    <2>. QED  BY <2>1, <2>2
  <1>4. EventTyped'
    BY <1>2, <1>3 DEF EventTyped
  <1>5. Evicting' \ {t} = Evicting \ {t}
    BY <1>1 DEF Evicting
  <1>6. t \in Evicting' <=> x.at \in {"check", "pop", "empty", "sub"}
    BY <1>1 DEF Evicting
  <1>. QED  BY <1>4, <1>5, <1>6

\* Queues and their number when a step leaves the map of queues alone.
LEMMA SameEvents ==
    ASSUME EventTyped, UNCHANGED events
    PROVE  events' = [p \in EventPod |-> events'[p]] /\ AllQueues' /\ Stored' = Stored /\ Stored \in Nat
  <1>1. \A p \in EventPod : Queue(p)' = Queue(p)
    BY DEF Queue
  <1>2. Stored' = Stored
    BY DEF Stored, Held, Queue
  <1>. QED  BY <1>1, <1>2, StoredIs DEF EventTyped, AllQueues

-----------------------------------------------------------------------------
(* Every step keeps the invariant.                                         *)

\* A report adds to store and counter alike, and then evicts.
LEMMA InsertKeeps ==
    ASSUME EventInv, NEW t \in Thread, NEW p \in EventPod, NEW type \in EventType, insert(t, p, type)
    PROVE  EventInv'
  <1>1. CASE UNCHANGED <<events, total, thread>>
    <2>1. UNCHANGED <<events, total, thread, skewed>>
      BY <1>1 DEF insert
    <2>. QED  BY <2>1 DEF EventInv, EventTyped, AllQueues, Queue, Stored, Held, Uncounted, Evicting
  <1>2. CASE ~UNCHANGED <<events, total, thread>>
    <2> DEFINE q    == Queue(p)
               a    == Append(q, type)
               over == IF Len(a) > MAX_EVENTS_PER_POD THEN Len(a) - MAX_EVENTS_PER_POD ELSE 0
               new  == SubSeq(a, over + 1, Len(a))
    <2>1. events' = [events EXCEPT ![p] = new] /\ total' = total + 1 - over
      BY <1>2 DEF insert
    <2>2. Step(t, [at |-> "check"]) /\ skewed' = skewed /\ thread[t] = Idle
      BY <1>2 DEF insert
    <2>3. IsQueue(q) /\ Len(q) \in Nat /\ Len(a) = Len(q) + 1
      <3>1. IsQueue(q)
        BY DEF EventInv, EventTyped, AllQueues
      <3>2. PICK S : q \in Seq(S)
        BY <3>1 DEF IsQueue
      <3>3. a \in Seq(S \cup {type}) /\ Len(a) = Len(q) + 1
        BY <3>2, SMTT(30)
      <3>. QED  BY <3>1, <3>2, <3>3, SMTT(30)
    <2>4. over \in Nat /\ over <= Len(q) + 1
      BY <2>3, EventAssumption, SMTT(30)
    <2>5. IsQueue(new) /\ Len(new) = Len(q) + 1 - over
      BY <2>3, <2>4, QueueGrows
    <2> HIDE DEF over, new, a
    <2>6. events' = [r \in EventPod |-> events'[r]] /\ events'[p] = new
      BY <2>1 DEF EventInv, EventTyped
    <2>7. \A r \in EventPod \ {p} : Queue(r)' = Queue(r)
      BY <2>1 DEF EventInv, EventTyped, Queue
    <2>8. IsQueue(Queue(p)') /\ Len(Queue(p)') <= Len(new)
      <3>1. Queue(p)' = <<>> \/ Queue(p)' = new
        BY <2>6 DEF Queue
      <3>2. Len(new) \in Nat
        BY <2>3, <2>4, <2>5, SMTT(30)
      <3>3. CASE Queue(p)' = <<>>
        BY <3>2, <3>3, EmptyQueue, SMTT(30)
      <3>4. CASE Queue(p)' = new
        BY <2>5, <3>2, <3>4, SMTT(30)
      <3>. QED  BY <3>1, <3>3, <3>4
    <2>9. \A r \in EventPod : IsQueue(Queue(r)) /\ IsQueue(Queue(r)')
      BY <2>7, <2>8 DEF EventInv, EventTyped, AllQueues
    <2>10. /\ Stored \in Nat /\ Stored' \in Nat
           /\ Len(Queue(p)) \in Nat /\ Len(Queue(p)') \in Nat
           /\ Stored' <= Stored - Len(Queue(p)) + Len(Queue(p)')
      BY <2>7, <2>9, StoreChanges
    <2>11. Stored' <= Stored + 1 - over
      BY <2>3, <2>4, <2>5, <2>8, <2>10, SMTT(30)
    <2>12. EventTyped /\ total \in Int /\ total' \in Int /\ skewed' \in BOOLEAN /\ AllQueues'
      BY <2>1, <2>2, <2>4, <2>9, SMTT(30) DEF EventInv, EventTyped, AllQueues
    <2>13. EventTyped' /\ t \in Evicting'
      BY <2>2, <2>6, <2>12, TaskSteps, SMTT(30) DEF TaskOK
    <2>14. Uncounted \in Nat /\ Uncounted' = Uncounted
      <3>1. t \notin Owing
        BY <2>2, SMTT(30) DEF Owing, Idle
      <3>2. ~Owes([at |-> "check"])
        BY DEF Owes
      <3>3. /\ Uncounted \in Nat /\ Uncounted' \in Nat
            /\ Uncounted' = (IF t \in Owing THEN Uncounted - 1 ELSE Uncounted)
                            + (IF Owes([at |-> "check"]) THEN 1 ELSE 0)
        BY <2>2, <2>12, OwedByOne
      <3>. QED  BY <3>1, <3>2, <3>3, SMTT(30)
    <2>15. skewed \/ Stored + Uncounted <= total
      BY DEF EventInv
    <2>16. skewed' \/ Stored' + Uncounted' <= total'
      <3>1. ASSUME NEW i \in Nat, NEW j \in Nat, NEW u \in Nat, NEW n \in Int, NEW o \in Nat,
                   j <= i + 1 - o, i + u <= n
            PROVE  j + u <= n + 1 - o
        BY <3>1, SMTT(30)
      <3>. QED  BY <2>1, <2>2, <2>4, <2>10, <2>11, <2>12, <2>14, <2>15, <3>1
    <2>. QED  BY <2>13, <2>16 DEF EventInv
  <1>. QED  BY <1>1, <1>2

\* An eviction ends when the counter is within the cap.
LEMMA CheckKeeps ==
    ASSUME EventInv, NEW t \in Thread, check_cap(t)
    PROVE  EventInv'
  <1>1. UNCHANGED <<events, total>> /\ thread[t].at = "check"
    BY DEF check_cap
  <1>2. EventTyped /\ total \in Int /\ skewed \in BOOLEAN
    BY DEF EventInv, EventTyped
  <1>3. events' = [p \in EventPod |-> events'[p]] /\ AllQueues' /\ Stored' = Stored /\ Stored \in Nat
    BY <1>1, <1>2, SameEvents
  <1>4. t \notin Owing
    BY <1>1 DEF Owing
  <1>5. skewed \/ Stored + Uncounted <= total
    BY DEF EventInv
  <1>6. ASSUME NEW x, TaskOK(x), ~Owes(x), Step(t, x), skewed' \in BOOLEAN
        PROVE  /\ EventTyped' /\ Uncounted \in Nat /\ Uncounted' = Uncounted
               /\ t \in Evicting' <=> x.at \in {"check", "pop", "empty", "sub"}
    <2>1. EventTyped' /\ (t \in Evicting' <=> x.at \in {"check", "pop", "empty", "sub"})
      BY <1>1, <1>2, <1>3, <1>6, TaskSteps
    <2>2. /\ Uncounted \in Nat /\ Uncounted' \in Nat
          /\ Uncounted' = (IF t \in Owing THEN Uncounted - 1 ELSE Uncounted) + (IF Owes(x) THEN 1 ELSE 0)
      BY <1>2, <1>6, OwedByOne
    <2>. QED  BY <1>4, <1>6, <2>1, <2>2, SMTT(30)
  <1>7. CASE ~OverCap(total) /\ skewed' = (skewed /\ total < Stored + Uncounted) /\ Step(t, Idle)
    <2>1. TaskOK(Idle) /\ ~Owes(Idle)
      BY DEF Idle, TaskOK, Owes
    <2>2. skewed' \in BOOLEAN
      BY <1>2, <1>7
    <2>3. EventTyped' /\ Uncounted \in Nat /\ Uncounted' = Uncounted
      BY <1>6, <1>7, <2>1, <2>2
    <2>4. total <= MAX_EVENTS
      BY <1>2, <1>7, EventAssumption, SMTT(30) DEF OverCap
    <2>5. skewed' \/ (Stored + Uncounted <= total /\ Stored <= MAX_EVENTS)
      BY <1>2, <1>3, <1>5, <1>7, <2>3, <2>4, EventAssumption, SMTT(30)
    <2>. QED  BY <1>1, <1>3, <2>3, <2>5 DEF EventInv
  <1>8. ASSUME NEW p \in EventPod, Step(t, [at |-> "pop", pod |-> p]), skewed' = skewed PROVE EventInv'
    <2>1. TaskOK([at |-> "pop", pod |-> p]) /\ ~Owes([at |-> "pop", pod |-> p])
      BY DEF TaskOK, Owes
    <2>2. EventTyped' /\ Uncounted \in Nat /\ Uncounted' = Uncounted /\ t \in Evicting'
      BY <1>2, <1>6, <1>8, <2>1, SMTT(30)
    <2>. QED  BY <1>1, <1>3, <1>5, <1>8, <2>2 DEF EventInv
  <1>9. CASE (\A p \in EventPod : Queue(p) = <<>>) /\ Step(t, [at |-> "count"]) /\ skewed' = skewed
    <2>1. TaskOK([at |-> "count"]) /\ ~Owes([at |-> "count"])
      BY DEF TaskOK, Owes
    <2>2. EventTyped' /\ Uncounted \in Nat /\ Uncounted' = Uncounted
      BY <1>2, <1>6, <1>9, <2>1
    <2>3. Held = {}
      BY <1>9, SMTT(30) DEF Held
    <2>4. Stored = 0
      BY <2>3, FS_EmptySet DEF Stored
    <2>5. Stored' <= MAX_EVENTS
      BY <1>3, <2>4, EventAssumption, SMTT(30)
    <2>. QED  BY <1>1, <1>3, <1>5, <1>9, <2>2, <2>5 DEF EventInv
  <1>. QED  BY <1>7, <1>8, <1>9 DEF check_cap

\* A counter that covers the store covers a smaller store.
LEMMA StillCovered ==
    ASSUME NEW i \in Nat, NEW j \in Nat, NEW u \in Nat, NEW n \in Int, j <= i, i + u <= n
    PROVE  j + u <= n
  BY SMTT(30)

\* It covers a store with an event less and the event that is owed.
LEMMA OwedInstead ==
    ASSUME NEW i \in Nat, NEW j \in Nat, NEW u \in Nat, NEW v \in Nat, NEW n \in Int,
           j <= i - 1, v = u + 1, i + u <= n
    PROVE  j + v <= n
  BY SMTT(30)

\* A step of a task that leaves the counter alone, adds no event to any queue
\* and changes nothing in what the task owes.
LEMMA RemovalKeeps ==
    ASSUME EventInv, NEW t \in Thread, NEW x, TaskOK(x), Step(t, x),
           UNCHANGED <<total, skewed>>,
           events' = [p \in EventPod |-> events'[p]],
           \A p \in EventPod : IsQueue(Queue(p)') /\ Len(Queue(p)') <= Len(Queue(p)),
           t \in Owing <=> Owes(x),
           t \in Evicting => x.at \in {"check", "pop", "empty", "sub"}
    PROVE  EventInv'
  <1>1. EventTyped /\ total \in Int /\ total' = total /\ skewed' = skewed /\ skewed \in BOOLEAN
    BY DEF EventInv, EventTyped
  <1>2. \A p \in EventPod : IsQueue(Queue(p))
    BY <1>1 DEF EventTyped, AllQueues
  <1>3. AllQueues'
    BY DEF AllQueues
  <1>4. Stored \in Nat /\ Stored' \in Nat /\ Stored' <= Stored
    BY <1>2, StoreShrinks
  <1>5. /\ EventTyped'
        /\ Evicting' \ {t} = Evicting \ {t}
        /\ t \in Evicting' <=> x.at \in {"check", "pop", "empty", "sub"}
    BY <1>1, <1>3, TaskSteps
  <1>6. Evicting # {} => Evicting' # {}
    BY <1>5
  <1>7. /\ Uncounted \in Nat /\ Uncounted' \in Nat
        /\ Uncounted' = (IF t \in Owing THEN Uncounted - 1 ELSE Uncounted) + (IF Owes(x) THEN 1 ELSE 0)
    BY <1>1, OwedByOne
  <1>8. Uncounted' = Uncounted
    <2>1. CASE Owes(x)
      BY <1>7, <2>1, SMTT(30)
    <2>2. CASE ~Owes(x)
      BY <1>7, <2>2, SMTT(30)
    <2>. QED  BY <2>1, <2>2
  <1>9. skewed \/ Stored' + Uncounted' <= total
    <2>1. skewed \/ Stored + Uncounted <= total
      BY DEF EventInv
    <2>. QED  BY <1>1, <1>4, <1>7, <1>8, <2>1, StillCovered
  <1>10. skewed \/ Evicting' # {} \/ Stored' <= MAX_EVENTS
    <2>1. skewed \/ Evicting # {} \/ Stored <= MAX_EVENTS
      BY DEF EventInv
    <2>2. Stored <= MAX_EVENTS => Stored' <= MAX_EVENTS
      BY <1>4, EventAssumption, SMTT(30)
    <2>. QED  BY <1>6, <2>1, <2>2
  <1>. QED  BY <1>1, <1>5, <1>9, <1>10, SMTT(30) DEF EventInv

\* An eviction takes an event first and owes it to the counter until then.
LEMMA PopKeeps ==
    ASSUME EventInv, NEW t \in Thread, pop_oldest(t)
    PROVE  EventInv'
  <1>0. PICK p \in EventPod : p = thread[t].pod
    BY DEF pop_oldest, EventInv, EventTyped
  <1> DEFINE q    == Queue(p)
             rest == IF q = <<>> THEN <<>> ELSE Tail(q)
             next == [at |-> IF rest = <<>> THEN "empty" ELSE "sub", pod |-> p, popped |-> Popped(p)]
  <1>1. thread[t].at = "pop" /\ UNCHANGED <<total, skewed>>
    BY DEF pop_oldest
  <1>2. EventTyped /\ total \in Int /\ total' \in Int /\ skewed' \in BOOLEAN
    BY <1>1 DEF EventInv, EventTyped
  <1>3. t \notin Owing /\ t \in Evicting
    BY <1>1 DEF Owing, Evicting
  <1>4. skewed \/ Stored + Uncounted <= total
    BY DEF EventInv
  <1>5. CASE Step(t, [at |-> "sub", popped |-> FALSE]) /\ UNCHANGED events
    <2> DEFINE x == [at |-> "sub", popped |-> FALSE]
    <2>1. TaskOK(x) /\ ~Owes(x) /\ x.at = "sub"
      BY DEF TaskOK, Owes
    <2>2. events' = [r \in EventPod |-> events'[r]] /\ AllQueues' /\ Stored' = Stored /\ Stored \in Nat
      BY <1>2, <1>5, SameEvents
    <2> HIDE DEF x
    <2>3. Step(t, x)
      BY <1>5 DEF x
    <2>4. EventTyped' /\ t \in Evicting'
      BY <1>2, <2>1, <2>2, <2>3, TaskSteps
    <2>5. /\ Uncounted \in Nat /\ Uncounted' \in Nat
          /\ Uncounted' = (IF t \in Owing THEN Uncounted - 1 ELSE Uncounted) + (IF Owes(x) THEN 1 ELSE 0)
      BY <1>2, <2>3, OwedByOne
    <2>6. Uncounted' = Uncounted
      BY <1>3, <2>1, <2>5, SMTT(30)
    <2>. QED  BY <1>1, <1>4, <2>2, <2>4, <2>6 DEF EventInv
  <1>6. CASE events' = [events EXCEPT ![p] = rest] /\ Step(t, next)
    <2>1. IsQueue(q) /\ Len(q) \in Nat
      <3>1. IsQueue(q)
        BY <1>2 DEF EventTyped, AllQueues
      <3>2. PICK S : q \in Seq(S)
        BY <3>1 DEF IsQueue
      <3>. QED  BY <3>1, <3>2, SMTT(30)
    <2>2. IsQueue(rest) /\ Len(rest) = IF Popped(p) THEN Len(q) - 1 ELSE Len(q)
      <3>1. CASE q = <<>>
        BY <3>1, EmptyQueue, SMTT(30) DEF Popped
      <3>2. CASE q # <<>>
        BY <2>1, <3>2, QueueShrinks DEF Popped
      <3>. QED  BY <3>1, <3>2
    <2>3. Popped(p) \in BOOLEAN /\ (Popped(p) => Len(q) >= 1)
      <3>1. PICK S : q \in Seq(S)
        BY <2>1 DEF IsQueue
      <3>. QED  BY <3>1, SMTT(30) DEF Popped
    <2>4. TaskOK(next) /\ (Owes(next) <=> Popped(p)) /\ next.at \in {"empty", "sub"}
      BY <1>2, <2>3 DEF TaskOK, Owes
    <2> HIDE DEF next, rest
    <2>5. events' = [r \in EventPod |-> events'[r]] /\ events'[p] = rest
      BY <1>2, <1>6 DEF EventTyped
    <2>6. \A r \in EventPod \ {p} : Queue(r)' = Queue(r)
      BY <1>2, <1>6 DEF EventTyped, Queue
    <2>7. IsQueue(Queue(p)') /\ Len(Queue(p)') <= Len(rest)
      <3>1. Queue(p)' = <<>> \/ Queue(p)' = rest
        BY <2>5 DEF Queue
      <3>2. Len(rest) \in Nat
        BY <2>1, <2>2, <2>3, SMTT(30)
      <3>3. CASE Queue(p)' = <<>>
        BY <3>2, <3>3, EmptyQueue, SMTT(30)
      <3>4. CASE Queue(p)' = rest
        BY <2>2, <3>2, <3>4, SMTT(30)
      <3>. QED  BY <3>1, <3>3, <3>4
    <2>8. \A r \in EventPod : IsQueue(Queue(r)) /\ IsQueue(Queue(r)')
      BY <1>2, <2>6, <2>7 DEF EventTyped, AllQueues
    <2>9. /\ Stored \in Nat /\ Stored' \in Nat
          /\ Len(Queue(p)) \in Nat /\ Len(Queue(p)') \in Nat
          /\ Stored' <= Stored - Len(Queue(p)) + Len(Queue(p)')
      BY <2>6, <2>8, StoreChanges
    <2>10. EventTyped' /\ t \in Evicting'
      <3>1. AllQueues'
        BY <2>8 DEF AllQueues
      <3>. QED  BY <1>2, <1>6, <2>4, <2>5, <3>1, TaskSteps
    <2>11. /\ Uncounted \in Nat /\ Uncounted' \in Nat
           /\ Uncounted' = (IF t \in Owing THEN Uncounted - 1 ELSE Uncounted) + (IF Owes(next) THEN 1 ELSE 0)
      BY <1>2, <1>6, OwedByOne
    <2>12. CASE Popped(p)
      <3>1. Stored' <= Stored - 1
        BY <2>2, <2>3, <2>7, <2>9, <2>12, SMTT(30)
      <3>2. Uncounted' = Uncounted + 1
        BY <1>3, <2>4, <2>11, <2>12
      <3>3. skewed' \/ Stored' + Uncounted' <= total'
        BY <1>1, <1>2, <1>4, <2>9, <2>11, <3>1, <3>2, OwedInstead
      <3>. QED  BY <2>10, <3>3 DEF EventInv
    <2>13. CASE ~Popped(p)
      <3>1. Stored' <= Stored
        BY <2>2, <2>7, <2>9, <2>13, SMTT(30)
      <3>2. Uncounted' = Uncounted
        BY <1>3, <2>4, <2>11, <2>13, SMTT(30)
      <3>3. skewed' \/ Stored' + Uncounted' <= total'
        BY <1>1, <1>2, <1>4, <2>9, <2>11, <3>1, <3>2, StillCovered
      <3>. QED  BY <2>10, <3>3 DEF EventInv
    <2>. QED  BY <2>12, <2>13
  <1>. QED  BY <1>0, <1>5, <1>6 DEF pop_oldest

\* Removing an emptied queue may drop events that stay counted.
LEMMA RemoveKeeps ==
    ASSUME EventInv, NEW t \in Thread, remove_empty(t)
    PROVE  EventInv'
  <1>1. PICK p \in EventPod : p = thread[t].pod
    BY DEF remove_empty, EventInv, EventTyped
  <1>2. PICK x : x = [at |-> "sub", popped |-> thread[t].popped]
    OBVIOUS
  <1>3. /\ thread[t].at = "empty" /\ events' = [events EXCEPT ![p] = Absent]
        /\ Step(t, x) /\ UNCHANGED <<total, skewed>>
    BY <1>1, <1>2 DEF remove_empty
  <1>4. EventTyped /\ thread[t].popped \in BOOLEAN
    BY <1>3 DEF EventInv, EventTyped
  <1>5. TaskOK(x) /\ x.at = "sub" /\ (Owes(x) <=> t \in Owing)
    BY <1>2, <1>3, <1>4 DEF TaskOK, Owes, Owing
  <1>6. events' = [r \in EventPod |-> events'[r]]
    BY <1>3, <1>4 DEF EventTyped
  <1>7. ASSUME NEW r \in EventPod PROVE IsQueue(Queue(r)') /\ Len(Queue(r)') <= Len(Queue(r))
    <2>1. PICK S : Queue(r) \in Seq(S)
      BY <1>4 DEF EventTyped, AllQueues, IsQueue
    <2>2. Len(Queue(r)) \in Nat
      BY <2>1, SMTT(30)
    <2>3. Queue(r)' = <<>> \/ Queue(r)' = Queue(r)
      BY <1>3, <1>4 DEF Queue, EventTyped
    <2>4. IsQueue(Queue(r))
      BY <1>4 DEF EventTyped, AllQueues
    <2>. QED  BY <2>2, <2>3, <2>4, EmptyQueue, SMTT(30)
  <1>. QED  BY <1>3, <1>5, <1>6, <1>7, RemovalKeeps

\* What was owed to the counter is counted off.
LEMMA CountOffKeeps ==
    ASSUME EventInv, NEW t \in Thread, count_off(t)
    PROVE  EventInv'
  <1>1. PICK x : x = [at |-> "check"]
    OBVIOUS
  <1>2. /\ thread[t].at = "sub" /\ total' = (IF thread[t].popped THEN total - 1 ELSE total)
        /\ Step(t, x) /\ UNCHANGED <<events, skewed>>
    BY <1>1 DEF count_off
  <1>3. EventTyped /\ thread[t].popped \in BOOLEAN /\ total \in Int /\ skewed' \in BOOLEAN
    BY <1>2 DEF EventInv, EventTyped
  <1>4. total' \in Int
    BY <1>2, <1>3, SMTT(30)
  <1>5. TaskOK(x) /\ ~Owes(x) /\ x.at = "check"
    BY <1>1 DEF TaskOK, Owes
  <1>6. t \in Owing <=> thread[t].popped
    BY <1>2, <1>3 DEF Owing
  <1>7. events' = [p \in EventPod |-> events'[p]] /\ AllQueues' /\ Stored' = Stored /\ Stored \in Nat
    BY <1>2, <1>3, SameEvents
  <1>8. EventTyped' /\ t \in Evicting'
    BY <1>2, <1>3, <1>4, <1>5, <1>7, TaskSteps
  <1>9. /\ Uncounted \in Nat /\ Uncounted' \in Nat
        /\ Uncounted' = (IF t \in Owing THEN Uncounted - 1 ELSE Uncounted) + (IF Owes(x) THEN 1 ELSE 0)
    BY <1>2, <1>3, OwedByOne
  <1>10. skewed \/ Stored + Uncounted <= total
    BY DEF EventInv
  <1>11. skewed' \/ Stored' + Uncounted' <= total'
    <2>1. CASE thread[t].popped
      <3>1. Uncounted' = Uncounted - 1 /\ total' = total - 1
        BY <1>2, <1>5, <1>6, <1>9, <2>1, SMTT(30)
      <3>2. ASSUME NEW i \in Nat, NEW u \in Nat, NEW n \in Int, i + u <= n PROVE i + (u - 1) <= n - 1
        BY <3>2, SMTT(30)
      <3>. QED  BY <1>2, <1>3, <1>7, <1>9, <1>10, <3>1, <3>2
    <2>2. CASE ~thread[t].popped
      <3>1. Uncounted' = Uncounted /\ total' = total
        BY <1>2, <1>5, <1>6, <1>9, <2>2, SMTT(30)
      <3>. QED  BY <1>2, <1>7, <1>10, <3>1
    <2>. QED  BY <1>3, <2>1, <2>2
  <1>. QED  BY <1>8, <1>11 DEF EventInv

\* The sweeper takes expired events out of the queues.
LEMMA SweepKeeps ==
    ASSUME EventInv, NEW t \in Thread, sweep_events(t)
    PROVE  EventInv'
  <1>1. PICK expired :
           /\ events' = [p \in EventPod |-> IF events[p] = Absent THEN Absent
                                            ELSE retain(events[p], expired[p])]
           /\ Step(t, [at |-> "swept", empty |-> {p \in EventPod : events'[p] = <<>>}])
    BY DEF sweep_events
  <1>2. PICK x : x = [at |-> "swept", empty |-> {p \in EventPod : events'[p] = <<>>}]
    OBVIOUS
  <1>3. Step(t, x) /\ UNCHANGED <<total, skewed>> /\ thread[t] = Idle
    BY <1>1, <1>2 DEF sweep_events
  <1>4. EventTyped
    BY DEF EventInv
  <1>5. TaskOK(x) /\ ~Owes(x)
    BY <1>2 DEF TaskOK, Owes
  <1>6. t \notin Owing /\ t \notin Evicting
    BY <1>3, SMTT(30) DEF Owing, Evicting, Idle
  <1>7. events' = [r \in EventPod |-> events'[r]]
    BY <1>1
  <1>8. ASSUME NEW r \in EventPod PROVE IsQueue(Queue(r)') /\ Len(Queue(r)') <= Len(Queue(r))
    <2>1. PICK S : Queue(r) \in Seq(S)
      BY <1>4 DEF EventTyped, AllQueues, IsQueue
    <2>2. Len(Queue(r)) \in Nat
      BY <2>1, SMTT(30)
    <2>3. IsQueue(Queue(r))
      BY <1>4 DEF EventTyped, AllQueues
    <2>4. Queue(r)' = <<>> \/ (events[r] # Absent /\ Queue(r)' = retain(events[r], expired[r]))
      BY <1>1 DEF Queue
    <2>5. CASE Queue(r)' = <<>>
      BY <2>2, <2>5, EmptyQueue, SMTT(30)
    <2>6. CASE events[r] # Absent /\ Queue(r)' = retain(events[r], expired[r])
      <3>1. Queue(r) = events[r]
        BY <2>6 DEF Queue
      <3>2. IsQueue(events[r])
        BY <2>3, <3>1
      <3>. QED  BY <2>6, <3>1, <3>2, RetainShrinks
    <2>. QED  BY <2>4, <2>5, <2>6
  <1>. QED  BY <1>3, <1>5, <1>6, <1>7, <1>8, RemovalKeeps

\* The sweeper removes the queues it found empty, with what came in since.
LEMMA RemoveSweptKeeps ==
    ASSUME EventInv, NEW t \in Thread, remove_swept(t)
    PROVE  EventInv'
  <1>1. PICK x : x = [at |-> "count"]
    OBVIOUS
  <1>2. /\ thread[t].at = "swept" /\ Step(t, x) /\ UNCHANGED <<total, skewed>>
        /\ events' = [p \in EventPod |-> IF p \in thread[t].empty THEN Absent ELSE events[p]]
    BY <1>1 DEF remove_swept
  <1>3. EventTyped
    BY DEF EventInv
  <1>4. TaskOK(x) /\ ~Owes(x)
    BY <1>1 DEF TaskOK, Owes
  <1>5. t \notin Owing /\ t \notin Evicting
    BY <1>2 DEF Owing, Evicting
  <1>6. events' = [r \in EventPod |-> events'[r]]
    BY <1>2
  <1>7. ASSUME NEW r \in EventPod PROVE IsQueue(Queue(r)') /\ Len(Queue(r)') <= Len(Queue(r))
    <2>1. PICK S : Queue(r) \in Seq(S)
      BY <1>3 DEF EventTyped, AllQueues, IsQueue
    <2>2. Len(Queue(r)) \in Nat
      BY <2>1, SMTT(30)
    <2>3. Queue(r)' = <<>> \/ Queue(r)' = Queue(r)
      BY <1>2 DEF Queue
    <2>4. IsQueue(Queue(r))
      BY <1>3 DEF EventTyped, AllQueues
    <2>. QED  BY <2>2, <2>3, <2>4, EmptyQueue, SMTT(30)
  <1>. QED  BY <1>2, <1>4, <1>5, <1>6, <1>7, RemovalKeeps

\* Counting the queues changes nothing.
LEMMA CountKeeps ==
    ASSUME EventInv, NEW t \in Thread, resync_count(t)
    PROVE  EventInv'
  <1>1. PICK x : x = [at |-> "store", n |-> Stored]
    OBVIOUS
  <1>2. thread[t].at = "count" /\ Step(t, x) /\ UNCHANGED <<events, total, skewed>>
    BY <1>1 DEF resync_count
  <1>3. EventTyped
    BY DEF EventInv
  <1>4. events' = [p \in EventPod |-> events'[p]] /\ AllQueues' /\ Stored' = Stored /\ Stored \in Nat
    BY <1>2, <1>3, SameEvents
  <1>5. TaskOK(x) /\ ~Owes(x)
    <2>1. x.at = "store" /\ x.n = Stored
      BY <1>1
    <2>2. x.n \in Int
      BY <1>4, <2>1, SMTT(30)
    <2>. QED  BY <2>1, <2>2 DEF TaskOK, Owes
  <1>6. t \notin Owing /\ t \notin Evicting
    BY <1>2 DEF Owing, Evicting
  <1>7. ASSUME NEW r \in EventPod PROVE IsQueue(Queue(r)') /\ Len(Queue(r)') <= Len(Queue(r))
    <2>1. PICK S : Queue(r) \in Seq(S)
      BY <1>3 DEF EventTyped, AllQueues, IsQueue
    <2>2. Len(Queue(r)) \in Nat
      BY <2>1, SMTT(30)
    <2>3. Queue(r)' = Queue(r)
      BY <1>2 DEF Queue
    <2>4. IsQueue(Queue(r))
      BY <1>3 DEF EventTyped, AllQueues
    <2>. QED  BY <2>2, <2>3, <2>4, SMTT(30)
  <1>. QED  BY <1>2, <1>4, <1>5, <1>6, <1>7, RemovalKeeps

\* A counter set too low by the time it is set is marked.
LEMMA ResyncKeeps ==
    ASSUME EventInv, NEW t \in Thread, resync_total(t)
    PROVE  EventInv'
  <1>1. /\ thread[t].at = "store" /\ Step(t, Idle) /\ UNCHANGED events
        /\ total' = thread[t].n /\ skewed' = (skewed \/ thread[t].n < Stored + Uncounted)
    BY DEF resync_total
  <1>2. EventTyped /\ thread[t].n \in Int /\ skewed \in BOOLEAN
    BY <1>1 DEF EventInv, EventTyped
  <1>3. events' = [p \in EventPod |-> events'[p]] /\ AllQueues' /\ Stored' = Stored /\ Stored \in Nat
    BY <1>1, <1>2, SameEvents
  <1>4. TaskOK(Idle) /\ ~Owes(Idle)
    BY DEF TaskOK, Owes, Idle
  <1>5. t \notin Owing /\ t \notin Evicting
    BY <1>1 DEF Owing, Evicting
  <1>6. total' \in Int /\ skewed' \in BOOLEAN
    BY <1>1, <1>2
  <1>7. EventTyped' /\ Evicting' \ {t} = Evicting \ {t}
    BY <1>1, <1>2, <1>3, <1>4, <1>6, TaskSteps
  <1>8. /\ Uncounted \in Nat /\ Uncounted' \in Nat
        /\ Uncounted' = (IF t \in Owing THEN Uncounted - 1 ELSE Uncounted) + (IF Owes(Idle) THEN 1 ELSE 0)
    BY <1>1, <1>2, OwedByOne
  <1>9. Uncounted' = Uncounted
    BY <1>4, <1>5, <1>8, SMTT(30)
  <1>10. skewed' \/ (~skewed /\ Stored + Uncounted <= thread[t].n)
    <2>1. ASSUME NEW i \in Nat, NEW u \in Nat, NEW n \in Int, ~(n < i + u) PROVE i + u <= n
      BY <2>1, SMTT(30)
    <2>. QED  BY <1>1, <1>2, <1>3, <1>8, <2>1
  <1>11. skewed \/ Evicting # {} \/ Stored <= MAX_EVENTS
    BY DEF EventInv
  <1>12. Evicting # {} => Evicting' # {}
    BY <1>5, <1>7
  <1>. QED  BY <1>1, <1>3, <1>7, <1>9, <1>10, <1>11, <1>12 DEF EventInv

\* The store starts empty.
LEMMA EventInitHolds == EventInit => EventInv
  <1> SUFFICES ASSUME EventInit PROVE EventInv
    OBVIOUS
  <1>1. \A p \in EventPod : Queue(p) = <<>>
    BY DEF EventInit, Queue
  <1>2. Held = {}
    BY <1>1, SMTT(30) DEF Held
  <1>3. {t \in Thread : thread[t].at \in {"empty", "sub"} /\ thread[t].popped} = {}
    BY DEF EventInit, Idle
  <1>4. Stored = 0 /\ Uncounted = 0
    BY <1>2, <1>3, FS_EmptySet DEF Stored, Uncounted
  <1>5. EventTyped
    <2>1. AllQueues
      BY <1>1, EmptyQueue DEF AllQueues
    <2>2. \A t \in Thread : thread[t].at = "idle"
      BY DEF EventInit, Idle
    <2>3. events = [p \in EventPod |-> events[p]]
      BY DEF EventInit
    <2>3a. thread = [t \in Thread |-> thread[t]]
      BY DEF EventInit
    <2>4. total \in Int
      BY SMTT(30) DEF EventInit
    <2>5. skewed \in BOOLEAN
      BY DEF EventInit
    <2>. QED  BY <2>1, <2>2, <2>3, <2>3a, <2>4, <2>5 DEF EventTyped
  <1>. QED  BY <1>4, <1>5, EventAssumption, SMTT(30) DEF EventInit, EventInv

\* Every step of a task keeps the invariant.
LEMMA EventInvIsInductive == EventInv /\ [EventNext]_eventVars => EventInv'
  <1> SUFFICES ASSUME EventInv, [EventNext]_eventVars PROVE EventInv'
    OBVIOUS
  <1>1. CASE UNCHANGED eventVars
    BY <1>1 DEF eventVars, EventInv, EventTyped, AllQueues, Queue, Stored, Held, Uncounted, Evicting
  <1>2. ASSUME NEW t \in Thread,
               \/ \E p \in EventPod, type \in EventType : insert(t, p, type)
               \/ check_cap(t) \/ pop_oldest(t) \/ remove_empty(t) \/ count_off(t)
               \/ sweep_events(t) \/ remove_swept(t) \/ resync_count(t) \/ resync_total(t)
        PROVE  EventInv'
    BY <1>2, InsertKeeps, CheckKeeps, PopKeeps, RemoveKeeps, CountOffKeeps, SweepKeeps,
       RemoveSweptKeeps, CountKeeps, ResyncKeeps
  <1>. QED  BY <1>1, <1>2 DEF EventNext

\* However many tasks report and sweep, and however their steps overlap, the
\* store is within its cap when they have left it, unless the counter was set
\* from an outdated count (PodEventStore).
THEOREM StoreStaysWithinCap == EventSpec => []CapHolds
  <1>1. EventInit => EventInv
    BY EventInitHolds
  <1>2. EventInv /\ [EventNext]_eventVars => EventInv'
    BY EventInvIsInductive
  <1>3. EventInv => CapHolds
    <2> SUFFICES ASSUME EventInv, \A t \in Thread : thread[t] = Idle
                 PROVE  skewed \/ Stored <= MAX_EVENTS
      BY DEF CapHolds
    <2>1. Evicting = {}
      BY SMTT(30) DEF Evicting, Idle
    <2>. QED  BY <2>1 DEF EventInv
  <1>. QED  BY <1>1, <1>2, <1>3, PTL DEF EventSpec

=============================================================================
