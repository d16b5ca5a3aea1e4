---------------------------- MODULE PodEventStore ---------------------------
(***************************************************************************)
(* The pod events the leader keeps in memory: a map of queues, locked pod  *)
(* by pod, and a counter of all events that no lock protects.  Reports     *)
(* arrive concurrently, each one evicts when the counter is over the cap,  *)
(* and a sweeper removes expired events and sets the counter to what it    *)
(* counted.                                                                *)
(*                                                                         *)
(* Timestamps come from the agents in any order: which pod holds the       *)
(* oldest event, and which events have expired, is left open.              *)
(***************************************************************************)
EXTENDS Proposals, Sequences, Functions

CONSTANTS
    EventPod,        \* pods events are about
    EventType,       \* what tells events of a pod apart
    Thread,          \* the tasks that run concurrently
    MAX_EVENTS, MAX_EVENTS_PER_POD,
    MaxReports,      \* bound on reported events
    MaxSweeps        \* bound on sweeps

ASSUME EventAssumption ==
    /\ MAX_EVENTS \in Nat /\ MAX_EVENTS_PER_POD \in Nat
    /\ IsFiniteSet(EventPod) /\ IsFiniteSet(Thread)

VARIABLES
    events,     \* the queue of each pod, Absent when the map has none
    total,      \* the counter
    thread,     \* what each task does
    reported, sweeps,
    skewed      \* the counter was set to a count too low by then, and no report
                \* has found it right since

eventVars == <<events, total, thread, reported, sweeps, skewed>>

Idle == [at |-> "idle"]

EventInit ==
    /\ events = [p \in EventPod |-> Absent]
    /\ total = 0
    /\ thread = [t \in Thread |-> Idle]
    /\ reported = 0 /\ sweeps = 0
    /\ skewed = FALSE

Queue(p) == IF events[p] = Absent THEN <<>> ELSE events[p]

\* The places of the queues that hold an event, and how many there are.
Held   == UNION {{p} \X DOMAIN Queue(p) : p \in EventPod}
Stored == Cardinality(Held)

\* Events popped by an eviction that has not counted them off yet.
Uncounted == Cardinality({t \in Thread : thread[t].at \in {"empty", "sub"} /\ thread[t].popped})

Step(t, next) == thread' = [thread EXCEPT ![t] = next]

-----------------------------------------------------------------------------
\* One event, under the lock of its pod: an event like a stored one only
\* updates it; otherwise it is queued and counted, and the pod's oldest go.
insert(t, p, type) ==
    /\ thread[t] = Idle /\ reported < MaxReports
    /\ reported' = reported + 1
    /\ \/ /\ type \in Range(Queue(p))
          /\ UNCHANGED <<events, total, thread>>
       \/ /\ type \notin Range(Queue(p))
          /\ LET queue == Append(Queue(p), type)
                 over  == IF Len(queue) > MAX_EVENTS_PER_POD THEN Len(queue) - MAX_EVENTS_PER_POD ELSE 0
             IN  /\ events' = [events EXCEPT ![p] = SubSeq(queue, over + 1, Len(queue))]
                 /\ total' = total + 1 - over
          /\ Step(t, [at |-> "check"])
    /\ UNCHANGED <<sweeps, skewed>>

OverCap(n) == n > MAX_EVENTS

\* The loop's test, then the scan for a pod to evict from.
check_cap(t) ==
    /\ thread[t].at = "check"
    /\ \/ /\ ~OverCap(total)
          /\ skewed' = (skewed /\ total < Stored + Uncounted)
          /\ Step(t, Idle)
       \/ /\ OverCap(total)
          /\ UNCHANGED skewed
          /\ \/ \E p \in EventPod : Queue(p) # <<>> /\ Step(t, [at |-> "pop", pod |-> p])
             \/ /\ \A p \in EventPod : Queue(p) = <<>>
                /\ Step(t, [at |-> "count"])
    /\ UNCHANGED <<events, total, reported, sweeps>>

\* Mutation: an event is counted off although another eviction took it.
AlwaysPopped(p) == TRUE

Popped(p) == Queue(p) # <<>>

\* Under the pod's lock, which is dropped before an emptied queue is removed
\* from the map.  Another eviction may have taken the event already.
pop_oldest(t) ==
    /\ thread[t].at = "pop"
    /\ LET p    == thread[t].pod
           rest == IF Queue(p) = <<>> THEN <<>> ELSE Tail(Queue(p))
       IN \/ /\ events[p] = Absent
             /\ Step(t, [at |-> "sub", popped |-> FALSE])
             /\ UNCHANGED events
          \/ /\ events[p] # Absent
             /\ events' = [events EXCEPT ![p] = rest]
             /\ Step(t, [at |-> IF rest = <<>> THEN "empty" ELSE "sub", pod |-> p, popped |-> Popped(p)])
    /\ UNCHANGED <<total, reported, sweeps, skewed>>

\* What was reported in between is removed with the queue, and stays counted.
remove_empty(t) ==
    /\ thread[t].at = "empty"
    /\ events' = [events EXCEPT ![thread[t].pod] = Absent]
    /\ Step(t, [at |-> "sub", popped |-> thread[t].popped])
    /\ UNCHANGED <<total, reported, sweeps, skewed>>

count_off(t) ==
    /\ thread[t].at = "sub"
    /\ total' = IF thread[t].popped THEN total - 1 ELSE total
    /\ Step(t, [at |-> "check"])
    /\ UNCHANGED <<events, reported, sweeps, skewed>>

-----------------------------------------------------------------------------
\* What is left of a queue without its expired events, in the same order.
retain(queue, expired) ==
    LET kept  == {i \in DOMAIN queue : queue[i] \notin expired}
        at(k) == CHOOSE i \in kept : Cardinality({j \in kept : j <= i}) = k
    IN  [k \in 1 .. Cardinality(kept) |-> queue[at(k)]]

\* The sweeper removes expired events, then the queues it left empty.
sweep_events(t) ==
    /\ thread[t] = Idle /\ sweeps < MaxSweeps
    /\ sweeps' = sweeps + 1
    /\ \E expired \in [EventPod -> SUBSET EventType] :
        /\ events' = [p \in EventPod |-> IF events[p] = Absent THEN Absent
                                         ELSE retain(events[p], expired[p])]
        /\ Step(t, [at |-> "swept", empty |-> {p \in EventPod : events'[p] = <<>>}])
    /\ UNCHANGED <<total, reported, skewed>>

remove_swept(t) ==
    /\ thread[t].at = "swept"
    /\ events' = [p \in EventPod |-> IF p \in thread[t].empty THEN Absent ELSE events[p]]
    /\ Step(t, [at |-> "count"])
    /\ UNCHANGED <<total, reported, sweeps, skewed>>

\* The queues are counted, and then the counter is set.
resync_count(t) ==
    /\ thread[t].at = "count"
    /\ Step(t, [at |-> "store", n |-> Stored])
    /\ UNCHANGED <<events, total, reported, sweeps, skewed>>

resync_total(t) ==
    /\ thread[t].at = "store"
    /\ total' = thread[t].n
    /\ skewed' = (skewed \/ thread[t].n < Stored + Uncounted)
    /\ Step(t, Idle)
    /\ UNCHANGED <<events, reported, sweeps>>

EventNext ==
    \E t \in Thread :
        \/ \E p \in EventPod, type \in EventType : insert(t, p, type)
        \/ check_cap(t) \/ pop_oldest(t) \/ remove_empty(t) \/ count_off(t)
        \/ sweep_events(t) \/ remove_swept(t) \/ resync_count(t) \/ resync_total(t)

EventSpec == EventInit /\ [][EventNext]_eventVars

-----------------------------------------------------------------------------
EventTypeOK ==
    /\ \A p \in EventPod : /\ Range(Queue(p)) \subseteq EventType
                           /\ Len(Queue(p)) <= MAX_EVENTS_PER_POD
    /\ total \in Int /\ skewed \in BOOLEAN

\* When no task is inside the store it keeps at most MAX_EVENTS events, although
\* counter and queues change separately and evictions overlap.  The exception
\* is a counter set from a count that a report or an eviction had overtaken:
\* then more may stay until a sweep has counted again and a report evicts.
CapHolds ==
    (\A t \in Thread : thread[t] = Idle) => skewed \/ Stored <= MAX_EVENTS

=============================================================================
