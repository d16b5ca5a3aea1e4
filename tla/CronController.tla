--------------------------- MODULE CronController ---------------------------
(***************************************************************************)
(* Cron workloads: submission, the leader's evaluation loop, and what a    *)
(* change of leader does to a trigger that is under way                    *)
(* (CronController::evaluate_and_trigger, the SubmitCronWorkload and       *)
(* TriggerCronWorkload commands).                                          *)
(*                                                                         *)
(* A schedule is the set Due of times at which a run is scheduled.  The    *)
(* leader evaluates on a clock of its own and on its local replica, which  *)
(* for a new leader may not have applied the whole log yet (behind).  A    *)
(* proposal whose leader is deposed is an orphan if the new leader's log   *)
(* holds it: it is then applied before anything the new leader proposes.   *)
(***************************************************************************)
EXTENDS Naturals, FiniteSets

CONSTANTS
    Cron,          \* cron workloads
    Due,           \* times at which their schedule asks for a run
    MaxTime,       \* the clocks stop here
    MaxSkew,       \* how far a leader's clock may be ahead of another's
    MaxSubmits,    \* bound on submissions
    MaxFailovers,  \* bound on changes of leader
    None           \* nothing in flight

Time == 0 .. MaxTime + MaxSkew

ASSUME CronAssumption ==
    /\ MaxTime \in Nat /\ MaxSkew \in Nat
    /\ MaxSubmits \in Nat /\ MaxFailovers \in Nat
    /\ Due \subseteq Time
    /\ None \notin Time

\* The cron record and its checkpoint: written together, by either command.
Record  == [suspend : BOOLEAN, last_triggered_at : Time]
Records == [Cron -> Record \cup {None}]

Trigger == [cron : Cron, due : Due]
Submit  == [cron : Cron, suspend : BOOLEAN, at : Time]
Listed  == [cron : Cron, suspend : BOOLEAN]

ASSUME NoneAssumption == None \notin Record /\ None \notin Trigger

VARIABLES
    now,         \* the slowest clock
    skew,        \* how far the leader's clock is ahead of it
    crons,       \* Records, after all committed entries
    replica,     \* Records, as far as a follower has applied the log
    behind,      \* BOOLEAN: the leader still reads replica
    todo,        \* SUBSET Listed: crons that this round has yet to evaluate
    proposed,    \* Trigger that the leader waits for, or None
    orphans,     \* proposals of the last leader in the new leader's log
    submitting,  \* SUBSET Submit: proposals of the admin service
    stored,      \* [Cron -> [Due -> Nat]]: how often a run was stored
    submitted,   \* [Cron -> SUBSET Time]: the checkpoints that submissions set
    resets,      \* [Cron -> [Due -> Nat]]: submissions with a checkpoint before it
    submits,
    failovers

state  == <<crons, stored, submitted, resets>>
leader == <<skew, replica, behind, todo, proposed>>
cronVars == <<now, state, leader, orphans, submitting, submits, failovers>>

CronTypeOK ==
    /\ now \in 0 .. MaxTime
    /\ skew \in 0 .. MaxSkew
    /\ crons \in Records
    /\ replica \in Records
    /\ behind \in BOOLEAN
    /\ todo \subseteq Listed
    /\ proposed \in Trigger \cup {None}
    /\ orphans \subseteq Trigger \cup Submit
    /\ submitting \subseteq Submit
    /\ stored \in [Cron -> [Due -> Nat]]
    /\ submitted \in [Cron -> SUBSET Time]
    /\ resets \in [Cron -> [Due -> Nat]]
    /\ submits \in 0 .. MaxSubmits
    /\ failovers \in 0 .. MaxFailovers

CronInit ==
    /\ now = 0
    /\ skew \in 0 .. MaxSkew
    /\ crons = [c \in Cron |-> None]
    /\ replica = crons
    /\ behind = FALSE
    /\ todo = {}
    /\ proposed = None
    /\ orphans = {}
    /\ submitting = {}
    /\ stored = [c \in Cron |-> [t \in Due |-> 0]]
    /\ submitted = [c \in Cron |-> {}]
    /\ resets = [c \in Cron |-> [t \in Due |-> 0]]
    /\ submits = 0
    /\ failovers = 0

\* What the leader's own storage holds, and what its clock shows.
Local == IF behind THEN replica ELSE crons
Clock == now + skew

\* The log holds nothing that the leader's state machine has yet to apply.
CaughtUp == ~behind /\ orphans = {}

-----------------------------------------------------------------------------
(* Commands, as the state machine applies them.                            *)

ApplySubmit(m) ==
    /\ crons' = [crons EXCEPT ![m.cron] =
                    [suspend |-> m.suspend, last_triggered_at |-> m.at]]
    /\ submitted' = [submitted EXCEPT ![m.cron] = @ \cup {m.at}]
    /\ resets' = [resets EXCEPT ![m.cron] = [t \in Due |-> IF m.at < t THEN @[t] + 1 ELSE @[t]]]
    /\ UNCHANGED stored

\* Mutation: the run's workload is left to an entry of its own, which is lost.
ApplyCheckpointAlone(t) ==
    /\ crons' = [crons EXCEPT ![t.cron].last_triggered_at = t.due]
    /\ UNCHANGED <<stored, submitted, resets>>

\* Mutation: the checkpoint is left to an entry of its own, which is lost.
ApplyRunAlone(t) ==
    /\ stored' = [stored EXCEPT ![t.cron][t.due] = @ + 1]
    /\ UNCHANGED <<crons, submitted, resets>>

\* The run's workload and the checkpoint: one batch.
ApplyTrigger(t) ==
    /\ crons' = [crons EXCEPT ![t.cron].last_triggered_at = t.due]
    /\ stored' = [stored EXCEPT ![t.cron][t.due] = @ + 1]
    /\ UNCHANGED <<submitted, resets>>

-----------------------------------------------------------------------------
(* The admin service.                                                      *)

\* The handler takes the checkpoint from its clock and proposes.
SubmitCronWorkload(c, suspend) ==
    /\ submits < MaxSubmits /\ submits' = submits + 1
    /\ submitting' = submitting \cup {[cron |-> c, suspend |-> suspend, at |-> Clock]}
    /\ UNCHANGED <<now, state, leader, orphans, failovers>>

CommitSubmit(m) ==
    /\ CaughtUp
    /\ ApplySubmit(m)
    /\ submitting' = submitting \ {m}
    /\ UNCHANGED <<now, leader, orphans, submits, failovers>>

-----------------------------------------------------------------------------
(* The evaluation loop of the leader.                                      *)

\* A tick lists the crons; evaluating the list takes a while.
Tick ==
    /\ todo = {} /\ proposed = None
    /\ todo' = {[cron |-> c, suspend |-> Local[c].suspend] :
                    c \in {d \in Cron : Local[d] # None}}
    /\ UNCHANGED <<now, skew, replica, behind, proposed, state, orphans, submitting,
                   submits, failovers>>

\* The scheduled times in (since, clock].
Missed(since) == {t \in Due : since < t /\ t <= Clock}

\* Mutation: only what falls due at this very moment is triggered.
LatestDueNow(since) == IF Clock \in Missed(since) THEN Clock ELSE None

LatestDue(since) ==
    IF Missed(since) = {} THEN None
    ELSE CHOOSE t \in Missed(since) : \A u \in Missed(since) : u <= t

\* The suspend flag is the listed one, the checkpoint is read afresh.
Evaluate(x) ==
    LET due == LatestDue(Local[x.cron].last_triggered_at) IN
    /\ proposed = None
    /\ todo' = todo \ {x}
    /\ proposed' = IF x.suspend \/ due = None THEN None
                   ELSE [cron |-> x.cron, due |-> due]
    /\ UNCHANGED <<now, skew, replica, behind, state, orphans, submitting, submits,
                   failovers>>

\* client_write returns once the leader has applied the entry, after all that
\* precedes it.
CommitTrigger ==
    /\ proposed # None
    /\ CaughtUp
    /\ ApplyTrigger(proposed)
    /\ proposed' = None
    /\ UNCHANGED <<now, skew, replica, behind, todo, orphans, submitting, submits,
                   failovers>>

-----------------------------------------------------------------------------
(* openraft: leadership, and the entries that leadership leaves behind.    *)

FollowerApplies ==
    /\ replica' = crons
    /\ ~behind /\ failovers < MaxFailovers
    /\ UNCHANGED <<now, skew, behind, todo, proposed, state, orphans, submitting,
                   submits, failovers>>

InFlight == ({proposed} \ {None}) \cup submitting \cup orphans

\* The controllers of the old leader are aborted, those of the new one start on
\* what its replica has applied; kept is what reached the new leader's log.
Failover(kept, s) ==
    /\ failovers < MaxFailovers /\ failovers' = failovers + 1
    /\ orphans' = kept
    /\ submitting' = {}
    /\ skew' = s
    /\ behind' = TRUE
    /\ todo' = {}
    /\ proposed' = None
    /\ UNCHANGED <<now, state, replica, submits>>

CatchUp ==
    /\ behind
    /\ behind' = FALSE
    /\ replica' = crons
    /\ UNCHANGED <<now, skew, todo, proposed, state, orphans, submitting, submits,
                   failovers>>

ApplyOrphan(o) ==
    /\ ~behind
    /\ IF o \in Submit THEN ApplySubmit(o) ELSE ApplyTrigger(o)
    /\ orphans' = orphans \ {o}
    /\ UNCHANGED <<now, leader, submitting, submits, failovers>>

PassTime ==
    /\ now < MaxTime
    /\ now' = now + 1
    /\ UNCHANGED <<state, leader, orphans, submitting, submits, failovers>>

-----------------------------------------------------------------------------
Loop == Tick \/ (\E x \in todo : Evaluate(x)) \/ CommitTrigger

CronNext ==
    \/ \E c \in Cron, suspend \in BOOLEAN : SubmitCronWorkload(c, suspend)
    \/ \E m \in submitting : CommitSubmit(m)
    \/ Loop
    \/ FollowerApplies
    \/ \E kept \in SUBSET InFlight, s \in 0 .. MaxSkew : Failover(kept, s)
    \/ CatchUp
    \/ \E o \in orphans : ApplyOrphan(o)
    \/ PassTime

CronSpec == CronInit /\ [][CronNext]_cronVars

-----------------------------------------------------------------------------
(* What holds.                                                             *)

\* The runs of c that have been stored.
Runs(c) == {t \in Due : stored[c][t] > 0}

(***************************************************************************)
(* The checkpoint never passes a scheduled time without a run for it or    *)
(* for a later time up to the checkpoint, whoever triggers, whatever the   *)
(* clocks show and whichever proposals survive their leader ("no ... lost  *)
(* runs across failover"; "missed runs are coalesced into a single         *)
(* trigger").                                                              *)
(***************************************************************************)
NoRunLost ==
    \A c \in Cron : crons[c] # None =>
        \/ crons[c].last_triggered_at \in submitted[c]
        \/ crons[c].last_triggered_at \in Runs(c)

(***************************************************************************)
(* No run is stored for a time at or before every submission of its cron   *)
(* ("does not backfill from the epoch").                                   *)
(***************************************************************************)
NoBackfill ==
    \A c \in Cron : \A t \in Runs(c) : resets[c][t] > 0

(***************************************************************************)
(* Under one leader a scheduled time is triggered at most once for every   *)
(* submission that set the checkpoint back before it, submissions that     *)
(* overtake a trigger included: the next evaluation reads the checkpoint   *)
(* that the trigger left.                                                  *)
(***************************************************************************)
TriggersOncePerLeader ==
    failovers = 0 => \A c \in Cron, t \in Due : stored[c][t] <= resets[c][t]

\* c is active, and t is after its checkpoint and past on every clock.
Outstanding(c, t) ==
    /\ crons[c] # None /\ ~crons[c].suspend
    /\ crons[c].last_triggered_at < t /\ t <= now

(***************************************************************************)
(* A scheduled time that has passed is eventually covered by a run at or   *)
(* after it, across failovers, unless the cron is suspended or submitted   *)
(* anew.                                                                   *)
(***************************************************************************)
DueIsRun ==
    \A c \in Cron : \A t \in Due :
        Outstanding(c, t) ~> \/ \E u \in Runs(c) : t <= u
                             \/ crons[c] # None /\ crons[c].suspend
                             \/ \E b \in submitted[c] : t <= b

-----------------------------------------------------------------------------
(* What the README says and the code does not keep.                        *)

(***************************************************************************)
(* "triggers runs atomically with checkpoint advance - no double-trigger   *)
(* or lost runs across failover": no run is stored more often than there   *)
(* were submissions before it.                                             *)
(***************************************************************************)
NoDoubleTrigger ==
    \A c \in Cron, t \in Due : stored[c][t] <= resets[c][t]

=============================================================================
